SPECIFICATION Spec
CONSTANTS
  q1 = q1 p1 = p1 q2 = q2 i1 = i1 i2 = i2 r1 = r1 r2 = r2 r3 = r3 s1 = s1 s2 = s2
  Nil = Nil
  Entry <- FlowEntry
  Id = {i1, i2}
  RequestID <- FlowRequestID
  After <- FlowAfter
  Resumer = {r1, r2, r3}
  Target <- FlowTarget
  Sub = {}
  Leavers = {}
  ChanCap = 1
  Deadline = {}
INVARIANT SecondResumeFails
CHECK_DEADLOCK FALSE
