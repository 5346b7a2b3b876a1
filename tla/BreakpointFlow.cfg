\* The two phases of one transaction, the second with a pause timeout, another
\* request with the same X-Request-ID, two Resume calls, and a watcher that may
\* leave or stop reading.
SPECIFICATION FairSpec
CONSTANTS
  q1 = q1 p1 = p1 q2 = q2 i1 = i1 i2 = i2 r1 = r1 r2 = r2 r3 = r3 s1 = s1 s2 = s2
  Nil = Nil
  Entry <- FlowEntry
  Id = {i1, i2}
  RequestID <- ReusedRequestID
  After <- FlowAfter
  Resumer = {r1, r2}
  Target <- FlowTarget
  Sub = {s1}
  Leavers = {s1}
  ChanCap = 1
  Deadline = {p1}
INVARIANTS RegistryIsHeld ResumeKeepsItsWord ToldOnce
PROPERTIES ImplementsContract ResumedGoesOn TimeoutReleases
CHECK_DEADLOCK FALSE
