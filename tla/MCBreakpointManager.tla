------------------------- MODULE MCBreakpointManager -------------------------
(***************************************************************************)
(* Instances of BreakpointManager.  Calls of Pause q1 and p1 are the       *)
(* request and the response phase of one transaction, q2 is another        *)
(* request, which has the same X-Request-ID where ReusedRequestID is used. *)
(***************************************************************************)
EXTENDS BreakpointManager, TLC

CONSTANTS q1, p1, q2, i1, i2, r1, r2, r3, s1, s2

FlowEntry == {q1, p1, q2}
FlowRequestID == (q1 :> i1) @@ (p1 :> i1) @@ (q2 :> i2)
ReusedRequestID == [e \in Entry |-> i1]
FlowAfter == (q1 :> {}) @@ (p1 :> {q1}) @@ (q2 :> {})
FlowTarget == [r \in Resumer |-> IF r = r3 THEN i2 ELSE i1]
=============================================================================
