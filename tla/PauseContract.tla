---------------------------- MODULE PauseContract ----------------------------
(***************************************************************************)
(* What the breakpoint manager promises its two users, the proxy that      *)
(* holds a request and the operator who resumes it, without locks, maps    *)
(* and channels.  A request is held, is offered decisions while it is      *)
(* held, and goes on with one of the decisions it was offered or, when its *)
(* context ends, with none.  It may also be lost to a panic: it then goes  *)
(* on no more, but decisions are still accepted for it, to no effect.      *)
(***************************************************************************)
(* What it does not promise: which of several requests with one ID an      *)
(* offer goes to.                                                          *)
(***************************************************************************)
CONSTANTS Entry, RequestID, Resumer, Target, Nil

VARIABLES
    phase,   \* phase[e]: new, held, decided, expired or panicked
    offers,  \* offers[e]: the Resume calls accepted for e
    given    \* given[e]: the Resume call whose decision e went on with

cvars == <<phase, offers, given>>

Init ==
    /\ phase = [e \in Entry |-> "new"]
    /\ offers = [e \in Entry |-> {}]
    /\ given = [e \in Entry |-> Nil]

Hold(e) ==
    /\ phase[e] = "new"
    /\ phase' = [phase EXCEPT ![e] = "held"]
    /\ UNCHANGED <<offers, given>>

(* A Resume call is accepted for at most one request, one held right now or lost. *)
Offer(r, e) ==
    /\ phase[e] \in {"held", "panicked"}
    /\ Target[r] = RequestID[e]
    /\ \A f \in Entry : r \notin offers[f]
    /\ offers' = [offers EXCEPT ![e] = @ \cup {r}]
    /\ UNCHANGED <<phase, given>>

Decide(e, r) ==
    /\ phase[e] = "held"
    /\ r \in offers[e]
    /\ phase' = [phase EXCEPT ![e] = "decided"]
    /\ given' = [given EXCEPT ![e] = r]
    /\ UNCHANGED offers

Expire(e) ==
    /\ phase[e] = "held"
    /\ phase' = [phase EXCEPT ![e] = "expired"]
    /\ UNCHANGED <<offers, given>>

(* The call that held the request panicked: nobody is left to take a decision. *)
Lose(e) ==
    /\ phase[e] = "held"
    /\ phase' = [phase EXCEPT ![e] = "panicked"]
    /\ UNCHANGED <<offers, given>>

Next ==
    \E e \in Entry :
        \/ Hold(e)
        \/ Expire(e)
        \/ Lose(e)
        \/ \E r \in Resumer : Offer(r, e) \/ Decide(e, r)

Spec == Init /\ [][Next]_cvars
=============================================================================
