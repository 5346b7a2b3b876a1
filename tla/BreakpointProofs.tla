--------------------------- MODULE BreakpointProofs ---------------------------
(***************************************************************************)
(* Proofs about breakpoints and the control side that sets them:           *)
(* BreakpointManager, for any number of requests, Resume calls and         *)
(* watchers; BreakpointRules, for any rules, messages, evaluations and     *)
(* slots; and ControlPlane, for any clients, commands, faults and order of *)
(* their steps, with whatever history, tables and rules it starts.         *)
(***************************************************************************)
EXTENDS BreakpointManager, ControlPlane, FiniteSetTheorems, SequenceTheorems, TLAPS

USE EntryAssumption, CallAssumption, SubAssumption, DeadlineAssumption, NilAssumption

(* A Resume call has an entry in hand exactly when its lookup succeeded. *)
FoundInv ==
    \A r \in Resumer :
        found[r] # Nil <=> rpc[r] \in {"found", "written", "ok", "panicked"}

(* Registrations and lookups keep to the request ID, and follow registration. *)
LookupInv ==
    /\ \A i \in Id : pausedReqs[i] # Nil =>
          RequestID[pausedReqs[i]] = i /\ pc[pausedReqs[i]] # "new"
    /\ \A r \in Resumer : found[r] # Nil =>
          RequestID[found[r]] = Target[r] /\ pc[found[r]] # "new"

(* A decision was written by a Resume call that found the entry, and is there before done is closed. *)
DecisionInv ==
    /\ \A e \in Entry : decision[e] # Nil => found[decision[e]] = e
    /\ \A r \in Resumer :
          rpc[r] \in {"written", "ok", "panicked"} => decision[found[r]] # Nil
    /\ \A r \in Resumer : rpc[r] = "ok" => found[r] \in done
    /\ \A e \in done : decision[e] # Nil

(* What a call of Pause knows once it has left the select. *)
ReturnInv ==
    /\ \A e \in Entry : pc[e] = "gotDone" => e \in done
    /\ \A e \in Entry : pc[e] \in {"gotCtx", "expired"} => e \in ended
    /\ \A e \in Entry : pc[e] = "decided" => ret[e] # Nil /\ found[ret[e]] = e

IInv == TypeOK /\ FoundInv /\ LookupInv /\ DecisionInv /\ ReturnInv /\ OneAcknowledgement

(* Only a Resume step moves a Resume call. *)
LEMMA ResumeOnly ==
  [Next]_vars => UNCHANGED <<rpc, found, decision, done>> \/ \E r \in Resumer : ResumeStep(r)
BY DEF Next, vars, resumeVars, watchVars, PauseStep, WatchStep, PauseRegister, PauseBroadcast,
       PauseSelect, PauseReturn, ContextEnds, Subscribe, Receive, Unsubscribe

(* One step keeps the types: the writes Resume makes go to an entry it found. *)
LEMMA TypeStep == TypeOK /\ FoundInv /\ [Next]_vars => TypeOK' /\ FoundInv'
<1>1. TypeOK /\ FoundInv /\ [Next]_vars => TypeOK'
  <2> SUFFICES ASSUME TypeOK, FoundInv, [Next]_vars PROVE TypeOK'
    OBVIOUS
  <2> USE DEF TypeOK, PauseState, ResumeState, watchVars, pauseVars, resumeVars
  <2>1. ASSUME NEW e \in Entry, PauseRegister(e) PROVE TypeOK'
    BY <2>1 DEF PauseRegister
  <2>2. ASSUME NEW e \in Entry, NEW s \in Sub, PauseBroadcast(e, s) PROVE TypeOK'
    <3>1. chan' \in [Sub -> Seq(Entry)]
      <4>1. chan' = chan \/ chan' = [chan EXCEPT ![s] = Append(chan[s], e)]
        BY <2>2 DEF PauseBroadcast
      <4>2. Append(chan[s], e) \in Seq(Entry)
        BY DEF PauseBroadcast
      <4>3. QED
        BY <4>1, <4>2
    <3>2. toSend' \in [Entry -> SUBSET Sub]
      BY <2>2 DEF PauseBroadcast
    <3>3. pc' \in [Entry -> PauseState]
      BY <2>2 DEF PauseBroadcast
    <3>4. UNCHANGED <<pausedReqs, subscribers, closedCh, seen, ended, ret, resumeVars>>
      BY <2>2 DEF PauseBroadcast
    <3>5. QED
      BY <3>1, <3>2, <3>3, <3>4
  <2>3. ASSUME NEW e \in Entry, PauseSelect(e) PROVE TypeOK'
    BY <2>3 DEF PauseSelect
  <2>4. ASSUME NEW e \in Entry, PauseReturn(e) PROVE TypeOK'
    BY <2>4 DEF PauseReturn
  <2>5. ASSUME NEW e \in Entry, ContextEnds(e) PROVE TypeOK'
    BY <2>5 DEF ContextEnds
  <2>6. ASSUME NEW r \in Resumer, ResumeLookup(r) PROVE TypeOK'
    BY <2>6 DEF ResumeLookup
  <2>7. ASSUME NEW r \in Resumer, ResumeWrite(r) PROVE TypeOK'
    BY <2>7 DEF ResumeWrite, FoundInv
  <2>8. ASSUME NEW r \in Resumer, ResumeClose(r) PROVE TypeOK'
    BY <2>8 DEF ResumeClose, FoundInv
  <2>9. ASSUME NEW s \in Sub, WatchStep(s) PROVE TypeOK'
    <3>1. CASE Subscribe(s)
      BY <3>1 DEF Subscribe
    <3>2. CASE Receive(s)
      <4>1. Head(chan[s]) \in Entry /\ Tail(chan[s]) \in Seq(Entry)
        BY <3>2 DEF Receive
      <4>2. QED
        BY <3>2, <4>1 DEF Receive
    <3>3. CASE Unsubscribe(s)
      BY <3>3 DEF Unsubscribe
    <3>4. QED
      BY <2>9, <3>1, <3>2, <3>3 DEF WatchStep
  <2>10. CASE UNCHANGED vars
    BY <2>10 DEF vars
  <2>11. QED
    BY <2>1, <2>2, <2>3, <2>4, <2>5, <2>6, <2>7, <2>8, <2>9, <2>10
       DEF Next, PauseStep, ResumeStep
<1>2. TypeOK /\ FoundInv /\ [Next]_vars => FoundInv'
  <2> SUFFICES ASSUME TypeOK, FoundInv, [Next]_vars PROVE FoundInv'
    OBVIOUS
  <2>1. CASE \E r \in Resumer : ResumeStep(r)
    BY <2>1 DEF TypeOK, FoundInv, ResumeStep, ResumeLookup, ResumeWrite, ResumeClose
  <2>2. CASE UNCHANGED <<rpc, found>>
    BY <2>2 DEF FoundInv
  <2>3. QED
    BY <2>1, <2>2, ResumeOnly DEF Next
<1>3. QED
  BY <1>1, <1>2

(***************************************************************************)
(* Every state of the manager has its type: in particular the map holds    *)
(* entries, the returned decision is one of Resume's, and only streams     *)
(* that left have a closed channel.                                        *)
(***************************************************************************)
THEOREM TypeCorrect == Spec => []TypeOK
<1>1. Init => TypeOK /\ FoundInv
  BY DEF Init, NewManager, TypeOK, FoundInv, PauseState, ResumeState
<1>2. QED
  BY <1>1, TypeStep, PTL DEF Spec

-----------------------------------------------------------------------------
(* Safety that holds whatever the request IDs and the watchers do *)

(* A new manager has no entry, no decision and no call in progress. *)
LEMMA InitIInv == Init => IInv
BY DEF Init, NewManager, IInv, TypeOK, FoundInv, LookupInv, DecisionInv, ReturnInv,
       OneAcknowledgement, PauseState, ResumeState

(* Only Pause writes the map, under its own ID, and Resume finds only what is there. *)
LEMMA LookupStep == IInv /\ [Next]_vars => LookupInv'
<1> SUFFICES ASSUME IInv, [Next]_vars PROVE LookupInv'
  OBVIOUS
<1> USE DEF IInv, TypeOK, FoundInv, LookupInv, watchVars, pauseVars, resumeVars
<1>1. ASSUME NEW e \in Entry, PauseRegister(e) PROVE LookupInv'
  BY <1>1 DEF PauseRegister
<1>2. ASSUME NEW e \in Entry, NEW s \in Sub, PauseBroadcast(e, s) PROVE LookupInv'
  <2>1. UNCHANGED <<pausedReqs, found>> /\ (pc' = pc \/ pc' = [pc EXCEPT ![e] = "panicked"])
    BY <1>2 DEF PauseBroadcast
  <2>2. QED
    BY <2>1
<1>3. ASSUME NEW e \in Entry, PauseSelect(e) PROVE LookupInv'
  BY <1>3 DEF PauseSelect
<1>4. ASSUME NEW e \in Entry, PauseReturn(e) PROVE LookupInv'
  BY <1>4 DEF PauseReturn
<1>5. ASSUME NEW e \in Entry, ContextEnds(e) PROVE LookupInv'
  BY <1>5 DEF ContextEnds
<1>6. ASSUME NEW r \in Resumer, ResumeLookup(r) PROVE LookupInv'
  BY <1>6 DEF ResumeLookup
<1>7. ASSUME NEW r \in Resumer, ResumeWrite(r) \/ ResumeClose(r) PROVE LookupInv'
  BY <1>7 DEF ResumeWrite, ResumeClose
<1>8. ASSUME NEW s \in Sub, WatchStep(s) PROVE LookupInv'
  BY <1>8 DEF WatchStep, Subscribe, Receive, Unsubscribe
<1>9. CASE UNCHANGED vars
  BY <1>9 DEF vars
<1>10. QED
  BY <1>1, <1>2, <1>3, <1>4, <1>5, <1>6, <1>7, <1>8, <1>9 DEF Next, PauseStep, ResumeStep

(* Resume writes before it closes, and only the first close succeeds. *)
LEMMA DecisionStep == IInv /\ [Next]_vars => DecisionInv' /\ OneAcknowledgement'
<1> SUFFICES ASSUME IInv, [Next]_vars PROVE DecisionInv' /\ OneAcknowledgement'
  OBVIOUS
<1> USE DEF IInv, TypeOK, FoundInv, DecisionInv, OneAcknowledgement
<1>1. ASSUME NEW r \in Resumer, ResumeLookup(r) PROVE DecisionInv' /\ OneAcknowledgement'
  BY <1>1 DEF ResumeLookup
<1>2. ASSUME NEW r \in Resumer, ResumeWrite(r) PROVE DecisionInv' /\ OneAcknowledgement'
  BY <1>2 DEF ResumeWrite
<1>3. ASSUME NEW r \in Resumer, ResumeClose(r) PROVE DecisionInv' /\ OneAcknowledgement'
  BY <1>3 DEF ResumeClose
<1>4. CASE UNCHANGED <<rpc, found, decision, done>>
  BY <1>4
<1>5. QED
  BY <1>1, <1>2, <1>3, <1>4, ResumeOnly DEF ResumeStep

(* Pause leaves the select for a reason and returns what it then read. *)
LEMMA ReturnStep == IInv /\ [Next]_vars => ReturnInv'
<1> SUFFICES ASSUME IInv, [Next]_vars PROVE ReturnInv'
  OBVIOUS
<1> USE DEF IInv, TypeOK, FoundInv, LookupInv, DecisionInv, ReturnInv, watchVars, pauseVars, resumeVars
<1>1. ASSUME NEW e \in Entry, PauseRegister(e) PROVE ReturnInv'
  BY <1>1 DEF PauseRegister
<1>2. ASSUME NEW e \in Entry, NEW s \in Sub, PauseBroadcast(e, s) PROVE ReturnInv'
  <2>1. /\ UNCHANGED <<done, ended, ret, found>>
        /\ pc' = pc \/ pc' = [pc EXCEPT ![e] = "panicked"]
    BY <1>2 DEF PauseBroadcast
  <2>2. QED
    BY <2>1
<1>3. ASSUME NEW e \in Entry, PauseSelect(e) PROVE ReturnInv'
  BY <1>3 DEF PauseSelect
<1>4. ASSUME NEW e \in Entry, PauseReturn(e) PROVE ReturnInv'
  BY <1>4 DEF PauseReturn
<1>5. ASSUME NEW e \in Entry, ContextEnds(e) PROVE ReturnInv'
  BY <1>5 DEF ContextEnds
<1>6. ASSUME NEW r \in Resumer, ResumeLookup(r) PROVE ReturnInv'
  BY <1>6 DEF ResumeLookup
<1>7. ASSUME NEW r \in Resumer, ResumeWrite(r) \/ ResumeClose(r) PROVE ReturnInv'
  BY <1>7 DEF ResumeWrite, ResumeClose
<1>8. ASSUME NEW s \in Sub, WatchStep(s) PROVE ReturnInv'
  BY <1>8 DEF WatchStep, Subscribe, Receive, Unsubscribe
<1>9. CASE UNCHANGED vars
  BY <1>9 DEF vars
<1>10. QED
  BY <1>1, <1>2, <1>3, <1>4, <1>5, <1>6, <1>7, <1>8, <1>9 DEF Next, PauseStep, ResumeStep

(* The inductive invariant, for every number of requests, Resume calls and watchers. *)
THEOREM IInvAlways == Spec => []IInv
<1>1. IInv /\ [Next]_vars => IInv'
  BY TypeStep, LookupStep, DecisionStep, ReturnStep DEF IInv
<1>2. QED
  BY InitIInv, <1>1, PTL DEF Spec

(***************************************************************************)
(* However Resume calls race with each other, with timeouts and with       *)
(* clients that reuse a request ID: at most one is acknowledged per paused *)
(* request, a request goes on with a decision made for it, and an          *)
(* acknowledged decision is lost only in the races the property names.     *)
(***************************************************************************)
THEOREM ResumeSafe ==
  Spec => []ResumeKeepsItsWord
<1>1. IInv => OneAcknowledgement
  BY DEF IInv
<1>2. IInv => DecisionMeantForIt
  BY DEF IInv, TypeOK, LookupInv, ReturnInv, DecisionMeantForIt
<1>3. IInv => AcknowledgedIsApplied
  <2> SUFFICES ASSUME IInv, NEW r \in Resumer, rpc[r] = "ok", ~Live(found[r]),
                      ret[found[r]] # r, found[r] \notin ended, pc[found[r]] # "panicked"
               PROVE  \E q \in Resumer \ {r} : found[q] = found[r]
    BY DEF AcknowledgedIsApplied
  <2>1. found[r] \in Entry /\ pc[found[r]] # "new"
    BY DEF IInv, TypeOK, FoundInv, LookupInv
  <2>2. pc[found[r]] = "decided"
    BY <2>1 DEF IInv, TypeOK, PauseState, ReturnInv, Live
  <2>3. ret[found[r]] \in Resumer /\ found[ret[found[r]]] = found[r]
    BY <2>1, <2>2 DEF IInv, TypeOK, ReturnInv
  <2>4. QED
    BY <2>3
<1>4. IInv => ResumeKeepsItsWord
  BY <1>1, <1>2, <1>3 DEF ResumeKeepsItsWord
<1>5. QED
  BY IInvAlways, <1>4, PTL

-----------------------------------------------------------------------------
(* What the map of paused requests holds *)

(* Calls of Pause of one goroutine keep their order. *)
OrderInv == \A e \in Entry : pc[e] # "new" => \A f \in After[e] : Returned(f)

RInv == TypeOK /\ FoundInv /\ OrderInv /\ HeldIsRegistered /\ NoStaleEntry

(* A call overwrites or deletes the entry of another only where an ID is reused. *)
LEMMA RegistryStep ==
  RInv /\ LookupInv /\ [Next]_vars => RInv'
<1> SUFFICES ASSUME RInv, LookupInv, [Next]_vars PROVE RInv'
  OBVIOUS
<1>0. TypeOK' /\ FoundInv'
  BY TypeStep DEF RInv
<1> USE DEF RInv, TypeOK, LookupInv, OrderInv, HeldIsRegistered, NoStaleEntry, Live, Returned,
            IdReused, watchVars, pauseVars, resumeVars
<1> SUFFICES OrderInv' /\ HeldIsRegistered' /\ NoStaleEntry'
  BY <1>0
<1>1. ASSUME NEW e \in Entry, PauseRegister(e)
      PROVE  OrderInv' /\ HeldIsRegistered' /\ NoStaleEntry'
  <2>1. OrderInv'
    BY <1>1 DEF PauseRegister
  <2>2. /\ pc[e] = "new" /\ pc' = [pc EXCEPT ![e] = "held"]
        /\ pausedReqs' = [pausedReqs EXCEPT ![RequestID[e]] = e]
    BY <1>1 DEF PauseRegister
  <2>3. HeldIsRegistered'
    <3> SUFFICES ASSUME NEW g \in Entry, Live(g)', g # e
                 PROVE  pausedReqs'[RequestID[g]] = g \/ IdReused(g)'
      BY <2>2
    <3>1. Live(g) /\ e \notin After[g]
      BY <2>2
    <3>2. IdReused(g) => IdReused(g)'
      BY <2>2
    <3>3. RequestID[g] = RequestID[e] => IdReused(g)'
      BY <2>2, <3>1
    <3>4. RequestID[g] # RequestID[e] => pausedReqs'[RequestID[g]] = pausedReqs[RequestID[g]]
      BY <2>2
    <3>5. QED
      BY <3>1, <3>2, <3>3, <3>4
  <2>4. NoStaleEntry'
    BY <1>1 DEF PauseRegister
  <2>5. QED
    BY <2>1, <2>3, <2>4
<1>2. ASSUME NEW e \in Entry, NEW s \in Sub, PauseBroadcast(e, s)
      PROVE  OrderInv' /\ HeldIsRegistered' /\ NoStaleEntry'
  <2>1. pc[e] = "held" /\ UNCHANGED pausedReqs
    BY <1>2 DEF PauseBroadcast
  <2>2. pc' = pc \/ pc' = [pc EXCEPT ![e] = "panicked"]
    BY <1>2 DEF PauseBroadcast
  <2>3. OrderInv'
    <3>1. \A f \in Entry : (Returned(f) => Returned(f)') /\ (pc'[f] # "new" => pc[f] # "new")
      BY <2>1, <2>2
    <3>2. After \in [Entry -> SUBSET Entry]
      BY EntryAssumption
    <3>3. QED
      BY <3>1, <3>2
  <2>4. HeldIsRegistered'
    <3>1. \A g \in Entry : (Live(g)' => Live(g)) /\ (IdReused(g) => IdReused(g)')
      BY <2>1, <2>2
    <3>2. QED
      BY <2>1, <3>1
  <2>5. NoStaleEntry'
    BY <2>1, <2>2
  <2>6. QED
    BY <2>3, <2>4, <2>5
<1>3. ASSUME NEW e \in Entry, PauseSelect(e)
      PROVE  OrderInv' /\ HeldIsRegistered' /\ NoStaleEntry'
  <2>1. pc[e] = "held" /\ UNCHANGED pausedReqs
    BY <1>3 DEF PauseSelect
  <2>2. pc' = [pc EXCEPT ![e] = "gotDone"] \/ pc' = [pc EXCEPT ![e] = "gotCtx"]
    BY <1>3 DEF PauseSelect
  <2>3. OrderInv'
    <3>1. \A f \in Entry : Returned(f)' = Returned(f) /\ (pc'[f] # "new" => pc[f] # "new")
      BY <2>1, <2>2
    <3>2. After \in [Entry -> SUBSET Entry]
      BY EntryAssumption
    <3>3. QED
      BY <3>1, <3>2
  <2>4. HeldIsRegistered'
    <3>1. \A g \in Entry : (Live(g)' => Live(g)) /\ (IdReused(g) => IdReused(g)')
      BY <2>1, <2>2
    <3>2. QED
      BY <2>1, <3>1
  <2>5. NoStaleEntry'
    BY <2>1, <2>2
  <2>6. QED
    BY <2>3, <2>4, <2>5
<1>4. ASSUME NEW e \in Entry, PauseReturn(e)
      PROVE  OrderInv' /\ HeldIsRegistered' /\ NoStaleEntry'
  <2>1. /\ Live(e)
        /\ pausedReqs' = [pausedReqs EXCEPT ![RequestID[e]] = Nil]
    BY <1>4 DEF PauseReturn
  <2>2. pc' = [pc EXCEPT ![e] = "decided"] \/ pc' = [pc EXCEPT ![e] = "expired"]
    BY <1>4 DEF PauseReturn
  <2>3. OrderInv'
    <3>1. \A f \in Entry : (Returned(f) => Returned(f)') /\ (pc'[f] # "new" => pc[f] # "new")
      BY <2>1, <2>2
    <3>2. After \in [Entry -> SUBSET Entry]
      BY EntryAssumption
    <3>3. QED
      BY <3>1, <3>2
  <2>4. HeldIsRegistered'
    <3> SUFFICES ASSUME NEW g \in Entry, Live(g)'
                 PROVE  pausedReqs'[RequestID[g]] = g \/ IdReused(g)'
      OBVIOUS
    <3>1. g # e /\ Live(g) /\ e \notin After[g]
      BY <2>1, <2>2
    <3>2. IdReused(g) => IdReused(g)'
      BY <2>1, <2>2
    <3>3. RequestID[g] = RequestID[e] => IdReused(g)'
      BY <2>1, <2>2, <3>1
    <3>4. RequestID[g] # RequestID[e] => pausedReqs'[RequestID[g]] = pausedReqs[RequestID[g]]
      BY <2>1
    <3>5. QED
      BY <3>1, <3>2, <3>3, <3>4
  <2>5. NoStaleEntry'
    <3> SUFFICES ASSUME NEW i \in Id, pausedReqs'[i] # Nil
                 PROVE  Live(pausedReqs[i])' \/ pc'[pausedReqs'[i]] = "panicked"
      OBVIOUS
    <3>1. i # RequestID[e] /\ pausedReqs'[i] = pausedReqs[i]
      BY <2>1, EntryAssumption
    <3>2. pausedReqs[i] \in Entry \ {e}
      BY <3>1
    <3>3. pc'[pausedReqs[i]] = pc[pausedReqs[i]]
      BY <2>2, <3>2
    <3>4. QED
      BY <3>1, <3>3
  <2>6. QED
    BY <2>3, <2>4, <2>5
<1>5. ASSUME NEW e \in Entry, ContextEnds(e)
      PROVE  OrderInv' /\ HeldIsRegistered' /\ NoStaleEntry'
  BY <1>5 DEF ContextEnds
<1>6. ASSUME NEW r \in Resumer, ResumeStep(r)
      PROVE  OrderInv' /\ HeldIsRegistered' /\ NoStaleEntry'
  BY <1>6 DEF ResumeStep, ResumeLookup, ResumeWrite, ResumeClose
<1>7. ASSUME NEW s \in Sub, WatchStep(s)
      PROVE  OrderInv' /\ HeldIsRegistered' /\ NoStaleEntry'
  BY <1>7 DEF WatchStep, Subscribe, Receive, Unsubscribe
<1>8. CASE UNCHANGED vars
  BY <1>8 DEF vars
<1>9. QED
  BY <1>1, <1>2, <1>3, <1>4, <1>5, <1>6, <1>7, <1>8 DEF Next, PauseStep

(* A new manager holds no entry and has no call in progress. *)
LEMMA InitRInv == Init => RInv
BY DEF Init, NewManager, RInv, TypeOK, FoundInv, OrderInv, HeldIsRegistered, NoStaleEntry,
       Live, PauseState, ResumeState

(***************************************************************************)
(* Whatever request IDs clients choose and however watchers leave: the map *)
(* of paused requests keeps nothing of a call of Pause that returned, and  *)
(* a held request is in it under its own ID unless another request was     *)
(* held under that ID.  The entry of a call that panicked may stay.        *)
(***************************************************************************)
THEOREM RegistryExact == Spec => []RegistryIsHeld
<1>1. RInv /\ IInv /\ [Next]_vars => RInv'
  BY RegistryStep DEF IInv
<1>2. RInv => RegistryIsHeld
  BY DEF RInv, RegistryIsHeld
<1>3. QED
  BY InitRInv, <1>1, <1>2, IInvAlways, PTL DEF Spec

-----------------------------------------------------------------------------
(* Refinement *)

(* A new manager maps to the initial state of the contract. *)
LEMMA InitRefines == Init => Contract!Init
BY DEF Init, NewManager, Contract!Init, phaseBar, offersBar

(* A step of the contract or none, for each kind of step of the manager. *)
LEMMA StepRefines ==
  IInv /\ RInv /\ [Next]_vars => [Contract!Next]_(Contract!cvars)
<1> SUFFICES ASSUME IInv, RInv, [Next]_vars PROVE [Contract!Next]_(Contract!cvars)
  OBVIOUS
<1> USE DEF Contract!cvars, watchVars, pauseVars, resumeVars
<1>1. ASSUME NEW e \in Entry, PauseRegister(e) PROVE [Contract!Next]_(Contract!cvars)
  <2>1. phaseBar[e] = "new" /\ phaseBar' = [phaseBar EXCEPT ![e] = "held"]
    BY <1>1 DEF PauseRegister, phaseBar, IInv, TypeOK
  <2>2. UNCHANGED <<offersBar, ret>>
    BY <1>1 DEF PauseRegister, offersBar
  <2>3. Contract!Hold(e)
    BY <2>1, <2>2 DEF Contract!Hold
  <2>4. QED
    BY <2>3 DEF Contract!Next
<1>2. ASSUME NEW e \in Entry, NEW s \in Sub, PauseBroadcast(e, s)
      PROVE  [Contract!Next]_(Contract!cvars)
  <2>1. phaseBar[e] = "held" /\ UNCHANGED <<offersBar, ret>>
    BY <1>2 DEF PauseBroadcast, phaseBar, offersBar
  <2>2. CASE pc' = pc
    BY <2>1, <2>2 DEF phaseBar
  <2>3. CASE pc' = [pc EXCEPT ![e] = "panicked"]
    <3>1. phaseBar' = [phaseBar EXCEPT ![e] = "panicked"]
      BY <2>3 DEF phaseBar, RInv, TypeOK
    <3>2. Contract!Lose(e)
      BY <2>1, <3>1 DEF Contract!Lose
    <3>3. QED
      BY <3>2 DEF Contract!Next
  <2>4. QED
    BY <1>2, <2>2, <2>3 DEF PauseBroadcast
<1>3. ASSUME NEW e \in Entry, PauseSelect(e) PROVE UNCHANGED Contract!cvars
  <2>1. pc[e] = "held" /\ UNCHANGED <<found, ret>>
    BY <1>3 DEF PauseSelect
  <2>2. pc' = [pc EXCEPT ![e] = "gotDone"] \/ pc' = [pc EXCEPT ![e] = "gotCtx"]
    BY <1>3 DEF PauseSelect
  <2>3. phaseBar' = phaseBar
    BY <2>1, <2>2 DEF phaseBar, RInv, TypeOK
  <2>4. QED
    BY <2>1, <2>3 DEF offersBar
<1>4. ASSUME NEW e \in Entry, PauseReturn(e) PROVE [Contract!Next]_(Contract!cvars)
  <2>1. phaseBar[e] = "held" /\ UNCHANGED offersBar
    BY <1>4 DEF PauseReturn, phaseBar, offersBar
  <2>2. CASE pc[e] = "gotDone"
    <3>1. decision[e] \in Resumer /\ decision[e] \in offersBar[e]
      BY <2>2 DEF IInv, TypeOK, DecisionInv, ReturnInv, offersBar
    <3>2. phaseBar' = [phaseBar EXCEPT ![e] = "decided"] /\ ret' = [ret EXCEPT ![e] = decision[e]]
      BY <1>4, <2>2 DEF PauseReturn, phaseBar, IInv, TypeOK
    <3>3. Contract!Decide(e, decision[e])
      BY <2>1, <3>1, <3>2 DEF Contract!Decide
    <3>4. QED
      BY <3>1, <3>3 DEF Contract!Next
  <2>3. CASE pc[e] = "gotCtx"
    <3>1. phaseBar' = [phaseBar EXCEPT ![e] = "expired"] /\ UNCHANGED ret
      BY <1>4, <2>3 DEF PauseReturn, phaseBar, IInv, TypeOK
    <3>2. Contract!Expire(e)
      BY <2>1, <3>1 DEF Contract!Expire
    <3>3. QED
      BY <3>2 DEF Contract!Next
  <2>4. QED
    BY <1>4, <2>2, <2>3 DEF PauseReturn
<1>5. ASSUME NEW e \in Entry, ContextEnds(e) PROVE UNCHANGED Contract!cvars
  BY <1>5 DEF ContextEnds, phaseBar, offersBar
<1>6. ASSUME NEW r \in Resumer, ResumeLookup(r) PROVE [Contract!Next]_(Contract!cvars)
  <2>0. UNCHANGED <<phaseBar, ret>> /\ found[r] = Nil /\ rpc[r] = "idle"
    BY <1>6 DEF ResumeLookup, phaseBar, IInv, FoundInv
  <2>1. CASE pausedReqs[Target[r]] = Nil
    <3>1. found' = found
      BY <1>6, <2>0, <2>1 DEF ResumeLookup, IInv, TypeOK
    <3>2. QED
      BY <2>0, <3>1 DEF offersBar
  <2>2. CASE pausedReqs[Target[r]] # Nil
    <3> DEFINE e == pausedReqs[Target[r]]
    <3>1. /\ e \in Entry /\ RequestID[e] = Target[r]
          /\ Live(e) \/ pc[e] = "panicked"
      BY <2>2 DEF IInv, TypeOK, LookupInv, RInv, NoStaleEntry
    <3>2. phaseBar[e] \in {"held", "panicked"}
      BY <3>1 DEF phaseBar, Live
    <3>3. found' = [found EXCEPT ![r] = e]
      BY <1>6 DEF ResumeLookup
    <3> HIDE DEF e
    <3>4. \A f \in Entry : r \notin offersBar[f]
      BY <2>0 DEF offersBar
    <3>5. offersBar' = [offersBar EXCEPT ![e] = offersBar[e] \cup {r}]
      <4>1. ASSUME NEW f \in Entry
            PROVE  {q \in Resumer : found'[q] = f} =
                     IF f = e THEN {q \in Resumer : found[q] = f} \cup {r}
                              ELSE {q \in Resumer : found[q] = f}
        BY <2>0, <3>1, <3>3 DEF IInv, TypeOK
      <4>2. \A f \in Entry : offersBar'[f] = IF f = e THEN offersBar[f] \cup {r} ELSE offersBar[f]
        BY <4>1 DEF offersBar
      <4>3. offersBar' = [f \in Entry |-> offersBar'[f]]
        BY Zenon DEF offersBar
      <4>4. offersBar = [f \in Entry |-> offersBar[f]]
        BY Zenon DEF offersBar
      <4>5. QED
        BY <3>1, <4>2, <4>3, <4>4
    <3>6. Contract!Offer(r, e)
      BY <2>0, <3>1, <3>2, <3>4, <3>5 DEF Contract!Offer
    <3>7. QED
      BY <3>1, <3>6 DEF Contract!Next
  <2>3. QED
    BY <2>1, <2>2
<1>7. ASSUME NEW r \in Resumer, ResumeWrite(r) \/ ResumeClose(r) PROVE UNCHANGED Contract!cvars
  BY <1>7 DEF ResumeWrite, ResumeClose, phaseBar, offersBar
<1>8. ASSUME NEW s \in Sub, WatchStep(s) PROVE UNCHANGED Contract!cvars
  BY <1>8 DEF WatchStep, Subscribe, Receive, Unsubscribe, phaseBar, offersBar
<1>9. CASE UNCHANGED vars
  BY <1>9 DEF vars, phaseBar, offersBar
<1>10. QED
  BY <1>1, <1>2, <1>3, <1>4, <1>5, <1>6, <1>7, <1>8, <1>9 DEF Next, PauseStep, ResumeStep

(***************************************************************************)
(* The manager implements PauseContract, whatever request IDs clients      *)
(* choose: a decision is accepted for one request, which is held or was    *)
(* lost to a panic, reaches no other, and Pause returns an accepted one.   *)
(***************************************************************************)
THEOREM ManagerImplementsContract == Spec => ImplementsContract
<1>1. RInv /\ IInv /\ [Next]_vars => RInv'
  BY RegistryStep DEF IInv
<1>2. Spec => []RInv
  BY InitRInv, <1>1, IInvAlways, PTL DEF Spec
<1>3. QED
  BY InitRefines, StepRefines, IInvAlways, <1>2, PTL DEF Spec, ImplementsContract, Contract!Spec
-----------------------------------------------------------------------------
(* Telling the subscribers *)

Distinct(q) == \A i, j \in DOMAIN q : q[i] = q[j] => i = j
Queued(q, e) == \E i \in DOMAIN q : q[i] = e

(* What a subscriber was told of is registered, and is not still to be sent to it. *)
ToldInv ==
    \A s \in Sub :
        /\ Distinct(chan[s])
        /\ \A e \in Entry : ~(Queued(chan[s], e) /\ e \in seen[s])
        /\ \A e \in Entry : (Queued(chan[s], e) \/ e \in seen[s]) => pc[e] # "new" /\ s \notin toSend[e]

(* A send of something new repeats nothing. *)
LEMMA AppendDistinct ==
  ASSUME NEW q \in Seq(Entry), NEW e \in Entry, Distinct(q), ~Queued(q, e)
  PROVE  /\ Distinct(Append(q, e))
         /\ \A x : Queued(Append(q, e), x) => Queued(q, x) \/ x = e
<1> DEFINE n == Len(q)
           a == Append(q, e)
<1>1. n \in Nat /\ DOMAIN q = 1..n /\ DOMAIN a = 1..(n + 1)
      /\ a[n + 1] = e /\ \A i \in 1..n : a[i] = q[i]
  OBVIOUS
<1> HIDE DEF n, a
<1>2. \A i \in 1..(n + 1) : i \in 1..n \/ i = n + 1
  BY <1>1
<1>3. Distinct(a)
  BY <1>1, <1>2 DEF Distinct, Queued
<1>4. \A x : Queued(a, x) => Queued(q, x) \/ x = e
  BY <1>1, <1>2 DEF Queued
<1>5. QED
  BY <1>3, <1>4 DEF a

(* A receive takes its value out of the queue. *)
LEMMA TailDistinct ==
  ASSUME NEW q \in Seq(Entry), q # << >>, Distinct(q)
  PROVE  /\ Distinct(Tail(q)) /\ Head(q) \in Entry /\ Queued(q, Head(q))
         /\ \A x : Queued(Tail(q), x) => Queued(q, x) /\ x # Head(q)
<1> DEFINE n == Len(q)
           t == Tail(q)
           h == Head(q)
<1>1. /\ n \in Nat /\ n >= 1 /\ DOMAIN q = 1..n /\ DOMAIN t = 1..(n - 1)
      /\ h = q[1] /\ h \in Entry /\ \A i \in 1..(n - 1) : t[i] = q[i + 1]
  OBVIOUS
<1> HIDE DEF n, t, h
<1>2. 1 \in 1..n /\ \A i \in 1..(n - 1) : i + 1 \in 1..n /\ i + 1 # 1
  BY <1>1
<1>3. Distinct(t)
  <2> SUFFICES ASSUME NEW i \in 1..(n - 1), NEW j \in 1..(n - 1), t[i] = t[j] PROVE i = j
    BY <1>1 DEF Distinct
  <2>1. q[i + 1] = q[j + 1]
    BY <1>1
  <2>2. i + 1 = j + 1
    BY <1>1, <1>2, <2>1 DEF Distinct
  <2>3. QED
    BY <1>1, <2>2
<1>4. \A x : Queued(t, x) => Queued(q, x) /\ x # h
  <2> SUFFICES ASSUME NEW i \in 1..(n - 1) PROVE Queued(q, t[i]) /\ t[i] # h
    BY <1>1 DEF Queued
  <2>1. t[i] = q[i + 1]
    BY <1>1
  <2>2. QED
    BY <1>1, <1>2, <2>1 DEF Queued, Distinct
<1>5. Queued(q, h)
  BY <1>1, <1>2 DEF Queued
<1>6. QED
  BY <1>1, <1>3, <1>4, <1>5 DEF t, h

(* One step keeps what the subscribers were told apart from what they are still to be told. *)
LEMMA ToldStep == TypeOK /\ ToldInv /\ [Next]_vars => ToldInv'
<1> SUFFICES ASSUME TypeOK, ToldInv, [Next]_vars PROVE ToldInv'
  OBVIOUS
<1>1. ASSUME NEW e \in Entry, PauseRegister(e) PROVE ToldInv'
  <2>1. /\ pc[e] = "new" /\ UNCHANGED <<chan, seen>>
        /\ \A f \in Entry : f # e => pc'[f] = pc[f] /\ toSend'[f] = toSend[f]
    BY <1>1 DEF PauseRegister, watchVars, TypeOK
  <2>2. \A s \in Sub : ~Queued(chan[s], e) /\ e \notin seen[s]
    BY <2>1 DEF ToldInv
  <2>3. QED
    BY <2>1, <2>2 DEF ToldInv
<1>2. ASSUME NEW e \in Entry, NEW s \in Sub, PauseBroadcast(e, s) PROVE ToldInv'
  <2>1. s \in toSend[e] /\ pc[e] = "held" /\ seen' = seen
    BY <1>2 DEF PauseBroadcast
  <2>2. ~Queued(chan[s], e) /\ e \notin seen[s]
    BY <2>1 DEF ToldInv
  <2>3. \A f \in Entry : pc[f] # "new" => pc'[f] # "new"
    BY <1>2 DEF PauseBroadcast, TypeOK
  <2>4. CASE UNCHANGED chan
    <3>1. \A f \in Entry : toSend'[f] \subseteq toSend[f]
      <4>1. \/ toSend' = [toSend EXCEPT ![e] = {}]
            \/ toSend' = [toSend EXCEPT ![e] = toSend[e] \ {s}]
        BY <1>2 DEF PauseBroadcast
      <4>2. \A f \in Entry : f # e => toSend'[f] = toSend[f]
        BY <4>1 DEF TypeOK
      <4>3. toSend'[e] = {} \/ toSend'[e] = toSend[e] \ {s}
        BY <4>1 DEF TypeOK
      <4>4. QED
        BY <4>2, <4>3
    <3>2. \A u \in Sub, f \in Entry : u \notin toSend[f] => u \notin toSend'[f]
      BY <3>1
    <3>3. QED
      BY <2>1, <2>3, <2>4, <3>2 DEF ToldInv
  <2>5. CASE chan' # chan
    <3>1. /\ chan' = [chan EXCEPT ![s] = Append(chan[s], e)]
          /\ toSend' = [toSend EXCEPT ![e] = toSend[e] \ {s}]
      BY <1>2, <2>5 DEF PauseBroadcast
    <3>2. chan[s] \in Seq(Entry) /\ Distinct(chan[s])
      BY DEF TypeOK, ToldInv
    <3>3. /\ Distinct(Append(chan[s], e))
          /\ \A x : Queued(Append(chan[s], e), x) => Queued(chan[s], x) \/ x = e
      BY <2>2, <3>2, AppendDistinct
    <3>4. chan'[s] = Append(chan[s], e) /\ \A u \in Sub : u # s => chan'[u] = chan[u]
      BY <3>1 DEF TypeOK
    <3>5. s \notin toSend'[e] /\ \A f \in Entry : toSend'[f] \subseteq toSend[f]
      BY <3>1 DEF TypeOK
    <3>6. SUFFICES ASSUME NEW u \in Sub
                   PROVE  /\ Distinct(chan'[u])
                          /\ \A f \in Entry : ~(Queued(chan'[u], f) /\ f \in seen[u])
                          /\ \A f \in Entry : (Queued(chan'[u], f) \/ f \in seen[u])
                                => pc'[f] # "new" /\ u \notin toSend'[f]
      BY <2>1 DEF ToldInv
    <3>7. CASE u = s
      <4>1. \A f \in Entry : Queued(chan'[s], f) => Queued(chan[s], f) \/ f = e
        BY <3>3, <3>4
      <4>2. QED
        BY <2>1, <2>2, <2>3, <3>3, <3>4, <3>5, <3>7, <4>1 DEF ToldInv
    <3>8. CASE u # s
      BY <2>3, <3>4, <3>5, <3>8 DEF ToldInv
    <3>9. QED
      BY <3>7, <3>8
  <2>6. QED
    BY <2>4, <2>5
<1>3. ASSUME NEW s \in Sub, Receive(s) PROVE ToldInv'
  <2>1. /\ chan[s] # << >> /\ UNCHANGED <<pc, toSend>>
        /\ chan'[s] = Tail(chan[s]) /\ seen'[s] = seen[s] \cup {Head(chan[s])}
        /\ \A u \in Sub : u # s => chan'[u] = chan[u] /\ seen'[u] = seen[u]
    BY <1>3 DEF Receive, pauseVars, TypeOK
  <2>2. chan[s] \in Seq(Entry) /\ Distinct(chan[s])
    BY DEF TypeOK, ToldInv
  <2>3. /\ Distinct(Tail(chan[s])) /\ Head(chan[s]) \in Entry /\ Queued(chan[s], Head(chan[s]))
        /\ \A x : Queued(Tail(chan[s]), x) => Queued(chan[s], x) /\ x # Head(chan[s])
    BY <2>1, <2>2, TailDistinct
  <2>4. SUFFICES ASSUME NEW u \in Sub
                 PROVE  /\ Distinct(chan'[u])
                        /\ \A f \in Entry : ~(Queued(chan'[u], f) /\ f \in seen'[u])
                        /\ \A f \in Entry : (Queued(chan'[u], f) \/ f \in seen'[u])
                              => pc[f] # "new" /\ u \notin toSend[f]
    BY <2>1 DEF ToldInv
  <2>5. CASE u = s
    <3> DEFINE h == Head(chan[s])
               t == Tail(chan[s])
    <3>1. chan'[u] = t /\ seen'[u] = seen[s] \cup {h}
      BY <2>1, <2>5
    <3> HIDE DEF h, t
    <3>2. Distinct(t) /\ h \in Entry /\ Queued(chan[s], h) /\ \A x : Queued(t, x) => Queued(chan[s], x) /\ x # h
      BY <2>3 DEF h, t
    <3>3. QED
      BY <2>5, <3>1, <3>2 DEF ToldInv
  <2>6. CASE u # s
    BY <2>1, <2>6 DEF ToldInv
  <2>7. QED
    BY <2>5, <2>6
<1>4. ASSUME NEW e \in Entry, PauseSelect(e) \/ PauseReturn(e) \/ ContextEnds(e) PROVE ToldInv'
  <2>1. UNCHANGED <<chan, seen, toSend>>
    BY <1>4 DEF PauseSelect, PauseReturn, ContextEnds, watchVars
  <2>2. \A f \in Entry : pc[f] # "new" => pc'[f] # "new"
    BY <1>4 DEF PauseSelect, PauseReturn, ContextEnds, TypeOK
  <2>3. QED
    BY <2>1, <2>2 DEF ToldInv
<1>5. ASSUME UNCHANGED <<chan, seen, toSend, pc>> PROVE ToldInv'
  BY <1>5 DEF ToldInv
<1>6. ASSUME NEW r \in Resumer, ResumeStep(r) PROVE UNCHANGED <<chan, seen, toSend, pc>>
  BY <1>6 DEF ResumeStep, ResumeLookup, ResumeWrite, ResumeClose, watchVars, pauseVars
<1>7. ASSUME NEW s \in Sub, Subscribe(s) \/ Unsubscribe(s) PROVE UNCHANGED <<chan, seen, toSend, pc>>
  BY <1>7 DEF Subscribe, Unsubscribe, pauseVars
<1>8. CASE UNCHANGED vars
  BY <1>5, <1>8 DEF vars, watchVars, pauseVars
<1>9. QED
  BY <1>1, <1>2, <1>3, <1>4, <1>5, <1>6, <1>7, <1>8 DEF Next, PauseStep, WatchStep

(***************************************************************************)
(* A subscriber is told of a held request at most once, however Pause      *)
(* calls, receives and leaving subscribers interleave.                     *)
(***************************************************************************)
THEOREM AlwaysToldOnce == Spec => []ToldOnce
<1>1. Init => ToldInv
  BY DEF Init, NewManager, ToldInv, Distinct, Queued
<1>2. TypeOK /\ ToldInv /\ [Next]_vars => ToldInv'
  BY ToldStep
<1>3. TypeOK /\ ToldInv => ToldOnce
  <2> SUFFICES ASSUME TypeOK, ToldInv, NEW s \in Sub
               PROVE  /\ \A i, j \in DOMAIN chan[s] : chan[s][i] = chan[s][j] => i = j
                      /\ \A i \in DOMAIN chan[s] :
                            chan[s][i] \notin seen[s] /\ s \notin toSend[chan[s][i]]
    BY DEF ToldOnce
  <2>1. \A i \in DOMAIN chan[s] : chan[s][i] \in Entry /\ Queued(chan[s], chan[s][i])
    BY DEF TypeOK, Queued
  <2>2. QED
    BY <2>1 DEF ToldInv, Distinct
<1>4. QED
  BY <1>1, <1>2, <1>3, TypeCorrect, PTL DEF Spec
-----------------------------------------------------------------------------
(* The rules: types *)

(* A rule as evaluate copies it: the body pattern is the rule's own. *)
Copies == {[id |-> i, rule |-> r, body |-> r.body] : i \in RuleId, r \in Rule}

MapsType ==
    /\ rules \in [RuleId -> Rule \cup {None}]
    /\ bodyRe = [id \in RuleId |-> BodyOf(rules[id])]

(* The goroutine is at a rule. *)
AtRule == {"want", "url", "wantBody", "body"}

CallsType ==
    /\ \A e \in Eval : gpc[e] \in AtRule => cur[e] \in Copies
    /\ snap \in [Eval -> SUBSET Copies] /\ left \in [Eval -> SUBSET Copies]
    /\ cur \in [Eval -> Copies \cup {None}]
    /\ gpc \in [Eval -> Running]
    /\ verdict \in [Eval -> RuleId \cup {NoMatch, None}]
    /\ expired \subseteq Eval
    /\ answer \in [Eval -> RuleId \cup {NoMatch, None}]

(* The evaluations that hold a slot are those in a regular expression. *)
Matching == {e \in Eval : gpc[e] \in {"url", "body"}}
SlotInv == regexSem = Cardinality(Matching) /\ regexSem <= MaxRegex

(* The maps change together. *)
LEMMA MapsStep == MapsType /\ [RulesNext]_<<ruleVars, evalVars>> => MapsType'
<1> SUFFICES ASSUME MapsType, [RulesNext]_<<ruleVars, evalVars>> PROVE MapsType'
  OBVIOUS
<1>1. ASSUME NEW id \in RuleId, NEW r \in Rule, AddRule(id, r) PROVE MapsType'
  <2>1. r # None
    BY RuleAssumption
  <2>2. QED
    BY <1>1, <2>1 DEF AddRule, MapsType, BodyOf
<1>2. ASSUME NEW id \in RuleId, RemoveRule(id) PROVE MapsType'
  BY <1>2 DEF RemoveRule, MapsType, BodyOf
<1>3. ASSUME UNCHANGED ruleVars PROVE MapsType'
  BY <1>3 DEF ruleVars, MapsType
<1>4. ASSUME RulesLost PROVE MapsType'
  BY <1>4 DEF RulesLost, NoRules, MapsType, BodyOf
<1>5. QED
  BY <1>1, <1>2, <1>3, <1>4 DEF RulesNext

(* What Snapshot copies. *)
LEMMA SnapshotCopies ==
  ASSUME MapsType, CallsType, NEW e \in Eval, Snapshot(e)
  PROVE  \E S \in SUBSET Copies :
            /\ snap' = [snap EXCEPT ![e] = S] /\ left' = [left EXCEPT ![e] = S]
            /\ gpc[e] = "idle" /\ gpc' = [gpc EXCEPT ![e] = "loop"]
            /\ UNCHANGED <<cur, verdict, regexSem, expired, answer>>
<1> DEFINE S == {[id |-> x.id, rule |-> x.rule, body |-> bodyRe[x.id]] : x \in ListRules}
<1>1. ASSUME NEW x \in ListRules PROVE [id |-> x.id, rule |-> x.rule, body |-> bodyRe[x.id]] \in Copies
  <2>1. PICK i \in RuleId : rules[i] # None /\ x = [id |-> i, rule |-> rules[i]]
    BY DEF ListRules
  <2>2. rules[i] \in Rule /\ bodyRe[i] = rules[i].body
    BY <2>1 DEF MapsType, BodyOf
  <2>3. QED
    BY <2>1, <2>2 DEF Copies
<1>2. S \in SUBSET Copies
  BY <1>1
<1>3. snap' = [snap EXCEPT ![e] = S]
  BY DEF Snapshot
<1> HIDE DEF S
<1>4. left' = [left EXCEPT ![e] = S]
  <2>1. snap'[e] = S
    BY <1>3 DEF CallsType
  <2>2. QED
    BY <2>1 DEF Snapshot
<1>5. QED
  BY <1>2, <1>3, <1>4 DEF Snapshot

(* A step of one evaluation leaves the others where they are. *)
LEMMA OneEvaluation ==
  ASSUME MapsType, CallsType, NEW e \in Eval, Evaluate(e)
  PROVE  /\ CallsType'
         /\ \A f \in Eval \ {e} :
               /\ snap'[f] = snap[f] /\ left'[f] = left[f] /\ cur'[f] = cur[f] /\ gpc'[f] = gpc[f]
               /\ verdict'[f] = verdict[f] /\ answer'[f] = answer[f] /\ (f \in expired' <=> f \in expired)
<1> DEFINE Alone ==
       \A f \in Eval \ {e} :
          /\ snap'[f] = snap[f] /\ left'[f] = left[f] /\ cur'[f] = cur[f] /\ gpc'[f] = gpc[f]
          /\ verdict'[f] = verdict[f] /\ answer'[f] = answer[f] /\ (f \in expired' <=> f \in expired)
<1> USE DEF CallsType, Running, AtRule
<1>1. CASE Snapshot(e)
  <2>1. PICK S \in SUBSET Copies :
            /\ snap' = [snap EXCEPT ![e] = S] /\ left' = [left EXCEPT ![e] = S]
            /\ gpc[e] = "idle" /\ gpc' = [gpc EXCEPT ![e] = "loop"]
            /\ UNCHANGED <<cur, verdict, regexSem, expired, answer>>
    BY <1>1, SnapshotCopies
  <2>2. CallsType'
    BY <2>1
  <2>3. Alone
    BY <2>1
  <2>4. QED
    BY <2>2, <2>3
<1>2. CASE Visit(e)
  <2>1. PICK x \in left[e] : /\ left' = [left EXCEPT ![e] = @ \ {x}]
                             /\ \/ UNCHANGED <<cur, gpc>>
                                \/ cur' = [cur EXCEPT ![e] = x] /\ gpc' = [gpc EXCEPT ![e] = "want"]
    BY <1>2 DEF Visit
  <2>2. UNCHANGED <<snap, verdict, expired, answer>> /\ x \in Copies
    BY <1>2 DEF Visit
  <2>3. left' \in [Eval -> SUBSET Copies]
    BY <2>1
  <2>4. cur' \in [Eval -> Copies \cup {None}] /\ gpc' \in [Eval -> Running]
    BY <2>1, <2>2
  <2>5. CallsType'
    BY <2>1, <2>2, <2>3, <2>4
  <2>6. Alone
    BY <2>1, <2>2
  <2>7. QED
    BY <2>5, <2>6
<1>3. CASE NothingFound(e) \/ TakeSlot(e) \/ NoSlotInTime(e) \/ MatchURL(e) \/ MatchBody(e)
  <2>1. UNCHANGED <<snap, left, cur, expired, answer>>
    BY <1>3 DEF NothingFound, TakeSlot, NoSlotInTime, MatchURL, MatchBody
  <2>2. \/ \E l \in {"url", "body", "loop", "wantBody"} :
              /\ l = "loop" \/ gpc[e] \in AtRule
              /\ gpc' = [gpc EXCEPT ![e] = l] /\ UNCHANGED verdict
        \/ \E v \in {NoMatch, cur[e].id} :
              /\ v = NoMatch \/ gpc[e] \in {"url", "body"}
              /\ verdict' = [verdict EXCEPT ![e] = v] /\ gpc' = [gpc EXCEPT ![e] = "ended"]
    <3>1. CASE NothingFound(e)
      BY <3>1 DEF NothingFound, SendDone
    <3>2. CASE TakeSlot(e)
      BY <3>2 DEF TakeSlot
    <3>3. CASE NoSlotInTime(e)
      BY <3>3 DEF NoSlotInTime, SendDone
    <3>4. CASE MatchURL(e)
      BY <3>4 DEF MatchURL, SendDone
    <3>5. CASE MatchBody(e)
      BY <3>5 DEF MatchBody, SendDone
    <3>6. QED
      BY <1>3, <3>1, <3>2, <3>3, <3>4, <3>5
  <2>3. Alone
    BY <2>1, <2>2
  <2>4. gpc' \in [Eval -> Running]
    BY <2>2
  <2>5. verdict' \in [Eval -> RuleId \cup {NoMatch, None}]
    <3>1. gpc[e] \in {"url", "body"} => cur[e].id \in RuleId
      BY DEF Copies
    <3>2. QED
      BY <2>2, <3>1
  <2>6. \A f \in Eval : gpc'[f] \in AtRule => cur'[f] \in Copies
    BY <2>1, <2>2
  <2>7. QED
    BY <2>1, <2>3, <2>4, <2>5, <2>6
<1>4. CASE Expire(e)
  <2>1. expired' = expired \cup {e} /\ UNCHANGED <<snap, left, cur, gpc, verdict, answer>>
    BY <1>4 DEF Expire
  <2>2. QED
    BY <2>1
<1>5. CASE Return(e)
  <2>1. /\ UNCHANGED <<snap, left, cur, gpc, verdict, expired>>
        /\ answer' = [answer EXCEPT ![e] = verdict[e]] \/ answer' = [answer EXCEPT ![e] = NoMatch]
    BY <1>5 DEF Return
  <2>2. QED
    BY <2>1
<1>6. QED
  BY <1>1, <1>2, <1>3, <1>4, <1>5 DEF Evaluate, Goroutine

(* One step keeps the types of the calls. *)
LEMMA CallsStep == MapsType /\ CallsType /\ [RulesNext]_<<ruleVars, evalVars>> => CallsType'
<1> SUFFICES ASSUME MapsType, CallsType, [RulesNext]_<<ruleVars, evalVars>> PROVE CallsType'
  OBVIOUS
<1>1. ASSUME NEW e \in Eval, Evaluate(e) PROVE CallsType'
  BY <1>1, OneEvaluation
<1>2. ASSUME UNCHANGED evalVars PROVE CallsType'
  BY <1>2 DEF evalVars, CallsType
<1>3. ASSUME RulesLost PROVE CallsType'
  BY <1>3 DEF RulesLost, Each, CallsType, Running, AtRule
<1>4. QED
  BY <1>1, <1>2, <1>3 DEF RulesNext

(* A slot is taken and given back with the step into and out of a match. *)
LEMMA SlotStep ==
  MapsType /\ CallsType /\ SlotInv /\ [RulesNext]_<<ruleVars, evalVars>> => SlotInv'
<1> SUFFICES ASSUME MapsType, CallsType, SlotInv, [RulesNext]_<<ruleVars, evalVars>> PROVE SlotInv'
  OBVIOUS
<1>1. IsFiniteSet(Matching) /\ Cardinality(Matching) \in Nat /\ MaxRegex \in Nat
  BY EvalAssumption, FS_Subset, FS_CardinalityType DEF Matching
<1>2. ASSUME Matching' = Matching, regexSem' = regexSem PROVE SlotInv'
  BY <1>2 DEF SlotInv
<1>3. ASSUME NEW e \in Eval, Evaluate(e) PROVE SlotInv'
  <2>1. \A f \in Eval \ {e} : gpc'[f] = gpc[f]
    BY <1>3, OneEvaluation
  <2>2. CASE Snapshot(e) \/ Visit(e) \/ NothingFound(e) \/ NoSlotInTime(e) \/ Expire(e) \/ Return(e)
    <3>1. regexSem' = regexSem /\ (gpc' = gpc \/ (gpc[e] \notin {"url", "body"} /\ gpc'[e] \notin {"url", "body"}))
      BY <2>2 DEF Snapshot, Visit, NothingFound, NoSlotInTime, Expire, Return, SendDone, CallsType
    <3>2. Matching' = Matching
      BY <2>1, <3>1 DEF Matching
    <3>3. QED
      BY <1>2, <3>1, <3>2
  <2>3. CASE TakeSlot(e)
    <3>1. /\ gpc[e] \notin {"url", "body"} /\ gpc'[e] \in {"url", "body"}
          /\ regexSem' = regexSem + 1 /\ regexSem < MaxRegex
      BY <2>3 DEF TakeSlot, CallsType
    <3>2. Matching' = Matching \cup {e} /\ e \notin Matching
      BY <2>1, <3>1 DEF Matching
    <3>3. Cardinality(Matching') = Cardinality(Matching) + 1
      BY <1>1, <3>2, FS_AddElement
    <3>4. QED
      BY <1>1, <3>1, <3>3 DEF SlotInv
  <2>4. CASE MatchURL(e) \/ MatchBody(e)
    <3>1. /\ gpc[e] \in {"url", "body"} /\ gpc'[e] \notin {"url", "body"}
          /\ regexSem' = regexSem - 1
      <4>1. CASE MatchURL(e)
        <5>1. \E l \in {"loop", "wantBody", "ended"} : gpc' = [gpc EXCEPT ![e] = l]
          BY <4>1 DEF MatchURL, SendDone
        <5>2. QED
          BY <4>1, <5>1 DEF MatchURL, CallsType
      <4>2. CASE MatchBody(e)
        BY <4>2 DEF MatchBody, SendDone, CallsType
      <4>3. QED
        BY <2>4, <4>1, <4>2
    <3>2. Matching' = Matching \ {e} /\ e \in Matching
      BY <2>1, <3>1 DEF Matching
    <3>3. Cardinality(Matching') = Cardinality(Matching) - 1
      BY <1>1, <3>2, FS_RemoveElement
    <3>4. QED
      BY <1>1, <3>1, <3>3 DEF SlotInv
  <2>5. QED
    BY <1>3, <2>2, <2>3, <2>4 DEF Evaluate, Goroutine
<1>4. ASSUME UNCHANGED evalVars PROVE SlotInv'
  BY <1>2, <1>4 DEF evalVars, Matching
<1>5. ASSUME RulesLost PROVE SlotInv'
  <2>1. Matching' = {} /\ regexSem' = 0
    BY <1>5 DEF RulesLost, Each, Matching
  <2>2. QED
    BY <1>1, <2>1, FS_EmptySet DEF SlotInv
<1>6. QED
  BY <1>3, <1>4, <1>5 DEF RulesNext

(* The manager starts with the rules it is given, and no call. *)
LEMMA RulesTypeInit == RulesInit => MapsType /\ CallsType /\ SlotInv
<1> SUFFICES ASSUME RulesInit PROVE MapsType /\ CallsType /\ SlotInv
  OBVIOUS
<1>1. MapsType
  BY RuleAssumption DEF RulesInit, MapsType
<1>2. CallsType
  BY DEF RulesInit, Each, CallsType, Running, AtRule
<1>3. Matching = {} /\ regexSem = 0
  BY DEF RulesInit, Each, Matching
<1>4. QED
  BY <1>1, <1>2, <1>3, FS_EmptySet, EvalAssumption DEF SlotInv

(***************************************************************************)
(* Type correctness of the rules: the two maps agree, and regexEvalSem is  *)
(* never overdrawn and never below zero, whatever evaluations expire or    *)
(* return while their goroutines go on.                                    *)
(***************************************************************************)
THEOREM RulesTypeCorrect == RulesSpec => []RulesTypeOK
<1>1. MapsType /\ CallsType /\ SlotInv => RulesTypeOK
  <2> SUFFICES ASSUME MapsType, CallsType, SlotInv PROVE RulesTypeOK
    OBVIOUS
  <2>1. IsFiniteSet(Matching) /\ Cardinality(Matching) \in Nat /\ MaxRegex \in Nat
    BY EvalAssumption, FS_Subset, FS_CardinalityType DEF Matching
  <2>2. regexSem \in 0..MaxRegex
    BY <2>1 DEF SlotInv
  <2>3. \A id \in RuleId : bodyRe[id] # None => rules[id] # None
    BY DEF MapsType, BodyOf
  <2>4. QED
    BY <2>2, <2>3 DEF RulesTypeOK, MapsType, CallsType
<1>2. QED
  BY <1>1, RulesTypeInit, MapsStep, CallsStep, SlotStep, PTL DEF RulesSpec
-----------------------------------------------------------------------------
(* The rules: what an evaluation finds *)

Asks(e) == {x \in snap[e] : Wants(x.rule, message[e], e \in Responses)}

(* What MatchURL tests besides the URL. *)
Passes(e, r) ==
    /\ message[e].url \in r.urls /\ matchesHeader(r, message[e])
    /\ e \in Responses => matchesStatusCode(r, message[e])

(* Until its context is done the goroutine passes over no rule that asks:  *)
(* such a rule is still to be visited, or is the one it is at.             *)
Sought(e) ==
    /\ gpc[e] = "idle" => answer[e] = None /\ verdict[e] = None /\ e \notin expired
    /\ left[e] \subseteq snap[e]
    /\ gpc[e] \in AtRule => cur[e] \in snap[e] /\ ~Skips(e, cur[e].rule)
    /\ gpc[e] \in {"wantBody", "body"} => Passes(e, cur[e].rule) /\ cur[e].body # None
    /\ (gpc[e] \in AtRule \cup {"loop"} /\ ~CtxDone(e)) =>
          \A x \in Asks(e) : x \in left[e] \/ (gpc[e] \in AtRule /\ x = cur[e])

(* What the goroutine has sent, and what the call has returned. *)
Told(e) ==
    /\ verdict[e] # None => gpc[e] = "ended"
    /\ verdict[e] = NoMatch => CtxDone(e) \/ Asks(e) = {}
    /\ verdict[e] \in RuleId => verdict[e] \in {x.id : x \in Asks(e)}
    /\ answer[e] = NoMatch => e \in expired \/ Asks(e) = {}
    /\ answer[e] \in RuleId => answer[e] \in {x.id : x \in Asks(e)}

MatchInv == MapsType /\ CallsType /\ \A e \in Eval : Sought(e) /\ Told(e)

(* The three tests of the goroutine amount to what the rule asks for. *)
LEMMA WantsSplit ==
  ASSUME NEW e \in Eval, NEW r
  PROVE  Wants(r, message[e], e \in Responses) <=>
            /\ ~Skips(e, r) /\ Passes(e, r)
            /\ r.body = None \/ message[e].body \in r.body
BY DEF Wants, Skips, Passes, matchesHeader, matchesStatusCode

(* An evaluation that nothing touches stays as it is. *)
LEMMA FoundFrame ==
  ASSUME NEW e \in Eval, Sought(e), Told(e),
         snap'[e] = snap[e], left'[e] = left[e], cur'[e] = cur[e], gpc'[e] = gpc[e],
         verdict'[e] = verdict[e], answer'[e] = answer[e], e \in expired' <=> e \in expired
  PROVE  Sought(e)' /\ Told(e)'
BY DEF Sought, Told, Asks, CtxDone

(* A step that leaves the snapshot alone, by what it does to the search. *)
LEMMA SearchMoves ==
  ASSUME NEW e \in Eval, CallsType, Sought(e), Told(e), snap'[e] = snap[e], gpc[e] # "idle",
         gpc'[e] # "idle", answer'[e] = answer[e], e \in expired' <=> e \in expired,
         left'[e] \subseteq left[e],
         gpc'[e] \in AtRule => cur'[e] \in snap[e] /\ ~Skips(e, cur'[e].rule),
         gpc'[e] \in {"wantBody", "body"} => Passes(e, cur'[e].rule) /\ cur'[e].body # None,
         (gpc'[e] \in AtRule \cup {"loop"} /\ ~CtxDone(e)) =>
            \A x \in Asks(e) : x \in left'[e] \/ (gpc'[e] \in AtRule /\ x = cur'[e]),
         verdict'[e] # None => gpc'[e] = "ended",
         verdict'[e] = NoMatch => CtxDone(e) \/ Asks(e) = {},
         verdict'[e] \in RuleId => verdict'[e] \in {x.id : x \in Asks(e)}
  PROVE  Sought(e)' /\ Told(e)'
<1>1. Asks(e)' = Asks(e) /\ (CtxDone(e)' <=> CtxDone(e))
  BY DEF Asks, CtxDone
<1>2. Sought(e)'
  BY <1>1 DEF Sought
<1>3. Told(e)'
  BY <1>1 DEF Told
<1>4. QED
  BY <1>2, <1>3

(* One step of an evaluation keeps what it knows. *)
LEMMA FoundStep ==
  ASSUME MatchInv, NEW e \in Eval, Evaluate(e) PROVE Sought(e)' /\ Told(e)'
<1>0. MapsType /\ CallsType /\ Sought(e) /\ Told(e) /\ CallsType'
  BY OneEvaluation DEF MatchInv
<1>1. CASE Snapshot(e)
  <2>1. PICK S \in SUBSET Copies :
            /\ snap' = [snap EXCEPT ![e] = S] /\ left' = [left EXCEPT ![e] = S]
            /\ gpc[e] = "idle" /\ gpc' = [gpc EXCEPT ![e] = "loop"]
            /\ UNCHANGED <<cur, verdict, regexSem, expired, answer>>
    BY <1>0, <1>1, SnapshotCopies
  <2>2. /\ snap'[e] = S /\ left'[e] = S /\ gpc'[e] = "loop" /\ verdict'[e] = None /\ answer'[e] = None
        /\ e \notin expired'
    BY <1>0, <2>1 DEF CallsType, Sought
  <2>3. Sought(e)'
    BY <2>2 DEF Sought, AtRule, Asks
  <2>4. Told(e)'
    BY <2>2, RuleAssumption DEF Told
  <2>5. QED
    BY <2>3, <2>4
<1>2. CASE Visit(e)
  <2>1. PICK x \in left[e] :
           /\ left' = [left EXCEPT ![e] = left[e] \ {x}]
           /\ \/ Skips(e, x.rule) /\ UNCHANGED <<cur, gpc>>
              \/ /\ ~Skips(e, x.rule)
                 /\ cur' = [cur EXCEPT ![e] = x] /\ gpc' = [gpc EXCEPT ![e] = "want"]
    BY <1>2 DEF Visit
  <2>2. gpc[e] = "loop" /\ UNCHANGED <<snap, verdict, expired, answer>> /\ left'[e] = left[e] \ {x}
    BY <1>0, <1>2, <2>1 DEF Visit, CallsType
  <2>3. x \in snap[e] /\ verdict[e] = None
    BY <1>0, <2>2 DEF Sought, Told
  <2>4. Skips(e, x.rule) => x \notin Asks(e)
    BY WantsSplit DEF Asks
  <2>5. CASE Skips(e, x.rule) /\ UNCHANGED <<cur, gpc>>
    <3>1. ~CtxDone(e) => \A y \in Asks(e) : y \in left'[e]
      BY <1>0, <2>2, <2>4, <2>5 DEF Sought, AtRule
    <3>2. QED
      BY <1>0, <2>2, <2>3, <2>5, <3>1, SearchMoves, RuleAssumption DEF AtRule
  <2>6. CASE /\ ~Skips(e, x.rule)
             /\ cur' = [cur EXCEPT ![e] = x] /\ gpc' = [gpc EXCEPT ![e] = "want"]
    <3>1. cur'[e] = x /\ gpc'[e] = "want"
      BY <1>0, <2>6 DEF CallsType
    <3>2. ~CtxDone(e) => \A y \in Asks(e) : y \in left'[e] \/ y = x
      BY <1>0, <2>2 DEF Sought, AtRule
    <3>3. QED
      BY <1>0, <2>2, <2>3, <2>6, <3>1, <3>2, SearchMoves, RuleAssumption DEF AtRule
  <2>7. QED
    BY <2>1, <2>5, <2>6
<1>3. CASE NothingFound(e)
  <2>1. /\ gpc[e] = "loop" /\ left[e] = {} /\ UNCHANGED <<snap, left, cur, expired, answer>>
        /\ verdict'[e] = NoMatch /\ gpc'[e] = "ended"
    BY <1>0, <1>3 DEF NothingFound, SendDone, CallsType
  <2>2. CtxDone(e) \/ Asks(e) = {}
    BY <1>0, <2>1 DEF Sought, AtRule
  <2>3. QED
    BY <1>0, <2>1, <2>2, SearchMoves, RuleAssumption DEF AtRule
<1>4. CASE TakeSlot(e)
  <2>1. /\ UNCHANGED <<snap, left, cur, verdict, expired, answer>>
        /\ \/ gpc[e] = "want" /\ gpc'[e] = "url"
           \/ gpc[e] = "wantBody" /\ gpc'[e] = "body"
    BY <1>0, <1>4 DEF TakeSlot, CallsType
  <2>2. verdict[e] = None
    BY <1>0, <2>1 DEF Told
  <2>3. /\ cur[e] \in snap[e] /\ ~Skips(e, cur[e].rule)
        /\ gpc[e] = "wantBody" => Passes(e, cur[e].rule) /\ cur[e].body # None
        /\ ~CtxDone(e) => \A x \in Asks(e) : x \in left[e] \/ x = cur[e]
    BY <1>0, <2>1 DEF Sought, AtRule
  <2>4. QED
    BY <1>0, <2>1, <2>2, <2>3, SearchMoves, RuleAssumption DEF AtRule
<1>5. CASE NoSlotInTime(e)
  <2>1. /\ CtxDone(e) /\ UNCHANGED <<snap, left, cur, expired, answer>>
        /\ \/ gpc[e] = "want" /\ gpc'[e] = "ended" /\ verdict'[e] = NoMatch
           \/ gpc[e] = "wantBody" /\ gpc'[e] = "loop" /\ verdict' = verdict
    BY <1>0, <1>5 DEF NoSlotInTime, SendDone, CallsType
  <2>2. verdict[e] = None
    BY <1>0, <2>1 DEF Told
  <2>3. QED
    BY <1>0, <2>1, <2>2, SearchMoves, RuleAssumption DEF AtRule
<1>6. CASE MatchURL(e)
  <2> DEFINE r == cur[e].rule
             goesOn == Passes(e, r)
  <2>1. /\ gpc[e] = "url" /\ UNCHANGED <<snap, left, cur, expired, answer>>
    BY <1>6 DEF MatchURL
  <2>2. /\ cur[e] \in snap[e] /\ ~Skips(e, r) /\ verdict[e] = None
        /\ ~CtxDone(e) => \A x \in Asks(e) : x \in left[e] \/ x = cur[e]
    BY <1>0, <2>1 DEF Sought, Told, AtRule
  <2>3. cur[e].body = r.body /\ cur[e].id \in RuleId
    BY <1>0, <2>1 DEF CallsType, AtRule, Copies
  <2>4. CASE ~goesOn
    <3>1. gpc'[e] = "loop" /\ verdict' = verdict
      BY <1>0, <1>6, <2>4 DEF MatchURL, CallsType, Passes
    <3>2. cur[e] \notin Asks(e)
      BY <2>4, WantsSplit DEF Asks
    <3>3. QED
      BY <1>0, <2>1, <2>2, <3>1, <3>2, SearchMoves, RuleAssumption DEF AtRule
  <2>5. CASE goesOn /\ cur[e].body # None
    <3>1. gpc'[e] = "wantBody" /\ verdict' = verdict
      BY <1>0, <1>6, <2>5 DEF MatchURL, CallsType, Passes
    <3>2. QED
      BY <1>0, <2>1, <2>2, <2>5, <3>1, SearchMoves, RuleAssumption DEF AtRule
  <2>6. CASE goesOn /\ cur[e].body = None
    <3>1. gpc'[e] = "ended" /\ verdict'[e] = cur[e].id
      BY <1>0, <1>6, <2>6 DEF MatchURL, SendDone, CallsType, Passes
    <3>2. cur[e] \in Asks(e)
      BY <2>2, <2>3, <2>6, WantsSplit DEF Asks
    <3>3. QED
      BY <1>0, <2>1, <2>3, <3>1, <3>2, SearchMoves, RuleAssumption DEF AtRule
  <2>7. QED
    BY <2>4, <2>5, <2>6
<1>7. CASE MatchBody(e)
  <2> DEFINE r == cur[e].rule
  <2>1. /\ gpc[e] = "body" /\ UNCHANGED <<snap, left, cur, expired, answer>>
    BY <1>7 DEF MatchBody
  <2>2. /\ cur[e] \in snap[e] /\ ~Skips(e, r) /\ Passes(e, r) /\ cur[e].body # None /\ verdict[e] = None
        /\ ~CtxDone(e) => \A x \in Asks(e) : x \in left[e] \/ x = cur[e]
    BY <1>0, <2>1 DEF Sought, Told, AtRule
  <2>3. cur[e].body = r.body /\ cur[e].id \in RuleId
    BY <1>0, <2>1 DEF CallsType, AtRule, Copies
  <2>4. CASE message[e].body \in cur[e].body
    <3>1. gpc'[e] = "ended" /\ verdict'[e] = cur[e].id
      BY <1>0, <1>7, <2>4 DEF MatchBody, SendDone, CallsType
    <3>2. cur[e] \in Asks(e)
      BY <2>2, <2>3, <2>4, WantsSplit DEF Asks
    <3>3. QED
      BY <1>0, <2>1, <2>3, <3>1, <3>2, SearchMoves, RuleAssumption DEF AtRule
  <2>5. CASE message[e].body \notin cur[e].body
    <3>1. gpc'[e] = "loop" /\ verdict' = verdict
      BY <1>0, <1>7, <2>5 DEF MatchBody, CallsType
    <3>2. cur[e] \notin Asks(e)
      BY <2>2, <2>3, <2>5, WantsSplit DEF Asks
    <3>3. QED
      BY <1>0, <2>1, <2>2, <3>1, <3>2, SearchMoves, RuleAssumption DEF AtRule
  <2>6. QED
    BY <2>4, <2>5
<1>8. CASE Expire(e)
  <2>1. gpc[e] # "idle" /\ e \in expired' /\ UNCHANGED <<snap, left, cur, gpc, verdict, answer>>
    BY <1>8 DEF Expire
  <2>2. CtxDone(e)' /\ Asks(e)' = Asks(e)
    BY <2>1 DEF CtxDone, Asks
  <2>3. QED
    BY <1>0, <2>1, <2>2 DEF Sought, Told
<1>9. CASE Return(e)
  <2>1. /\ gpc[e] # "idle" /\ answer[e] = None /\ UNCHANGED <<snap, left, cur, gpc, verdict, expired>>
        /\ \/ verdict[e] # None /\ answer'[e] = verdict[e]
           \/ e \in expired /\ answer'[e] = NoMatch
    BY <1>0, <1>9 DEF Return, CallsType
  <2>2. CtxDone(e)' /\ Asks(e)' = Asks(e) /\ (CtxDone(e) => e \in expired)
    BY <2>1, RuleAssumption DEF CtxDone, Asks
  <2>3. Sought(e)'
    BY <1>0, <2>1, <2>2 DEF Sought
  <2>4. Told(e)'
    BY <1>0, <2>1, <2>2, RuleAssumption DEF Told
  <2>5. QED
    BY <2>3, <2>4
<1>10. QED
  BY <1>1, <1>2, <1>3, <1>4, <1>5, <1>6, <1>7, <1>8, <1>9 DEF Evaluate, Goroutine

(* One step keeps what every evaluation knows. *)
LEMMA MatchStep == MatchInv /\ [RulesNext]_<<ruleVars, evalVars>> => MatchInv'
<1> SUFFICES ASSUME MatchInv, [RulesNext]_<<ruleVars, evalVars>> PROVE MatchInv'
  OBVIOUS
<1>1. MapsType /\ CallsType /\ MapsType' /\ CallsType'
  BY MapsStep, CallsStep DEF MatchInv
<1>2. ASSUME NEW f \in Eval PROVE Sought(f)' /\ Told(f)'
  <2>1. Sought(f) /\ Told(f)
    BY DEF MatchInv
  <2>2. ASSUME NEW e \in Eval, Evaluate(e) PROVE Sought(f)' /\ Told(f)'
    <3>1. CASE f = e
      BY <2>2, <3>1, FoundStep
    <3>2. CASE f # e
      BY <1>1, <2>1, <2>2, <3>2, OneEvaluation, FoundFrame
    <3>3. QED
      BY <3>1, <3>2
  <2>3. ASSUME UNCHANGED evalVars PROVE Sought(f)' /\ Told(f)'
    BY <2>1, <2>3, FoundFrame DEF evalVars
  <2>4. ASSUME RulesLost PROVE Sought(f)' /\ Told(f)'
    <3>1. /\ snap'[f] = {} /\ left'[f] = {} /\ gpc'[f] = "idle" /\ verdict'[f] = None /\ answer'[f] = None
          /\ f \notin expired'
      BY <2>4 DEF RulesLost, Each
    <3>2. QED
      BY <3>1, RuleAssumption DEF Sought, Told, AtRule
  <2>5. QED
    BY <2>2, <2>3, <2>4 DEF RulesNext
<1>3. QED
  BY <1>1, <1>2 DEF MatchInv

(***************************************************************************)
(* Whatever rules are added and removed meanwhile, in whatever order the   *)
(* map is read and however many evaluations share the slots, a message is  *)
(* held only for a rule that asked for it when the evaluation began, and   *)
(* passes only when none did or the time was over.                         *)
(***************************************************************************)
THEOREM MatchAlwaysTrue == RulesSpec => []MatchIsTrue
<1>1. RulesInit => MatchInv
  <2> SUFFICES ASSUME RulesInit, NEW e \in Eval PROVE Sought(e) /\ Told(e)
    BY RulesTypeInit DEF MatchInv
  <2>1. /\ snap[e] = {} /\ left[e] = {} /\ gpc[e] = "idle" /\ verdict[e] = None /\ answer[e] = None
        /\ e \notin expired
    BY DEF RulesInit, Each
  <2>2. QED
    BY <2>1, RuleAssumption DEF Sought, Told, AtRule
<1>2. MatchInv => MatchIsTrue
  <2> SUFFICES ASSUME MatchInv, NEW e \in Eval, answer[e] # None
               PROVE  IF answer[e] = NoMatch THEN e \in expired \/ Asks(e) = {}
                      ELSE answer[e] \in {x.id : x \in Asks(e)}
    BY DEF MatchIsTrue, Asks
  <2>1. answer[e] = NoMatch \/ answer[e] \in RuleId
    BY DEF MatchInv, CallsType
  <2>2. QED
    BY <2>1 DEF MatchInv, Told
<1>3. QED
  BY <1>1, <1>2, MatchStep, PTL DEF RulesSpec
-----------------------------------------------------------------------------
(* The control plane: the inductive invariant *)

(* The calls that change something, and the commands by the calls they make. *)
WriteRpcs ==
    {"SetBreakpoint", "DeleteBreakpoint", "AddRewriteRule", "UpdateRewriteRule", "DeleteRewriteRule", "ToggleRewriteRule",
     "SaveRequestTemplate", "DeleteRequestTemplate", "ClearHistory", "ReplayRequest", "ComposeRequest", "ResumeRequest"}

(* The calls that succeed when there is nothing to delete. *)
Deletes == {"DeleteRewriteRule", "DeleteRequestTemplate", "ClearHistory"}

StatusCommands == {"setup", "doctor", "doctor bundle"}
Toggles == {"breakpoints enable", "breakpoints disable"}
LocalCommands ==
    {"contract init", "contract validate", "contract convert", "cert status", "config-check", "config show", "completion"}

(* The answers after which a command claims to have changed nothing. *)
Claims == {"InvalidArgument", "NotFound", "Unauthenticated", "error"}

(* The handler of c has changed what it changes and has not answered. *)
Changed(c) == spc[c] = "audit" \/ (spc[c] = "store" /\ call[c].rpc # "ToggleRewriteRule")

(* Which call can be at which stage. *)
StageOK(c) ==
    /\ spc[c] \in InFlight \cup {"none", "answered"}
    /\ spc[c] # "none" => CallAllowed(call[c])
    /\ spc[c] = "store" => call[c].rpc \in {"SetBreakpoint", "DeleteBreakpoint", "ToggleRewriteRule"}
    /\ spc[c] = "upstream" => call[c].rpc \in {"ReplayRequest", "ComposeRequest"}
    /\ spc[c] = "stream" => call[c].rpc = "GetHistory"
    /\ spc[c] = "open" => call[c].rpc \in {"CaptureTraffic", "WatchPausedRequests"}
    /\ spc[c] = "audit" => call[c].rpc \in WriteRpcs

(* The call of c has changed what it changes, and was audited where calls are. *)
Done(c) ==
    /\ effects[c] = 1 \/ call[c].rpc \in Deletes
    /\ scenario.auditing = "on" => c \in audit

(* What the answer says of the change. *)
EffectOK(c) ==
    /\ effects[c] \in {0, 1}
    /\ Changed(c) /\ call[c].rpc \notin Deletes => effects[c] = 1
    /\ spc[c] = "answered" /\ call[c].rpc \in WriteRpcs /\ reply[c].code = "OK" => Done(c)
    /\ effects[c] = 1 =>
          /\ spc[c] # "none" /\ call[c].rpc \in WriteRpcs
          /\ Changed(c) \/ (spc[c] = "answered" /\ reply[c].code \notin Claims)

(* What a list of the rules holds. *)
ListOK(c) ==
    spc[c] = "answered" /\ call[c].rpc = "ListBreakpoints" /\ reply[c].code = "OK"
        => reply[c].data \subseteq [id : RuleId, rule : Rule]

(* Which call a command is at. *)
RpcOK(c) ==
    /\ step[c] \in 0..MaxStep
    /\ step[c] = 0 <=> spc[c] = "none"
    /\ step[c] > 0 =>
          /\ cmd(c) # None /\ ~cmd(c).usage /\ cmd(c).name \notin LocalCommands
          /\ cmd(c).name \in StatusCommands => call[c].rpc = "GetStatus"
          /\ cmd(c).name \in {"learn", "export ndjson", "export har"} => call[c].rpc \in {"GetHistory", "ExportHAR"}
          /\ cmd(c).name = "history get" => call[c].rpc = "GetHistory"
          /\ cmd(c).name \in Toggles /\ step[c] = 1 => call[c].rpc = "ListBreakpoints"
          /\ cmd(c).name \in Toggles /\ step[c] # 1 => call[c].rpc = "SetBreakpoint"
          /\ cmd(c).name = "templates execute" /\ step[c] = 1 => call[c].rpc = "ListRequestTemplates"
          /\ cmd(c).name = "templates execute" /\ step[c] # 1 => call[c].rpc = "ComposeRequest"
          /\ cmd(c).name \in Writes \ (Toggles \cup {"templates execute"}) => call[c].rpc \in WriteRpcs
          /\ cmd(c).name \in Writes \ Deletions => call[c].rpc \notin Deletes

(* The call of c will change nothing any more. *)
Settled(c) == spc[c] \in {"none", "answered"} \/ call[c].rpc \notin WriteRpcs

(* The command of c has made its change, and its file is what its success says. *)
Made(c) ==
    /\ effects[c] = 1 \/ (effects[c] = 0 /\ cmd(c).name \in Deletions)
    /\ scenario.auditing = "on" => c \in audit
Whole(c) == file[c] = "new" \/ (cmd(c).name = "export har" /\ cmd(c).file = "failing")

(* What an exit code says, and that it stays so; the file of learn is not touched before the end. *)
ExitOK(c) ==
    /\ exit[c] = None /\ cmd(c) # None /\ cmd(c).name = "learn" => file[c] = "old"
    /\ exit[c] # None /\ cmd(c) # None =>
          /\ exit[c] \in {2, 3, 4} => effects[c] = 0 /\ Settled(c)
          /\ exit[c] = 0 /\ cmd(c).name \in Writes => Made(c) /\ Settled(c)
          /\ exit[c] = 0 /\ cmd(c).file # "none" => Whole(c)
          /\ exit[c] # 0 /\ cmd(c).name = "learn" /\ cmd(c).file # "failing" => file[c] = "old"

(* The variables are functions on the clients. *)
Functions ==
    /\ DOMAIN call = Client /\ DOMAIN spc = Client /\ DOMAIN draft = Client /\ DOMAIN reply = Client
    /\ DOMAIN effects = Client /\ DOMAIN step = Client /\ DOMAIN exit = Client /\ DOMAIN file = Client

(* The tables keep their rows. *)
TablesOK == DOMAIN table = Tables /\ DOMAIN table["breakpoints"] = RuleId

(* The arguments of the commands are as they were. *)
CommandsOK == {"commands", "auditing"} \subseteq DOMAIN scenario /\ \A c \in Client : cmd(c) # None => CommandAllowed(cmd(c))

(* What the server and what the command keep to. *)
CallOK(c) == StageOK(c) /\ EffectOK(c) /\ ListOK(c)
ClientOK(c) == CallOK(c) /\ RpcOK(c) /\ ExitOK(c)

(* The inductive invariant of the control plane. *)
ControlInv ==
    /\ Functions /\ TablesOK /\ CommandsOK /\ MapsType
    /\ \A c \in Client : ClientOK(c)

(* The page ends before the row at p, or holds the transaction c looks for. *)
Ahead(c, page, p) ==
    \/ \E i \in DOMAIN page : page[i] = cmd(c).id
    \/ page # <<>> /\ p > call[c].offset + Len(page)

(* The searches for a transaction that was there at the start. *)
Searches(c) == cmd(c) # None /\ cmd(c).name = "history get" /\ cmd(c).id <= FirstHistory

(* The place where the search of c is has not passed the transaction it looks for. *)
SearchOK(c) ==
    /\ step[c] > 0 /\ exit[c] = None =>
          /\ call[c].via = "grpc" /\ call[c].match = None
          /\ call[c].limit \in Nat /\ call[c].offset \in Nat
          /\ spc[c] = "stream" => draft[c] \in Seq(Nat)
          /\ spc[c] = "answered" => reply[c].code # "NotFound"
          /\ spc[c] = "answered" /\ reply[c].code = "OK" => reply[c].data \in Seq(Nat)
          /\ \A p \in DOMAIN history : history[p] = cmd(c).id =>
                /\ spc[c] \in {"sent", "admitted", "handler"} => p > call[c].offset
                /\ spc[c] = "stream" => Ahead(c, draft[c], p)
                /\ spc[c] = "answered" /\ reply[c].code = "OK" => Ahead(c, reply[c].data, p)
    /\ exit[c] = 3 => \A i \in DOMAIN history : history[i] # cmd(c).id

(* The inductive invariant of the searches; it rests on ControlInv. *)
SearchInv ==
    /\ history \in Seq(Nat) /\ captured \in Nat /\ captured >= FirstHistory
    /\ \A c \in Client : Searches(c) => SearchOK(c)

-----------------------------------------------------------------------------
(* The control plane: steps of the server *)

(* Nothing about client d is touched. *)
Same(d) ==
    /\ spc'[d] = spc[d] /\ call'[d] = call[d] /\ draft'[d] = draft[d] /\ reply'[d] = reply[d]
    /\ effects'[d] = effects[d] /\ (d \in audit' <=> d \in audit)
    /\ step'[d] = step[d] /\ exit'[d] = exit[d] /\ file'[d] = file[d]
    /\ cmd(d)' = cmd(d) /\ scenario'.auditing = scenario.auditing

(* A step of the server on the call of c: what it may do to c, to the others and to the store. *)
ServerStep(c) ==
    /\ spc[c] \in InFlight /\ spc'[c] # "none" /\ call' = call
    /\ CallOK(c)'
    /\ \A d \in Client : d # c => Same(d)
    /\ Functions' /\ TablesOK'
    /\ history' \in {history, <<>>} /\ captured' = captured

(* Every interceptor and every handler, but for the resume that ends the process, is such a step. *)
LEMMA HandlerSteps ==
    ASSUME NEW c \in Client, Functions, TablesOK, CallOK(c), rules \in [RuleId -> Rule \cup {None}],
           RateLimit(c) \/ validateToken(c) \/ mcpHandle(c) \/ Handler(c), UNCHANGED <<scenario, clientVars>>
    PROVE  ServerStep(c)
<1> USE DEF ServerStep, CallOK, StageOK, EffectOK, ListOK, Changed, Done, Deletes, CallAllowed, InFlight, WriteRpcs, Claims,
            Functions, TablesOK, Tables, Same, cmd, clientVars
<1>1. ASSUME RateLimit(c) PROVE ServerStep(c)
  BY <1>1 DEF RateLimit, Goto, Refuse, Answer
<1>2. ASSUME validateToken(c) PROVE ServerStep(c)
  BY <1>2 DEF validateToken, Goto, Refuse, Answer
<1>3. ASSUME mcpHandle(c) PROVE ServerStep(c)
  <2>1. UNCHANGED <<call, draft, effects, audit, table, history, captured>> /\ spc[c] = "sent"
    BY <1>3 DEF mcpHandle
  <2>2. \/ Refuse(c, mcpRefusal(c)) \/ Goto(c, "handler") \/ Refuse(c, "InvalidArgument") \/ Refuse(c, "NotFound")
        \/ call[c].rpc \in {"initialize", "tools/list"} /\ Answer(c, "OK", AllowedTools)
    BY <1>3, Zenon DEF mcpHandle
  <2>3. mcpRefusal(c) # "OK"
    BY DEF mcpRefusal
  <2>4. QED
    BY <2>1, <2>2, <2>3 DEF Goto, Refuse, Answer
<1>4. ASSUME Describe(c) PROVE ServerStep(c)
  BY <1>4 DEF Describe, Answer, Unread
<1>5. ASSUME ListBreakpoints(c) PROVE ServerStep(c)
  BY <1>5 DEF ListBreakpoints, At, Answer, Unread, ListRules
<1>6. ASSUME ListTable(c) PROVE ServerStep(c)
  BY <1>6 DEF ListTable, Answer, Refuse, Unread
<1>7. ASSUME SetBreakpoint(c) PROVE ServerStep(c)
  BY <1>7 DEF SetBreakpoint, At, Refuse, Answer, Goto, Effect
<1>8. ASSUME DeleteBreakpoint(c) PROVE ServerStep(c)
  BY <1>8 DEF DeleteBreakpoint, At, Refuse, Answer, Goto, Effect
<1>9. ASSUME SaveBreakpoint(c) PROVE ServerStep(c)
  BY <1>9 DEF SaveBreakpoint, Goto
<1>10. ASSUME AddRewriteRule(c) PROVE ServerStep(c)
  BY <1>10 DEF AddRewriteRule, At, SaveRow, Statement, Effect, Goto, Refuse, Answer
<1>11. ASSUME UpdateRewriteRule(c) PROVE ServerStep(c)
  BY <1>11 DEF UpdateRewriteRule, Unnamed, At, SaveRow, Statement, Effect, Goto, Refuse, Answer, Unread
<1>12. ASSUME DeleteRewriteRule(c) PROVE ServerStep(c)
  BY <1>12 DEF DeleteRewriteRule, Unnamed, At, RemoveRow, Statement, Effect, Goto, Refuse, Answer, Unread
<1>13. ASSUME ToggleRewriteRule(c) PROVE ServerStep(c)
  BY <1>13 DEF ToggleRewriteRule, Unnamed, At, SaveRow, Statement, Effect, Goto, Refuse, Answer, Unread
<1>14. ASSUME SaveRequestTemplate(c) PROVE ServerStep(c)
  BY <1>14 DEF SaveRequestTemplate, At, SaveRow, Statement, Effect, Goto, Refuse, Answer, Unread
<1>15. ASSUME DeleteRequestTemplate(c) PROVE ServerStep(c)
  BY <1>15 DEF DeleteRequestTemplate, Unnamed, At, RemoveRow, Statement, Effect, Goto, Refuse, Answer, Unread
<1>16. ASSUME GetHistory(c) PROVE ServerStep(c)
  BY <1>16 DEF GetHistory, At, Goto, Refuse, Answer, Unread
<1>17. ASSUME ExportHAR(c) PROVE ServerStep(c)
  BY <1>17 DEF ExportHAR, At, Refuse, Answer, Unread
<1>18. ASSUME ClearHistory(c) PROVE ServerStep(c)
  BY <1>18 DEF ClearHistory, At, Effect, Goto, Refuse, Answer
<1>19. ASSUME Build(c) PROVE ServerStep(c)
  BY <1>19 DEF Build, Goto, Refuse, Answer, Unread
<1>20. ASSUME DoRequest(c) PROVE ServerStep(c)
  BY <1>20 DEF DoRequest, Effect, Goto, Refuse, Answer
<1>21. ASSUME ReloadConfig(c) PROVE ServerStep(c)
  BY <1>21 DEF ReloadConfig, At, Refuse, Answer, Unread
<1>22. ASSUME OpenStream(c) PROVE ServerStep(c)
  BY <1>22 DEF OpenStream, Goto, Unread
<1>23. ASSUME auditLog(c) PROVE ServerStep(c)
  BY <1>23 DEF auditLog, Refuse, Answer
<1>24. QED
  BY <1>1, <1>2, <1>3, <1>4, <1>5, <1>6, <1>7, <1>8, <1>9, <1>10, <1>11, <1>12,
     <1>13, <1>14, <1>15, <1>16, <1>17, <1>18, <1>19, <1>20, <1>21, <1>22, <1>23 DEF Handler

(* So is a resume that finds its request held, or gone. *)
LEMMA ResumeSteps ==
    ASSUME NEW c \in Client, Functions, TablesOK, CallOK(c), ResumeRequest(c), UNCHANGED clientVars, ~ProcessEnds
    PROVE  ServerStep(c) /\ scenario' = scenario
BY DEF ResumeRequest, At, Effect, Goto, Refuse, Answer, Unread, ServerStep, CallOK, StageOK, EffectOK, ListOK, Changed, Done, Deletes,
       CallAllowed, InFlight, WriteRpcs, Claims, Functions, TablesOK, Tables, Same, cmd, clientVars

(* What a client knows does not change while nothing about it is touched. *)
LEMMA SameKeeps ==
    ASSUME NEW d \in Client, Same(d), ClientOK(d)
    PROVE  ClientOK(d)'
<1>1. StageOK(d)'
  BY DEF Same, ClientOK, CallOK, StageOK, CallAllowed, Settable, ValidRule
<1>2. EffectOK(d)' /\ ListOK(d)'
  BY DEF Same, ClientOK, CallOK, EffectOK, ListOK, Changed, Done
<1>3. RpcOK(d)'
  BY DEF Same, ClientOK, RpcOK
<1>4. ExitOK(d)'
  BY DEF Same, ClientOK, ExitOK, Settled, Made, Whole
<1>5. QED
  BY <1>1, <1>2, <1>3, <1>4 DEF ClientOK, CallOK

(* A step of the server on a call whose client has gone makes no exit code untrue. *)
LEMMA ServerStepKeeps ==
    ASSUME NEW c \in Client, ClientOK(c), ServerStep(c), UNCHANGED <<scenario, clientVars>>
    PROVE  ClientOK(c)'
<1>1. CallOK(c)' /\ spc[c] \in InFlight /\ spc'[c] # "none" /\ call' = call /\ step' = step /\ exit' = exit /\ file' = file
      /\ scenario' = scenario
  BY DEF ServerStep, clientVars
<1>2. RpcOK(c)'
  BY <1>1 DEF ClientOK, RpcOK, InFlight, cmd
<1>3. ExitOK(c)'
  <2>1. Settled(c) => call[c].rpc \notin WriteRpcs /\ effects[c] = 0 /\ effects'[c] = 0 /\ Settled(c)'
    BY <1>1 DEF ClientOK, CallOK, EffectOK, Settled, InFlight
  <2>2. Settled(c) /\ cmd(c) # None /\ cmd(c).name \in Writes => ~Made(c)
    <3>1. step[c] > 0
      <4>1. spc[c] # "none"
        BY <1>1 DEF InFlight
      <4>2. step[c] \in 0..MaxStep /\ step[c] # 0
        BY <4>1, Zenon DEF ClientOK, RpcOK
      <4>3. QED
        BY <4>2 DEF MaxStep
    <3>2. cmd(c).name \in Deletions => call[c].rpc \in WriteRpcs
      <4>1. cmd(c).name \in Deletions => cmd(c).name \in Writes \ (Toggles \cup {"templates execute"})
        BY DEF Deletions, Writes, Toggles
      <4>2. QED
        BY <3>1, <4>1 DEF ClientOK, RpcOK
    <3>3. QED
      BY <2>1, <3>2 DEF Made
  <2>3. cmd(c)' = cmd(c)
    BY <1>1 DEF cmd
  <2>4. QED
    BY <1>1, <2>1, <2>2, <2>3 DEF ClientOK, ExitOK, Whole
<1>4. QED
  BY <1>1, <1>2, <1>3 DEF ClientOK

(* The end of the process answers every call: no answer claims what the handler had not done. *)
LEMMA ProcessEndsKeeps ==
    ASSUME Functions, TablesOK, ProcessEnds, UNCHANGED clientVars
    PROVE  /\ Functions' /\ TablesOK' /\ scenario' = scenario /\ history' = history /\ captured' = captured
           /\ \A c \in Client : ClientOK(c) => ClientOK(c)'
<1>1. Functions' /\ TablesOK' /\ scenario' = scenario /\ history' = history /\ captured' = captured
  BY DEF ProcessEnds, Functions, TablesOK, clientVars
<1>2. ASSUME NEW c \in Client, ClientOK(c) PROVE ClientOK(c)'
  <2>1. /\ call' = call /\ effects' = effects /\ audit' = audit /\ scenario' = scenario
        /\ step' = step /\ exit' = exit /\ file' = file
    BY DEF ProcessEnds, clientVars
  <2>2. CASE spc[c] \in InFlight
    <3>1. spc'[c] = "answered" /\ reply'[c].code = "Unavailable"
      BY <2>2 DEF ProcessEnds
    <3>2. CallOK(c)'
      BY <1>2, <2>1, <2>2, <3>1
         DEF ClientOK, CallOK, StageOK, EffectOK, ListOK, Changed, Claims, InFlight, CallAllowed, Settable, ValidRule
    <3>3. RpcOK(c)'
      BY <1>2, <2>1, <2>2, <3>1 DEF ClientOK, RpcOK, InFlight, cmd
    <3>4. ExitOK(c)'
      BY <1>2, <2>1, <2>2, <3>1 DEF ClientOK, ExitOK, Settled, Made, Whole, cmd
    <3>5. QED
      BY <3>2, <3>3, <3>4 DEF ClientOK
  <2>3. CASE spc[c] \notin InFlight
    <3>1. spc'[c] = spc[c] /\ reply'[c] = reply[c] /\ draft' = draft
      BY <2>3 DEF ProcessEnds
    <3>2. Same(c)
      BY <2>1, <3>1 DEF Same, cmd
    <3>3. QED
      BY <1>2, <3>2, SameKeeps
  <2>4. QED
    BY <2>2, <2>3
<1>3. QED
  BY <1>1, <1>2

-----------------------------------------------------------------------------
(* The control plane: steps of the commands *)

(* A step of the command of c keeps what is known of c and touches no other client. *)
ClientStep(c) == ClientOK(c)' /\ Functions' /\ \A d \in Client : d # c => Same(d)

(* No file but the one of c is written. *)
OwnFile(c) == DOMAIN file' = Client /\ \A d \in Client : d # c => file'[d] = file[d]

(* The command of c may be at the call k next. *)
MaySend(c, k) ==
    /\ effects[c] = 0 /\ CallAllowed(k)
    /\ cmd(c).name \notin LocalCommands
    /\ cmd(c).name \in StatusCommands => k.rpc = "GetStatus"
    /\ cmd(c).name \in {"learn", "export ndjson", "export har"} => k.rpc \in {"GetHistory", "ExportHAR"}
    /\ cmd(c).name = "history get" => k.rpc = "GetHistory"
    /\ cmd(c).name \in Toggles /\ step[c] = 0 => k.rpc = "ListBreakpoints"
    /\ cmd(c).name \in Toggles /\ step[c] # 0 => k.rpc = "SetBreakpoint"
    /\ cmd(c).name = "templates execute" /\ step[c] = 0 => k.rpc = "ListRequestTemplates"
    /\ cmd(c).name = "templates execute" /\ step[c] # 0 => k.rpc = "ComposeRequest"
    /\ cmd(c).name \in Writes \ (Toggles \cup {"templates execute"}) => k.rpc \in WriteRpcs
    /\ cmd(c).name \in Writes \ Deletions => k.rpc \notin Deletes

(* What must be so for the command of c to exit with code. *)
MayExit(c, code) ==
    /\ code \in 0..7
    /\ code \in {2, 3, 4} => effects[c] = 0 /\ Settled(c)
    /\ code = 0 /\ cmd(c).name \in Writes => Made(c) /\ Settled(c)
    /\ code = 0 /\ cmd(c).file # "none" =>
          file'[c] = "new" \/ (cmd(c).name = "export har" /\ cmd(c).file = "failing")
    /\ code # 0 /\ cmd(c).name = "learn" /\ cmd(c).file # "failing" => file'[c] = "old"

(* The command of c is under way. *)
Acts(c) == Functions /\ ClientOK(c) /\ cmd(c) # None /\ exit[c] = None /\ CommandAllowed(cmd(c))

(* A command that makes a call it may make. *)
LEMMA SendKeeps ==
    ASSUME NEW c \in Client, NEW k, Acts(c), ~cmd(c).usage, Send(c, k), MaySend(c, k), UNCHANGED serverSide,
           OwnFile(c), cmd(c).name = "learn" => file'[c] = "old"
    PROVE  ClientStep(c)
<1>1. UNCHANGED <<draft, effects, audit, scenario, exit>>
  BY DEF Send, serverSide, traceVars, otherVars
<1>2. step'[c] = (IF step[c] + 1 < MaxStep THEN step[c] + 1 ELSE MaxStep) /\ call'[c] = k
      /\ \/ spc'[c] = "sent"
         \/ spc'[c] = "answered" /\ reply'[c].code = "Unavailable"
  BY DEF Send, Min2, Answer, Acts, Functions
<1>3. Functions' /\ \A d \in Client : d # c => Same(d)
  BY <1>1 DEF Send, Answer, Acts, Functions, Same, cmd, OwnFile
<1>4. step[c] \in 0..MaxStep
  BY DEF Acts, ClientOK, RpcOK
<1>5. step'[c] \in 1..MaxStep /\ (step[c] = 0 <=> step'[c] = 1)
  BY <1>2, <1>4 DEF MaxStep
<1>11. effects'[c] = 0 /\ CallAllowed(k) /\ CallAllowed(call'[c])
  BY <1>1, <1>2 DEF MaySend
<1>6. StageOK(c)'
  BY <1>11, <1>2 DEF StageOK, InFlight
<1>7. EffectOK(c)' /\ ListOK(c)'
  BY <1>11, <1>2 DEF EffectOK, ListOK, Changed, Claims
<1>8. RpcOK(c)'
  <2>1. cmd(c)' = cmd(c)
    BY <1>1 DEF cmd
  <2>2. spc'[c] # "none" /\ call'[c].rpc = k.rpc
    BY <1>2
  <2>3. step'[c] \in {1, 2} /\ (step'[c] = 1 <=> step[c] = 0)
    BY <1>5 DEF MaxStep
  <2>4. cmd(c) # None
    BY DEF Acts
  <2>5. (step[c] \in 0..MaxStep)' /\ (step[c] = 0 <=> spc[c] = "none")' /\ ~cmd(c).usage'
    BY <2>1, <2>2, <2>3 DEF MaxStep
  <2>6. QED
    BY <2>1, <2>2, <2>3, <2>4, <2>5 DEF MaySend, RpcOK
<1>9. ExitOK(c)'
  BY <1>1 DEF ExitOK, Acts, Functions, cmd
<1>10. QED
  BY <1>3, <1>6, <1>7, <1>8, <1>9 DEF ClientStep, ClientOK, CallOK

(* A command that exits as it may. *)
LEMMA ExitKeeps ==
    ASSUME NEW c \in Client, NEW code, Acts(c), Exit(c, code), MayExit(c, code), UNCHANGED serverSide, OwnFile(c)
    PROVE  ClientStep(c)
<1>1. UNCHANGED <<draft, effects, audit, scenario, call, reply, step>>
  BY DEF Exit, serverSide, traceVars, otherVars
<1>2. Functions' /\ \A d \in Client : d # c => Same(d)
  BY <1>1 DEF Exit, Acts, Functions, Same, cmd, OwnFile
<1>3. spc'[c] = (IF spc[c] = "open" THEN "answered" ELSE spc[c]) /\ exit'[c] = code
  BY DEF Exit, Acts, Functions
<1>4. StageOK(c)'
  BY <1>1, <1>3 DEF Acts, ClientOK, CallOK, StageOK, InFlight, CallAllowed, Settable, ValidRule
<1>5. EffectOK(c)' /\ ListOK(c)'
  BY <1>1, <1>3 DEF Acts, ClientOK, CallOK, StageOK, EffectOK, ListOK, Changed, WriteRpcs, Done
<1>6. RpcOK(c)'
  BY <1>1, <1>3 DEF Acts, ClientOK, RpcOK, cmd
<1>7. ExitOK(c)'
  <2>1. code # None
    <3>1. code \in 0..7
      BY Zenon DEF MayExit
    <3>2. QED
      BY <3>1, StartAssumption
  <2>2. cmd(c)' = cmd(c) /\ (Settled(c) => Settled(c)')
    BY <1>1, <1>3 DEF cmd, Settled
  <2>3. (Made(c) => Made(c)') /\ effects' = effects
    BY <1>1 DEF Made, cmd
  <2>4. QED
    BY <1>3, <2>1, <2>2, <2>3 DEF MayExit, ExitOK, Whole
<1>8. QED
  BY <1>2, <1>4, <1>5, <1>6, <1>7 DEF ClientStep, ClientOK, CallOK

(* The exit code of a call that is answered, or given up, says no more than the answer. *)
LEMMA CodeIsTrue ==
    ASSUME NEW c \in Client, ClientOK(c), spc[c] = "answered" \/ c \in gaveUp
    PROVE  /\ exitCodeForError(Code(c)) \in 0..7
           /\ exitCodeForError(Code(c)) \in {2, 3, 4} => effects[c] = 0 /\ spc[c] = "answered"
           /\ exitCodeForError(Code(c)) = 0 => Code(c) = "OK"
           /\ Code(c) = "OK" => spc[c] = "answered" /\ c \notin gaveUp /\ reply[c].code = "OK"
           /\ Code(c) = "OK" /\ call[c].rpc \in WriteRpcs => Done(c)
<1>1. c \in gaveUp => Code(c) = "DeadlineExceeded"
  BY DEF Code
<1>2. c \notin gaveUp => Code(c) = reply[c].code /\ spc[c] = "answered"
  BY DEF Code
<1>3. exitCodeForError("DeadlineExceeded") = 7
  BY DEF exitCodeForError
<1>4. \A code : /\ exitCodeForError(code) \in 0..7
                /\ exitCodeForError(code) \in {2, 3, 4} => code \in Claims
                /\ exitCodeForError(code) = 0 => code = "OK"
  BY DEF exitCodeForError, Claims
<1>5. effects[c] \in {0, 1} /\ (effects[c] = 1 => Changed(c) \/ reply[c].code \notin Claims)
  BY DEF ClientOK, CallOK, EffectOK
<1>6. spc[c] = "answered" => ~Changed(c)
  BY DEF Changed
<1>7. spc[c] = "answered" /\ call[c].rpc \in WriteRpcs /\ reply[c].code = "OK" => Done(c)
  BY DEF ClientOK, CallOK, EffectOK
<1> HIDE DEF Changed
<1>8. CASE c \in gaveUp
  BY <1>1, <1>3, <1>8
<1>9. CASE c \notin gaveUp
  BY <1>2, <1>4, <1>5, <1>6, <1>7, <1>9
<1>10. QED
  BY <1>8, <1>9

(* Before its first call, and after a call that only reads, a command has changed nothing. *)
LEMMA NothingYet ==
    ASSUME NEW c \in Client, ClientOK(c), step[c] = 0 \/ call[c].rpc \notin WriteRpcs
    PROVE  effects[c] = 0 /\ Settled(c)
BY DEF ClientOK, CallOK, EffectOK, RpcOK, Settled

(* A step that leaves the files alone. *)
LEMMA KeepFile ==
    ASSUME NEW c \in Client, Acts(c), file' = file
    PROVE  OwnFile(c) /\ (cmd(c).name = "learn" => file'[c] = "old")
BY DEF Acts, OwnFile, Functions, ClientOK, ExitOK

(* The commands that are neither of the kinds below. *)
PlainCommand(n) ==
    n \notin LocalCommands \cup StatusCommands \cup FileCommands \cup Toggles \cup {"history get", "templates execute"}

(* A command that makes one call and is done. *)
LEMMA OneCallStep ==
    ASSUME NEW c \in Client, NEW k, Acts(c), ~cmd(c).usage, OneCall(c, k), UNCHANGED serverSide,
           PlainCommand(cmd(c).name), CallAllowed(k), cmd(c).name \in Writes => k.rpc \in WriteRpcs,
           cmd(c).name \in Writes \ Deletions => k.rpc \notin Deletes
    PROVE  ClientStep(c)
<1>1. OwnFile(c) /\ cmd(c).name # "learn" /\ cmd(c).file = "none"
  BY KeepFile DEF OneCall, PlainCommand, FileCommands, Acts, CommandAllowed
<1>2. CASE step[c] = 0 /\ Send(c, k)
  <2>1. MaySend(c, k)
    BY <1>2, NothingYet DEF MaySend, Acts, PlainCommand, FileCommands
  <2>2. QED
    BY <1>1, <1>2, <2>1, SendKeeps
<1>3. CASE Answered(c, 1) /\ Exit(c, exitCodeForError(Code(c)))
  <2> DEFINE code == exitCodeForError(Code(c))
  <2>1. step[c] = 1 /\ (spc[c] = "answered" \/ c \in gaveUp) /\ ClientOK(c)
    BY <1>3 DEF Answered, Acts
  <2>2. cmd(c).name \in Writes => call[c].rpc \in WriteRpcs
    <3>1. step[c] > 0
      BY <2>1
    <3>2. cmd(c).name \notin Toggles \cup {"templates execute"}
      BY DEF PlainCommand
    <3>3. cmd(c).name \in Writes \ (Toggles \cup {"templates execute"}) => call[c].rpc \in WriteRpcs
      BY <2>1, <3>1, Zenon DEF ClientOK, RpcOK
    <3>4. QED
      BY <3>2, <3>3
  <2>3. /\ code \in 0..7
        /\ code \in {2, 3, 4} => effects[c] = 0 /\ spc[c] = "answered"
        /\ code = 0 => Code(c) = "OK"
        /\ Code(c) = "OK" => spc[c] = "answered"
        /\ Code(c) = "OK" /\ call[c].rpc \in WriteRpcs => Done(c)
    BY <2>1, CodeIsTrue
  <2>4. spc[c] = "answered" => Settled(c)
    BY DEF Settled
  <2> HIDE DEF code
  <2>8. cmd(c).name \in Writes /\ Done(c) => Made(c)
    <3>1. step[c] > 0
      BY <2>1
    <3>2. cmd(c).name \in Writes \ Deletions => call[c].rpc \notin Deletes
      BY <2>1, <3>1, Zenon DEF ClientOK, RpcOK
    <3>3. effects[c] \in {0, 1}
      BY <2>1 DEF ClientOK, CallOK, EffectOK
    <3>4. QED
      BY <3>2, <3>3 DEF Done, Made
  <2>5. MayExit(c, code)
    BY <1>1, <2>2, <2>3, <2>4, <2>8 DEF MayExit
  <2>6. Exit(c, code)
    BY <1>3 DEF code
  <2>7. QED
    BY <1>1, <2>5, <2>6, ExitKeeps
<1>4. QED
  BY <1>2, <1>3 DEF OneCall

(* A command that fails on its call. *)
LEMMA FailStep ==
    ASSUME NEW c \in Client, Acts(c), spc[c] = "answered" \/ c \in gaveUp, Fail(c), UNCHANGED serverSide,
           OwnFile(c), cmd(c).name = "learn" => file'[c] = "old"
    PROVE  ClientStep(c)
<1> DEFINE code == exitCodeForError(Code(c))
<1>1. /\ code \in 0..7 /\ code # 0
      /\ code \in {2, 3, 4} => effects[c] = 0 /\ spc[c] = "answered"
  BY CodeIsTrue DEF Acts, Fail
<1>2. spc[c] = "answered" => Settled(c)
  BY DEF Settled
<1>3. Exit(c, code)
  BY DEF Fail
<1> HIDE DEF code
<1>4. MayExit(c, code)
  BY <1>1, <1>2 DEF MayExit
<1>5. QED
  BY <1>3, <1>4, ExitKeeps

(* A command that ends, not as a success of a write, when it has changed nothing. *)
LEMMA EndStep ==
    ASSUME NEW c \in Client, NEW code \in 0..7, Acts(c), Exit(c, code), UNCHANGED serverSide, UNCHANGED file,
           step[c] = 0 \/ call[c].rpc \notin WriteRpcs,
           code # 0 \/ (cmd(c).name \notin Writes /\ cmd(c).file = "none")
    PROVE  ClientStep(c)
<1>1. effects[c] = 0 /\ Settled(c)
  BY NothingYet DEF Acts
<1>2. OwnFile(c) /\ (cmd(c).name = "learn" => file'[c] = "old")
  BY KeepFile
<1>3. MayExit(c, code)
  BY <1>1, <1>2 DEF MayExit
<1>4. QED
  BY <1>2, <1>3, ExitKeeps

(* Only export har succeeds when the write of its file fails. *)
DropsError(c) == cmd(c).name = "export har"

(* A command that has only read writes its file and ends. *)
LEMMA WriteFileStep ==
    ASSUME NEW c \in Client, NEW onError, Acts(c), WriteFile(c, onError), UNCHANGED serverSide,
           cmd(c).name \in FileCommands, onError = 2 \/ (onError = 0 /\ DropsError(c)),
           step[c] = 0 \/ call[c].rpc \notin WriteRpcs
    PROVE  ClientStep(c)
<1>1. cmd(c).name \notin Writes /\ 0 \in 0..7 /\ 2 \in 0..7 /\ 2 # 0
  <2>1. cmd(c).name \notin Writes
    BY DEF FileCommands, Writes
  <2>2. 0 \in 0..7 /\ 2 \in 0..7 /\ 2 # 0
    OBVIOUS
  <2>3. QED
    BY <2>1, <2>2
<1>2. CASE cmd(c).file = "refused" /\ Exit(c, 2) /\ UNCHANGED file
  BY <1>1, <1>2, EndStep, Zenon
<1>3. CASE cmd(c).file = "ok" /\ Exit(c, 0) /\ file' = [file EXCEPT ![c] = "new"]
  <2>1. OwnFile(c) /\ file'[c] = "new"
    BY <1>3 DEF Acts, OwnFile, Functions
  <2>2. 0 \notin {2, 3, 4}
    OBVIOUS
  <2>3. MayExit(c, 0)
    BY <1>1, <2>1, <2>2, Zenon DEF MayExit
  <2>4. QED
    BY <1>3, <2>1, <2>3, ExitKeeps, Zenon
<1>4. CASE cmd(c).file = "none" /\ Exit(c, 0) /\ UNCHANGED file
  BY <1>1, <1>4, EndStep, Zenon
<1>5. CASE cmd(c).file = "failing" /\ Exit(c, onError) /\ file' = [file EXCEPT ![c] = "partial"]
  <2>1. OwnFile(c)
    BY <1>5 DEF Acts, OwnFile, Functions
  <2>2. effects[c] = 0 /\ Settled(c)
    BY NothingYet DEF Acts
  <2>3. CASE onError = 2
    <3>1. MayExit(c, 2)
      BY <1>1, <1>5, <2>2, Zenon DEF MayExit
    <3>2. QED
      BY <1>5, <2>1, <2>3, <3>1, ExitKeeps, Zenon
  <2>4. CASE onError = 0 /\ DropsError(c)
    <3>1. 0 \notin {2, 3, 4}
      OBVIOUS
    <3>2. MayExit(c, 0)
      BY <1>1, <1>5, <2>4, <3>1, Zenon DEF MayExit, DropsError
    <3>3. QED
      BY <1>5, <2>1, <2>4, <3>2, ExitKeeps, Zenon
  <2>5. QED
    BY <2>3, <2>4
<1>6. QED
  BY <1>2, <1>3, <1>4, <1>5 DEF WriteFile

(* The commands that make one call: the call is one they may make. *)
LEMMA OneCallCommands ==
    ASSUME NEW c \in Client, Acts(c), ~cmd(c).usage, UNCHANGED serverSide,
           \/ cmdStatus(c) \/ cmdVersion(c) \/ cmdPlugins(c) \/ cmdHistoryList(c) \/ cmdFilter(c) \/ cmdHistoryClear(c)
           \/ cmdBreakpoints(c) \/ cmdBreakpointAdd(c) \/ cmdPausedForward(c) \/ cmdPausedDrop(c) \/ cmdPausedRespond(c)
           \/ cmdSend(c) \/ cmdReplay(c) \/ cmdTemplates(c) \/ OtherClient(c)
    PROVE  ClientStep(c)
<1> DEFINE Fits(k) == /\ CallAllowed(k) /\ (cmd(c).name \in Writes => k.rpc \in WriteRpcs)
                      /\ cmd(c).name \in Writes \ Deletions => k.rpc \notin Deletes
<1>1. ASSUME NEW k, OneCall(c, k), PlainCommand(cmd(c).name), Fits(k) PROVE ClientStep(c)
  BY <1>1, OneCallStep
<1>2. CommandAllowed(cmd(c))
  BY DEF Acts
<1> HIDE DEF Fits
<1> USE DEF Named
<1>3. CASE cmdStatus(c)
  <2>1. cmd(c).name = "status" /\ OneCall(c, Call("GetStatus"))
    BY <1>3 DEF cmdStatus
  <2>2. PlainCommand(cmd(c).name)
    BY <2>1 DEF PlainCommand, LocalCommands, StatusCommands, FileCommands, Toggles
  <2>3. Fits(Call("GetStatus"))
    BY <2>1, <1>2 DEF Fits, CallAllowed, Writes, WriteRpcs, Deletions, Deletes, Call
  <2>4. QED
    BY <1>1, <2>1, <2>2, <2>3
<1>4. CASE cmdVersion(c)
  <2>1. cmd(c).name = "version" /\ OneCall(c, Call("GetVersion"))
    BY <1>4 DEF cmdVersion
  <2>2. PlainCommand(cmd(c).name)
    BY <2>1 DEF PlainCommand, LocalCommands, StatusCommands, FileCommands, Toggles
  <2>3. Fits(Call("GetVersion"))
    BY <2>1, <1>2 DEF Fits, CallAllowed, Writes, WriteRpcs, Deletions, Deletes, Call
  <2>4. QED
    BY <1>1, <2>1, <2>2, <2>3
<1>5. CASE cmdPlugins(c)
  <2>1. cmd(c).name = "plugins list" /\ OneCall(c, Call("ListPlugins"))
    BY <1>5 DEF cmdPlugins
  <2>2. PlainCommand(cmd(c).name)
    BY <2>1 DEF PlainCommand, LocalCommands, StatusCommands, FileCommands, Toggles
  <2>3. Fits(Call("ListPlugins"))
    BY <2>1, <1>2 DEF Fits, CallAllowed, Writes, WriteRpcs, Deletions, Deletes, Call
  <2>4. QED
    BY <1>1, <2>1, <2>2, <2>3
<1>6. CASE cmdHistoryList(c)
  <2>1. cmd(c).name = "history list" /\ OneCall(c, HistoryQuery(c, cmd(c).size, cmd(c).offset))
    BY <1>6 DEF cmdHistoryList
  <2>2. PlainCommand(cmd(c).name)
    BY <2>1 DEF PlainCommand, LocalCommands, StatusCommands, FileCommands, Toggles
  <2>3. Fits(HistoryQuery(c, cmd(c).size, cmd(c).offset))
    BY <2>1, <1>2 DEF Fits, CallAllowed, Writes, WriteRpcs, Deletions, Deletes, Call, HistoryQuery
  <2>4. QED
    BY <1>1, <2>1, <2>2, <2>3
<1>7. CASE cmdFilter(c)
  <2>1. cmd(c).name = "filter" /\ OneCall(c, HistoryQuery(c, cmd(c).size, 0))
    BY <1>7 DEF cmdFilter
  <2>2. PlainCommand(cmd(c).name)
    BY <2>1 DEF PlainCommand, LocalCommands, StatusCommands, FileCommands, Toggles
  <2>3. Fits(HistoryQuery(c, cmd(c).size, 0))
    BY <2>1, <1>2 DEF Fits, CallAllowed, Writes, WriteRpcs, Deletions, Deletes, Call, HistoryQuery
  <2>4. QED
    BY <1>1, <2>1, <2>2, <2>3
<1>8. CASE cmdHistoryClear(c)
  <2>1. cmd(c).name = "history clear" /\ OneCall(c, Call("ClearHistory"))
    BY <1>8 DEF cmdHistoryClear
  <2>2. PlainCommand(cmd(c).name)
    BY <2>1 DEF PlainCommand, LocalCommands, StatusCommands, FileCommands, Toggles
  <2>3. Fits(Call("ClearHistory"))
    BY <2>1, <1>2 DEF Fits, CallAllowed, Writes, WriteRpcs, Deletions, Deletes, Call
  <2>4. QED
    BY <1>1, <2>1, <2>2, <2>3
<1>9. CASE cmdBreakpoints(c)
  <2>1. CASE cmd(c).name = "breakpoints list" /\ OneCall(c, Call("ListBreakpoints"))
    <3>1. PlainCommand(cmd(c).name)
      BY <2>1 DEF PlainCommand, LocalCommands, StatusCommands, FileCommands, Toggles
    <3>2. Fits(Call("ListBreakpoints"))
      BY <2>1, <1>2 DEF Fits, CallAllowed, Writes, WriteRpcs, Deletions, Deletes, Call
    <3>3. QED
      BY <1>1, <2>1, <3>1, <3>2
  <2>2. CASE cmd(c).name = "breakpoints delete" /\ OneCall(c, [Call("DeleteBreakpoint") EXCEPT !.id = cmd(c).id])
    <3>1. PlainCommand(cmd(c).name)
      BY <2>2 DEF PlainCommand, LocalCommands, StatusCommands, FileCommands, Toggles
    <3>2. Fits([Call("DeleteBreakpoint") EXCEPT !.id = cmd(c).id])
      BY <2>2, <1>2 DEF Fits, CallAllowed, Writes, WriteRpcs, Deletions, Deletes, Call, CommandAllowed
    <3>3. QED
      BY <1>1, <2>2, <3>1, <3>2
  <2>3. QED
    BY <1>9, <2>1, <2>2 DEF cmdBreakpoints
<1>10. CASE cmdBreakpointAdd(c)
  <2>1. cmd(c).name = "breakpoints add" /\ OneCall(c, [Call("SetBreakpoint") EXCEPT !.rule = Plain(cmd(c).rule)])
    BY <1>10 DEF cmdBreakpointAdd
  <2>2. PlainCommand(cmd(c).name)
    BY <2>1 DEF PlainCommand, LocalCommands, StatusCommands, FileCommands, Toggles
  <2>3. Fits([Call("SetBreakpoint") EXCEPT !.rule = Plain(cmd(c).rule)])
    BY <2>1, <1>2 DEF Fits, CallAllowed, Writes, WriteRpcs, Deletions, Deletes, Call, CommandAllowed
  <2>4. QED
    BY <1>1, <2>1, <2>2, <2>3
<1>11. CASE cmdPausedForward(c)
  <2>1. cmd(c).name = "paused forward" /\ OneCall(c, [Call("ResumeRequest") EXCEPT !.id = cmd(c).id])
    BY <1>11 DEF cmdPausedForward, Resume
  <2>2. PlainCommand(cmd(c).name)
    BY <2>1 DEF PlainCommand, LocalCommands, StatusCommands, FileCommands, Toggles
  <2>3. Fits([Call("ResumeRequest") EXCEPT !.id = cmd(c).id])
    BY <2>1, <1>2 DEF Fits, CallAllowed, Writes, WriteRpcs, Deletions, Deletes, Call
  <2>4. QED
    BY <1>1, <2>1, <2>2, <2>3
<1>12. CASE cmdPausedDrop(c)
  <2>1. cmd(c).name = "paused drop" /\ OneCall(c, [Call("ResumeRequest") EXCEPT !.id = cmd(c).id])
    BY <1>12 DEF cmdPausedDrop, Resume
  <2>2. PlainCommand(cmd(c).name)
    BY <2>1 DEF PlainCommand, LocalCommands, StatusCommands, FileCommands, Toggles
  <2>3. Fits([Call("ResumeRequest") EXCEPT !.id = cmd(c).id])
    BY <2>1, <1>2 DEF Fits, CallAllowed, Writes, WriteRpcs, Deletions, Deletes, Call
  <2>4. QED
    BY <1>1, <2>1, <2>2, <2>3
<1>13. CASE cmdPausedRespond(c)
  <2>1. cmd(c).name = "paused respond" /\ OneCall(c, [Call("ResumeRequest") EXCEPT !.id = cmd(c).id])
    BY <1>13 DEF cmdPausedRespond, Resume
  <2>2. PlainCommand(cmd(c).name)
    BY <2>1 DEF PlainCommand, LocalCommands, StatusCommands, FileCommands, Toggles
  <2>3. Fits([Call("ResumeRequest") EXCEPT !.id = cmd(c).id])
    BY <2>1, <1>2 DEF Fits, CallAllowed, Writes, WriteRpcs, Deletions, Deletes, Call
  <2>4. QED
    BY <1>1, <2>1, <2>2, <2>3
<1>14. CASE cmdSend(c)
  <2>1. cmd(c).name = "send" /\ OneCall(c, [Call("ComposeRequest") EXCEPT !.bad = cmd(c).bad])
    BY <1>14 DEF cmdSend, BodyCall
  <2>2. PlainCommand(cmd(c).name)
    BY <2>1 DEF PlainCommand, LocalCommands, StatusCommands, FileCommands, Toggles
  <2>3. Fits([Call("ComposeRequest") EXCEPT !.bad = cmd(c).bad])
    BY <2>1, <1>2 DEF Fits, CallAllowed, Writes, WriteRpcs, Deletions, Deletes, Call
  <2>4. QED
    BY <1>1, <2>1, <2>2, <2>3
<1>15. CASE cmdReplay(c)
  <2>1. cmd(c).name = "replay" /\ OneCall(c, [Call("ReplayRequest") EXCEPT !.id = cmd(c).id])
    BY <1>15 DEF cmdReplay, BodyCall
  <2>2. PlainCommand(cmd(c).name)
    BY <2>1 DEF PlainCommand, LocalCommands, StatusCommands, FileCommands, Toggles
  <2>3. Fits([Call("ReplayRequest") EXCEPT !.id = cmd(c).id])
    BY <2>1, <1>2 DEF Fits, CallAllowed, Writes, WriteRpcs, Deletions, Deletes, Call
  <2>4. QED
    BY <1>1, <2>1, <2>2, <2>3
<1>16. CASE cmdTemplates(c)
  <2>1. CASE cmd(c).name = "templates save" /\ OneCall(c, [Call("SaveRequestTemplate") EXCEPT !.id = cmd(c).id, !.row = cmd(c).row])
    <3>1. PlainCommand(cmd(c).name)
      BY <2>1 DEF PlainCommand, LocalCommands, StatusCommands, FileCommands, Toggles
    <3>2. Fits([Call("SaveRequestTemplate") EXCEPT !.id = cmd(c).id, !.row = cmd(c).row])
      BY <2>1, <1>2 DEF Fits, CallAllowed, Writes, WriteRpcs, Deletions, Deletes, Call
    <3>3. QED
      BY <1>1, <2>1, <3>1, <3>2
  <2>2. CASE cmd(c).name = "templates list" /\ OneCall(c, Call("ListRequestTemplates"))
    <3>1. PlainCommand(cmd(c).name)
      BY <2>2 DEF PlainCommand, LocalCommands, StatusCommands, FileCommands, Toggles
    <3>2. Fits(Call("ListRequestTemplates"))
      BY <2>2, <1>2 DEF Fits, CallAllowed, Writes, WriteRpcs, Deletions, Deletes, Call
    <3>3. QED
      BY <1>1, <2>2, <3>1, <3>2
  <2>3. CASE cmd(c).name = "templates delete" /\ OneCall(c, [Call("DeleteRequestTemplate") EXCEPT !.id = cmd(c).id])
    <3>1. PlainCommand(cmd(c).name)
      BY <2>3 DEF PlainCommand, LocalCommands, StatusCommands, FileCommands, Toggles
    <3>2. Fits([Call("DeleteRequestTemplate") EXCEPT !.id = cmd(c).id])
      BY <2>3, <1>2 DEF Fits, CallAllowed, Writes, WriteRpcs, Deletions, Deletes, Call
    <3>3. QED
      BY <1>1, <2>3, <3>1, <3>2
  <2>4. QED
    BY <1>16, <2>1, <2>2, <2>3 DEF cmdTemplates
<1>17. CASE OtherClient(c)
  <2>1. cmd(c).name = "call" /\ OneCall(c, cmd(c).call)
    BY <1>17 DEF OtherClient
  <2>2. PlainCommand(cmd(c).name)
    BY <2>1 DEF PlainCommand, LocalCommands, StatusCommands, FileCommands, Toggles
  <2>3. Fits(cmd(c).call)
    BY <2>1, <1>2 DEF Fits, CallAllowed, Writes, WriteRpcs, Deletions, Deletes, CommandAllowed
  <2>4. QED
    BY <1>1, <2>1, <2>2, <2>3
<1>18. QED
  BY <1>3, <1>4, <1>5, <1>6, <1>7, <1>8, <1>9, <1>10, <1>11, <1>12, <1>13, <1>14, <1>15, <1>16, <1>17

(* What a command has called so far. *)
LEMMA Reading ==
    ASSUME NEW c \in Client, Acts(c)
    PROVE  /\ step[c] \in {0, 1, 2}
           /\ cmd(c).name \in StatusCommands \cup {"learn", "export ndjson", "export har", "history get"}
                 => step[c] = 0 \/ call[c].rpc \notin WriteRpcs
           /\ cmd(c).name \in Toggles \cup {"templates execute"} /\ step[c] = 1 => call[c].rpc \notin WriteRpcs
           /\ cmd(c).name \in Toggles \cup {"templates execute"} /\ step[c] = 2 => call[c].rpc \in WriteRpcs
           /\ cmd(c).name \in LocalCommands \/ cmd(c).usage => step[c] = 0
<1>1. RpcOK(c)
  BY DEF Acts, ClientOK
<1>2. step[c] \in 0..MaxStep
  BY <1>1, Zenon DEF RpcOK
<1>3. step[c] \in {0, 1, 2}
  BY <1>2 DEF MaxStep
<1>4. CASE step[c] = 0
  BY <1>4
<1>5. CASE step[c] # 0
  <2>1. step[c] > 0
    BY <1>3, <1>5
  <2>2. /\ cmd(c).name \in StatusCommands => call[c].rpc = "GetStatus"
        /\ cmd(c).name \in {"learn", "export ndjson", "export har"} => call[c].rpc \in {"GetHistory", "ExportHAR"}
        /\ cmd(c).name = "history get" => call[c].rpc = "GetHistory"
        /\ ~cmd(c).usage /\ cmd(c).name \notin LocalCommands
    BY <1>1, <2>1, Zenon DEF RpcOK
  <2>3. /\ cmd(c).name \in Toggles \cup {"templates execute"} /\ step[c] = 1
              => call[c].rpc \in {"ListBreakpoints", "ListRequestTemplates"}
        /\ cmd(c).name \in Toggles \cup {"templates execute"} /\ step[c] # 1
              => call[c].rpc \in {"SetBreakpoint", "ComposeRequest"}
    BY <1>1, <2>1, Zenon DEF RpcOK
  <2>4. /\ cmd(c).name \in StatusCommands \cup {"learn", "export ndjson", "export har", "history get"}
              => call[c].rpc \notin WriteRpcs
        /\ cmd(c).name \in Toggles \cup {"templates execute"} /\ step[c] = 1 => call[c].rpc \notin WriteRpcs
        /\ cmd(c).name \in Toggles \cup {"templates execute"} /\ step[c] # 1 => call[c].rpc \in WriteRpcs
    BY <2>2, <2>3 DEF WriteRpcs
  <2>5. step[c] = 2 => step[c] # 1
    OBVIOUS
  <2>6. QED
    BY <1>3, <2>2, <2>4, <2>5, Zenon
<1>6. QED
  BY <1>4, <1>5

(* The search of history get only reads. *)
LEMMA HistoryGetStep ==
    ASSUME NEW c \in Client, Acts(c), ~cmd(c).usage, UNCHANGED serverSide, cmdHistoryGet(c)
    PROVE  ClientStep(c)
<1>1. cmd(c).name = "history get" /\ file' = file
  BY DEF cmdHistoryGet, Named
<1>2. OwnFile(c) /\ cmd(c).name \notin Writes /\ cmd(c).file = "none" /\ cmd(c).name # "learn"
  BY <1>1, KeepFile DEF Writes, Acts, CommandAllowed, FileCommands
<1>3. step[c] = 0 \/ call[c].rpc \notin WriteRpcs
  BY <1>1, Reading
<1>4. ASSUME NEW n, Send(c, PageAt(c, n)) PROVE ClientStep(c)
  <2>1. effects[c] = 0
    BY <1>3, NothingYet DEF Acts
  <2>2. MaySend(c, PageAt(c, n))
    BY <1>1, <2>1 DEF MaySend, PageAt, Call, CallAllowed, LocalCommands, StatusCommands, Toggles, Writes
  <2>3. QED
    BY <1>2, <1>4, <2>2, SendKeeps
<1>5. CASE step[c] > 0 /\ Answered(c, step[c]) /\ Fail(c)
  BY <1>2, <1>5, FailStep DEF Answered
<1>6. ASSUME NEW code \in {0, 3}, Exit(c, code) PROVE ClientStep(c)
  <2>1. code \in 0..7
    BY <1>6
  <2>2. QED
    BY <1>1, <1>2, <1>3, <1>6, <2>1, EndStep
<1>7. exitCodeForError("NotFound") = 3
  BY DEF exitCodeForError
<1>8. \/ step[c] = 0 /\ Send(c, PageAt(c, 0))
      \/ step[c] > 0 /\ Answered(c, step[c]) /\ Fail(c)
      \/ Exit(c, exitCodeForError("NotFound")) \/ Exit(c, 0) \/ Send(c, PageAt(c, call[c].offset + Len(Data(c))))
  BY Zenon DEF cmdHistoryGet
<1>9. QED
  BY <1>4, <1>5, <1>6, <1>7, <1>8

(* watch and paused watch: the stream only reads. *)
LEMMA WatchCommandStep ==
    ASSUME NEW c \in Client, Acts(c), ~cmd(c).usage, UNCHANGED serverSide, cmdWatch(c) \/ cmdPausedWatch(c)
    PROVE  ClientStep(c)
<1>1. PICK asked \in {"CaptureTraffic", "WatchPausedRequests"} : Watch(c, asked)
  BY DEF cmdWatch, cmdPausedWatch
<1>2. cmd(c).name \in {"watch", "paused watch"} /\ file' = file
  BY <1>1 DEF cmdWatch, cmdPausedWatch, Named, Watch
<1>3. OwnFile(c) /\ cmd(c).name \notin Writes /\ cmd(c).file = "none" /\ cmd(c).name # "learn"
  BY <1>2, KeepFile DEF Writes, Acts, CommandAllowed, FileCommands
<1>4. CASE step[c] = 0 /\ Send(c, [Call(asked) EXCEPT !.match = cmd(c).match])
  <2>1. MaySend(c, [Call(asked) EXCEPT !.match = cmd(c).match])
    BY <1>2, <1>4, NothingYet
       DEF MaySend, Acts, Call, CallAllowed, LocalCommands, StatusCommands, Toggles, Writes
  <2>2. QED
    BY <1>3, <1>4, <2>1, SendKeeps
<1>5. CASE Answered(c, 1) /\ Fail(c)
  BY <1>3, <1>5, FailStep DEF Answered
<1>6. CASE Exit(c, 0)
  <2>1. MayExit(c, 0)
    BY <1>3 DEF MayExit
  <2>2. QED
    BY <1>3, <1>6, <2>1, ExitKeeps
<1>7. QED
  BY <1>1, <1>4, <1>5, <1>6 DEF Watch

(* export, learn and doctor bundle: they read, and then write their file. *)
LEMMA FileCommandStep ==
    ASSUME NEW c \in Client, Acts(c), ~cmd(c).usage, UNCHANGED serverSide,
           cmdExport(c) \/ cmdLearn(c) \/ cmdDoctorBundle(c)
    PROVE  ClientStep(c)
<1>1. cmd(c).name \in {"export ndjson", "export har", "learn", "doctor bundle"}
  BY DEF cmdExport, cmdLearn, cmdDoctorBundle, Named
<1>2. cmd(c).name \in FileCommands /\ cmd(c).name \notin Writes
  BY <1>1 DEF FileCommands, Writes
<1>3. step[c] = 0 \/ call[c].rpc \notin WriteRpcs
  BY <1>1, Reading DEF StatusCommands
<1>4. ASSUME NEW onError, WriteFile(c, onError), onError = 2 \/ (onError = 0 /\ DropsError(c))
      PROVE  ClientStep(c)
  BY <1>2, <1>3, <1>4, WriteFileStep, Zenon
<1>5. CASE Exit(c, 2) /\ UNCHANGED file
  BY <1>3, <1>5, EndStep
<1>6. CASE (spc[c] = "answered" \/ c \in gaveUp) /\ Fail(c) /\ UNCHANGED file
  BY <1>6, KeepFile, FailStep
<1>7. CASE /\ cmd(c).name # "learn" /\ (spc[c] = "answered" \/ c \in gaveUp) /\ Fail(c)
           /\ file' = [file EXCEPT ![c] = IF @ = "empty" /\ Data(c) \notin {None, <<>>} THEN "partial" ELSE @]
  <2>1. OwnFile(c)
    BY <1>7 DEF OwnFile, Acts, Functions
  <2>2. QED
    BY <1>7, <2>1, FailStep
<1>8. Call("GetStatus").rpc = "GetStatus" /\ Call("ExportHAR").rpc = "ExportHAR" /\ HistoryQuery(c, cmd(c).size, 0).rpc = "GetHistory"
  BY DEF Call, HistoryQuery
<1>9. ASSUME NEW k, k = Call("GetStatus") \/ k = Call("ExportHAR") \/ k = HistoryQuery(c, cmd(c).size, 0),
             cmd(c).name = "doctor bundle" <=> k.rpc = "GetStatus",
             step[c] = 0, Send(c, k), OwnFile(c), cmd(c).name = "learn" => file'[c] = "old"
      PROVE  ClientStep(c)
  <2>1. k.rpc \in {"GetStatus", "GetHistory", "ExportHAR"}
    BY <1>8, <1>9
  <2>2. MaySend(c, k)
    BY <1>1, <1>9, <2>1, NothingYet
       DEF MaySend, Acts, CallAllowed, LocalCommands, StatusCommands, Toggles, Writes
  <2>3. QED
    BY <1>9, <2>2, SendKeeps
<1>10. CASE cmdExport(c)
  <2>1. cmd(c).name \in {"export ndjson", "export har"}
    BY <1>10 DEF cmdExport, Named
  <2>2. ASSUME step[c] = 0, Send(c, IF Named(c, "export har") THEN Call("ExportHAR") ELSE HistoryQuery(c, cmd(c).size, 0)),
               file' = [file EXCEPT ![c] = IF cmd(c).file = "none" THEN @ ELSE "empty"]
        PROVE  ClientStep(c)
    <3>1. OwnFile(c)
      BY <2>2 DEF OwnFile, Acts, Functions
    <3>2. QED
      BY <1>8, <1>9, <2>1, <2>2, <3>1
  <2>3. WriteFile(c, IF Named(c, "export har") THEN 0 ELSE 2) => ClientStep(c)
    BY <1>4, Zenon DEF Named, DropsError
  <2>4. QED
    BY <1>5, <1>7, <1>10, <2>1, <2>2, <2>3 DEF cmdExport, Answered
<1>11. CASE cmdLearn(c)
  <2>1. cmd(c).name = "learn"
    BY <1>11 DEF cmdLearn, Named
  <2>2. ASSUME step[c] = 0, Send(c, HistoryQuery(c, cmd(c).size, 0)), UNCHANGED file
        PROVE  ClientStep(c)
    BY <1>8, <1>9, <2>1, <2>2, KeepFile
  <2>3. WriteFile(c, 2) => ClientStep(c)
    BY <1>4, Zenon
  <2>4. QED
    BY <1>6, <1>11, <2>2, <2>3 DEF cmdLearn, Answered
<1>12. CASE cmdDoctorBundle(c)
  <2>1. cmd(c).name = "doctor bundle"
    BY <1>12 DEF cmdDoctorBundle, Named
  <2>2. ASSUME step[c] = 0, Send(c, Call("GetStatus")), UNCHANGED file
        PROVE  ClientStep(c)
    BY <1>8, <1>9, <2>1, <2>2, KeepFile
  <2>3. WriteFile(c, 2) => ClientStep(c)
    BY <1>4, Zenon
  <2>4. QED
    BY <1>12, <2>2, <2>3 DEF cmdDoctorBundle
<1>13. QED
  BY <1>10, <1>11, <1>12

(* A write that is no deletion makes no call that deletes. *)
LEMMA NoDelete ==
    ASSUME NEW c \in Client, ClientOK(c), step[c] > 0, cmd(c).name \in Writes \ Deletions
    PROVE  call[c].rpc \notin Deletes
BY Zenon DEF ClientOK, RpcOK

(* The commands that make two calls and write. *)
TwoCalls == Toggles \cup {"templates execute"}

(* A command that makes two calls, of which only the second writes. *)
LEMMA TwoCallsEnd ==
    ASSUME NEW c \in Client, Acts(c), UNCHANGED serverSide, UNCHANGED file,
           cmd(c).name \in TwoCalls, Answered(c, 2), Exit(c, exitCodeForError(Code(c)))
    PROVE  ClientStep(c)
<1>1. cmd(c).name \in Writes \ Deletions
  BY DEF TwoCalls, Toggles, Writes, Deletions
<1> DEFINE code == exitCodeForError(Code(c))
<1>2. step[c] = 2 /\ step[c] > 0 /\ (spc[c] = "answered" \/ c \in gaveUp) /\ ClientOK(c)
  BY DEF Answered, Acts
<1>3. call[c].rpc \in WriteRpcs
  BY <1>2, Reading DEF TwoCalls
<1>4. OwnFile(c) /\ cmd(c).name # "learn" /\ cmd(c).file = "none"
  BY KeepFile DEF TwoCalls, Toggles, Acts, CommandAllowed, FileCommands
<1>5. /\ code \in 0..7
      /\ code \in {2, 3, 4} => effects[c] = 0 /\ spc[c] = "answered"
      /\ code = 0 => spc[c] = "answered" /\ Done(c)
  BY <1>2, <1>3, CodeIsTrue
<1>6. spc[c] = "answered" => Settled(c)
  BY DEF Settled
<1>7. Exit(c, code)
  OBVIOUS
<1> HIDE DEF code
<1>8. Done(c) => Made(c)
  <2>1. call[c].rpc \notin Deletes
    BY <1>1, <1>2, NoDelete
  <2>2. QED
    BY <2>1 DEF Done, Made
<1>9. MayExit(c, code)
  BY <1>4, <1>5, <1>6, <1>8 DEF MayExit
<1>10. QED
  BY <1>4, <1>7, <1>9, ExitKeeps

(* breakpoints enable and disable: the rule is set again as the list has shown it, under its ID. *)
LEMMA ToggleStep ==
    ASSUME NEW c \in Client, Acts(c), ~cmd(c).usage, UNCHANGED serverSide, cmdBreakpointToggle(c)
    PROVE  ClientStep(c)
<1>1. cmd(c).name \in Toggles /\ file' = file
  BY DEF cmdBreakpointToggle, Named, Toggles
<1>2. OwnFile(c) /\ cmd(c).name # "learn"
  BY <1>1, KeepFile DEF Toggles
<1>3. ASSUME NEW k, Send(c, k), CallAllowed(k), effects[c] = 0,
             step[c] = 0 => k.rpc = "ListBreakpoints", step[c] # 0 => k.rpc = "SetBreakpoint"
      PROVE  ClientStep(c)
  <2>1. MaySend(c, k)
    BY <1>1, <1>3 DEF MaySend, LocalCommands, StatusCommands, Toggles, Deletes
  <2>2. QED
    BY <1>2, <1>3, <2>1, SendKeeps
<1>4. CASE step[c] = 0 /\ Send(c, Call("ListBreakpoints"))
  <2>1. effects[c] = 0
    BY <1>4, NothingYet DEF Acts
  <2>2. CallAllowed(Call("ListBreakpoints")) /\ Call("ListBreakpoints").rpc = "ListBreakpoints"
    BY DEF CallAllowed, Call
  <2>3. QED
    BY <1>3, <1>4, <2>1, <2>2
<1>5. CASE Answered(c, 1) /\ Fail(c)
  BY <1>2, <1>5, FailStep DEF Answered
<1>6. CASE Answered(c, 1) /\ Code(c) = "OK" /\ Exit(c, exitCodeForError("NotFound"))
  <2>1. exitCodeForError("NotFound") = 3
    BY DEF exitCodeForError
  <2>2. call[c].rpc \notin WriteRpcs
    BY <1>1, <1>6, Reading DEF Answered
  <2>3. QED
    BY <1>1, <1>6, <2>1, <2>2, EndStep
<1>7. ASSUME Answered(c, 1), Code(c) = "OK", NEW x \in Data(c),
             Send(c, [Call("SetBreakpoint") EXCEPT !.id = x.id,
                        !.rule = [Plain(x.rule) EXCEPT !.enabled = Named(c, "breakpoints enable")]])
      PROVE  ClientStep(c)
  <2> DEFINE r == [Plain(x.rule) EXCEPT !.enabled = Named(c, "breakpoints enable")]
             k == [Call("SetBreakpoint") EXCEPT !.id = x.id, !.rule = r]
  <2>1. step[c] = 1 /\ (spc[c] = "answered" \/ c \in gaveUp) /\ ClientOK(c)
    BY <1>7 DEF Answered, Acts
  <2>2. spc[c] = "answered" /\ c \notin gaveUp /\ reply[c].code = "OK"
    BY <1>7, <2>1, CodeIsTrue
  <2>3. call[c].rpc = "ListBreakpoints"
    <3>1. step[c] > 0
      BY <2>1
    <3>2. QED
      BY <1>1, <2>1, <3>1, Zenon DEF ClientOK, RpcOK
  <2>4. effects[c] = 0
    BY <2>1, <2>3, NothingYet DEF WriteRpcs
  <2>5. x \in [id : RuleId, rule : Rule]
    BY <1>7, <2>1, <2>2, <2>3 DEF Data, ClientOK, CallOK, ListOK
  <2>6. Settable(r)
    <3>1. Named(c, "breakpoints enable") \in BOOLEAN
      BY DEF Named
    <3>2. QED
      BY <2>5, <3>1, RuleSetAssumption
  <2>7. k.rpc = "SetBreakpoint" /\ k.id = x.id /\ k.rule = r
    BY DEF Call
  <2> HIDE DEF r, k
  <2>8. CallAllowed(k)
    BY <2>5, <2>6, <2>7 DEF CallAllowed
  <2>9. Send(c, k)
    BY <1>7 DEF k, r
  <2>10. QED
    BY <1>3, <2>1, <2>4, <2>7, <2>8, <2>9
<1>8. CASE Answered(c, 2) /\ Exit(c, exitCodeForError(Code(c)))
  BY <1>1, <1>8, TwoCallsEnd DEF TwoCalls
<1>9. QED
  BY <1>4, <1>5, <1>6, <1>7, <1>8 DEF cmdBreakpointToggle

(* templates execute: the list is read, and then one template is sent. *)
LEMMA ExecuteStep ==
    ASSUME NEW c \in Client, Acts(c), ~cmd(c).usage, UNCHANGED serverSide, cmdTemplatesExecute(c)
    PROVE  ClientStep(c)
<1>1. cmd(c).name = "templates execute" /\ file' = file
  BY DEF cmdTemplatesExecute, Named
<1>2. OwnFile(c) /\ cmd(c).name # "learn"
  BY <1>1, KeepFile
<1>3. ASSUME NEW asked \in {"ListRequestTemplates", "ComposeRequest"}, Send(c, Call(asked)), effects[c] = 0,
             step[c] = 0 <=> asked = "ListRequestTemplates"
      PROVE  ClientStep(c)
  <2>1. MaySend(c, Call(asked))
    BY <1>1, <1>3 DEF MaySend, Call, CallAllowed, LocalCommands, StatusCommands, Toggles, Deletes
  <2>2. QED
    BY <1>2, <1>3, <2>1, SendKeeps
<1>4. CASE step[c] = 0 /\ Send(c, Call("ListRequestTemplates"))
  <2>1. effects[c] = 0
    BY <1>4, NothingYet DEF Acts
  <2>2. QED
    BY <1>3, <1>4, <2>1
<1>5. CASE Answered(c, 1) /\ Fail(c)
  BY <1>2, <1>5, FailStep DEF Answered
<1>6. ASSUME Answered(c, 1), Code(c) = "OK",
             \/ Exit(c, exitCodeForError("NotFound")) \/ Exit(c, exitCodeForError("error")) \/ Send(c, Call("ComposeRequest"))
      PROVE  ClientStep(c)
  <2>1. exitCodeForError("NotFound") = 3 /\ exitCodeForError("error") = 2
    BY DEF exitCodeForError
  <2>2. step[c] = 1 /\ call[c].rpc \notin WriteRpcs
    BY <1>1, <1>6, Reading DEF Answered
  <2>3. effects[c] = 0
    BY <2>2, NothingYet DEF Acts
  <2>4. ASSUME NEW code \in {2, 3}, Exit(c, code) PROVE ClientStep(c)
    <3>1. code \in 0..7 /\ code # 0
      BY <2>4
    <3>2. QED
      BY <1>1, <2>2, <2>4, <3>1, EndStep
  <2>5. QED
    BY <1>3, <1>6, <2>1, <2>2, <2>3, <2>4
<1>7. CASE Answered(c, 2) /\ Exit(c, exitCodeForError(Code(c)))
  BY <1>1, <1>7, TwoCallsEnd DEF TwoCalls
<1>8. \/ step[c] = 0 /\ Send(c, Call("ListRequestTemplates"))
      \/ Answered(c, 1) /\ Fail(c)
      \/ /\ Answered(c, 1) /\ Code(c) = "OK"
         /\ Exit(c, exitCodeForError("NotFound")) \/ Exit(c, exitCodeForError("error")) \/ Send(c, Call("ComposeRequest"))
      \/ Answered(c, 2) /\ Exit(c, exitCodeForError(Code(c)))
  BY Zenon DEF cmdTemplatesExecute
<1>9. QED
  BY <1>4, <1>5, <1>6, <1>7, <1>8

(* setup and doctor look at the status, and end. *)
LEMMA StatusCommandStep ==
    ASSUME NEW c \in Client, Acts(c), ~cmd(c).usage, UNCHANGED serverSide, cmdSetup(c) \/ cmdDoctor(c)
    PROVE  ClientStep(c)
<1>1. cmd(c).name \in {"setup", "doctor"} /\ file' = file
  BY DEF cmdSetup, cmdDoctor, Named
<1>2. /\ OwnFile(c) /\ cmd(c).name # "learn" /\ cmd(c).name \notin Writes /\ cmd(c).file = "none"
      /\ cmd(c).name \in StatusCommands
  BY <1>1, KeepFile DEF Writes, StatusCommands, Acts, CommandAllowed, FileCommands
<1>3. CASE step[c] = 0 /\ Send(c, Call("GetStatus"))
  <2>1. MaySend(c, Call("GetStatus"))
    BY <1>1, <1>3, NothingYet DEF MaySend, Acts, Call, CallAllowed, LocalCommands, StatusCommands, Toggles, Writes
  <2>2. QED
    BY <1>2, <1>3, <2>1, SendKeeps
<1>4. ASSUME NEW code \in 0..7, Exit(c, code) PROVE ClientStep(c)
  BY <1>1, <1>2, <1>4, Reading, EndStep
<1>5. exitCodeForError("Unavailable") = 6 /\ exitCodeForError("error") = 2
  BY DEF exitCodeForError
<1>6. ASSUME cmdSetup(c) PROVE ClientStep(c)
  <2>1. (step[c] = 0 /\ Send(c, Call("GetStatus"))) \/ Exit(c, 2) \/ Exit(c, 0)
    BY <1>6 DEF cmdSetup
  <2>2. QED
    BY <1>3, <1>4, <2>1
<1>7. ASSUME cmdDoctor(c) PROVE ClientStep(c)
  <2> DEFINE v == CASE Code(c) # "OK" -> exitCodeForError("Unavailable")
                    [] Code(c) = "OK" /\ cmd(c).bad -> exitCodeForError("error")
                    [] OTHER -> 0
  <2>1. (step[c] = 0 /\ Send(c, Call("GetStatus"))) \/ Exit(c, v)
    BY <1>7 DEF cmdDoctor
  <2>2. v \in {exitCodeForError("Unavailable"), exitCodeForError("error"), 0}
    BY Zenon
  <2> HIDE DEF v
  <2>3. v \in 0..7
    BY <1>5, <2>2
  <2>4. QED
    BY <1>3, <1>4, <2>1, <2>3
<1>8. QED
  BY <1>6, <1>7

(* A command that has not called ends. *)
LEMMA LocalEnds ==
    ASSUME NEW c \in Client, NEW code \in {0, 1, 2}, Acts(c), UNCHANGED serverSide, step[c] = 0, Local(c, code),
           code = 0 => cmd(c).name \notin Writes /\ cmd(c).file = "none"
    PROVE  ClientStep(c)
<1>1. Exit(c, code) /\ UNCHANGED file
  BY DEF Local
<1>2. code \in 0..7
  OBVIOUS
<1>3. QED
  BY <1>1, <1>2, EndStep

(* The commands that call nobody, and those that fail on their arguments. *)
LEMMA LocalStep ==
    ASSUME NEW c \in Client, Acts(c), UNCHANGED serverSide
    PROVE  /\ BadArguments(c) \/ cmdContract(c) \/ cmdCert(c) \/ runConfigCheck(c) \/ cmdCompletion(c) => ClientStep(c)
           /\ Named(c, "config show") /\ Local(c, 0) => ClientStep(c)
<1>1. /\ step[c] = 0 /\ (Local(c, 1) \/ Local(c, 2)) => ClientStep(c)
      /\ step[c] = 0 /\ Local(c, 0) /\ cmd(c).name \notin Writes /\ cmd(c).file = "none" => ClientStep(c)
  BY LocalEnds
<1>2. ASSUME BadArguments(c) PROVE ClientStep(c)
  <2>1. cmd(c).usage /\ Local(c, 2) /\ step[c] = 0
    BY <1>2, Reading DEF BadArguments
  <2>2. QED
    BY <1>1, <2>1
<1>3. ASSUME cmdContract(c) PROVE ClientStep(c)
  <2>1. cmd(c).name \in LocalCommands /\ step[c] = 0
    BY <1>3, Reading DEF cmdContract, Named, LocalCommands
  <2>2. CASE cmd(c).name \in FileCommands /\ (Local(c, 2) \/ WriteFile(c, 2))
    <3>1. WriteFile(c, 2) => ClientStep(c)
      BY <2>1, <2>2, WriteFileStep, Zenon
    <3>2. QED
      BY <1>1, <2>1, <2>2, <3>1
  <2>3. CASE cmd(c).name = "contract validate" /\ (Local(c, 2) \/ Local(c, 0))
    <3>1. cmd(c).name \notin Writes /\ cmd(c).file = "none"
      BY <2>3 DEF Writes, Acts, CommandAllowed, FileCommands
    <3>2. QED
      BY <1>1, <2>1, <2>3, <3>1
  <2>4. QED
    BY <1>3, <2>2, <2>3 DEF cmdContract, Named, FileCommands
<1>4. ASSUME cmd(c).name \in {"cert status", "config-check", "completion", "config show"}, Local(c, 0) \/ Local(c, 1) \/ Local(c, 2)
      PROVE  ClientStep(c)
  <2>1. step[c] = 0
    BY <1>4, Reading DEF LocalCommands
  <2>2. cmd(c).name \notin Writes /\ cmd(c).file = "none"
    BY <1>4 DEF Writes, Acts, CommandAllowed, FileCommands
  <2>3. QED
    BY <1>1, <1>4, <2>1, <2>2
<1>5. ASSUME \/ cmdCert(c) \/ runConfigCheck(c) \/ cmdCompletion(c)
             \/ Named(c, "config show") /\ Local(c, 0)
      PROVE  ClientStep(c)
  BY <1>4, <1>5 DEF cmdCert, runConfigCheck, cmdCompletion, Named
<1>6. QED
  BY <1>2, <1>3, <1>5

(* config reload makes one call, which changes nothing that is counted here. *)
LEMMA ConfigStep ==
    ASSUME NEW c \in Client, Acts(c), ~cmd(c).usage, UNCHANGED serverSide, cmdConfig(c)
    PROVE  ClientStep(c)
<1> DEFINE k == [Call("ReloadConfig") EXCEPT !.bad = cmd(c).bad]
<1>1. CASE cmd(c).name = "config reload" /\ OneCall(c, k)
  <2>1. PlainCommand(cmd(c).name) /\ cmd(c).name \notin Writes
    BY <1>1 DEF PlainCommand, LocalCommands, StatusCommands, FileCommands, Toggles, Writes
  <2>2. CallAllowed(k)
    BY DEF CallAllowed, Call
  <2> HIDE DEF k
  <2>3. QED
    BY <1>1, <2>1, <2>2, OneCallStep
<1>2. CASE Named(c, "config show") /\ Local(c, 0)
  BY <1>2, LocalStep
<1>3. QED
  BY <1>1, <1>2 DEF cmdConfig, Named

(* Every step of every command. *)
LEMMA CommandSteps ==
    ASSUME NEW c \in Client, Functions, ClientOK(c), CommandsOK, Command(c)
    PROVE  ClientStep(c)
<1>1. Acts(c) /\ UNCHANGED serverSide
  BY DEF Acts, Command, CommandsOK
<1>2. CASE BadArguments(c)
  BY <1>1, <1>2, LocalStep
<1>3. CASE ~cmd(c).usage
  BY <1>1, <1>2, <1>3, OneCallCommands, HistoryGetStep, WatchCommandStep, FileCommandStep, ToggleStep, ExecuteStep,
     StatusCommandStep, LocalStep, ConfigStep DEF Command
<1>4. QED
  BY <1>2, <1>3 DEF Command

(* send and replay, when their input has ended. *)
LEMMA InputSteps ==
    ASSUME NEW c \in Client, Functions, ClientOK(c), CommandsOK, InputEnds(c)
    PROVE  ClientStep(c)
<1>1. Acts(c) /\ UNCHANGED serverSide /\ file' = file /\ ~cmd(c).usage /\ step[c] = 0
  BY DEF Acts, InputEnds, WaitsForInput, CommandsOK
<1>2. cmd(c).name \in {"send", "replay"}
  BY DEF InputEnds, WaitsForInput, CommandsOK, CommandAllowed
<1>3. CASE Send(c, BodyCall(c))
  <2>1. PlainCommand(cmd(c).name)
    BY <1>2 DEF PlainCommand, LocalCommands, StatusCommands, FileCommands, Toggles
  <2>2. BodyCall(c).rpc \in {"ComposeRequest", "ReplayRequest"}
    BY DEF BodyCall, Call
  <2>3. CallAllowed(BodyCall(c)) /\ BodyCall(c).rpc \in WriteRpcs /\ BodyCall(c).rpc \notin Deletes
    BY <2>2 DEF CallAllowed, WriteRpcs, Deletes
  <2>4. OneCall(c, BodyCall(c))
    BY <1>1, <1>3 DEF OneCall
  <2>5. QED
    BY <1>1, <2>1, <2>3, <2>4, OneCallStep
<1>4. CASE Exit(c, exitCodeForError("error"))
  <2>1. exitCodeForError("error") = 2
    BY DEF exitCodeForError
  <2>2. QED
    BY <1>1, <1>4, <2>1, EndStep
<1>5. QED
  BY <1>3, <1>4 DEF InputEnds

-----------------------------------------------------------------------------
(* The control plane: steps of the manager behind the server *)

(* What a step of the server does to the rules is an operation of the manager. *)
LEMMA ServeRules ==
    ASSUME NEW c \in Client, MapsType, TablesOK, CallOK(c), Serve(c)
    PROVE  RulesNext \/ UNCHANGED <<ruleVars, evalVars>>
<1>1. CASE SetBreakpoint(c) /\ UNCHANGED evalVars
  <2>1. CASE UNCHANGED ruleVars
    BY <1>1, <2>1
  <2>2. CASE ValidRule(call[c].rule) /\ \E id \in IdFor(c, "breakpoints") : AddRule(id, call[c].rule)
    <3>1. spc[c] = "handler" /\ call[c].rpc = "SetBreakpoint"
      BY <1>1 DEF SetBreakpoint, At
    <3>2. call[c].id \in RuleId \cup {None} /\ call[c].rule \in Rule
      BY <2>2, <3>1 DEF CallOK, StageOK, CallAllowed, Settable
    <3>3. IdFor(c, "breakpoints") \subseteq RuleId
      BY <3>2 DEF IdFor, TablesOK
    <3>4. QED
      BY <1>1, <2>2, <3>2, <3>3 DEF RulesNext
  <2>3. QED
    BY <1>1, <2>1, <2>2 DEF SetBreakpoint
<1>2. CASE DeleteBreakpoint(c) /\ UNCHANGED evalVars
  <2>1. spc[c] = "handler" /\ call[c].rpc = "DeleteBreakpoint"
    BY <1>2 DEF DeleteBreakpoint, At
  <2>2. call[c].id \in RuleId
    BY <2>1 DEF CallOK, StageOK, CallAllowed
  <2>3. UNCHANGED ruleVars \/ RemoveRule(call[c].id)
    BY <1>2 DEF DeleteBreakpoint
  <2>4. QED
    BY <1>2, <2>2, <2>3 DEF RulesNext
<1>3. CASE ResumeRequest(c)
  <2>1. ProcessEnds \/ UNCHANGED <<ruleVars, evalVars>>
    BY <1>3 DEF ResumeRequest, Unread
  <2>2. ProcessEnds => RulesLost
    BY DEF ProcessEnds
  <2>3. QED
    BY <2>1, <2>2 DEF RulesNext
<1>4. CASE /\ RateLimit(c) \/ validateToken(c) \/ mcpHandle(c) \/ (Handler(c) /\ ~SetBreakpoint(c) /\ ~DeleteBreakpoint(c))
           /\ UNCHANGED evalVars
  <2>1. RateLimit(c) \/ validateToken(c) \/ mcpHandle(c) => UNCHANGED ruleVars
    BY DEF RateLimit, validateToken, mcpHandle
  <2>2. Describe(c) \/ ListBreakpoints(c) \/ ListTable(c) \/ SaveBreakpoint(c) \/ GetHistory(c) \/ ExportHAR(c) \/ ClearHistory(c)
        => UNCHANGED ruleVars
    BY DEF Describe, ListBreakpoints, ListTable, SaveBreakpoint, GetHistory, ExportHAR, ClearHistory, Unread
  <2>3. Build(c) \/ DoRequest(c) \/ ReloadConfig(c) \/ OpenStream(c) \/ auditLog(c) => UNCHANGED ruleVars
    BY DEF Build, DoRequest, ReloadConfig, OpenStream, auditLog, Unread
  <2>4. \/ AddRewriteRule(c) \/ UpdateRewriteRule(c) \/ DeleteRewriteRule(c) \/ ToggleRewriteRule(c)
        \/ SaveRequestTemplate(c) \/ DeleteRequestTemplate(c)
        => UNCHANGED ruleVars
    BY DEF AddRewriteRule, UpdateRewriteRule, DeleteRewriteRule, ToggleRewriteRule, SaveRequestTemplate,
           DeleteRequestTemplate, Unnamed, SaveRow, RemoveRow, Statement, Unread
  <2>5. QED
    BY <1>4, <2>1, <2>2, <2>3, <2>4 DEF Handler
<1>5. QED
  BY <1>1, <1>2, <1>3, <1>4 DEF Serve, Handler

(* The proxy at work and the end of the process. *)
LEMMA EnvironmentRules == Environment => RulesNext \/ UNCHANGED <<ruleVars, evalVars>>
<1> SUFFICES ASSUME Environment PROVE RulesNext \/ UNCHANGED <<ruleVars, evalVars>>
  OBVIOUS
<1>1. Capture \/ Prune \/ EngineStart => UNCHANGED <<ruleVars, evalVars>>
  BY DEF Capture, Prune, EngineStart
<1>2. EngineStop => RulesNext
  BY DEF EngineStop, ProcessEnds, RulesNext
<1>3. ASSUME NEW e \in Eval PROVE Pause(e) \/ PauseReturns(e) => UNCHANGED <<ruleVars, evalVars>>
  BY DEF Pause, PauseReturns
<1>4. ASSUME NEW e \in Eval PROVE Evaluation(e) => RulesNext
  BY DEF Evaluation, RulesNext
<1>5. ASSUME NEW k \in DOMAIN tokens PROVE Refill(k) => UNCHANGED <<ruleVars, evalVars>>
  BY DEF Refill
<1>6. QED
  BY <1>1, <1>2, <1>3, <1>4, <1>5 DEF Environment

(* Every step of the control plane is one of the manager, or leaves the rules and the evaluations alone. *)
LEMMA ControlRules == ControlInv /\ [ControlNext]_controlVars => [RulesNext]_<<ruleVars, evalVars>>
<1> SUFFICES ASSUME ControlInv, [ControlNext]_controlVars PROVE RulesNext \/ UNCHANGED <<ruleVars, evalVars>>
  OBVIOUS
<1>1. ASSUME NEW c \in Client, Serve(c) PROVE RulesNext \/ UNCHANGED <<ruleVars, evalVars>>
  BY <1>1, ServeRules DEF ControlInv, ClientOK
<1>2. ASSUME NEW c \in Client, Command(c) \/ InputEnds(c) \/ GiveUp(c) PROVE UNCHANGED <<ruleVars, evalVars>>
  BY <1>2 DEF Command, InputEnds, GiveUp, serverSide
<1>3. CASE UNCHANGED controlVars
  BY <1>3 DEF controlVars
<1>4. QED
  BY <1>1, <1>2, <1>3, EnvironmentRules DEF ControlNext

(* The proxy at work touches nothing a client knows. *)
LEMMA EnvironmentKeeps ==
    ASSUME Functions, TablesOK, CommandsOK, Environment, UNCHANGED clientVars, ~ProcessEnds
    PROVE  Functions' /\ TablesOK' /\ CommandsOK' /\ \A d \in Client : Same(d)
<1> DEFINE Quiet == /\ UNCHANGED <<call, spc, draft, reply, table, audit, effects>>
                    /\ scenario'.commands = scenario.commands /\ scenario'.auditing = scenario.auditing
                    /\ {"commands", "auditing"} \subseteq DOMAIN scenario'
<1>1. Capture \/ Prune => Quiet
  BY DEF Capture, Prune, CommandsOK, callVars, traceVars
<1>2. EngineStart => Quiet
  BY DEF EngineStart, CommandsOK, callVars, storeVars, traceVars
<1>3. EngineStop => FALSE
  BY DEF EngineStop
<1>4. ASSUME NEW e \in Eval PROVE Pause(e) \/ PauseReturns(e) \/ Evaluation(e) => Quiet
  BY DEF Pause, PauseReturns, Evaluation, CommandsOK, callVars, storeVars, otherVars, traceVars
<1>5. ASSUME NEW k \in DOMAIN tokens PROVE Refill(k) => Quiet
  BY DEF Refill, CommandsOK, callVars, storeVars, traceVars
<1>6. Quiet
  BY <1>1, <1>2, <1>3, <1>4, <1>5 DEF Environment
<1>7. Functions' /\ TablesOK'
  BY <1>6 DEF Functions, TablesOK, clientVars
<1>8. CommandsOK'
  BY <1>6 DEF CommandsOK, cmd
<1>9. ASSUME NEW d \in Client PROVE Same(d)
  BY <1>6 DEF Same, cmd, clientVars
<1>10. QED
  BY <1>7, <1>8, <1>9

-----------------------------------------------------------------------------
(* The control plane: exit codes and rules *)

(* At the start nobody has called. *)
LEMMA ControlStart == ControlInit => ControlInv
<1> SUFFICES ASSUME ControlInit PROVE ControlInv
  OBVIOUS
<1>1. Functions
  BY DEF ControlInit, ServerInit, Functions
<1>2. TablesOK
  BY StartAssumption DEF ControlInit, ServerInit, TablesOK
<1>3. scenario \in Scenario
  BY DEF ControlInit, ServerInit
<1>4. CommandsOK
  BY <1>3, ScenarioAssumption, CommandAssumption DEF CommandsOK, cmd
<1>5. MapsType
  BY RuleAssumption DEF ControlInit, ServerInit, RulesInit, MapsType
<1>6. ASSUME NEW c \in Client PROVE ClientOK(c)
  <2>1. spc[c] = "none" /\ effects[c] = 0 /\ step[c] = 0 /\ exit[c] = None /\ file[c] = "old"
    BY DEF ControlInit, ServerInit
  <2>2. CallOK(c)
    BY <2>1 DEF CallOK, StageOK, EffectOK, ListOK, Changed
  <2>3. RpcOK(c)
    BY <2>1 DEF RpcOK, MaxStep
  <2>4. ExitOK(c)
    BY <2>1 DEF ExitOK
  <2>5. QED
    BY <2>2, <2>3, <2>4 DEF ClientOK
<1>7. QED
  BY <1>1, <1>2, <1>4, <1>5, <1>6 DEF ControlInv

(* One step per kind of actor: commands, timers, the server, the proxy, the end of the process. *)
LEMMA ControlStep == ControlInv /\ [ControlNext]_controlVars => ControlInv'
<1> SUFFICES ASSUME ControlInv, [ControlNext]_controlVars PROVE ControlInv'
  OBVIOUS
<1>1. MapsType'
  BY ControlRules, MapsStep DEF ControlInv
<1>2. Functions /\ TablesOK /\ CommandsOK /\ MapsType /\ \A c \in Client : ClientOK(c)
  BY DEF ControlInv
<1> DEFINE Kept == Functions' /\ TablesOK' /\ CommandsOK' /\ \A c \in Client : ClientOK(c)'
<1>3. ASSUME NEW c \in Client, Command(c) \/ InputEnds(c) PROVE Kept
  <2>1. ClientStep(c)
    BY <1>2, <1>3, CommandSteps, InputSteps
  <2>2. scenario' = scenario /\ table' = table
    BY <1>3 DEF Command, InputEnds, serverSide, otherVars, storeVars
  <2>3. TablesOK' /\ CommandsOK'
    BY <1>2, <2>2 DEF TablesOK, CommandsOK, cmd
  <2>4. ASSUME NEW d \in Client, d # c PROVE ClientOK(d)'
    BY <1>2, <2>1, <2>4, SameKeeps DEF ClientStep
  <2>5. QED
    BY <2>1, <2>3, <2>4 DEF ClientStep
<1>4. ASSUME NEW c \in Client, GiveUp(c) PROVE Kept
  <2>1. UNCHANGED <<call, spc, draft, reply, table, audit, effects, scenario, step, exit, file>>
    BY <1>4 DEF GiveUp, callVars, storeVars, otherVars, traceVars
  <2>2. Functions' /\ TablesOK' /\ CommandsOK'
    BY <1>2, <2>1 DEF Functions, TablesOK, CommandsOK, cmd
  <2>3. ASSUME NEW d \in Client PROVE ClientOK(d)'
    <3>1. Same(d)
      BY <2>1 DEF Same, cmd
    <3>2. QED
      BY <1>2, <3>1, SameKeeps
  <2>4. QED
    BY <2>2, <2>3
<1>5. ASSUME ProcessEnds, UNCHANGED clientVars PROVE Kept
  <2>1. Functions' /\ TablesOK' /\ scenario' = scenario /\ \A c \in Client : ClientOK(c)'
    BY <1>2, <1>5, ProcessEndsKeeps
  <2>2. QED
    BY <1>2, <2>1 DEF CommandsOK, cmd
<1>6. ASSUME NEW c \in Client, Serve(c), UNCHANGED clientVars, ~ProcessEnds PROVE Kept
  <2>1. CallOK(c) /\ rules \in [RuleId -> Rule \cup {None}]
    BY <1>2 DEF ClientOK, MapsType
  <2>2. ServerStep(c) /\ scenario' = scenario
    <3>1. CASE ResumeRequest(c)
      BY <1>2, <1>6, <2>1, <3>1, ResumeSteps
    <3>2. CASE /\ RateLimit(c) \/ validateToken(c) \/ mcpHandle(c) \/ Handler(c)
               /\ UNCHANGED <<scenario, running, evalVars>>
      BY <1>2, <1>6, <2>1, <3>2, HandlerSteps
    <3>3. QED
      BY <1>6, <3>1, <3>2 DEF Serve
  <2>3. ClientOK(c)'
    BY <1>2, <1>6, <2>2, ServerStepKeeps
  <2>4. ASSUME NEW d \in Client, d # c PROVE ClientOK(d)'
    BY <1>2, <2>2, <2>4, SameKeeps DEF ServerStep
  <2>5. CommandsOK'
    BY <1>2, <2>2 DEF CommandsOK, cmd
  <2>6. QED
    BY <2>2, <2>3, <2>4, <2>5 DEF ServerStep
<1>7. ASSUME Environment, UNCHANGED clientVars, ~ProcessEnds PROVE Kept
  <2>1. Functions' /\ TablesOK' /\ CommandsOK' /\ \A d \in Client : Same(d)
    BY <1>2, <1>7, EnvironmentKeeps
  <2>2. QED
    BY <1>2, <2>1, SameKeeps
<1>8. ASSUME UNCHANGED controlVars PROVE Kept
  <2>1. UNCHANGED <<call, spc, draft, reply, table, audit, effects, scenario, step, exit, file>>
    BY <1>8 DEF controlVars, callVars, storeVars, otherVars, traceVars, clientVars
  <2>2. Functions' /\ TablesOK' /\ CommandsOK'
    BY <1>2, <2>1 DEF Functions, TablesOK, CommandsOK, cmd
  <2>3. ASSUME NEW d \in Client PROVE ClientOK(d)'
    <3>1. Same(d)
      BY <2>1 DEF Same, cmd
    <3>2. QED
      BY <1>2, <3>1, SameKeeps
  <2>4. QED
    BY <2>2, <2>3
<1>9. Kept
  BY <1>3, <1>4, <1>5, <1>6, <1>7, <1>8 DEF ControlNext
<1>10. QED
  BY <1>1, <1>9 DEF ControlInv

(***************************************************************************)
(* The exit codes of the command line client are true, for any clients,    *)
(* commands and faults: invalid argument, not found and unauthenticated    *)
(* mean that nothing was changed, then or later; success of a writing      *)
(* command means one change, or nothing left to delete, which the audit    *)
(* log names if it is enabled and can be written; and the output file is   *)
(* whole, except after an export har whose write failed.                   *)
(***************************************************************************)
THEOREM ExitAlwaysTrue == ControlSpec => []ExitIsTrue
<1>1. ControlInv => ExitIsTrue
  BY DEF ControlInv, ClientOK, ExitOK, Made, Whole, ExitIsTrue
<1>2. QED
  BY <1>1, ControlStart, ControlStep, PTL DEF ControlSpec

(***************************************************************************)
(* The server implements the rules of the manager: whatever the handlers,  *)
(* the MCP endpoint, the proxy and the end of the process do, the maps and *)
(* the evaluations change by AddRule with a rule it accepts, RemoveRule,   *)
(* evaluate, or the loss of the process, and in no other way.              *)
(***************************************************************************)
THEOREM ServerKeepsToRules == ControlSpec => RulesSpec
<1>1. ControlInit => RulesInit
  BY DEF ControlInit, ServerInit
<1>2. QED
  BY <1>1, ControlStart, ControlStep, ControlRules, PTL DEF ControlSpec, RulesSpec

(***************************************************************************)
(* So what holds of the manager for every caller holds behind the server:  *)
(* the maps agree, regexEvalSem is not overdrawn, and a request is held    *)
(* for a rule that asked for it when its evaluation began, whatever        *)
(* clients set and delete meanwhile.                                       *)
(***************************************************************************)
THEOREM ServedMatchesTrue == ControlSpec => [](RulesTypeOK /\ MatchIsTrue)
BY ServerKeepsToRules, RulesTypeCorrect, MatchAlwaysTrue, PTL

-----------------------------------------------------------------------------
(* The control plane: the search of history get *)

(* Where a page ends. *)
LEMMA PageEnd ==
    ASSUME NEW a \in Nat, NEW b \in Nat
    PROVE  /\ Min2(a, b) \in Nat /\ Min2(a, b) <= a /\ Min2(a, b) <= b
           /\ Min2(a, b) = a \/ Min2(a, b) = b
BY DEF Min2

(* A page that starts before the row at p ends before it, or holds it. *)
LEMMA PageHolds ==
    ASSUME NEW h \in Seq(Nat), NEW off \in Nat, NEW size \in Nat, size > 0
    PROVE  LET page == SubSeq(h, off + 1, Min2(off + size, Len(h)))
           IN  /\ page \in Seq(Nat)
               /\ \A p \in DOMAIN h : p > off =>
                     (\E i \in DOMAIN page : page[i] = h[p]) \/ (page # <<>> /\ p > off + Len(page))
<1> DEFINE n == Len(h)
           m == Min2(off + size, n)
           page == SubSeq(h, off + 1, m)
<1>1. n \in Nat /\ DOMAIN h = 1..n /\ \A i \in 1..n : h[i] \in Nat
  BY LenProperties
<1> HIDE DEF n
<1>2. m \in Nat /\ m <= n /\ (m = n \/ m = off + size)
  <2>1. off + size \in Nat
    OBVIOUS
  <2>2. QED
    BY <1>1, <2>1, PageEnd
<1> HIDE DEF m
<1>3. off + 1 \in Int /\ m \in Int /\ \A i \in (off + 1)..m : h[i] \in Nat
  BY <1>1, <1>2
<1>4. /\ page \in Seq(Nat)
      /\ Len(page) = IF off + 1 <= m THEN m - (off + 1) + 1 ELSE 0
      /\ \A i \in 1..(m - (off + 1) + 1) : page[i] = h[off + 1 + i - 1]
  BY <1>3, SubSeqProperties
<1> HIDE DEF page
<1>5. DOMAIN page = 1..Len(page)
  BY <1>4, LenProperties
<1>6. ASSUME NEW p \in DOMAIN h, p > off
      PROVE  (\E i \in DOMAIN page : page[i] = h[p]) \/ (page # <<>> /\ p > off + Len(page))
  <2>1. p \in Nat /\ p <= n
    BY <1>1, <1>6
  <2>2. off < m
    BY <1>2, <1>6, <2>1
  <2>3. Len(page) = m - off
    BY <1>2, <1>4, <2>2
  <2>4. CASE p <= m
    <3>1. p - off \in 1..(m - (off + 1) + 1) /\ p - off \in 1..(m - off) /\ off + 1 + (p - off) - 1 = p
      BY <1>2, <1>6, <2>1, <2>4
    <3>2. page[p - off] = h[p]
      BY <1>4, <3>1
    <3>3. QED
      BY <1>5, <2>3, <3>1, <3>2
  <2>5. CASE p > m
    <3>1. p > off + Len(page) /\ Len(page) # 0
      BY <1>2, <2>1, <2>2, <2>3, <2>5
    <3>2. page # <<>>
      BY <3>1, EmptySeq
    <3>3. QED
      BY <3>1, <3>2
  <2>6. QED
    BY <1>2, <2>1, <2>4, <2>5
<1>7. QED
  BY <1>4, <1>6 DEF page, m, n

(* The history has moved from h to k: what was there at the start is gone, or no nearer to the head. *)
Moves(h, k) ==
    /\ k \in Seq(Nat)
    /\ \A id \in Nat : id <= FirstHistory =>
          \A p \in DOMAIN k : k[p] = id => \E q \in DOMAIN h : q <= p /\ h[q] = id

(* A history that stays, or is cleared. *)
LEMMA MovesTrivially ==
    ASSUME NEW h \in Seq(Nat)
    PROVE  Moves(h, h) /\ Moves(h, <<>>)
<1>1. \A p \in DOMAIN h : p <= p
  OBVIOUS
<1>2. <<>> \in Seq(Nat) /\ DOMAIN <<>> = {}
  OBVIOUS
<1>3. QED
  BY <1>1, <1>2 DEF Moves

(* PruneOldTransactions takes the last row. *)
LEMMA PruneMoves ==
    ASSUME NEW h \in Seq(Nat), h # <<>>
    PROVE  Moves(h, SubSeq(h, 1, Len(h) - 1))
<1> DEFINE n == Len(h) - 1
           k == SubSeq(h, 1, n)
<1>1. n \in Nat /\ DOMAIN h = 1..(n + 1) /\ \A i \in 1..n : h[i] \in Nat
  BY LenProperties, EmptySeq
<1> HIDE DEF n
<1>2. k \in Seq(Nat) /\ Len(k) = (IF 1 <= n THEN n - 1 + 1 ELSE 0) /\ \A i \in 1..(n - 1 + 1) : k[i] = h[1 + i - 1]
  BY <1>1, SubSeqProperties
<1> HIDE DEF k
<1>3. DOMAIN k = 1..n
  BY <1>1, <1>2, LenProperties
<1>4. \A p \in DOMAIN k : p \in DOMAIN h /\ k[p] = h[p] /\ p <= p
  BY <1>1, <1>2, <1>3
<1>5. QED
  BY <1>2, <1>4 DEF Moves, k, n

(* StoreTransaction adds a new one at the head. *)
LEMMA CaptureMoves ==
    ASSUME NEW h \in Seq(Nat), NEW t \in Nat, t > FirstHistory
    PROVE  Moves(h, <<t>> \o h)
<1> DEFINE n == Len(h)
           k == <<t>> \o h
<1>1. n \in Nat /\ DOMAIN h = 1..n
  BY LenProperties
<1>2. <<t>> \in Seq(Nat) /\ Len(<<t>>) = 1 /\ <<t>>[1] = t
  OBVIOUS
<1>3. k \in Seq(Nat) /\ Len(k) = 1 + n
      /\ \A i \in 1..(1 + n) : k[i] = IF i <= 1 THEN <<t>>[i] ELSE h[i - 1]
  BY <1>1, <1>2, ConcatProperties
<1> HIDE DEF k, n
<1>4. DOMAIN k = 1..(1 + n)
  BY <1>3, LenProperties
<1>5. ASSUME NEW id \in Nat, id <= FirstHistory, NEW p \in DOMAIN k, k[p] = id
      PROVE  \E q \in DOMAIN h : q <= p /\ h[q] = id
  <2>1. p \in 1..(1 + n)
    BY <1>4
  <2>2. p # 1
    BY <1>2, <1>3, <1>5, <2>1, StartAssumption
  <2>3. p - 1 \in 1..n /\ p - 1 <= p /\ ~(p <= 1)
    BY <1>1, <2>1, <2>2
  <2>4. k[p] = h[p - 1]
    BY <1>3, <2>1, <2>3
  <2>5. QED
    BY <1>1, <1>5, <2>3, <2>4
<1>6. QED
  BY <1>3, <1>5 DEF Moves, k

(* The history is a list of transactions, and new ones have new numbers. *)
HistoryOK == history \in Seq(Nat) /\ captured \in Nat /\ captured >= FirstHistory

(* The search of a client that is not touched, while the history moves. *)
LEMMA SearchUntouched ==
    ASSUME NEW d \in Client, Same(d), Searches(d), CommandAllowed(cmd(d)), SearchOK(d), Moves(history, history'), HistoryOK
    PROVE  SearchOK(d)'
<1>1. cmd(d).id \in Nat /\ cmd(d).id <= FirstHistory
  BY DEF Searches, CommandAllowed
<1>2. \A p \in DOMAIN history' : history'[p] = cmd(d).id => \E q \in DOMAIN history : q <= p /\ history[q] = cmd(d).id
  BY <1>1 DEF Moves
<1>3. exit'[d] = 3 => \A i \in DOMAIN history' : history'[i] # cmd(d).id
  BY <1>2 DEF Same, SearchOK
<1>4. ASSUME step[d] > 0, exit[d] = None
      PROVE  /\ call[d].via = "grpc" /\ call[d].match = None
             /\ call[d].limit \in Nat /\ call[d].offset \in Nat
             /\ spc[d] = "stream" => draft[d] \in Seq(Nat)
             /\ spc[d] = "answered" => reply[d].code # "NotFound"
             /\ spc[d] = "answered" /\ reply[d].code = "OK" => reply[d].data \in Seq(Nat)
             /\ \A p \in DOMAIN history' : history'[p] = cmd(d).id =>
                   /\ spc[d] \in {"sent", "admitted", "handler"} => p > call[d].offset
                   /\ spc[d] = "stream" => Ahead(d, draft[d], p)
                   /\ spc[d] = "answered" /\ reply[d].code = "OK" => Ahead(d, reply[d].data, p)
  <2>1. /\ call[d].via = "grpc" /\ call[d].match = None
        /\ call[d].limit \in Nat /\ call[d].offset \in Nat
        /\ spc[d] = "stream" => draft[d] \in Seq(Nat)
        /\ spc[d] = "answered" => reply[d].code # "NotFound"
        /\ spc[d] = "answered" /\ reply[d].code = "OK" => reply[d].data \in Seq(Nat)
    BY <1>4, Zenon DEF SearchOK
  <2>2. ASSUME NEW p \in DOMAIN history', history'[p] = cmd(d).id
        PROVE  /\ spc[d] \in {"sent", "admitted", "handler"} => p > call[d].offset
               /\ spc[d] = "stream" => Ahead(d, draft[d], p)
               /\ spc[d] = "answered" /\ reply[d].code = "OK" => Ahead(d, reply[d].data, p)
    <3>1. PICK q \in DOMAIN history : q <= p /\ history[q] = cmd(d).id
      BY <1>2, <2>2
    <3>2. /\ spc[d] \in {"sent", "admitted", "handler"} => q > call[d].offset
          /\ spc[d] = "stream" => Ahead(d, draft[d], q)
          /\ spc[d] = "answered" /\ reply[d].code = "OK" => Ahead(d, reply[d].data, q)
      BY <1>4, <3>1, Zenon DEF SearchOK
    <3>3. q \in Nat /\ p \in Nat
      BY LenProperties DEF HistoryOK, Moves
    <3>4. ASSUME NEW page \in Seq(Nat), Ahead(d, page, q) PROVE Ahead(d, page, p)
      <4>1. Len(page) \in Nat
        BY LenProperties
      <4>2. QED
        BY <2>1, <3>1, <3>3, <3>4, <4>1 DEF Ahead
    <3>5. spc[d] \in {"sent", "admitted", "handler"} => p > call[d].offset
      BY <2>1, <3>1, <3>2, <3>3
    <3>6. QED
      BY <2>1, <3>2, <3>4, <3>5
  <2>3. QED
    BY <2>1, <2>2
<1>5. QED
  BY <1>3, <1>4 DEF SearchOK, Same, Ahead

(* The call of a search under way: what the server may do with it. *)
LEMMA SearchCall ==
    ASSUME NEW c \in Client, ClientOK(c), Searches(c), SearchOK(c), exit[c] = None, spc[c] \in InFlight,
           RateLimit(c) \/ validateToken(c) \/ mcpHandle(c) \/ Handler(c) \/ ResumeRequest(c)
    PROVE  call[c].rpc = "GetHistory" /\ step[c] > 0 /\ (RateLimit(c) \/ validateToken(c) \/ GetHistory(c))
<1>1. step[c] \in 0..MaxStep /\ step[c] # 0
  <2>1. step[c] \in 0..MaxStep /\ (step[c] = 0 <=> spc[c] = "none")
    BY Zenon DEF ClientOK, RpcOK
  <2>2. QED
    BY <2>1 DEF InFlight
<1>2. step[c] > 0
  BY <1>1 DEF MaxStep
<1>3. call[c].rpc = "GetHistory"
  BY <1>2, Zenon DEF ClientOK, RpcOK, Searches
<1>4. call[c].via = "grpc"
  BY <1>2 DEF SearchOK
<1>5. spc[c] \notin {"store", "upstream", "open", "audit"}
  BY <1>3 DEF ClientOK, CallOK, StageOK, WriteRpcs
<1>6. ~mcpHandle(c)
  BY <1>4 DEF mcpHandle
<1>7. /\ ~Describe(c) /\ ~ListBreakpoints(c) /\ ~ListTable(c) /\ ~SetBreakpoint(c) /\ ~DeleteBreakpoint(c)
      /\ ~SaveBreakpoint(c) /\ ~AddRewriteRule(c) /\ ~UpdateRewriteRule(c) /\ ~DeleteRewriteRule(c)
  BY <1>3 DEF Describe, ListBreakpoints, ListTable, SetBreakpoint, DeleteBreakpoint, SaveBreakpoint, AddRewriteRule,
              UpdateRewriteRule, DeleteRewriteRule, At
<1>8. /\ ~ToggleRewriteRule(c) /\ ~SaveRequestTemplate(c) /\ ~DeleteRequestTemplate(c) /\ ~ExportHAR(c) /\ ~ClearHistory(c)
      /\ ~Build(c) /\ ~DoRequest(c) /\ ~ReloadConfig(c) /\ ~OpenStream(c) /\ ~auditLog(c) /\ ~ResumeRequest(c)
  BY <1>3, <1>5 DEF ToggleRewriteRule, SaveRequestTemplate, DeleteRequestTemplate, ExportHAR, ClearHistory, Build,
                    DoRequest, ReloadConfig, OpenStream, auditLog, ResumeRequest, At
<1>9. QED
  BY <1>2, <1>3, <1>6, <1>7, <1>8 DEF Handler

(* The server at work on the page a search has asked for. *)
LEMMA SearchServed ==
    ASSUME NEW c \in Client, ClientOK(c), Functions, HistoryOK, Searches(c), SearchOK(c), CommandAllowed(cmd(c)),
           Serve(c), ~ProcessEnds, spc[c] \in InFlight, UNCHANGED <<scenario, clientVars>>,
           history' \in {history, <<>>}
    PROVE  SearchOK(c)'
<1>1. cmd(c)' = cmd(c) /\ step' = step /\ exit' = exit
  BY DEF cmd, clientVars
<1>2. CASE exit[c] # None
  <2>1. exit[c] = 3 => \A i \in DOMAIN history : history[i] # cmd(c).id
    BY DEF SearchOK
  <2>2. exit[c] = 3 => \A i \in DOMAIN history' : history'[i] # cmd(c).id
    BY <2>1
  <2>3. QED
    BY <1>1, <1>2, <2>2 DEF SearchOK
<1>3. CASE exit[c] = None
  <2>1. call[c].rpc = "GetHistory" /\ step[c] > 0 /\ (RateLimit(c) \/ validateToken(c) \/ GetHistory(c))
    BY <1>3, SearchCall DEF Serve
  <2>2. call' = call /\ history' = history
    BY <2>1 DEF RateLimit, validateToken, GetHistory, Unread
  <2>3. exit'[c] # 3
    BY <1>1, <1>3, StartAssumption
  <2>4. /\ call[c].via = "grpc" /\ call[c].match = None
        /\ call[c].limit \in Nat /\ call[c].offset \in Nat
        /\ spc[c] = "stream" => draft[c] \in Seq(Nat)
    BY <1>3, <2>1, Zenon DEF SearchOK
  <2>5. \A p \in DOMAIN history : history[p] = cmd(c).id =>
           /\ spc[c] \in {"sent", "admitted", "handler"} => p > call[c].offset
           /\ spc[c] = "stream" => Ahead(c, draft[c], p)
    BY <1>3, <2>1, Zenon DEF SearchOK
  <2>6. CASE spc'[c] \in {"admitted", "handler"} /\ spc[c] \in {"sent", "admitted"}
    BY <1>1, <2>2, <2>3, <2>4, <2>5, <2>6 DEF SearchOK
  <2>7. CASE spc'[c] = "answered" /\ reply'[c].code \notin {"OK", "NotFound"}
    BY <1>1, <2>2, <2>3, <2>4, <2>7 DEF SearchOK
  <2>8. CASE /\ spc[c] = "handler" /\ spc'[c] = "stream"
             /\ draft'[c] = ListTransactions(call[c].match, call[c].limit, call[c].offset)
    <3> DEFINE size == IF call[c].limit <= 0 THEN 100 ELSE call[c].limit
               off == call[c].offset
               page == SubSeq(history, off + 1, Min2(off + size, Len(history)))
    <3>1. size \in Nat /\ size > 0 /\ off \in Nat
      BY <2>4
    <3>2. draft'[c] = page
      BY <2>4, <2>8 DEF ListTransactions, Where
    <3> HIDE DEF size
    <3>3. /\ page \in Seq(Nat)
          /\ \A p \in DOMAIN history : p > off =>
                (\E i \in DOMAIN page : page[i] = history[p]) \/ (page # <<>> /\ p > off + Len(page))
      BY <3>1, PageHolds DEF HistoryOK
    <3> HIDE DEF page
    <3>4. \A p \in DOMAIN history : history[p] = cmd(c).id => Ahead(c, page, p)
      BY <2>5, <2>8, <3>3 DEF Ahead
    <3>5. \A p \in DOMAIN history' : history'[p] = cmd(c)'.id => Ahead(c, draft[c], p)'
      BY <1>1, <2>2, <3>2, <3>4 DEF Ahead
    <3>6. QED
      BY <1>1, <2>2, <2>3, <2>4, <2>8, <3>2, <3>3, <3>5 DEF SearchOK
  <2>9. CASE spc[c] = "stream" /\ spc'[c] = "answered" /\ reply'[c] = [code |-> "OK", data |-> draft[c]]
    <3>1. reply'[c].code = "OK" /\ reply'[c].data = draft[c] /\ draft[c] \in Seq(Nat)
      BY <2>4, <2>9
    <3>2. \A p \in DOMAIN history' : history'[p] = cmd(c)'.id => Ahead(c, reply[c].data, p)'
      BY <1>1, <2>2, <2>5, <2>9, <3>1 DEF Ahead
    <3>3. QED
      BY <1>1, <2>2, <2>3, <2>4, <2>9, <3>1, <3>2 DEF SearchOK
  <2>10. CASE RateLimit(c) \/ validateToken(c)
    BY <2>6, <2>7, <2>10 DEF RateLimit, validateToken, Goto, Refuse, Answer, Functions
  <2>11. CASE GetHistory(c)
    BY <2>7, <2>8, <2>9, <2>11 DEF GetHistory, At, Goto, Refuse, Answer, Functions
  <2>12. QED
    BY <2>1, <2>10, <2>11
<1>4. QED
  BY <1>2, <1>3

(* The end of the process answers Unavailable, never NotFound. *)
LEMMA SearchCut ==
    ASSUME NEW c \in Client, ClientOK(c), Functions, HistoryOK, Searches(c), SearchOK(c), CommandAllowed(cmd(c)),
           ProcessEnds, UNCHANGED clientVars
    PROVE  SearchOK(c)'
<1>1. /\ call' = call /\ draft' = draft /\ effects' = effects /\ audit' = audit /\ scenario' = scenario
      /\ step' = step /\ exit' = exit /\ file' = file /\ history' = history
  BY DEF ProcessEnds, clientVars
<1>2. CASE spc[c] \in InFlight
  <2>1. spc'[c] = "answered" /\ reply'[c].code = "Unavailable"
    BY <1>2 DEF ProcessEnds
  <2>2. exit[c] = 3 => \A i \in DOMAIN history : history[i] # cmd(c).id
    BY DEF SearchOK
  <2>3. step[c] > 0 /\ exit[c] = None =>
          /\ call[c].via = "grpc" /\ call[c].match = None
          /\ call[c].limit \in Nat /\ call[c].offset \in Nat
    BY Zenon DEF SearchOK
  <2>4. QED
    BY <1>1, <2>1, <2>2, <2>3 DEF SearchOK, cmd
<1>3. CASE spc[c] \notin InFlight
  <2>1. Same(c)
    BY <1>1, <1>3 DEF ProcessEnds, Same, cmd
  <2>2. Moves(history, history')
    BY <1>1, MovesTrivially DEF HistoryOK
  <2>3. QED
    BY <2>1, <2>2, SearchUntouched
<1>4. QED
  BY <1>2, <1>3

(* No other command is named history get. *)
LEMMA SearchCommand ==
    ASSUME NEW c \in Client, Command(c), cmd(c).name = "history get"
    PROVE  BadArguments(c) \/ (~cmd(c).usage /\ cmdHistoryGet(c))
<1>1. ~cmdStatus(c) /\ ~cmdVersion(c) /\ ~cmdPlugins(c) /\ ~cmdHistoryList(c) /\ ~cmdHistoryClear(c) /\ ~cmdWatch(c)
      /\ ~cmdFilter(c) /\ ~cmdExport(c) /\ ~cmdLearn(c) /\ ~cmdContract(c)
  BY DEF cmdStatus, cmdVersion, cmdPlugins, cmdHistoryList, cmdHistoryClear, cmdWatch, cmdFilter, cmdExport, cmdLearn,
         cmdContract, Named
<1>2. ~cmdBreakpoints(c) /\ ~cmdBreakpointAdd(c) /\ ~cmdBreakpointToggle(c) /\ ~cmdPausedWatch(c) /\ ~cmdPausedForward(c)
      /\ ~cmdPausedDrop(c) /\ ~cmdPausedRespond(c) /\ ~cmdSend(c) /\ ~cmdTemplates(c) /\ ~cmdTemplatesExecute(c)
  BY DEF cmdBreakpoints, cmdBreakpointAdd, cmdBreakpointToggle, cmdPausedWatch, cmdPausedForward, cmdPausedDrop,
         cmdPausedRespond, cmdSend, cmdTemplates, cmdTemplatesExecute, Named
<1>3. ~cmdReplay(c) /\ ~cmdCert(c) /\ ~runConfigCheck(c) /\ ~cmdConfig(c) /\ ~cmdCompletion(c) /\ ~cmdSetup(c)
      /\ ~cmdDoctor(c) /\ ~cmdDoctorBundle(c) /\ ~OtherClient(c)
  BY DEF cmdReplay, cmdCert, runConfigCheck, cmdConfig, cmdCompletion, cmdSetup, cmdDoctor, cmdDoctorBundle, OtherClient, Named
<1>4. QED
  BY <1>1, <1>2, <1>3 DEF Command

(* The search asks for the page after the one it has, and gives up only at an empty one. *)
LEMMA SearchMovesOn ==
    ASSUME NEW c \in Client, Functions, ClientOK(c), CommandsOK, HistoryOK, Searches(c), SearchOK(c), Command(c)
    PROVE  SearchOK(c)'
<1>1. /\ cmd(c)' = cmd(c) /\ history' = history /\ exit[c] = None /\ draft' = draft
      /\ cmd(c).name = "history get" /\ CommandAllowed(cmd(c))
  BY DEF Command, serverSide, otherVars, storeVars, cmd, Searches, CommandsOK
<1>2. cmd(c).size \in Nat /\ cmd(c).id \in Nat
  BY <1>1 DEF CommandAllowed
<1>3. step[c] > 0 =>
        /\ call[c].offset \in Nat
        /\ spc[c] = "answered" => reply[c].code # "NotFound"
        /\ spc[c] = "answered" /\ reply[c].code = "OK" => reply[c].data \in Seq(Nat)
        /\ \A p \in DOMAIN history : history[p] = cmd(c).id =>
              (spc[c] = "answered" /\ reply[c].code = "OK" => Ahead(c, reply[c].data, p))
  BY <1>1, Zenon DEF SearchOK
<1>4. ASSUME NEW n \in Nat, Send(c, PageAt(c, n)), \A p \in DOMAIN history : history[p] = cmd(c).id => p > n
      PROVE  SearchOK(c)'
  <2> DEFINE k == PageAt(c, n)
  <2>1. k.via = "grpc" /\ k.match = None /\ k.limit = cmd(c).size /\ k.offset = n
    BY DEF PageAt, Call
  <2> HIDE DEF k
  <2>2. call'[c] = k /\ exit'[c] = None
        /\ (spc'[c] = "sent" \/ (spc'[c] = "answered" /\ reply'[c].code = "Unavailable"))
    <3>1. Send(c, k)
      BY <1>4 DEF k
    <3>2. call'[c] = k /\ exit'[c] = None
      BY <1>1, <3>1 DEF Send, Functions
    <3>3. CASE running
      BY <3>1, <3>2, <3>3 DEF Send, Functions
    <3>4. CASE ~running
      BY <3>1, <3>2, <3>4 DEF Send, Answer, Functions
    <3>5. QED
      BY <3>2, <3>3, <3>4
  <2>3. None # 3
    BY StartAssumption
  <2>4. QED
    BY <1>1, <1>2, <1>4, <2>1, <2>2, <2>3 DEF SearchOK
<1>5. ASSUME NEW code, Exit(c, code), code = 3 => \A i \in DOMAIN history : history[i] # cmd(c).id,
             code # None
      PROVE  SearchOK(c)'
  <2>1. exit'[c] = code
    BY <1>5 DEF Exit, Functions
  <2>2. QED
    BY <1>1, <1>5, <2>1 DEF SearchOK
<1>6. ASSUME NEW code \in 0..7 PROVE code # None
  BY StartAssumption
<1>7. CASE BadArguments(c)
  <2>1. Exit(c, 2)
    BY <1>7 DEF BadArguments, Local
  <2>2. QED
    BY <1>5, <1>6, <2>1
<1>8. CASE step[c] = 0 /\ Send(c, PageAt(c, 0))
  <2>1. \A p \in DOMAIN history : p > 0
    BY LenProperties DEF HistoryOK
  <2>2. QED
    BY <1>4, <1>8, <2>1
<1>9. ASSUME step[c] > 0, Answered(c, step[c])
      PROVE  /\ Fail(c) => SearchOK(c)'
             /\ Code(c) = "OK" /\ Data(c) = <<>> /\ Exit(c, exitCodeForError("NotFound")) => SearchOK(c)'
             /\ Exit(c, 0) => SearchOK(c)'
             /\ /\ Code(c) = "OK" /\ Data(c) # <<>> /\ \A i \in DOMAIN Data(c) : Data(c)[i] # cmd(c).id
                /\ Send(c, PageAt(c, call[c].offset + Len(Data(c))))
                => SearchOK(c)'
  <2>1. spc[c] = "answered" \/ c \in gaveUp
    BY <1>9 DEF Answered
  <2>2. Code(c) = "OK" => spc[c] = "answered" /\ reply[c].code = "OK" /\ Data(c) = reply[c].data
    BY <2>1, CodeIsTrue DEF Data
  <2>3. Code(c) # "NotFound"
    BY <1>3, <1>9, <2>1 DEF Code
  <2>4. ASSUME Fail(c) PROVE SearchOK(c)'
    <3> DEFINE code == exitCodeForError(Code(c))
    <3>1. Exit(c, code)
      BY <2>4 DEF Fail
    <3>2. code # 3
      BY <2>3 DEF exitCodeForError
    <3>3. code \in 0..7
      BY <2>1, CodeIsTrue
    <3> HIDE DEF code
    <3>4. QED
      BY <1>5, <1>6, <3>1, <3>2, <3>3
  <2>5. ASSUME Code(c) = "OK", Data(c) = <<>>, Exit(c, exitCodeForError("NotFound")) PROVE SearchOK(c)'
    <3>1. exitCodeForError("NotFound") = 3
      BY DEF exitCodeForError
    <3>2. \A p \in DOMAIN history : history[p] = cmd(c).id => Ahead(c, <<>>, p)
      BY <1>3, <1>9, <2>2, <2>5
    <3>3. \A p : ~Ahead(c, <<>>, p)
      BY DEF Ahead
    <3>4. QED
      BY <1>5, <1>6, <2>5, <3>1, <3>2, <3>3
  <2>6. ASSUME Exit(c, 0) PROVE SearchOK(c)'
    BY <1>5, <1>6, <2>6
  <2>7. ASSUME Code(c) = "OK", Data(c) # <<>>, \A i \in DOMAIN Data(c) : Data(c)[i] # cmd(c).id,
               Send(c, PageAt(c, call[c].offset + Len(Data(c))))
        PROVE  SearchOK(c)'
    <3> DEFINE n == call[c].offset + Len(Data(c))
    <3>1. \A p \in DOMAIN history : history[p] = cmd(c).id => p > n
      BY <1>3, <1>9, <2>2, <2>7 DEF Ahead
    <3>2. Data(c) \in Seq(Nat) /\ call[c].offset \in Nat
      BY <1>3, <1>9, <2>2, <2>7
    <3>3. Len(Data(c)) \in Nat
      BY <3>2, LenProperties
    <3>4. n \in Nat
      BY <3>2, <3>3
    <3>5. Send(c, PageAt(c, n))
      BY <2>7
    <3> HIDE DEF n
    <3>6. QED
      BY <1>4, <3>1, <3>4, <3>5
  <2>8. QED
    BY <2>4, <2>5, <2>6, <2>7
<1>10. CASE ~cmd(c).usage /\ cmdHistoryGet(c)
  <2>1. \/ step[c] = 0 /\ Send(c, PageAt(c, 0))
        \/ /\ step[c] > 0 /\ Answered(c, step[c])
           /\ \/ Fail(c)
              \/ Code(c) = "OK" /\ Data(c) = <<>> /\ Exit(c, exitCodeForError("NotFound"))
              \/ Exit(c, 0)
              \/ /\ Code(c) = "OK" /\ Data(c) # <<>> /\ \A i \in DOMAIN Data(c) : Data(c)[i] # cmd(c).id
                 /\ Send(c, PageAt(c, call[c].offset + Len(Data(c))))
    BY <1>10, Zenon DEF cmdHistoryGet
  <2>2. QED
    BY <1>8, <1>9, <2>1
<1>11. QED
  BY <1>1, <1>7, <1>10, SearchCommand

(* No step lets a search pass the transaction it looks for. *)
LEMMA SearchStep == ControlInv /\ SearchInv /\ [ControlNext]_controlVars => SearchInv'
<1> SUFFICES ASSUME ControlInv, SearchInv, [ControlNext]_controlVars PROVE SearchInv'
  OBVIOUS
<1>1. /\ Functions /\ TablesOK /\ CommandsOK /\ MapsType /\ HistoryOK
      /\ \A c \in Client : ClientOK(c) /\ (Searches(c) => SearchOK(c) /\ CommandAllowed(cmd(c)))
  BY DEF ControlInv, SearchInv, HistoryOK, CommandsOK, Searches
<1>2. ASSUME NEW c \in Client, Same(c) \/ scenario' = scenario PROVE Searches(c)' <=> Searches(c)
  BY <1>2 DEF Searches, Same, cmd
<1> DEFINE Kept == HistoryOK' /\ \A c \in Client : Searches(c)' => SearchOK(c)'
<1>3. Moves(history, history) /\ Moves(history, <<>>)
  BY <1>1, MovesTrivially DEF HistoryOK
<1>4. ASSUME \A d \in Client : Same(d), HistoryOK', Moves(history, history') PROVE Kept
  <2>1. ASSUME NEW d \in Client, Searches(d)' PROVE SearchOK(d)'
    BY <1>1, <1>2, <1>4, <2>1, SearchUntouched
  <2>2. QED
    BY <1>4, <2>1
<1>5. ASSUME NEW c \in Client, Command(c) \/ InputEnds(c) PROVE Kept
  <2>1. ClientStep(c) /\ scenario' = scenario /\ history' = history /\ captured' = captured
    BY <1>1, <1>5, CommandSteps, InputSteps DEF Command, InputEnds, serverSide, otherVars, storeVars
  <2>2. ASSUME NEW d \in Client, d # c, Searches(d)' PROVE SearchOK(d)'
    BY <1>1, <1>2, <1>3, <2>1, <2>2, SearchUntouched DEF ClientStep
  <2>3. InputEnds(c) => ~Searches(c)
    BY <1>1 DEF InputEnds, WaitsForInput, CommandsOK, CommandAllowed, Searches
  <2>4. Searches(c)' => SearchOK(c)'
    BY <1>1, <1>2, <1>5, <2>1, <2>3, SearchMovesOn
  <2>5. HistoryOK'
    BY <1>1, <2>1 DEF HistoryOK
  <2>6. QED
    BY <2>2, <2>4, <2>5
<1>6. ASSUME NEW c \in Client, GiveUp(c) PROVE Kept
  <2>1. UNCHANGED <<call, spc, draft, reply, history, captured, audit, effects, scenario, step, exit, file>>
    BY <1>6 DEF GiveUp, callVars, storeVars, otherVars, traceVars
  <2>2. (\A d \in Client : Same(d)) /\ HistoryOK'
    BY <1>1, <2>1 DEF Same, cmd, HistoryOK
  <2>3. QED
    BY <1>3, <1>4, <2>1, <2>2
<1>7. ASSUME ProcessEnds, UNCHANGED clientVars PROVE Kept
  <2>1. scenario' = scenario /\ history' = history /\ captured' = captured
    BY <1>1, <1>7, ProcessEndsKeeps
  <2>2. HistoryOK'
    BY <1>1, <2>1 DEF HistoryOK
  <2>3. QED
    BY <1>1, <1>2, <1>7, <2>1, <2>2, SearchCut
<1>8. ASSUME NEW c \in Client, Serve(c), UNCHANGED clientVars, ~ProcessEnds PROVE Kept
  <2>1. CallOK(c) /\ rules \in [RuleId -> Rule \cup {None}]
    BY <1>1 DEF ClientOK, MapsType
  <2>2. ServerStep(c) /\ scenario' = scenario
    BY <1>1, <1>8, <2>1, ResumeSteps, HandlerSteps DEF Serve
  <2>3. /\ history' \in {history, <<>>} /\ captured' = captured /\ spc[c] \in InFlight
        /\ \A d \in Client : d # c => Same(d)
    BY <2>2 DEF ServerStep
  <2>4. Moves(history, history') /\ HistoryOK'
    <3>1. Moves(history, history')
      <4>1. CASE history' = history
        BY <1>3, <4>1
      <4>2. CASE history' = <<>>
        BY <1>3, <4>2
      <4>3. QED
        BY <2>3, <4>1, <4>2
    <3>2. history' \in Seq(Nat)
      BY <3>1 DEF Moves
    <3>3. captured' \in Nat /\ captured' >= FirstHistory
      BY <1>1, <2>3 DEF HistoryOK
    <3>4. QED
      BY <3>1, <3>2, <3>3 DEF HistoryOK
  <2>5. ASSUME NEW d \in Client, d # c, Searches(d)' PROVE SearchOK(d)'
    BY <1>1, <1>2, <2>2, <2>3, <2>4, <2>5, SearchUntouched
  <2>6. Searches(c)' => SearchOK(c)'
    BY <1>1, <1>2, <1>8, <2>2, <2>3, SearchServed
  <2>7. QED
    BY <2>4, <2>5, <2>6
<1>9. ASSUME Environment, UNCHANGED clientVars, ~ProcessEnds PROVE Kept
  <2>1. \A d \in Client : Same(d)
    BY <1>1, <1>9, EnvironmentKeeps
  <2>2. CASE history' = history /\ captured' = captured
    BY <1>1, <1>3, <1>4, <2>1, <2>2 DEF HistoryOK
  <2>3. CASE Capture
    <3>1. captured + 1 \in Nat /\ captured + 1 > FirstHistory /\ captured + 1 >= FirstHistory
      BY <1>1, StartAssumption DEF HistoryOK
    <3>2. history' = <<captured + 1>> \o history /\ captured' = captured + 1
      BY <2>3 DEF Capture
    <3>3. Moves(history, history')
      BY <1>1, <3>1, <3>2, CaptureMoves DEF HistoryOK
    <3>4. HistoryOK'
      BY <3>1, <3>2, <3>3 DEF HistoryOK, Moves
    <3>5. QED
      BY <1>4, <2>1, <3>3, <3>4
  <2>4. CASE Prune
    <3>1. Moves(history, history') /\ captured' = captured
      BY <1>1, <2>4, PruneMoves DEF Prune, HistoryOK
    <3>2. HistoryOK'
      BY <1>1, <3>1 DEF HistoryOK, Moves
    <3>3. QED
      BY <1>4, <2>1, <3>1, <3>2
  <2>5. EngineStop => FALSE
    BY <1>9 DEF EngineStop
  <2>6. EngineStart => history' = history /\ captured' = captured
    BY DEF EngineStart, storeVars
  <2>7. ASSUME NEW e \in Eval PROVE Pause(e) \/ PauseReturns(e) \/ Evaluation(e) => history' = history /\ captured' = captured
    BY DEF Pause, PauseReturns, Evaluation, storeVars
  <2>8. ASSUME NEW k \in DOMAIN tokens PROVE Refill(k) => history' = history /\ captured' = captured
    BY DEF Refill, storeVars
  <2>9. QED
    BY <1>9, <2>2, <2>3, <2>4, <2>5, <2>6, <2>7, <2>8 DEF Environment
<1>10. ASSUME UNCHANGED controlVars PROVE Kept
  <2>1. UNCHANGED <<call, spc, draft, reply, history, captured, audit, effects, scenario, step, exit, file>>
    BY <1>10 DEF controlVars, callVars, storeVars, otherVars, traceVars, clientVars
  <2>2. (\A d \in Client : Same(d)) /\ HistoryOK'
    BY <1>1, <2>1 DEF Same, cmd, HistoryOK
  <2>3. QED
    BY <1>3, <1>4, <2>1, <2>2
<1>11. Kept
  BY <1>5, <1>6, <1>7, <1>8, <1>9, <1>10 DEF ControlNext
<1>12. QED
  BY <1>11 DEF SearchInv, HistoryOK

(***************************************************************************)
(* history get does not miss a transaction that stays: however many are    *)
(* captured at the head and pruned at the tail between two of its pages,   *)
(* for any page size and any history at the start, it exits with not found *)
(* only when the transaction is gone.                                      *)
(***************************************************************************)
THEOREM SearchAlwaysFinds == ControlSpec => []SearchFindsStayer
<1>1. ControlInit => SearchInv
  <2> SUFFICES ASSUME ControlInit PROVE SearchInv
    OBVIOUS
  <2>1. history = [i \in 1..FirstHistory |-> FirstHistory + 1 - i] /\ captured = FirstHistory
    BY DEF ControlInit, ServerInit
  <2>2. history \in Seq(Nat)
    <3>1. \A i \in 1..FirstHistory : FirstHistory + 1 - i \in Nat
      BY StartAssumption
    <3>2. history \in [1..FirstHistory -> Nat]
      BY <2>1, <3>1
    <3>3. QED
      BY <3>2, StartAssumption, SeqDef
  <2>3. ASSUME NEW c \in Client PROVE SearchOK(c)
    <3>1. step[c] = 0 /\ exit[c] = None
      BY DEF ControlInit
    <3>2. None # 3
      BY StartAssumption
    <3>3. QED
      BY <3>1, <3>2 DEF SearchOK
  <2>4. QED
    BY <2>1, <2>2, <2>3, StartAssumption DEF SearchInv
<1>2. SearchInv => SearchFindsStayer
  BY DEF SearchInv, Searches, SearchOK, SearchFindsStayer
<1>3. QED
  BY <1>1, <1>2, ControlStart, ControlStep, SearchStep, PTL DEF ControlSpec

-----------------------------------------------------------------------------
(* The control plane: types *)

(* Where a call is, how a command has ended, and its file. *)
Places == [Client -> InFlight \cup {"none", "answered"}]
Codes == [Client -> 0..7 \cup {None}]
Files == [Client -> {"old", "empty", "partial", "new"}]

(* The buckets, and the limit of the scenario, which no step changes. *)
TokensOK ==
    /\ DOMAIN scenario = {"commands", "evals", "faults", "captures", "prunes", "rate", "auditing"} /\ scenario.rate \in Nat
    /\ tokens \in [{"unary", "stream"} -> 0..scenario.rate]

(* The entries of the requests. *)
HeldOK == held \in [Eval -> {"none", "held", "resumed", "gone"}]

(* The parts of ControlTypeOK that are not about the rules. *)
TypeInv == spc \in Places /\ exit \in Codes /\ file \in Files /\ TokensOK /\ HeldOK

(* Whatever is answered, the exit code is one of the contract's. *)
LEMMA ExitCodeType == \A code : exitCodeForError(code) \in 0..7
BY DEF exitCodeForError

(* A call moves from stage to stage; only the rate limiter takes a token. *)
LEMMA ServeTypes ==
    ASSUME NEW c \in Client, spc \in Places, RateLimit(c) \/ validateToken(c) \/ mcpHandle(c) \/ Handler(c)
    PROVE  spc' \in Places /\ held' = held /\ (tokens' = tokens \/ RateLimit(c))
<1> USE DEF Places, InFlight, Goto, Refuse, Answer, Unread
<1>1. CASE RateLimit(c) \/ validateToken(c)
  BY <1>1 DEF RateLimit, validateToken
<1>2. CASE mcpHandle(c)
  <2>1. held' = held /\ tokens' = tokens
    BY <1>2 DEF mcpHandle
  <2>2. \/ Refuse(c, mcpRefusal(c)) \/ Goto(c, "handler") \/ Refuse(c, "InvalidArgument") \/ Refuse(c, "NotFound")
        \/ Answer(c, "OK", AllowedTools)
    BY <1>2, Zenon DEF mcpHandle
  <2>3. QED
    BY <2>1, <2>2
<1>3. CASE Describe(c) \/ ListBreakpoints(c) \/ ListTable(c) \/ GetHistory(c) \/ ExportHAR(c) \/ ReloadConfig(c) \/ OpenStream(c)
  BY <1>3 DEF Describe, ListBreakpoints, ListTable, GetHistory, ExportHAR, ReloadConfig, OpenStream
<1>4. CASE SetBreakpoint(c) \/ DeleteBreakpoint(c) \/ SaveBreakpoint(c)
  BY <1>4 DEF SetBreakpoint, DeleteBreakpoint, SaveBreakpoint
<1>5. CASE AddRewriteRule(c) \/ UpdateRewriteRule(c) \/ DeleteRewriteRule(c) \/ ToggleRewriteRule(c)
  BY <1>5 DEF AddRewriteRule, UpdateRewriteRule, DeleteRewriteRule, ToggleRewriteRule, Unnamed, SaveRow, RemoveRow, Statement
<1>6. CASE SaveRequestTemplate(c) \/ DeleteRequestTemplate(c)
  BY <1>6 DEF SaveRequestTemplate, DeleteRequestTemplate, Unnamed, SaveRow, RemoveRow, Statement
<1>7. CASE ClearHistory(c) \/ Build(c) \/ DoRequest(c) \/ auditLog(c)
  BY <1>7 DEF ClearHistory, Build, DoRequest, auditLog
<1>8. QED
  BY <1>1, <1>2, <1>3, <1>4, <1>5, <1>6, <1>7 DEF Handler

(* A bucket holds at most what a second refills. *)
LEMMA TokenStep ==
    ASSUME TokensOK, scenario' = scenario, NEW c \in Client, RateLimit(c)
    PROVE  TokensOK'
<1> DEFINE k == IF call[c].rpc \in Streams THEN "stream" ELSE "unary"
<1>1. k \in {"unary", "stream"}
  OBVIOUS
<1>2. tokens' = tokens \/ (tokens[k] > 0 /\ tokens' = [tokens EXCEPT ![k] = @ - 1])
  BY DEF RateLimit
<1> HIDE DEF k
<1>3. QED
  BY <1>1, <1>2 DEF TokensOK

(* What a step of a command does to its place, its exit code and its file. *)
CommandTypes == spc' \in Places /\ exit' \in Codes /\ file' \in Files

(* A call, an exit and a file that is written keep their types. *)
LEMMA ClientTypes ==
    ASSUME NEW c \in Client, spc \in Places, exit \in Codes, file \in Files
    PROVE  /\ \A k : Send(c, k) => spc' \in Places /\ exit' \in Codes
           /\ \A code \in 0..7 : Exit(c, code) => spc' \in Places /\ exit' \in Codes
           /\ \A k : OneCall(c, k) => CommandTypes
           /\ \A code \in 0..7 : Local(c, code) => CommandTypes
           /\ \A onError \in 0..7 : WriteFile(c, onError) => CommandTypes
           /\ Fail(c) => spc' \in Places /\ exit' \in Codes
           /\ UNCHANGED file => file' \in Files
<1>1. ASSUME NEW k, Send(c, k) PROVE spc' \in Places /\ exit' \in Codes
  BY <1>1 DEF Send, Answer, Places, InFlight
<1>2. ASSUME NEW code \in 0..7, Exit(c, code) PROVE spc' \in Places /\ exit' \in Codes
  BY <1>2 DEF Exit, Places, Codes
<1>3. ASSUME NEW k, OneCall(c, k) PROVE CommandTypes
  BY <1>1, <1>2, <1>3, ExitCodeType DEF OneCall, CommandTypes
<1>4. ASSUME NEW code \in 0..7, Local(c, code) PROVE CommandTypes
  BY <1>2, <1>4 DEF Local, CommandTypes
<1>5. ASSUME NEW onError \in 0..7, WriteFile(c, onError) PROVE CommandTypes
  <2>1. /\ Exit(c, 0) \/ Exit(c, 2) \/ Exit(c, onError)
        /\ file' = file \/ file' = [file EXCEPT ![c] = "partial"] \/ file' = [file EXCEPT ![c] = "new"]
    BY <1>5 DEF WriteFile
  <2>2. file' \in Files
    BY <2>1 DEF Files
  <2>3. QED
    BY <1>2, <2>1, <2>2 DEF CommandTypes
<1>6. ASSUME Fail(c) PROVE spc' \in Places /\ exit' \in Codes
  BY <1>2, <1>6, ExitCodeType DEF Fail
<1>7. QED
  BY <1>1, <1>2, <1>3, <1>4, <1>5, <1>6

(* Every command keeps them. *)
LEMMA CommandKeepsTypes ==
    ASSUME NEW c \in Client, spc \in Places, exit \in Codes, file \in Files, Command(c)
    PROVE  CommandTypes
<1>1. CASE cmdStatus(c) \/ cmdVersion(c) \/ cmdPlugins(c) \/ cmdHistoryList(c) \/ cmdHistoryClear(c) \/ cmdFilter(c)
           \/ cmdBreakpoints(c) \/ cmdBreakpointAdd(c) \/ OtherClient(c)
  BY <1>1, ClientTypes, Zenon DEF cmdStatus, cmdVersion, cmdPlugins, cmdHistoryList, cmdHistoryClear, cmdFilter,
     cmdBreakpoints, cmdBreakpointAdd, OtherClient
<1>2. CASE cmdPausedForward(c) \/ cmdPausedDrop(c) \/ cmdPausedRespond(c) \/ cmdSend(c) \/ cmdReplay(c) \/ cmdTemplates(c)
  BY <1>2, ClientTypes, Zenon DEF cmdPausedForward, cmdPausedDrop, cmdPausedRespond, Resume, cmdSend, cmdReplay, BodyCall, cmdTemplates
<1>3. ASSUME file' = file, (\E k : Send(c, k)) \/ (\E code \in 0..7 : Exit(c, code)) PROVE CommandTypes
  BY <1>3, ClientTypes DEF CommandTypes
<1>4. ASSUME Fail(c) PROVE \E code \in 0..7 : Exit(c, code)
  BY <1>4, ExitCodeType DEF Fail
<1>5. ASSUME cmdHistoryGet(c) PROVE CommandTypes
  <2>1. file' = file
    BY <1>5 DEF cmdHistoryGet
  <2>2. (\E k : Send(c, k)) \/ Fail(c) \/ Exit(c, exitCodeForError("NotFound")) \/ Exit(c, 0)
    BY <1>5, Zenon DEF cmdHistoryGet
  <2>3. QED
    BY <1>3, <1>4, <2>1, <2>2, ExitCodeType
<1>6. ASSUME cmdWatch(c) \/ cmdPausedWatch(c) PROVE CommandTypes
  <2>1. file' = file /\ ((\E k : Send(c, k)) \/ Fail(c) \/ Exit(c, 0))
    BY <1>6, Zenon DEF cmdWatch, cmdPausedWatch, Watch
  <2>2. QED
    BY <1>3, <1>4, <2>1
<1>7. ASSUME cmdExport(c) PROVE CommandTypes
  <2>1. \/ file' = file /\ Exit(c, 2)
        \/ WriteFile(c, 0) \/ WriteFile(c, 2)
        \/ /\ (\E k : Send(c, k)) \/ Fail(c)
           /\ \E x \in {"empty", "partial", file[c]} : file' = [file EXCEPT ![c] = x]
    BY <1>7 DEF cmdExport
  <2>2. \A x \in {"empty", "partial", file[c]} : [file EXCEPT ![c] = x] \in Files
    BY DEF Files
  <2>3. file' = file /\ Exit(c, 2) => CommandTypes
    BY <1>3
  <2>4. (\E k : Send(c, k)) \/ Fail(c) => spc' \in Places /\ exit' \in Codes
    BY ClientTypes
  <2>5. WriteFile(c, 0) \/ WriteFile(c, 2) => CommandTypes
    <3>1. 0 \in 0..7 /\ 2 \in 0..7
      OBVIOUS
    <3>2. QED
      BY <3>1, ClientTypes, Zenon
  <2>6. QED
    BY <2>1, <2>2, <2>3, <2>4, <2>5, Zenon DEF CommandTypes
<1>8. ASSUME cmdLearn(c) \/ cmdDoctorBundle(c) PROVE CommandTypes
  <2>1. WriteFile(c, 2) \/ (file' = file /\ ((\E k : Send(c, k)) \/ Fail(c)))
    BY <1>8, Zenon DEF cmdLearn, cmdDoctorBundle
  <2>2. QED
    BY <1>3, <1>4, <2>1, ClientTypes
<1>9. ASSUME cmdContract(c) \/ cmdCert(c) \/ runConfigCheck(c) \/ cmdConfig(c) \/ cmdCompletion(c) \/ BadArguments(c)
      PROVE  CommandTypes
  <2>1. WriteFile(c, 2) \/ (\E k : OneCall(c, k)) \/ Local(c, 0) \/ Local(c, 1) \/ Local(c, 2)
    BY <1>9, Zenon DEF cmdContract, cmdCert, runConfigCheck, cmdConfig, cmdCompletion, BadArguments
  <2>2. QED
    BY <2>1, ClientTypes
<1>10. ASSUME cmdBreakpointToggle(c) PROVE CommandTypes
  <2>1. file' = file
    BY <1>10 DEF cmdBreakpointToggle
  <2>2. (\E k : Send(c, k)) \/ Fail(c) \/ (\E code : Exit(c, exitCodeForError(code)))
    BY <1>10, Zenon DEF cmdBreakpointToggle
  <2>3. QED
    BY <1>3, <1>4, <2>1, <2>2, ExitCodeType
<1>11. ASSUME cmdTemplatesExecute(c) PROVE CommandTypes
  <2>1. file' = file
    BY <1>11 DEF cmdTemplatesExecute
  <2>2. (\E k : Send(c, k)) \/ Fail(c) \/ (\E code : Exit(c, exitCodeForError(code)))
    BY <1>11, Zenon DEF cmdTemplatesExecute
  <2>3. QED
    BY <1>3, <1>4, <2>1, <2>2, ExitCodeType
<1>12. ASSUME cmdSetup(c) \/ cmdDoctor(c) PROVE CommandTypes
  <2>1. file' = file
    BY <1>12 DEF cmdSetup, cmdDoctor
  <2>2. (\E k : Send(c, k)) \/ (\E code : Exit(c, exitCodeForError(code))) \/ Exit(c, 0) \/ Exit(c, 2)
    BY <1>12, Zenon DEF cmdSetup, cmdDoctor
  <2>3. QED
    BY <1>3, <2>1, <2>2, ExitCodeType
<1>13. QED
  BY <1>1, <1>2, <1>5, <1>6, <1>7, <1>8, <1>9, <1>10, <1>11, <1>12 DEF Command

(* The proxy at work, and the end of the process and its next start with full buckets. *)
LEMMA EnvironmentTypes ==
    ASSUME spc \in Places, TokensOK, HeldOK, Environment \/ ProcessEnds
    PROVE  spc' \in Places /\ TokensOK' /\ HeldOK'
<1>1. CASE ProcessEnds
  BY <1>1 DEF ProcessEnds, Places, TokensOK, HeldOK
<1>2. CASE Capture
  BY <1>2 DEF Capture, TokensOK, HeldOK
<1>3. CASE Prune
  BY <1>3 DEF Prune, callVars, TokensOK, HeldOK
<1>4. CASE EngineStart
  BY <1>4 DEF EngineStart, callVars, TokensOK, HeldOK
<1>5. ASSUME NEW e \in Eval, Pause(e) \/ PauseReturns(e) \/ Evaluation(e) PROVE spc' \in Places /\ TokensOK' /\ HeldOK'
  BY <1>5 DEF Pause, PauseReturns, Evaluation, callVars, otherVars, TokensOK, HeldOK
<1>6. ASSUME NEW k \in DOMAIN tokens, Refill(k) PROVE spc' \in Places /\ TokensOK' /\ HeldOK'
  BY <1>6 DEF Refill, callVars, TokensOK, HeldOK
<1>7. QED
  BY <1>1, <1>2, <1>3, <1>4, <1>5, <1>6 DEF Environment, EngineStop

(* Every step keeps the types. *)
LEMMA TypeInvStep == TypeInv /\ [ControlNext]_controlVars => TypeInv'
<1> SUFFICES ASSUME TypeInv, [ControlNext]_controlVars PROVE TypeInv'
  OBVIOUS
<1>1. spc \in Places /\ exit \in Codes /\ file \in Files /\ TokensOK /\ HeldOK
  BY DEF TypeInv
<1>2. ASSUME UNCHANGED <<scenario, tokens>> PROVE TokensOK'
  BY <1>1, <1>2 DEF TokensOK
<1>3. ASSUME UNCHANGED held PROVE HeldOK'
  BY <1>1, <1>3 DEF HeldOK
<1>4. ASSUME NEW c \in Client, Command(c) \/ InputEnds(c) PROVE TypeInv'
  <2>1. UNCHANGED <<scenario, tokens, held>>
    BY <1>4 DEF Command, InputEnds, serverSide, otherVars
  <2>2. InputEnds(c) => file' = file /\ (Send(c, BodyCall(c)) \/ Exit(c, exitCodeForError("error")))
    BY DEF InputEnds
  <2>3. CommandTypes
    BY <1>1, <1>4, <2>2, CommandKeepsTypes, ClientTypes, ExitCodeType DEF CommandTypes
  <2>4. QED
    BY <1>1, <1>2, <1>3, <2>1, <2>3 DEF CommandTypes, TypeInv
<1>5. ASSUME NEW c \in Client, GiveUp(c) PROVE TypeInv'
  <2>1. UNCHANGED <<scenario, tokens, held, spc, exit, file>>
    BY <1>5 DEF GiveUp, callVars, otherVars
  <2>2. QED
    BY <1>1, <1>2, <1>3, <2>1 DEF TypeInv
<1>6. ASSUME Environment \/ ProcessEnds, UNCHANGED clientVars PROVE TypeInv'
  <2>1. exit' = exit /\ file' = file
    BY <1>6 DEF clientVars
  <2>2. QED
    BY <1>1, <1>6, <2>1, EnvironmentTypes DEF TypeInv
<1>7. ASSUME NEW c \in Client, Serve(c), UNCHANGED clientVars PROVE TypeInv'
  <2>1. exit' = exit /\ file' = file
    BY <1>7 DEF clientVars
  <2>2. CASE ResumeRequest(c)
    <3>1. ASSUME ~ProcessEnds PROVE spc' \in Places /\ UNCHANGED <<scenario, tokens>> /\ HeldOK'
      BY <1>1, <2>2, <3>1 DEF ResumeRequest, Unread, Goto, Refuse, Answer, HeldOK, Places, InFlight
    <3>2. QED
      BY <1>1, <1>2, <1>6, <1>7, <2>1, <3>1 DEF TypeInv
  <2>3. CASE (RateLimit(c) \/ validateToken(c) \/ mcpHandle(c) \/ Handler(c)) /\ UNCHANGED <<scenario, running, evalVars>>
    BY <1>1, <1>2, <1>3, <2>1, <2>3, ServeTypes, TokenStep DEF TypeInv
  <2>4. QED
    BY <1>7, <2>2, <2>3 DEF Serve
<1>8. CASE UNCHANGED controlVars
  <2>1. UNCHANGED <<scenario, tokens, held, spc, exit, file>>
    BY <1>8 DEF controlVars, callVars, otherVars, clientVars
  <2>2. QED
    BY <1>1, <1>2, <1>3, <2>1 DEF TypeInv
<1>9. QED
  BY <1>4, <1>5, <1>6, <1>7, <1>8 DEF ControlNext

(***************************************************************************)
(* Type correctness of the control plane: besides the places of the calls, *)
(* every exit code is one of the eight of the contract, and the buckets of *)
(* the rate limiter never hold more than grpc_rate_limit_per_sec and are   *)
(* never overdrawn, across restarts and refills.                           *)
(***************************************************************************)
THEOREM ControlTypeCorrect == ControlSpec => []ControlTypeOK
<1>1. ControlInit => TypeInv
  <2> SUFFICES ASSUME ControlInit PROVE TypeInv
    OBVIOUS
  <2>1. scenario \in Scenario /\ tokens = [k \in {"unary", "stream"} |-> scenario.rate]
    BY DEF ControlInit, ServerInit
  <2>2. TokensOK
    BY <2>1, ScenarioAssumption DEF TokensOK
  <2>3. spc \in Places /\ exit \in Codes /\ file \in Files /\ HeldOK
    BY DEF ControlInit, ServerInit, Places, Codes, Files, HeldOK
  <2>4. QED
    BY <2>2, <2>3 DEF TypeInv
<1>2. TypeInv /\ RulesTypeOK => ControlTypeOK
  BY DEF TypeInv, Places, Codes, Files, TokensOK, HeldOK, ControlTypeOK
<1>3. QED
  BY <1>1, <1>2, TypeInvStep, ServedMatchesTrue, PTL DEF ControlSpec
=============================================================================
