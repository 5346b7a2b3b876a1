-------------------------- MODULE BreakpointManager --------------------------
(***************************************************************************)
(* Holding requests at a breakpoint: Pause, Resume, Subscribe and          *)
(* Unsubscribe of internal/breakpoints/manager.go, run by concurrent       *)
(* goroutines.  A step is what happens between two points where another    *)
(* goroutine can interfere: one critical section of m.mu, one channel      *)
(* operation, or the unlocked writes Resume makes to the entry it found.   *)
(*                                                                         *)
(* Every call of Pause makes its own PausedEntry, so an entry stands for   *)
(* the call and for the goroutine inside it.  A decision is named by the   *)
(* Resume call that supplies it: what it says (forward, drop, respond) is  *)
(* of no interest to the manager.                                          *)
(***************************************************************************)
EXTENDS Naturals, Sequences, FiniteSets

CONSTANTS
    Entry,      \* the calls of Pause, each with the PausedEntry it holds
    Id,         \* request identifiers
    RequestID,  \* RequestID[e]: entry.RequestID
    After,      \* After[e]: the calls of Pause the same goroutine made before e
    Resumer,    \* the calls of Resume, each with its decision
    Target,     \* Target[r]: the requestID argument of r
    Sub,        \* the WatchPausedRequests streams, one channel each
    Leavers,    \* the streams that may end while the system runs
    ChanCap,    \* capacity of a subscriber channel (16 in the code)
    Deadline,   \* the calls of Pause whose context carries a timeout
    Nil         \* nil

ASSUME EntryAssumption == /\ RequestID \in [Entry -> Id]
                          /\ After \in [Entry -> SUBSET Entry]
ASSUME CallAssumption == Target \in [Resumer -> Id]
ASSUME SubAssumption == Leavers \subseteq Sub /\ ChanCap \in Nat
ASSUME DeadlineAssumption == Deadline \subseteq Entry
ASSUME NilAssumption == Nil \notin Entry /\ Nil \notin Resumer

VARIABLES
    pausedReqs,  \* request_id -> entry, Nil where the map has no key
    subscribers, \* the registered channels
    chan,        \* chan[s]: the buffer of channel s
    closedCh,    \* the closed channels
    seen,        \* seen[s]: what stream s has received
    pc,          \* pc[e]: where the call of Pause is
    toSend,      \* toSend[e]: the part of the snapshot still to be notified
    done,        \* the entries whose done channel is closed
    ended,       \* the calls of Pause whose context is done
    decision,    \* entry.decision
    ret,         \* ret[e]: the decision Pause returned
    rpc,         \* rpc[r]: where the call of Resume is
    found        \* found[r]: the entry the call of Resume looked up

watchVars == <<subscribers, chan, closedCh, seen>>
pauseVars == <<pc, toSend, ended, ret>>
resumeVars == <<done, decision, rpc, found>>
vars == <<pausedReqs, watchVars, pauseVars, resumeVars>>

PauseState == {"new", "held", "gotDone", "gotCtx", "decided", "expired", "panicked"}
ResumeState == {"idle", "found", "written", "ok", "notFound", "panicked"}

(* The call of Pause is inside the function. *)
Live(e) == pc[e] \in {"held", "gotDone", "gotCtx"}
(* The call of Pause has returned to the engine. *)
Returned(e) == pc[e] \in {"decided", "expired"}

(***************************************************************************)
(* Another request was held under the same ID.  The TLS proxy makes a      *)
(* fresh UUID per request; the HTTP proxy takes the ID from a client's     *)
(* X-Request-ID header when there is one, and nothing makes it unique.     *)
(***************************************************************************)
IdReused(e) ==
    \E f \in Entry \ (After[e] \cup {e}) : RequestID[f] = RequestID[e] /\ pc[f] # "new"

(***************************************************************************)
(* No gRPC handler recovers a panic, so a panic in Resume ends the         *)
(* process.  A panic in Pause ends the request: the HTTP server that runs  *)
(* the proxy's handler recovers it and closes the connection or stream.    *)
(***************************************************************************)
Crashed == \E r \in Resumer : rpc[r] = "panicked"

NewManager ==
    /\ pausedReqs = [i \in Id |-> Nil]
    /\ subscribers = {}
    /\ chan = [s \in Sub |-> <<>>]
    /\ closedCh = {}
    /\ seen = [s \in Sub |-> {}]

Init ==
    /\ NewManager
    /\ pc = [e \in Entry |-> "new"]
    /\ toSend = [e \in Entry |-> {}]
    /\ done = {}
    /\ ended = {}
    /\ decision = [e \in Entry |-> Nil]
    /\ ret = [e \in Entry |-> Nil]
    /\ rpc = [r \in Resumer |-> "idle"]
    /\ found = [r \in Resumer |-> Nil]

-----------------------------------------------------------------------------
(* Pause *)

(* Register the entry and take the snapshot of the subscribers under m.mu. *)
PauseRegister(e) ==
    /\ pc[e] = "new"
    /\ \A f \in After[e] : Returned(f)
    /\ pausedReqs' = [pausedReqs EXCEPT ![RequestID[e]] = e]
    /\ toSend' = [toSend EXCEPT ![e] = subscribers]
    /\ pc' = [pc EXCEPT ![e] = "held"]
    /\ UNCHANGED <<watchVars, ended, ret, resumeVars>>

(* Mutant: the loop does not move on after a send. *)
PauseBroadcastStuck(e, s) ==
    /\ pc[e] = "held"
    /\ s \in toSend[e]
    /\ s \notin closedCh
    /\ Len(chan[s]) < ChanCap
    /\ chan' = [chan EXCEPT ![s] = Append(@, e)]
    /\ UNCHANGED <<pc, toSend, pausedReqs, subscribers, closedCh, seen, ended, ret, resumeVars>>

(* Mutant: the send waits for room in the channel. *)
PauseBroadcastWaits(e, s) ==
    /\ pc[e] = "held"
    /\ s \in toSend[e]
    /\ IF s \in closedCh
       THEN /\ pc' = [pc EXCEPT ![e] = "panicked"]
            /\ toSend' = [toSend EXCEPT ![e] = {}]
            /\ UNCHANGED chan
       ELSE /\ Len(chan[s]) < ChanCap
            /\ toSend' = [toSend EXCEPT ![e] = @ \ {s}]
            /\ chan' = [chan EXCEPT ![s] = Append(@, e)]
            /\ UNCHANGED pc
    /\ UNCHANGED <<pausedReqs, subscribers, closedCh, seen, ended, ret, resumeVars>>

(***************************************************************************)
(* One non-blocking send of the snapshot, in any order: queued, dropped    *)
(* when the buffer is full, a panic when the channel has been closed since *)
(* the snapshot.  The panic skips the rest of Pause, the delete included.  *)
(***************************************************************************)
PauseBroadcast(e, s) ==
    /\ pc[e] = "held"
    /\ s \in toSend[e]
    /\ IF s \in closedCh
       THEN /\ pc' = [pc EXCEPT ![e] = "panicked"]
            /\ toSend' = [toSend EXCEPT ![e] = {}]
            /\ UNCHANGED chan
       ELSE /\ toSend' = [toSend EXCEPT ![e] = @ \ {s}]
            /\ chan' = IF Len(chan[s]) < ChanCap
                       THEN [chan EXCEPT ![s] = Append(@, e)]
                       ELSE chan
            /\ UNCHANGED pc
    /\ UNCHANGED <<pausedReqs, subscribers, closedCh, seen, ended, ret, resumeVars>>

(* Mutant: the select without its done case. *)
PauseSelectCtxOnly(e) ==
    /\ pc[e] = "held"
    /\ toSend[e] = {}
    /\ e \in ended
    /\ pc' = [pc EXCEPT ![e] = "gotCtx"]
    /\ UNCHANGED <<pausedReqs, watchVars, toSend, ended, ret, resumeVars>>

(* The select: either ready case may be taken when both are. *)
PauseSelect(e) ==
    /\ pc[e] = "held"
    /\ toSend[e] = {}
    /\ \/ e \in done /\ pc' = [pc EXCEPT ![e] = "gotDone"]
       \/ e \in ended /\ pc' = [pc EXCEPT ![e] = "gotCtx"]
    /\ UNCHANGED <<pausedReqs, watchVars, toSend, ended, ret, resumeVars>>

(* Mutant: no delete when the context ended. *)
PauseReturnKeeps(e) ==
    /\ pc[e] \in {"gotDone", "gotCtx"}
    /\ pausedReqs' = IF pc[e] = "gotDone" THEN [pausedReqs EXCEPT ![RequestID[e]] = Nil]
                                           ELSE pausedReqs
    /\ pc' = [pc EXCEPT ![e] = IF @ = "gotDone" THEN "decided" ELSE "expired"]
    /\ ret' = [ret EXCEPT ![e] = IF pc[e] = "gotDone" THEN decision[e] ELSE @]
    /\ UNCHANGED <<watchVars, toSend, ended, resumeVars>>

(***************************************************************************)
(* delete(m.pausedReqs, entry.RequestID), whatever entry is under the key, *)
(* and the return.  entry.decision is read after the unlock; a write that  *)
(* falls between the two commutes with the delete.                         *)
(***************************************************************************)
PauseReturn(e) ==
    /\ pc[e] \in {"gotDone", "gotCtx"}
    /\ pausedReqs' = [pausedReqs EXCEPT ![RequestID[e]] = Nil]
    /\ \/ /\ pc[e] = "gotDone"
          /\ pc' = [pc EXCEPT ![e] = "decided"]
          /\ ret' = [ret EXCEPT ![e] = decision[e]]
       \/ /\ pc[e] = "gotCtx"
          /\ pc' = [pc EXCEPT ![e] = "expired"]
          /\ UNCHANGED ret
    /\ UNCHANGED <<watchVars, toSend, ended, resumeVars>>

(* The request's context ends: a disconnect, or the pause timeout. *)
ContextEnds(e) ==
    /\ Live(e)
    /\ e \notin ended
    /\ ended' = ended \cup {e}
    /\ UNCHANGED <<pausedReqs, watchVars, pc, toSend, ret, resumeVars>>

-----------------------------------------------------------------------------
(* Resume *)

ResumeLookup(r) ==
    /\ rpc[r] = "idle"
    /\ found' = [found EXCEPT ![r] = pausedReqs[Target[r]]]
    /\ rpc' = [rpc EXCEPT ![r] = IF pausedReqs[Target[r]] = Nil
                                 THEN "notFound" ELSE "found"]
    /\ UNCHANGED <<pausedReqs, watchVars, pauseVars, done, decision>>

(* Mutant: the first decision is kept, a nil one too. *)
ResumeWriteLost(r) ==
    /\ rpc[r] = "found"
    /\ rpc' = [rpc EXCEPT ![r] = "written"]
    /\ UNCHANGED <<pausedReqs, watchVars, pauseVars, done, decision, found>>

(* entry.decision = decision, without m.mu. *)
ResumeWrite(r) ==
    /\ rpc[r] = "found"
    /\ decision' = [decision EXCEPT ![found[r]] = r]
    /\ rpc' = [rpc EXCEPT ![r] = "written"]
    /\ UNCHANGED <<pausedReqs, watchVars, pauseVars, done, found>>

(* close(entry.done) panics when the channel is closed already. *)
ResumeClose(r) ==
    /\ rpc[r] = "written"
    /\ done' = done \cup {found[r]}
    /\ rpc' = [rpc EXCEPT ![r] = IF found[r] \in done THEN "panicked" ELSE "ok"]
    /\ UNCHANGED <<pausedReqs, watchVars, pauseVars, decision, found>>

-----------------------------------------------------------------------------
(* Subscribe, Unsubscribe and the receive loop of WatchPausedRequests *)

Subscribe(s) ==
    /\ s \notin subscribers \cup closedCh
    /\ subscribers' = subscribers \cup {s}
    /\ UNCHANGED <<pausedReqs, chan, closedCh, seen, pauseVars, resumeVars>>

Receive(s) ==
    /\ s \in subscribers
    /\ chan[s] # <<>>
    /\ seen' = [seen EXCEPT ![s] = @ \cup {Head(chan[s])}]
    /\ chan' = [chan EXCEPT ![s] = Tail(@)]
    /\ UNCHANGED <<pausedReqs, subscribers, closedCh, pauseVars, resumeVars>>

Unsubscribe(s) ==
    /\ s \in subscribers \cap Leavers
    /\ subscribers' = subscribers \ {s}
    /\ closedCh' = closedCh \cup {s}
    /\ UNCHANGED <<pausedReqs, chan, seen, pauseVars, resumeVars>>

-----------------------------------------------------------------------------
PauseStep(e) ==
    \/ PauseRegister(e)
    \/ \E s \in Sub : PauseBroadcast(e, s)
    \/ PauseSelect(e)
    \/ PauseReturn(e)
    \/ ContextEnds(e)

ResumeStep(r) == ResumeLookup(r) \/ ResumeWrite(r) \/ ResumeClose(r)

WatchStep(s) == Subscribe(s) \/ Receive(s) \/ Unsubscribe(s)

Next ==
    /\ ~Crashed
    /\ \/ \E e \in Entry : PauseStep(e)
       \/ \E r \in Resumer : ResumeStep(r)
       \/ \E s \in Sub : WatchStep(s)

Spec == Init /\ [][Next]_vars

(***************************************************************************)
(* A runnable goroutine is eventually scheduled, and a timeout that was    *)
(* armed eventually fires.  Nobody is obliged to call Pause or Resume.     *)
(***************************************************************************)
Fairness ==
    /\ \A e \in Entry :
          /\ \A s \in Sub : WF_vars(~Crashed /\ PauseBroadcast(e, s))
          /\ WF_vars(~Crashed /\ PauseSelect(e))
          /\ WF_vars(~Crashed /\ PauseReturn(e))
    /\ \A e \in Deadline : WF_vars(~Crashed /\ ContextEnds(e))
    /\ \A r \in Resumer :
          /\ WF_vars(~Crashed /\ ResumeWrite(r))
          /\ WF_vars(~Crashed /\ ResumeClose(r))

FairSpec == Spec /\ Fairness

-----------------------------------------------------------------------------
(* Properties *)

TypeOK ==
    /\ pausedReqs \in [Id -> Entry \cup {Nil}]
    /\ subscribers \subseteq Sub
    /\ chan \in [Sub -> Seq(Entry)]
    /\ closedCh \subseteq Leavers
    /\ seen \in [Sub -> SUBSET Entry]
    /\ pc \in [Entry -> PauseState]
    /\ toSend \in [Entry -> SUBSET Sub]
    /\ done \subseteq Entry
    /\ ended \subseteq Entry
    /\ decision \in [Entry -> Resumer \cup {Nil}]
    /\ ret \in [Entry -> Resumer \cup {Nil}]
    /\ rpc \in [Resumer -> ResumeState]
    /\ found \in [Resumer -> Entry \cup {Nil}]

(***************************************************************************)
(* Without the reuse of its ID by another request, neither the overwrite   *)
(* nor the delete by ID in other calls of Pause takes the entry of a held  *)
(* request away: the request phase's delete never meets the response's.    *)
(***************************************************************************)
HeldIsRegistered ==
    \A e \in Entry : Live(e) => pausedReqs[RequestID[e]] = e \/ IdReused(e)

(***************************************************************************)
(* Whatever the IDs, the map keeps nothing of a call of Pause that         *)
(* returned, so paused requests do not pile up and cannot be resumed       *)
(* later.  A call that panicked on a subscriber that left never deletes    *)
(* its entry: that one stays, and Resume still finds it.                   *)
(***************************************************************************)
NoStaleEntry ==
    \A i \in Id : pausedReqs[i] # Nil =>
        Live(pausedReqs[i]) \/ pc[pausedReqs[i]] = "panicked"

(***************************************************************************)
(* What is in the map of paused requests, whatever IDs clients choose: the *)
(* requests that are held and were not replaced under their ID, and the    *)
(* ones whose call of Pause panicked.                                      *)
(***************************************************************************)
RegistryIsHeld == HeldIsRegistered /\ NoStaleEntry

(***************************************************************************)
(* At most one Resume call per paused request reports success, however     *)
(* calls, timeouts and the delete in Pause interleave.                     *)
(***************************************************************************)
OneAcknowledgement ==
    \A q, r \in Resumer :
        (rpc[q] = "ok" /\ rpc[r] = "ok" /\ found[q] = found[r]) => q = r

(***************************************************************************)
(* The decision Pause returns was made for it: it comes from a Resume call *)
(* for that request ID which looked up that entry.  A late Resume of the   *)
(* request phase never decides the response phase.                         *)
(***************************************************************************)
DecisionMeantForIt ==
    \A e \in Entry : pc[e] = "decided" =>
        /\ ret[e] \in Resumer
        /\ found[ret[e]] = e
        /\ Target[ret[e]] = RequestID[e]

(***************************************************************************)
(* When Resume reports success its decision is what Pause returns, except  *)
(* in three races: the request's context ended, another Resume had found   *)
(* the same entry, or Pause panicked on a subscriber that left.            *)
(***************************************************************************)
AcknowledgedIsApplied ==
    \A r \in Resumer : (rpc[r] = "ok" /\ ~Live(found[r])) =>
        \/ ret[found[r]] = r
        \/ found[r] \in ended
        \/ \E q \in Resumer \ {r} : found[q] = found[r]
        \/ pc[found[r]] = "panicked"

(***************************************************************************)
(* What Resume promises its callers, however calls, timeouts, reused IDs   *)
(* and leaving subscribers interleave.                                     *)
(***************************************************************************)
ResumeKeepsItsWord ==
    OneAcknowledgement /\ DecisionMeantForIt /\ AcknowledgedIsApplied

(***************************************************************************)
(* A subscriber is told of a held request at most once: what is in its     *)
(* channel is neither repeated nor already received nor still to be sent.  *)
(***************************************************************************)
ToldOnce ==
    \A s \in Sub :
        /\ \A i, j \in DOMAIN chan[s] : chan[s][i] = chan[s][j] => i = j
        /\ \A i \in DOMAIN chan[s] :
              chan[s][i] \notin seen[s] /\ s \notin toSend[chan[s][i]]

(***************************************************************************)
(* Resume never panics: a second Resume of one request fails with an error *)
(* (tests/stateful/lifecycle_test.go, "Second resume - must fail").        *)
(***************************************************************************)
SecondResumeFails == ~Crashed

(* An acknowledged Resume lets the held request go on. *)
ResumedGoesOn ==
    \A e \in Entry :
        (\E r \in Resumer : rpc[r] = "ok" /\ found[r] = e)
            ~> (~Live(e) \/ Crashed)

(***************************************************************************)
(* With a pause timeout no request is held for ever and its entry leaves   *)
(* the map, whether or not anybody resumes it, unless Pause panicked.      *)
(***************************************************************************)
TimeoutReleases ==
    \A e \in Deadline :
        Live(e) ~> \/ Crashed
                   \/ pc[e] = "panicked"
                   \/ ~Live(e) /\ pausedReqs[RequestID[e]] # e
-----------------------------------------------------------------------------
(* Refinement *)

phaseBar ==
    [e \in Entry |-> IF pc[e] \in {"gotDone", "gotCtx"} THEN "held" ELSE pc[e]]
offersBar == [e \in Entry |-> {r \in Resumer : found[r] = e}]

Contract == INSTANCE PauseContract
                WITH phase <- phaseBar, offers <- offersBar, given <- ret

(***************************************************************************)
(* The manager implements its contract, whatever IDs clients choose: a     *)
(* decision is accepted for one request with that ID, one that is held or  *)
(* whose call of Pause panicked; a call that panicked goes on with none;   *)
(* and Pause returns a decision that was accepted for it.                  *)
(***************************************************************************)
ImplementsContract == Contract!Spec
=============================================================================
