---------------------------- MODULE TrafficHistory ----------------------------
(***************************************************************************)
(* From a finished transaction to the history: Engine.StoreTransaction and *)
(* its capture subscribers (internal/engine), the tables requests,         *)
(* responses and ws_frames (internal/storage), and what else writes to     *)
(* them: WebSocket relays, ImportHAR, ClearHistory and the two pruners.    *)
(*                                                                         *)
(* A row is the call that wrote it.  Every SQL statement runs on some      *)
(* connection of the database/sql pool.  Open executed PRAGMA foreign_keys *)
(* on one of them; the pool opens the others, and replaces that one when   *)
(* it is old or idle, without the pragma, and SQLite then neither checks   *)
(* nor cascades.                                                           *)
(***************************************************************************)
EXTENDS Naturals, Sequences, FiniteSets

CONSTANTS
    Tx,        \* calls of StoreTransaction
    Upgrade,   \* those for a WebSocket upgrade, each with a frame to record
    Imp,       \* entries of imported HAR files
    Id,        \* transaction IDs
    idOf,      \* idOf[w]: the ID w is stored under
    Dates,     \* the dates a HAR file may give its entries, past or to come
    Conn,      \* connections of the pool
    Opener,    \* the connection Open configured
    Recycles,  \* the pool replaces connections (file-backed database)
    Pruner,    \* calls of PruneOldTransactions
    MaxAge,    \* history_max_age_days > 0
    MaxRows,   \* MaxRows[p]: history_max_rows of call p
    Sub,       \* CaptureTraffic streams
    Leavers,   \* the streams that may end
    ChanCap,   \* capacity of a subscriber channel (32 in the code)
    MaxClears, \* bound: ClearHistory calls in a behaviour
    None       \* no row

Writer == Tx \cup Imp

ASSUME WriterAssumption == /\ Upgrade \subseteq Tx /\ Tx \cap Imp = {}
                           /\ idOf \in [Writer -> Id]
                           /\ None \notin Writer
ASSUME FiniteAssumption == IsFiniteSet(Tx) /\ IsFiniteSet(Id)
ASSUME DatesAssumption == Dates \subseteq Nat
ASSUME PoolAssumption == Opener \in Conn /\ Recycles \in BOOLEAN
ASSUME PruneAssumption == MaxRows \in [Pruner -> Nat] /\ MaxAge \in BOOLEAN
ASSUME SubAssumption == Leavers \subseteq Sub /\ ChanCap \in Nat /\ MaxClears \in Nat

(* ParseTransactions gives every imported entry an ID of its own. *)
ImportIdsFresh == \A w \in Imp, v \in Writer : v # w => idOf[v] # idOf[w]

(* Clients choose no X-Request-ID twice. *)
IdsDistinct == \A v, w \in Writer : v # w => idOf[v] # idOf[w]

(* An in-memory database: one connection, for as long as it lives. *)
SingleConnection == Conn = {Opener} /\ ~Recycles

VARIABLES
    request,     \* request[i]: who wrote row i of requests
    response,    \* response[i]: who wrote row i of responses
    frames,      \* the upgrades whose frame is in ws_frames
    fk,          \* the connections that enforce foreign keys
    lax,         \* some statement has written on a connection that does not
    clock,       \* the time, as a count of the transactions recorded
    stamp,       \* stamp[w]: the timestamp of w's request record
    pc,          \* pc[w]: where the call is
    ppc,         \* ppc[p]: where the pruner is
    excess,      \* excess[p]: the rows it has decided to delete
    taken,       \* taken[p]: the rows that others have deleted since it counted
    clears,      \* number of ClearHistory calls
    subscribers, \* the registered channels
    closedCh,    \* the closed channels
    chan,        \* chan[s]: the buffer of channel s
    toSend       \* toSend[t]: the part of the snapshot still to be notified

tables == <<request, response, frames>>
pool == <<fk, lax>>
pruneVars == <<ppc, excess, taken>>
captureVars == <<subscribers, closedCh, chan, toSend>>
vars == <<tables, pool, clock, stamp, pc, pruneVars, clears, captureVars>>

Stage == {"new", "publish", "half", "saved", "failed", "panicked"}
PruneStage == {"new", "count", "delete", "done"}

Init ==
    /\ request = [i \in Id |-> None]
    /\ response = [i \in Id |-> None]
    /\ frames = {}
    /\ fk = {Opener}
    /\ lax = FALSE
    /\ clock = 0
    /\ stamp = [w \in Writer |-> 0]
    /\ pc = [w \in Writer |-> "new"]
    /\ ppc = [p \in Pruner |-> "new"]
    /\ excess = [p \in Pruner |-> 0]
    /\ taken = [p \in Pruner |-> 0]
    /\ clears = 0
    /\ subscribers = {}
    /\ closedCh = {}
    /\ chan = [s \in Sub |-> <<>>]
    /\ toSend = [t \in Tx |-> {}]

Goto(w, stage) == pc' = [pc EXCEPT ![w] = stage]

-----------------------------------------------------------------------------
(* The tables *)

Rows == {i \in Id : request[i] # None}

(* A statement that writes, on connection c. *)
Using(c) == lax' = (lax \/ c \notin fk)

(* Mutant: the tables have no ON DELETE CASCADE. *)
CascadeNothing(c, ids) == UNCHANGED <<response, frames>>

(* What the deletion of the rows ids of requests, on connection c, takes along. *)
Cascade(c, ids) ==
    IF c \in fk
    THEN /\ response' = [i \in Id |-> IF i \in ids THEN None ELSE response[i]]
         /\ frames' = {t \in frames : idOf[t] \notin ids}
    ELSE UNCHANGED <<response, frames>>

(* A DELETE, and its trace in the account of the pruners that have counted. *)
DeleteRows(c, ids) ==
    /\ request' = [i \in Id |-> IF i \in ids THEN None ELSE request[i]]
    /\ Cascade(c, ids)
    /\ taken' = [q \in Pruner |-> IF ppc'[q] = "delete" THEN taken[q] + Cardinality(ids) ELSE 0]

(* Mutant: two auto-committed writes, of which the second may fail. *)
SaveTransactionSplit(t, c) ==
    /\ request' = [request EXCEPT ![idOf[t]] = t]
    /\ response' \in {response, [response EXCEPT ![idOf[t]] = t]}
    /\ UNCHANGED frames

(* INSERT OR REPLACE of both rows in one SQL transaction; a replaced row is deleted first. *)
SaveTransaction(t, c) ==
    /\ request' = [request EXCEPT ![idOf[t]] = t]
    /\ response' = [response EXCEPT ![idOf[t]] = t]
    /\ frames' = IF c \in fk /\ idOf[t] \in Rows
                 THEN {u \in frames : idOf[u] # idOf[t]}
                 ELSE frames

-----------------------------------------------------------------------------
(* StoreTransaction *)

(* Make the records and take the snapshot of the subscribers. *)
Publish(t) ==
    /\ pc[t] = "new"
    /\ clock' = clock + 1
    /\ stamp' = [stamp EXCEPT ![t] = clock + 1]
    /\ toSend' = [toSend EXCEPT ![t] = subscribers]
    /\ Goto(t, "publish")
    /\ UNCHANGED <<tables, pool, pruneVars, clears, subscribers, closedCh, chan>>

(* Mutant: a blocking send. *)
SendBlocking(t, s) ==
    /\ pc[t] = "publish"
    /\ s \in toSend[t]
    /\ Len(chan[s]) < ChanCap
    /\ toSend' = [toSend EXCEPT ![t] = @ \ {s}]
    /\ chan' = [chan EXCEPT ![s] = Append(@, t)]
    /\ UNCHANGED <<tables, pool, clock, stamp, pc, pruneVars, clears, subscribers, closedCh>>

(* One non-blocking send: queued, dropped, or a panic on a closed channel. *)
Send(t, s) ==
    /\ pc[t] = "publish"
    /\ s \in toSend[t]
    /\ \/ /\ s \in closedCh
          /\ Goto(t, "panicked")
          /\ UNCHANGED <<toSend, chan>>
       \/ /\ s \notin closedCh
          /\ toSend' = [toSend EXCEPT ![t] = @ \ {s}]
          /\ chan' = IF Len(chan[s]) < ChanCap
                     THEN [chan EXCEPT ![s] = Append(@, t)] ELSE chan
          /\ UNCHANGED pc
    /\ UNCHANGED <<tables, pool, clock, stamp, pruneVars, clears, subscribers, closedCh>>

(* SaveTransaction commits, or fails and is logged. *)
Persist(t, c) ==
    /\ pc[t] = "publish"
    /\ toSend[t] = {}
    /\ \/ SaveTransaction(t, c) /\ Goto(t, "saved")
       \/ Goto(t, "failed") /\ UNCHANGED tables
    /\ Using(c)
    /\ UNCHANGED <<fk, clock, stamp, pruneVars, clears, captureVars>>

(* The relay records a frame, whether or not the upgrade was stored; an error is logged. *)
StoreWebSocketFrame(t, c) ==
    /\ t \in Upgrade \ frames
    /\ pc[t] \in {"saved", "failed"}
    /\ c \in fk => idOf[t] \in Rows
    /\ frames' = frames \cup {t}
    /\ Using(c)
    /\ UNCHANGED <<request, response, fk, clock, stamp, pc, pruneVars, clears, captureVars>>

-----------------------------------------------------------------------------
(* ImportHAR: two statements per entry *)

(* The entry brings its own timestamp: startedDateTime, which is not checked, or now. *)
SaveRequest(w, c) ==
    /\ pc[w] = "new"
    /\ \/ /\ request' = [request EXCEPT ![idOf[w]] = w]
          /\ Cascade(c, {idOf[w]} \cap Rows)
          /\ \E started \in Dates \cup {clock} : stamp' = [stamp EXCEPT ![w] = started]
          /\ Goto(w, "half")
       \/ Goto(w, "failed") /\ UNCHANGED <<tables, stamp>>
    /\ Using(c)
    /\ UNCHANGED <<fk, clock, pruneVars, clears, captureVars>>

SaveResponse(w, c) ==
    /\ pc[w] = "half"
    /\ \/ /\ c \in fk => idOf[w] \in Rows
          /\ response' = [response EXCEPT ![idOf[w]] = w]
          /\ Goto(w, "saved")
          /\ UNCHANGED <<request, frames>>
       \/ Goto(w, "failed") /\ UNCHANGED tables
    /\ Using(c)
    /\ UNCHANGED <<fk, clock, stamp, pruneVars, clears, captureVars>>

-----------------------------------------------------------------------------
(* ClearHistory and PruneOldTransactions *)

ClearHistory(c) ==
    /\ clears < MaxClears
    /\ clears' = clears + 1
    /\ UNCHANGED <<ppc, excess>>
    /\ DeleteRows(c, Rows)
    /\ Using(c)
    /\ UNCHANGED <<fk, clock, stamp, pc, captureVars>>

PGoto(p, stage) == ppc' = [ppc EXCEPT ![p] = stage]

(* By age: rows up to some moment have become too old. *)
PruneByAge(p, c) ==
    /\ ppc[p] = "new"
    /\ \/ /\ PGoto(p, IF MaxRows[p] > 0 THEN "count" ELSE "done")
          /\ \E cutoff \in 0..clock :
                /\ cutoff > 0 => MaxAge
                /\ DeleteRows(c, {i \in Rows : stamp[request[i]] < cutoff})
       \/ MaxAge /\ PGoto(p, "done") /\ UNCHANGED <<tables, taken>>
    /\ Using(c)
    /\ UNCHANGED <<fk, clock, stamp, pc, excess, clears, captureVars>>

(* Mutant: one row too many. *)
PruneCountOneMore(p, c) ==
    /\ ppc[p] = "count"
    /\ Cardinality(Rows) > MaxRows[p]
    /\ excess' = [excess EXCEPT ![p] = Cardinality(Rows) - MaxRows[p] + 1]
    /\ taken' = [taken EXCEPT ![p] = 0]
    /\ PGoto(p, "delete")
    /\ UNCHANGED <<tables, pool, clock, stamp, pc, clears, captureVars>>

(* SELECT COUNT: the answer may be old when it is used.  It can fail, or find no excess. *)
PruneCount(p, c) ==
    /\ ppc[p] = "count"
    /\ \/ /\ Cardinality(Rows) > MaxRows[p]
          /\ excess' = [excess EXCEPT ![p] = Cardinality(Rows) - MaxRows[p]]
          /\ taken' = [taken EXCEPT ![p] = 0]
          /\ PGoto(p, "delete")
       \/ PGoto(p, "done") /\ UNCHANGED <<excess, taken>>
    /\ UNCHANGED <<tables, pool, clock, stamp, pc, clears, captureVars>>

(* The sets ORDER BY timestamp ASC LIMIT n may return. *)
Oldest(n) ==
    {S \in SUBSET Rows :
        /\ IF Cardinality(Rows) < n THEN S = Rows ELSE Cardinality(S) = n
        /\ \A i \in S, j \in Rows \ S : stamp[request[i]] <= stamp[request[j]]}

PruneDelete(p, c) ==
    /\ ppc[p] = "delete"
    /\ PGoto(p, "done")
    /\ \/ \E S \in Oldest(excess[p]) : DeleteRows(c, S)
       \/ UNCHANGED <<tables, taken>>
    /\ Using(c)
    /\ UNCHANGED <<fk, clock, stamp, pc, excess, clears, captureVars>>

(* ConnMaxLifetime or ConnMaxIdleTime: a connection without the pragma takes its place. *)
Recycle(c) ==
    /\ Recycles
    /\ c \in fk
    /\ fk' = fk \ {c}
    /\ UNCHANGED <<tables, lax, clock, stamp, pc, pruneVars, clears, captureVars>>

-----------------------------------------------------------------------------
(* CaptureTraffic *)

Subscribe(s) ==
    /\ s \notin subscribers \cup closedCh
    /\ subscribers' = subscribers \cup {s}
    /\ UNCHANGED <<tables, pool, clock, stamp, pc, pruneVars, clears, closedCh, chan, toSend>>

Receive(s) ==
    /\ s \in subscribers
    /\ chan[s] # <<>>
    /\ chan' = [chan EXCEPT ![s] = Tail(@)]
    /\ UNCHANGED <<tables, pool, clock, stamp, pc, pruneVars, clears, subscribers, closedCh, toSend>>

Unsubscribe(s) ==
    /\ s \in subscribers \cap Leavers
    /\ subscribers' = subscribers \ {s}
    /\ closedCh' = closedCh \cup {s}
    /\ UNCHANGED <<tables, pool, clock, stamp, pc, pruneVars, clears, chan, toSend>>

-----------------------------------------------------------------------------
StoreStep(t) ==
    \/ Publish(t)
    \/ \E s \in Sub : Send(t, s)
    \/ \E c \in Conn : Persist(t, c)

Next ==
    \/ \E t \in Tx : StoreStep(t) \/ \E c \in Conn : StoreWebSocketFrame(t, c)
    \/ \E w \in Imp, c \in Conn : SaveRequest(w, c) \/ SaveResponse(w, c)
    \/ \E p \in Pruner, c \in Conn : PruneByAge(p, c) \/ PruneCount(p, c) \/ PruneDelete(p, c)
    \/ \E c \in Conn : ClearHistory(c) \/ Recycle(c)
    \/ \E s \in Sub : Subscribe(s) \/ Receive(s) \/ Unsubscribe(s)

Spec == Init /\ [][Next]_vars

(* Goroutines run on and statements return (busy_timeout); no stream has to read. *)
FairSpec == Spec /\ \A t \in Tx : WF_vars(StoreStep(t) /\ pc[t] # "new")

-----------------------------------------------------------------------------
(* Properties *)

TypeOK ==
    /\ request \in [Id -> Writer \cup {None}]
    /\ response \in [Id -> Writer \cup {None}]
    /\ frames \subseteq Upgrade
    /\ fk \subseteq Conn /\ lax \in BOOLEAN
    /\ clock \in 0..Cardinality(Tx)
    /\ stamp \in [Writer -> Nat]
    /\ pc \in [Writer -> Stage]
    /\ ppc \in [Pruner -> PruneStage]
    /\ excess \in [Pruner -> 0..Cardinality(Id)]
    /\ taken \in [Pruner -> Nat]
    /\ clears \in 0..MaxClears
    /\ subscribers \subseteq Sub
    /\ closedCh \subseteq Leavers
    /\ chan \in [Sub -> Seq(Tx)]
    /\ toSend \in [Tx -> SUBSET Sub]

(***************************************************************************)
(* A request is never shown with the response of another one, although     *)
(* IDs are reused, rows are replaced, cleared and pruned, and no foreign   *)
(* key need be enforced.                                                   *)
(***************************************************************************)
PairsMatch ==
    \A i \in Id : (request[i] # None /\ response[i] # None) => request[i] = response[i]

(***************************************************************************)
(* No response row outlives its request ("removes all rows from requests   *)
(* (cascades to responses)", internal/storage/queries.go).                 *)
(***************************************************************************)
NoOrphanResponse == \A i \in Id : response[i] # None => request[i] # None

(***************************************************************************)
(* As long as every statement has run on connections that execute the      *)
(* foreign-key pragma, no response and no WebSocket frame is left without  *)
(* its request, by clears, two-phase prunes, reused IDs, half-finished     *)
(* imports or relays whose upgrade was not stored.                         *)
(***************************************************************************)
EnforcedKeepsWhole ==
    ~lax => /\ NoOrphanResponse
            /\ \A t \in frames : request[idOf[t]] # None

(***************************************************************************)
(* A pruner by count stops at MaxRows, whatever is stored, imported or     *)
(* replaced after it has counted: its delete leaves the history short of   *)
(* the limit by no more than what a ClearHistory and the other pruner took *)
(* since the count, which is not repeated.                                 *)
(***************************************************************************)
PruneStopsAtLimit ==
    [][\A p \in Pruner :
          (ppc[p] = "delete" /\ ppc'[p] = "done") =>
              Rows' = Rows \/ Cardinality(Rows') + taken[p] >= MaxRows[p]]_vars

(* StoreTransaction returns although no subscriber ever reads its channel. *)
StoreReturns == \A t \in Tx : pc[t] = "publish" ~> pc[t] # "publish"
=============================================================================
