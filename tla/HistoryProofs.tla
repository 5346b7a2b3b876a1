---------------------------- MODULE HistoryProofs ----------------------------
(***************************************************************************)
(* Proofs about TrafficHistory: a request is never shown with the response *)
(* of another, with foreign keys enforced nothing is left behind, a pruner *)
(* stops at its limit but for what others delete meanwhile, and the        *)
(* capture streams cost a bounded buffer and, when one leaves, perhaps a   *)
(* panic.                                                                  *)
(***************************************************************************)
EXTENDS TrafficHistory, FiniteSetTheorems, TLAPS

(* The shape of the tables: a row is written under the writer's own ID. *)
Tables ==
    /\ request \in [Id -> Writer \cup {None}]
    /\ response \in [Id -> Writer \cup {None}]
    /\ frames \subseteq Upgrade
    /\ \A i \in Id : request[i] # None => idOf[request[i]] = i
    /\ \A i \in Id : response[i] # None => idOf[response[i]] = i

(* A deletion, with or without its cascade, keeps the shape of the tables. *)
LEMMA DeleteKeeps ==
    ASSUME Tables, NEW c \in Conn, NEW ids \in SUBSET Id, DeleteRows(c, ids)
    PROVE  /\ Tables'
           /\ \A i \in Id : request'[i] \in {request[i], None}
           /\ \A i \in Id : response'[i] \in {response[i], None}
           /\ frames' \subseteq frames
  BY DEF Tables, DeleteRows, Cascade, Rows

(* StoreTransaction's two rows, written in one SQL transaction. *)
LEMMA SaveKeeps ==
    ASSUME Tables, NEW t \in Tx, NEW c \in Conn, SaveTransaction(t, c)
    PROVE  /\ Tables'
           /\ request'[idOf[t]] = t /\ response'[idOf[t]] = t
           /\ \A i \in Id \ {idOf[t]} : request'[i] = request[i] /\ response'[i] = response[i]
           /\ frames' \subseteq frames
  BY WriterAssumption DEF Tables, SaveTransaction, Writer

(***************************************************************************)
(* The steps that write the tables, as a case distinction shared by the    *)
(* invariance proofs below.                                                *)
(***************************************************************************)
TableStep ==
    \/ \E t \in Tx, c \in Conn : SaveTransaction(t, c)
    \/ \E t \in Tx, c \in Conn : StoreWebSocketFrame(t, c)
    \/ \E w \in Imp, c \in Conn : SaveRequest(w, c) /\ tables' # tables
    \/ \E w \in Imp, c \in Conn : SaveResponse(w, c) /\ tables' # tables
    \/ \E c \in Conn, ids \in SUBSET Id : DeleteRows(c, ids)

(* Every step leaves the tables alone or is one of TableStep. *)
LEMMA StepWrites ==
    ASSUME [Next]_vars
    PROVE  tables' = tables \/ TableStep
<1> USE DEF tables, TableStep
<1>1. ASSUME NEW t \in Tx, StoreStep(t) PROVE tables' = tables \/ TableStep
  BY <1>1 DEF StoreStep, Publish, Send, Persist
<1>2. ASSUME NEW p \in Pruner, NEW c \in Conn,
             PruneByAge(p, c) \/ PruneCount(p, c) \/ PruneDelete(p, c)
      PROVE  tables' = tables \/ TableStep
  <2>1. CASE PruneByAge(p, c)
    <3>1. \A cutoff : {i \in Rows : stamp[request[i]] < cutoff} \in SUBSET Id
      BY DEF Rows
    <3> QED BY <2>1, <3>1 DEF PruneByAge
  <2>2. CASE PruneCount(p, c)
    BY <2>2 DEF PruneCount
  <2>3. CASE PruneDelete(p, c)
    <3>1. Oldest(excess[p]) \subseteq SUBSET Id
      BY DEF Oldest, Rows
    <3> QED BY <2>3, <3>1 DEF PruneDelete
  <2> QED BY <1>2, <2>1, <2>2, <2>3
<1>3. ASSUME NEW c \in Conn, ClearHistory(c) PROVE TableStep
  <2>1. Rows \in SUBSET Id
    BY DEF Rows
  <2> QED BY <1>3, <2>1 DEF ClearHistory
<1>4. ASSUME NEW c \in Conn, Recycle(c) PROVE tables' = tables
  BY <1>4 DEF Recycle
<1>5. ASSUME NEW s \in Sub, Subscribe(s) \/ Receive(s) \/ Unsubscribe(s)
      PROVE  tables' = tables
  BY <1>5 DEF Subscribe, Receive, Unsubscribe
<1>6. CASE UNCHANGED vars
  BY <1>6 DEF vars
<1>7. CASE Next
  BY <1>7, <1>1, <1>2, <1>3, <1>4, <1>5 DEF Next
<1> QED BY <1>6, <1>7

(* The shape of the tables and PairsMatch are inductive together. *)
LEMMA PairsStep ==
    ASSUME ImportIdsFresh, Tables, PairsMatch, [Next]_vars
    PROVE  (Tables /\ PairsMatch)'
<1>1. CASE tables' = tables
  BY <1>1 DEF tables, Tables, PairsMatch
<1>2. ASSUME NEW t \in Tx, NEW c \in Conn, SaveTransaction(t, c)
      PROVE  (Tables /\ PairsMatch)'
  BY <1>2, SaveKeeps DEF PairsMatch
<1>3. ASSUME NEW t \in Tx, NEW c \in Conn, StoreWebSocketFrame(t, c)
      PROVE  (Tables /\ PairsMatch)'
  BY <1>3 DEF StoreWebSocketFrame, Tables, PairsMatch
<1>4. ASSUME NEW w \in Imp, NEW c \in Conn, SaveRequest(w, c), tables' # tables
      PROVE  (Tables /\ PairsMatch)'
  <2>1. /\ idOf[w] \in Id /\ w \in Writer /\ w # None
        /\ response[idOf[w]] \in {w, None}
    BY WriterAssumption DEF ImportIdsFresh, Tables, Writer
  <2>2. /\ request' = [request EXCEPT ![idOf[w]] = w]
        /\ Cascade(c, {idOf[w]} \cap Rows)
    BY <1>4 DEF SaveRequest, tables
  <2> QED BY <2>1, <2>2 DEF Tables, PairsMatch, Cascade
<1>5. ASSUME NEW w \in Imp, NEW c \in Conn, SaveResponse(w, c), tables' # tables
      PROVE  (Tables /\ PairsMatch)'
  <2>1. /\ idOf[w] \in Id /\ w \in Writer /\ w # None
        /\ request[idOf[w]] \in {w, None}
    BY WriterAssumption DEF ImportIdsFresh, Tables, Writer
  <2>2. /\ response' = [response EXCEPT ![idOf[w]] = w]
        /\ UNCHANGED <<request, frames>>
    BY <1>5 DEF SaveResponse, tables
  <2> QED BY <2>1, <2>2 DEF Tables, PairsMatch
<1>6. ASSUME NEW c \in Conn, NEW ids \in SUBSET Id, DeleteRows(c, ids)
      PROVE  (Tables /\ PairsMatch)'
  BY <1>6, DeleteKeeps DEF PairsMatch
<1> QED BY <1>1, <1>2, <1>3, <1>4, <1>5, <1>6, StepWrites DEF TableStep

(***************************************************************************)
(* Whatever is stored, imported, cleared, pruned and replaced, on whatever *)
(* connections, with IDs that clients reuse: GetHistory never shows a      *)
(* request with another request's response.                                *)
(***************************************************************************)
THEOREM PairsAlwaysMatch == ASSUME ImportIdsFresh PROVE Spec => []PairsMatch
<1>1. Init => Tables /\ PairsMatch
  BY WriterAssumption DEF Init, Tables, PairsMatch
<1>2. Tables /\ PairsMatch /\ [Next]_vars => (Tables /\ PairsMatch)'
  BY PairsStep
<1> QED BY <1>1, <1>2, PTL DEF Spec

-----------------------------------------------------------------------------
(* A step that writes the tables marks the pool as lax, unless its          *)
(* connection enforces the foreign keys.                                    *)
StrictStep ==
    \/ \E t \in Tx, c \in fk : SaveTransaction(t, c)
    \/ \E t \in Tx, c \in fk : StoreWebSocketFrame(t, c)
    \/ \E w \in Imp, c \in fk : SaveRequest(w, c) /\ tables' # tables
    \/ \E w \in Imp, c \in fk : SaveResponse(w, c) /\ tables' # tables
    \/ \E c \in fk, ids \in SUBSET Id : DeleteRows(c, ids)

(* While the pool is not lax, every step that writes is a StrictStep, and lax is never reset. *)
LEMMA StrictWrites ==
    ASSUME [Next]_vars, ~lax', lax \in BOOLEAN
    PROVE  ~lax /\ (tables' = tables \/ StrictStep)
<1> USE DEF tables, StrictStep, Using, pool
<1>1. ASSUME NEW t \in Tx, StoreStep(t) PROVE ~lax /\ (tables' = tables \/ StrictStep)
  BY <1>1 DEF StoreStep, Publish, Send, Persist
<1>2. ASSUME NEW p \in Pruner, NEW c \in Conn,
             PruneByAge(p, c) \/ PruneCount(p, c) \/ PruneDelete(p, c)
      PROVE  ~lax /\ (tables' = tables \/ StrictStep)
  <2>1. CASE PruneByAge(p, c)
    <3>1. \A cutoff : {i \in Rows : stamp[request[i]] < cutoff} \in SUBSET Id
      BY DEF Rows
    <3> QED BY <2>1, <3>1 DEF PruneByAge
  <2>2. CASE PruneCount(p, c)
    BY <2>2 DEF PruneCount
  <2>3. CASE PruneDelete(p, c)
    <3>1. Oldest(excess[p]) \subseteq SUBSET Id
      BY DEF Oldest, Rows
    <3> QED BY <2>3, <3>1 DEF PruneDelete
  <2> QED BY <1>2, <2>1, <2>2, <2>3
<1>3. ASSUME NEW c \in Conn, ClearHistory(c) PROVE ~lax /\ StrictStep
  <2>1. Rows \in SUBSET Id
    BY DEF Rows
  <2> QED BY <1>3, <2>1 DEF ClearHistory
<1>4. ASSUME NEW c \in Conn, Recycle(c) PROVE ~lax /\ tables' = tables
  BY <1>4 DEF Recycle
<1>5. ASSUME NEW s \in Sub, Subscribe(s) \/ Receive(s) \/ Unsubscribe(s)
      PROVE  ~lax /\ tables' = tables
  BY <1>5 DEF Subscribe, Receive, Unsubscribe
<1>6. ASSUME NEW t \in Tx, NEW c \in Conn, StoreWebSocketFrame(t, c)
      PROVE  ~lax /\ StrictStep
  BY <1>6 DEF StoreWebSocketFrame
<1>7. ASSUME NEW w \in Imp, NEW c \in Conn, SaveRequest(w, c) \/ SaveResponse(w, c)
      PROVE  ~lax /\ (tables' = tables \/ StrictStep)
  <2>1. ~lax /\ c \in fk
    BY <1>7 DEF SaveRequest, SaveResponse
  <2> QED BY <1>7, <2>1
<1>8. CASE UNCHANGED vars
  BY <1>8 DEF vars
<1>9. CASE Next
  BY <1>9, <1>1, <1>2, <1>3, <1>4, <1>5, <1>6, <1>7 DEF Next
<1> QED BY <1>8, <1>9

(* The frames of the tables have their request. *)
FramesAttached == \A t \in frames : request[idOf[t]] # None

(* A statement on an enforcing connection leaves nothing without its request. *)
LEMMA StrictKeeps ==
    ASSUME Tables, NoOrphanResponse, FramesAttached, StrictStep, fk \subseteq Conn
    PROVE  NoOrphanResponse' /\ FramesAttached'
<1> USE DEF Tables, NoOrphanResponse, FramesAttached
<1>0. Upgrade \subseteq Tx /\ idOf \in [Writer -> Id] /\ Tx \subseteq Writer /\ None \notin Writer
  BY WriterAssumption DEF Writer
<1>1. ASSUME NEW t \in Tx, NEW c \in fk, SaveTransaction(t, c)
      PROVE  NoOrphanResponse' /\ FramesAttached'
  BY <1>0, <1>1 DEF SaveTransaction
<1>2. ASSUME NEW t \in Tx, NEW c \in fk, StoreWebSocketFrame(t, c)
      PROVE  NoOrphanResponse' /\ FramesAttached'
  BY <1>0, <1>2 DEF StoreWebSocketFrame, Rows
<1>3. ASSUME NEW w \in Imp, NEW c \in fk, SaveRequest(w, c), tables' # tables
      PROVE  NoOrphanResponse' /\ FramesAttached'
  <2>1. idOf[w] \in Id /\ w # None
    BY WriterAssumption DEF Writer
  <2>2. /\ request' = [request EXCEPT ![idOf[w]] = w]
        /\ Cascade(c, {idOf[w]} \cap Rows)
    BY <1>3 DEF SaveRequest, tables
  <2> QED BY <1>0, <2>1, <2>2 DEF Cascade
<1>4. ASSUME NEW w \in Imp, NEW c \in fk, SaveResponse(w, c), tables' # tables
      PROVE  NoOrphanResponse' /\ FramesAttached'
  <2>1. /\ idOf[w] \in Rows
        /\ response' = [response EXCEPT ![idOf[w]] = w]
        /\ UNCHANGED <<request, frames>>
    BY <1>4 DEF SaveResponse, tables
  <2> QED BY <2>1 DEF Rows
<1>5. ASSUME NEW c \in fk, NEW ids \in SUBSET Id, DeleteRows(c, ids)
      PROVE  NoOrphanResponse' /\ FramesAttached'
  BY <1>0, <1>5 DEF DeleteRows, Cascade
<1> QED BY <1>1, <1>2, <1>3, <1>4, <1>5 DEF StrictStep

(* The connections of the pool that enforce foreign keys are connections of the pool. *)
PoolInv == Tables /\ lax \in BOOLEAN /\ fk \subseteq Conn

(* No step but the ones covered by PairsStep changes what PoolInv says. *)
LEMMA PoolStep == ASSUME PoolInv, PairsMatch, ImportIdsFresh, [Next]_vars PROVE PoolInv'
<1>1. Tables'
  BY PairsStep DEF PoolInv
<1>2. lax' \in BOOLEAN /\ fk' \subseteq Conn
  BY DEF PoolInv, Next, vars, pool, Using, StoreStep, Publish, Send, Persist,
         StoreWebSocketFrame, SaveRequest, SaveResponse, PruneByAge, PruneCount, PruneDelete,
         ClearHistory, Recycle, Subscribe, Receive, Unsubscribe
<1> QED BY <1>1, <1>2 DEF PoolInv

(***************************************************************************)
(* As long as every statement ran on a connection that enforces foreign    *)
(* keys, nothing is left without its request: clearing and pruning         *)
(* cascade, a late SaveResponse of an import is refused, a frame whose     *)
(* upgrade is not stored is refused.                                       *)
(***************************************************************************)
THEOREM EnforcedIsWhole == ASSUME ImportIdsFresh PROVE Spec => []EnforcedKeepsWhole
<1> DEFINE Inv == PoolInv /\ PairsMatch /\ EnforcedKeepsWhole
<1>1. Init => Inv
  BY WriterAssumption, PoolAssumption
  DEF Init, PoolInv, Tables, EnforcedKeepsWhole, NoOrphanResponse, PairsMatch
<1>2. Inv /\ [Next]_vars => Inv'
  <2> SUFFICES ASSUME Inv, [Next]_vars PROVE Inv'
    OBVIOUS
  <2>1. PoolInv' /\ PairsMatch'
    BY PoolStep, PairsStep DEF PoolInv
  <2>2. ASSUME ~lax' PROVE NoOrphanResponse' /\ FramesAttached'
    <3>1. ~lax /\ (tables' = tables \/ StrictStep)
      BY <2>2, StrictWrites DEF PoolInv
    <3>2. NoOrphanResponse /\ FramesAttached
      BY <3>1 DEF EnforcedKeepsWhole, FramesAttached
    <3>3. CASE tables' = tables
      BY <3>2, <3>3 DEF tables, NoOrphanResponse, FramesAttached
    <3> QED BY <3>1, <3>2, <3>3, StrictKeeps DEF PoolInv
  <2> QED BY <2>1, <2>2 DEF EnforcedKeepsWhole, FramesAttached
<1>3. Inv => EnforcedKeepsWhole
  OBVIOUS
<1> QED BY <1>1, <1>2, <1>3, PTL DEF Spec

(***************************************************************************)
(* On the single connection of an in-memory database, which the pool never *)
(* replaces, no response ever outlives its request.                        *)
(***************************************************************************)
THEOREM NoOrphans ==
    ASSUME SingleConnection, ImportIdsFresh PROVE Spec => []NoOrphanResponse
<1> DEFINE One == fk = {Opener} /\ ~lax /\ lax \in BOOLEAN
<1>1. Init => One
  BY DEF Init
<1>2. One /\ [Next]_vars => One'
  <2> SUFFICES ASSUME One, [Next]_vars PROVE One'
    OBVIOUS
  <2>1. UNCHANGED pool \/ (fk' = fk /\ \E c \in Conn : Using(c))
    BY DEF SingleConnection, Next, vars, pool, StoreStep, Publish, Send, Persist,
           StoreWebSocketFrame, SaveRequest, SaveResponse, PruneByAge, PruneCount, PruneDelete,
           ClearHistory, Recycle, Subscribe, Receive, Unsubscribe
  <2> QED BY <2>1 DEF SingleConnection, pool, Using
<1>3. One /\ EnforcedKeepsWhole => NoOrphanResponse
  BY DEF EnforcedKeepsWhole
<1> QED BY <1>1, <1>2, <1>3, EnforcedIsWhole, PTL DEF Spec
-----------------------------------------------------------------------------
(* What the invariant of the pruners is about. *)
PruneType ==
    /\ request \in [Id -> Writer \cup {None}]
    /\ ppc \in [Pruner -> PruneStage]
    /\ excess \in [Pruner -> Nat]
    /\ taken \in [Pruner -> Nat]

(* A pruner that has counted finds the rows it counted, or others have taken them. *)
Room ==
    \A p \in Pruner : ppc[p] = "delete"
        => excess[p] + MaxRows[p] <= Cardinality(Rows) + taken[p]

(* The rows are finitely many. *)
LEMMA RowsFinite == IsFiniteSet(Rows) /\ Cardinality(Rows) \in Nat
<1>1. Rows \in SUBSET Id /\ IsFiniteSet(Id)
  BY FiniteAssumption DEF Rows
<1>2. IsFiniteSet(Rows)
  BY <1>1, FS_Subset
<1> QED BY <1>2, FS_CardinalityType

(* A set of rows that grows has no fewer of them. *)
LEMMA RowsGrow ==
    ASSUME Rows \subseteq Rows'
    PROVE  /\ Cardinality(Rows) \in Nat /\ Cardinality(Rows') \in Nat
           /\ Cardinality(Rows) <= Cardinality(Rows')
<1>1. Rows' \in SUBSET Id /\ IsFiniteSet(Id)
  BY FiniteAssumption DEF Rows
<1>2. IsFiniteSet(Rows') /\ Rows \in SUBSET Rows'
  BY <1>1, FS_Subset
<1>3. Cardinality(Rows) <= Cardinality(Rows')
  BY <1>2, FS_Subset
<1> QED BY <1>2, <1>3, RowsFinite, FS_CardinalityType

(* What is deleted and what is left add up. *)
LEMMA Leaves ==
    ASSUME NEW S, IsFiniteSet(S), NEW T \in SUBSET S
    PROVE  /\ Cardinality(S) \in Nat /\ Cardinality(T) \in Nat
           /\ Cardinality(S \ T) = Cardinality(S) - Cardinality(T)
<1>1. IsFiniteSet(T) /\ S \cap T = T
  BY FS_Subset
<1>2. Cardinality(S \ T) = Cardinality(S) - Cardinality(S \cap T)
  BY <1>1, FS_Difference
<1> QED BY <1>1, <1>2, FS_CardinalityType
(* A step of no pruner and no ClearHistory: rows are added or replaced, or nothing is done. *)
Adding == Rows \subseteq Rows' /\ UNCHANGED <<pruneVars, clears>>

(* Every step adds, clears, or is a pruner's. *)
LEMMA PruneSteps ==
    ASSUME PruneType, [Next]_vars
    PROVE  \/ Adding /\ PruneType'
           \/ \E c \in Conn : ClearHistory(c)
           \/ \E p \in Pruner, c \in Conn :
                  PruneByAge(p, c) \/ PruneCount(p, c) \/ PruneDelete(p, c)
<1> USE DEF Adding, PruneType, tables, pruneVars
<1>0. Tx \subseteq Writer /\ Imp \subseteq Writer /\ None \notin Writer /\ idOf \in [Writer -> Id]
  BY WriterAssumption DEF Writer
<1>1. ASSUME UNCHANGED <<request, pruneVars, clears>> PROVE Adding /\ PruneType'
  BY <1>1 DEF Rows
<1>2. ASSUME NEW w \in Writer, request' = [request EXCEPT ![idOf[w]] = w],
             UNCHANGED <<pruneVars, clears>>
      PROVE  Adding /\ PruneType'
  BY <1>0, <1>2 DEF Rows
<1>3. ASSUME NEW t \in Tx, StoreStep(t) PROVE Adding /\ PruneType'
  <2>1. \/ UNCHANGED <<request, pruneVars, clears>>
        \/ request' = [request EXCEPT ![idOf[t]] = t] /\ UNCHANGED <<pruneVars, clears>>
    BY <1>3 DEF StoreStep, Publish, Send, Persist, SaveTransaction
  <2> QED BY <1>0, <1>1, <1>2, <2>1
<1>4. ASSUME NEW t \in Tx, NEW c \in Conn, StoreWebSocketFrame(t, c)
      PROVE  Adding /\ PruneType'
  BY <1>1, <1>4 DEF StoreWebSocketFrame
<1>5. ASSUME NEW w \in Imp, NEW c \in Conn, SaveRequest(w, c) \/ SaveResponse(w, c)
      PROVE  Adding /\ PruneType'
  <2>1. \/ UNCHANGED <<request, pruneVars, clears>>
        \/ request' = [request EXCEPT ![idOf[w]] = w] /\ UNCHANGED <<pruneVars, clears>>
    BY <1>5 DEF SaveRequest, SaveResponse
  <2> QED BY <1>0, <1>1, <1>2, <2>1
<1>6. ASSUME NEW c \in Conn, Recycle(c) PROVE Adding /\ PruneType'
  BY <1>1, <1>6 DEF Recycle
<1>7. ASSUME NEW s \in Sub, Subscribe(s) \/ Receive(s) \/ Unsubscribe(s)
      PROVE  Adding /\ PruneType'
  BY <1>1, <1>7 DEF Subscribe, Receive, Unsubscribe
<1>8. CASE UNCHANGED vars
  BY <1>1, <1>8 DEF vars
<1> QED BY <1>3, <1>4, <1>5, <1>6, <1>7, <1>8 DEF Next

(* What a deletion does to the rows and to the account of the pruners. *)
LEMMA DeleteTypes ==
    ASSUME PruneType, NEW c \in Conn, NEW S \in SUBSET Rows, DeleteRows(c, S)
    PROVE  /\ request' \in [Id -> Writer \cup {None}] /\ taken' \in [Pruner -> Nat]
           /\ Rows' = Rows \ S
           /\ Cardinality(Rows) \in Nat /\ Cardinality(S) \in Nat /\ Cardinality(Rows') \in Nat
           /\ Cardinality(Rows') = Cardinality(Rows) - Cardinality(S)
<1>1. request' \in [Id -> Writer \cup {None}]
  BY DEF DeleteRows, PruneType
<1>2. Rows' = Rows \ S
  BY DEF Rows, DeleteRows, PruneType
<1>3. /\ Cardinality(Rows) \in Nat /\ Cardinality(S) \in Nat
      /\ Cardinality(Rows \ S) = Cardinality(Rows) - Cardinality(S)
  BY RowsFinite, Leaves
<1>4. Cardinality(Rows \ S) \in Nat
  BY RowsFinite, FS_Difference, FS_CardinalityType
<1>5. taken' \in [Pruner -> Nat]
  BY <1>3 DEF DeleteRows, PruneType
<1> QED BY <1>1, <1>2, <1>3, <1>4, <1>5

(* A pruner's or ClearHistory's step keeps the types. *)
LEMMA PruneTypeStep == ASSUME PruneType, [Next]_vars PROVE PruneType'
<1>1. ASSUME NEW c \in Conn, NEW S \in SUBSET Rows, DeleteRows(c, S)
      PROVE  request' \in [Id -> Writer \cup {None}] /\ taken' \in [Pruner -> Nat]
  BY <1>1, DeleteTypes
<1>2. ASSUME NEW c \in Conn, ClearHistory(c) PROVE PruneType'
  BY <1>1, <1>2 DEF ClearHistory, PruneType
<1>3. ASSUME NEW p \in Pruner, NEW c \in Conn, PruneByAge(p, c) PROVE PruneType'
  <2>1. request' \in [Id -> Writer \cup {None}] /\ taken' \in [Pruner -> Nat]
    BY <1>1, <1>3 DEF PruneByAge, PruneType, tables
  <2> QED BY <1>3, <2>1 DEF PruneByAge, PGoto, PruneStage, PruneType
<1>4. ASSUME NEW p \in Pruner, NEW c \in Conn, PruneCount(p, c) PROVE PruneType'
  <2>1. Cardinality(Rows) \in Nat /\ MaxRows[p] \in Nat
    BY RowsFinite, PruneAssumption
  <2>2. ppc' \in [Pruner -> PruneStage] /\ excess' \in [Pruner -> Nat] /\ taken' \in [Pruner -> Nat]
    BY <1>4, <2>1 DEF PruneCount, PGoto, PruneStage, PruneType
  <2> QED BY <1>4, <2>2 DEF PruneCount, tables, PruneType
<1>5. ASSUME NEW p \in Pruner, NEW c \in Conn, PruneDelete(p, c) PROVE PruneType'
  <2>1. Oldest(excess[p]) \subseteq SUBSET Rows
    BY DEF Oldest
  <2>2. request' \in [Id -> Writer \cup {None}] /\ taken' \in [Pruner -> Nat]
    BY <1>1, <1>5, <2>1 DEF PruneDelete, PruneType, tables
  <2> QED BY <1>5, <2>2 DEF PruneDelete, PGoto, PruneStage, PruneType
<1> QED BY PruneSteps, <1>2, <1>3, <1>4, <1>5

(* A deletion takes from the rows what it adds to the account. *)
LEMMA RoomDelete ==
    ASSUME PruneType, Room, NEW c \in Conn, NEW S \in SUBSET Rows, DeleteRows(c, S),
           NEW q \in Pruner, ppc[q] = "delete", ppc'[q] = "delete", excess' = excess
    PROVE  excess'[q] + MaxRows[q] <= Cardinality(Rows') + taken'[q]
<1>1. excess[q] + MaxRows[q] <= Cardinality(Rows) + taken[q]
  BY DEF Room
<1>2. taken'[q] = taken[q] + Cardinality(S)
  BY DEF DeleteRows
<1>3. excess[q] \in Nat /\ MaxRows[q] \in Nat /\ taken[q] \in Nat
  BY PruneAssumption DEF PruneType
<1>4. /\ Cardinality(Rows) \in Nat /\ Cardinality(S) \in Nat /\ Cardinality(Rows') \in Nat
      /\ Cardinality(Rows') = Cardinality(Rows) - Cardinality(S)
  BY DeleteTypes
<1> QED BY <1>1, <1>2, <1>3, <1>4

(***************************************************************************)
(* Room is kept by every step: between the count and the delete rows only  *)
(* become more, or are taken and accounted for.                            *)
(***************************************************************************)
LEMMA RoomStep == ASSUME PruneType, Room, [Next]_vars PROVE Room'
<1>1. ASSUME NEW q \in Pruner, ppc[q] = "delete", Rows \subseteq Rows',
             excess'[q] = excess[q], taken'[q] = taken[q]
      PROVE  excess'[q] + MaxRows[q] <= Cardinality(Rows') + taken'[q]
  <2>1. excess[q] + MaxRows[q] <= Cardinality(Rows) + taken[q]
    BY <1>1 DEF Room
  <2>2. /\ Cardinality(Rows) \in Nat /\ Cardinality(Rows') \in Nat
        /\ Cardinality(Rows) <= Cardinality(Rows')
    BY <1>1, RowsGrow
  <2>3. excess[q] \in Nat /\ MaxRows[q] \in Nat /\ taken[q] \in Nat
    BY PruneAssumption DEF PruneType
  <2> QED BY <1>1, <2>1, <2>2, <2>3
<1>2. CASE Adding
  BY <1>1, <1>2 DEF Room, Adding, pruneVars
<1>3. ASSUME NEW c \in Conn, ClearHistory(c) PROVE Room'
  <2>1. Rows \in SUBSET Rows /\ DeleteRows(c, Rows) /\ UNCHANGED <<ppc, excess>>
    BY <1>3 DEF ClearHistory
  <2> QED BY <2>1, RoomDelete DEF Room
<1>4. ASSUME NEW p \in Pruner, NEW c \in Conn,
             PruneByAge(p, c) \/ PruneCount(p, c) \/ PruneDelete(p, c)
      PROVE  Room'
  <2> SUFFICES ASSUME NEW q \in Pruner, ppc'[q] = "delete"
               PROVE  excess'[q] + MaxRows[q] <= Cardinality(Rows') + taken'[q]
    BY DEF Room
  <2>1. CASE PruneCount(p, c) /\ q # p
    <3>1. Rows' = Rows /\ ppc[q] = "delete" /\ excess'[q] = excess[q] /\ taken'[q] = taken[q]
      BY <2>1 DEF PruneCount, PGoto, Rows, tables, PruneType
    <3> QED BY <1>1, <3>1
  <2>2. CASE PruneCount(p, c) /\ q = p
    <3>1. /\ Rows' = Rows /\ taken'[p] = 0
          /\ excess'[p] = Cardinality(Rows) - MaxRows[p] /\ Cardinality(Rows) > MaxRows[p]
      BY <2>2 DEF PruneCount, PGoto, Rows, tables, PruneType
    <3>2. Cardinality(Rows) \in Nat /\ MaxRows[p] \in Nat
      BY RowsFinite, PruneAssumption
    <3> QED BY <2>2, <3>1, <3>2
  <2>3. CASE PruneByAge(p, c) \/ PruneDelete(p, c)
    <3>1. ppc[q] = "delete" /\ excess' = excess
      BY <2>3 DEF PruneByAge, PruneDelete, PGoto, PruneType
    <3>2. (\E S \in SUBSET Rows : DeleteRows(c, S)) \/ UNCHANGED <<tables, taken>>
      BY <2>3 DEF PruneByAge, PruneDelete, Oldest
    <3>3. CASE UNCHANGED <<tables, taken>>
      BY <1>1, <3>1, <3>3 DEF tables, Rows
    <3> QED BY <3>1, <3>2, <3>3, RoomDelete
  <2> QED BY <1>4, <2>1, <2>2, <2>3
<1> QED BY PruneSteps, <1>2, <1>3, <1>4

(* A delete with Room leaves MaxRows rows, but for those that others took, or deletes nothing. *)
LEMMA DeleteStops ==
    ASSUME PruneType, Room, NEW p \in Pruner, NEW c \in Conn, PruneDelete(p, c)
    PROVE  Rows' = Rows \/ Cardinality(Rows') + taken[p] >= MaxRows[p]
<1>1. CASE UNCHANGED tables
  BY <1>1 DEF tables, Rows
<1>2. ASSUME NEW S \in Oldest(excess[p]), DeleteRows(c, S)
      PROVE  Cardinality(Rows') + taken[p] >= MaxRows[p]
  <2>1. excess[p] + MaxRows[p] <= Cardinality(Rows) + taken[p]
    BY DEF Room, PruneDelete
  <2>2. excess[p] \in Nat /\ MaxRows[p] \in Nat /\ taken[p] \in Nat
    BY PruneAssumption DEF PruneType
  <2>3. S \in SUBSET Rows /\ (Cardinality(S) = excess[p] \/ (Cardinality(Rows) < excess[p] /\ S = Rows))
    BY <1>2 DEF Oldest
  <2>4. /\ Cardinality(Rows) \in Nat /\ Cardinality(S) \in Nat /\ Cardinality(Rows') \in Nat
        /\ Cardinality(Rows') = Cardinality(Rows) - Cardinality(S)
    BY <1>2, <2>3, DeleteTypes
  <2>5. Cardinality(S) <= excess[p]
    BY <2>2, <2>3, <2>4
  <2> QED BY <2>1, <2>2, <2>4, <2>5
<1> QED BY <1>1, <1>2 DEF PruneDelete

(***************************************************************************)
(* A pruner by count stops at MaxRows, whatever is stored, imported or     *)
(* replaced between its count and its delete, for any numbers of pruners,  *)
(* rows, limits and connections; it falls short of the limit by no more    *)
(* than a ClearHistory or another pruner took in between.                  *)
(***************************************************************************)
THEOREM PruneAlwaysStops == Spec => PruneStopsAtLimit
<1>1. Init => PruneType /\ Room
  BY DEF Init, PruneType, Room, PruneStage
<1>2. PruneType /\ Room /\ [Next]_vars => (PruneType /\ Room)'
  BY PruneTypeStep, RoomStep
<1>3. PruneType /\ Room /\ [Next]_vars =>
        [\A p \in Pruner :
            (ppc[p] = "delete" /\ ppc'[p] = "done") =>
                Rows' = Rows \/ Cardinality(Rows') + taken[p] >= MaxRows[p]]_vars
  <2> SUFFICES ASSUME PruneType, Room, [Next]_vars, NEW p \in Pruner,
                      ppc[p] = "delete", ppc'[p] = "done"
               PROVE  Rows' = Rows \/ Cardinality(Rows') + taken[p] >= MaxRows[p]
    OBVIOUS
  <2>1. \E c \in Conn : PruneDelete(p, c)
    BY PruneSteps
    DEF Adding, pruneVars, ClearHistory, PruneByAge, PruneCount, PruneDelete, PGoto, PruneType
  <2> QED BY <2>1, DeleteStops
<1> QED BY <1>1, <1>2, <1>3, PTL DEF Spec, PruneStopsAtLimit
-----------------------------------------------------------------------------
(* Types and bounds *)

(* The calls of StoreTransaction that have made their records. *)
Recorded == {t \in Tx : pc[t] # "new"}

(* The clock counts them. *)
Clocked == pc \in [Writer -> Stage] /\ clock = Cardinality(Recorded)

(* The types of the records and of the pool. *)
RecordType == clock \in Nat /\ stamp \in [Writer -> Nat] /\ fk \subseteq Conn /\ lax \in BOOLEAN

(***************************************************************************)
(* The subscribers: a channel is closed only when its stream has left, is  *)
(* not registered any more, and holds no more than its buffer; a send      *)
(* panics only on a channel that was closed after the snapshot.            *)
(***************************************************************************)
CaptureInv ==
    /\ pc \in [Writer -> Stage]
    /\ subscribers \subseteq Sub /\ closedCh \subseteq Leavers /\ subscribers \cap closedCh = {}
    /\ chan \in [Sub -> Seq(Tx)] /\ toSend \in [Tx -> SUBSET Sub]
    /\ \A s \in Sub : Len(chan[s]) <= ChanCap
    /\ \A t \in Tx : pc[t] = "panicked" => toSend[t] \cap closedCh # {}

(* The clock counts on: a record is made once per call, and no stage leads back to new. *)
LEMMA ClockStep == Clocked /\ [Next]_vars => Clocked'
<1> SUFFICES ASSUME Clocked, [Next]_vars PROVE Clocked'
  OBVIOUS
<1>1. Tx \subseteq Writer /\ Imp \subseteq Writer /\ Tx \cap Imp = {}
  BY WriterAssumption DEF Writer
<1>2. ASSUME clock' = clock, pc' = pc PROVE Clocked'
  BY <1>2 DEF Clocked, Recorded
<1>3. ASSUME NEW w \in Writer, NEW stage \in Stage \ {"new"}, clock' = clock, Goto(w, stage), w \in Imp \/ pc[w] # "new"
      PROVE  Clocked'
  <2>1. pc' \in [Writer -> Stage]
    BY <1>3 DEF Clocked, Goto
  <2>2. Recorded' = Recorded
    BY <1>1, <1>3 DEF Clocked, Goto, Recorded
  <2>3. QED
    BY <1>3, <2>1, <2>2 DEF Clocked
<1>4. ASSUME NEW t \in Tx, Publish(t) PROVE Clocked'
  <2>1. IsFiniteSet(Recorded)
    BY FiniteAssumption, FS_Subset DEF Recorded
  <2>2. t \notin Recorded /\ pc' \in [Writer -> Stage] /\ clock' = clock + 1
    BY <1>1, <1>4 DEF Publish, Goto, Recorded, Clocked, Stage
  <2>3. Recorded' = Recorded \cup {t}
    BY <1>1, <1>4 DEF Publish, Goto, Recorded, Clocked
  <2>4. Cardinality(Recorded \cup {t}) = Cardinality(Recorded) + 1
    BY <2>1, <2>2, FS_AddElement
  <2>5. QED
    BY <2>2, <2>3, <2>4 DEF Clocked
<1>5. ASSUME NEW t \in Tx, NEW s \in Sub, Send(t, s) PROVE Clocked'
  <2>1. clock' = clock /\ pc[t] # "new" /\ (pc' = pc \/ Goto(t, "panicked"))
    BY <1>5 DEF Send
  <2>2. QED
    BY <1>1, <1>2, <1>3, <2>1 DEF Stage
<1>6. ASSUME NEW t \in Tx, NEW c \in Conn, Persist(t, c) PROVE Clocked'
  <2>1. clock' = clock /\ pc[t] # "new" /\ (Goto(t, "saved") \/ Goto(t, "failed"))
    BY <1>6 DEF Persist
  <2>2. QED
    BY <1>1, <1>3, <2>1 DEF Stage
<1>7. ASSUME NEW w \in Imp, NEW c \in Conn, SaveRequest(w, c) \/ SaveResponse(w, c) PROVE Clocked'
  <2>1. clock' = clock /\ (Goto(w, "half") \/ Goto(w, "saved") \/ Goto(w, "failed"))
    BY <1>7 DEF SaveRequest, SaveResponse
  <2>2. QED
    BY <1>1, <1>3, <2>1 DEF Stage
<1>8. ASSUME NEW t \in Tx, NEW c \in Conn, StoreWebSocketFrame(t, c) PROVE Clocked'
  BY <1>2, <1>8 DEF StoreWebSocketFrame
<1>9. ASSUME NEW p \in Pruner, NEW c \in Conn, PruneByAge(p, c) \/ PruneCount(p, c) \/ PruneDelete(p, c) PROVE Clocked'
  BY <1>2, <1>9 DEF PruneByAge, PruneCount, PruneDelete
<1>10. ASSUME NEW c \in Conn, ClearHistory(c) \/ Recycle(c) PROVE Clocked'
  BY <1>2, <1>10 DEF ClearHistory, Recycle
<1>11. ASSUME NEW s \in Sub, Subscribe(s) \/ Receive(s) \/ Unsubscribe(s) PROVE Clocked'
  BY <1>2, <1>11 DEF Subscribe, Receive, Unsubscribe
<1>12. CASE UNCHANGED vars
  BY <1>2, <1>12 DEF vars
<1>13. QED
  BY <1>4, <1>5, <1>6, <1>7, <1>8, <1>9, <1>10, <1>11, <1>12 DEF Next, StoreStep

(* Whatever date an import brings, and whatever connection is replaced. *)
LEMMA RecordStep == RecordType /\ [Next]_vars => RecordType'
<1> SUFFICES ASSUME RecordType, [Next]_vars PROVE RecordType'
  OBVIOUS
<1> USE DEF RecordType
<1>1. Tx \subseteq Writer /\ Imp \subseteq Writer
  BY DEF Writer
<1>2. ASSUME UNCHANGED <<clock, stamp, fk>>, lax' = lax \/ \E c \in Conn : Using(c) PROVE RecordType'
  BY <1>2 DEF Using
<1>3. ASSUME NEW t \in Tx, Publish(t) PROVE RecordType'
  <2>1. clock' = clock + 1 /\ stamp' = [stamp EXCEPT ![t] = clock + 1] /\ UNCHANGED <<fk, lax>>
    BY <1>3 DEF Publish, pool
  <2>2. QED
    BY <1>1, <2>1
<1>4. ASSUME NEW t \in Tx, NEW s \in Sub, Send(t, s) PROVE RecordType'
  BY <1>2, <1>4 DEF Send, pool
<1>5. ASSUME NEW t \in Tx, NEW c \in Conn, Persist(t, c) \/ StoreWebSocketFrame(t, c) PROVE RecordType'
  BY <1>2, <1>5 DEF Persist, StoreWebSocketFrame
<1>6. ASSUME NEW w \in Imp, NEW c \in Conn, SaveRequest(w, c) PROVE RecordType'
  <2>1. stamp' \in [Writer -> Nat] /\ UNCHANGED <<clock, fk>> /\ Using(c)
    BY <1>1, <1>6, DatesAssumption DEF SaveRequest
  <2>2. QED
    BY <2>1 DEF Using
<1>7. ASSUME NEW w \in Imp, NEW c \in Conn, SaveResponse(w, c) PROVE RecordType'
  BY <1>2, <1>7 DEF SaveResponse
<1>8. ASSUME NEW p \in Pruner, NEW c \in Conn, PruneByAge(p, c) \/ PruneCount(p, c) \/ PruneDelete(p, c) PROVE RecordType'
  BY <1>2, <1>8 DEF PruneByAge, PruneCount, PruneDelete, pool
<1>9. ASSUME NEW c \in Conn, ClearHistory(c) PROVE RecordType'
  BY <1>2, <1>9 DEF ClearHistory
<1>10. ASSUME NEW c \in Conn, Recycle(c) PROVE RecordType'
  BY <1>10 DEF Recycle
<1>11. ASSUME NEW s \in Sub, Subscribe(s) \/ Receive(s) \/ Unsubscribe(s) PROVE RecordType'
  BY <1>2, <1>11 DEF Subscribe, Receive, Unsubscribe, pool
<1>12. CASE UNCHANGED vars
  BY <1>2, <1>12 DEF vars, pool
<1>13. QED
  BY <1>3, <1>4, <1>5, <1>6, <1>7, <1>8, <1>9, <1>10, <1>11, <1>12 DEF Next, StoreStep

(* A pruner decides to delete no more rows than there are IDs, and there are MaxClears clears. *)
PruneBound == excess \in [Pruner -> 0..Cardinality(Id)] /\ clears \in 0..MaxClears

(* Only the count of a pruner and a clear move the bounds, and both stay below them. *)
LEMMA BoundStep == PruneBound /\ [Next]_vars => PruneBound'
<1> SUFFICES ASSUME PruneBound, [Next]_vars PROVE PruneBound'
  OBVIOUS
<1> USE DEF PruneBound
<1>1. Cardinality(Id) \in Nat /\ Cardinality(Rows) \in Nat /\ Cardinality(Rows) <= Cardinality(Id)
  <2>1. Rows \in SUBSET Id
    BY DEF Rows
  <2>2. QED
    BY <2>1, RowsFinite, FiniteAssumption, FS_Subset, FS_CardinalityType
<1>2. ASSUME UNCHANGED <<excess, clears>> PROVE PruneBound'
  BY <1>2
<1>3. ASSUME NEW p \in Pruner, NEW c \in Conn, PruneCount(p, c) PROVE PruneBound'
  <2>1. MaxRows[p] \in Nat
    BY PruneAssumption
  <2>2. CASE Cardinality(Rows) > MaxRows[p] /\ excess' = [excess EXCEPT ![p] = Cardinality(Rows) - MaxRows[p]]
    <3>1. Cardinality(Rows) - MaxRows[p] \in 0..Cardinality(Id)
      BY <1>1, <2>1, <2>2
    <3>2. clears' = clears
      BY <1>3 DEF PruneCount
    <3>3. QED
      BY <2>2, <3>1, <3>2
  <2>3. QED
    BY <1>2, <1>3, <2>2 DEF PruneCount
<1>4. ASSUME NEW p \in Pruner, NEW c \in Conn, PruneByAge(p, c) \/ PruneDelete(p, c) PROVE PruneBound'
  BY <1>2, <1>4 DEF PruneByAge, PruneDelete
<1>5. ASSUME NEW c \in Conn, ClearHistory(c) PROVE PruneBound'
  <2>1. clears < MaxClears /\ clears' = clears + 1 /\ excess' = excess
    BY <1>5 DEF ClearHistory, pruneVars
  <2>2. QED
    BY <2>1, SubAssumption
<1>6. ASSUME NEW t \in Tx, NEW c \in Conn, Persist(t, c) \/ StoreWebSocketFrame(t, c) PROVE PruneBound'
  BY <1>2, <1>6 DEF Persist, StoreWebSocketFrame, pruneVars
<1>7. ASSUME NEW t \in Tx, Publish(t) \/ \E s \in Sub : Send(t, s) PROVE PruneBound'
  BY <1>2, <1>7 DEF Publish, Send, pruneVars
<1>8. ASSUME NEW w \in Imp, NEW c \in Conn, SaveRequest(w, c) \/ SaveResponse(w, c) PROVE PruneBound'
  BY <1>2, <1>8 DEF SaveRequest, SaveResponse, pruneVars
<1>9. ASSUME NEW c \in Conn, Recycle(c) PROVE PruneBound'
  BY <1>2, <1>9 DEF Recycle, pruneVars
<1>10. ASSUME NEW s \in Sub, Subscribe(s) \/ Receive(s) \/ Unsubscribe(s) PROVE PruneBound'
  BY <1>2, <1>10 DEF Subscribe, Receive, Unsubscribe, pruneVars
<1>11. CASE UNCHANGED vars
  BY <1>2, <1>11 DEF vars, pruneVars
<1>12. QED
  BY <1>3, <1>4, <1>5, <1>6, <1>7, <1>8, <1>9, <1>10, <1>11 DEF Next, StoreStep

(* A send queues where there is room, or panics on a channel that is closed; closing needs a stream that leaves. *)
LEMMA CaptureStep == CaptureInv /\ [Next]_vars => CaptureInv'
<1> SUFFICES ASSUME CaptureInv, [Next]_vars PROVE CaptureInv'
  OBVIOUS
<1>1. Tx \subseteq Writer /\ Imp \subseteq Writer /\ Tx \cap Imp = {}
  BY WriterAssumption DEF Writer
<1>2. Leavers \subseteq Sub /\ ChanCap \in Nat
  BY SubAssumption
<1>3. ASSUME UNCHANGED <<captureVars, pc>> PROVE CaptureInv'
  BY <1>3 DEF CaptureInv, captureVars
<1>4. ASSUME NEW w \in Writer, NEW stage \in Stage \ {"panicked"}, Goto(w, stage), UNCHANGED captureVars
      PROVE  CaptureInv'
  BY <1>1, <1>4 DEF CaptureInv, captureVars, Goto
<1>5. ASSUME NEW t \in Tx, Publish(t) PROVE CaptureInv'
  <2>1. /\ UNCHANGED <<subscribers, closedCh, chan>> /\ toSend' = [toSend EXCEPT ![t] = subscribers]
        /\ pc' = [pc EXCEPT ![t] = "publish"]
    BY <1>5 DEF Publish, Goto
  <2>2. QED
    BY <1>1, <2>1 DEF CaptureInv, Stage
<1>6. ASSUME NEW t \in Tx, NEW s \in Sub, Send(t, s) PROVE CaptureInv'
  <2>1. pc[t] = "publish" /\ s \in toSend[t] /\ UNCHANGED <<subscribers, closedCh>>
    BY <1>6 DEF Send
  <2>2. CASE s \in closedCh /\ Goto(t, "panicked") /\ UNCHANGED <<toSend, chan>>
    BY <1>1, <2>1, <2>2 DEF CaptureInv, Goto, Stage
  <2>3. CASE /\ s \notin closedCh /\ toSend' = [toSend EXCEPT ![t] = @ \ {s}] /\ UNCHANGED pc
             /\ chan' = IF Len(chan[s]) < ChanCap THEN [chan EXCEPT ![s] = Append(@, t)] ELSE chan
    <3>1. chan[s] \in Seq(Tx) /\ Len(chan[s]) \in Nat
      BY DEF CaptureInv
    <3>2. Append(chan[s], t) \in Seq(Tx) /\ Len(Append(chan[s], t)) = Len(chan[s]) + 1
      BY <3>1
    <3>3. chan' \in [Sub -> Seq(Tx)] /\ \A r \in Sub : Len(chan'[r]) <= ChanCap
      BY <1>2, <2>3, <3>1, <3>2 DEF CaptureInv
    <3>4. toSend' \in [Tx -> SUBSET Sub] /\ \A u \in Tx : u # t => toSend'[u] = toSend[u]
      BY <2>3 DEF CaptureInv
    <3>5. \A u \in Tx : pc[u] = "panicked" => toSend'[u] \cap closedCh # {}
      BY <2>1, <3>4 DEF CaptureInv
    <3>6. QED
      BY <2>1, <2>3, <3>3, <3>4, <3>5 DEF CaptureInv
  <2>4. QED
    BY <1>6, <2>2, <2>3 DEF Send
<1>7. ASSUME NEW t \in Tx, NEW c \in Conn, Persist(t, c) PROVE CaptureInv'
  <2>1. (Goto(t, "saved") \/ Goto(t, "failed")) /\ UNCHANGED captureVars
    BY <1>7 DEF Persist
  <2>2. QED
    BY <1>1, <1>4, <2>1 DEF Stage
<1>8. ASSUME NEW w \in Imp, NEW c \in Conn, SaveRequest(w, c) \/ SaveResponse(w, c) PROVE CaptureInv'
  <2>1. (Goto(w, "half") \/ Goto(w, "saved") \/ Goto(w, "failed")) /\ UNCHANGED captureVars
    BY <1>8 DEF SaveRequest, SaveResponse
  <2>2. QED
    BY <1>1, <1>4, <2>1 DEF Stage
<1>9. ASSUME NEW t \in Tx, NEW c \in Conn, StoreWebSocketFrame(t, c) PROVE CaptureInv'
  BY <1>3, <1>9 DEF StoreWebSocketFrame
<1>10. ASSUME NEW p \in Pruner, NEW c \in Conn, PruneByAge(p, c) \/ PruneCount(p, c) \/ PruneDelete(p, c) PROVE CaptureInv'
  BY <1>3, <1>10 DEF PruneByAge, PruneCount, PruneDelete
<1>11. ASSUME NEW c \in Conn, ClearHistory(c) \/ Recycle(c) PROVE CaptureInv'
  BY <1>3, <1>11 DEF ClearHistory, Recycle
<1>12. ASSUME NEW s \in Sub, Subscribe(s) PROVE CaptureInv'
  BY <1>12 DEF CaptureInv, Subscribe
<1>13. ASSUME NEW s \in Sub, Receive(s) PROVE CaptureInv'
  <2>1. chan[s] \in Seq(Tx) /\ chan[s] # <<>> /\ chan' = [chan EXCEPT ![s] = Tail(@)]
        /\ UNCHANGED <<pc, subscribers, closedCh, toSend>>
    BY <1>13 DEF Receive, CaptureInv
  <2>2. Tail(chan[s]) \in Seq(Tx) /\ Len(Tail(chan[s])) = Len(chan[s]) - 1 /\ Len(chan[s]) \in Nat
    BY <2>1
  <2>3. QED
    BY <1>2, <2>1, <2>2 DEF CaptureInv
<1>14. ASSUME NEW s \in Sub, Unsubscribe(s) PROVE CaptureInv'
  BY <1>14 DEF CaptureInv, Unsubscribe
<1>15. CASE UNCHANGED vars
  BY <1>3, <1>15 DEF vars
<1>16. QED
  BY <1>5, <1>6, <1>7, <1>8, <1>9, <1>10, <1>11, <1>12, <1>13, <1>14, <1>15 DEF Next, StoreStep

(* The start. *)
LEMMA HistoryStart == Init => Clocked /\ RecordType /\ PruneBound /\ CaptureInv
<1> SUFFICES ASSUME Init PROVE Clocked /\ RecordType /\ PruneBound /\ CaptureInv
  OBVIOUS
<1>1. Recorded = {} /\ pc \in [Writer -> Stage]
  BY DEF Init, Recorded, Stage, Writer
<1>2. Clocked
  BY <1>1, FS_EmptySet DEF Clocked, Init
<1>3. RecordType
  <2>1. clock \in Nat /\ stamp \in [Writer -> Nat]
    BY DEF Init
  <2>2. fk \subseteq Conn
    BY PoolAssumption DEF Init
  <2>3. lax \in BOOLEAN
    BY Zenon DEF Init
  <2>4. QED
    BY <2>1, <2>2, <2>3 DEF RecordType
<1>4. PruneBound
  BY FiniteAssumption, FS_CardinalityType, SubAssumption DEF PruneBound, Init
<1>5. chan = [s \in Sub |-> <<>>] /\ \A s \in Sub : Len(chan[s]) = 0
  BY DEF Init
<1>6. CaptureInv
  <2>1. subscribers = {} /\ closedCh = {} /\ toSend \in [Tx -> SUBSET Sub]
    BY DEF Init
  <2>2. \A t \in Tx : pc[t] # "panicked"
    BY DEF Init, Writer
  <2>3. chan \in [Sub -> Seq(Tx)] /\ \A s \in Sub : Len(chan[s]) <= ChanCap
    BY <1>5, SubAssumption
  <2>4. QED
    BY <1>1, <2>1, <2>2, <2>3 DEF CaptureInv
<1>7. QED
  BY <1>2, <1>3, <1>4, <1>6

(***************************************************************************)
(* Type correctness of the history: the clock never runs past the number   *)
(* of transactions, whatever dates the imported records bring; a pruner    *)
(* never decides to delete more rows than there can be; only upgrades have *)
(* frames, and only streams that left have a closed channel.               *)
(***************************************************************************)
THEOREM HistoryTypeCorrect == ASSUME ImportIdsFresh PROVE Spec => []TypeOK
<1>1. Tables /\ PairsMatch /\ PruneType /\ Clocked /\ RecordType /\ PruneBound /\ CaptureInv => TypeOK
  <2> SUFFICES ASSUME Tables, PruneType, Clocked, RecordType, PruneBound, CaptureInv PROVE TypeOK
    OBVIOUS
  <2>1. Recorded \in SUBSET Tx
    BY DEF Recorded
  <2>2. clock <= Cardinality(Tx) /\ Cardinality(Tx) \in Nat
    BY <2>1, FiniteAssumption, FS_Subset, FS_CardinalityType DEF Clocked
  <2>3. clock \in 0..Cardinality(Tx)
    BY <2>2 DEF RecordType
  <2>4. QED
    BY <2>3 DEF Tables, PruneType, Clocked, RecordType, PruneBound, CaptureInv, TypeOK
<1>2. Init => Tables /\ PairsMatch /\ PruneType
  BY WriterAssumption DEF Init, Tables, PairsMatch, PruneType, PruneStage
<1>3. Tables /\ PairsMatch /\ PruneType /\ [Next]_vars => (Tables /\ PairsMatch /\ PruneType)'
  BY PairsStep, PruneTypeStep
<1>4. QED
  BY <1>1, <1>2, <1>3, HistoryStart, ClockStep, RecordStep, BoundStep, CaptureStep, PTL DEF Spec

(* What a stream costs StoreTransaction: a bounded buffer, and a panic only when some stream leaves. *)
CaptureBounded ==
    /\ \A s \in Sub : Len(chan[s]) <= ChanCap
    /\ \A t \in Tx : pc[t] = "panicked" => \E s \in Leavers : s \in toSend[t] /\ s \in closedCh

(***************************************************************************)
(* A subscriber that does not read costs at most ChanCap transactions, and *)
(* the send of StoreTransaction panics only on the channel of a stream     *)
(* that has left after the snapshot was taken and before its turn came     *)
(* (engine.go, StoreTransaction against Unsubscribe).                      *)
(***************************************************************************)
THEOREM CaptureAlwaysBounded == Spec => []CaptureBounded
<1>1. CaptureInv => CaptureBounded
  BY DEF CaptureInv, CaptureBounded
<1>2. QED
  BY <1>1, HistoryStart, CaptureStep, PTL DEF Spec
=============================================================================
