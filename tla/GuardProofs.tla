----------------------------- MODULE GuardProofs -----------------------------
(***************************************************************************)
(* Proofs about GuardPlugins, for any transactions, hosts, keys, chain and *)
(* configuration.                                                          *)
(***************************************************************************)
EXTENDS GuardPlugins, SequenceTheorems, FiniteSetTheorems, TLAPS

(* Removing an element: the others keep their order. *)
LEMMA RemoveAtFacts ==
  ASSUME NEW S, NEW s \in Seq(S), NEW i \in 1..Len(s)
  PROVE  /\ RemoveAt(s, i) \in Seq(S)
         /\ Len(RemoveAt(s, i)) = Len(s) - 1
         /\ \A j \in 1..(Len(s) - 1) : RemoveAt(s, i)[j] = IF j < i THEN s[j] ELSE s[j + 1]
<1> DEFINE a == SubSeq(s, 1, i - 1)
           b == SubSeq(s, i + 1, Len(s))
<1>0. Len(s) \in Nat /\ i \in Nat /\ 1 <= i /\ i <= Len(s)
  BY LenProperties
<1>1. a \in Seq(S) /\ Len(a) = i - 1 /\ \A j \in 1..(i - 1) : a[j] = s[j]
  <2>1. \A j \in 1..(i - 1) : s[j] \in S
    BY <1>0, ElementOfSeq
  <2>2. QED
    BY <1>0, <2>1, SubSeqProperties
<1>2. b \in Seq(S) /\ Len(b) = Len(s) - i /\ \A j \in 1..(Len(s) - i) : b[j] = s[i + j]
  <2>1. \A j \in (i + 1)..Len(s) : s[j] \in S
    BY <1>0, ElementOfSeq
  <2>2. QED
    BY <1>0, <2>1, SubSeqProperties
<1>3. RemoveAt(s, i) = a \o b
  BY DEF RemoveAt
<1> HIDE DEF a, b
<1>4. a \o b \in Seq(S) /\ Len(a \o b) = Len(s) - 1
  <2>1. a \in Seq(S) /\ b \in Seq(S)
    BY <1>1, <1>2
  <2>2. a \o b \in Seq(S) /\ Len(a \o b) = Len(a) + Len(b)
    BY <2>1, ConcatProperties
  <2>3. Len(a) = i - 1 /\ Len(b) = Len(s) - i
    BY <1>1, <1>2
  <2>4. QED
    BY <1>0, <2>2, <2>3
<1>5. ASSUME NEW j \in 1..(Len(s) - 1) PROVE (a \o b)[j] = IF j < i THEN s[j] ELSE s[j + 1]
  <2>1. CASE j < i
    BY <2>1, <1>0, <1>1, <1>2, ConcatProperties
  <2>2. CASE ~(j < i)
    <3>0. j >= i
      BY <2>2, <1>0
    <3>1. (a \o b)[j] = b[j - (i - 1)]
      BY <3>0, <1>0, <1>1, <1>2, ConcatProperties
    <3>2. j - (i - 1) \in 1..(Len(s) - i) /\ i + (j - (i - 1)) = j + 1
      BY <3>0, <1>0
    <3>3. QED
      BY <2>2, <3>1, <3>2, <1>0, <1>2
  <2>3. QED
    BY <2>1, <2>2, Zenon
<1>6. QED
  BY <1>3, <1>4, <1>5

(* Putting an element in front moves the others by one. *)
LEMMA PrependFacts ==
  ASSUME NEW S, NEW s \in Seq(S), NEW e \in S
  PROVE  /\ <<e>> \o s \in Seq(S)
         /\ Len(<<e>> \o s) = Len(s) + 1
         /\ (<<e>> \o s)[1] = e
         /\ \A j \in 2..(Len(s) + 1) : (<<e>> \o s)[j] = s[j - 1]
<1>1. <<e>> \in Seq(S) /\ Len(<<e>>) = 1 /\ <<e>>[1] = e
  OBVIOUS
<1>2. Len(s) \in Nat
  BY LenProperties
<1>3. QED
  BY <1>1, <1>2, ConcatProperties

-----------------------------------------------------------------------------
(* The cache *)

(* The list s holds the keys E, each once. *)
Coherent(s, E) ==
    /\ E = {s[i].key : i \in 1..Len(s)}
    /\ \A i, j \in 1..Len(s) : s[i].key = s[j].key => i = j

(* Taking an element out of the list takes its key out of the map. *)
LEMMA CoherentRemove ==
  ASSUME NEW s \in Seq(Entry), NEW E, Coherent(s, E), NEW i \in 1..Len(s)
  PROVE  Coherent(RemoveAt(s, i), E \ {s[i].key})
<1> DEFINE r == RemoveAt(s, i)
<1>1. /\ Len(s) \in Nat /\ Len(r) = Len(s) - 1
      /\ \A j \in 1..(Len(s) - 1) : r[j] = IF j < i THEN s[j] ELSE s[j + 1]
  BY RemoveAtFacts, LenProperties
<1> HIDE DEF r
<1>2. \A j, k \in 1..Len(s) : s[j].key = s[k].key => j = k
  BY DEF Coherent
<1>3. \A j \in 1..Len(r) : \E k \in 1..Len(s) : k # i /\ r[j] = s[k] /\ k = IF j < i THEN j ELSE j + 1
  <2> TAKE j \in 1..Len(r)
  <2>1. CASE j < i
    BY <1>1, <2>1
  <2>2. CASE ~(j < i)
    <3>1. j + 1 \in 1..Len(s) /\ j + 1 # i
      BY <1>1, <2>2
    <3>2. r[j] = s[j + 1]
      BY <1>1, <2>2
    <3>3. QED
      BY <2>2, <3>1, <3>2
  <2>3. QED
    BY <2>1, <2>2
<1>4. \A k \in 1..Len(s) : k # i => \E j \in 1..Len(r) : r[j] = s[k]
  <2> SUFFICES ASSUME NEW k \in 1..Len(s), k # i PROVE \E j \in 1..Len(r) : r[j] = s[k]
    OBVIOUS
  <2>1. CASE k < i
    <3>1. k \in 1..Len(r) /\ r[k] = s[k]
      BY <1>1, <2>1
    <3>2. QED
      BY <3>1
  <2>2. CASE k > i
    <3>1. k - 1 \in 1..Len(r) /\ ~(k - 1 < i) /\ (k - 1) + 1 = k
      BY <1>1, <2>2
    <3>2. r[k - 1] = s[k]
      BY <1>1, <3>1
    <3>3. QED
      BY <3>1, <3>2
  <2>3. QED
    BY <1>1, <2>1, <2>2
<1>5. E \ {s[i].key} = {r[j].key : j \in 1..Len(r)}
  <2>1. E = {s[k].key : k \in 1..Len(s)}
    BY DEF Coherent
  <2>2. ASSUME NEW x \in E \ {s[i].key} PROVE x \in {r[j].key : j \in 1..Len(r)}
    BY <2>1, <1>4
  <2>3. ASSUME NEW j \in 1..Len(r) PROVE r[j].key \in E \ {s[i].key}
    BY <2>1, <1>2, <1>3
  <2>4. QED
    BY <2>2, <2>3
<1>6. \A j, k \in 1..Len(r) : r[j].key = r[k].key => j = k
  <2> SUFFICES ASSUME NEW j \in 1..Len(r), NEW k \in 1..Len(r), r[j].key = r[k].key PROVE j = k
    OBVIOUS
  <2>1. PICK a \in 1..Len(s) : r[j] = s[a] /\ a = IF j < i THEN j ELSE j + 1
    BY <1>3
  <2>2. PICK b \in 1..Len(s) : r[k] = s[b] /\ b = IF k < i THEN k ELSE k + 1
    BY <1>3
  <2>3. a = b
    BY <2>1, <2>2, <1>2
  <2>4. QED
    BY <1>1, <2>1, <2>2, <2>3
<1>7. QED
  BY <1>5, <1>6 DEF Coherent, r

(* Putting an element with a new key in front adds the key to the map. *)
LEMMA CoherentPrepend ==
  ASSUME NEW s \in Seq(Entry), NEW E, Coherent(s, E), NEW e \in Entry, e.key \notin E
  PROVE  Coherent(<<e>> \o s, E \cup {e.key})
<1> DEFINE r == <<e>> \o s
<1>1. /\ Len(s) \in Nat /\ Len(r) = Len(s) + 1 /\ r[1] = e
      /\ \A j \in 2..(Len(s) + 1) : r[j] = s[j - 1]
  BY PrependFacts, LenProperties
<1> HIDE DEF r
<1>2. E = {s[k].key : k \in 1..Len(s)} /\ \A j, k \in 1..Len(s) : s[j].key = s[k].key => j = k
  BY DEF Coherent
<1>3. \A j \in 1..Len(r) : j = 1 \/ (j - 1 \in 1..Len(s) /\ r[j] = s[j - 1])
  BY <1>1
<1>4. \A k \in 1..Len(s) : k + 1 \in 1..Len(r) /\ r[k + 1] = s[k]
  BY <1>1
<1>5. E \cup {e.key} = {r[j].key : j \in 1..Len(r)}
  <2>1. ASSUME NEW x \in E PROVE x \in {r[j].key : j \in 1..Len(r)}
    BY <1>2, <1>4
  <2>2. e.key \in {r[j].key : j \in 1..Len(r)}
    BY <1>1
  <2>3. ASSUME NEW j \in 1..Len(r) PROVE r[j].key \in E \cup {e.key}
    BY <1>1, <1>2, <1>3
  <2>4. QED
    BY <2>1, <2>2, <2>3
<1>6. \A j, k \in 1..Len(r) : r[j].key = r[k].key => j = k
  <2> SUFFICES ASSUME NEW j \in 1..Len(r), NEW k \in 1..Len(r), r[j].key = r[k].key PROVE j = k
    OBVIOUS
  <2>1. CASE j = 1 /\ k = 1
    BY <2>1
  <2>2. CASE j # 1 /\ k # 1
    <3>1. j - 1 \in 1..Len(s) /\ k - 1 \in 1..Len(s) /\ s[j - 1].key = s[k - 1].key
      BY <2>2, <1>3
    <3>2. j - 1 = k - 1
      BY <3>1, <1>2
    <3>3. QED
      BY <3>2, <1>1
  <2>3. CASE j = 1 /\ k # 1
    BY <2>3, <1>1, <1>2, <1>3
  <2>4. CASE j # 1 /\ k = 1
    BY <2>4, <1>1, <1>2, <1>3
  <2>5. QED
    BY <2>1, <2>2, <2>3, <2>4
<1>7. QED
  BY <1>5, <1>6 DEF Coherent, r

(* A well-typed cache whose map and list agree. *)
CacheGood == lru \in Seq(Entry) /\ entries \subseteq Key /\ CacheCoherent

(* The map leads to an element with that key. *)
LEMMA ElemFacts ==
  ASSUME CacheGood, NEW k \in entries
  PROVE  /\ Elem(k) \in 1..Len(lru) /\ lru[Elem(k)].key = k
         /\ lru[Elem(k)] \in Entry /\ lru[Elem(k)].from \in Tx
<1>1. \E i \in 1..Len(lru) : lru[i].key = k
  BY DEF CacheGood, CacheCoherent
<1>2. Elem(k) \in 1..Len(lru) /\ lru[Elem(k)].key = k
  BY <1>1 DEF Elem
<1>3. lru[Elem(k)] \in Entry
  BY <1>2, ElementOfSeq DEF CacheGood
<1>4. QED
  BY <1>2, <1>3 DEF Entry

(* The list without its i-th element, and the map without its key. *)
LEMMA RestFacts ==
  ASSUME CacheGood, NEW i \in 1..Len(lru)
  PROVE  /\ RemoveAt(lru, i) \in Seq(Entry)
         /\ Len(RemoveAt(lru, i)) = Len(lru) - 1
         /\ Coherent(RemoveAt(lru, i), entries \ {lru[i].key})
<1>1. lru \in Seq(Entry) /\ Coherent(lru, entries)
  BY DEF CacheGood, CacheCoherent, Coherent
<1>2. QED
  BY <1>1, RemoveAtFacts, CoherentRemove

(* A new state of the cache, from its list and its keys. *)
LEMMA CacheGoodNext ==
  ASSUME lru' \in Seq(Entry), Coherent(lru', entries'), entries' \subseteq Key, Len(lru') <= Capacity
  PROVE  CacheGood'
BY DEF CacheGood, CacheCoherent, Coherent

(* A list with one element more, in front. *)
LEMMA PushFront ==
  ASSUME NEW s \in Seq(Entry), NEW E, Coherent(s, E), NEW e \in Entry, e.key \notin E,
         E \subseteq Key, Len(s) + 1 <= Capacity,
         lru' = <<e>> \o s, entries' = E \cup {e.key}
  PROVE  CacheGood'
<1>1. Coherent(lru', entries')
  BY CoherentPrepend
<1>2. lru' \in Seq(Entry) /\ Len(lru') = Len(s) + 1
  BY PrependFacts
<1>3. e.key \in Key
  BY DEF Entry
<1>4. QED
  BY <1>1, <1>2, <1>3, CacheGoodNext

(* The request hook of the cache keeps map and list together. *)
LEMMA CachingOnRequestKeeps ==
  ASSUME CacheGood, NEW t \in Tx, CachingOnRequest(t) PROVE CacheGood'
<1> DEFINE k == key[t]
           i == Elem(k)
<1>1. CASE UNCHANGED cacheVars
  BY <1>1 DEF cacheVars, CacheGood, CacheCoherent
<1>2. CASE k \in entries /\ lru' = RemoveAt(lru, i) /\ entries' = entries \ {k}
  <2>1. i \in 1..Len(lru) /\ lru[i].key = k
    BY <1>2, ElemFacts
  <2>2. lru' \in Seq(Entry) /\ Len(lru') = Len(lru) - 1 /\ Coherent(lru', entries')
    BY <1>2, <2>1, RestFacts
  <2>3. Len(lru) <= Capacity /\ entries \subseteq Key /\ Len(lru) \in Nat
    BY LenProperties DEF CacheGood, CacheCoherent
  <2>4. entries' \subseteq Key /\ Len(lru') <= Capacity
    BY <1>2, <2>2, <2>3, ConfigAssumption
  <2>5. QED
    BY <2>2, <2>4, CacheGoodNext
<1>3. CASE k \in entries /\ lru' = <<lru[i]>> \o RemoveAt(lru, i) /\ entries' = entries
  <2>1. i \in 1..Len(lru) /\ lru[i].key = k /\ lru[i] \in Entry
    BY <1>3, ElemFacts
  <2>2. /\ RemoveAt(lru, i) \in Seq(Entry) /\ Len(RemoveAt(lru, i)) = Len(lru) - 1
        /\ Coherent(RemoveAt(lru, i), entries \ {k})
    BY <2>1, RestFacts
  <2>3. Len(lru) <= Capacity /\ entries \subseteq Key /\ Len(lru) \in Nat
    BY LenProperties DEF CacheGood, CacheCoherent
  <2>4. Len(RemoveAt(lru, i)) + 1 <= Capacity
    BY <2>2, <2>3
  <2>5. entries' = (entries \ {k}) \cup {lru[i].key} /\ lru[i].key \notin entries \ {k}
    BY <1>3, <2>1
  <2>6. QED
    BY <1>3, <2>1, <2>2, <2>3, <2>4, <2>5, PushFront
<1>4. QED
  BY <1>1, <1>2, <1>3 DEF CachingOnRequest, cacheVars

(* Storing a response keeps them together and within the capacity. *)
LEMMA StoreKeeps ==
  ASSUME CacheGood, NEW t \in Tx, key[t] \in Key, StoreResponse(t) PROVE CacheGood'
<1> DEFINE k == key[t]
           e == Fresh(t)
<1>1. e \in Entry /\ e.key = k
  BY DEF Fresh, Entry
<1>2. Len(lru) <= Capacity /\ entries \subseteq Key /\ Len(lru) \in Nat /\ lru \in Seq(Entry)
  BY LenProperties DEF CacheGood, CacheCoherent
<1> HIDE DEF e
<1>3. CASE k \in entries /\ lru' = <<e>> \o RemoveAt(lru, Elem(k)) /\ entries' = entries
  <2> DEFINE i == Elem(k)
  <2>1. i \in 1..Len(lru) /\ lru[i].key = k
    BY <1>3, ElemFacts
  <2>2. /\ RemoveAt(lru, i) \in Seq(Entry) /\ Len(RemoveAt(lru, i)) = Len(lru) - 1
        /\ Coherent(RemoveAt(lru, i), entries \ {k})
    BY <2>1, RestFacts
  <2>3. Len(RemoveAt(lru, i)) + 1 <= Capacity
    BY <2>2, <1>2
  <2>4. entries' = (entries \ {k}) \cup {e.key} /\ e.key \notin entries \ {k}
    BY <1>1, <1>3
  <2>5. QED
    BY <1>1, <1>2, <1>3, <2>2, <2>3, <2>4, PushFront
<1>4. CASE k \notin entries /\ Len(lru) >= Capacity /\ Evict(t)
  <2> DEFINE i == Len(lru)
  <2>1. i \in 1..Len(lru)
    BY <1>2, <1>4, ConfigAssumption
  <2>2. /\ RemoveAt(lru, i) \in Seq(Entry) /\ Len(RemoveAt(lru, i)) = Len(lru) - 1
        /\ Coherent(RemoveAt(lru, i), entries \ {lru[i].key})
    BY <2>1, RestFacts
  <2>3. Len(RemoveAt(lru, i)) + 1 <= Capacity
    BY <2>2, <1>2
  <2>4. /\ lru' = <<e>> \o RemoveAt(lru, i) /\ entries' = (entries \ {lru[i].key}) \cup {e.key}
        /\ e.key \notin entries \ {lru[i].key}
    BY <1>1, <1>4 DEF Evict, e
  <2>5. QED
    BY <1>1, <1>2, <2>2, <2>3, <2>4, PushFront
<1>5. CASE k \notin entries /\ Len(lru) < Capacity /\ lru' = <<e>> \o lru /\ entries' = entries \cup {k}
  <2>1. Coherent(lru, entries) /\ Len(lru) + 1 <= Capacity
    BY <1>2, <1>5, ConfigAssumption DEF CacheGood, CacheCoherent, Coherent
  <2>2. QED
    BY <1>1, <1>2, <1>5, <2>1, PushFront
<1>6. QED
  BY <1>3, <1>4, <1>5 DEF StoreResponse, e

(* An entry that expires keeps its key and its place. *)
LEMMA ExpireKeeps ==
  ASSUME CacheGood, NEW i \in 1..Len(lru), EntryExpires(i) PROVE CacheGood'
<1> DEFINE e == [lru[i] EXCEPT !.expired = TRUE]
<1>1. lru \in Seq(Entry) /\ lru[i] \in Entry
  BY ElementOfSeq DEF CacheGood
<1>2. e \in Entry /\ e.key = lru[i].key
  BY <1>1 DEF Entry
<1>3. lru' = [lru EXCEPT ![i] = e] /\ entries' = entries
  BY DEF EntryExpires
<1> HIDE DEF e
<1>4. lru' \in Seq(Entry) /\ Len(lru') = Len(lru) /\ \A j \in 1..Len(lru) : lru'[j] = IF j = i THEN e ELSE lru[j]
  BY <1>1, <1>2, <1>3, ExceptSeq
<1>5. \A j \in 1..Len(lru) : lru'[j].key = lru[j].key
  BY <1>2, <1>4
<1>6. QED
  BY <1>3, <1>4, <1>5 DEF CacheGood, CacheCoherent

-----------------------------------------------------------------------------
(* Types *)

(* The parts of TypeOK that are not about the cache. *)
BreakerType ==
    /\ config \in Configs
    /\ state \in [Host -> {"closed", "open", "halfOpen"}]
    /\ failures \in [Host -> Nat] /\ successes \in [Host -> Nat]
    /\ halfOpenPending \in [Host -> BOOLEAN] /\ waited \in [Host -> BOOLEAN]
    /\ log \in [Host -> Seq(BOOLEAN)]
ShapingType == inflight \in Nat /\ place \subseteq Tx
PassType ==
    /\ pc \in [Tx -> {"new", "OnRequest", "upstream", "OnResponse", "done"}]
    /\ at \in [Tx -> 1..(Len(chain) + 1)]
DataType ==
    /\ key \in [Tx -> Key]
    /\ mock \in [Tx -> Plugin \cup {None}]
    /\ served \in [Tx -> Tx \cup {None}]
    /\ status \in [Tx -> Status \cup {None}]

(* Types, and the agreement of map and list that the types rest on. *)
TInv == CacheGood /\ BreakerType /\ ShapingType /\ PassType /\ DataType

(* The types follow. *)
LEMMA TInvTypes == TInv => TypeOK /\ CacheCoherent
BY DEF TInv, CacheGood, BreakerType, ShapingType, PassType, DataType, TypeOK

(* What a step leaves alone keeps its type. *)
LEMMA Frames ==
  /\ CacheGood /\ UNCHANGED cacheVars => CacheGood'
  /\ BreakerType /\ UNCHANGED breakerVars => BreakerType'
  /\ ShapingType /\ UNCHANGED shapingVars => ShapingType'
  /\ PassType /\ UNCHANGED <<pc, at>> => PassType'
  /\ DataType /\ UNCHANGED txVars => DataType'
BY DEF CacheGood, CacheCoherent, cacheVars, BreakerType, breakerVars, ShapingType, shapingVars,
       PassType, DataType, txVars

(* A hook that returns moves on to the next plugin of the chain. *)
LEMMA ReturnMoves ==
  ASSUME PassType, NEW t \in Tx, NEW pass, NEW p, Turn(t, pass, p), Return(t)
  PROVE  PassType'
<1>1. Len(chain) \in Nat
  BY ChainAssumption, LenProperties
<1>2. at[t] + 1 \in 1..(Len(chain) + 1)
  BY <1>1 DEF PassType, Turn
<1>3. QED
  BY <1>2 DEF PassType, Return

(* A mocked response has its plugin's name. *)
LEMMA MockedTypes ==
  ASSUME DataType, NEW t \in Tx, NEW p \in Plugin, Mocked(t, p), UNCHANGED served
  PROVE  DataType'
BY DEF DataType, Mocked

(* The breaker's response hook. *)
LEMMA BreakerResponseTypes ==
  ASSUME BreakerType, DataType, NEW t \in Tx, BreakerOnResponse(t) PROVE BreakerType'
<1> DEFINE h == hostOf[key[t]]
<1>1. h \in Host
  BY KeyAssumption DEF DataType
<1>2. log' \in [Host -> Seq(BOOLEAN)]
  <2>1. log[h] \in Seq(BOOLEAN) /\ (status[t] = "5xx") \in BOOLEAN
    BY <1>1 DEF BreakerType
  <2>2. Append(log[h], status[t] = "5xx") \in Seq(BOOLEAN)
    BY <2>1, AppendProperties
  <2>3. log' = [log EXCEPT ![h] = Append(log[h], status[t] = "5xx")]
    BY DEF BreakerOnResponse
  <2>4. QED
    BY <1>1, <2>2, <2>3 DEF BreakerType
<1>3. config' = config
  BY DEF BreakerOnResponse
<1>4. \/ state' = state \/ state' = [state EXCEPT ![h] = "open"] \/ state' = [state EXCEPT ![h] = "closed"]
  BY DEF BreakerOnResponse, Failure, Success, Open
<1>5. \/ failures' = failures \/ failures' = [failures EXCEPT ![h] = 0]
      \/ failures' = [failures EXCEPT ![h] = @ + 1]
  BY DEF BreakerOnResponse, Failure, Success
<1>6. \/ successes' = successes \/ successes' = [successes EXCEPT ![h] = 0]
      \/ successes' = [successes EXCEPT ![h] = @ + 1]
  BY DEF BreakerOnResponse, Failure, Success
<1>7. halfOpenPending' = halfOpenPending \/ halfOpenPending' = [halfOpenPending EXCEPT ![h] = FALSE]
  BY DEF BreakerOnResponse, Failure, Success
<1>8. waited' = waited \/ waited' = [waited EXCEPT ![h] = FALSE]
  BY DEF BreakerOnResponse, Failure, Open
<1> HIDE DEF h
<1>9. state' \in [Host -> {"closed", "open", "halfOpen"}]
  BY <1>4 DEF BreakerType
<1>10. failures' \in [Host -> Nat] /\ successes' \in [Host -> Nat]
  BY <1>5, <1>6 DEF BreakerType
<1>11. halfOpenPending' \in [Host -> BOOLEAN] /\ waited' \in [Host -> BOOLEAN]
  BY <1>7, <1>8 DEF BreakerType
<1>12. QED
  BY <1>2, <1>3, <1>9, <1>10, <1>11 DEF BreakerType

(* The breaker's request hook. *)
LEMMA BreakerRequestTypes ==
  ASSUME BreakerType, NEW t \in Tx, BreakerOnRequest(t) PROVE BreakerType'
<1> DEFINE h == hostOf[key[t]]
<1>1. state' = state \/ state' = [state EXCEPT ![h] = "halfOpen"]
  BY DEF BreakerOnRequest
<1>2. successes' = successes \/ successes' = [successes EXCEPT ![h] = 0]
  BY DEF BreakerOnRequest
<1>3. halfOpenPending' = halfOpenPending \/ halfOpenPending' = [halfOpenPending EXCEPT ![h] = TRUE]
  BY DEF BreakerOnRequest, LetProbe
<1>5. UNCHANGED <<config, failures, waited, log>>
  BY DEF BreakerOnRequest
<1> HIDE DEF h
<1>6. halfOpenPending' \in [Host -> BOOLEAN]
  BY <1>3 DEF BreakerType
<1>7. state' \in [Host -> {"closed", "open", "halfOpen"}]
  BY <1>1 DEF BreakerType
<1>8. successes' \in [Host -> Nat]
  <2>1. successes \in [Host -> Nat]
    BY DEF BreakerType
  <2>2. [successes EXCEPT ![h] = 0] \in [Host -> Nat]
    BY <2>1
  <2>3. QED
    BY <1>2, <2>1, <2>2
<1>9. QED
  BY <1>5, <1>6, <1>7, <1>8 DEF BreakerType

(* One step keeps the types. *)
LEMMA TypeStep == TInv /\ [Next]_vars => TInv'
<1> SUFFICES ASSUME TInv, [Next]_vars PROVE TInv'
  OBVIOUS
<1> USE DEF TInv
<1>0. ASSUME NEW t \in Tx PROVE key[t] \in Key /\ hostOf[key[t]] \in Host
  BY KeyAssumption DEF DataType
<1>1. ASSUME NEW t \in Tx, CachingOnRequest(t) PROVE TInv'
  <2>1. PassType'
    BY <1>1, ReturnMoves DEF CachingOnRequest
  <2>2. CacheGood'
    BY <1>1, CachingOnRequestKeeps
  <2>3. DataType'
    <3>1. CASE UNCHANGED txVars
      BY <3>1, Frames
    <3>2. CASE /\ key[t] \in entries /\ Mocked(t, "caching")
               /\ served' = [served EXCEPT ![t] = lru[Elem(key[t])].from]
      <4>1. lru[Elem(key[t])].from \in Tx
        BY <3>2, ElemFacts
      <4>2. QED
        BY <3>2, <4>1 DEF DataType, Mocked, Plugin
    <3>3. QED
      BY <1>1, <3>1, <3>2 DEF CachingOnRequest
  <2>4. QED
    BY <1>1, <2>1, <2>2, <2>3, Frames DEF CachingOnRequest
<1>2. ASSUME NEW t \in Tx, CachingOnResponse(t) PROVE TInv'
  <2>1. PassType'
    BY <1>2, ReturnMoves DEF CachingOnResponse
  <2>2. CacheGood'
    BY <1>0, <1>2, StoreKeeps, Frames DEF CachingOnResponse
  <2>3. QED
    BY <1>2, <2>1, <2>2, Frames DEF CachingOnResponse
<1>3. ASSUME NEW i \in 1..Len(lru), EntryExpires(i) PROVE TInv'
  <2>1. CacheGood'
    BY <1>3, ExpireKeeps
  <2>2. UNCHANGED <<breakerVars, shapingVars, txVars, pc, at>>
    BY <1>3 DEF EntryExpires
  <2>3. QED
    BY <2>1, <2>2, Frames
<1>4. ASSUME NEW t \in Tx, ShapingOnRequest(t) PROVE TInv'
  <2>1. PassType'
    BY <1>4, ReturnMoves DEF ShapingOnRequest
  <2>2. ShapingType' /\ DataType'
    <3>1. CASE Mocked(t, "traffic-shaping") /\ UNCHANGED <<shapingVars, served>>
      BY <3>1, MockedTypes, Frames DEF Plugin
    <3>2. CASE /\ inflight' = (IF MaxConcurrent > 0 THEN inflight + 1 ELSE inflight)
               /\ place' = place \cup {t} /\ UNCHANGED txVars
      BY <3>2, Frames DEF ShapingType
    <3>3. QED
      BY <1>4, <3>1, <3>2 DEF ShapingOnRequest
  <2>3. UNCHANGED <<cacheVars, breakerVars>>
    BY <1>4 DEF ShapingOnRequest
  <2>4. QED
    BY <2>1, <2>2, <2>3, Frames
<1>5. ASSUME NEW t \in Tx, ShapingOnResponse(t) PROVE TInv'
  <2>1. PassType'
    BY <1>5, ReturnMoves DEF ShapingOnResponse
  <2>2. ShapingType'
    BY <1>5, ConfigAssumption DEF ShapingOnResponse, ShapingType
  <2>3. UNCHANGED <<cacheVars, breakerVars, txVars>>
    BY <1>5 DEF ShapingOnResponse
  <2>4. QED
    BY <2>1, <2>2, <2>3, Frames
<1>6. ASSUME NEW t \in Tx, BreakerOnRequest(t) PROVE TInv'
  <2>1. PassType'
    BY <1>6, ReturnMoves DEF BreakerOnRequest
  <2>2. BreakerType'
    BY <1>6, BreakerRequestTypes
  <2>3. DataType'
    <3>1. CASE UNCHANGED txVars
      BY <3>1, Frames
    <3>2. CASE Mocked(t, "circuit-breaker") /\ UNCHANGED served
      BY <3>2, MockedTypes DEF Plugin
    <3>3. QED
      BY <1>6, <3>1, <3>2 DEF BreakerOnRequest, LetProbe
  <2>4. UNCHANGED <<cacheVars, shapingVars>>
    BY <1>6 DEF BreakerOnRequest
  <2>5. QED
    BY <2>1, <2>2, <2>3, <2>4, Frames
<1>7. ASSUME NEW t \in Tx, BreakerOnResponse(t) PROVE TInv'
  <2>1. PassType'
    BY <1>7, ReturnMoves DEF BreakerOnResponse
  <2>2. BreakerType'
    BY <1>7, BreakerResponseTypes
  <2>3. UNCHANGED <<cacheVars, shapingVars, txVars>>
    BY <1>7 DEF BreakerOnResponse
  <2>4. QED
    BY <2>1, <2>2, <2>3, Frames
<1>8. ASSUME NEW h \in Host, OpenTimeoutPasses(h) PROVE TInv'
  <2>1. BreakerType'
    BY <1>8 DEF OpenTimeoutPasses, BreakerType
  <2>2. UNCHANGED <<cacheVars, shapingVars, txVars, pc, at>>
    BY <1>8 DEF OpenTimeoutPasses
  <2>3. QED
    BY <2>1, <2>2, Frames
<1>9. ASSUME NEW t \in Tx, OtherOnRequest(t) PROVE TInv'
  <2>1. UNCHANGED <<cacheVars, breakerVars, shapingVars>>
    BY <1>9 DEF OtherOnRequest
  <2>2. PassType'
    <3>1. CASE Return(t)
      BY <1>9, <3>1, ReturnMoves DEF OtherOnRequest
    <3>2. CASE pc' = [pc EXCEPT ![t] = "done"] /\ UNCHANGED at
      BY <3>2 DEF PassType
    <3>3. QED
      BY <1>9, <3>1, <3>2 DEF OtherOnRequest
  <2>3. DataType'
    <3>1. CASE UNCHANGED txVars
      BY <3>1, Frames
    <3>2. CASE Mocked(t, "other") /\ UNCHANGED served
      BY <3>2, MockedTypes DEF Plugin
    <3>3. QED
      BY <1>9, <3>1, <3>2 DEF OtherOnRequest
  <2>4. QED
    BY <2>1, <2>2, <2>3, Frames
<1>10. ASSUME NEW t \in Tx, OtherOnResponse(t) PROVE TInv'
  <2>1. UNCHANGED <<cacheVars, breakerVars, shapingVars, key, mock, served>>
    BY <1>10 DEF OtherOnResponse
  <2>2. PassType'
    <3>1. CASE Return(t)
      BY <1>10, <3>1, ReturnMoves DEF OtherOnResponse
    <3>2. CASE pc' = [pc EXCEPT ![t] = "done"] /\ UNCHANGED at
      BY <3>2 DEF PassType
    <3>3. QED
      BY <1>10, <3>1, <3>2 DEF OtherOnResponse
  <2>3. status' = status \/ \E s \in Status : status' = [status EXCEPT ![t] = s]
    BY <1>10 DEF OtherOnResponse
  <2>4. DataType'
    BY <2>1, <2>3 DEF DataType
  <2>5. QED
    BY <2>1, <2>2, <2>4, Frames
<1>11. ASSUME NEW t \in Tx, RunRequest(t) \/ ResponseDecided(t) PROVE TInv'
  <2>1. PassType'
    BY <1>11 DEF RunRequest, ResponseDecided, PassType
  <2>2. UNCHANGED <<cacheVars, breakerVars, shapingVars, txVars>>
    BY <1>11 DEF RunRequest, ResponseDecided
  <2>3. QED
    BY <2>1, <2>2, Frames
<1>12. ASSUME NEW t \in Tx, RequestDecided(t) PROVE TInv'
  <2>1. PassType' /\ DataType'
    BY <1>12 DEF RequestDecided, PassType, DataType
  <2>2. UNCHANGED <<cacheVars, breakerVars, shapingVars>>
    BY <1>12 DEF RequestDecided
  <2>3. QED
    BY <2>1, <2>2, Frames
<1>13. ASSUME NEW t \in Tx, RoundTrip(t) PROVE TInv'
  <2>1. 1 \in 1..(Len(chain) + 1)
    BY ChainAssumption, LenProperties
  <2>2. PassType'
    BY <1>13, <2>1 DEF RoundTrip, PassType
  <2>3. DataType'
    BY <1>13 DEF RoundTrip, DataType
  <2>4. UNCHANGED <<cacheVars, breakerVars, shapingVars>>
    BY <1>13 DEF RoundTrip
  <2>5. QED
    BY <2>2, <2>3, <2>4, Frames
<1>14. CASE UNCHANGED vars
  BY <1>14, Frames DEF vars
<1>15. QED
  BY <1>1, <1>2, <1>3, <1>4, <1>5, <1>6, <1>7, <1>8, <1>9, <1>10, <1>11, <1>12, <1>13, <1>14 DEF Next, Hook

(* The plugins start empty. *)
LEMMA TypeInit == Init => TInv
<1> SUFFICES ASSUME Init PROVE TInv
  OBVIOUS
<1>1. CacheGood
  <2>1. lru = <<>> /\ entries = {}
    BY DEF Init
  <2>2. lru \in Seq(Entry) /\ Len(lru) = 0
    BY <2>1
  <2>3. QED
    BY <2>1, <2>2, ConfigAssumption DEF CacheGood, CacheCoherent
<1>2. BreakerType /\ ShapingType
  BY DEF Init, BreakerType, ShapingType
<1>3. PassType /\ DataType
  <2>1. 1 \in 1..(Len(chain) + 1)
    BY ChainAssumption, LenProperties
  <2>2. QED
    BY <2>1 DEF Init, PassType, DataType
<1>4. QED
  BY <1>1, <1>2, <1>3 DEF TInv

(***************************************************************************)
(* Type correctness of the bundled plugins, and the cache: its map and its *)
(* list hold the same keys and stay within the capacity, whatever hits,    *)
(* updates, evictions and expiries are interleaved.                        *)
(***************************************************************************)
THEOREM CacheAlwaysCoherent == Spec => [](TypeOK /\ CacheCoherent)
<1>1. TInv /\ [Next]_vars => TInv'
  BY TypeStep
<1>2. QED
  BY <1>1, TypeInit, TInvTypes, PTL DEF Spec

-----------------------------------------------------------------------------
(* The circuit *)

(* One more of the same kind at the end of the log. *)
LEMMA LastAppend ==
  ASSUME NEW S, NEW s \in Seq(S), NEW n \in Nat, NEW b \in S, LastAre(n, s, b)
  PROVE  LastAre(n + 1, Append(s, b), b)
<1>1. /\ Len(s) \in Nat /\ Len(Append(s, b)) = Len(s) + 1 /\ Append(s, b)[Len(s) + 1] = b
      /\ \A i \in 1..Len(s) : Append(s, b)[i] = s[i]
  BY LenProperties, AppendProperties
<1>2. n <= Len(s) /\ \A i \in (Len(s) - n + 1)..Len(s) : s[i] = b
  BY DEF LastAre
<1>3. ASSUME NEW i \in (Len(s) - n + 1)..(Len(s) + 1) PROVE Append(s, b)[i] = b
  <2>1. CASE i = Len(s) + 1
    BY <2>1, <1>1
  <2>2. CASE i # Len(s) + 1
    <3>1. i \in (Len(s) - n + 1)..Len(s) /\ i \in 1..Len(s)
      BY <2>2, <1>1, <1>2
    <3>2. QED
      BY <3>1, <1>1, <1>2
  <2>3. QED
    BY <2>1, <2>2
<1>4. (Len(s) + 1) - (n + 1) + 1 = Len(s) - n + 1
  BY <1>1
<1>5. QED
  BY <1>1, <1>2, <1>3, <1>4 DEF LastAre

(* None is trivially of a kind, and fewer of the last are of it too. *)
LEMMA LastFewer ==
  ASSUME NEW S, NEW s \in Seq(S), NEW n \in Nat, NEW m \in Nat, m <= n, NEW b, LastAre(n, s, b)
  PROVE  LastAre(m, s, b)
BY LenProperties DEF LastAre

(* The last zero of a sequence are of any kind. *)
LEMMA LastNone ==
  ASSUME NEW S, NEW s \in Seq(S), NEW b
  PROVE  LastAre(0, s, b)
BY LenProperties DEF LastAre

(* What the counters stand for. *)
Evidence(h) ==
    /\ state[h] = "closed" => LastAre(failures[h], log[h], TRUE)
    /\ state[h] = "halfOpen" => LastAre(successes[h], log[h], FALSE)

(* What a step of one circuit must show. *)
Trip(h) ==
    /\ state[h] = "closed" /\ state'[h] = "open"
          => LastAre(config.failureThreshold, log'[h], TRUE)
    /\ state[h] = "halfOpen" /\ state'[h] = "closed"
          => LastAre(config.successThreshold, log'[h], FALSE)

(* A circuit that a step leaves alone. *)
LEMMA EvidenceFrame ==
  ASSUME NEW h \in Host, Evidence(h), state'[h] = state[h], failures'[h] = failures[h],
         successes'[h] = successes[h], log'[h] = log[h]
  PROVE  Evidence(h)' /\ Trip(h)
BY DEF Evidence, Trip

(* A response with status 5xx. *)
LEMMA FailureShows ==
  ASSUME BreakerType, NEW h \in Host, Evidence(h), Failure(h), log' = [log EXCEPT ![h] = Append(@, TRUE)]
  PROVE  \A g \in Host : Evidence(g) => Evidence(g)' /\ Trip(g)
<1>1. log[h] \in Seq(BOOLEAN) /\ failures[h] \in Nat /\ TRUE \in BOOLEAN /\ config.failureThreshold \in Nat
  BY ConfigAssumption DEF BreakerType
<1>2. log'[h] = Append(log[h], TRUE) /\ log'[h] \in Seq(BOOLEAN)
  BY <1>1, AppendProperties DEF BreakerType
<1>3. Evidence(h)' /\ Trip(h)
  <2>1. CASE state[h] = "closed" /\ failures[h] + 1 >= config.failureThreshold /\ Open(h)
    <3>1. LastAre(failures[h] + 1, log'[h], TRUE)
      BY <1>1, <1>2, <2>1, LastAppend DEF Evidence
    <3>2. LastAre(config.failureThreshold, log'[h], TRUE)
      <4>1. failures[h] + 1 \in Nat /\ config.failureThreshold <= failures[h] + 1
        BY <1>1, <2>1
      <4>2. QED
        BY <1>1, <1>2, <3>1, <4>1, LastFewer
    <3>3. state'[h] = "open"
      BY <2>1 DEF Open, BreakerType
    <3>4. QED
      BY <2>1, <3>2, <3>3 DEF Evidence, Trip
  <2>2. CASE state[h] = "closed" /\ failures' = [failures EXCEPT ![h] = @ + 1] /\ state' = state
    <3>1. LastAre(failures[h] + 1, log'[h], TRUE)
      BY <1>1, <1>2, <2>2, LastAppend DEF Evidence
    <3>2. failures'[h] = failures[h] + 1 /\ state'[h] = "closed"
      BY <2>2 DEF BreakerType
    <3>3. QED
      BY <2>2, <3>1, <3>2 DEF Evidence, Trip
  <2>3. CASE state[h] = "halfOpen" /\ Open(h)
    <3>1. state'[h] = "open"
      BY <2>3 DEF Open, BreakerType
    <3>2. QED
      BY <2>3, <3>1 DEF Evidence, Trip
  <2>4. CASE state[h] = "open" /\ state' = state
    BY <2>4 DEF Evidence, Trip
  <2>5. QED
    BY <2>1, <2>2, <2>3, <2>4 DEF Failure
<1>4. ASSUME NEW g \in Host, g # h, Evidence(g) PROVE Evidence(g)' /\ Trip(g)
  <2>1. state'[g] = state[g]
    BY <1>4 DEF Failure, Open, BreakerType
  <2>2. failures'[g] = failures[g] /\ successes'[g] = successes[g]
    BY <1>4 DEF Failure, BreakerType
  <2>3. log'[g] = log[g]
    BY <1>4 DEF BreakerType
  <2>4. QED
    BY <1>4, <2>1, <2>2, <2>3, EvidenceFrame
<1>5. QED
  BY <1>3, <1>4

(* Any other response. *)
LEMMA SuccessShows ==
  ASSUME BreakerType, NEW h \in Host, Evidence(h), Success(h), log' = [log EXCEPT ![h] = Append(@, FALSE)]
  PROVE  \A g \in Host : Evidence(g) => Evidence(g)' /\ Trip(g)
<1>1. log[h] \in Seq(BOOLEAN) /\ successes[h] \in Nat /\ FALSE \in BOOLEAN /\ config.successThreshold \in Nat
  BY ConfigAssumption DEF BreakerType
<1>2. log'[h] = Append(log[h], FALSE) /\ log'[h] \in Seq(BOOLEAN)
  BY <1>1, AppendProperties DEF BreakerType
<1>3. Evidence(h)' /\ Trip(h)
  <2>1. CASE state[h] = "closed" /\ failures' = [failures EXCEPT ![h] = 0] /\ state' = state
    <3>1. failures'[h] = 0 /\ state'[h] = "closed"
      BY <2>1 DEF BreakerType
    <3>2. LastAre(0, log'[h], TRUE)
      BY <1>2, LastNone
    <3>3. QED
      BY <2>1, <3>1, <3>2 DEF Evidence, Trip
  <2>2. CASE /\ state[h] = "halfOpen" /\ successes[h] + 1 >= config.successThreshold
             /\ state' = [state EXCEPT ![h] = "closed"] /\ failures' = [failures EXCEPT ![h] = 0]
    <3>1. LastAre(successes[h] + 1, log'[h], FALSE)
      BY <1>1, <1>2, <2>2, LastAppend DEF Evidence
    <3>2. LastAre(config.successThreshold, log'[h], FALSE)
      <4>1. successes[h] + 1 \in Nat /\ config.successThreshold <= successes[h] + 1
        BY <1>1, <2>2
      <4>2. QED
        BY <1>1, <1>2, <3>1, <4>1, LastFewer
    <3>3. state'[h] = "closed" /\ failures'[h] = 0
      BY <2>2 DEF BreakerType
    <3>4. LastAre(0, log'[h], TRUE)
      BY <1>2, LastNone
    <3>5. QED
      BY <2>2, <3>2, <3>3, <3>4 DEF Evidence, Trip
  <2>3. CASE state[h] = "halfOpen" /\ successes' = [successes EXCEPT ![h] = @ + 1] /\ state' = state
    <3>1. LastAre(successes[h] + 1, log'[h], FALSE)
      BY <1>1, <1>2, <2>3, LastAppend DEF Evidence
    <3>2. successes'[h] = successes[h] + 1 /\ state'[h] = "halfOpen"
      BY <2>3 DEF BreakerType
    <3>3. QED
      BY <3>1, <3>2 DEF Evidence, Trip
  <2>4. CASE state[h] = "open" /\ state' = state
    BY <2>4 DEF Evidence, Trip
  <2>5. QED
    BY <2>1, <2>2, <2>3, <2>4 DEF Success
<1>4. ASSUME NEW g \in Host, g # h, Evidence(g) PROVE Evidence(g)' /\ Trip(g)
  <2>1. state'[g] = state[g]
    BY <1>4 DEF Success, BreakerType
  <2>2. failures'[g] = failures[g] /\ successes'[g] = successes[g]
    BY <1>4 DEF Success, BreakerType
  <2>3. log'[g] = log[g]
    BY <1>4 DEF BreakerType
  <2>4. QED
    BY <1>4, <2>1, <2>2, <2>3, EvidenceFrame
<1>5. QED
  BY <1>3, <1>4

(* One step: the counters keep their meaning, and a circuit that changes   *)
(* its state has the evidence.                                             *)
LEMMA EvidenceStep ==
  ASSUME TInv, \A h \in Host : Evidence(h), [Next]_vars
  PROVE  \A h \in Host : Evidence(h)' /\ Trip(h)
<1>1. ASSUME UNCHANGED <<state, failures, successes, log>> PROVE \A h \in Host : Evidence(h)' /\ Trip(h)
  BY <1>1 DEF Evidence, Trip
<1>2. ASSUME NEW t \in Tx, BreakerOnRequest(t) PROVE \A h \in Host : Evidence(h)' /\ Trip(h)
  <2>1. PICK h \in Host : h = hostOf[key[t]]
    BY KeyAssumption DEF TInv, DataType
  <2>2. CASE UNCHANGED <<state, successes>>
    BY <1>1, <1>2, <2>2 DEF BreakerOnRequest
  <2>3. CASE state[h] = "open" /\ state' = [state EXCEPT ![h] = "halfOpen"] /\ successes' = [successes EXCEPT ![h] = 0]
    <3>0. failures' = failures /\ log' = log
      BY <1>2 DEF BreakerOnRequest
    <3>1. state'[h] = "halfOpen" /\ successes'[h] = 0
      BY <2>3 DEF TInv, BreakerType
    <3>2. LastAre(0, log'[h], FALSE)
      <4>1. log'[h] \in Seq(BOOLEAN)
        BY <3>0 DEF TInv, BreakerType
      <4>2. QED
        BY <4>1, LastNone
    <3>3. Evidence(h)' /\ Trip(h)
      BY <2>3, <3>1, <3>2 DEF Evidence, Trip
    <3>4. ASSUME NEW g \in Host, g # h PROVE Evidence(g)' /\ Trip(g)
      <4>1. state'[g] = state[g] /\ successes'[g] = successes[g]
        BY <2>3, <3>4 DEF TInv, BreakerType
      <4>2. QED
        BY <3>0, <4>1, EvidenceFrame
    <3>5. QED
      BY <3>3, <3>4
  <2>4. QED
    BY <1>2, <2>1, <2>2, <2>3 DEF BreakerOnRequest
<1>3. ASSUME NEW t \in Tx, BreakerOnResponse(t) PROVE \A h \in Host : Evidence(h)' /\ Trip(h)
  <2>1. PICK h \in Host : h = hostOf[key[t]]
    BY KeyAssumption DEF TInv, DataType
  <2>2. log' = [log EXCEPT ![h] = Append(@, status[t] = "5xx")]
    BY <1>3, <2>1 DEF BreakerOnResponse
  <2>3. CASE status[t] = "5xx"
    <3>1. Failure(h)
      BY <1>3, <2>1, <2>3 DEF BreakerOnResponse
    <3>2. (status[t] = "5xx") = TRUE
      BY <2>3
    <3>3. log' = [log EXCEPT ![h] = Append(@, TRUE)]
      BY <2>2, <3>2, Zenon
    <3>4. QED
      BY <3>1, <3>3, FailureShows DEF TInv
  <2>4. CASE status[t] # "5xx"
    <3>1. Success(h)
      BY <1>3, <2>1, <2>4 DEF BreakerOnResponse
    <3>2. (status[t] = "5xx") = FALSE
      BY <2>4
    <3>3. log' = [log EXCEPT ![h] = Append(@, FALSE)]
      BY <2>2, <3>2, Zenon
    <3>4. QED
      BY <3>1, <3>3, SuccessShows DEF TInv
  <2>5. QED
    BY <2>3, <2>4
<1>4. CASE UNCHANGED vars
  BY <1>1, <1>4 DEF vars, breakerVars
<1>5. ASSUME NEW h \in Host, OpenTimeoutPasses(h) PROVE UNCHANGED <<state, failures, successes, log>>
  BY <1>5 DEF OpenTimeoutPasses
<1>6. ASSUME NEW i \in 1..Len(lru), EntryExpires(i) PROVE UNCHANGED <<state, failures, successes, log>>
  BY <1>6 DEF EntryExpires, breakerVars
<1>7. ASSUME NEW t \in Tx,
             \/ CachingOnRequest(t) \/ CachingOnResponse(t) \/ ShapingOnRequest(t) \/ ShapingOnResponse(t)
             \/ OtherOnRequest(t) \/ OtherOnResponse(t)
             \/ RunRequest(t) \/ RequestDecided(t) \/ RoundTrip(t) \/ ResponseDecided(t)
      PROVE  UNCHANGED <<state, failures, successes, log>>
  BY <1>7 DEF CachingOnRequest, CachingOnResponse, ShapingOnRequest, ShapingOnResponse, OtherOnRequest,
              OtherOnResponse, RunRequest, RequestDecided, RoundTrip, ResponseDecided, breakerVars
<1>8. QED
  BY <1>1, <1>2, <1>3, <1>4, <1>5, <1>6, <1>7 DEF Next, Hook

(* No responses, no evidence needed. *)
LEMMA EvidenceInit == Init => \A h \in Host : Evidence(h)
<1> SUFFICES ASSUME Init, NEW h \in Host PROVE Evidence(h)
  OBVIOUS
<1>1. state[h] = "closed" /\ failures[h] = 0 /\ log[h] = <<>>
  BY DEF Init
<1>2. LastAre(0, log[h], TRUE)
  <2>1. log[h] \in Seq(BOOLEAN)
    BY <1>1
  <2>2. QED
    BY <2>1, LastNone
<1>3. QED
  BY <1>1, <1>2 DEF Evidence

(***************************************************************************)
(* For any thresholds and any interleaving of responses, a circuit opens   *)
(* only on FailureThreshold failures in a row and closes only on           *)
(* SuccessThreshold successes in a row.                                    *)
(***************************************************************************)
THEOREM CircuitNeedsEvidence == Spec => TripsOnEvidence
<1> DEFINE EInv == TInv /\ \A h \in Host : Evidence(h)
           Trips == \A h \in Host : Trip(h)
<1>1. Init => EInv
  BY TypeInit, EvidenceInit
<1>2. EInv /\ [Next]_vars => EInv' /\ Trips
  BY TypeStep, EvidenceStep
<1>3. [Trips]_vars <=> [\A h \in Host :
          /\ state[h] = "closed" /\ state'[h] = "open"
                => LastAre(config.failureThreshold, log'[h], TRUE)
          /\ state[h] = "halfOpen" /\ state'[h] = "closed"
                => LastAre(config.successThreshold, log'[h], FALSE)]_vars
  BY DEF Trip
<1> HIDE DEF EInv, Trips
<1>4. QED
  BY <1>1, <1>2, <1>3, PTL DEF Spec, TripsOnEvidence

-----------------------------------------------------------------------------
(* Traffic shaping *)

Shaper == "traffic-shaping"

(* A transaction that may still come to TrafficShaping's OnResponse has a  *)
(* place: one that was turned away is mocked, and stays so.                *)
Placed(t) ==
    /\ pc[t] = "new" => at[t] = 1
    /\ (pc[t] = "OnRequest" /\ mock[t] = None /\ \E i \in 1..(at[t] - 1) : chain[i] = Shaper) => t \in place
    /\ (pc[t] = "upstream" /\ \E i \in 1..Len(chain) : chain[i] = Shaper) => t \in place
    /\ (pc[t] = "OnResponse" /\ \E i \in at[t]..Len(chain) : chain[i] = Shaper) => t \in place

PInv == TInv /\ (\A t \in Tx : Placed(t)) /\ ConcurrencyLimited

(* Transactions that a step leaves alone. *)
LEMMA PlacedFrame ==
  ASSUME NEW t \in Tx, Placed(t), pc'[t] = pc[t], at'[t] = at[t], mock'[t] = mock[t],
         t \in place => t \in place'
  PROVE  Placed(t)'
BY DEF Placed

(* Fewer transactions inside, the same count. *)
LEMMA FewerInside ==
  ASSUME TInv, ConcurrencyLimited, Inside' \subseteq Inside, inflight' = inflight
  PROVE  ConcurrencyLimited'
<1>1. IsFiniteSet(Inside)
  BY TxAssumption, FS_Subset DEF Inside, TInv, ShapingType
<1>2. Cardinality(Inside') <= Cardinality(Inside) /\ Cardinality(Inside') \in Nat /\ Cardinality(Inside) \in Nat
  BY <1>1, FS_Subset, FS_CardinalityType
<1>3. inflight \in Nat
  BY DEF TInv, ShapingType
<1>4. QED
  BY <1>2, <1>3, ConfigAssumption DEF ConcurrencyLimited

(* A hook of another plugin. *)
LEMMA OtherHooks ==
  ASSUME PInv, NEW t \in Tx, NEW pass \in {"OnRequest", "OnResponse"}, NEW p, p # Shaper, Turn(t, pass, p), Return(t),
         UNCHANGED shapingVars,
         mock' = mock \/ \E q \in Plugin : mock' = [mock EXCEPT ![t] = q]
  PROVE  (\A u \in Tx : Placed(u)') /\ ConcurrencyLimited'
<1>1. pc' = pc /\ at' = [at EXCEPT ![t] = @ + 1] /\ place' = place /\ inflight' = inflight
  BY DEF Return, shapingVars
<1>2. ConcurrencyLimited'
  BY <1>1, FewerInside DEF PInv, Inside
<1>3. PassType /\ DataType /\ Len(chain) \in Nat
  BY ChainAssumption, LenProperties DEF PInv, TInv
<1>4. Placed(t)'
  <2>1. at'[t] = at[t] + 1 /\ at[t] \in 1..Len(chain) /\ chain[at[t]] # Shaper
    BY <1>1, <1>3 DEF PassType, Turn
  <2>2. mock'[t] = None => mock[t] = None
    BY <1>3, TxAssumption DEF DataType
  <2>3. pc'[t] = pc[t]
    BY <1>1
  <2>4. (\E i \in 1..(at'[t] - 1) : chain[i] = Shaper) => \E i \in 1..(at[t] - 1) : chain[i] = Shaper
    BY <2>1
  <2>5. (\E i \in at'[t]..Len(chain) : chain[i] = Shaper) => \E i \in at[t]..Len(chain) : chain[i] = Shaper
    BY <2>1, <1>3
  <2>6. Placed(t) /\ pc[t] = pass /\ at[t] <= Len(chain)
    BY DEF PInv, Turn
  <2>7. pc'[t] # "new"
    BY <2>3, <2>6
  <2>8. QED
    BY <1>1, <2>2, <2>3, <2>4, <2>5, <2>6, <2>7 DEF Placed
<1>5. ASSUME NEW u \in Tx, u # t PROVE Placed(u)'
  <2>1. at'[u] = at[u] /\ mock'[u] = mock[u]
    BY <1>1, <1>3, <1>5 DEF PassType, DataType
  <2>2. QED
    BY <1>1, <2>1, PlacedFrame DEF PInv
<1>6. QED
  BY <1>2, <1>4, <1>5

(* TrafficShaping's own request hook: a place is taken and counted, or the *)
(* request is mocked.                                                      *)
LEMMA ShaperRequest ==
  ASSUME PInv, NEW t \in Tx, ShapingOnRequest(t)
  PROVE  (\A u \in Tx : Placed(u)') /\ ConcurrencyLimited'
<1>1. /\ pc' = pc /\ at' = [at EXCEPT ![t] = @ + 1] /\ pc[t] = "OnRequest"
  BY DEF ShapingOnRequest, Return, Turn
<1>2. PassType /\ DataType /\ ShapingType
  BY DEF PInv, TInv
<1>3. CASE Mocked(t, Shaper) /\ UNCHANGED <<shapingVars, served>>
  <2>1. mock'[t] # None /\ place' = place /\ inflight' = inflight
    BY <1>2, <1>3, TxAssumption DEF Mocked, DataType, shapingVars, Plugin, Shaper
  <2>2. Placed(t)'
    BY <1>1, <2>1 DEF Placed
  <2>3. ASSUME NEW u \in Tx, u # t PROVE Placed(u)'
    <3>1. at'[u] = at[u] /\ mock'[u] = mock[u]
      BY <1>1, <1>2, <1>3, <2>3 DEF PassType, DataType, Mocked
    <3>2. QED
      BY <1>1, <2>1, <3>1, PlacedFrame DEF PInv
  <2>4. ConcurrencyLimited'
    BY <1>1, <2>1, FewerInside DEF PInv, Inside
  <2>5. QED
    BY <2>2, <2>3, <2>4
<1>4. CASE /\ ~(MaxConcurrent > 0 /\ inflight >= MaxConcurrent)
           /\ inflight' = (IF MaxConcurrent > 0 THEN inflight + 1 ELSE inflight)
           /\ place' = place \cup {t} /\ UNCHANGED txVars
  <2>1. Placed(t)'
    BY <1>1, <1>4 DEF Placed
  <2>2. ASSUME NEW u \in Tx, u # t PROVE Placed(u)'
    <3>1. at'[u] = at[u] /\ mock' = mock
      BY <1>1, <1>2, <1>4, <2>2 DEF PassType, txVars
    <3>2. QED
      BY <1>1, <1>4, <3>1, PlacedFrame DEF PInv
  <2>3. Inside' = Inside \cup {t}
    BY <1>1, <1>4 DEF Inside
  <2>4. IsFiniteSet(Inside)
    BY <1>2, TxAssumption, FS_Subset DEF Inside, ShapingType
  <2>5. Cardinality(Inside') <= Cardinality(Inside) + 1 /\ Cardinality(Inside') \in Nat /\ Cardinality(Inside) \in Nat
    <3>1. IsFiniteSet(Inside \cup {t}) /\ Cardinality(Inside) \in Nat
      BY <2>4, FS_AddElement, FS_CardinalityType
    <3>2. Cardinality(Inside \cup {t}) \in Nat
      BY <3>1, FS_CardinalityType
    <3>3. CASE t \in Inside
      <4>1. Inside \cup {t} = Inside
        BY <3>3
      <4>2. QED
        BY <2>3, <3>1, <4>1
    <3>4. CASE t \notin Inside
      <4>1. Cardinality(Inside \cup {t}) = Cardinality(Inside) + 1
        BY <2>4, <3>4, FS_AddElement
      <4>2. QED
        BY <2>3, <3>1, <3>2, <4>1
    <3>5. QED
      BY <3>3, <3>4
  <2>6. ASSUME MaxConcurrent > 0 PROVE Cardinality(Inside') <= inflight' /\ inflight' <= MaxConcurrent
    <3>1. inflight \in Nat /\ inflight' = inflight + 1 /\ ~(inflight >= MaxConcurrent)
      BY <1>2, <1>4, <2>6 DEF ShapingType
    <3>2. Cardinality(Inside) <= inflight
      BY <2>6 DEF PInv, ConcurrencyLimited
    <3>3. QED
      BY <2>5, <3>1, <3>2, ConfigAssumption
  <2>7. QED
    BY <2>1, <2>2, <2>6 DEF ConcurrencyLimited
<1>5. QED
  BY <1>3, <1>4 DEF ShapingOnRequest, Shaper

(* Its response hook: the transaction had a place and gives it back. *)
LEMMA ShaperResponse ==
  ASSUME PInv, NEW t \in Tx, ShapingOnResponse(t)
  PROVE  (\A u \in Tx : Placed(u)') /\ ConcurrencyLimited'
<1>1. /\ pc' = pc /\ at' = [at EXCEPT ![t] = @ + 1] /\ pc[t] = "OnResponse" /\ mock' = mock
      /\ at[t] <= Len(chain) /\ chain[at[t]] = Shaper
      /\ inflight' = (IF MaxConcurrent > 0 /\ inflight > 0 THEN inflight - 1 ELSE inflight)
      /\ place' = place \ {t}
  BY DEF ShapingOnResponse, Return, Turn, Shaper, txVars
<1>2. PassType /\ DataType /\ ShapingType /\ Len(chain) \in Nat
  BY ChainAssumption, LenProperties DEF PInv, TInv
<1>3. at[t] \in 1..Len(chain) /\ at'[t] = at[t] + 1
  BY <1>1, <1>2 DEF PassType
<1>4. t \in Inside
  <2>1. \E i \in at[t]..Len(chain) : chain[i] = Shaper
    BY <1>1, <1>2, <1>3
  <2>2. t \in place
    BY <1>1, <2>1 DEF PInv, Placed
  <2>3. QED
    BY <1>1, <2>2 DEF Inside
<1>5. Placed(t)'
  <2>1. ~\E i \in (at[t] + 1)..Len(chain) : chain[i] = Shaper
    BY <1>1, <1>2, <1>3, ChainAssumption
  <2>2. QED
    BY <1>1, <1>3, <2>1 DEF Placed
<1>6. ASSUME NEW u \in Tx, u # t PROVE Placed(u)'
  <2>1. at'[u] = at[u]
    BY <1>1, <1>2, <1>6 DEF PassType
  <2>2. QED
    BY <1>1, <1>6, <2>1, PlacedFrame DEF PInv
<1>7. Inside' = Inside \ {t}
  BY <1>1 DEF Inside
<1>8. IsFiniteSet(Inside)
  BY <1>2, TxAssumption, FS_Subset DEF Inside, ShapingType
<1>9. Cardinality(Inside') = Cardinality(Inside) - 1 /\ Cardinality(Inside') \in Nat /\ Cardinality(Inside) \in Nat
  <2>1. Cardinality(Inside \ {t}) = Cardinality(Inside) - 1
    BY <1>4, <1>8, FS_RemoveElement
  <2>2. IsFiniteSet(Inside \ {t})
    BY <1>8, FS_Subset
  <2>3. QED
    BY <1>7, <1>8, <2>1, <2>2, FS_CardinalityType
<1>10. ASSUME MaxConcurrent > 0 PROVE Cardinality(Inside') <= inflight' /\ inflight' <= MaxConcurrent
  <2>1. inflight \in Nat /\ Cardinality(Inside) <= inflight /\ inflight <= MaxConcurrent
    BY <1>2, <1>10 DEF PInv, ConcurrencyLimited, ShapingType
  <2>2. inflight > 0 /\ inflight' = inflight - 1
    BY <1>1, <1>9, <1>10, <2>1
  <2>3. QED
    BY <1>9, <2>1, <2>2, ConfigAssumption
<1>11. QED
  BY <1>5, <1>6, <1>10 DEF ConcurrencyLimited

(* Steps of one transaction that are not hooks. *)
LEMMA StageMoves ==
  ASSUME PInv, NEW t \in Tx, UNCHANGED <<shapingVars, mock>>, pc[t] # "done",
         NEW stage, pc' = [pc EXCEPT ![t] = stage],
         at' = at \/ at' = [at EXCEPT ![t] = 1], Placed(t)'
  PROVE  (\A u \in Tx : Placed(u)') /\ ConcurrencyLimited'
<1>1. PassType
  BY DEF PInv, TInv
<1>2. ASSUME NEW u \in Tx, u # t PROVE Placed(u)'
  <2>1. pc'[u] = pc[u] /\ at'[u] = at[u]
    BY <1>1, <1>2 DEF PassType
  <2>2. QED
    BY <2>1, PlacedFrame DEF PInv, shapingVars
<1>3. Inside' \subseteq Inside
  BY <1>1 DEF Inside, PassType, shapingVars
<1>4. QED
  BY <1>2, <1>3, FewerInside DEF PInv, shapingVars

(* One step keeps places and count together. *)
LEMMA PlaceStep == PInv /\ [Next]_vars => PInv'
<1> SUFFICES ASSUME PInv, [Next]_vars PROVE PInv'
  OBVIOUS
<1>0. TInv'
  BY TypeStep DEF PInv
<1> DEFINE Goal == (\A u \in Tx : Placed(u)') /\ ConcurrencyLimited'
<1>1. ASSUME NEW t \in Tx, CachingOnRequest(t) PROVE Goal
  <2>1. mock' = mock \/ \E q \in Plugin : mock' = [mock EXCEPT ![t] = q]
    BY <1>1 DEF CachingOnRequest, Mocked, txVars, Plugin
  <2>2. Turn(t, "OnRequest", "caching") /\ Return(t) /\ UNCHANGED shapingVars
    BY <1>1 DEF CachingOnRequest
  <2>3. QED
    BY <2>1, <2>2, OtherHooks DEF Shaper
<1>2. ASSUME NEW t \in Tx, CachingOnResponse(t) PROVE Goal
  BY <1>2, OtherHooks DEF CachingOnResponse, txVars, Shaper
<1>3. ASSUME NEW t \in Tx, BreakerOnRequest(t) PROVE Goal
  <2>1. mock' = mock \/ \E q \in Plugin : mock' = [mock EXCEPT ![t] = q]
    BY <1>3 DEF BreakerOnRequest, LetProbe, Mocked, txVars, Plugin
  <2>2. Turn(t, "OnRequest", "circuit-breaker") /\ Return(t) /\ UNCHANGED shapingVars
    BY <1>3 DEF BreakerOnRequest
  <2>3. QED
    BY <2>1, <2>2, OtherHooks DEF Shaper
<1>4. ASSUME NEW t \in Tx, BreakerOnResponse(t) PROVE Goal
  <2>1. Turn(t, "OnResponse", "circuit-breaker") /\ Return(t) /\ UNCHANGED shapingVars /\ mock' = mock
    BY <1>4 DEF BreakerOnResponse, txVars
  <2>2. QED
    BY <2>1, OtherHooks DEF Shaper
<1>5. ASSUME NEW t \in Tx, OtherOnRequest(t) PROVE Goal
  <2>1. Turn(t, "OnRequest", "other") /\ UNCHANGED shapingVars
    BY <1>5 DEF OtherOnRequest
  <2>2. CASE Return(t) /\ (mock' = mock \/ \E q \in Plugin : mock' = [mock EXCEPT ![t] = q])
    BY <2>1, <2>2, OtherHooks DEF Shaper
  <2>3. CASE pc' = [pc EXCEPT ![t] = "done"] /\ UNCHANGED <<at, txVars>>
    <3>1. pc'[t] = "done" /\ pc[t] # "done"
      BY <2>1, <2>3 DEF Turn, PInv, TInv, PassType
    <3>2. Placed(t)'
      BY <3>1 DEF Placed
    <3>3. QED
      BY <2>1, <2>3, <3>1, <3>2, StageMoves DEF txVars
  <2>4. QED
    BY <1>5, <2>2, <2>3 DEF OtherOnRequest, Mocked, txVars, Plugin
<1>6. ASSUME NEW t \in Tx, OtherOnResponse(t) PROVE Goal
  <2>1. Turn(t, "OnResponse", "other") /\ UNCHANGED <<shapingVars, mock>>
    BY <1>6 DEF OtherOnResponse
  <2>2. CASE Return(t)
    BY <2>1, <2>2, OtherHooks DEF Shaper
  <2>3. CASE pc' = [pc EXCEPT ![t] = "done"] /\ UNCHANGED at
    <3>1. pc'[t] = "done" /\ pc[t] # "done"
      BY <2>1, <2>3 DEF Turn, PInv, TInv, PassType
    <3>2. Placed(t)'
      BY <3>1 DEF Placed
    <3>3. QED
      BY <2>1, <2>3, <3>1, <3>2, StageMoves
  <2>4. QED
    BY <1>6, <2>2, <2>3 DEF OtherOnResponse
<1>7. ASSUME NEW t \in Tx, RunRequest(t) PROVE Goal
  <2>1. pc[t] = "new" /\ pc' = [pc EXCEPT ![t] = "OnRequest"] /\ at' = at /\ UNCHANGED <<shapingVars, mock>>
    BY <1>7 DEF RunRequest, txVars
  <2>2. pc'[t] = "OnRequest" /\ at[t] = 1
    BY <2>1 DEF PInv, TInv, PassType, Placed
  <2>3. Placed(t)'
    BY <2>1, <2>2 DEF Placed
  <2>4. QED
    BY <2>1, <2>3, StageMoves
<1>8. ASSUME NEW t \in Tx, RequestDecided(t) PROVE Goal
  <2>1. pc[t] = "OnRequest" /\ at[t] = Len(chain) + 1 /\ at' = at /\ UNCHANGED <<shapingVars, mock>>
    BY <1>8 DEF RequestDecided
  <2>2. Len(chain) \in Nat
    BY ChainAssumption, LenProperties
  <2>3. CASE pc' = [pc EXCEPT ![t] = "done"]
    <3>1. pc'[t] = "done"
      BY <2>3 DEF PInv, TInv, PassType
    <3>2. Placed(t)'
      BY <3>1 DEF Placed
    <3>3. QED
      BY <2>1, <2>3, <3>2, StageMoves
  <2>4. CASE pc' = [pc EXCEPT ![t] = "upstream"] /\ mock[t] = None
    <3>1. pc'[t] = "upstream"
      BY <2>4 DEF PInv, TInv, PassType
    <3>2. (\E i \in 1..Len(chain) : chain[i] = Shaper) => t \in place
      <4>1. (Len(chain) + 1) - 1 = Len(chain)
        BY <2>2
      <4>2. QED
        BY <2>1, <2>4, <4>1 DEF PInv, Placed
    <3>3. Placed(t)'
      BY <2>1, <3>1, <3>2 DEF Placed, shapingVars
    <3>4. QED
      BY <2>1, <2>4, <3>3, StageMoves
  <2>5. QED
    BY <1>8, <2>3, <2>4 DEF RequestDecided
<1>9. ASSUME NEW t \in Tx, RoundTrip(t) PROVE Goal
  <2>1. pc[t] = "upstream" /\ UNCHANGED <<shapingVars, mock>>
    BY <1>9 DEF RoundTrip
  <2>2. CASE pc' = [pc EXCEPT ![t] = "done"] /\ UNCHANGED at
    <3>1. pc'[t] = "done"
      BY <2>2 DEF PInv, TInv, PassType
    <3>2. Placed(t)'
      BY <3>1 DEF Placed
    <3>3. QED
      BY <2>1, <2>2, <3>2, StageMoves
  <2>3. CASE pc' = [pc EXCEPT ![t] = "OnResponse"] /\ at' = [at EXCEPT ![t] = 1]
    <3>1. pc'[t] = "OnResponse" /\ at'[t] = 1
      BY <2>3 DEF PInv, TInv, PassType
    <3>2. (\E i \in 1..Len(chain) : chain[i] = Shaper) => t \in place
      BY <2>1 DEF PInv, Placed
    <3>3. Placed(t)'
      BY <2>1, <3>1, <3>2 DEF Placed, shapingVars
    <3>4. QED
      BY <2>1, <2>3, <3>3, StageMoves
  <2>4. QED
    BY <1>9, <2>2, <2>3 DEF RoundTrip
<1>10. ASSUME NEW t \in Tx, ResponseDecided(t) PROVE Goal
  <2>1. pc[t] = "OnResponse" /\ pc' = [pc EXCEPT ![t] = "done"] /\ at' = at /\ UNCHANGED <<shapingVars, mock>>
    BY <1>10 DEF ResponseDecided, txVars
  <2>2. pc'[t] = "done"
    BY <2>1 DEF PInv, TInv, PassType
  <2>3. Placed(t)'
    BY <2>2 DEF Placed
  <2>4. QED
    BY <2>1, <2>3, StageMoves
<1>11. ASSUME UNCHANGED <<shapingVars, pc, at, mock>> PROVE Goal
  <2>1. \A u \in Tx : Placed(u)'
    BY <1>11, PlacedFrame DEF PInv, shapingVars
  <2>2. ConcurrencyLimited'
    BY <1>11, FewerInside DEF PInv, shapingVars, Inside
  <2>3. QED
    BY <2>1, <2>2
<1>12. ASSUME NEW i \in 1..Len(lru), EntryExpires(i) PROVE Goal
  BY <1>11, <1>12 DEF EntryExpires, txVars
<1>13. ASSUME NEW h \in Host, OpenTimeoutPasses(h) PROVE Goal
  BY <1>11, <1>13 DEF OpenTimeoutPasses, txVars
<1>14. ASSUME UNCHANGED vars PROVE Goal
  BY <1>11, <1>14 DEF vars, txVars
<1>15. Goal
  <2>1. ASSUME NEW t \in Tx, Hook(t) PROVE Goal
    <3>1. CASE ShapingOnRequest(t)
      BY <3>1, ShaperRequest
    <3>2. CASE ShapingOnResponse(t)
      BY <3>2, ShaperResponse
    <3> HIDE DEF Goal
    <3>3. QED
      BY <2>1, <3>1, <3>2, <1>1, <1>2, <1>3, <1>4, <1>5, <1>6 DEF Hook
  <2> HIDE DEF Goal
  <2>2. QED
    BY <2>1, <1>7, <1>8, <1>9, <1>10, <1>12, <1>13, <1>14 DEF Next
<1>16. QED
  BY <1>0, <1>15 DEF PInv

(* No transaction is in the chain at first. *)
LEMMA PlaceInit == Init => PInv
<1> SUFFICES ASSUME Init PROVE PInv
  OBVIOUS
<1>1. \A t \in Tx : Placed(t)
  BY DEF Init, Placed
<1>2. ConcurrencyLimited
  <2>1. Inside = {} /\ inflight = 0
    BY DEF Init, Inside
  <2>2. QED
    BY <2>1, FS_EmptySet, ConfigAssumption DEF ConcurrencyLimited
<1>3. QED
  BY <1>1, <1>2, TypeInit DEF PInv

(***************************************************************************)
(* For any chain, any limit and any number of transactions, no more than   *)
(* MaxConcurrent of them are between TrafficShaping's two hooks: the       *)
(* counter never falls below them, since only a transaction with a place   *)
(* reaches the hook that gives one back.                                   *)
(***************************************************************************)
THEOREM ShapingKeepsLimit == Spec => []ConcurrencyLimited
<1>1. PInv /\ [Next]_vars => PInv'
  BY PlaceStep
<1>2. PInv => ConcurrencyLimited
  BY DEF PInv
<1>3. QED
  BY <1>1, <1>2, PlaceInit, PTL DEF Spec

-----------------------------------------------------------------------------
(* What the cache answers with *)

(* Under keys k and statuses st, entry e is the answer its transaction was forwarded for. *)
Truth(e, k, st) == e.from \in Tx /\ k[e.from] = e.key /\ st[e.from] # None
ListTrue(s, k, st) == \A i \in 1..Len(s) : Truth(s[i], k, st)

(* A transaction with an upstream response is past the point where its request may be edited. *)
PastEdits == \A t \in Tx : status[t] # None => pc[t] \in {"OnResponse", "done"}

HInv == TInv /\ PastEdits /\ ListTrue(lru, key, status) /\ HitIsTrue

(* An element taken out of the list leaves the others true. *)
LEMMA RemoveTrue ==
  ASSUME NEW s \in Seq(Entry), NEW i \in 1..Len(s), NEW k, NEW st, ListTrue(s, k, st)
  PROVE  ListTrue(RemoveAt(s, i), k, st)
<1> DEFINE n == Len(s)
           r == RemoveAt(s, i)
<1>1. /\ n \in Nat /\ Len(r) = n - 1
      /\ \A j \in 1..(n - 1) : r[j] = IF j < i THEN s[j] ELSE s[j + 1]
  BY RemoveAtFacts, LenProperties
<1>2. i \in 1..n /\ \A j \in 1..n : Truth(s[j], k, st)
  BY DEF ListTrue
<1> HIDE DEF n, r
<1>3. \A j \in 1..(n - 1) : j \in 1..n /\ j + 1 \in 1..n
  BY <1>1
<1>4. \A j \in 1..(n - 1) : Truth(r[j], k, st)
  BY <1>1, <1>2, <1>3
<1>5. QED
  BY <1>1, <1>4 DEF ListTrue, r

(* A true element may be put in front. *)
LEMMA PrependTrue ==
  ASSUME NEW s \in Seq(Entry), NEW e \in Entry, NEW k, NEW st, ListTrue(s, k, st), Truth(e, k, st)
  PROVE  ListTrue(<<e>> \o s, k, st)
<1> DEFINE n == Len(s)
           r == <<e>> \o s
<1>1. n \in Nat /\ Len(r) = n + 1 /\ r[1] = e /\ \A j \in 2..(n + 1) : r[j] = s[j - 1]
  BY PrependFacts, LenProperties
<1>2. \A j \in 1..n : Truth(s[j], k, st)
  BY DEF ListTrue
<1> HIDE DEF n, r
<1>3. \A j \in 1..(n + 1) : j = 1 \/ (j \in 2..(n + 1) /\ j - 1 \in 1..n)
  BY <1>1
<1>4. \A j \in 1..(n + 1) : Truth(r[j], k, st)
  BY <1>1, <1>2, <1>3
<1>5. QED
  BY <1>1, <1>4 DEF ListTrue, r

(* A hit answers with an entry of the request's own key, and only moves it. *)
LEMMA HitFacts ==
  ASSUME HInv, NEW t \in Tx, CachingOnRequest(t)
  PROVE  /\ ListTrue(lru', key, status)
         /\ UNCHANGED <<key, status, pc>>
         /\ \/ UNCHANGED <<mock, served>>
            \/ \E u \in Tx : /\ key[u] = key[t] /\ status[u] # None
                             /\ mock' = [mock EXCEPT ![t] = "caching"]
                             /\ served' = [served EXCEPT ![t] = u]
<1> DEFINE k == key[t]
           i == Elem(k)
<1>1. CacheGood /\ lru \in Seq(Entry) /\ ListTrue(lru, key, status)
  BY DEF HInv, TInv, CacheGood
<1>2. UNCHANGED <<key, status, pc>>
  BY DEF CachingOnRequest, Return, Mocked, txVars
<1>3. ASSUME k \in entries
      PROVE  /\ i \in 1..Len(lru) /\ lru[i] \in Entry /\ lru[i].key = k
             /\ Truth(lru[i], key, status) /\ RemoveAt(lru, i) \in Seq(Entry)
             /\ ListTrue(RemoveAt(lru, i), key, status)
  <2>1. i \in 1..Len(lru) /\ lru[i].key = k /\ lru[i] \in Entry
    BY <1>1, <1>3, ElemFacts
  <2>2. Truth(lru[i], key, status)
    BY <1>1, <2>1 DEF ListTrue
  <2>3. RemoveAt(lru, i) \in Seq(Entry) /\ ListTrue(RemoveAt(lru, i), key, status)
    BY <1>1, <2>1, RemoveAtFacts, RemoveTrue
  <2>4. QED
    BY <2>1, <2>2, <2>3
<1>4. CASE UNCHANGED <<cacheVars, txVars>>
  BY <1>1, <1>2, <1>4 DEF cacheVars, txVars
<1>5. CASE k \in entries /\ lru' = RemoveAt(lru, i) /\ UNCHANGED txVars
  BY <1>2, <1>3, <1>5 DEF txVars
<1>6. CASE /\ k \in entries /\ lru' = <<lru[i]>> \o RemoveAt(lru, i) /\ Mocked(t, "caching")
           /\ served' = [served EXCEPT ![t] = lru[i].from]
  <2>1. ListTrue(lru', key, status)
    BY <1>3, <1>6, PrependTrue
  <2>2. lru[i].from \in Tx /\ key[lru[i].from] = key[t] /\ status[lru[i].from] # None
    BY <1>3, <1>6 DEF Truth
  <2>3. QED
    BY <1>2, <1>6, <2>1, <2>2 DEF Mocked
<1>7. QED
  BY <1>4, <1>5, <1>6 DEF CachingOnRequest

(* A response that is stored is the storing transaction's own. *)
LEMMA StoreTrue ==
  ASSUME HInv, NEW t \in Tx, CachingOnResponse(t) PROVE ListTrue(lru', key, status)
<1>1. CacheGood /\ lru \in Seq(Entry) /\ ListTrue(lru, key, status) /\ key[t] \in Key
  BY DEF HInv, TInv, CacheGood, DataType
<1>2. CASE UNCHANGED cacheVars
  BY <1>1, <1>2 DEF cacheVars
<1>3. CASE StoreResponse(t) /\ status[t] = "2xx"
  <2> DEFINE e == Fresh(t)
  <2>1. e \in Entry /\ e.from = t /\ e.key = key[t]
    BY <1>1 DEF Fresh, Entry
  <2>2. "2xx" # None
    <3>1. status[t] # None
      BY <1>1, StatusAssumption, <1>3 DEF Status
    <3>2. QED
      BY <1>3, <3>1
  <2>3. Truth(e, key, status)
    BY <1>3, <2>1, <2>2 DEF Truth
  <2> HIDE DEF e
  <2>4. ASSUME NEW i \in 1..Len(lru), lru' = <<e>> \o RemoveAt(lru, i)
        PROVE  ListTrue(lru', key, status)
    <3>1. RemoveAt(lru, i) \in Seq(Entry) /\ ListTrue(RemoveAt(lru, i), key, status)
      BY <1>1, RemoveAtFacts, RemoveTrue
    <3>2. QED
      BY <2>1, <2>3, <2>4, <3>1, PrependTrue
  <2>5. CASE lru' = <<e>> \o lru
    BY <1>1, <2>1, <2>3, <2>5, PrependTrue
  <2>6. CASE key[t] \in entries /\ lru' = <<e>> \o RemoveAt(lru, Elem(key[t]))
    <3>1. Elem(key[t]) \in 1..Len(lru)
      BY <1>1, <2>6, ElemFacts
    <3>2. QED
      BY <2>4, <2>6, <3>1
  <2>7. CASE Len(lru) >= Capacity /\ lru' = <<e>> \o RemoveAt(lru, Len(lru))
    <3>1. Len(lru) \in 1..Len(lru)
      BY <1>1, <2>7, ConfigAssumption, LenProperties
    <3>2. QED
      BY <2>4, <2>7, <3>1
  <2>8. QED
    BY <1>3, <2>5, <2>6, <2>7 DEF StoreResponse, Evict, e
<1>4. QED
  BY <1>2, <1>3 DEF CachingOnResponse

(* An entry that expires is as true as before. *)
LEMMA ExpireTrue ==
  ASSUME HInv, NEW i \in 1..Len(lru), EntryExpires(i) PROVE ListTrue(lru', key, status)
<1> DEFINE e == [lru[i] EXCEPT !.expired = TRUE]
<1>1. lru \in Seq(Entry) /\ lru[i] \in Entry /\ ListTrue(lru, key, status)
  BY ElementOfSeq DEF HInv, TInv, CacheGood
<1>2. e \in Entry /\ e.key = lru[i].key /\ e.from = lru[i].from
  BY <1>1 DEF Entry
<1>3. lru' = [lru EXCEPT ![i] = e]
  BY DEF EntryExpires
<1> HIDE DEF e
<1>4. Len(lru') = Len(lru) /\ \A j \in 1..Len(lru) : lru'[j] = IF j = i THEN e ELSE lru[j]
  BY <1>1, <1>2, <1>3, ExceptSeq
<1>5. QED
  BY <1>1, <1>2, <1>4 DEF ListTrue, Truth

(* An upstream response is set after the last edit, and never unset. *)
LEMMA AnswersKept ==
  ASSUME HInv, [Next]_vars
  PROVE  /\ PastEdits'
         /\ \A u \in Tx : status[u] # None => status'[u] # None /\ key'[u] = key[u]
         /\ \A u \in Tx : mock[u] # None => key'[u] = key[u]
<1> DEFINE Kept == /\ PastEdits'
                   /\ \A u \in Tx : status[u] # None => status'[u] # None /\ key'[u] = key[u]
                   /\ \A u \in Tx : mock[u] # None => key'[u] = key[u]
<1>1. DataType /\ PassType /\ PastEdits
  BY DEF HInv, TInv
<1>2. ASSUME UNCHANGED <<key, status>>,
             \/ UNCHANGED pc
             \/ \E t \in Tx, l \in {"OnRequest", "OnResponse", "done"} :
                  /\ pc' = [pc EXCEPT ![t] = l]
                  /\ status[t] # None => l \in {"OnResponse", "done"}
      PROVE  Kept
  BY <1>1, <1>2 DEF PastEdits, PassType
<1>3. ASSUME NEW t \in Tx, RunRequest(t) PROVE Kept
  <2>1. pc' = [pc EXCEPT ![t] = "OnRequest"] /\ status[t] = None /\ UNCHANGED <<key, status>>
    BY <1>1, <1>3 DEF RunRequest, txVars, PastEdits
  <2> HIDE DEF Kept
  <2>2. QED
    BY <1>2, <2>1
<1>4. ASSUME NEW t \in Tx, ResponseDecided(t) PROVE Kept
  <2>1. pc' = [pc EXCEPT ![t] = "done"] /\ UNCHANGED <<key, status>>
    BY <1>4 DEF ResponseDecided, txVars
  <2> HIDE DEF Kept
  <2>2. QED
    BY <1>2, <2>1
<1>5. ASSUME NEW t \in Tx, RequestDecided(t) PROVE Kept
  <2>1. status[t] = None /\ UNCHANGED status
    BY <1>1, <1>5 DEF RequestDecided, PastEdits
  <2>2. \A u \in Tx : u # t => key'[u] = key[u] /\ pc'[u] = pc[u]
    BY <1>1, <1>5 DEF RequestDecided, DataType, PassType
  <2>3. mock[t] # None => key' = key
    BY <1>5 DEF RequestDecided
  <2>4. QED
    BY <1>1, <2>1, <2>2, <2>3 DEF PastEdits
<1>6. ASSUME NEW t \in Tx, RoundTrip(t) PROVE Kept
  <2>1. key' = key /\ status[t] = None
    BY <1>1, <1>6 DEF RoundTrip, PastEdits
  <2>2. /\ \A u \in Tx : u # t => status'[u] = status[u] /\ pc'[u] = pc[u]
        /\ pc'[t] \in {"OnResponse", "done"}
    BY <1>1, <1>6 DEF RoundTrip, DataType, PassType
  <2>3. QED
    BY <1>1, <2>1, <2>2 DEF PastEdits
<1>7. ASSUME NEW t \in Tx, OtherOnResponse(t) PROVE Kept
  <2>1. key' = key /\ pc[t] = "OnResponse"
    BY <1>7 DEF OtherOnResponse, Turn
  <2>2. \A u \in Tx : u # t => status'[u] = status[u] /\ pc'[u] = pc[u]
    BY <1>1, <1>7 DEF OtherOnResponse, Return, DataType, PassType
  <2>3. pc'[t] \in {"OnResponse", "done"}
    BY <1>1, <1>7, <2>1 DEF OtherOnResponse, Return, PassType
  <2>4. status[t] # None => status'[t] # None
    BY <1>1, <1>7, StatusAssumption DEF OtherOnResponse, DataType
  <2>5. QED
    BY <1>1, <2>1, <2>2, <2>3, <2>4 DEF PastEdits
<1>8. ASSUME NEW t \in Tx, OtherOnRequest(t) PROVE Kept
  <2>1. UNCHANGED <<key, status>> /\ pc[t] = "OnRequest"
    BY <1>8 DEF OtherOnRequest, Turn, Mocked, txVars
  <2>2. UNCHANGED pc \/ pc' = [pc EXCEPT ![t] = "done"]
    BY <1>8 DEF OtherOnRequest, Return
  <2> HIDE DEF Kept
  <2>3. QED
    BY <1>2, <2>1, <2>2
<1>9. ASSUME NEW t \in Tx,
             \/ CachingOnRequest(t) \/ ShapingOnRequest(t) \/ BreakerOnRequest(t)
             \/ CachingOnResponse(t) \/ ShapingOnResponse(t) \/ BreakerOnResponse(t)
      PROVE  Kept
  <2>1. UNCHANGED <<key, status, pc>>
    BY <1>9 DEF CachingOnRequest, ShapingOnRequest, BreakerOnRequest, CachingOnResponse,
                ShapingOnResponse, BreakerOnResponse, LetProbe, Return, Mocked, txVars
  <2> HIDE DEF Kept
  <2>2. QED
    BY <1>2, <2>1
<1>10. ASSUME NEW i \in 1..Len(lru), EntryExpires(i) PROVE Kept
  <2>1. UNCHANGED <<key, status, pc>>
    BY <1>10 DEF EntryExpires, txVars
  <2> HIDE DEF Kept
  <2>2. QED
    BY <1>2, <2>1
<1>11. ASSUME NEW h \in Host, OpenTimeoutPasses(h) PROVE Kept
  <2>1. UNCHANGED <<key, status, pc>>
    BY <1>11 DEF OpenTimeoutPasses, txVars
  <2> HIDE DEF Kept
  <2>2. QED
    BY <1>2, <2>1
<1>12. ASSUME UNCHANGED vars PROVE Kept
  <2>1. UNCHANGED <<key, status, pc>>
    BY <1>12 DEF vars, txVars
  <2> HIDE DEF Kept
  <2>2. QED
    BY <1>2, <2>1
<1>13. Kept
  <2> HIDE DEF Kept
  <2>1. QED
    BY <1>3, <1>4, <1>5, <1>6, <1>7, <1>8, <1>9, <1>10, <1>11, <1>12 DEF Next, Hook
<1>14. QED
  BY <1>13

(* No other step answers from the cache. *)
LEMMA OnlyCacheHits ==
  ASSUME HInv, [Next]_vars, \A t \in Tx : ~CachingOnRequest(t)
  PROVE  served' = served /\ \A u \in Tx : mock'[u] = "caching" => mock[u] = "caching"
<1> DEFINE Quiet == served' = served /\ \A u \in Tx : mock'[u] = "caching" => mock[u] = "caching"
<1>1. DataType
  BY DEF HInv, TInv
<1>2. ASSUME UNCHANGED <<mock, served>> PROVE Quiet
  BY <1>2
<1>3. ASSUME NEW t \in Tx, NEW p \in {"traffic-shaping", "circuit-breaker", "other"},
             Mocked(t, p), UNCHANGED served
      PROVE  Quiet
  BY <1>1, <1>3 DEF Mocked, DataType
<1>4. ASSUME NEW t \in Tx, ShapingOnRequest(t) \/ BreakerOnRequest(t) \/ OtherOnRequest(t) PROVE Quiet
  <2>1. \/ UNCHANGED <<mock, served>>
        \/ \E p \in {"traffic-shaping", "circuit-breaker", "other"} : Mocked(t, p) /\ UNCHANGED served
    BY <1>4 DEF ShapingOnRequest, BreakerOnRequest, OtherOnRequest, LetProbe, txVars
  <2> HIDE DEF Quiet
  <2>2. QED
    BY <1>2, <1>3, <2>1
<1>5. ASSUME NEW t \in Tx,
             \/ CachingOnResponse(t) \/ ShapingOnResponse(t) \/ BreakerOnResponse(t) \/ OtherOnResponse(t)
             \/ RunRequest(t) \/ RequestDecided(t) \/ RoundTrip(t) \/ ResponseDecided(t)
      PROVE  UNCHANGED <<mock, served>>
  BY <1>5 DEF CachingOnResponse, ShapingOnResponse, BreakerOnResponse, OtherOnResponse,
              RunRequest, RequestDecided, RoundTrip, ResponseDecided, txVars
<1>6. ASSUME NEW i \in 1..Len(lru), EntryExpires(i) PROVE UNCHANGED <<mock, served>>
  BY <1>6 DEF EntryExpires, txVars
<1>7. ASSUME NEW h \in Host, OpenTimeoutPasses(h) PROVE UNCHANGED <<mock, served>>
  BY <1>7 DEF OpenTimeoutPasses, txVars
<1>8. ASSUME UNCHANGED vars PROVE UNCHANGED <<mock, served>>
  BY <1>8 DEF vars, txVars
<1>9. Quiet
  <2> HIDE DEF Quiet
  <2>1. QED
    BY <1>2, <1>4, <1>5, <1>6, <1>7, <1>8 DEF Next, Hook
<1>10. QED
  BY <1>9

(* The list after a step, read with the keys and statuses before it. *)
LEMMA ListStep ==
  ASSUME HInv, [Next]_vars PROVE ListTrue(lru', key, status)
<1>1. ASSUME UNCHANGED lru PROVE ListTrue(lru', key, status)
  BY <1>1 DEF HInv
<1>2. ASSUME NEW t \in Tx, CachingOnRequest(t) PROVE ListTrue(lru', key, status)
  BY <1>2, HitFacts
<1>3. ASSUME NEW t \in Tx, CachingOnResponse(t) PROVE ListTrue(lru', key, status)
  BY <1>3, StoreTrue
<1>4. ASSUME NEW i \in 1..Len(lru), EntryExpires(i) PROVE ListTrue(lru', key, status)
  BY <1>4, ExpireTrue
<1>5. ASSUME NEW t \in Tx,
             \/ ShapingOnRequest(t) \/ BreakerOnRequest(t) \/ OtherOnRequest(t)
             \/ ShapingOnResponse(t) \/ BreakerOnResponse(t) \/ OtherOnResponse(t)
             \/ RunRequest(t) \/ RequestDecided(t) \/ RoundTrip(t) \/ ResponseDecided(t)
      PROVE  UNCHANGED lru
  BY <1>5 DEF ShapingOnRequest, BreakerOnRequest, OtherOnRequest, ShapingOnResponse, BreakerOnResponse,
              OtherOnResponse, RunRequest, RequestDecided, RoundTrip, ResponseDecided, cacheVars
<1>6. ASSUME NEW h \in Host, OpenTimeoutPasses(h) PROVE UNCHANGED lru
  BY <1>6 DEF OpenTimeoutPasses, cacheVars
<1>7. ASSUME UNCHANGED vars PROVE UNCHANGED lru
  BY <1>7 DEF vars, cacheVars
<1>8. QED
  BY <1>1, <1>2, <1>3, <1>4, <1>5, <1>6, <1>7 DEF Next, Hook

(* One step keeps the cache true. *)
LEMMA HitStep == HInv /\ [Next]_vars => HInv'
<1> SUFFICES ASSUME HInv, [Next]_vars PROVE HInv'
  OBVIOUS
<1>1. TInv /\ TInv' /\ PastEdits' /\ HitIsTrue /\ DataType /\ DataType'
  BY TypeStep, AnswersKept DEF HInv, TInv
<1>2. /\ \A u \in Tx : status[u] # None => status'[u] # None /\ key'[u] = key[u]
      /\ \A u \in Tx : mock[u] # None => key'[u] = key[u]
  BY AnswersKept
<1>3. ListTrue(lru', key', status')
  BY <1>2, ListStep DEF ListTrue, Truth
<1>4. \A u \in Tx : mock[u] = "caching" => mock[u] # None
  BY TxAssumption DEF Plugin
<1>5. HitIsTrue'
  <2>1. CASE \A t \in Tx : ~CachingOnRequest(t)
    <3>1. served' = served /\ \A u \in Tx : mock'[u] = "caching" => mock[u] = "caching"
      BY <2>1, OnlyCacheHits
    <3>2. QED
      BY <1>1, <1>2, <1>4, <3>1 DEF HitIsTrue
  <2>2. ASSUME NEW t \in Tx, CachingOnRequest(t) PROVE HitIsTrue'
    <3>1. UNCHANGED <<key, status>>
      BY <2>2, HitFacts
    <3>2. CASE UNCHANGED <<mock, served>>
      BY <1>1, <3>1, <3>2 DEF HitIsTrue
    <3>3. CASE \E u \in Tx : /\ key[u] = key[t] /\ status[u] # None
                             /\ mock' = [mock EXCEPT ![t] = "caching"]
                             /\ served' = [served EXCEPT ![t] = u]
      BY <1>1, <3>1, <3>3 DEF HitIsTrue, DataType
    <3>4. QED
      BY <2>2, <3>2, <3>3, HitFacts
  <2>3. QED
    BY <2>1, <2>2
<1>6. QED
  BY <1>1, <1>3, <1>5 DEF HInv

(***************************************************************************)
(* What the cache answers with is the upstream response of a transaction   *)
(* that was forwarded with the same method and URL, whatever was edited,   *)
(* stored, moved, evicted or expired in between.                           *)
(***************************************************************************)
THEOREM HitsAlwaysTrue == Spec => []HitIsTrue
<1>1. Init => HInv
  <2> SUFFICES ASSUME Init PROVE HInv
    OBVIOUS
  <2>1. ListTrue(lru, key, status)
    BY DEF Init, ListTrue
  <2>2. PastEdits /\ HitIsTrue
    BY TxAssumption DEF Init, PastEdits, HitIsTrue, Plugin
  <2>3. QED
    BY <2>1, <2>2, TypeInit DEF HInv
<1>2. HInv /\ [Next]_vars => HInv'
  BY HitStep
<1>3. HInv => HitIsTrue
  BY DEF HInv
<1>4. QED
  BY <1>1, <1>2, <1>3, PTL DEF Spec
=============================================================================
