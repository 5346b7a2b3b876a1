---------------------------- MODULE LimiterProofs ----------------------------
(***************************************************************************)
(* Proofs about ProxyRateLimiter, for any number of connections, clients,  *)
(* settings and reloads.                                                   *)
(***************************************************************************)
EXTENDS ProxyRateLimiter, FiniteSetTheorems, TLAPS

USE ConnAssumption, SettingAssumption

(* A goroutine has a bucket in hand exactly from its lookup on. *)
BucketInv ==
    \A c \in Conn : /\ pc[c] \in {"new", "lookup"} => held[c] = NoBucket
                    /\ pc[c] = "take" => held[c] \in Gen

(* Generations and the absence of a bucket are told apart. *)
LEMMA GenFacts == Gen \subseteq Nat /\ NoBucket \in Nat /\ NoBucket \notin Gen
BY DEF Gen, NoBucket

(* One step keeps the types. *)
LEMMA TypeStep == TypeOK /\ BucketInv /\ [Next]_vars => TypeOK' /\ BucketInv'
<1> SUFFICES ASSUME TypeOK, BucketInv, [Next]_vars PROVE TypeOK' /\ BucketInv'
  OBVIOUS
<1> USE GenFacts DEF TypeOK, BucketInv, ConnState, settings, bucketVars, Goto, AfterAllow
<1>1. ASSUME NEW c \in Conn, AllowCheck(c) PROVE TypeOK' /\ BucketInv'
  BY <1>1 DEF AllowCheck
<1>2. ASSUME NEW c \in Conn, AllowLookup(c) PROVE TypeOK' /\ BucketInv'
  <2>1. made' \in [Gen -> [IP -> Nat]] /\ tokens' \in [Gen -> [IP -> Nat]]
    BY <1>2 DEF AllowLookup
  <2>2. held' = [held EXCEPT ![c] = gen] /\ pc' = [pc EXCEPT ![c] = "take"]
    BY <1>2 DEF AllowLookup
  <2>3. UNCHANGED <<settings, refilled, active>>
    BY <1>2 DEF AllowLookup
  <2>4. TypeOK'
    BY <2>1, <2>2, <2>3
  <2>5. BucketInv'
    BY <2>2
  <2>6. QED
    BY <2>4, <2>5
<1>3. ASSUME NEW c \in Conn, AllowTake(c) PROVE TypeOK' /\ BucketInv'
  <2> DEFINE left == tokens[held[c]][ipOf[c]]
  <2>1. held[c] \in Gen /\ left \in Nat
    <3>1. pc[c] = "take"
      BY <1>3 DEF AllowTake
    <3>2. held[c] \in Gen
      BY <3>1
    <3>3. tokens[held[c]] \in [IP -> Nat] /\ ipOf[c] \in IP
      BY <3>2
    <3>4. QED
      BY <3>2, <3>3
  <2>2. tokens' \in [Gen -> [IP -> Nat]]
    <3>1. tokens' = tokens \/ (left >= 1 /\ tokens' = [tokens EXCEPT ![held[c]][ipOf[c]] = left - 1])
      BY <1>3, <2>1 DEF AllowTake
    <3> HIDE DEF left
    <3>2. left >= 1 => left - 1 \in Nat
      BY <2>1
    <3>3. QED
      BY <2>1, <3>1, <3>2
  <2>3. QED
    BY <1>3, <2>2 DEF AllowTake
<1>4. ASSUME NEW g \in Gen, NEW ip \in IP, Refill(g, ip) PROVE TypeOK' /\ BucketInv'
  BY <1>4 DEF Refill
<1>5. ASSUME NEW c \in Conn, AcquireCheck(c) PROVE TypeOK' /\ BucketInv'
  BY <1>5 DEF AcquireCheck
<1>6. ASSUME NEW c \in Conn, AcquireLocked(c) PROVE TypeOK' /\ BucketInv'
  <2>1. active' \in [IP -> Nat]
    BY <1>6 DEF AcquireLocked
  <2>2. \E l \in {"refused", "serving"} : pc' = [pc EXCEPT ![c] = l]
    BY <1>6 DEF AcquireLocked
  <2>3. pc[c] = "lock" /\ UNCHANGED <<settings, bucketVars, held>>
    BY <1>6 DEF AcquireLocked
  <2>4. QED
    BY <2>1, <2>2, <2>3
<1>7. ASSUME NEW c \in Conn, HandlerEnds(c) PROVE TypeOK' /\ BucketInv'
  BY <1>7 DEF HandlerEnds
<1>8. ASSUME NEW c \in Conn, ReleaseCheck(c) PROVE TypeOK' /\ BucketInv'
  BY <1>8 DEF ReleaseCheck
<1>9. ASSUME NEW c \in Conn, ReleaseLocked(c) PROVE TypeOK' /\ BucketInv'
  <2>1. active' \in [IP -> Nat]
    BY <1>9 DEF ReleaseLocked
  <2>2. QED
    BY <1>9, <2>1 DEF ReleaseLocked
<1>10. ASSUME NEW rate \in Rates, NEW limit \in Limits, update(rate, limit) PROVE TypeOK' /\ BucketInv'
  <2>1. gen' \in Gen
    BY <1>10 DEF update, Gen
  <2>2. QED
    BY <1>10, <2>1 DEF update
<1>11. CASE UNCHANGED vars
  BY <1>11 DEF vars
<1>12. QED
  BY <1>1, <1>2, <1>3, <1>4, <1>5, <1>6, <1>7, <1>8, <1>9, <1>10, <1>11 DEF Next, ConnStep

(* The new limiter is well typed. *)
LEMMA InitType == Init => TypeOK /\ BucketInv
BY GenFacts DEF Init, newProxyRateLimiter, TypeOK, BucketInv, ConnState, Gen

(***************************************************************************)
(* Type correctness: no counter and no bucket ever goes below zero.        *)
(***************************************************************************)
THEOREM LimiterTypeCorrect == Spec => []TypeOK
<1>1. TypeOK /\ BucketInv /\ [Next]_vars => TypeOK' /\ BucketInv'
  BY TypeStep
<1>2. QED
  BY <1>1, InitType, PTL DEF Spec
-----------------------------------------------------------------------------
(* Counting connections *)

Busy == {"serving", "release", "unlock"}
Counted(c, ip) == c \in Conn \ Tunnelled /\ ipOf[c] = ip

(* How the number of places in use moves with one goroutine. *)
LEMMA CountMove ==
  ASSUME TypeOK, NEW c \in Conn, NEW l \in ConnState, pc' = [pc EXCEPT ![c] = l], NEW ip \in IP
  PROVE  /\ Cardinality(InFlight(ip)) \in Nat
         /\ (Counted(c, ip) /\ pc[c] \notin Busy /\ l \in Busy)
               => Cardinality(InFlight(ip)') = Cardinality(InFlight(ip)) + 1
         /\ (Counted(c, ip) /\ pc[c] \in Busy /\ l \notin Busy)
               => Cardinality(InFlight(ip)') = Cardinality(InFlight(ip)) - 1
         /\ (~Counted(c, ip) \/ (pc[c] \in Busy <=> l \in Busy))
               => Cardinality(InFlight(ip)') = Cardinality(InFlight(ip))
<1>1. IsFiniteSet(InFlight(ip))
  BY FS_Subset DEF InFlight
<1>2. Cardinality(InFlight(ip)) \in Nat
  BY <1>1, FS_CardinalityType
<1>3. ASSUME Counted(c, ip), pc[c] \notin Busy, l \in Busy
      PROVE  Cardinality(InFlight(ip)') = Cardinality(InFlight(ip)) + 1
  <2>1. InFlight(ip)' = InFlight(ip) \cup {c} /\ c \notin InFlight(ip)
    BY <1>3 DEF InFlight, Counted, Busy, TypeOK
  <2>2. QED
    BY <1>1, <2>1, FS_AddElement
<1>4. ASSUME Counted(c, ip), pc[c] \in Busy, l \notin Busy
      PROVE  Cardinality(InFlight(ip)') = Cardinality(InFlight(ip)) - 1
  <2>1. InFlight(ip)' = InFlight(ip) \ {c} /\ c \in InFlight(ip)
    BY <1>4 DEF InFlight, Counted, Busy, TypeOK
  <2>2. QED
    BY <1>1, <2>1, FS_RemoveElement
<1>5. ASSUME ~Counted(c, ip) \/ (pc[c] \in Busy <=> l \in Busy)
      PROVE  Cardinality(InFlight(ip)') = Cardinality(InFlight(ip))
  <2>1. InFlight(ip)' = InFlight(ip)
    BY <1>5 DEF InFlight, Counted, Busy, TypeOK
  <2>2. QED
    BY <2>1
<1>6. QED
  BY <1>2, <1>3, <1>4, <1>5

(* Tunnelled requests never ask for a place. *)
TunnelInv ==
    \A c \in Conn : pc[c] \in {"acquire", "lock", "release", "unlock"} => c \notin Tunnelled

(* A goroutine asks for a place only after a test that it is not tunnelled. *)
LEMMA TunnelStep == TypeOK /\ TunnelInv /\ [Next]_vars => TunnelInv'
<1> SUFFICES ASSUME TypeOK, TunnelInv, [Next]_vars, NEW c \in Conn,
                    pc'[c] \in {"acquire", "lock", "release", "unlock"}
             PROVE  c \notin Tunnelled
  BY DEF TunnelInv
<1>1. CASE UNCHANGED pc
  BY <1>1 DEF TunnelInv
<1>2. ASSUME NEW d \in Conn, ConnStep(d) PROVE c \notin Tunnelled
  BY <1>2 DEF TypeOK, TunnelInv, ConnStep, AllowCheck, AllowLookup, AllowTake, AcquireCheck,
              AcquireLocked, HandlerEnds, ReleaseCheck, ReleaseLocked, Goto, AfterAllow
<1>3. QED
  BY <1>1, <1>2 DEF Next, vars, Refill, update

(* The steps, by what they do to the counter and to the places in use. *)
LEMMA Steps ==
  ASSUME TypeOK, TunnelInv, [Next]_vars
  PROVE  \/ UNCHANGED <<pc, active, maxConcurrent>>
         \/ \E c \in Conn, l \in ConnState :
               /\ pc' = [pc EXCEPT ![c] = l]
               /\ UNCHANGED <<active, maxConcurrent>>
               /\ \/ Counted(c, ipOf[c]) => (pc[c] \in Busy <=> l \in Busy)
                  \/ maxConcurrent = 0
         \/ \E c \in Conn \ Tunnelled :
               /\ pc[c] = "lock"
               /\ pc' = [pc EXCEPT ![c] = "serving"]
               /\ active[ipOf[c]] < maxConcurrent
               /\ active' = [active EXCEPT ![ipOf[c]] = @ + 1]
               /\ UNCHANGED maxConcurrent
         \/ \E c \in Conn \ Tunnelled :
               /\ pc[c] = "unlock"
               /\ pc' = [pc EXCEPT ![c] = "closed"]
               /\ active' = [active EXCEPT ![ipOf[c]] = IF @ <= 1 THEN 0 ELSE @ - 1]
               /\ UNCHANGED maxConcurrent
         \/ gen' = gen + 1 /\ active' = [ip \in IP |-> 0] /\ UNCHANGED pc
<1> USE DEF Goto, ConnState, Busy
<1>1. ASSUME NEW c \in Conn, AllowCheck(c) \/ AllowLookup(c) \/ AllowTake(c)
      PROVE  \E l \in ConnState :
               /\ pc' = [pc EXCEPT ![c] = l]
               /\ UNCHANGED <<active, maxConcurrent>>
               /\ Counted(c, ipOf[c]) => (pc[c] \in Busy <=> l \in Busy)
  <2>1. pc[c] \notin Busy /\ UNCHANGED <<active, maxConcurrent>>
    BY <1>1 DEF AllowCheck, AllowLookup, AllowTake, settings
  <2>2. \E l \in {"lookup", "take", "refused", AfterAllow(c)} : pc' = [pc EXCEPT ![c] = l]
    BY <1>1 DEF AllowCheck, AllowLookup, AllowTake
  <2>3. QED
    BY <2>1, <2>2 DEF AfterAllow, Counted
<1>2. ASSUME NEW c \in Conn, AcquireCheck(c) \/ HandlerEnds(c) \/ ReleaseCheck(c)
      PROVE  \E l \in ConnState :
               /\ pc' = [pc EXCEPT ![c] = l]
               /\ UNCHANGED <<active, maxConcurrent>>
               /\ \/ Counted(c, ipOf[c]) => (pc[c] \in Busy <=> l \in Busy)
                  \/ maxConcurrent = 0
  <2>1. CASE AcquireCheck(c)
    BY <2>1 DEF AcquireCheck, settings
  <2>2. CASE HandlerEnds(c)
    BY <2>2 DEF HandlerEnds, settings, Counted
  <2>3. CASE ReleaseCheck(c)
    BY <2>3 DEF ReleaseCheck, settings
  <2>4. QED
    BY <1>2, <2>1, <2>2, <2>3
<1>3. ASSUME NEW c \in Conn, AcquireLocked(c)
      PROVE  \/ /\ pc' = [pc EXCEPT ![c] = "refused"] /\ pc[c] = "lock"
                /\ UNCHANGED <<active, maxConcurrent>>
             \/ /\ c \notin Tunnelled /\ pc[c] = "lock"
                /\ pc' = [pc EXCEPT ![c] = "serving"]
                /\ active[ipOf[c]] < maxConcurrent
                /\ active' = [active EXCEPT ![ipOf[c]] = @ + 1]
                /\ UNCHANGED maxConcurrent
  BY <1>3 DEF AcquireLocked, settings, TunnelInv, TypeOK
<1>4. ASSUME NEW c \in Conn, ReleaseLocked(c)
      PROVE  /\ c \notin Tunnelled /\ pc[c] = "unlock"
             /\ pc' = [pc EXCEPT ![c] = "closed"]
             /\ active' = [active EXCEPT ![ipOf[c]] = IF @ <= 1 THEN 0 ELSE @ - 1]
             /\ UNCHANGED maxConcurrent
  BY <1>4 DEF ReleaseLocked, settings, TunnelInv
<1>5. ASSUME NEW g \in Gen, NEW ip \in IP, Refill(g, ip)
      PROVE  UNCHANGED <<pc, active, maxConcurrent>>
  BY <1>5 DEF Refill, settings
<1>6. ASSUME NEW rate \in Rates, NEW limit \in Limits, update(rate, limit)
      PROVE  gen' = gen + 1 /\ active' = [ip \in IP |-> 0] /\ UNCHANGED pc
  BY <1>6 DEF update
<1>7. CASE UNCHANGED vars
  BY <1>7 DEF vars, settings
<1>8. CASE \E c \in Conn : ConnStep(c)
  <2>1. PICK c \in Conn : ConnStep(c)
    BY <1>8
  <2>2. CASE AllowCheck(c) \/ AllowLookup(c) \/ AllowTake(c)
    BY <1>1, <2>2
  <2>3. CASE AcquireCheck(c) \/ HandlerEnds(c) \/ ReleaseCheck(c)
    BY <1>2, <2>3
  <2>4. CASE AcquireLocked(c)
    BY <1>3, <2>4
  <2>5. CASE ReleaseLocked(c)
    BY <1>4, <2>5
  <2>6. QED
    BY <2>1, <2>2, <2>3, <2>4, <2>5 DEF ConnStep
<1>9. QED
  BY <1>5, <1>6, <1>7, <1>8 DEF Next
-----------------------------------------------------------------------------
(* Without a limit no place is counted: a reload that lifts the limit resets the counter. *)
ZeroInv == maxConcurrent = 0 => \A ip \in IP : active[ip] = 0

CInv == TypeOK /\ BucketInv /\ TunnelInv /\ ZeroInv /\ NoGhostConnections

(* One step keeps the counter at or below the places in use. *)
LEMMA GhostStep == CInv /\ [Next]_vars => ZeroInv' /\ NoGhostConnections'
<1> SUFFICES ASSUME CInv, [Next]_vars PROVE ZeroInv' /\ NoGhostConnections'
  OBVIOUS
<1>0. TypeOK /\ TunnelInv /\ ZeroInv /\ NoGhostConnections /\ maxConcurrent \in Nat /\ active \in [IP -> Nat]
  BY DEF CInv, TypeOK
<1>1. CASE UNCHANGED <<pc, active, maxConcurrent>>
  BY <1>0, <1>1 DEF ZeroInv, NoGhostConnections, InFlight
<1>2. ASSUME NEW c \in Conn, NEW l \in ConnState, pc' = [pc EXCEPT ![c] = l],
             UNCHANGED <<active, maxConcurrent>>,
             (Counted(c, ipOf[c]) => (pc[c] \in Busy <=> l \in Busy)) \/ maxConcurrent = 0
      PROVE  ZeroInv' /\ NoGhostConnections'
  <2>1. ZeroInv'
    BY <1>0, <1>2 DEF ZeroInv
  <2>2. ASSUME NEW ip \in IP PROVE active'[ip] <= Cardinality(InFlight(ip)')
    <3>1. CASE maxConcurrent = 0
      <4>1. active'[ip] = 0
        BY <1>0, <1>2, <3>1 DEF ZeroInv
      <4>2. IsFiniteSet(InFlight(ip)')
        BY FS_Subset DEF InFlight
      <4>3. Cardinality(InFlight(ip)') \in Nat
        BY <4>2, FS_CardinalityType
      <4>4. QED
        BY <4>1, <4>3
    <3>2. CASE ~Counted(c, ip) \/ (pc[c] \in Busy <=> l \in Busy)
      BY <1>0, <1>2, <3>2, CountMove DEF NoGhostConnections
    <3>3. QED
      BY <1>2, <3>1, <3>2 DEF Counted
  <2>3. QED
    BY <2>1, <2>2 DEF NoGhostConnections
<1>3. ASSUME NEW c \in Conn \ Tunnelled, pc[c] = "lock", pc' = [pc EXCEPT ![c] = "serving"],
             active[ipOf[c]] < maxConcurrent,
             active' = [active EXCEPT ![ipOf[c]] = @ + 1], UNCHANGED maxConcurrent
      PROVE  ZeroInv' /\ NoGhostConnections'
  <2>1. ZeroInv'
    BY <1>0, <1>3 DEF ZeroInv
  <2>2. ASSUME NEW ip \in IP PROVE active'[ip] <= Cardinality(InFlight(ip)')
    <3>1. active[ip] <= Cardinality(InFlight(ip)) /\ Cardinality(InFlight(ip)) \in Nat
      BY <1>0, <1>3, CountMove DEF NoGhostConnections, ConnState
    <3>2. CASE ip = ipOf[c]
      <4>1. Cardinality(InFlight(ip)') = Cardinality(InFlight(ip)) + 1
        BY <1>0, <1>3, <3>2, CountMove DEF Counted, Busy, ConnState
      <4>2. QED
        BY <1>0, <1>3, <3>1, <3>2, <4>1
    <3>3. CASE ip # ipOf[c]
      <4>0. ~Counted(c, ip)
        BY <3>3 DEF Counted
      <4>1. Cardinality(InFlight(ip)') = Cardinality(InFlight(ip))
        BY <1>0, <1>3, <4>0, CountMove DEF ConnState
      <4>2. QED
        BY <1>0, <1>3, <3>1, <3>3, <4>1
    <3>4. QED
      BY <3>2, <3>3
  <2>3. QED
    BY <2>1, <2>2 DEF NoGhostConnections
<1>4. ASSUME NEW c \in Conn \ Tunnelled, pc[c] = "unlock", pc' = [pc EXCEPT ![c] = "closed"],
             active' = [active EXCEPT ![ipOf[c]] = IF @ <= 1 THEN 0 ELSE @ - 1],
             UNCHANGED maxConcurrent
      PROVE  ZeroInv' /\ NoGhostConnections'
  <2>1. ZeroInv'
    BY <1>0, <1>4 DEF ZeroInv
  <2>2. ASSUME NEW ip \in IP PROVE active'[ip] <= Cardinality(InFlight(ip)')
    <3>1. active[ip] <= Cardinality(InFlight(ip)) /\ Cardinality(InFlight(ip)) \in Nat
      BY <1>0, <1>4, CountMove DEF NoGhostConnections, ConnState
    <3>2. CASE ip = ipOf[c]
      <4>1. Cardinality(InFlight(ip)') = Cardinality(InFlight(ip)) - 1
        BY <1>0, <1>4, <3>2, CountMove DEF Counted, Busy, ConnState
      <4>2. IsFiniteSet(InFlight(ip)')
        BY FS_Subset DEF InFlight
      <4>3. Cardinality(InFlight(ip)') \in Nat
        BY <4>2, FS_CardinalityType
      <4>4. active[ip] \in Nat /\ active'[ip] = IF active[ip] <= 1 THEN 0 ELSE active[ip] - 1
        BY <1>0, <1>4, <3>2
      <4>5. QED
        BY <3>1, <4>1, <4>3, <4>4
    <3>3. CASE ip # ipOf[c]
      <4>0. ~Counted(c, ip)
        BY <3>3 DEF Counted
      <4>1. Cardinality(InFlight(ip)') = Cardinality(InFlight(ip))
        BY <1>0, <1>4, <4>0, CountMove DEF ConnState
      <4>2. QED
        BY <1>0, <1>4, <3>1, <3>3, <4>1
    <3>4. QED
      BY <3>2, <3>3
  <2>3. QED
    BY <2>1, <2>2 DEF NoGhostConnections
<1>5. CASE active' = [ip \in IP |-> 0] /\ UNCHANGED pc
  <2>1. ASSUME NEW ip \in IP PROVE Cardinality(InFlight(ip)') \in Nat
    <3>1. IsFiniteSet(InFlight(ip)')
      BY FS_Subset DEF InFlight
    <3>2. QED
      BY <3>1, FS_CardinalityType
  <2>2. QED
    BY <1>5, <2>1 DEF ZeroInv, NoGhostConnections
<1>6. QED
  BY <1>0, <1>1, <1>2, <1>3, <1>4, <1>5, Steps

(* A limiter without connections. *)
LEMMA InitPlaces == Init => TunnelInv /\ ZeroInv /\ \A ip \in IP : InFlight(ip) = {} /\ active[ip] = 0
BY DEF Init, newProxyRateLimiter, TunnelInv, ZeroInv, InFlight

(***************************************************************************)
(* However releases and reloads interleave, the counter of a client never  *)
(* exceeds the connections it really has: nobody is locked out by          *)
(* connections that are gone.                                              *)
(***************************************************************************)
THEOREM NoGhosts == Spec => []NoGhostConnections
<1>1. Init => CInv
  <2> SUFFICES ASSUME Init PROVE CInv
    OBVIOUS
  <2>1. NoGhostConnections
    BY InitPlaces, FS_EmptySet DEF NoGhostConnections
  <2>2. QED
    BY <2>1, InitType, InitPlaces DEF CInv
<1>2. CInv /\ [Next]_vars => CInv'
  BY TypeStep, TunnelStep, GhostStep DEF CInv
<1>3. CInv => NoGhostConnections
  BY DEF CInv
<1>4. QED
  BY <1>1, <1>2, <1>3, PTL DEF Spec
-----------------------------------------------------------------------------
(* Until the first reload the counter is the number of places in use. *)
ExactInv ==
    (gen = 0 /\ maxConcurrent > 0) =>
        \A ip \in IP : active[ip] = Cardinality(InFlight(ip)) /\ active[ip] <= maxConcurrent

(* One step other than a reload keeps the counter exact and within the limit. *)
LEMMA ExactStep == CInv /\ ExactInv /\ [Next]_vars => ExactInv'
<1> SUFFICES ASSUME CInv, ExactInv, [Next]_vars, gen' = 0, maxConcurrent' > 0, NEW ip \in IP
             PROVE  active'[ip] = Cardinality(InFlight(ip)') /\ active'[ip] <= maxConcurrent'
  BY DEF ExactInv
<1>0. /\ TypeOK /\ TunnelInv /\ maxConcurrent \in Nat /\ active \in [IP -> Nat]
      /\ gen \in Nat
  <2>1. gen \in Gen /\ TypeOK /\ TunnelInv
    BY DEF CInv, TypeOK
  <2>2. gen \in Nat
    BY <2>1, SettingAssumption DEF Gen
  <2>3. QED
    BY <2>1, <2>2 DEF TypeOK
<1>4. gen' \in {gen, gen + 1}
  BY DEF Next, vars, settings, ConnStep, AllowCheck, AllowLookup, AllowTake, AcquireCheck,
         AcquireLocked, HandlerEnds, ReleaseCheck, ReleaseLocked, Refill, update
<1>5. gen = 0 /\ gen' # gen + 1
  BY <1>0, <1>4
<1>1. CASE UNCHANGED <<pc, active, maxConcurrent>>
  BY <1>0, <1>1, <1>5 DEF ExactInv, InFlight
<1>2. ASSUME NEW c \in Conn, NEW l \in ConnState, pc' = [pc EXCEPT ![c] = l],
             UNCHANGED <<active, maxConcurrent>>,
             (Counted(c, ipOf[c]) => (pc[c] \in Busy <=> l \in Busy)) \/ maxConcurrent = 0
      PROVE  active'[ip] = Cardinality(InFlight(ip)') /\ active'[ip] <= maxConcurrent'
  <2>1. ~Counted(c, ip) \/ (pc[c] \in Busy <=> l \in Busy)
    BY <1>0, <1>2 DEF Counted
  <2>2. Cardinality(InFlight(ip)') = Cardinality(InFlight(ip))
    BY <1>0, <1>2, <2>1, CountMove
  <2>3. QED
    BY <1>2, <1>5, <2>2 DEF ExactInv
<1>3. ASSUME NEW c \in Conn \ Tunnelled, NEW l \in {"serving", "closed"}, pc' = [pc EXCEPT ![c] = l],
             UNCHANGED maxConcurrent,
             \/ /\ pc[c] = "lock" /\ l = "serving" /\ active[ipOf[c]] < maxConcurrent
                /\ active' = [active EXCEPT ![ipOf[c]] = @ + 1]
             \/ /\ pc[c] = "unlock" /\ l = "closed"
                /\ active' = [active EXCEPT ![ipOf[c]] = IF @ <= 1 THEN 0 ELSE @ - 1]
      PROVE  active'[ip] = Cardinality(InFlight(ip)') /\ active'[ip] <= maxConcurrent'
  <2>1. active[ip] = Cardinality(InFlight(ip)) /\ active[ip] <= maxConcurrent /\ active[ip] \in Nat
    BY <1>0, <1>3, <1>5 DEF ExactInv
  <2>2. CASE ip # ipOf[c]
    <3>0. ~Counted(c, ip)
      BY <2>2 DEF Counted
    <3>1. Cardinality(InFlight(ip)') = Cardinality(InFlight(ip))
      BY <1>0, <1>3, <3>0, CountMove DEF ConnState
    <3>2. QED
      BY <1>0, <1>3, <2>1, <2>2, <3>1
  <2>3. CASE ip = ipOf[c] /\ l = "serving"
    <3>1. Cardinality(InFlight(ip)') = Cardinality(InFlight(ip)) + 1
      BY <1>0, <1>3, <2>3, CountMove DEF Counted, Busy, ConnState
    <3>2. active'[ip] = active[ip] + 1 /\ active[ip] < maxConcurrent
      BY <1>0, <1>3, <2>3
    <3>3. QED
      BY <1>0, <1>3, <2>1, <3>1, <3>2
  <2>4. CASE ip = ipOf[c] /\ l = "closed"
    <3>1. Cardinality(InFlight(ip)') = Cardinality(InFlight(ip)) - 1
      BY <1>0, <1>3, <2>4, CountMove DEF Counted, Busy, ConnState
    <3>2. active'[ip] = IF active[ip] <= 1 THEN 0 ELSE active[ip] - 1
      BY <1>0, <1>3, <2>4
    <3>3. IsFiniteSet(InFlight(ip)')
      BY FS_Subset DEF InFlight
    <3>4. Cardinality(InFlight(ip)') \in Nat
      BY <3>3, FS_CardinalityType
    <3>5. QED
      BY <1>0, <1>3, <2>1, <3>1, <3>2, <3>4
  <2>5. QED
    BY <1>3, <2>2, <2>3, <2>4
<1>6. QED
  BY <1>0, <1>1, <1>2, <1>3, <1>5, Steps

(***************************************************************************)
(* Until the settings are first reloaded, no client is served more than    *)
(* maxConcurrent connections at once.                                      *)
(***************************************************************************)
THEOREM CappedUntilReload == Spec => []ConcurrencyCapped
<1>1. Init => CInv /\ ExactInv
  <2> SUFFICES ASSUME Init PROVE CInv /\ ExactInv
    OBVIOUS
  <2>1. \A ip \in IP : active[ip] = Cardinality(InFlight(ip)) /\ active[ip] = 0
    BY InitPlaces, FS_EmptySet
  <2>2. maxConcurrent \in Nat
    BY DEF Init, newProxyRateLimiter
  <2>3. QED
    BY <2>1, <2>2, InitType, InitPlaces DEF CInv, ExactInv, NoGhostConnections
<1>2. CInv /\ ExactInv /\ [Next]_vars => CInv' /\ ExactInv'
  BY TypeStep, TunnelStep, GhostStep, ExactStep DEF CInv
<1>3. CInv /\ ExactInv => ConcurrencyCapped
  <2> SUFFICES ASSUME CInv, ExactInv, gen = 0, maxConcurrent > 0, NEW ip \in IP
               PROVE  Cardinality({c \in InFlight(ip) : pc[c] = "serving"}) <= maxConcurrent
    BY DEF ConcurrencyCapped
  <2> DEFINE S == {c \in InFlight(ip) : pc[c] = "serving"}
  <2>1. IsFiniteSet(InFlight(ip)) /\ S \subseteq InFlight(ip)
    BY FS_Subset DEF InFlight
  <2>2. Cardinality(S) <= Cardinality(InFlight(ip)) /\ IsFiniteSet(S)
    BY <2>1, FS_Subset
  <2>3. Cardinality(S) \in Nat /\ Cardinality(InFlight(ip)) \in Nat
    BY <2>1, <2>2, FS_CardinalityType
  <2>4. Cardinality(InFlight(ip)) <= maxConcurrent /\ maxConcurrent \in Nat
    BY DEF CInv, TypeOK, ExactInv
  <2> HIDE DEF S
  <2>5. Cardinality(S) <= maxConcurrent
    BY <2>2, <2>3, <2>4
  <2>6. QED
    BY <2>5 DEF S
<1>4. QED
  BY <1>1, <1>2, <1>3, PTL DEF Spec
-----------------------------------------------------------------------------
(* Counting tokens *)

Waiting == {"new", "lookup", "take", "refused"}

(* The requests that bucket <<g, ip>> has let through. *)
Through(g, ip) == {c \in Conn : held[c] = g /\ ipOf[c] = ip /\ pc[c] \notin Waiting}
Balanced(g, ip) == Cardinality(Through(g, ip)) + tokens[g][ip] <= made[g][ip] + refilled[g][ip]

(* What a bucket holds is a number. *)
LEMMA BucketTypes ==
  ASSUME TypeOK, NEW g \in Gen, NEW ip \in IP
  PROVE  tokens[g][ip] \in Nat /\ made[g][ip] \in Nat /\ refilled[g][ip] \in Nat
BY DEF TypeOK

(* The requests let through are finitely many. *)
LEMMA ThroughFinite ==
  ASSUME NEW g, NEW ip
  PROVE  IsFiniteSet(Through(g, ip)) /\ Cardinality(Through(g, ip)) \in Nat
BY FS_Subset, FS_CardinalityType DEF Through

(* A bucket that lets nobody else through and is not touched stays balanced. *)
LEMMA NoMoreThrough ==
  ASSUME TypeOK, TypeOK', NEW g \in Gen, NEW ip \in IP, Balanced(g, ip),
         UNCHANGED <<made, tokens, refilled>>, Through(g, ip)' \subseteq Through(g, ip)
  PROVE  Balanced(g, ip)'
<1> DEFINE old == Cardinality(Through(g, ip))
           new == Cardinality(Through(g, ip)')
<1>1. old \in Nat /\ new \in Nat /\ new <= old
  <2>1. IsFiniteSet(Through(g, ip))
    BY ThroughFinite
  <2>2. QED
    BY <2>1, FS_Subset, FS_CardinalityType
<1>2. old + tokens[g][ip] <= made[g][ip] + refilled[g][ip]
  BY DEF Balanced
<1>3. new = Cardinality(Through(g, ip))'
  OBVIOUS
<1> HIDE DEF old, new
<1>4. new + tokens[g][ip] <= made[g][ip] + refilled[g][ip]
  BY <1>1, <1>2, BucketTypes
<1>5. QED
  BY <1>3, <1>4 DEF Balanced

(* AllowLookup: a bucket made afresh is full, and has let through only what was refilled. *)
LEMMA LookupBalanced ==
  ASSUME TypeOK, TypeOK', BucketInv, NEW c \in Conn, AllowLookup(c),
         NEW g \in Gen, NEW ip \in IP, Balanced(g, ip)
  PROVE  Balanced(g, ip)'
<1>1. Through(g, ip)' = Through(g, ip)
  BY GenFacts DEF AllowLookup, Goto, BucketInv, TypeOK, Through, Waiting
<1> DEFINE n == Cardinality(Through(g, ip))
<1>2. n \in Nat /\ n + tokens[g][ip] <= made[g][ip] + refilled[g][ip]
  BY ThroughFinite DEF Balanced
<1>3. n = Cardinality(Through(g, ip))'
  BY <1>1
<1> HIDE DEF n
<1>4. \/ tokens'[g][ip] = tokens[g][ip] /\ made'[g][ip] = made[g][ip]
      \/ /\ made[g][ip] = 0 /\ made'[g][ip] = ratePerSec /\ tokens'[g][ip] = ratePerSec
         /\ ratePerSec \in Nat
  <2>1. gen \in Gen /\ ipOf[c] \in IP
    BY DEF TypeOK
  <2>2. CASE made[gen][ipOf[c]] = 0
    <3>1. /\ made' = [made EXCEPT ![gen][ipOf[c]] = ratePerSec]
          /\ tokens' = [tokens EXCEPT ![gen][ipOf[c]] = ratePerSec]
      BY <2>2 DEF AllowLookup
    <3>2. QED
      BY <2>1, <2>2, <3>1 DEF TypeOK
  <2>3. CASE made[gen][ipOf[c]] # 0
    BY <2>3 DEF AllowLookup
  <2>4. QED
    BY <2>2, <2>3
<1>5. refilled' = refilled
  BY DEF AllowLookup
<1>6. n + tokens'[g][ip] <= made'[g][ip] + refilled'[g][ip]
  BY <1>2, <1>4, <1>5, BucketTypes
<1>7. QED
  BY <1>3, <1>6 DEF Balanced

(* AllowTake: each request let through costs the bucket in hand one token. *)
LEMMA TakeBalanced ==
  ASSUME TypeOK, TypeOK', BucketInv, NEW c \in Conn, AllowTake(c),
         NEW g \in Gen, NEW ip \in IP, Balanced(g, ip)
  PROVE  Balanced(g, ip)'
<1> DEFINE left == tokens[held[c]][ipOf[c]]
<1>1. /\ pc[c] = "take" /\ held[c] \in Gen /\ ipOf[c] \in IP /\ left \in Nat
      /\ UNCHANGED <<made, refilled, held>>
  BY DEF AllowTake, BucketInv, TypeOK
<1>2. CASE left < 1
  <2>1. tokens' = tokens /\ pc' = [pc EXCEPT ![c] = "refused"]
    BY <1>2 DEF AllowTake, Goto
  <2>2. Through(g, ip)' \subseteq Through(g, ip)
    BY <1>1, <2>1 DEF TypeOK, Through, Waiting
  <2>3. QED
    BY <1>1, <2>1, <2>2, NoMoreThrough
<1>3. CASE ~(left < 1)
  <2>1. /\ tokens' = [tokens EXCEPT ![held[c]][ipOf[c]] = left - 1]
        /\ pc' = [pc EXCEPT ![c] = AfterAllow(c)]
    BY <1>3 DEF AllowTake, Goto
  <2>2. AfterAllow(c) \notin Waiting
    BY DEF AfterAllow, Waiting
  <2>3. CASE held[c] = g /\ ipOf[c] = ip
    <3>1. c \notin Through(g, ip) /\ Through(g, ip)' = Through(g, ip) \cup {c}
      BY <1>1, <2>1, <2>2, <2>3 DEF TypeOK, Through, Waiting
    <3> DEFINE old == Cardinality(Through(g, ip))
               new == Cardinality(Through(g, ip)')
    <3>2. old \in Nat /\ new = old + 1
      BY <3>1, ThroughFinite, FS_AddElement
    <3>3. tokens'[g][ip] = left - 1 /\ left = tokens[g][ip]
      <4> HIDE DEF left
      <4>1. tokens'[g][ip] = left - 1
        BY <2>1, <2>3 DEF TypeOK
      <4>2. QED
        BY <2>3, <4>1 DEF left
    <3>4. old + tokens[g][ip] <= made[g][ip] + refilled[g][ip]
      BY DEF Balanced
    <3>5. new = Cardinality(Through(g, ip))'
      OBVIOUS
    <3> HIDE DEF old, new, left
    <3>6. new + tokens'[g][ip] <= made'[g][ip] + refilled'[g][ip]
      BY <1>1, <1>3, <3>2, <3>3, <3>4, BucketTypes
    <3>7. QED
      BY <3>5, <3>6 DEF Balanced
  <2>4. CASE ~(held[c] = g /\ ipOf[c] = ip)
    <3>1. Through(g, ip)' = Through(g, ip)
      BY <1>1, <2>1, <2>4 DEF TypeOK, Through
    <3>2. tokens'[g][ip] = tokens[g][ip]
      <4> HIDE DEF left
      <4>1. QED
        BY <1>1, <2>1, <2>4 DEF TypeOK
    <3>3. QED
      BY <1>1, <3>1, <3>2 DEF Balanced
  <2>5. QED
    BY <2>3, <2>4
<1>4. QED
  BY <1>2, <1>3

(* Refill: the token that time adds is counted as refilled. *)
LEMMA RefillBalanced ==
  ASSUME TypeOK, NEW h \in Gen, NEW jp \in IP, Refill(h, jp),
         NEW g \in Gen, NEW ip \in IP, Balanced(g, ip)
  PROVE  Balanced(g, ip)'
<1> DEFINE n == Cardinality(Through(g, ip))
<1>1. n \in Nat /\ n + tokens[g][ip] <= made[g][ip] + refilled[g][ip]
  BY ThroughFinite DEF Balanced
<1>2. Through(g, ip)' = Through(g, ip) /\ made' = made
  BY DEF Refill, Through
<1>3. n = Cardinality(Through(g, ip))'
  BY <1>2
<1> HIDE DEF n
<1>4. \/ tokens'[g][ip] = tokens[g][ip] /\ refilled'[g][ip] = refilled[g][ip]
      \/ tokens'[g][ip] = tokens[g][ip] + 1 /\ refilled'[g][ip] = refilled[g][ip] + 1
  BY DEF Refill, TypeOK
<1>5. n + tokens'[g][ip] <= made'[g][ip] + refilled'[g][ip]
  BY <1>1, <1>2, <1>4, BucketTypes
<1>6. QED
  BY <1>3, <1>5 DEF Balanced

RInv == TypeOK /\ BucketInv /\ \A g \in Gen, ip \in IP : Balanced(g, ip)

(* One step keeps every bucket balanced. *)
LEMMA BalanceStep == RInv /\ [Next]_vars => RInv'
<1> SUFFICES ASSUME RInv, [Next]_vars PROVE RInv'
  OBVIOUS
<1>1. TypeOK /\ BucketInv /\ TypeOK' /\ BucketInv'
  BY TypeStep DEF RInv
<1>2. SUFFICES ASSUME NEW g \in Gen, NEW ip \in IP PROVE Balanced(g, ip)'
  BY <1>1 DEF RInv
<1>3. Balanced(g, ip)
  BY DEF RInv
<1>4. ASSUME NEW c \in Conn, AllowLookup(c) PROVE Balanced(g, ip)'
  BY <1>1, <1>3, <1>4, LookupBalanced
<1>5. ASSUME NEW c \in Conn, AllowTake(c) PROVE Balanced(g, ip)'
  BY <1>1, <1>3, <1>5, TakeBalanced
<1>6. ASSUME NEW h \in Gen, NEW jp \in IP, Refill(h, jp) PROVE Balanced(g, ip)'
  BY <1>1, <1>3, <1>6, RefillBalanced
<1>7. ASSUME NEW c \in Conn, AllowCheck(c) PROVE Balanced(g, ip)'
  <2>1. pc[c] = "new" /\ held[c] = NoBucket /\ UNCHANGED <<made, tokens, refilled, held>>
    BY <1>1, <1>7 DEF AllowCheck, BucketInv, bucketVars
  <2>2. \A d \in Conn : d # c => pc'[d] = pc[d]
    BY <1>1, <1>7 DEF AllowCheck, Goto, TypeOK
  <2>3. Through(g, ip)' \subseteq Through(g, ip)
    BY <2>1, <2>2, GenFacts DEF Through
  <2>4. QED
    BY <1>1, <1>3, <2>1, <2>3, NoMoreThrough
<1>8. ASSUME NEW c \in Conn,
             \/ AcquireCheck(c) \/ AcquireLocked(c) \/ HandlerEnds(c)
             \/ ReleaseCheck(c) \/ ReleaseLocked(c)
      PROVE  Balanced(g, ip)'
  <2>1. pc[c] \notin Waiting /\ UNCHANGED <<made, tokens, refilled, held>>
    BY <1>8 DEF AcquireCheck, AcquireLocked, HandlerEnds, ReleaseCheck, ReleaseLocked, bucketVars, Waiting
  <2>2. \E l : pc' = [pc EXCEPT ![c] = l]
    BY <1>8 DEF AcquireCheck, AcquireLocked, HandlerEnds, ReleaseCheck, ReleaseLocked, Goto
  <2>3. Through(g, ip)' \subseteq Through(g, ip)
    BY <1>1, <2>1, <2>2 DEF TypeOK, Through
  <2>4. QED
    BY <1>1, <1>3, <2>1, <2>3, NoMoreThrough
<1>9. ASSUME UNCHANGED <<bucketVars, pc, held>> PROVE Balanced(g, ip)'
  <2>1. UNCHANGED <<made, tokens, refilled>> /\ Through(g, ip)' \subseteq Through(g, ip)
    BY <1>9 DEF bucketVars, Through
  <2>2. QED
    BY <1>1, <1>3, <2>1, NoMoreThrough
<1>10. QED
  BY <1>4, <1>5, <1>6, <1>7, <1>8, <1>9 DEF Next, ConnStep, update, vars

(***************************************************************************)
(* A bucket lets through no more requests than it was filled with and time *)
(* has added, even one that a request still holds after update discarded   *)
(* it.                                                                     *)
(***************************************************************************)
THEOREM RateAlwaysHolds == Spec => []RateHolds
<1>1. Init => RInv
  <2> SUFFICES ASSUME Init, NEW g \in Gen, NEW ip \in IP PROVE Balanced(g, ip)
    BY InitType DEF RInv
  <2>1. Through(g, ip) = {}
    BY DEF Init, Through, Waiting
  <2>2. tokens[g][ip] = 0 /\ made[g][ip] = 0 /\ refilled[g][ip] = 0
    BY DEF Init, newProxyRateLimiter
  <2>3. QED
    BY <2>1, <2>2, FS_EmptySet DEF Balanced
<1>2. RInv /\ [Next]_vars => RInv'
  BY BalanceStep
<1>3. RInv => RateHolds
  BY DEF RInv, RateHolds, Balanced, Through, Waiting
<1>4. QED
  BY <1>1, <1>2, <1>3, PTL DEF Spec
=============================================================================
