--------------------------- MODULE ProxyRateLimiter ---------------------------
(***************************************************************************)
(* The per-client admission control in front of the proxies,               *)
(* internal/proxy/ratelimit.go, as ServeHTTP and the TLS handlers call it: *)
(* allow (a token bucket per client), acquire, the request itself, the     *)
(* deferred release, and update, which a configuration reload calls at any *)
(* moment.  ratePerSec and maxConcurrent are tested before l.mu is taken,  *)
(* so each such test is a step of its own.                                 *)
(*                                                                         *)
(* update replaces all buckets, so a bucket is named by its client and by  *)
(* the number of updates before it.  A goroutine keeps the bucket it       *)
(* looked up, whatever update does meanwhile.                              *)
(***************************************************************************)
EXTENDS Naturals, FiniteSets

CONSTANTS
    Conn,       \* the requests and CONNECT connections, a goroutine each
    Tunnelled,  \* those inside a TLS tunnel: rate limited, not counted
    IP,         \* client addresses
    ipOf,       \* ipOf[c]: normalizeClientIP of the remote address
    Rates,      \* the values ratePerSec takes; 0 is no limit
    Limits,     \* the values maxConcurrent takes; 0 is no limit
    MaxUpdates, \* bound: reloads in a behaviour
    MaxRefill   \* bound: whole tokens that time adds to a bucket

ASSUME ConnAssumption == /\ IsFiniteSet(Conn)
                         /\ Tunnelled \subseteq Conn
                         /\ ipOf \in [Conn -> IP]
ASSUME SettingAssumption == /\ Rates \subseteq Nat /\ Limits \subseteq Nat
                            /\ MaxUpdates \in Nat /\ MaxRefill \in Nat

VARIABLES
    ratePerSec,    \* the current setting
    maxConcurrent, \* the current setting
    gen,           \* number of updates so far
    made,          \* made[g][ip]: ratePerSec bucket <<g, ip>> was made with
    tokens,        \* tokens[g][ip]: whole tokens in that bucket
    refilled,      \* refilled[g][ip]: tokens time has added to it
    active,        \* active[ip], 0 where the map has no key
    pc,            \* pc[c]: where the goroutine is
    held           \* held[c]: generation of the bucket it looked up

bucketVars == <<made, tokens, refilled>>
settings == <<ratePerSec, maxConcurrent, gen>>
vars == <<settings, bucketVars, active, pc, held>>

Gen == 0..MaxUpdates
NoBucket == MaxUpdates + 1  \* no bucket was looked up

ConnState == {"new", "lookup", "take", "acquire", "lock", "serving",
              "release", "unlock", "refused", "closed"}

(* The connections of ip that hold, or still owe, a place. *)
InFlight(ip) ==
    {c \in Conn \ Tunnelled : ipOf[c] = ip /\ pc[c] \in {"serving", "release", "unlock"}}

newProxyRateLimiter ==
    /\ ratePerSec \in Rates
    /\ maxConcurrent \in Limits
    /\ gen = 0
    /\ made = [g \in Gen |-> [ip \in IP |-> 0]]
    /\ tokens = [g \in Gen |-> [ip \in IP |-> 0]]
    /\ refilled = [g \in Gen |-> [ip \in IP |-> 0]]
    /\ active = [ip \in IP |-> 0]

Init ==
    /\ newProxyRateLimiter
    /\ pc = [c \in Conn |-> "new"]
    /\ held = [c \in Conn |-> NoBucket]

Goto(c, label) == pc' = [pc EXCEPT ![c] = label]

AfterAllow(c) == IF c \in Tunnelled THEN "serving" ELSE "acquire"

-----------------------------------------------------------------------------
(* allow *)

AllowCheck(c) ==
    /\ pc[c] = "new"
    /\ Goto(c, IF ratePerSec = 0 THEN AfterAllow(c) ELSE "lookup")
    /\ UNCHANGED <<settings, bucketVars, active, held>>

(* Under l.mu: the client's bucket, made full if there is none. *)
AllowLookup(c) ==
    /\ pc[c] = "lookup"
    /\ LET ip == ipOf[c]
           fresh == made[gen][ip] = 0
       IN  /\ made' = IF fresh THEN [made EXCEPT ![gen][ip] = ratePerSec] ELSE made
           /\ tokens' = IF fresh THEN [tokens EXCEPT ![gen][ip] = ratePerSec] ELSE tokens
    /\ held' = [held EXCEPT ![c] = gen]
    /\ Goto(c, "take")
    /\ UNCHANGED <<settings, refilled, active>>

(* Mutant: the token is not taken. *)
AllowTakeFree(c) ==
    /\ pc[c] = "take"
    /\ Goto(c, IF tokens[held[c]][ipOf[c]] < 1 THEN "refused" ELSE AfterAllow(c))
    /\ UNCHANGED <<settings, bucketVars, active, held>>

(* tokenBucket.allow on the bucket in hand. *)
AllowTake(c) ==
    /\ pc[c] = "take"
    /\ LET left == tokens[held[c]][ipOf[c]]
       IN  /\ Goto(c, IF left < 1 THEN "refused" ELSE AfterAllow(c))
           /\ tokens' = IF left < 1 THEN tokens
                        ELSE [tokens EXCEPT ![held[c]][ipOf[c]] = left - 1]
    /\ UNCHANGED <<settings, made, refilled, active, held>>

(* Time passes: what the next allow of that bucket will add, up to maxTokens. *)
Refill(g, ip) ==
    /\ tokens[g][ip] < made[g][ip]
    /\ refilled[g][ip] < MaxRefill
    /\ tokens' = [tokens EXCEPT ![g][ip] = @ + 1]
    /\ refilled' = [refilled EXCEPT ![g][ip] = @ + 1]
    /\ UNCHANGED <<settings, made, active, pc, held>>

-----------------------------------------------------------------------------
(* acquire, the request, release *)

AcquireCheck(c) ==
    /\ pc[c] = "acquire"
    /\ Goto(c, IF maxConcurrent = 0 THEN "serving" ELSE "lock")
    /\ UNCHANGED <<settings, bucketVars, active, held>>

(* Mutant: > for >=. *)
AcquireOneMore(c) ==
    /\ pc[c] = "lock"
    /\ IF active[ipOf[c]] > maxConcurrent
       THEN Goto(c, "refused") /\ UNCHANGED active
       ELSE Goto(c, "serving") /\ active' = [active EXCEPT ![ipOf[c]] = @ + 1]
    /\ UNCHANGED <<settings, bucketVars, held>>

(* Mutant: a refused connection is counted too. *)
AcquireCountsAll(c) ==
    /\ pc[c] = "lock"
    /\ active' = [active EXCEPT ![ipOf[c]] = @ + 1]
    /\ Goto(c, IF active[ipOf[c]] >= maxConcurrent THEN "refused" ELSE "serving")
    /\ UNCHANGED <<settings, bucketVars, held>>

(* Mutant: wait for a place instead of refusing. *)
AcquireWaits(c) ==
    /\ pc[c] = "lock"
    /\ active[ipOf[c]] < maxConcurrent
    /\ Goto(c, "serving")
    /\ active' = [active EXCEPT ![ipOf[c]] = @ + 1]
    /\ UNCHANGED <<settings, bucketVars, held>>

AcquireLocked(c) ==
    /\ pc[c] = "lock"
    /\ IF active[ipOf[c]] >= maxConcurrent
       THEN Goto(c, "refused") /\ UNCHANGED active
       ELSE Goto(c, "serving") /\ active' = [active EXCEPT ![ipOf[c]] = @ + 1]
    /\ UNCHANGED <<settings, bucketVars, held>>

(* The handler returns or panics; the deferred release runs either way. *)
HandlerEnds(c) ==
    /\ pc[c] = "serving"
    /\ Goto(c, IF c \in Tunnelled THEN "closed" ELSE "release")
    /\ UNCHANGED <<settings, bucketVars, active, held>>

ReleaseCheck(c) ==
    /\ pc[c] = "release"
    /\ Goto(c, IF maxConcurrent = 0 THEN "closed" ELSE "unlock")
    /\ UNCHANGED <<settings, bucketVars, active, held>>

ReleaseLocked(c) ==
    /\ pc[c] = "unlock"
    /\ active' = [active EXCEPT ![ipOf[c]] = IF @ <= 1 THEN 0 ELSE @ - 1]
    /\ Goto(c, "closed")
    /\ UNCHANGED <<settings, bucketVars, held>>

-----------------------------------------------------------------------------
(* SetRateLimits of a configuration reload. *)
update(rate, limit) ==
    /\ gen < MaxUpdates
    /\ rate # ratePerSec \/ limit # maxConcurrent
    /\ ratePerSec' = rate
    /\ maxConcurrent' = limit
    /\ gen' = gen + 1
    /\ active' = [ip \in IP |-> 0]
    /\ UNCHANGED <<bucketVars, pc, held>>

ConnStep(c) ==
    \/ AllowCheck(c) \/ AllowLookup(c) \/ AllowTake(c)
    \/ AcquireCheck(c) \/ AcquireLocked(c)
    \/ HandlerEnds(c)
    \/ ReleaseCheck(c) \/ ReleaseLocked(c)

Next ==
    \/ \E c \in Conn : ConnStep(c)
    \/ \E g \in Gen, ip \in IP : Refill(g, ip)
    \/ \E rate \in Rates, limit \in Limits : update(rate, limit)

Spec == Init /\ [][Next]_vars

(***************************************************************************)
(* Goroutines are scheduled.  Nothing bounds how long a handler runs: a    *)
(* tunnel lives as long as its client likes.                               *)
(***************************************************************************)
FairSpec ==
    Spec /\ \A c \in Conn : WF_vars(ConnStep(c) /\ pc[c] # "serving")

-----------------------------------------------------------------------------
(* Properties *)

TypeOK ==
    /\ ratePerSec \in Nat
    /\ maxConcurrent \in Nat
    /\ gen \in Gen
    /\ made \in [Gen -> [IP -> Nat]]
    /\ tokens \in [Gen -> [IP -> Nat]]
    /\ refilled \in [Gen -> [IP -> Nat]]
    /\ active \in [IP -> Nat]
    /\ pc \in [Conn -> ConnState]
    /\ held \in [Conn -> Gen \cup {NoBucket}]

(***************************************************************************)
(* The counter never counts a connection that is gone, however releases    *)
(* and reloads interleave: a client is refused for lack of a place only if *)
(* it really has that many connections.                                    *)
(***************************************************************************)
NoGhostConnections == \A ip \in IP : active[ip] <= Cardinality(InFlight(ip))

(***************************************************************************)
(* Until the first reload a client has at most maxConcurrent connections   *)
(* in service, however admissions and releases interleave.  After one it   *)
(* may have more: update forgets the connections in flight, and their      *)
(* releases give back places that others hold.                             *)
(***************************************************************************)
ConcurrencyCapped ==
    (gen = 0 /\ maxConcurrent > 0) =>
        \A ip \in IP : Cardinality({c \in InFlight(ip) : pc[c] = "serving"}) <= maxConcurrent

(***************************************************************************)
(* Conservation of tokens: the requests a bucket has let through and the   *)
(* tokens it still has are no more than its initial fill and what time has *)
(* added, also when a request still holds a bucket that update discarded.  *)
(***************************************************************************)
RateHolds ==
    \A g \in Gen, ip \in IP :
        Cardinality({c \in Conn : /\ held[c] = g /\ ipOf[c] = ip
                                  /\ pc[c] \notin {"new", "lookup", "take", "refused"}})
            + tokens[g][ip] <= made[g][ip] + refilled[g][ip]

(***************************************************************************)
(* Admission never waits: whatever a reload does between the unlocked test *)
(* of a setting and the locked use of it, a connection is soon served or   *)
(* refused, and one whose handler ended is soon gone.                      *)
(***************************************************************************)
NeverWaits ==
    \A c \in Conn : (pc[c] # "serving") ~> (pc[c] \in {"serving", "refused", "closed"})
=============================================================================
