----------------------------- MODULE GuardPlugins -----------------------------
(***************************************************************************)
(* The bundled plugins that keep state between transactions: CachingPlugin,*)
(* TrafficShaping and CircuitBreaker (internal/pluginrt/builtins), run as a*)
(* chain by RunRequest and RunResponse for transactions that overlap.      *)
(*                                                                         *)
(* A hook holds its plugin's lock throughout, so a hook is one action, and *)
(* other transactions run between two hooks of a pass.  A mocked response  *)
(* does not stop the pass: the plugins after it see the request too.  A    *)
(* transaction may end after OnRequest and never reach OnResponse: it was  *)
(* mocked, a hook failed, the operator or a rule answered it, or the       *)
(* upstream server could not be reached.                                   *)
(*                                                                         *)
(* MatchPath and MatchHosts are empty, so every request matches.  Response *)
(* bodies are buffered before the pass, so that reading one does not fail. *)
(*                                                                         *)
(* Time is two actions: an entry's TTL runs out, a circuit's openTimeout   *)
(* runs out.                                                               *)
(***************************************************************************)
EXTENDS Naturals, Sequences, SequencesExt, FiniteSets

CONSTANTS
    Tx,               \* transactions
    Key,              \* method and URL of a request: cacheKey
    Cached,           \* the keys whose method is one of CacheMethods
    Host,             \* upstream hosts
    hostOf,           \* hostOf[k]: the host of the URL
    chain,            \* the plugins in registration order
    Capacity,         \* entries the cache holds
    MaxConcurrent,    \* of TrafficShaping; 0 is no limit
    Configs,          \* the configurations the circuit breaker may have
    None

Plugin == {"caching", "traffic-shaping", "circuit-breaker", "other"}

Status == {"2xx", "4xx", "5xx"}

ASSUME TxAssumption == IsFiniteSet(Tx) /\ None \notin Tx /\ None \notin Plugin
ASSUME StatusAssumption == None \notin Status
ASSUME KeyAssumption == Cached \subseteq Key /\ hostOf \in [Key -> Host]
ASSUME ChainAssumption ==
    /\ chain \in Seq(Plugin)
    /\ \A i, j \in 1..Len(chain) : chain[i] = chain[j] => i = j
ASSUME ConfigAssumption ==
    /\ Capacity \in Nat \ {0} /\ MaxConcurrent \in Nat
    /\ Configs \subseteq [failureThreshold : Nat \ {0}, successThreshold : Nat \ {0}]

VARIABLES
    entries,         \* keys of the map of CachingPlugin
    lru,             \* its list, most recently used first
    inflight,        \* of TrafficShaping
    config,          \* FailureThreshold and SuccessThreshold of the breaker
    state,           \* state[h]: "closed", "open" or "halfOpen"
    failures,        \* failures[h]
    successes,       \* successes[h]
    halfOpenPending, \* halfOpenPending[h]
    waited,          \* waited[h]: openTimeout has passed since openedAt
    pc,              \* pc[t]: where the transaction is
    at,              \* at[t]: the plugin of the chain whose turn it is
    key,             \* key[t]: method and URL, as edited so far
    mock,            \* mock[t]: the plugin that set MockedResponse, or None
    served,          \* served[t]: whose response the cache gave it
    status,          \* status[t]: class of the upstream response
    place,           \* transactions TrafficShaping let through
    log              \* log[h]: the failures and successes seen, in order

cacheVars == <<entries, lru>>
breakerVars == <<config, state, failures, successes, halfOpenPending, waited, log>>
shapingVars == <<inflight, place>>
txVars == <<key, mock, served, status>>
vars == <<cacheVars, breakerVars, shapingVars, txVars, pc, at>>

Entry == [key : Key, from : Tx, expired : BOOLEAN]

Init ==
    /\ entries = {} /\ lru = <<>>
    /\ inflight = 0 /\ place = {}
    /\ config \in Configs
    /\ state = [h \in Host |-> "closed"]
    /\ failures = [h \in Host |-> 0]
    /\ successes = [h \in Host |-> 0]
    /\ halfOpenPending = [h \in Host |-> FALSE]
    /\ waited = [h \in Host |-> FALSE]
    /\ log = [h \in Host |-> <<>>]
    /\ pc = [t \in Tx |-> "new"]
    /\ at = [t \in Tx |-> 1]
    /\ key \in [Tx -> Key]
    /\ mock = [t \in Tx |-> None]
    /\ served = [t \in Tx |-> None]
    /\ status = [t \in Tx |-> None]

(* It is the turn of plugin p's hook in the pass of t. *)
Turn(t, pass, p) == pc[t] = pass /\ at[t] <= Len(chain) /\ chain[at[t]] = p

(* The hook returns without an error: the next plugin's turn. *)
Return(t) == at' = [at EXCEPT ![t] = @ + 1] /\ UNCHANGED pc

(* The hook returns a clone of the request with p's MockedResponse. *)
Mocked(t, p) == mock' = [mock EXCEPT ![t] = p] /\ UNCHANGED <<key, status>>

-----------------------------------------------------------------------------
(* CachingPlugin *)

(* Mutant: the most recent entry, whatever its key. *)
ElemFront(k) == 1

(* The place in the list of the element that entries[k] points to. *)
Elem(k) == CHOOSE i \in 1..Len(lru) : lru[i].key = k

(* Hit, miss, or an expired entry, which is removed. *)
CachingOnRequest(t) ==
    LET k == key[t]
        rest == RemoveAt(lru, Elem(k))
    IN  /\ Turn(t, "OnRequest", "caching")
        /\ Return(t)
        /\ \/ /\ k \notin Cached \cap entries
              /\ UNCHANGED <<cacheVars, txVars>>
           \/ /\ k \in Cached \cap entries /\ lru[Elem(k)].expired
              /\ lru' = rest
              /\ entries' = entries \ {k}
              /\ UNCHANGED txVars
           \/ /\ k \in Cached \cap entries /\ ~lru[Elem(k)].expired
              /\ lru' = <<lru[Elem(k)]>> \o rest
              /\ Mocked(t, "caching")
              /\ served' = [served EXCEPT ![t] = lru[Elem(k)].from]
              /\ UNCHANGED entries
        /\ UNCHANGED <<breakerVars, shapingVars>>

Fresh(t) == [key |-> key[t], from |-> t, expired |-> FALSE]

(* Mutant: the map keeps the key of the evicted element. *)
EvictKeepsKey(t) ==
    /\ lru' = <<Fresh(t)>> \o RemoveAt(lru, Len(lru))
    /\ entries' = entries \cup {key[t]}

(* The least recently used element makes room. *)
Evict(t) ==
    /\ lru' = <<Fresh(t)>> \o RemoveAt(lru, Len(lru))
    /\ entries' = (entries \ {lru[Len(lru)].key}) \cup {key[t]}

StoreResponse(t) ==
    \/ /\ key[t] \in entries
       /\ lru' = <<Fresh(t)>> \o RemoveAt(lru, Elem(key[t]))
       /\ UNCHANGED entries
    \/ /\ key[t] \notin entries /\ Len(lru) >= Capacity
       /\ Evict(t)
    \/ /\ key[t] \notin entries /\ Len(lru) < Capacity
       /\ lru' = <<Fresh(t)>> \o lru
       /\ entries' = entries \cup {key[t]}

CachingOnResponse(t) ==
    /\ Turn(t, "OnResponse", "caching")
    /\ Return(t)
    /\ IF key[t] \in Cached /\ status[t] = "2xx"
       THEN StoreResponse(t) ELSE UNCHANGED cacheVars
    /\ UNCHANGED <<breakerVars, shapingVars, txVars>>

(* The TTL of an entry runs out. *)
EntryExpires(i) ==
    /\ ~lru[i].expired
    /\ lru' = [lru EXCEPT ![i].expired = TRUE]
    /\ UNCHANGED <<entries, breakerVars, shapingVars, txVars, pc, at>>

-----------------------------------------------------------------------------
(* TrafficShaping *)

ShapingOnRequest(t) ==
    /\ Turn(t, "OnRequest", "traffic-shaping")
    /\ Return(t)
    /\ IF MaxConcurrent > 0 /\ inflight >= MaxConcurrent
       THEN Mocked(t, "traffic-shaping") /\ UNCHANGED <<shapingVars, served>>
       ELSE /\ inflight' = IF MaxConcurrent > 0 THEN inflight + 1 ELSE inflight
            /\ place' = place \cup {t}
            /\ UNCHANGED txVars
    /\ UNCHANGED <<cacheVars, breakerVars>>

ShapingOnResponse(t) ==
    /\ Turn(t, "OnResponse", "traffic-shaping")
    /\ Return(t)
    /\ inflight' = IF MaxConcurrent > 0 /\ inflight > 0 THEN inflight - 1 ELSE inflight
    /\ place' = place \ {t}
    /\ UNCHANGED <<cacheVars, breakerVars, txVars>>

-----------------------------------------------------------------------------
(* CircuitBreaker *)

LetProbe(h) ==
    /\ halfOpenPending' = [halfOpenPending EXCEPT ![h] = TRUE]
    /\ UNCHANGED txVars

BreakerOnRequest(t) ==
    LET h == hostOf[key[t]]
    IN  /\ Turn(t, "OnRequest", "circuit-breaker")
        /\ Return(t)
        /\ \/ /\ state[h] = "closed"
              /\ UNCHANGED <<state, successes, halfOpenPending, txVars>>
           \/ /\ state[h] = "open" /\ waited[h]
              /\ state' = [state EXCEPT ![h] = "halfOpen"]
              /\ successes' = [successes EXCEPT ![h] = 0]
              /\ LetProbe(h)
           \/ /\ state[h] = "halfOpen" /\ ~halfOpenPending[h]
              /\ LetProbe(h)
              /\ UNCHANGED <<state, successes>>
           \/ /\ \/ state[h] = "open" /\ ~waited[h]
                 \/ state[h] = "halfOpen" /\ halfOpenPending[h]
              /\ Mocked(t, "circuit-breaker")
              /\ UNCHANGED <<state, successes, halfOpenPending, served>>
        /\ UNCHANGED <<cacheVars, shapingVars, config, failures, waited, log>>

Open(h) ==
    /\ state' = [state EXCEPT ![h] = "open"]
    /\ waited' = [waited EXCEPT ![h] = FALSE]

(* A 5xx response. *)
Failure(h) ==
    \/ /\ state[h] = "closed" /\ failures[h] + 1 >= config.failureThreshold
       /\ Open(h)
       /\ failures' = [failures EXCEPT ![h] = 0]
       /\ UNCHANGED <<successes, halfOpenPending>>
    \/ /\ state[h] = "closed" /\ failures[h] + 1 < config.failureThreshold
       /\ failures' = [failures EXCEPT ![h] = @ + 1]
       /\ UNCHANGED <<state, waited, successes, halfOpenPending>>
    \/ /\ state[h] = "halfOpen"
       /\ Open(h)
       /\ successes' = [successes EXCEPT ![h] = 0]
       /\ halfOpenPending' = [halfOpenPending EXCEPT ![h] = FALSE]
       /\ UNCHANGED failures
    \/ /\ state[h] = "open"
       /\ UNCHANGED <<state, waited, failures, successes, halfOpenPending>>

(* Mutant: a success in the closed state does not reset the failures. *)
SuccessKeepsCount(h) ==
    \/ /\ state[h] \in {"open", "closed"}
       /\ UNCHANGED <<state, failures, successes, halfOpenPending>>
    \/ /\ state[h] = "halfOpen"
       /\ halfOpenPending' = [halfOpenPending EXCEPT ![h] = FALSE]
       /\ IF successes[h] + 1 >= config.successThreshold
          THEN /\ state' = [state EXCEPT ![h] = "closed"]
               /\ successes' = [successes EXCEPT ![h] = 0]
               /\ failures' = [failures EXCEPT ![h] = 0]
          ELSE /\ successes' = [successes EXCEPT ![h] = @ + 1]
               /\ UNCHANGED <<state, failures>>

(* Any other response. *)
Success(h) ==
    \/ /\ state[h] = "closed"
       /\ failures' = [failures EXCEPT ![h] = 0]
       /\ UNCHANGED <<state, successes, halfOpenPending>>
    \/ /\ state[h] = "halfOpen"
       /\ halfOpenPending' = [halfOpenPending EXCEPT ![h] = FALSE]
       /\ IF successes[h] + 1 >= config.successThreshold
          THEN /\ state' = [state EXCEPT ![h] = "closed"]
               /\ successes' = [successes EXCEPT ![h] = 0]
               /\ failures' = [failures EXCEPT ![h] = 0]
          ELSE /\ successes' = [successes EXCEPT ![h] = @ + 1]
               /\ UNCHANGED <<state, failures>>
    \/ /\ state[h] = "open"
       /\ UNCHANGED <<state, failures, successes, halfOpenPending>>

BreakerOnResponse(t) ==
    LET h == hostOf[key[t]]
    IN  /\ Turn(t, "OnResponse", "circuit-breaker")
        /\ Return(t)
        /\ \/ status[t] = "5xx" /\ Failure(h)
           \/ status[t] # "5xx" /\ Success(h) /\ UNCHANGED waited
        /\ log' = [log EXCEPT ![h] = Append(@, status[t] = "5xx")]
        /\ UNCHANGED <<cacheVars, shapingVars, txVars, config>>

(* openTimeout has passed. *)
OpenTimeoutPasses(h) ==
    /\ state[h] = "open" /\ ~waited[h]
    /\ waited' = [waited EXCEPT ![h] = TRUE]
    /\ UNCHANGED <<cacheVars, shapingVars, txVars, pc, at,
                   config, state, failures, successes, halfOpenPending, log>>

-----------------------------------------------------------------------------
(* Any other plugin: MockResponse, FaultInjection, PolicyEngine, JWTAuth,  *)
(* RateLimiter, LatencyModifier...  A hook leaves MockedResponse as it was *)
(* or sets it; OnResponse may change the status; an error or a panic ends  *)
(* the transaction.  None of the bundled plugins changes method or URL.    *)

(* Mutant: the clone does not carry MockedResponse over. *)
OtherForgets(t) ==
    /\ Turn(t, "OnRequest", "other")
    /\ Return(t)
    /\ Mocked(t, None)
    /\ UNCHANGED <<served, cacheVars, breakerVars, shapingVars>>

OtherOnRequest(t) ==
    /\ Turn(t, "OnRequest", "other")
    /\ \/ Return(t) /\ UNCHANGED txVars
       \/ Return(t) /\ Mocked(t, "other") /\ UNCHANGED served
       \/ pc' = [pc EXCEPT ![t] = "done"] /\ UNCHANGED <<at, txVars>>
    /\ UNCHANGED <<cacheVars, breakerVars, shapingVars>>

OtherOnResponse(t) ==
    /\ Turn(t, "OnResponse", "other")
    /\ \/ Return(t) /\ UNCHANGED status
       \/ Return(t) /\ \E s \in Status : status' = [status EXCEPT ![t] = s]
       \/ pc' = [pc EXCEPT ![t] = "done"] /\ UNCHANGED <<at, status>>
    /\ UNCHANGED <<cacheVars, breakerVars, shapingVars, key, mock, served>>

-----------------------------------------------------------------------------
(* The transaction around the two passes *)

RunRequest(t) ==
    /\ pc[t] = "new"
    /\ pc' = [pc EXCEPT ![t] = "OnRequest"]
    /\ UNCHANGED <<cacheVars, breakerVars, shapingVars, txVars, at>>

(* A mocked request is answered.  Any other is answered by the operator or *)
(* by a rule, or goes on, perhaps with another method and URL.             *)
RequestDecided(t) ==
    /\ pc[t] = "OnRequest" /\ at[t] = Len(chain) + 1
    /\ \/ pc' = [pc EXCEPT ![t] = "done"] /\ UNCHANGED key
       \/ /\ mock[t] = None
          /\ pc' = [pc EXCEPT ![t] = "upstream"]
          /\ \E k \in Key : key' = [key EXCEPT ![t] = k]
    /\ UNCHANGED <<cacheVars, breakerVars, shapingVars, at, mock, served, status>>

(* The round trip fails, or it or a map-local rule has a response for the *)
(* OnResponse pass.                                                        *)
RoundTrip(t) ==
    /\ pc[t] = "upstream"
    /\ \/ pc' = [pc EXCEPT ![t] = "done"] /\ UNCHANGED <<at, status>>
       \/ /\ \E s \in Status : status' = [status EXCEPT ![t] = s]
          /\ pc' = [pc EXCEPT ![t] = "OnResponse"]
          /\ at' = [at EXCEPT ![t] = 1]
    /\ UNCHANGED <<cacheVars, breakerVars, shapingVars, key, mock, served>>

ResponseDecided(t) ==
    /\ pc[t] = "OnResponse" /\ at[t] = Len(chain) + 1
    /\ pc' = [pc EXCEPT ![t] = "done"]
    /\ UNCHANGED <<cacheVars, breakerVars, shapingVars, txVars, at>>

Hook(t) ==
    \/ CachingOnRequest(t) \/ ShapingOnRequest(t) \/ BreakerOnRequest(t) \/ OtherOnRequest(t)
    \/ CachingOnResponse(t) \/ ShapingOnResponse(t) \/ BreakerOnResponse(t) \/ OtherOnResponse(t)

Next ==
    \/ \E t \in Tx : RunRequest(t) \/ Hook(t) \/ RequestDecided(t) \/ RoundTrip(t) \/ ResponseDecided(t)
    \/ \E i \in 1..Len(lru) : EntryExpires(i)
    \/ \E h \in Host : OpenTimeoutPasses(h)

Spec == Init /\ [][Next]_vars

-----------------------------------------------------------------------------
(* Properties *)

TypeOK ==
    /\ entries \subseteq Key
    /\ lru \in Seq(Entry)
    /\ inflight \in Nat /\ place \subseteq Tx
    /\ config \in Configs
    /\ state \in [Host -> {"closed", "open", "halfOpen"}]
    /\ failures \in [Host -> Nat] /\ successes \in [Host -> Nat]
    /\ halfOpenPending \in [Host -> BOOLEAN] /\ waited \in [Host -> BOOLEAN]
    /\ log \in [Host -> Seq(BOOLEAN)]
    /\ pc \in [Tx -> {"new", "OnRequest", "upstream", "OnResponse", "done"}]
    /\ at \in [Tx -> 1..(Len(chain) + 1)]
    /\ key \in [Tx -> Key]
    /\ mock \in [Tx -> Plugin \cup {None}]
    /\ served \in [Tx -> Tx \cup {None}]
    /\ status \in [Tx -> Status \cup {None}]

(***************************************************************************)
(* The cache's map and its list always hold the same keys, each once, and  *)
(* never more than Capacity: through hits, updates, evictions and entries  *)
(* that expire, interleaved in any order.                                  *)
(***************************************************************************)
CacheCoherent ==
    /\ entries = {lru[i].key : i \in 1..Len(lru)}
    /\ \A i, j \in 1..Len(lru) : lru[i].key = lru[j].key => i = j
    /\ Len(lru) <= Capacity

(***************************************************************************)
(* What the cache answers a request with is the upstream response of the   *)
(* transaction that was forwarded with the same method and URL, though an  *)
(* operator may have edited that request on its way and other entries were *)
(* added, moved and evicted since.                                         *)
(***************************************************************************)
HitIsTrue ==
    \A t \in Tx : mock[t] = "caching" =>
        /\ served[t] \in Tx
        /\ key[served[t]] = key[t]
        /\ status[served[t]] # None

(* The transactions between the two hooks of TrafficShaping. *)
Inside == {t \in place : pc[t] # "done"}

(***************************************************************************)
(* Concurrency limit: the counter covers every transaction between its     *)
(* OnRequest and its OnResponse, so no more than MaxConcurrent of them are *)
(* there at once.  (It may count more: see the README on lost places.)     *)
(***************************************************************************)
ConcurrencyLimited ==
    MaxConcurrent > 0 => Cardinality(Inside) <= inflight /\ inflight <= MaxConcurrent

(* The last n responses a circuit has seen were all failures, or not. *)
LastAre(n, seq, failed) ==
    /\ n <= Len(seq)
    /\ \A i \in (Len(seq) - n + 1)..Len(seq) : seq[i] = failed

(***************************************************************************)
(* A closed circuit opens only on FailureThreshold failures in a row, and  *)
(* a half-open one closes only on SuccessThreshold successes in a row,     *)
(* counted over the responses in the order the breaker sees them.          *)
(***************************************************************************)
TripsOnEvidence ==
    [][\A h \in Host :
          /\ state[h] = "closed" /\ state'[h] = "open"
                => LastAre(config.failureThreshold, log'[h], TRUE)
          /\ state[h] = "halfOpen" /\ state'[h] = "closed"
                => LastAre(config.successThreshold, log'[h], FALSE)]_vars
=============================================================================
