------------------------------ MODULE CertCache ------------------------------
(***************************************************************************)
(* The leaf certificates the proxy presents to its clients: CertForHost of *)
(* internal/proxy/cert.go and the LRU of internal/proxy/cert_lru.go.  The  *)
(* cache is locked by get and by put, not between them: handshakes for one *)
(* host may all miss, make a certificate each, and put them one after the  *)
(* other.                                                                  *)
(***************************************************************************)
EXTENDS Integers, Sequences, SequencesExt, FiniteSets

CONSTANTS
    CertCapacity,  \* the capacity of the LRU
    IPs            \* the hosts that are IP addresses

ASSUME CertCapacityAssumption == CertCapacity \in Nat \ {0}

VARIABLES
    lru,     \* the hosts of the list's elements, the front first
    entries  \* the map: host -> the certificate of its element

cacheVars == <<lru, entries>>

newCertLRU ==
    /\ lru = << >>
    /\ entries = << >>

(* The element of the list the map leads to. *)
Elem(host) == CHOOSE i \in DOMAIN lru : lru[i] = host

(* MoveToFront does nothing to an element that has left the list. *)
MoveToFront(host) ==
    IF host \in {lru[i] : i \in DOMAIN lru} THEN <<host>> \o RemoveAt(lru, Elem(host)) ELSE lru

Cached(host) == host \in DOMAIN entries

get(host) ==
    /\ Cached(host)
    /\ lru' = MoveToFront(host)
    /\ UNCHANGED entries

(* Mutant: the element leaves the list and stays in the map. *)
EvictedFromListOnly == {}

(* With the list full the element at its back goes, from the list and from *)
(* the map.                                                                 *)
Evicted == IF Len(lru) >= CertCapacity THEN {lru[Len(lru)]} ELSE {}

put(host, cert) ==
    IF Cached(host)
    THEN /\ entries' = [entries EXCEPT ![host] = cert]
         /\ lru' = MoveToFront(host)
    ELSE /\ lru' = <<host>> \o (IF Len(lru) >= CertCapacity THEN SubSeq(lru, 1, Len(lru) - 1) ELSE lru)
         /\ entries' = [h \in (DOMAIN entries \ Evicted) \cup {host} |->
                            IF h = host THEN cert ELSE entries[h]]

(* The certificate made for host: its subject alternative name is an IP     *)
(* address for an IP address and a DNS name for the rest.                   *)
Leaf(host, by) == [host |-> host, san |-> IF host \in IPs THEN "ip" ELSE "dns", by |-> by]

(* The list and the map hold the same hosts, each once, and never more than *)
(* the capacity.                                                            *)
CacheWhole ==
    /\ Len(lru) <= CertCapacity
    /\ DOMAIN entries = {lru[i] : i \in DOMAIN lru}
    /\ Cardinality(DOMAIN entries) = Len(lru)
    /\ \A h \in DOMAIN entries : entries[h].host = h

==============================================================================
