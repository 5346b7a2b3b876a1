-------------------------- MODULE MCProxyConnections --------------------------
(***************************************************************************)
(* Plans for the connections: handshakes of three clients for a cache of   *)
(* one; one connection of each protocol that sends requests of every fate; *)
(* one connection that becomes a WebSocket relay.                          *)
(***************************************************************************)
EXTENDS ProxyConnections

CONSTANTS c1, c2, c3

Hello == [kind |-> "hello", n |-> 0, body |-> FALSE, fate |-> "ok", short |-> FALSE]
Request(n, body, fate) ==
    [kind |-> "request", n |-> n, body |-> body, fate |-> fate, short |-> ~body /\ n = 1 /\ fate = "ok"]
Opening(proto) == IF proto = "plain" THEN << >> ELSE <<Hello>>

Conn(host, proto, early, units) ==
    [host |-> host, proto |-> proto, early |-> early, units |-> Opening(proto) \o units]
Unused == [host |-> "a", proto |-> "none", early |-> FALSE, units |-> << >>]

Handshakes ==
    {[c \in Conns |-> Conn(IF c = c1 THEN "a" ELSE IF c = c2 THEN h ELSE "10.0.0.1", "tls", FALSE, << >>)] :
        h \in {"a", "b"}}

Fates == {"ok", "refused", "large"}
Single ==
    {[c \in Conns |-> IF c = c1 THEN Conn("a", p, e, <<Request(1, b, f), Request(2, TRUE, g), Request(3, FALSE, "ok")>>) ELSE Unused] :
        p \in {"tls", "tls-h2", "h2c", "plain"}, e \in BOOLEAN, b \in BOOLEAN, f \in Fates, g \in {"ok", "large"}}

Upgrade ==
    {[c \in Conns |-> IF c = c1 THEN Conn("a", "plain", FALSE, <<Request(1, FALSE, "upgrade")>>) ELSE Unused]}

MCPlans == Handshakes \cup Single \cup Upgrade

Does(kinds, ends) == [kinds |-> kinds, ends |-> ends]
MCScript == {[client |-> Does({"data", "ping", "close"}, {"gone"}),
              server |-> Does({"data", "close"}, {"gone", "stalled"})]}

==============================================================================
