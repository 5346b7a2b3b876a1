-------------------------- MODULE MCProxyRateLimiter --------------------------
(* Instance of ProxyRateLimiter: two connections and a tunnelled request of *)
(* one client.                                                              *)
EXTENDS ProxyRateLimiter, TLC

CONSTANTS a1, a2, t1, ipA

Clients == [c \in Conn |-> ipA]
=============================================================================
