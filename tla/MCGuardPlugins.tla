---------------------------- MODULE MCGuardPlugins ----------------------------
(* Instance of GuardPlugins: overlapping transactions for a few URLs of one   *)
(* host.                                                                    *)
EXTENDS GuardPlugins, TLC

CONSTANTS t1, t2, t3, k1, k2, k3, h1

OneHost == [k \in Key |-> h1]
FullChain == <<"caching", "traffic-shaping", "circuit-breaker", "other">>
MCConfigs == {[failureThreshold |-> 2, successThreshold |-> 1],
              [failureThreshold |-> 1, successThreshold |-> 2]}
MCSymmetry == Permutations(Tx) \cup Permutations(Key)
=============================================================================
