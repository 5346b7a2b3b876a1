--------------------------- MODULE MCTrafficHistory ---------------------------
(* Instances of TrafficHistory.  t1 and t2 may share an X-Request-ID, t1 is an upgrade. *)
EXTENDS TrafficHistory, TLC

CONSTANTS t1, t2, t3, m1, i1, i2, i3, i4, p1, p2, c1, c2, s1, s2

SharedIds == [w \in Writer |-> CASE w \in {t1, t2} -> i1 [] w = t3 -> i3 [] w = m1 -> i4]
DistinctIds == [w \in Writer |-> CASE w = t1 -> i1 [] w = t2 -> i2 [] w = t3 -> i3 [] w = m1 -> i4]
OneRow == [p \in Pruner |-> 1]
=============================================================================
