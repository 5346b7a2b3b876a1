---------------------------- MODULE MCEngineLife ----------------------------
(***************************************************************************)
(* Configuration files of every kind, disks a first start may find (new,   *)
(* of an older version with a key whose certificate is gone, complete, of  *)
(* a newer version), and ports in use.                                     *)
(***************************************************************************)
EXTENDS EngineLife

Ok(v) == [kind |-> "ok", values |-> v]
Small == [Defaults EXCEPT !.pause = 2, !.rate = 1, !.conc = 1, !.rows = 5, !.otel = TRUE, !.mcp = TRUE, !.metrics = TRUE]
Remote == [Defaults EXCEPT !.bind = "", !.tls = TRUE, !.body = 2]
Files ==
    {Ok(Small), Ok([Defaults EXCEPT !.rate = 0, !.health = FALSE]), Ok([Remote EXCEPT !.flaws = {"tls"}]),
     [kind |-> "mistyped", values |-> [Defaults EXCEPT !.conc = -1]], [kind |-> "syntax", values |-> None]}
Elsewhere == Ok([Small EXCEPT !.conc = 2])

Disks ==
    {[cert |-> None, key |-> None, tables |-> FALSE, cols |-> {}, version |-> 0],
     [cert |-> None, key |-> 0, tables |-> TRUE, cols |-> {}, version |-> 0],
     [cert |-> 0, key |-> 0, tables |-> TRUE, cols |-> {"header", "status"}, version |-> 1],
     [cert |-> None, key |-> None, tables |-> TRUE, cols |-> {"header", "status"}, version |-> 2]}
NewColumns == <<"header", "status">>

Pair0 == [cert |-> 0, key |-> 0, tables |-> TRUE, cols |-> {"header", "status"}, version |-> 1]
Tell(f, d, b, o, n, m) == [file |-> f, disk |-> d, busy |-> b, ops |-> o, starts |-> n, edits |-> m]
Stories ==
    {Tell(Ok(Small), d, {}, {"kill", "log", "database", "read", "ca", "otel"}, 3, 0) : d \in Disks}
    \cup {Tell(f, Pair0, {}, {"hup", "rpc"}, 1, 1) : f \in Files}
    \cup {Tell(f, Pair0, {}, {"stop", "hup", "rpc"}, 1, 0) : f \in Files}
    \cup {Tell(f, Pair0, b, {"stop"}, 2, 0) : f \in Files, b \in {{}, {"health", "proxy", "mcp"}, {"grpc"}}}
    \cup {Tell(Ok([Defaults EXCEPT !.flaws = {"contract"}]), Pair0, {}, {"stop"}, 1, 0)}
=============================================================================
