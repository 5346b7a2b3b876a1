--------------------------- MODULE MCControlPlane ---------------------------
(***************************************************************************)
(* Every command alone under every fault, by a client with and one without *)
(* the token, and pairs of commands that meet: in the rules, in a table,   *)
(* in the history, at a held request, at the rate limit.                   *)
(***************************************************************************)
EXTENDS ControlPlane, TLC

CONSTANTS c1, c2, c3, b1, b2, b3, b4, t1, t2, t3, login, nothing, w1, e1, e2, u1, u2, GET, POST

AnyRule == [urls |-> {u1}, methods |-> {}, header |-> NoHeader, body |-> None, codes |-> {}, enabled |-> TRUE]
FormRule == [AnyRule EXCEPT !.methods = {POST}, !.body = {"form"}, !.header = "present"]
ErrorRule == [AnyRule EXCEPT !.codes = {500, 502}]
JsonRule == [ErrorRule EXCEPT !.body = {"json"}]
OtherRule == [AnyRule EXCEPT !.urls = {u2}]
BadRule == [AnyRule EXCEPT !.urls = Bad]
AllRules == {[r EXCEPT !.enabled = b] : r \in {AnyRule, FormRule, ErrorRule, JsonRule, OtherRule, Plain(FormRule)}, b \in BOOLEAN}
Rules0 == (b1 :> FormRule) @@ (b2 :> ErrorRule) @@ (b3 :> None) @@ (b4 :> JsonRule)
Tables0 ==
    ("breakpoints" :> Rules0)
    @@ ("rewrite_rules" :> (w1 :> [enabled |-> TRUE, action |-> "block"]))
    @@ ("request_templates" :> ((t1 :> [name |-> login]) @@ (t2 :> [name |-> t1]) @@ (t3 :> None)))
Messages ==
    (e1 :> [url |-> u1, method |-> POST, header |-> "a", body |-> "form", status |-> 0])
    @@ (e2 :> [url |-> u1, method |-> GET, header |-> NoHeader, body |-> "html", status |-> 500])

Cmd(name) ==
    [name |-> name, usage |-> FALSE, bad |-> FALSE, id |-> None, rule |-> None, row |-> None, match |-> None,
     size |-> 0, offset |-> 0, file |-> "none", json |-> FALSE, call |-> None, stdin |-> FALSE]
On(name, id) == [Cmd(name) EXCEPT !.id = id]
Bad_(k) == [k EXCEPT !.bad = TRUE]
Piped(k) == [k EXCEPT !.stdin = TRUE]
To(f, k) == [k EXCEPT !.file = f]
Get(id, size) == [On("history get", id) EXCEPT !.size = size]
Add(r) == [Cmd("breakpoints add") EXCEPT !.rule = r]
Save(id, name) == [On("templates save", id) EXCEPT !.row = [name |-> name]]
Rewrite(rpc) == [Cmd("call") EXCEPT !.call = [Call(rpc) EXCEPT !.id = w1, !.row = [enabled |-> FALSE, action |-> "header"]]]
Mcp(rpc) == [Cmd("call") EXCEPT !.call = [Call(rpc) EXCEPT !.via = "mcp", !.id = 1]]

Alone ==
    {Cmd(n) : n \in {"status", "version", "plugins list", "history clear", "breakpoints list", "templates list",
                     "cert status", "config show", "send"}}
    \cup {k : k \in {[Cmd("history list") EXCEPT !.size = 1, !.offset = 1], [Cmd("filter") EXCEPT !.match = {1}, !.size = 5]}}
    \cup {To(f, Cmd(n)) : f \in {"none", "ok", "refused", "failing"}, n \in {"export ndjson", "export har", "learn", "doctor bundle", "contract convert"}}
    \cup {b : b \in {Cmd("contract init"), Bad_(Cmd("contract init")), Bad_(Cmd("contract convert"))}}
    \cup {[Bad_(Cmd("contract validate")) EXCEPT !.json = j] : j \in BOOLEAN}
    \cup UNION {{Cmd(n), Bad_(Cmd(n))} : n \in {"config-check", "config reload", "completion", "setup", "doctor", "send"}}
    \cup {On("templates execute", i) : i \in {t1, login, nothing}}
    \cup {Piped(Cmd("send")), Piped(On("replay", 1)), On("templates delete", t3), On("templates delete", None)}
    \cup {[Cmd("call") EXCEPT !.call = Call(r)] : r \in {"ReplayRequest", "UpdateRewriteRule", "DeleteRewriteRule", "ToggleRewriteRule"}}
    \cup {[Cmd("call") EXCEPT !.call = [Call("ReplayRequest") EXCEPT !.bad = TRUE]]}
    \cup {On("breakpoints delete", b3), [Cmd("call") EXCEPT !.call = [Call("SaveRequestTemplate") EXCEPT !.bad = TRUE]]}
    \cup {On("replay", i) : i \in {1, 9}} \cup {Get(1, 1), Get(9, 2)}
    \cup {Add(FormRule), Add(BadRule), [Cmd("status") EXCEPT !.usage = TRUE], Save(None, login), On("paused drop", e1)}
    \cup {[Mcp(r) EXCEPT !.call.bad = b] : r \in {"initialize", "GetStatus", "GetHistory", "ReplayRequest", "ComposeRequest", "other"}, b \in BOOLEAN}
    \cup {[Mcp("GetStatus") EXCEPT !.call.method = "GET"]}

Pair ==
    {<<On("breakpoints disable", b1), On("breakpoints delete", b1)>>, <<On("breakpoints enable", b1), On("breakpoints disable", b1)>>,
     <<Add(AnyRule), On("breakpoints delete", b2)>>, <<Rewrite("ToggleRewriteRule"), Rewrite("DeleteRewriteRule")>>,
     <<Rewrite("ToggleRewriteRule"), Rewrite("ToggleRewriteRule")>>, <<Rewrite("UpdateRewriteRule"), Rewrite("ListRewriteRules")>>,
     <<Rewrite("DeleteRewriteRule"), Rewrite("DeleteRewriteRule")>>, <<Cmd("history clear"), Cmd("history clear")>>,
     <<[Rewrite("AddRewriteRule") EXCEPT !.call.id = w1], Rewrite("DeleteRewriteRule")>>,
     <<On("templates execute", login), Save(t3, login)>>, <<On("templates execute", t1), On("templates delete", t1)>>}

Play(k, evals, faults, captures, prunes) ==
    [commands |-> k, evals |-> evals, faults |-> faults, captures |-> captures, prunes |-> prunes, rate |-> 0, auditing |-> "on"]
Both(k1, k2) == (c1 :> k1) @@ (c2 :> k2) @@ (c3 :> None)
Audited(how, p) == [p EXCEPT !.auditing = how]
Limited(p) == [p EXCEPT !.rate = 1]
AllFaults == {"storage", "stop", "upstream", "timeout", "stdin"}
AllScenarios ==
    {Play(Both(k, None), {}, AllFaults, 0, 0) : k \in Alone}
    \cup {Audited("failing", Play(Both(k, None), {}, {}, 0, 0)) : k \in Alone}
    \cup {Audited("off", Play((c1 :> None) @@ (c2 :> None) @@ (c3 :> k), {}, {}, 0, 0)) : k \in Alone}
    \cup {Play(Both(p[1], p[2]), {}, {"storage"}, 0, 0) : p \in Pair}
    \cup {Limited(Play(Both(Get(1, 1), None), {}, {"storage", "stop"}, 1, 1)), Limited(Play(Both(On("breakpoints enable", b1), Get(9, 2)), {}, {}, 0, 0))}
    \cup {Play(Both(Get(2, 1), k), {}, {}, 1, 1) : k \in {Cmd("history clear"), On("replay", 1)}}
    \cup {Play(Both([Cmd("watch") EXCEPT !.size = 1, !.match = {4}], None), {}, AllFaults, 2, 0)}
    \cup {Play(Both(None, None), {e1, e2}, {}, 0, 0)}
    \cup {Play(Both(k, None), {e1}, {}, 0, 0) : k \in {On("breakpoints disable", b1), Add(OtherRule)}}
    \cup {Play(Both(On("paused forward", e1), On("paused respond", e1)), {e1}, {}, 0, 0)}
    \cup {Play(Both([Cmd("paused watch") EXCEPT !.size = 1], None), {e1}, {"timeout"}, 0, 0)}

(* The exports, to files that can and cannot be written. *)
ExportScenarios == {Play(Both(To(f, Cmd(n)), None), {}, {}, 0, 0) : f \in {"ok", "failing"}, n \in {"export ndjson", "export har"}}
=============================================================================
