---------------------------- MODULE ControlServer ----------------------------
(***************************************************************************)
(* The control side of the engine (internal/server): the gRPC server with  *)
(* its interceptors and handlers, the MCP endpoint, and the state they     *)
(* share: the breakpoint rules in memory (BreakpointRules), the requests   *)
(* that are held for one of them, the tables breakpoints, rewrite_rules    *)
(* and request_templates, the history the proxy fills and the pruner       *)
(* trims, and the audit log.                                               *)
(*                                                                         *)
(* A call goes through the interceptors and then through the steps of its  *)
(* handler; the steps of other calls, of evaluations and of the proxy come *)
(* in between.  The process may end at any moment, by a signal or by a     *)
(* panic: what is in memory is gone, the tables stay.                      *)
(***************************************************************************)
EXTENDS BreakpointRules, Sequences

CONSTANTS
    Client,       \* the clients, each with one call at a time
    Scenario,     \* what is going to happen: see scenario
    Authorized,   \* the clients that present the token
    AllowedTools, \* the MCP tools with a side effect that are switched on
    FirstTable,   \* the tables at the start
    FirstHistory  \* the number of transactions in the history at the start

VARIABLES
    scenario, \* [commands, evals, faults, captures, prunes, rate, auditing]: what each client runs, the
              \* evaluations, the faults that may happen, the transactions captured, the rows pruned,
              \* grpc_rate_limit_per_sec, 0 for no limit, and whether audit_log_enabled is "off", as it
              \* is by default, "on", or on with a log that cannot be written ("failing")
    call,     \* call[c]: the call of c, None before the first
    spc,      \* spc[c]: where the server is with it
    draft,    \* draft[c]: what its handler has read
    reply,    \* reply[c]: [code, data], what c has been answered
    events,   \* events[c]: those sent on the stream of c
    tokens,   \* tokens[k]: the bucket of this host in interceptor k
    table,    \* table[t][id]: the row with that ID in table t
    history,  \* the transactions, the newest first
    captured, \* transactions stored so far
    held,     \* held[e]: the entry of request e in pausedReqs
    running,  \* the process runs
    audit,    \* the clients whose call the audit log names
    effects   \* effects[c]: how often a call of c has changed something

callVars == <<call, spc, draft, reply, events>>
storeVars == <<table, history, captured>>
otherVars == <<scenario, tokens, running>>
traceVars == <<audit, effects>>

Tables == {"breakpoints", "rewrite_rules", "request_templates"}
Streams == {"GetHistory", "CaptureTraffic", "WatchPausedRequests"}
InFlight == {"sent", "admitted", "handler", "store", "upstream", "stream", "open", "audit"}
Fault(f) == f \in scenario.faults

ASSUME ScenarioAssumption ==
    \A s \in Scenario :
        /\ DOMAIN s = {"commands", "evals", "faults", "captures", "prunes", "rate", "auditing"}
        /\ s.rate \in Nat /\ s.auditing \in {"off", "on", "failing"}
ASSUME StartAssumption ==
    /\ FirstHistory \in Nat /\ None \notin Nat
    /\ DOMAIN FirstTable = Tables /\ DOMAIN FirstTable["breakpoints"] = RuleId

ServerInit ==
    /\ RulesInit
    /\ scenario \in Scenario
    /\ call = [c \in Client |-> None]
    /\ spc = [c \in Client |-> "none"]
    /\ draft = [c \in Client |-> None]
    /\ reply = [c \in Client |-> None]
    /\ events = [c \in Client |-> 0]
    /\ tokens = [k \in {"unary", "stream"} |-> scenario.rate]
    /\ table = FirstTable
    /\ history = [i \in 1..FirstHistory |-> FirstHistory + 1 - i]
    /\ captured = FirstHistory
    /\ held = [e \in Eval |-> "none"]
    /\ running = TRUE
    /\ audit = {}
    /\ effects = [c \in Client |-> 0]

At(c, stage, rpc) == spc[c] = stage /\ call[c].rpc = rpc
Goto(c, stage) == spc' = [spc EXCEPT ![c] = stage] /\ UNCHANGED reply
Answer(c, code, data) ==
    /\ spc' = [spc EXCEPT ![c] = "answered"]
    /\ reply' = [reply EXCEPT ![c] = [code |-> code, data |-> data]]
Refuse(c, code) == Answer(c, code, None)
Effect(c) == effects' = [effects EXCEPT ![c] = @ + 1]

-----------------------------------------------------------------------------
(* Interceptors, in the order of NewGRPCServer. *)

(* rateLimitUnaryInterceptor and rateLimitStreamInterceptor have a bucket each. *)
RateLimit(c) ==
    LET k == IF call[c].rpc \in Streams THEN "stream" ELSE "unary"
    IN  /\ spc[c] = "sent" /\ call[c].via = "grpc"
        /\ \/ scenario.rate = 0 /\ Goto(c, "admitted") /\ UNCHANGED tokens
           \/ scenario.rate > 0 /\ tokens[k] = 0 /\ Refuse(c, "ResourceExhausted") /\ UNCHANGED tokens
           \/ scenario.rate > 0 /\ tokens[k] > 0 /\ Goto(c, "admitted") /\ tokens' = [tokens EXCEPT ![k] = @ - 1]
        /\ UNCHANGED <<call, draft, events, table, history, captured, held, audit, effects, ruleVars>>

validateToken(c) ==
    /\ spc[c] = "admitted"
    /\ IF c \in Authorized THEN Goto(c, "handler") ELSE Refuse(c, "Unauthenticated")
    /\ UNCHANGED <<call, draft, events, tokens, table, history, captured, held, audit, effects, ruleVars>>

(* The MCP endpoint: handle, route and callTool up to the call of the handler. *)
mcpRefusal(c) ==
    CASE call[c].method # "POST" -> "MethodNotAllowed"
      [] call[c].method = "POST" /\ c \notin Authorized -> "Unauthenticated"
      [] call[c].method = "POST" /\ c \in Authorized /\ call[c].bad -> "InvalidArgument"
      [] OTHER -> "None"

mcpHandle(c) ==
    /\ spc[c] = "sent" /\ call[c].via = "mcp"
    /\ \/ mcpRefusal(c) # "None" /\ Refuse(c, mcpRefusal(c))
       \/ /\ mcpRefusal(c) = "None"
          /\ CASE call[c].rpc \in {"initialize", "tools/list"} -> Answer(c, "OK", AllowedTools)
               [] call[c].rpc \in {"GetStatus", "GetHistory"} -> Goto(c, "handler")
               [] call[c].rpc = "ReplayRequest" ->
                    IF "replay" \in AllowedTools THEN Goto(c, "handler") ELSE Refuse(c, "InvalidArgument")
               [] call[c].rpc = "ComposeRequest" ->
                    IF "compose" \in AllowedTools THEN Goto(c, "handler") ELSE Refuse(c, "InvalidArgument")
               [] OTHER -> Refuse(c, "NotFound")
    /\ UNCHANGED <<call, draft, events, tokens, table, history, captured, held, audit, effects, ruleVars>>

-----------------------------------------------------------------------------
(* Statements and the audit log. *)

(* One statement that writes row id of table t, or deletes it; its failure ends the call, *)
(* a DELETE that matches no row does not.                                                 *)
Statement(c, t, id, row, changes) ==
    /\ \/ /\ table' = [table EXCEPT ![t][id] = row]
          /\ IF changes THEN Effect(c) ELSE UNCHANGED effects
          /\ Goto(c, "audit")
       \/ Fault("storage") /\ UNCHANGED <<table, effects>> /\ Refuse(c, "Internal")
    /\ UNCHANGED <<call, draft, events, tokens, history, captured, held, audit, ruleVars>>

SaveRow(c, t, id, row) == Statement(c, t, id, row, TRUE)
RemoveRow(c, t, id) == Statement(c, t, id, None, table[t][id] # None)

(* The ID a caller gives, or any fresh one; DOMAIN table[t] bounds the IDs there are. *)
IdFor(c, t) ==
    IF call[c].id # None THEN {call[c].id}
    ELSE {id \in DOMAIN table[t] : table[t][id] = None /\ (t = "breakpoints" => rules[id] = None)}

(* auditLog, and the answer: nothing is logged unless the log is enabled, and an entry *)
(* that cannot be written is given up.  Of a replayed or composed request the response *)
(* body is read after it.                                                              *)
auditLog(c) ==
    /\ spc[c] = "audit"
    /\ audit' = IF scenario.auditing = "on" THEN audit \cup {c} ELSE audit
    /\ \/ Answer(c, "OK", None)
       \/ Fault("upstream") /\ call[c].rpc \in {"ReplayRequest", "ComposeRequest"} /\ Refuse(c, "Internal")
    /\ UNCHANGED <<call, draft, events, tokens, table, history, captured, held, effects, ruleVars>>

-----------------------------------------------------------------------------
(* Handlers. *)

Unread == <<call, events, tokens, table, history, captured, held, audit, effects, ruleVars>>

(* GetStatus, GetVersion, ListPlugins.  The ports GetStatus parses are those Validate has parsed. *)
Describe(c) ==
    /\ spc[c] = "handler" /\ call[c].rpc \in {"GetStatus", "GetVersion", "ListPlugins"}
    /\ Answer(c, "OK", None)
    /\ UNCHANGED <<draft, Unread>>

(* "rule_id is required", "id is required": checked before anything else. *)
Unnamed(c) == call[c].id = None /\ Refuse(c, "InvalidArgument") /\ UNCHANGED <<draft, Unread>>

ListBreakpoints(c) ==
    /\ At(c, "handler", "ListBreakpoints")
    /\ Answer(c, "OK", ListRules)
    /\ UNCHANGED <<draft, Unread>>

(* ListRequestTemplates, ListRewriteRules. *)
ListTable(c) ==
    /\ spc[c] = "handler" /\ call[c].rpc \in {"ListRequestTemplates", "ListRewriteRules"}
    /\ \/ LET t == IF call[c].rpc = "ListRequestTemplates" THEN "request_templates" ELSE "rewrite_rules"
          IN  Answer(c, "OK", {[id |-> id, row |-> table[t][id]] : id \in {i \in DOMAIN table[t] : table[t][i] # None}})
       \/ Fault("storage") /\ Refuse(c, "Internal")
    /\ UNCHANGED <<draft, Unread>>

(* Mutant: the rule is taken as it comes. *)
SetBreakpointUnchecked(c) ==
    /\ At(c, "handler", "SetBreakpoint")
    /\ \E id \in IdFor(c, "breakpoints") :
          AddRule(id, call[c].rule) /\ draft' = [draft EXCEPT ![c] = [id |-> id, row |-> call[c].rule]]
    /\ Effect(c)
    /\ Goto(c, "store")
    /\ UNCHANGED <<call, events, tokens, table, history, captured, held, audit>>

(* Memory first, then the table; a failure of the statement is only logged. *)
SetBreakpoint(c) ==
    /\ At(c, "handler", "SetBreakpoint")
    /\ \/ /\ ~ValidRule(call[c].rule)
          /\ Refuse(c, "InvalidArgument")
          /\ UNCHANGED <<ruleVars, draft, effects>>
       \/ /\ ValidRule(call[c].rule)
          /\ \E id \in IdFor(c, "breakpoints") :
                AddRule(id, call[c].rule) /\ draft' = [draft EXCEPT ![c] = [id |-> id, row |-> call[c].rule]]
          /\ Effect(c)
          /\ Goto(c, "store")
    /\ UNCHANGED <<call, events, tokens, table, history, captured, held, audit>>

DeleteBreakpoint(c) ==
    /\ At(c, "handler", "DeleteBreakpoint")
    /\ \/ rules[call[c].id] = None /\ Refuse(c, "NotFound") /\ UNCHANGED <<ruleVars, draft, effects>>
       \/ /\ rules[call[c].id] # None
          /\ RemoveRule(call[c].id)
          /\ draft' = [draft EXCEPT ![c] = [id |-> call[c].id, row |-> None]]
          /\ Effect(c)
          /\ Goto(c, "store")
    /\ UNCHANGED <<call, events, tokens, table, history, captured, held, audit>>

SaveBreakpoint(c) ==
    /\ spc[c] = "store" /\ call[c].rpc \in {"SetBreakpoint", "DeleteBreakpoint"}
    /\ \/ table' = [table EXCEPT !["breakpoints"][draft[c].id] = draft[c].row]
       \/ Fault("storage") /\ UNCHANGED table
    /\ Goto(c, "audit")
    /\ UNCHANGED <<call, draft, events, tokens, history, captured, held, audit, effects, ruleVars>>

AddRewriteRule(c) ==
    /\ At(c, "handler", "AddRewriteRule")
    /\ \E id \in IdFor(c, "rewrite_rules") : SaveRow(c, "rewrite_rules", id, call[c].row)

(* INSERT OR REPLACE: it also adds a rule that is not there. *)
UpdateRewriteRule(c) ==
    /\ At(c, "handler", "UpdateRewriteRule")
    /\ \/ Unnamed(c)
       \/ call[c].id # None /\ SaveRow(c, "rewrite_rules", call[c].id, call[c].row)

DeleteRewriteRule(c) ==
    /\ At(c, "handler", "DeleteRewriteRule")
    /\ \/ Unnamed(c)
       \/ call[c].id # None /\ RemoveRow(c, "rewrite_rules", call[c].id)

(* Get, then Update with the whole rule: other calls may come in between. *)
ToggleRewriteRule(c) ==
    \/ At(c, "handler", "ToggleRewriteRule") /\ Unnamed(c)
    \/ /\ At(c, "handler", "ToggleRewriteRule")
       /\ call[c].id # None
       /\ LET row == table["rewrite_rules"][call[c].id]
          IN  \/ row = None /\ Refuse(c, "NotFound") /\ UNCHANGED draft
              \/ row # None /\ draft' = [draft EXCEPT ![c] = [row EXCEPT !.enabled = ~@]] /\ Goto(c, "store")
              \/ Fault("storage") /\ Refuse(c, "Internal") /\ UNCHANGED draft
       /\ UNCHANGED Unread
    \/ /\ At(c, "store", "ToggleRewriteRule")
       /\ SaveRow(c, "rewrite_rules", call[c].id, draft[c])

SaveRequestTemplate(c) ==
    /\ At(c, "handler", "SaveRequestTemplate")
    /\ \/ call[c].bad /\ Refuse(c, "InvalidArgument") /\ UNCHANGED <<draft, Unread>>
       \/ /\ ~call[c].bad
          /\ \E id \in IdFor(c, "request_templates") : SaveRow(c, "request_templates", id, call[c].row)

DeleteRequestTemplate(c) ==
    /\ At(c, "handler", "DeleteRequestTemplate")
    /\ \/ Unnamed(c)
       \/ call[c].id # None /\ RemoveRow(c, "request_templates", call[c].id)

(* ListTransactions: the newest first, and no WHERE clause without a criterion. *)
Min2(a, b) == IF a < b THEN a ELSE b
Where(match, list) == IF match = None THEN list ELSE SelectSeq(list, LAMBDA t : t \in match)

(* Mutant: the oldest first, so that the end of a page moves when a row is pruned. *)
ListTransactionsOldestFirst(match, limit, offset) ==
    LET rows == Where(match, [i \in DOMAIN history |-> history[Len(history) + 1 - i]])
        size == IF limit <= 0 THEN 100 ELSE limit
    IN  SubSeq(rows, offset + 1, Min2(offset + size, Len(rows)))

ListTransactions(match, limit, offset) ==
    LET rows == Where(match, history)
        size == IF limit <= 0 THEN 100 ELSE limit
    IN  SubSeq(rows, offset + 1, Min2(offset + size, Len(rows)))

(* The query, and then the sends. *)
GetHistory(c) ==
    /\ \/ /\ At(c, "handler", "GetHistory")
          /\ \/ /\ draft' = [draft EXCEPT ![c] = ListTransactions(call[c].match, call[c].limit, call[c].offset)]
                /\ Goto(c, "stream")
             \/ Fault("storage") /\ Refuse(c, "Internal") /\ UNCHANGED draft
       \/ At(c, "stream", "GetHistory") /\ Answer(c, "OK", draft[c]) /\ UNCHANGED draft
    /\ UNCHANGED Unread

ExportHAR(c) ==
    /\ At(c, "handler", "ExportHAR")
    /\ \/ Answer(c, "OK", history)
       \/ Fault("storage") /\ Refuse(c, "Internal")
    /\ UNCHANGED <<draft, Unread>>

ClearHistory(c) ==
    /\ At(c, "handler", "ClearHistory")
    /\ \/ /\ history' = <<>>
          /\ IF history = <<>> THEN UNCHANGED effects ELSE Effect(c)
          /\ Goto(c, "audit")
       \/ Fault("storage") /\ UNCHANGED <<history, effects>> /\ Refuse(c, "Internal")
    /\ UNCHANGED <<call, draft, events, tokens, table, captured, held, audit, ruleVars>>

(* ReplayRequest, of a stored request or of the one given, and ComposeRequest: the request is built. *)
Build(c) ==
    /\ spc[c] = "handler" /\ call[c].rpc \in {"ReplayRequest", "ComposeRequest"}
    /\ LET stored == call[c].rpc = "ReplayRequest" /\ call[c].id # None
       IN  \/ call[c].bad /\ Refuse(c, "InvalidArgument")
           \/ ~call[c].bad /\ stored /\ Refuse(c, "Internal")
                 /\ (Fault("storage") \/ \A i \in DOMAIN history : history[i] # call[c].id)
           \/ ~call[c].bad /\ (stored => \E i \in DOMAIN history : history[i] = call[c].id) /\ Goto(c, "upstream")
    /\ UNCHANGED <<draft, Unread>>

(* client.Do: the request is sent, and answered or not. *)
DoRequest(c) ==
    /\ spc[c] = "upstream"
    /\ Effect(c)
    /\ Goto(c, "audit") \/ (Fault("upstream") /\ Refuse(c, "Internal"))
    /\ UNCHANGED <<call, draft, events, tokens, table, history, captured, held, audit, ruleVars>>

(* The reloader: LoadConfig and ValidateRuntime may refuse the file; its error has no gRPC code. *)
ReloadConfig(c) ==
    /\ At(c, "handler", "ReloadConfig")
    /\ IF call[c].bad THEN Refuse(c, "Unknown") ELSE Answer(c, "OK", None)
    /\ UNCHANGED <<draft, Unread>>

(* CaptureTraffic and WatchPausedRequests: Subscribe. *)
OpenStream(c) ==
    /\ spc[c] = "handler" /\ call[c].rpc \in {"CaptureTraffic", "WatchPausedRequests"}
    /\ Goto(c, "open")
    /\ UNCHANGED <<draft, Unread>>

-----------------------------------------------------------------------------
(* The end of the process, by a signal or a panic, and its next start.     *)

ProcessEnds ==
    /\ running' = FALSE
    /\ spc' = [c \in Client |-> IF spc[c] \in InFlight THEN "answered" ELSE spc[c]]
    /\ reply' = [c \in Client |->
                   IF spc[c] \notin InFlight THEN reply[c]
                   ELSE [code |-> "Unavailable", data |-> IF spc[c] = "stream" THEN draft[c] ELSE None]]
    /\ RulesLost
    /\ held' = [e \in Eval |-> "none"]
    /\ UNCHANGED <<scenario, call, draft, events, tokens, table, history, captured, audit, effects>>

EngineStop == running /\ Fault("stop") /\ ProcessEnds

(* The table breakpoints is not read at the start. *)
EngineStart ==
    /\ ~running
    /\ running' = TRUE
    /\ tokens' = [k \in DOMAIN tokens |-> scenario.rate]
    /\ scenario' = [scenario EXCEPT !.faults = @ \ {"stop"}]
    /\ UNCHANGED <<ruleVars, evalVars, callVars, storeVars, held, traceVars>>

(* Resume: the second one closes a closed channel, unless Pause has removed the entry. *)
ResumeRequest(c) ==
    /\ At(c, "handler", "ResumeRequest")
    /\ LET h == held[call[c].id]
       IN  \/ /\ h = "held"
              /\ held' = [held EXCEPT ![call[c].id] = "resumed"]
              /\ Effect(c)
              /\ Goto(c, "audit")
              /\ UNCHANGED <<scenario, running, call, draft, events, tokens, table, history, captured, audit, ruleVars, evalVars>>
           \/ /\ h \notin {"held", "resumed"}
              /\ Refuse(c, "NotFound")
              /\ UNCHANGED <<scenario, running, draft, Unread, evalVars>>
           \/ h = "resumed" /\ ProcessEnds

Handler(c) ==
    \/ Describe(c) \/ ListBreakpoints(c) \/ ListTable(c)
    \/ SetBreakpoint(c) \/ DeleteBreakpoint(c) \/ SaveBreakpoint(c)
    \/ AddRewriteRule(c) \/ UpdateRewriteRule(c) \/ DeleteRewriteRule(c) \/ ToggleRewriteRule(c)
    \/ SaveRequestTemplate(c) \/ DeleteRequestTemplate(c)
    \/ GetHistory(c) \/ ExportHAR(c) \/ ClearHistory(c)
    \/ Build(c) \/ DoRequest(c)
    \/ ReloadConfig(c) \/ OpenStream(c) \/ auditLog(c)

(* The server at work on the call of c. *)
Serve(c) ==
    \/ /\ RateLimit(c) \/ validateToken(c) \/ mcpHandle(c) \/ Handler(c)
       /\ UNCHANGED <<scenario, running, evalVars>>
    \/ ResumeRequest(c)

-----------------------------------------------------------------------------
(* What the proxy does meanwhile. *)

(* An event reaches the streams of that kind that are open and take it. *)
Tell(rpc, x) ==
    events' = [c \in Client |->
               IF spc[c] = "open" /\ call[c].rpc = rpc /\ (call[c].match = None \/ x \in call[c].match)
               THEN events[c] + 1 ELSE events[c]]

(* StoreTransaction: the history grows at its head, then the streams are told. *)
Capture ==
    /\ running /\ scenario.captures > 0
    /\ scenario' = [scenario EXCEPT !.captures = @ - 1]
    /\ captured' = captured + 1
    /\ history' = <<captured + 1>> \o history
    /\ Tell("CaptureTraffic", captured + 1)
    /\ UNCHANGED <<ruleVars, evalVars, call, spc, draft, reply, tokens, table, held, running, traceVars>>

(* PruneOldTransactions: the oldest go. *)
Prune ==
    /\ running /\ scenario.prunes > 0 /\ history # <<>>
    /\ scenario' = [scenario EXCEPT !.prunes = @ - 1]
    /\ history' = SubSeq(history, 1, Len(history) - 1)
    /\ UNCHANGED <<ruleVars, evalVars, callVars, tokens, table, captured, held, running, traceVars>>

(* A request is held because evaluate has named a rule; Pause tells the watchers. *)
Pause(e) ==
    /\ answer[e] \in RuleId /\ held[e] = "none"
    /\ held' = [held EXCEPT ![e] = "held"]
    /\ Tell("WatchPausedRequests", e)
    /\ UNCHANGED <<ruleVars, evalVars, call, spc, draft, reply, tokens, scenario, running, storeVars, traceVars>>

(* Pause returns, after a decision or at the end of its context. *)
PauseReturns(e) ==
    /\ held[e] \in {"held", "resumed"}
    /\ held' = [held EXCEPT ![e] = "gone"]
    /\ UNCHANGED <<ruleVars, evalVars, callVars, otherVars, storeVars, traceVars>>

Evaluation(e) ==
    /\ running /\ e \in scenario.evals
    /\ Evaluate(e)
    /\ UNCHANGED <<ruleVars, callVars, otherVars, storeVars, held, traceVars>>

(* A second passes. *)
Refill(k) ==
    /\ running /\ tokens[k] < scenario.rate
    /\ tokens' = [tokens EXCEPT ![k] = @ + 1]
    /\ UNCHANGED <<ruleVars, evalVars, callVars, scenario, running, storeVars, held, traceVars>>

Environment ==
    \/ Capture \/ Prune \/ EngineStop \/ EngineStart
    \/ \E e \in Eval : Pause(e) \/ PauseReturns(e) \/ Evaluation(e)
    \/ \E k \in DOMAIN tokens : Refill(k)
=============================================================================
