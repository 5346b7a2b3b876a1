---------------------------- MODULE ProxyPipeline ----------------------------
(***************************************************************************)
(* The life of a transaction in the proxies: handleHTTP (internal/proxy/   *)
(* http.go) and processRequestPipeline (internal/proxy/https.go), with the *)
(* plugin hooks, the two breakpoint phases of the engine, rewrite and      *)
(* map-local rules, the upstream round trip, the store and the answer.     *)
(*                                                                         *)
(* What a request carries is the set of edits made to it; a response is    *)
(* where it comes from, the edits made to it and the kind of its status    *)
(* code.  Hooks, operator and upstream choose among all the outcomes the   *)
(* code tells apart; a hook that panics is a hook that fails, because      *)
(* pluginrt recovers it.  The breakpoint manager is seen through the       *)
(* outcomes of Pause (see BreakpointManager), the store through those of   *)
(* StoreTransaction.                                                       *)
(***************************************************************************)
EXTENDS Naturals, Sequences, FiniteSets

CONSTANTS
    Tx,           \* transactions, a goroutine each
    Paths,        \* how requests arrive: http; after a CONNECT, tunnel and h2c, HTTP/1.1
                  \* and HTTP/2 in the clear, tls and h2, the same in intercepted TLS
    MaxRuleSets,  \* bound: changes of the rewrite rules in a behaviour
    None          \* nil

ASSUME PathAssumption == Paths \subseteq {"http", "tunnel", "h2c", "tls", "h2"}
ASSUME RulesAssumption == MaxRuleSets \in Nat

VARIABLES
    path,      \* path[t]: how t arrives
    webSocket, \* the transactions that ask for an upgrade
    pauseTimeout, \* breakpoint_pause_timeout_sec > 0
    rules,     \* what the stored rewrite rules do to a matching request
    ruleSets,  \* number of changes of rules
    gone,      \* the transactions whose client has closed its connection or cancelled its stream
    pc,        \* pc[t]: the stage t is in
    req,       \* req[t]: edits in tx.Request, which goes upstream
    raw,       \* raw[t]: edits in r, the request as it was read
    ctxOf,     \* ctxOf[t]: whose context tx.Request.Raw carries
    resp,      \* resp[t]: tx.Response
    verdict,   \* verdict[t]: who ended the transaction early
    upstream,  \* upstream[t]: edits in what was sent upstream
    hooks,     \* hooks[t]: the hooks that have run
    freed,     \* freed[t]: what ended the pauses of t
    stored,    \* stored[t]: the response in the history
    sent       \* sent[t]: what was written to the client

arrival == <<path, webSocket, pauseTimeout>>
envVars == <<arrival, rules, ruleSets, gone>>
txVars == <<req, raw, ctxOf, resp, verdict, upstream, hooks, freed, stored, sent>>
vars == <<envVars, pc, txVars>>

RuleEffect == {"editRequest", "answer", "editResponse"}
Edit == {"plugin", "operator", "rule"}
Origin == {"upstream", "mock", "operator", "rule", "map", "upgrade", "error", "statusText"}
(* The client can take it for the answer; 1xx; outside 100..999. *)
Status == {"final", "interim", "invalid"}
Response == [from : Origin, edits : SUBSET Edit, status : Status]
Stage == {"new", "onRequest", "pauseRequest", "heldRequest", "route", "upgraded", "forward",
          "received", "onResponse", "pauseResponse", "heldResponse", "store", "write", "done", "aborted"}

(* Served by HTTPProxy.handleHTTP; the other paths by TLSProxy.processRequestPipeline. *)
ByHTTPProxy(t) == path[t] \in {"http", "tunnel", "h2c"}

(* Answered through a ResponseWriter of net/http or http2, which checks the status. *)
Checked(t) == path[t] \in {"http", "h2c", "h2"}

Plain(origin) == [from |-> origin, edits |-> {}, status |-> "final"]

(* A response somebody supplies, with any status code that fits an int. *)
Given(origin) == {[Plain(origin) EXCEPT !.status = status] : status \in Status}

Init ==
    /\ path \in [Tx -> Paths]
    /\ webSocket \in SUBSET Tx
    /\ pauseTimeout \in BOOLEAN
    /\ rules \in SUBSET RuleEffect
    /\ ruleSets = 0
    /\ gone = {}
    /\ pc = [t \in Tx |-> "new"]
    /\ req = [t \in Tx |-> {}]
    /\ raw = [t \in Tx |-> {}]
    /\ ctxOf = [t \in Tx |-> "client"]
    /\ resp = [t \in Tx |-> None]
    /\ verdict = [t \in Tx |-> "none"]
    /\ upstream = [t \in Tx |-> None]
    /\ hooks = [t \in Tx |-> {}]
    /\ freed = [t \in Tx |-> {}]
    /\ stored = [t \in Tx |-> None]
    /\ sent = [t \in Tx |-> <<>>]

Goto(t, stage) == pc' = [pc EXCEPT ![t] = stage]

(***************************************************************************)
(* What the client reads.  The hijackableResponseWriter of a plain tunnel  *)
(* sends the status text as a complete body with its own length; the body  *)
(* written next follows outside the message.  A checked writer sends a 1xx *)
(* header as an interim one, and 200 with the body.                        *)
(***************************************************************************)
Written(t, response) ==
    IF path[t] = "tunnel" THEN [response EXCEPT !.from = "statusText"]
    ELSE IF Checked(t) /\ response.status = "interim" THEN [response EXCEPT !.status = "final"]
    ELSE response

(***************************************************************************)
(* Write response and return from the handler.  A checked writer panics on *)
(* an invalid status.                                                      *)
(***************************************************************************)
Answer(t, response) ==
    IF Checked(t) /\ response.status = "invalid"
    THEN Goto(t, "aborted") /\ UNCHANGED sent
    ELSE /\ sent' = [sent EXCEPT ![t] = Append(@, Written(t, response))]
         /\ Goto(t, "done")

(* http.Error or writeHTTPError, and return. *)
Fail(t) ==
    /\ Answer(t, Plain("error"))
    /\ UNCHANGED <<envVars, req, raw, ctxOf, resp, verdict, upstream, hooks, freed, stored>>

(***************************************************************************)
(* A panic in the handler.  recoverProxyPanic calls recover() one call too *)
(* deep, below the deferred function, where it returns nil: nothing is     *)
(* written.  The HTTP server ends the connection, or resets the stream.    *)
(***************************************************************************)
Abort(t) == Goto(t, "aborted") /\ UNCHANGED <<envVars, txVars>>

-----------------------------------------------------------------------------
(* The tunnelled request's rate limit, the limits on headers and body: 429, 431, 413. *)
Admit(t) ==
    /\ pc[t] = "new"
    /\ \/ Fail(t)
       \/ Goto(t, "onRequest") /\ UNCHANGED <<envVars, txVars>>

handleHTTP(t) == ByHTTPProxy(t) /\ Admit(t)

handleRequest(t) == ~ByHTTPProxy(t) /\ Admit(t)

(* Mutant: the handler goes on after a mocked response. *)
RunPluginRequestGoesOn(t) ==
    /\ pc[t] = "onRequest"
    /\ hooks' = [hooks EXCEPT ![t] = @ \cup {"OnRequest"}]
    /\ verdict' = [verdict EXCEPT ![t] = "plugin"]
    /\ sent' = [sent EXCEPT ![t] = Append(@, Plain("mock"))]
    /\ Goto(t, "pauseRequest")
    /\ UNCHANGED <<envVars, req, raw, ctxOf, resp, upstream, freed, stored>>

(* The OnRequest chain: pass, modify, a mocked response, or an error. *)
runPluginRequest(t) ==
    /\ pc[t] = "onRequest"
    /\ hooks' = [hooks EXCEPT ![t] = @ \cup {"OnRequest"}]
    /\ \/ /\ \E edit \in SUBSET {"plugin"} : req' = [req EXCEPT ![t] = @ \cup edit]
          /\ Goto(t, "pauseRequest")
          /\ UNCHANGED <<verdict, sent>>
       \/ /\ verdict' = [verdict EXCEPT ![t] = "plugin"]
          /\ \E mock \in Given("mock") : Answer(t, mock)
          /\ UNCHANGED req
       \/ /\ Answer(t, Plain("error"))
          /\ UNCHANGED <<req, verdict>>
    /\ UNCHANGED <<envVars, raw, ctxOf, resp, upstream, freed, stored>>

-----------------------------------------------------------------------------
(* Engine.PauseRequest and evaluateBreakpoint *)

(* A rule matches and the request is held, or none does. *)
PauseRequest(t) ==
    /\ pc[t] = "pauseRequest"
    /\ \E stage \in {"heldRequest", "route"} : Goto(t, stage)
    /\ UNCHANGED <<envVars, txVars>>

(* ResumeRequest builds the edited request with the context of its own call. *)
ModifiedRequest(t) ==
    /\ req' = [req EXCEPT ![t] = {"operator"}]
    /\ ctxOf' = [ctxOf EXCEPT ![t] = "resumeCall"]

(* DROP, RESPOND with a response, RESPOND without one. *)
evaluateBreakpoint(t) ==
    /\ verdict' = [verdict EXCEPT ![t] = "operator"]
    /\ \E response \in Given("operator") \cup {Plain("error")} : Answer(t, response)

(* The operator resumes: forward as it is, forward with edits, drop or respond. *)
OperatorRequest(t) ==
    /\ pc[t] = "heldRequest"
    /\ freed' = [freed EXCEPT ![t] = @ \cup {"operator"}]
    /\ \/ Goto(t, "route") /\ UNCHANGED <<req, ctxOf, verdict, sent>>
       \/ Goto(t, "route") /\ ModifiedRequest(t) /\ UNCHANGED <<verdict, sent>>
       \/ evaluateBreakpoint(t) /\ UNCHANGED <<req, ctxOf>>
    /\ UNCHANGED <<envVars, raw, resp, upstream, hooks, stored>>

(* Mutant: only HTTP/2 requests have a context that ends with their client. *)
SeesDisconnectH2Only(t) ==
    path[t] \in {"h2c", "h2"} /\ \E what \in {"connection", "stream"} : <<t, what>> \in gone

(***************************************************************************)
(* The context the pause waits on has ended.  The handlers of tls and      *)
(* tunnel are themselves the readers of their connection, hijacked from    *)
(* the server and watched by nobody while they wait.  A request on h2c has *)
(* the context of the CONNECT request, which ends when ServeConn returns,  *)
(* with the connection; one on h2 has that of its stream.                  *)
(***************************************************************************)
SeesDisconnect(t) ==
    \/ <<t, "connection">> \in gone /\ path[t] \in {"http", "h2c", "h2"}
    \/ <<t, "stream">> \in gone /\ path[t] = "h2"

(* Mutant: the timeout is not armed for requests. *)
ReleaseRequestNoTimeout(t, cause) ==
    /\ pc[t] = "heldRequest"
    /\ cause = "client" /\ SeesDisconnect(t)
    /\ freed' = [freed EXCEPT ![t] = @ \cup {cause}]
    /\ Goto(t, "route")
    /\ UNCHANGED <<envVars, req, raw, ctxOf, resp, verdict, upstream, hooks, stored, sent>>

(* Pause returns an error, the request is forwarded as it is. *)
ReleaseRequest(t, cause) ==
    /\ pc[t] = "heldRequest"
    /\ cause = "timeout" => pauseTimeout
    /\ cause = "client" => SeesDisconnect(t)
    /\ freed' = [freed EXCEPT ![t] = @ \cup {cause}]
    /\ Goto(t, "route")
    /\ UNCHANGED <<envVars, req, raw, ctxOf, resp, verdict, upstream, hooks, stored, sent>>

(* Pause panics on a channel its subscriber closed. *)
PausePanics(t) == pc[t] \in {"heldRequest", "heldResponse"} /\ Abort(t)

-----------------------------------------------------------------------------
(* resolveSpecialCases, and what is left of it on the TLS path *)

IsUpgrade(t) == t \in webSocket /\ path[t] \notin {"h2", "h2c"}

(***************************************************************************)
(* Dial upstream, then upgrade the client, then store.  An upgrade that is *)
(* refused is answered; one that fails after the hijack closes the         *)
(* connection.                                                             *)
(***************************************************************************)
handleWebSocket(t) ==
    /\ pc[t] = "route"
    /\ IsUpgrade(t)
    /\ \/ Fail(t)
       \/ /\ upstream' = [upstream EXCEPT ![t] = req[t]]
          /\ \/ Answer(t, Plain("error")) /\ UNCHANGED resp
             \/ Goto(t, "aborted") /\ UNCHANGED <<resp, sent>>
             \/ /\ resp' = [resp EXCEPT ![t] = Plain("upgrade")]
                /\ sent' = [sent EXCEPT ![t] = Append(@, Plain("upgrade"))]
                /\ Goto(t, "upgraded")
          /\ UNCHANGED <<envVars, req, raw, ctxOf, verdict, hooks, freed, stored>>

(* The store after the upgrade: stored, an error that is logged, or a panic. *)
StoreUpgrade(t) ==
    /\ pc[t] = "upgraded"
    /\ \/ Abort(t)
       \/ /\ \E record \in {None, resp[t]} : stored' = [stored EXCEPT ![t] = record]
          /\ Goto(t, "done")
          /\ UNCHANGED <<envVars, req, raw, ctxOf, resp, verdict, upstream, hooks, freed, sent>>

(* Mutant: a blocked request is forwarded all the same. *)
ApplyRequestRulesGoOn(t) ==
    /\ "answer" \in rules
    /\ verdict' = [verdict EXCEPT ![t] = "rule"]
    /\ Goto(t, "forward")
    /\ UNCHANGED <<raw, sent>>

(***************************************************************************)
(* applyRequestRewriteRules works on r, not on tx.Request, in the order of *)
(* the priorities; a REDIRECT, BLOCK or RESPOND rule answers at once.      *)
(* Rules that do not match or cannot be loaded do nothing.                 *)
(***************************************************************************)
ApplyRequestRules(t) ==
    \/ /\ Goto(t, "forward")
       /\ UNCHANGED <<raw, verdict, sent>>
    \/ /\ "editRequest" \in rules
       /\ raw' = [raw EXCEPT ![t] = {"rule"}]
       /\ Goto(t, "forward")
       /\ UNCHANGED <<verdict, sent>>
    \/ /\ "answer" \in rules
       /\ \E edit \in SUBSET {"rule"} :
             /\ edit # {} => "editRequest" \in rules
             /\ raw' = [raw EXCEPT ![t] = edit]
       /\ verdict' = [verdict EXCEPT ![t] = "rule"]
       /\ \E response \in Given("rule") : Answer(t, response)

RewriteRequest(t) ==
    /\ pc[t] = "route"
    /\ ~IsUpgrade(t)
    /\ ByHTTPProxy(t)
    /\ ApplyRequestRules(t)
    /\ UNCHANGED <<envVars, req, ctxOf, resp, upstream, hooks, freed, stored>>

RouteTLS(t) ==
    /\ pc[t] = "route"
    /\ ~IsUpgrade(t)
    /\ ~ByHTTPProxy(t)
    /\ Goto(t, "forward")
    /\ UNCHANGED <<envVars, txVars>>

(* Mutant: a mapped file skips the OnResponse hooks. *)
applyMapLocalRulesDirect(t) ==
    /\ pc[t] = "forward"
    /\ ByHTTPProxy(t)
    /\ resp' = [resp EXCEPT ![t] = Plain("map")]
    /\ Goto(t, "store")
    /\ UNCHANGED <<envVars, req, raw, ctxOf, verdict, upstream, hooks, freed, stored, sent>>

(* A map-local rule matches: its file is the response, under a status of 100 to 599. *)
applyMapLocalRules(t) ==
    /\ pc[t] = "forward"
    /\ ByHTTPProxy(t)
    /\ \E response \in Given("map") :
          response.status # "invalid" /\ resp' = [resp EXCEPT ![t] = response]
    /\ Goto(t, "onResponse")
    /\ UNCHANGED <<envVars, req, raw, ctxOf, verdict, upstream, hooks, freed, stored, sent>>

-----------------------------------------------------------------------------
(* The round trip and the response *)

(***************************************************************************)
(* tx.Request goes upstream; an error, or a body that is too large, is     *)
(* answered, and by HTTPProxy also a response below 200.                   *)
(***************************************************************************)
forwardUpstream(t) ==
    /\ pc[t] = "forward"
    /\ upstream' = [upstream EXCEPT ![t] = req[t]]
    /\ \/ /\ \E response \in Given("upstream") :
                /\ ByHTTPProxy(t) => response.status = "final"
                /\ resp' = [resp EXCEPT ![t] = response]
          /\ Goto(t, IF ByHTTPProxy(t) THEN "received" ELSE "onResponse")
          /\ UNCHANGED sent
       \/ /\ Answer(t, Plain("error"))
          /\ UNCHANGED resp
    /\ UNCHANGED <<envVars, req, raw, ctxOf, verdict, hooks, freed, stored>>

ApplyResponseRules(t) ==
    \E edit \in SUBSET {"rule"} :
        /\ edit # {} => "editResponse" \in rules
        /\ resp' = [resp EXCEPT ![t].edits = @ \cup edit]

(* applyResponseRewriteRules: the rules are loaded again. *)
RewriteResponse(t) ==
    /\ pc[t] = "received"
    /\ ApplyResponseRules(t)
    /\ Goto(t, "onResponse")
    /\ UNCHANGED <<envVars, req, raw, ctxOf, verdict, upstream, hooks, freed, stored, sent>>

(* The OnResponse chain: pass, modify, the status too, or an error. *)
runPluginResponse(t) ==
    /\ pc[t] = "onResponse"
    /\ hooks' = [hooks EXCEPT ![t] = @ \cup {"OnResponse"}]
    /\ \/ UNCHANGED <<resp, sent>> /\ Goto(t, "pauseResponse")
       \/ /\ \E status \in Status :
                resp' = [resp EXCEPT ![t].edits = @ \cup {"plugin"}, ![t].status = status]
          /\ Goto(t, "pauseResponse")
          /\ UNCHANGED sent
       \/ /\ Answer(t, Plain("error"))
          /\ UNCHANGED resp
    /\ UNCHANGED <<envVars, req, raw, ctxOf, verdict, upstream, freed, stored>>

(* Engine.PauseResponse and evaluateResponseBreakpoint *)
PauseResponse(t) ==
    /\ pc[t] = "pauseResponse"
    /\ \E stage \in {"heldResponse", "store"} : Goto(t, stage)
    /\ UNCHANGED <<envVars, txVars>>

(* Mutant: the operator's response is written, and the handler goes on to the store. *)
OperatorResponseStored(t) ==
    /\ pc[t] = "heldResponse"
    /\ freed' = [freed EXCEPT ![t] = @ \cup {"operator"}]
    /\ verdict' = [verdict EXCEPT ![t] = "operator"]
    /\ stored' = [stored EXCEPT ![t] = resp[t]]
    /\ Answer(t, Plain("operator"))
    /\ UNCHANGED <<envVars, req, raw, ctxOf, resp, upstream, hooks>>

(* RESPOND without a response writes the one at hand. *)
OperatorResponse(t) ==
    /\ pc[t] = "heldResponse"
    /\ freed' = [freed EXCEPT ![t] = @ \cup {"operator"}]
    /\ \/ Goto(t, "store") /\ UNCHANGED <<resp, verdict, sent>>
       \/ /\ verdict' = [verdict EXCEPT ![t] = "operator"]
          /\ \/ Answer(t, Plain("error")) /\ UNCHANGED resp
             \/ Answer(t, resp[t]) /\ UNCHANGED resp
             \/ \E response \in Given("operator") :
                   resp' = [resp EXCEPT ![t] = response] /\ Answer(t, response)
    /\ UNCHANGED <<envVars, req, raw, ctxOf, upstream, hooks, stored>>

(* The context of tx.Request.Raw ends: the one of a Resume call as soon as that returns. *)
ReleaseResponse(t, cause) ==
    /\ pc[t] = "heldResponse"
    /\ cause = "timeout" => pauseTimeout
    /\ cause \in {"client", "resumeCall"} => cause = ctxOf[t]
    /\ cause = "client" => SeesDisconnect(t)
    /\ freed' = [freed EXCEPT ![t] = @ \cup {cause}]
    /\ Goto(t, "store")
    /\ UNCHANGED <<envVars, req, raw, ctxOf, resp, verdict, upstream, hooks, stored, sent>>

(***************************************************************************)
(* StoreTransaction: stored, an error that is logged, or a panic on the    *)
(* channel of a subscriber that left, before anything is saved.            *)
(***************************************************************************)
storeAndObserve(t) ==
    /\ pc[t] = "store"
    /\ \/ Abort(t)
       \/ /\ \E record \in {None, resp[t]} : stored' = [stored EXCEPT ![t] = record]
          /\ Goto(t, "write")
          /\ UNCHANGED <<envVars, req, raw, ctxOf, resp, verdict, upstream, hooks, freed, sent>>

writeProxyResponse(t) ==
    /\ pc[t] = "write"
    /\ Answer(t, resp[t])
    /\ UNCHANGED <<envVars, req, raw, ctxOf, resp, verdict, upstream, hooks, freed, stored>>

(* AddRewriteRule, UpdateRewriteRule, DeleteRewriteRule, ToggleRewriteRule. *)
ChangeRules ==
    /\ ruleSets < MaxRuleSets
    /\ rules' \in SUBSET RuleEffect
    /\ ruleSets' = ruleSets + 1
    /\ UNCHANGED <<arrival, gone, pc, txVars>>

(* The client closes its connection, or cancels its stream. *)
ClientLeaves(t, what) ==
    /\ pc[t] \notin {"done", "aborted"}
    /\ what = "stream" => path[t] \in {"h2c", "h2"}
    /\ gone' = gone \cup {<<t, what>>}
    /\ UNCHANGED <<arrival, rules, ruleSets, pc, txVars>>

-----------------------------------------------------------------------------
Expire(t) == ReleaseRequest(t, "timeout") \/ ReleaseResponse(t, "timeout")

Disconnect(t) ==
    \/ ReleaseRequest(t, "client")
    \/ \E cause \in {"client", "resumeCall"} : ReleaseResponse(t, cause)

(* What the proxy does by itself. *)
ProxyStep(t) ==
    \/ runPluginRequest(t)
    \/ PauseRequest(t) \/ handleWebSocket(t) \/ StoreUpgrade(t)
    \/ RewriteRequest(t) \/ RouteTLS(t) \/ applyMapLocalRules(t)
    \/ forwardUpstream(t) \/ RewriteResponse(t) \/ runPluginResponse(t)
    \/ PauseResponse(t) \/ storeAndObserve(t) \/ writeProxyResponse(t)

OperatorStep(t) == OperatorRequest(t) \/ OperatorResponse(t)

Next ==
    \/ \E t \in Tx : \/ handleHTTP(t) \/ handleRequest(t) \/ ProxyStep(t) \/ OperatorStep(t)
                     \/ Expire(t) \/ Disconnect(t) \/ PausePanics(t)
                     \/ \E what \in {"connection", "stream"} : ClientLeaves(t, what)
    \/ ChangeRules

Spec == Init /\ [][Next]_vars

(***************************************************************************)
(* Goroutines are scheduled, hooks return and the upstream server answers  *)
(* or fails (the transport bounds dialling and the wait for the header),   *)
(* an armed timeout fires and the end of a context is seen.  The operator  *)
(* and the client owe nothing.                                             *)
(***************************************************************************)
FairSpec ==
    Spec /\ \A t \in Tx : WF_vars(ProxyStep(t)) /\ WF_vars(Expire(t) \/ Disconnect(t))

-----------------------------------------------------------------------------
(* Properties *)

TypeOK ==
    /\ path \in [Tx -> Paths] /\ webSocket \subseteq Tx /\ pauseTimeout \in BOOLEAN
    /\ rules \subseteq RuleEffect
    /\ ruleSets \in 0..MaxRuleSets
    /\ gone \subseteq Tx \X {"connection", "stream"}
    /\ pc \in [Tx -> Stage]
    /\ req \in [Tx -> SUBSET Edit]
    /\ raw \in [Tx -> SUBSET Edit]
    /\ ctxOf \in [Tx -> {"client", "resumeCall"}]
    /\ resp \in [Tx -> Response \cup {None}]
    /\ verdict \in [Tx -> {"none", "plugin", "operator", "rule"}]
    /\ upstream \in [Tx -> (SUBSET Edit) \cup {None}]
    /\ hooks \in [Tx -> SUBSET {"OnRequest", "OnResponse"}]
    /\ freed \in [Tx -> SUBSET {"operator", "timeout", "client", "resumeCall"}]
    /\ stored \in [Tx -> Response \cup {None}]
    /\ sent \in [Tx -> Seq(Response)]

(***************************************************************************)
(* A handler that returns has answered exactly once, whatever hook,        *)
(* operator, rule or failed store ended it.  One that panics (a pause, a   *)
(* store, an invalid status) or loses its connection in an upgrade has     *)
(* answered nothing, or only the upgrade: an error is never written after  *)
(* or into an answer.                                                      *)
(***************************************************************************)
AnsweredOnce ==
    \A t \in Tx :
        /\ Len(sent[t]) <= 1
        /\ pc[t] = "done" => Len(sent[t]) = 1
        /\ sent[t] # <<>> => pc[t] = "done" \/ sent[t] = <<Plain("upgrade")>>

(***************************************************************************)
(* The history never tells a story that did not happen: what is stored for *)
(* a finished transaction is what its client was answered.  The exceptions *)
(* are a plain tunnel, whose client reads the status text, a 1xx response  *)
(* through a checked writer, read as 200 (see Written), and an invalid     *)
(* status, on which the writer panics after the store: only then is the    *)
(* record that of an answer nobody got.                                    *)
(***************************************************************************)
HistoryIsTrue ==
    \A t \in Tx : stored[t] # None =>
        /\ (pc[t] = "done" /\ path[t] # "tunnel" /\ ~(Checked(t) /\ stored[t].status = "interim"))
              => sent[t] = <<stored[t]>>
        /\ pc[t] = "aborted" => Checked(t) /\ stored[t].status = "invalid"

(***************************************************************************)
(* A request that a plugin, the operator or a rule answered in the request *)
(* phase never reaches the upstream server, and one that does carries the  *)
(* operator's edits, or else the plugins'.                                 *)
(***************************************************************************)
ForwardedAsDecided ==
    \A t \in Tx :
        /\ verdict[t] \in {"plugin", "rule"} => upstream[t] = None
        /\ upstream[t] # None => upstream[t] = req[t] /\ "OnRequest" \in hooks[t]
        /\ ctxOf[t] = "resumeCall" /\ upstream[t] # None => "operator" \in upstream[t]

(***************************************************************************)
(* No response reaches a client past the OnResponse hooks: one that comes  *)
(* from the upstream server or from a mapped file has been through them.   *)
(***************************************************************************)
HooksSeeResponses ==
    \A t \in Tx : \A i \in DOMAIN sent[t] :
        sent[t][i].from \in {"upstream", "map"} => hooks[t] = {"OnRequest", "OnResponse"}

(***************************************************************************)
(* A held response is let go by the operator, the timeout or its client,   *)
(* never by the end of the call that resumed the request ("Pause holds req *)
(* until resumed").                                                        *)
(***************************************************************************)
HeldForItsOwnSake == \A t \in Tx : "resumeCall" \notin freed[t]

(***************************************************************************)
(* With a pause timeout every request comes to its end, even if no         *)
(* operator ever resumes anything and the rules keep changing.             *)
(***************************************************************************)
EveryRequestEnds ==
    \A t \in Tx : (pc[t] = "onRequest" /\ pauseTimeout) ~> pc[t] \in {"done", "aborted"}

(***************************************************************************)
(* Without a timeout a client that disconnects still frees its goroutine,  *)
(* where a context is watched: a closed connection does on http, h2c and   *)
(* h2, a cancelled stream on h2 alone.                                     *)
(***************************************************************************)
DisconnectUnblocks ==
    \A t \in Tx :
        (pc[t] # "new" /\ \/ <<t, "connection">> \in gone /\ path[t] \in {"http", "h2c", "h2"}
                          \/ <<t, "stream">> \in gone /\ path[t] = "h2")
          ~> pc[t] \in {"done", "aborted"}
=============================================================================
