---------------------------- MODULE PipelineProofs ----------------------------
(***************************************************************************)
(* Proofs about ProxyPipeline, for any number of transactions, any mixture *)
(* of the paths they arrive on and any number of changes of the rules.     *)
(*                                                                         *)
(* The four properties look at a transaction that has ended; the invariant *)
(* beneath them says, stage by stage, what has been decided, received,     *)
(* stored and written so far.                                              *)
(***************************************************************************)
EXTENDS ProxyPipeline, TLAPS

USE PathAssumption, RulesAssumption

(* The stages before the upstream server or a file is asked, those with a  *)
(* response at hand, and those whose response has been through the hooks.  *)
Asking == {"new", "onRequest", "pauseRequest", "heldRequest", "route", "forward"}
Holding == {"received", "onResponse", "pauseResponse", "heldResponse", "store", "write"}
Hooked == {"pauseResponse", "heldResponse", "store", "write"}

(* The handler has returned, or panicked. *)
Over == {"done", "aborted"}

(* Nothing is written and nobody has decided before the handler ends or upgrades. *)
Unanswered(t) ==
    /\ pc[t] \notin {"upgraded"} \cup Over => sent[t] = << >>
    /\ pc[t] = "upgraded" => sent[t] = <<Plain("upgrade")>> /\ resp[t] = Plain("upgrade")
    /\ pc[t] \notin Over => verdict[t] = "none"

(* What a handler that returned, or panicked, has written. *)
Ended(t) ==
    /\ pc[t] = "done" => Len(sent[t]) = 1
    /\ pc[t] = "aborted" => sent[t] \in {<< >>, <<Plain("upgrade")>>}

(* The record of a transaction is written after its response is final, and only then. *)
Recorded(t) ==
    /\ pc[t] \notin {"write"} \cup Over => stored[t] = None
    /\ pc[t] = "write" => stored[t] \in {None, resp[t]}
    /\ (pc[t] = "done" /\ stored[t] # None /\ path[t] # "tunnel"
          /\ ~(Checked(t) /\ stored[t].status = "interim")) => sent[t] = <<stored[t]>>
    /\ (pc[t] = "aborted" /\ stored[t] # None) => Checked(t) /\ stored[t].status = "invalid"

(* What went upstream, and what the operator's edit leaves behind. *)
Forwarded(t) ==
    /\ pc[t] \in Asking => upstream[t] = None
    /\ pc[t] \notin {"new", "onRequest"} \cup Over => "OnRequest" \in hooks[t]
    /\ ctxOf[t] = "resumeCall" => "operator" \in req[t]
    /\ verdict[t] \in {"plugin", "rule"} => upstream[t] = None
    /\ upstream[t] # None => upstream[t] = req[t] /\ "OnRequest" \in hooks[t]

(* The response at hand, and the hooks it has been through. *)
Responded(t) ==
    /\ pc[t] \in Holding => resp[t] \in Response
    /\ pc[t] \in Hooked => hooks[t] = {"OnRequest", "OnResponse"}
    /\ \A i \in DOMAIN sent[t] :
          sent[t][i].from \in {"upstream", "map"} => hooks[t] = {"OnRequest", "OnResponse"}

TxInv(t) == Unanswered(t) /\ Ended(t) /\ Recorded(t) /\ Forwarded(t) /\ Responded(t)
PipelineInv == TypeOK /\ \A t \in Tx : TxInv(t)

-----------------------------------------------------------------------------
(* Answers *)

(* What is written is a response, the one given except in a tunnel and for 1xx. *)
LEMMA WrittenIsResponse ==
  ASSUME NEW t \in Tx, NEW r \in Response
  PROVE  /\ Written(t, r) \in Response
         /\ (path[t] # "tunnel" /\ ~(Checked(t) /\ r.status = "interim")) => Written(t, r) = r
         /\ Written(t, r).from \in {r.from, "statusText"}
BY DEF Written, Response, Origin, Status

(* A response the proxy makes itself is a response. *)
LEMMA PlainIsResponse == ASSUME NEW o \in Origin PROVE Plain(o) \in Response /\ Plain(o).from = o
BY DEF Plain, Response, Status

(* A response somebody supplies is a response of that origin. *)
LEMMA GivenIsResponse ==
  ASSUME NEW o \in Origin, NEW r \in Given(o)
  PROVE  r \in Response /\ r.from = o
BY DEF Given, Plain, Response, Status

(* Editing a response leaves a response. *)
LEMMA EditedIsResponse ==
  ASSUME NEW r \in Response, NEW edit \in SUBSET Edit, NEW status \in Status
  PROVE  /\ [r EXCEPT !.edits = r.edits \cup edit] \in Response
         /\ [r EXCEPT !.edits = r.edits \cup edit, !.status = status] \in Response
BY DEF Response

(* An answer is appended to what was written and the handler returns, or it panics. *)
LEMMA AnswerEffect ==
  ASSUME TypeOK, NEW t \in Tx, NEW r \in Response, Answer(t, r)
  PROVE  /\ sent' \in [Tx -> Seq(Response)] /\ pc' \in [Tx -> Stage] /\ pc'[t] \in Over
         /\ \/ sent'[t] = Append(sent[t], Written(t, r)) /\ pc'[t] = "done"
            \/ /\ sent'[t] = sent[t] /\ pc'[t] = "aborted"
               /\ Checked(t) /\ r.status = "invalid"
         /\ \A u \in Tx \ {t} : sent'[u] = sent[u] /\ pc'[u] = pc[u]
<1>1. Append(sent[t], Written(t, r)) \in Seq(Response)
  BY WrittenIsResponse DEF TypeOK
<1>2. CASE Checked(t) /\ r.status = "invalid"
  <2>1. pc' = [pc EXCEPT ![t] = "aborted"] /\ sent' = sent
    BY <1>2 DEF Answer, Goto
  <2>2. QED
    BY <1>2, <2>1 DEF TypeOK, Stage, Over
<1>3. CASE ~(Checked(t) /\ r.status = "invalid")
  <2>1. pc' = [pc EXCEPT ![t] = "done"] /\ sent' = [sent EXCEPT ![t] = Append(@, Written(t, r))]
    BY <1>3 DEF Answer, Goto
  <2>2. QED
    BY <1>1, <2>1 DEF TypeOK, Stage, Over
<1>4. QED
  BY <1>2, <1>3

(* An error is an answer, and leaves the rest alone. *)
LEMMA FailEffect ==
  ASSUME NEW t \in Tx, Fail(t)
  PROVE  /\ Answer(t, Plain("error"))
         /\ UNCHANGED <<path, webSocket, pauseTimeout, rules, ruleSets, gone>>
         /\ UNCHANGED <<req, raw, ctxOf, resp, verdict, upstream, hooks, freed, stored>>
BY DEF Fail, envVars, arrival

-----------------------------------------------------------------------------
(* Types *)

(* A change of one transaction's entry keeps the type of its table. *)
LEMMA TypeStep == PipelineInv /\ [Next]_vars => TypeOK'
<1> SUFFICES ASSUME PipelineInv, [Next]_vars PROVE TypeOK'
  OBVIOUS
<1> USE DEF PipelineInv, TypeOK
<1>1. ASSUME NEW t \in Tx, Fail(t) PROVE TypeOK'
  BY <1>1, AnswerEffect, FailEffect, PlainIsResponse DEF Origin
<1>0. ASSUME NEW t \in Tx, Abort(t) PROVE TypeOK'
  BY <1>0 DEF Abort, Stage, Goto, envVars, txVars, arrival
<1>2. ASSUME NEW t \in Tx, Admit(t) PROVE TypeOK'
  <2>1. CASE Goto(t, "onRequest") /\ UNCHANGED <<envVars, txVars>>
    BY <2>1 DEF Stage, Goto, envVars, txVars, arrival
  <2>2. QED
    BY <1>1, <1>2, <2>1 DEF Admit
<1>3. ASSUME NEW t \in Tx, runPluginRequest(t) PROVE TypeOK'
  <2>1. /\ hooks' \in [Tx -> SUBSET {"OnRequest", "OnResponse"}]
        /\ UNCHANGED <<path, webSocket, pauseTimeout, rules, ruleSets, gone, raw, ctxOf, resp, upstream, freed, stored>>
    BY <1>3 DEF runPluginRequest, envVars, arrival
  <2>2. ASSUME NEW edit \in SUBSET {"plugin"}, req' = [req EXCEPT ![t] = @ \cup edit], Goto(t, "pauseRequest"),
               UNCHANGED <<verdict, sent>>
        PROVE  TypeOK'
    <3>1. req' \in [Tx -> SUBSET Edit]
      BY <2>2 DEF Edit
    <3>2. QED
      BY <2>1, <2>2, <3>1 DEF Stage, Goto
  <2>3. ASSUME NEW mock \in Given("mock"), verdict' = [verdict EXCEPT ![t] = "plugin"], Answer(t, mock), UNCHANGED req
        PROVE  TypeOK'
    BY <2>1, <2>3, AnswerEffect, GivenIsResponse DEF Origin
  <2>4. CASE Answer(t, Plain("error")) /\ UNCHANGED <<req, verdict>>
    BY <2>1, <2>4, AnswerEffect, PlainIsResponse DEF Origin
  <2>5. QED
    BY <1>3, <2>2, <2>3, <2>4 DEF runPluginRequest
<1>4. ASSUME NEW t \in Tx, PauseRequest(t) \/ RouteTLS(t) \/ PauseResponse(t) PROVE TypeOK'
  <2>1. UNCHANGED <<envVars, txVars>> /\ \E stage \in Stage : Goto(t, stage)
    BY <1>4 DEF PauseRequest, RouteTLS, PauseResponse, Stage
  <2>2. QED
    BY <2>1 DEF Goto, envVars, txVars, arrival
<1>5. ASSUME NEW t \in Tx, OperatorRequest(t) PROVE TypeOK'
  <2>1. /\ freed' \in [Tx -> SUBSET {"operator", "timeout", "client", "resumeCall"}]
        /\ UNCHANGED <<path, webSocket, pauseTimeout, rules, ruleSets, gone, raw, resp, upstream, hooks, stored>>
    BY <1>5 DEF OperatorRequest, envVars, arrival
  <2>2. CASE Goto(t, "route") /\ UNCHANGED <<req, ctxOf, verdict, sent>>
    BY <2>1, <2>2 DEF Stage, Goto
  <2>3. CASE Goto(t, "route") /\ ModifiedRequest(t) /\ UNCHANGED <<verdict, sent>>
    BY <2>1, <2>3 DEF Stage, Goto, ModifiedRequest, Edit
  <2>4. CASE evaluateBreakpoint(t) /\ UNCHANGED <<req, ctxOf>>
    <3>1. PICK response \in Given("operator") \cup {Plain("error")} : Answer(t, response)
      BY <2>4 DEF evaluateBreakpoint
    <3>2. verdict' \in [Tx -> {"none", "plugin", "operator", "rule"}]
      BY <2>4 DEF evaluateBreakpoint
    <3>3. QED
      BY <2>1, <2>4, <3>1, <3>2, AnswerEffect, PlainIsResponse, GivenIsResponse DEF Origin
  <2>5. QED
    BY <1>5, <2>2, <2>3, <2>4 DEF OperatorRequest
<1>6. ASSUME NEW t \in Tx, handleWebSocket(t) PROVE TypeOK'
  <2> SUFFICES ASSUME /\ upstream' = [upstream EXCEPT ![t] = req[t]]
                      /\ \/ Answer(t, Plain("error")) /\ UNCHANGED resp
                         \/ Goto(t, "aborted") /\ UNCHANGED <<resp, sent>>
                         \/ /\ resp' = [resp EXCEPT ![t] = Plain("upgrade")] /\ Goto(t, "upgraded")
                            /\ sent' = [sent EXCEPT ![t] = Append(@, Plain("upgrade"))]
                      /\ UNCHANGED <<envVars, req, raw, ctxOf, verdict, hooks, freed, stored>>
               PROVE  TypeOK'
    BY <1>1, <1>6 DEF handleWebSocket
  <2>1. /\ upstream' \in [Tx -> (SUBSET Edit) \cup {None}]
        /\ UNCHANGED <<path, webSocket, pauseTimeout, rules, ruleSets, gone, req, raw, ctxOf, verdict, hooks, freed, stored>>
    BY DEF envVars, arrival
  <2>2. CASE Answer(t, Plain("error")) /\ UNCHANGED resp
    BY <2>1, <2>2, AnswerEffect, PlainIsResponse DEF Origin
  <2>3. CASE /\ resp' = [resp EXCEPT ![t] = Plain("upgrade")] /\ Goto(t, "upgraded")
             /\ sent' = [sent EXCEPT ![t] = Append(@, Plain("upgrade"))]
    <3>1. Plain("upgrade") \in Response /\ Append(sent[t], Plain("upgrade")) \in Seq(Response)
      BY PlainIsResponse DEF Origin
    <3>2. QED
      BY <2>1, <2>3, <3>1 DEF Stage, Goto
  <2>4. CASE Goto(t, "aborted") /\ UNCHANGED <<resp, sent>>
    BY <2>1, <2>4 DEF Stage, Goto
  <2>5. QED
    BY <2>2, <2>3, <2>4
<1>7. ASSUME NEW t \in Tx, StoreUpgrade(t) PROVE TypeOK'
  <2>1. ASSUME NEW record \in {None, resp[t]}, stored' = [stored EXCEPT ![t] = record], Goto(t, "done"),
               UNCHANGED <<envVars, req, raw, ctxOf, resp, verdict, upstream, hooks, freed, sent>>
        PROVE  TypeOK'
    BY <2>1 DEF Stage, Goto, envVars, arrival
  <2>2. QED
    BY <1>0, <1>7, <2>1 DEF StoreUpgrade
<1>8. ASSUME NEW t \in Tx, RewriteRequest(t) PROVE TypeOK'
  <2>1. UNCHANGED <<path, webSocket, pauseTimeout, rules, ruleSets, gone, req, ctxOf, resp, upstream, hooks, freed, stored>>
    BY <1>8 DEF RewriteRequest, envVars, arrival
  <2>2. /\ verdict' = verdict \/ verdict' = [verdict EXCEPT ![t] = "rule"]
        /\ raw' = raw \/ \E edit \in SUBSET {"rule"} : raw' = [raw EXCEPT ![t] = edit]
    BY <1>8 DEF RewriteRequest, ApplyRequestRules
  <2>3. raw' \in [Tx -> SUBSET Edit]
    <3>1. CASE raw' = raw
      BY <3>1
    <3>2. ASSUME NEW edit \in SUBSET {"rule"}, raw' = [raw EXCEPT ![t] = edit] PROVE raw' \in [Tx -> SUBSET Edit]
      BY <3>2 DEF Edit
    <3>3. QED
      BY <2>2, <3>1, <3>2
  <2>4. verdict' \in [Tx -> {"none", "plugin", "operator", "rule"}]
    BY <2>2
  <2>5. CASE Goto(t, "forward") /\ UNCHANGED sent
    BY <2>1, <2>3, <2>4, <2>5 DEF Stage, Goto
  <2>6. ASSUME NEW response \in Given("rule"), Answer(t, response) PROVE TypeOK'
    BY <2>1, <2>3, <2>4, <2>6, AnswerEffect, GivenIsResponse DEF Origin
  <2>7. QED
    BY <1>8, <2>5, <2>6 DEF RewriteRequest, ApplyRequestRules
<1>9. ASSUME NEW t \in Tx, applyMapLocalRules(t) PROVE TypeOK'
  <2>1. PICK response \in Given("map") : resp' = [resp EXCEPT ![t] = response]
    BY <1>9 DEF applyMapLocalRules
  <2>2. response \in Response
    BY <2>1, GivenIsResponse DEF Origin
  <2>3. QED
    BY <1>9, <2>1, <2>2 DEF applyMapLocalRules, Stage, Goto, envVars, arrival
<1>10. ASSUME NEW t \in Tx, forwardUpstream(t) PROVE TypeOK'
  <2>1. /\ upstream' \in [Tx -> (SUBSET Edit) \cup {None}]
        /\ UNCHANGED <<path, webSocket, pauseTimeout, rules, ruleSets, gone, req, raw, ctxOf, verdict, hooks, freed, stored>>
    BY <1>10 DEF forwardUpstream, envVars, arrival
  <2>2. CASE Answer(t, Plain("error")) /\ UNCHANGED resp
    BY <2>1, <2>2, AnswerEffect, PlainIsResponse DEF Origin
  <2>3. ASSUME NEW response \in Given("upstream"), resp' = [resp EXCEPT ![t] = response], UNCHANGED sent,
               Goto(t, IF ByHTTPProxy(t) THEN "received" ELSE "onResponse")
        PROVE  TypeOK'
    BY <2>1, <2>3, GivenIsResponse DEF Stage, Goto, Origin
  <2>4. QED
    BY <1>10, <2>2, <2>3 DEF forwardUpstream
<1>11. ASSUME NEW t \in Tx, NEW edit \in SUBSET Edit, NEW status \in Status,
              \/ resp' = [resp EXCEPT ![t].edits = @ \cup edit]
              \/ resp' = [resp EXCEPT ![t].edits = @ \cup edit, ![t].status = status],
              pc[t] \in {"received", "onResponse"}
       PROVE  resp' \in [Tx -> Response \cup {None}]
  <2>1. resp[t] \in Response
    BY <1>11 DEF TxInv, Responded, Holding
  <2>2. /\ [resp[t] EXCEPT !.edits = resp[t].edits \cup edit] \in Response
        /\ [resp[t] EXCEPT !.edits = resp[t].edits \cup edit, !.status = status] \in Response
    BY <2>1, EditedIsResponse
  <2>3. QED
    BY <1>11, <2>2
<1>12. ASSUME NEW t \in Tx, RewriteResponse(t) PROVE TypeOK'
  <2>1. resp' \in [Tx -> Response \cup {None}]
    BY <1>11, <1>12 DEF RewriteResponse, ApplyResponseRules, Edit, Status
  <2>2. QED
    BY <1>12, <2>1 DEF RewriteResponse, Stage, Goto, envVars, arrival
<1>13. ASSUME NEW t \in Tx, runPluginResponse(t) PROVE TypeOK'
  <2>1. /\ hooks' \in [Tx -> SUBSET {"OnRequest", "OnResponse"}]
        /\ UNCHANGED <<path, webSocket, pauseTimeout, rules, ruleSets, gone, req, raw, ctxOf, verdict, upstream, freed, stored>>
    BY <1>13 DEF runPluginResponse, envVars, arrival
  <2>2. ASSUME \/ UNCHANGED resp
               \/ \E status \in Status : resp' = [resp EXCEPT ![t].edits = @ \cup {"plugin"}, ![t].status = status],
               Goto(t, "pauseResponse"), UNCHANGED sent
        PROVE  TypeOK'
    <3>1. resp' \in [Tx -> Response \cup {None}]
      BY <1>11, <1>13, <2>2 DEF runPluginResponse, Edit
    <3>2. QED
      BY <2>1, <2>2, <3>1 DEF Stage, Goto
  <2>3. CASE Answer(t, Plain("error")) /\ UNCHANGED resp
    BY <2>1, <2>3, AnswerEffect, PlainIsResponse DEF Origin
  <2>4. QED
    BY <1>13, <2>2, <2>3 DEF runPluginResponse
<1>14. ASSUME NEW t \in Tx, OperatorResponse(t) PROVE TypeOK'
  <2>1. /\ freed' \in [Tx -> SUBSET {"operator", "timeout", "client", "resumeCall"}]
        /\ verdict' \in [Tx -> {"none", "plugin", "operator", "rule"}]
        /\ UNCHANGED <<path, webSocket, pauseTimeout, rules, ruleSets, gone, req, raw, ctxOf, upstream, hooks, stored>>
    BY <1>14 DEF OperatorResponse, envVars, arrival
  <2>2. resp[t] \in Response /\ Plain("error") \in Response
    BY <1>14, PlainIsResponse DEF OperatorResponse, TxInv, Responded, Holding, Origin
  <2>3. CASE Goto(t, "store") /\ UNCHANGED <<resp, sent>>
    BY <2>1, <2>3 DEF Stage, Goto
  <2>4. CASE Answer(t, Plain("error")) /\ UNCHANGED resp
    BY <2>1, <2>2, <2>4, AnswerEffect
  <2>5. CASE Answer(t, resp[t]) /\ UNCHANGED resp
    BY <2>1, <2>2, <2>5, AnswerEffect
  <2>6. ASSUME NEW response \in Given("operator"), Answer(t, response), resp' = [resp EXCEPT ![t] = response]
        PROVE  TypeOK'
    <3>1. response \in Response /\ resp' \in [Tx -> Response \cup {None}]
      BY <2>6, GivenIsResponse DEF Origin
    <3>2. QED
      BY <2>1, <2>6, <3>1, AnswerEffect
  <2>7. QED
    BY <1>14, <2>3, <2>4, <2>5, <2>6 DEF OperatorResponse
<1>15. ASSUME NEW t \in Tx, storeAndObserve(t) PROVE TypeOK'
  <2>1. ASSUME NEW record \in {None, resp[t]}, stored' = [stored EXCEPT ![t] = record], Goto(t, "write"),
               UNCHANGED <<envVars, req, raw, ctxOf, resp, verdict, upstream, hooks, freed, sent>>
        PROVE  TypeOK'
    BY <2>1 DEF Stage, Goto, envVars, arrival
  <2>2. QED
    BY <1>0, <1>15, <2>1 DEF storeAndObserve
<1>16. ASSUME NEW t \in Tx, writeProxyResponse(t) PROVE TypeOK'
  <2>1. resp[t] \in Response
    BY <1>16 DEF writeProxyResponse, TxInv, Responded, Holding
  <2>2. QED
    BY <1>16, <2>1, AnswerEffect DEF writeProxyResponse, envVars, arrival
<1>17. ASSUME NEW t \in Tx, NEW cause \in {"timeout", "client", "resumeCall"},
              ReleaseRequest(t, cause) \/ ReleaseResponse(t, cause)
       PROVE  TypeOK'
  <2>1. /\ Goto(t, "route") \/ Goto(t, "store")
        /\ freed' = [freed EXCEPT ![t] = @ \cup {cause}]
        /\ UNCHANGED <<envVars, req, raw, ctxOf, resp, verdict, upstream, hooks, stored, sent>>
    BY <1>17 DEF ReleaseRequest, ReleaseResponse
  <2>2. pc' \in [Tx -> Stage]
    BY <2>1 DEF Stage, Goto
  <2>3. freed' \in [Tx -> SUBSET {"operator", "timeout", "client", "resumeCall"}]
    BY <2>1
  <2>4. QED
    BY <2>1, <2>2, <2>3 DEF envVars, arrival
<1>18. ASSUME NEW t \in Tx, NEW what \in {"connection", "stream"}, ClientLeaves(t, what) PROVE TypeOK'
  BY <1>18 DEF ClientLeaves, arrival, txVars
<1>19. CASE ChangeRules
  BY <1>19 DEF ChangeRules, arrival, txVars
<1>20. CASE UNCHANGED vars
  BY <1>20 DEF vars, envVars, arrival, txVars
<1>21. ASSUME NEW t \in Tx, ProxyStep(t) PROVE TypeOK'
  BY <1>0, <1>1, <1>3, <1>4, <1>6, <1>7, <1>8, <1>9, <1>10, <1>12, <1>13, <1>15, <1>16, <1>21 DEF ProxyStep
<1>22. ASSUME NEW t \in Tx, OperatorStep(t) \/ Expire(t) \/ Disconnect(t) PROVE TypeOK'
  BY <1>5, <1>14, <1>17, <1>22 DEF OperatorStep, Expire, Disconnect
<1>23. QED
  BY <1>0, <1>2, <1>18, <1>19, <1>20, <1>21, <1>22 DEF Next, handleHTTP, handleRequest, PausePanics

-----------------------------------------------------------------------------
(* Transactions *)

(* A step of t leaves what is known of the others alone. *)
OthersSame(t) ==
    /\ path' = path
    /\ \A u \in Tx \ {t} :
          /\ pc'[u] = pc[u] /\ req'[u] = req[u] /\ ctxOf'[u] = ctxOf[u] /\ resp'[u] = resp[u]
          /\ verdict'[u] = verdict[u] /\ upstream'[u] = upstream[u] /\ hooks'[u] = hooks[u]
          /\ stored'[u] = stored[u] /\ sent'[u] = sent[u]

(* Nothing of a transaction changes. *)
LEMMA SameKeeps ==
  ASSUME NEW u \in Tx, TxInv(u), path' = path, pc'[u] = pc[u], req'[u] = req[u], ctxOf'[u] = ctxOf[u],
         resp'[u] = resp[u], verdict'[u] = verdict[u], upstream'[u] = upstream[u], hooks'[u] = hooks[u],
         stored'[u] = stored[u], sent'[u] = sent[u]
  PROVE  TxInv(u)'
BY DEF TxInv, Unanswered, Ended, Recorded, Forwarded, Responded, Asking, Holding, Hooked, Over, Checked

(* A step of one transaction leaves the invariant of the others. *)
LEMMA OthersKeep ==
  ASSUME \A u \in Tx : TxInv(u), NEW t \in Tx, OthersSame(t), TxInv(t)'
  PROVE  \A u \in Tx : TxInv(u)'
<1> TAKE u \in Tx
<1>1. CASE u = t
  BY <1>1
<1>2. CASE u # t
  BY <1>2, SameKeeps DEF OthersSame
<1>3. QED
  BY <1>1, <1>2

(***************************************************************************)
(* A first answer ends a transaction well: the record, if there is one, is *)
(* the answer, an answer from upstream has been through the hooks, and     *)
(* what was forwarded was forwarded as decided.                            *)
(***************************************************************************)
LEMMA AnswerEnds ==
  ASSUME TypeOK, NEW t \in Tx, NEW r \in Response, Answer(t, r), sent[t] = << >>, path' = path,
         stored'[t] \in {None, r},
         r.from \in {"upstream", "map"} => hooks'[t] = {"OnRequest", "OnResponse"},
         Forwarded(t)'
  PROVE  TxInv(t)'
<1>1. \/ pc'[t] = "done" /\ sent'[t] = <<Written(t, r)>>
      \/ /\ pc'[t] = "aborted" /\ sent'[t] = << >>
         /\ Checked(t) /\ r.status = "invalid"
  BY AnswerEffect
<1>2. /\ (path[t] # "tunnel" /\ ~(Checked(t) /\ r.status = "interim")) => Written(t, r) = r
      /\ Written(t, r).from \in {r.from, "statusText"}
  BY WrittenIsResponse
<1>3. Unanswered(t)' /\ Ended(t)'
  BY <1>1 DEF Unanswered, Ended, Over
<1>4. Recorded(t)'
  BY <1>1, <1>2 DEF Recorded, Over, Checked
<1>5. Responded(t)'
  <2>1. \A i \in DOMAIN sent'[t] : sent'[t][i] = Written(t, r)
    BY <1>1
  <2>2. QED
    BY <1>1, <1>2, <2>1 DEF Responded, Holding, Hooked
<1>6. QED
  BY <1>3, <1>4, <1>5 DEF TxInv

(* An error in mid-flight is a well-formed end. *)
LEMMA FailEnds ==
  ASSUME PipelineInv, NEW t \in Tx, Fail(t), pc[t] \notin {"upgraded", "write"} \cup Over
  PROVE  OthersSame(t) /\ TxInv(t)'
<1> USE FailEffect DEF PipelineInv
<1>1. Plain("error") \in Response /\ Plain("error").from = "error"
  BY PlainIsResponse DEF Origin
<1>2. TypeOK /\ sent[t] = << >> /\ stored[t] = None
  BY DEF TxInv, Unanswered, Recorded
<1>3. pc'[t] \in Over /\ OthersSame(t)
  BY <1>1, <1>2, AnswerEffect DEF OthersSame
<1>4. Forwarded(t)'
  BY <1>3 DEF TxInv, Forwarded, Asking, Over
<1>5. QED
  BY <1>1, <1>2, <1>3, <1>4, AnswerEnds

(* So is a panic before anything is written or stored, or after an upgrade. *)
LEMMA AbortEnds ==
  ASSUME PipelineInv, NEW t \in Tx, Abort(t), pc[t] \notin {"write"} \cup Over
  PROVE  OthersSame(t) /\ TxInv(t)'
<1> USE DEF PipelineInv
<1>1. TypeOK /\ stored[t] = None /\ sent[t] \in {<< >>, <<Plain("upgrade")>>} /\ TxInv(t)
  BY DEF TxInv, Unanswered, Recorded
<1>2. pc'[t] = "aborted" /\ OthersSame(t) /\ UNCHANGED <<path, txVars>>
  BY <1>1 DEF Abort, Goto, OthersSame, TypeOK, envVars, arrival, txVars
<1>3. Unanswered(t)' /\ Ended(t)' /\ Recorded(t)' /\ Forwarded(t)' /\ Responded(t)'
  BY <1>1, <1>2 DEF TxInv, Unanswered, Ended, Recorded, Forwarded, Responded, Asking, Holding, Hooked, Over, txVars
<1>4. QED
  BY <1>2, <1>3 DEF TxInv

(***************************************************************************)
(* A stage that only moves on, with what the later stage requires.         *)
(***************************************************************************)
LEMMA MoveKeeps ==
  ASSUME PipelineInv, NEW t \in Tx, pc[t] \notin {"upgraded", "write"} \cup Over,
         pc'[t] \notin {"upgraded", "write"} \cup Over, path' = path,
         sent'[t] = sent[t], verdict'[t] = verdict[t], stored'[t] = stored[t],
         Forwarded(t)', pc'[t] \in Holding => resp'[t] \in Response,
         pc'[t] \in Hooked => hooks'[t] = {"OnRequest", "OnResponse"}
  PROVE  TxInv(t)'
<1>1. sent'[t] = << >> /\ verdict'[t] = "none" /\ stored'[t] = None
  BY DEF PipelineInv, TxInv, Unanswered, Recorded
<1>2. QED
  BY <1>1 DEF TxInv, Unanswered, Ended, Recorded, Responded, Over

(* Every step of a transaction keeps its invariant. *)
LEMMA TxStep ==
  ASSUME PipelineInv, NEW t \in Tx
  PROVE  /\ handleHTTP(t) \/ handleRequest(t) \/ ProxyStep(t) \/ OperatorStep(t) \/ PausePanics(t)
            => OthersSame(t) /\ TxInv(t)'
         /\ Expire(t) \/ Disconnect(t) => OthersSame(t) /\ TxInv(t)'
<1> DEFINE Kept == OthersSame(t) /\ TxInv(t)'
<1> USE DEF PipelineInv, Over
<1>0. TypeOK /\ TxInv(t) /\ Unanswered(t) /\ Recorded(t) /\ Forwarded(t) /\ Responded(t)
  BY DEF TxInv
<1>1. \A o \in Origin : Plain(o) \in Response /\ Plain(o).from = o
  BY PlainIsResponse
<1>2. ASSUME Admit(t) PROVE Kept
  <2>1. CASE Goto(t, "onRequest") /\ UNCHANGED <<envVars, txVars>>
    <3>1. OthersSame(t) /\ pc'[t] = "onRequest"
      BY <1>0, <2>1 DEF OthersSame, TypeOK, Goto, envVars, arrival, txVars
    <3>2. Forwarded(t)'
      BY <1>0, <1>2, <2>1, <3>1 DEF Admit, Forwarded, Asking, txVars
    <3>3. QED
      BY <1>2, <2>1, <3>1, <3>2, MoveKeeps DEF Admit, Holding, Hooked, txVars, envVars, arrival
  <2>2. QED
    BY <1>2, <2>1, FailEnds DEF Admit
<1>3. ASSUME runPluginRequest(t) PROVE Kept
  <2>1. /\ pc[t] = "onRequest" /\ hooks' = [hooks EXCEPT ![t] = @ \cup {"OnRequest"}]
        /\ UNCHANGED <<path, raw, ctxOf, resp, upstream, freed, stored>>
    BY <1>3 DEF runPluginRequest, envVars, arrival
  <2>2. "OnRequest" \in hooks'[t] /\ upstream[t] = None /\ stored[t] = None /\ sent[t] = << >> /\ verdict[t] = "none"
    BY <1>0, <2>1 DEF Forwarded, Recorded, Unanswered, Asking, TypeOK
  <2>3. ASSUME NEW edit \in SUBSET {"plugin"}, req' = [req EXCEPT ![t] = @ \cup edit], Goto(t, "pauseRequest"),
               UNCHANGED <<verdict, sent>>
        PROVE  Kept
    <3>1. OthersSame(t) /\ pc'[t] = "pauseRequest" /\ req[t] \subseteq req'[t]
      BY <1>0, <2>1, <2>3 DEF OthersSame, TypeOK, Goto
    <3>2. Forwarded(t)'
      BY <1>0, <2>1, <2>2, <2>3, <3>1 DEF Forwarded, Asking
    <3>3. QED
      BY <2>1, <2>3, <3>1, <3>2, MoveKeeps DEF Holding, Hooked
  <2>4. ASSUME NEW r \in Given("mock") \cup {Plain("error")}, Answer(t, r), UNCHANGED req,
               verdict' \in {verdict, [verdict EXCEPT ![t] = "plugin"]}
        PROVE  Kept
    <3>0. r \in Response /\ r.from \in {"mock", "error"}
      BY <1>1, <2>4, GivenIsResponse DEF Origin
    <3>1. OthersSame(t) /\ pc'[t] \in Over
      BY <1>0, <2>1, <2>4, <3>0, AnswerEffect DEF OthersSame, TypeOK
    <3>2. Forwarded(t)'
      BY <1>0, <2>1, <2>2, <2>4, <3>1 DEF Forwarded, Asking
    <3>3. QED
      BY <1>0, <2>1, <2>2, <2>4, <3>0, <3>1, <3>2, AnswerEnds
  <2>5. QED
    BY <1>3, <2>3, <2>4 DEF runPluginRequest
<1>4. ASSUME PauseRequest(t) PROVE Kept
  <2>1. OthersSame(t) /\ pc[t] = "pauseRequest" /\ pc'[t] \in {"heldRequest", "route"} /\ UNCHANGED <<path, txVars>>
    BY <1>0, <1>4 DEF PauseRequest, OthersSame, TypeOK, Goto, envVars, arrival, txVars
  <2>2. Forwarded(t)'
    BY <1>0, <2>1 DEF Forwarded, Asking, txVars
  <2>3. QED
    BY <2>1, <2>2, MoveKeeps DEF Holding, Hooked, txVars
<1>5. ASSUME RouteTLS(t) PROVE Kept
  <2>1. OthersSame(t) /\ pc[t] = "route" /\ pc'[t] = "forward" /\ UNCHANGED <<path, txVars>>
    BY <1>0, <1>5 DEF RouteTLS, OthersSame, TypeOK, Goto, envVars, arrival, txVars
  <2>2. Forwarded(t)'
    BY <1>0, <2>1 DEF Forwarded, Asking, txVars
  <2>3. QED
    BY <2>1, <2>2, MoveKeeps DEF Holding, Hooked, txVars
<1>6. ASSUME PauseResponse(t) PROVE Kept
  <2>1. OthersSame(t) /\ pc[t] = "pauseResponse" /\ pc'[t] \in {"heldResponse", "store"} /\ UNCHANGED <<path, txVars>>
    BY <1>0, <1>6 DEF PauseResponse, OthersSame, TypeOK, Goto, envVars, arrival, txVars
  <2>2. Forwarded(t)'
    BY <1>0, <2>1 DEF Forwarded, Asking, txVars
  <2>3. resp[t] \in Response /\ hooks[t] = {"OnRequest", "OnResponse"}
    BY <1>0, <2>1 DEF Responded, Holding, Hooked
  <2>4. QED
    BY <2>1, <2>2, <2>3, MoveKeeps DEF txVars
<1>7. ASSUME OperatorRequest(t) PROVE Kept
  <2>1. pc[t] = "heldRequest" /\ UNCHANGED <<path, raw, resp, upstream, hooks, stored>>
    BY <1>7 DEF OperatorRequest, envVars, arrival
  <2>2. "OnRequest" \in hooks[t] /\ upstream[t] = None /\ stored[t] = None /\ sent[t] = << >>
    BY <1>0, <2>1 DEF Forwarded, Recorded, Unanswered, Asking
  <2>3. ASSUME Goto(t, "route"), UNCHANGED <<verdict, sent>>, UNCHANGED <<req, ctxOf>> \/ ModifiedRequest(t)
        PROVE  Kept
    <3>1. OthersSame(t) /\ pc'[t] = "route"
      BY <1>0, <2>1, <2>3 DEF OthersSame, TypeOK, Goto, ModifiedRequest
    <3>2. ctxOf'[t] = "resumeCall" => "operator" \in req'[t]
      BY <1>0, <2>3 DEF Forwarded, ModifiedRequest, TypeOK
    <3>3. Forwarded(t)'
      BY <1>0, <2>1, <2>2, <2>3, <3>1, <3>2 DEF Forwarded
    <3>4. QED
      BY <2>1, <2>3, <3>1, <3>3, MoveKeeps DEF Holding, Hooked
  <2>4. ASSUME evaluateBreakpoint(t), UNCHANGED <<req, ctxOf>> PROVE Kept
    <3>0. PICK r \in Given("operator") \cup {Plain("error")} : Answer(t, r)
      BY <2>4 DEF evaluateBreakpoint
    <3>1. r \in Response /\ r.from \in {"operator", "error"}
      BY <1>1, GivenIsResponse DEF Origin
    <3>2. OthersSame(t) /\ pc'[t] \in Over
      BY <1>0, <2>1, <2>4, <3>0, <3>1, AnswerEffect DEF OthersSame, TypeOK, evaluateBreakpoint
    <3>3. Forwarded(t)'
      BY <1>0, <2>1, <2>2, <2>4, <3>2 DEF Forwarded, Asking
    <3>4. QED
      BY <1>0, <2>1, <2>2, <3>0, <3>1, <3>2, <3>3, AnswerEnds
  <2>5. QED
    BY <1>7, <2>3, <2>4 DEF OperatorRequest
<1>8. ASSUME handleWebSocket(t) PROVE Kept
  <2>1. pc[t] = "route" /\ "OnRequest" \in hooks[t] /\ stored[t] = None /\ sent[t] = << >> /\ verdict[t] = "none"
    BY <1>0, <1>8 DEF handleWebSocket, Forwarded, Recorded, Unanswered
  <2>2. CASE Fail(t)
    BY <2>1, <2>2, FailEnds
  <2>3. ASSUME upstream' = [upstream EXCEPT ![t] = req[t]],
               UNCHANGED <<path, req, ctxOf, verdict, hooks, stored>>,
               Answer(t, Plain("error")), UNCHANGED resp
        PROVE  Kept
    <3>1. OthersSame(t) /\ pc'[t] \in Over /\ upstream'[t] = req[t]
      BY <1>0, <1>1, <2>3, AnswerEffect DEF OthersSame, TypeOK, Origin
    <3>2. Forwarded(t)'
      BY <1>0, <2>1, <2>3, <3>1 DEF Forwarded, Asking
    <3>3. QED
      BY <1>0, <1>1, <2>1, <2>3, <3>1, <3>2, AnswerEnds DEF Origin
  <2>4. ASSUME upstream' = [upstream EXCEPT ![t] = req[t]],
               UNCHANGED <<path, req, ctxOf, verdict, hooks, stored>>,
               resp' = [resp EXCEPT ![t] = Plain("upgrade")],
               sent' = [sent EXCEPT ![t] = Append(@, Plain("upgrade"))], Goto(t, "upgraded")
        PROVE  Kept
    <3>1. OthersSame(t) /\ pc'[t] = "upgraded" /\ upstream'[t] = req[t] /\ resp'[t] = Plain("upgrade")
      BY <1>0, <2>4 DEF OthersSame, TypeOK, Goto
    <3>2. sent'[t] = <<Plain("upgrade")>>
      BY <1>0, <2>1, <2>4 DEF TypeOK
    <3>3. Forwarded(t)'
      BY <1>0, <2>1, <2>4, <3>1 DEF Forwarded, Asking
    <3>4. \A i \in DOMAIN sent'[t] : sent'[t][i].from = "upgrade"
      BY <1>1, <3>2 DEF Origin
    <3>5. Responded(t)'
      BY <3>1, <3>4 DEF Responded, Holding, Hooked
    <3>6. Unanswered(t)' /\ Ended(t)' /\ Recorded(t)'
      BY <2>1, <2>4, <3>1, <3>2 DEF Unanswered, Ended, Recorded
    <3>7. QED
      BY <3>1, <3>3, <3>5, <3>6 DEF TxInv
  <2>5. ASSUME upstream' = [upstream EXCEPT ![t] = req[t]],
               UNCHANGED <<path, req, ctxOf, verdict, hooks, stored>>,
               Goto(t, "aborted"), UNCHANGED <<resp, sent>>
        PROVE  Kept
    <3>1. OthersSame(t) /\ pc'[t] = "aborted" /\ upstream'[t] = req[t]
      BY <1>0, <2>5 DEF OthersSame, TypeOK, Goto
    <3>2. Forwarded(t)'
      BY <1>0, <2>1, <2>5, <3>1 DEF Forwarded, Asking
    <3>3. Unanswered(t)' /\ Ended(t)' /\ Recorded(t)' /\ Responded(t)'
      BY <2>1, <2>5, <3>1 DEF Unanswered, Ended, Recorded, Responded, Holding, Hooked
    <3>4. QED
      BY <3>1, <3>2, <3>3 DEF TxInv
  <2>6. QED
    BY <1>8, <2>2, <2>3, <2>4, <2>5 DEF handleWebSocket, envVars, arrival
<1>9. ASSUME StoreUpgrade(t) PROVE Kept
  <2>1. /\ pc[t] = "upgraded" /\ sent[t] = <<Plain("upgrade")>> /\ resp[t] = Plain("upgrade")
        /\ verdict[t] = "none" /\ "OnRequest" \in hooks[t]
    BY <1>0, <1>9 DEF StoreUpgrade, Unanswered, Forwarded
  <2>2. CASE Abort(t)
    BY <2>1, <2>2, AbortEnds
  <2>3. ASSUME NEW record \in {None, resp[t]}, stored' = [stored EXCEPT ![t] = record], Goto(t, "done"),
               UNCHANGED <<path, req, ctxOf, resp, verdict, upstream, hooks, sent>>
        PROVE  Kept
    <3>1. OthersSame(t) /\ pc'[t] = "done" /\ stored'[t] \in {None, Plain("upgrade")}
      BY <1>0, <2>1, <2>3 DEF OthersSame, TypeOK, Goto
    <3>2. Forwarded(t)'
      BY <1>0, <2>1, <2>3, <3>1 DEF Forwarded, Asking
    <3>3. Unanswered(t)' /\ Ended(t)' /\ Recorded(t)' /\ Responded(t)'
      BY <1>0, <2>1, <2>3, <3>1 DEF Unanswered, Ended, Recorded, Responded, Holding, Hooked
    <3>4. QED
      BY <3>1, <3>2, <3>3 DEF TxInv
  <2>4. QED
    BY <1>9, <2>2, <2>3 DEF StoreUpgrade, envVars, arrival
<1>10. ASSUME RewriteRequest(t) PROVE Kept
  <2>1. pc[t] = "route" /\ UNCHANGED <<path, req, ctxOf, resp, upstream, hooks, stored>>
    BY <1>10 DEF RewriteRequest, envVars, arrival
  <2>2. /\ "OnRequest" \in hooks[t] /\ upstream[t] = None /\ stored[t] = None /\ sent[t] = << >>
        /\ verdict[t] = "none"
    BY <1>0, <2>1 DEF Forwarded, Recorded, Unanswered, Asking
  <2>3. ASSUME Goto(t, "forward"), UNCHANGED <<verdict, sent>> PROVE Kept
    <3>1. OthersSame(t) /\ pc'[t] = "forward"
      BY <1>0, <2>1, <2>3 DEF OthersSame, TypeOK, Goto
    <3>2. Forwarded(t)'
      BY <1>0, <2>1, <2>2, <2>3, <3>1 DEF Forwarded
    <3>3. QED
      BY <2>1, <2>3, <3>1, <3>2, MoveKeeps DEF Holding, Hooked
  <2>4. ASSUME NEW r \in Given("rule"), verdict' = [verdict EXCEPT ![t] = "rule"], Answer(t, r) PROVE Kept
    <3>0. r \in Response /\ r.from = "rule"
      BY GivenIsResponse DEF Origin
    <3>1. OthersSame(t) /\ pc'[t] \in Over
      BY <1>0, <2>1, <2>4, <3>0, AnswerEffect DEF OthersSame, TypeOK
    <3>2. Forwarded(t)'
      BY <1>0, <2>1, <2>2, <3>1 DEF Forwarded, Asking
    <3>3. QED
      BY <1>0, <2>1, <2>2, <2>4, <3>0, <3>1, <3>2, AnswerEnds
  <2>5. QED
    BY <1>10, <2>3, <2>4 DEF RewriteRequest, ApplyRequestRules
<1>11. ASSUME applyMapLocalRules(t) PROVE Kept
  <2>1. /\ OthersSame(t) /\ pc[t] = "forward" /\ pc'[t] = "onResponse" /\ resp'[t] \in Given("map")
        /\ UNCHANGED <<path, req, ctxOf, verdict, upstream, hooks, stored, sent>>
    BY <1>0, <1>11 DEF applyMapLocalRules, OthersSame, TypeOK, Goto, envVars, arrival
  <2>2. Forwarded(t)'
    BY <1>0, <2>1 DEF Forwarded, Asking
  <2>3. QED
    BY <2>1, <2>2, GivenIsResponse, MoveKeeps DEF Hooked, Origin
<1>12. ASSUME forwardUpstream(t) PROVE Kept
  <2>1. /\ pc[t] = "forward" /\ upstream' = [upstream EXCEPT ![t] = req[t]]
        /\ UNCHANGED <<path, req, ctxOf, verdict, hooks, stored>>
    BY <1>12 DEF forwardUpstream, envVars, arrival
  <2>2. "OnRequest" \in hooks[t] /\ stored[t] = None /\ sent[t] = << >> /\ verdict[t] = "none" /\ upstream'[t] = req[t]
    BY <1>0, <2>1 DEF Forwarded, Recorded, Unanswered, TypeOK
  <2>3. ASSUME NEW r \in Given("upstream"), resp' = [resp EXCEPT ![t] = r], UNCHANGED sent,
               Goto(t, IF ByHTTPProxy(t) THEN "received" ELSE "onResponse")
        PROVE  Kept
    <3>1. OthersSame(t) /\ pc'[t] \in {"received", "onResponse"} /\ resp'[t] \in Response
      BY <1>0, <2>1, <2>3, GivenIsResponse DEF OthersSame, TypeOK, Goto, Origin
    <3>2. Forwarded(t)'
      BY <1>0, <2>1, <2>2, <3>1 DEF Forwarded, Asking
    <3>3. QED
      BY <2>1, <2>3, <3>1, <3>2, MoveKeeps DEF Hooked
  <2>4. ASSUME Answer(t, Plain("error")), UNCHANGED resp PROVE Kept
    <3>1. OthersSame(t) /\ pc'[t] \in Over
      BY <1>0, <1>1, <2>1, <2>4, AnswerEffect DEF OthersSame, TypeOK, Origin
    <3>2. Forwarded(t)'
      BY <1>0, <2>1, <2>2, <3>1 DEF Forwarded, Asking
    <3>3. QED
      BY <1>0, <1>1, <2>1, <2>2, <2>4, <3>1, <3>2, AnswerEnds DEF Origin
  <2>5. QED
    BY <1>12, <2>3, <2>4 DEF forwardUpstream
<1>13. ASSUME NEW edit \in SUBSET Edit, NEW status \in Status, pc[t] \in {"received", "onResponse"},
              \/ resp' = [resp EXCEPT ![t].edits = @ \cup edit]
              \/ resp' = [resp EXCEPT ![t].edits = @ \cup edit, ![t].status = status]
       PROVE  resp'[t] \in Response /\ \A u \in Tx \ {t} : resp'[u] = resp[u]
  <2>1. resp[t] \in Response
    BY <1>0, <1>13 DEF Responded, Holding
  <2>2. /\ [resp[t] EXCEPT !.edits = resp[t].edits \cup edit] \in Response
        /\ [resp[t] EXCEPT !.edits = resp[t].edits \cup edit, !.status = status] \in Response
    BY <2>1, EditedIsResponse
  <2>3. QED
    BY <1>0, <1>13, <2>2 DEF TypeOK
<1>14. ASSUME RewriteResponse(t) PROVE Kept
  <2>1. /\ pc[t] = "received" /\ Goto(t, "onResponse")
        /\ UNCHANGED <<path, req, ctxOf, verdict, upstream, hooks, stored, sent>>
    BY <1>14 DEF RewriteResponse, envVars, arrival
  <2>2. resp'[t] \in Response /\ \A u \in Tx \ {t} : resp'[u] = resp[u]
    BY <1>13, <1>14 DEF RewriteResponse, ApplyResponseRules, Edit, Status
  <2>3. OthersSame(t) /\ pc'[t] = "onResponse"
    BY <1>0, <2>1, <2>2 DEF OthersSame, TypeOK, Goto
  <2>4. Forwarded(t)'
    BY <1>0, <2>1, <2>3 DEF Forwarded, Asking
  <2>5. QED
    BY <2>1, <2>2, <2>3, <2>4, MoveKeeps DEF Hooked
<1>15. ASSUME runPluginResponse(t) PROVE Kept
  <2>1. /\ pc[t] = "onResponse" /\ hooks' = [hooks EXCEPT ![t] = @ \cup {"OnResponse"}]
        /\ UNCHANGED <<path, req, ctxOf, verdict, upstream, stored>>
    BY <1>15 DEF runPluginResponse, envVars, arrival
  <2>2. hooks'[t] = {"OnRequest", "OnResponse"} /\ stored[t] = None /\ sent[t] = << >>
    <3>1. "OnRequest" \in hooks[t] /\ hooks[t] \subseteq {"OnRequest", "OnResponse"}
      BY <1>0, <2>1 DEF Forwarded, TypeOK
    <3>2. hooks'[t] = hooks[t] \cup {"OnResponse"}
      BY <1>0, <2>1 DEF TypeOK
    <3>3. QED
      BY <1>0, <2>1, <3>1, <3>2 DEF Recorded, Unanswered
  <2>3. ASSUME \/ UNCHANGED resp
               \/ \E status \in Status : resp' = [resp EXCEPT ![t].edits = @ \cup {"plugin"}, ![t].status = status],
               Goto(t, "pauseResponse"), UNCHANGED sent
        PROVE  Kept
    <3>1. resp'[t] \in Response /\ \A u \in Tx \ {t} : resp'[u] = resp[u]
      <4>1. resp[t] \in Response
        BY <1>0, <2>1 DEF Responded, Holding
      <4>2. QED
        BY <1>13, <2>1, <2>3, <4>1 DEF Edit
    <3>2. OthersSame(t) /\ pc'[t] = "pauseResponse"
      BY <1>0, <2>1, <2>3, <3>1 DEF OthersSame, TypeOK, Goto
    <3>3. Forwarded(t)'
      BY <1>0, <2>1, <2>2, <3>2 DEF Forwarded, Asking
    <3>4. QED
      BY <2>1, <2>2, <2>3, <3>1, <3>2, <3>3, MoveKeeps
  <2>4. ASSUME Answer(t, Plain("error")), UNCHANGED resp PROVE Kept
    <3>1. OthersSame(t) /\ pc'[t] \in Over
      BY <1>0, <1>1, <2>1, <2>4, AnswerEffect DEF OthersSame, TypeOK, Origin
    <3>2. Forwarded(t)'
      BY <1>0, <2>1, <2>2, <3>1 DEF Forwarded, Asking
    <3>3. QED
      BY <1>0, <1>1, <2>1, <2>2, <2>4, <3>1, <3>2, AnswerEnds DEF Origin
  <2>5. QED
    BY <1>15, <2>3, <2>4 DEF runPluginResponse
<1>16. ASSUME OperatorResponse(t) PROVE Kept
  <2>1. pc[t] = "heldResponse" /\ UNCHANGED <<path, req, ctxOf, upstream, hooks, stored>>
    BY <1>16 DEF OperatorResponse, envVars, arrival
  <2>2. /\ hooks[t] = {"OnRequest", "OnResponse"} /\ resp[t] \in Response
        /\ stored[t] = None /\ sent[t] = << >> /\ verdict[t] = "none"
    BY <1>0, <2>1 DEF Responded, Recorded, Unanswered, Holding, Hooked
  <2>3. ASSUME Goto(t, "store"), UNCHANGED <<resp, verdict, sent>> PROVE Kept
    <3>1. OthersSame(t) /\ pc'[t] = "store"
      BY <1>0, <2>1, <2>3 DEF OthersSame, TypeOK, Goto
    <3>2. Forwarded(t)'
      BY <1>0, <2>1, <2>2, <2>3, <3>1 DEF Forwarded, Asking
    <3>3. QED
      BY <2>1, <2>2, <2>3, <3>1, <3>2, MoveKeeps
  <2>4. ASSUME NEW r \in Response, Answer(t, r), verdict' = [verdict EXCEPT ![t] = "operator"],
               UNCHANGED resp \/ resp' = [resp EXCEPT ![t] = r]
        PROVE  Kept
    <3>1. OthersSame(t) /\ pc'[t] \in Over /\ verdict'[t] = "operator"
      BY <1>0, <2>1, <2>4, AnswerEffect DEF OthersSame, TypeOK
    <3>2. Forwarded(t)'
      BY <1>0, <2>1, <2>2, <3>1 DEF Forwarded, Asking
    <3>3. QED
      BY <1>0, <2>1, <2>2, <2>4, <3>1, <3>2, AnswerEnds
  <2>5. QED
    BY <1>1, <1>16, <2>2, <2>3, <2>4, GivenIsResponse DEF OperatorResponse, Origin
<1>17. ASSUME storeAndObserve(t) PROVE Kept
  <2>1. /\ pc[t] = "store" /\ hooks[t] = {"OnRequest", "OnResponse"} /\ resp[t] \in Response
        /\ sent[t] = << >> /\ verdict[t] = "none"
    BY <1>0, <1>17 DEF storeAndObserve, Responded, Unanswered, Holding, Hooked
  <2>2. CASE Abort(t)
    BY <2>1, <2>2, AbortEnds
  <2>3. ASSUME NEW record \in {None, resp[t]}, stored' = [stored EXCEPT ![t] = record], Goto(t, "write"),
               UNCHANGED <<path, req, ctxOf, resp, verdict, upstream, hooks, sent>>
        PROVE  Kept
    <3>1. OthersSame(t) /\ pc'[t] = "write" /\ stored'[t] \in {None, resp'[t]}
      BY <1>0, <2>3 DEF OthersSame, TypeOK, Goto
    <3>2. Forwarded(t)'
      BY <1>0, <2>1, <2>3, <3>1 DEF Forwarded, Asking
    <3>3. Unanswered(t)' /\ Ended(t)' /\ Recorded(t)' /\ Responded(t)'
      BY <2>1, <2>3, <3>1 DEF Unanswered, Ended, Recorded, Responded
    <3>4. QED
      BY <3>1, <3>2, <3>3 DEF TxInv
  <2>4. QED
    BY <1>17, <2>2, <2>3 DEF storeAndObserve, envVars, arrival
<1>18. ASSUME writeProxyResponse(t) PROVE Kept
  <2>1. /\ pc[t] = "write" /\ Answer(t, resp[t])
        /\ UNCHANGED <<path, req, ctxOf, resp, verdict, upstream, hooks, stored>>
    BY <1>18 DEF writeProxyResponse, envVars, arrival
  <2>2. /\ hooks[t] = {"OnRequest", "OnResponse"} /\ resp[t] \in Response /\ sent[t] = << >>
        /\ stored[t] \in {None, resp[t]}
    BY <1>0, <2>1 DEF Responded, Recorded, Unanswered, Holding, Hooked
  <2>3. OthersSame(t) /\ pc'[t] \in Over
    BY <1>0, <2>1, <2>2, AnswerEffect DEF OthersSame
  <2>4. Forwarded(t)'
    BY <1>0, <2>1, <2>2, <2>3 DEF Forwarded, Asking
  <2>5. QED
    BY <1>0, <2>1, <2>2, <2>3, <2>4, AnswerEnds
<1>19. ASSUME PausePanics(t) PROVE Kept
  BY <1>19, AbortEnds DEF PausePanics
<1>20. ASSUME NEW cause, ReleaseRequest(t, cause) PROVE Kept
  <2>1. /\ OthersSame(t) /\ pc[t] = "heldRequest" /\ pc'[t] = "route"
        /\ UNCHANGED <<path, req, ctxOf, resp, verdict, upstream, hooks, stored, sent>>
    BY <1>0, <1>20 DEF ReleaseRequest, OthersSame, TypeOK, Goto, envVars, arrival
  <2>2. Forwarded(t)'
    BY <1>0, <2>1 DEF Forwarded, Asking
  <2>3. QED
    BY <2>1, <2>2, MoveKeeps DEF Holding, Hooked
<1>21. ASSUME NEW cause, ReleaseResponse(t, cause) PROVE Kept
  <2>1. /\ OthersSame(t) /\ pc[t] = "heldResponse" /\ pc'[t] = "store"
        /\ UNCHANGED <<path, req, ctxOf, resp, verdict, upstream, hooks, stored, sent>>
    BY <1>0, <1>21 DEF ReleaseResponse, OthersSame, TypeOK, Goto, envVars, arrival
  <2>2. Forwarded(t)'
    BY <1>0, <2>1 DEF Forwarded, Asking
  <2>3. resp[t] \in Response /\ hooks[t] = {"OnRequest", "OnResponse"}
    BY <1>0, <2>1 DEF Responded, Holding, Hooked
  <2>4. QED
    BY <2>1, <2>2, <2>3, MoveKeeps
<1>22. ASSUME ProxyStep(t) PROVE Kept
  BY <1>3, <1>4, <1>5, <1>6, <1>8, <1>9, <1>10, <1>11, <1>12, <1>14, <1>15, <1>17, <1>18, <1>22 DEF ProxyStep
<1>23. ASSUME OperatorStep(t) PROVE Kept
  BY <1>7, <1>16, <1>23 DEF OperatorStep
<1>24. ASSUME Expire(t) \/ Disconnect(t) PROVE Kept
  BY <1>20, <1>21, <1>24 DEF Expire, Disconnect
<1>25. QED
  BY <1>2, <1>19, <1>22, <1>23, <1>24 DEF handleHTTP, handleRequest

(* The invariant is inductive. *)
LEMMA PipelineStep == PipelineInv /\ [Next]_vars => PipelineInv'
<1> SUFFICES ASSUME PipelineInv, [Next]_vars PROVE \A u \in Tx : TxInv(u)'
  BY TypeStep DEF PipelineInv
<1>1. \A u \in Tx : TxInv(u)
  BY DEF PipelineInv
<1>2. ASSUME UNCHANGED <<path, pc, txVars>> PROVE \A u \in Tx : TxInv(u)'
  BY <1>1, <1>2, SameKeeps DEF txVars
<1>3. CASE \E t \in Tx : \/ handleHTTP(t) \/ handleRequest(t) \/ ProxyStep(t) \/ OperatorStep(t)
                         \/ Expire(t) \/ Disconnect(t) \/ PausePanics(t)
  BY <1>1, <1>3, TxStep, OthersKeep
<1>4. CASE ChangeRules \/ \E t \in Tx, what \in {"connection", "stream"} : ClientLeaves(t, what)
  BY <1>2, <1>4 DEF ChangeRules, ClientLeaves, arrival
<1>5. CASE UNCHANGED vars
  BY <1>2, <1>5 DEF vars, envVars, arrival
<1>6. QED
  BY <1>3, <1>4, <1>5 DEF Next

(* The invariant holds when no request has arrived. *)
LEMMA PipelineStarts == Init => PipelineInv
BY DEF Init, PipelineInv, TypeOK, Stage, TxInv, Unanswered, Ended, Recorded, Forwarded, Responded, Holding, Hooked, Asking, Over

(* The invariant of the pipeline. *)
LEMMA PipelineAlways == Spec => []PipelineInv
BY PipelineStarts, PipelineStep, PTL DEF Spec

-----------------------------------------------------------------------------
(***************************************************************************)
(* Type correctness of the pipeline.                                       *)
(***************************************************************************)
THEOREM PipelineTypeCorrect == Spec => []TypeOK
<1>1. PipelineInv => TypeOK
  BY DEF PipelineInv
<1>2. QED
  BY <1>1, PipelineAlways, PTL

(***************************************************************************)
(* A handler that returns has answered exactly once, and one that panics   *)
(* has written nothing but, perhaps, the upgrade before it (handleHTTP,    *)
(* processRequestPipeline, recoverProxyPanic).                             *)
(***************************************************************************)
THEOREM AlwaysAnsweredOnce == Spec => []AnsweredOnce
<1>1. PipelineInv => AnsweredOnce
  <2> SUFFICES ASSUME PipelineInv, NEW t \in Tx
               PROVE  /\ Len(sent[t]) <= 1
                      /\ pc[t] = "done" => Len(sent[t]) = 1
                      /\ sent[t] # <<>> => pc[t] = "done" \/ sent[t] = <<Plain("upgrade")>>
    BY DEF AnsweredOnce
  <2>1. Unanswered(t) /\ Ended(t)
    BY DEF PipelineInv, TxInv
  <2>2. CASE pc[t] = "done"
    <3>1. Len(sent[t]) = 1
      BY <2>1, <2>2 DEF Ended
    <3>2. QED
      BY <2>2, <3>1
  <2>3. CASE pc[t] # "done"
    <3>1. sent[t] = << >> \/ sent[t] = <<Plain("upgrade")>>
      BY <2>1, <2>3 DEF Unanswered, Ended, Over
    <3>2. Len(<< >>) = 0 /\ Len(<<Plain("upgrade")>>) = 1
      OBVIOUS
    <3>3. CASE sent[t] = << >>
      BY <2>3, <3>2, <3>3
    <3>4. CASE sent[t] = <<Plain("upgrade")>>
      BY <2>3, <3>2, <3>4
    <3>5. QED
      BY <3>1, <3>3, <3>4
  <2>4. QED
    BY <2>2, <2>3
<1>2. QED
  BY <1>1, PipelineAlways, PTL

(***************************************************************************)
(* What the history holds for a finished transaction is what its client    *)
(* was answered (storeAndObserve before writeProxyResponse), outside plain *)
(* tunnels and 1xx answers; a recorded answer is never sent only when the  *)
(* writer panicked on its status.                                          *)
(***************************************************************************)
THEOREM HistoryAlwaysTrue == Spec => []HistoryIsTrue
<1>1. PipelineInv => HistoryIsTrue
  BY DEF PipelineInv, TxInv, Recorded, HistoryIsTrue
<1>2. QED
  BY <1>1, PipelineAlways, PTL

(***************************************************************************)
(* What a plugin, the operator or a rule has answered in the request phase *)
(* never goes upstream, and what goes carries the edits that were decided  *)
(* (runPluginRequest, evaluateBreakpoint, forwardUpstream).                *)
(***************************************************************************)
THEOREM AlwaysForwardedAsDecided == Spec => []ForwardedAsDecided
<1>1. PipelineInv => ForwardedAsDecided
  BY DEF PipelineInv, TxInv, Forwarded, ForwardedAsDecided
<1>2. QED
  BY <1>1, PipelineAlways, PTL

(***************************************************************************)
(* No response from the upstream server or from a mapped file reaches a    *)
(* client past the OnResponse hooks (runPluginResponse).                   *)
(***************************************************************************)
THEOREM HooksAlwaysSee == Spec => []HooksSeeResponses
<1>1. PipelineInv => HooksSeeResponses
  BY DEF PipelineInv, TxInv, Responded, HooksSeeResponses
<1>2. QED
  BY <1>1, PipelineAlways, PTL
=============================================================================
