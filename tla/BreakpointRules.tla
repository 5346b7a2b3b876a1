--------------------------- MODULE BreakpointRules ---------------------------
(***************************************************************************)
(* The rules of the breakpoint manager (internal/breakpoints/manager.go):  *)
(* the three maps under Manager.mu, and evaluate, which takes a snapshot   *)
(* of them under the read lock and lets a goroutine look for a match while *)
(* its caller waits for the result or for 100 ms, whichever comes first.   *)
(* The goroutine goes on after its caller has left.  It visits the rules   *)
(* in the order in which Go iterates over a map, which is any order, and   *)
(* holds a slot of regexEvalSem during every regular expression match.     *)
(*                                                                         *)
(* A pattern is the set of texts it matches, Bad one that is empty, too    *)
(* long or no regular expression.                                          *)
(***************************************************************************)
EXTENDS Naturals, FiniteSets

CONSTANTS
    RuleId,      \* identifiers of rules
    Rule,        \* the rules clients set
    FirstRules,  \* FirstRules[id]: the rule with that ID at the start, or None
    Eval,        \* calls of evaluate
    message,     \* message[e]: the request or response e is about
    Responses,   \* the calls of EvaluateResponse, the others are EvaluateRequest
    MaxRegex,    \* capacity of regexEvalSem (32 in the code)
    KnownMethod, \* validHTTPMethods
    Bad,         \* a pattern AddRule refuses
    NoHeader,    \* no header criterion, or no such header
    None

NoMatch == "no match"

ASSUME EvalAssumption == IsFiniteSet(Eval) /\ Responses \subseteq Eval /\ MaxRegex \in Nat \ {0}
ASSUME RuleAssumption ==
    /\ FirstRules \in [RuleId -> Rule \cup {None}]
    /\ None \notin RuleId /\ None \notin Rule /\ None # NoMatch
    /\ NoMatch \notin RuleId

VARIABLES
    rules,    \* rules[id]: Manager.rules
    bodyRe,   \* bodyRe[id]: Manager.bodyRe, None when the rule has no body pattern
    snap,     \* snap[e]: the entries e has copied
    left,     \* left[e]: those the goroutine has not visited
    cur,      \* cur[e]: the one it is at
    gpc,      \* gpc[e]: where the goroutine is
    verdict,  \* verdict[e]: what it has sent on done, None before
    regexSem, \* slots of regexEvalSem in use
    expired,  \* the calls whose 100 ms are over
    answer    \* answer[e]: what the call has returned, None before

evalVars == <<snap, left, cur, gpc, verdict, regexSem, expired, answer>>
ruleVars == <<rules, bodyRe>>

Running == {"idle", "loop", "want", "url", "wantBody", "body", "ended"}

NoRules == [id \in RuleId |-> None]
BodyOf(r) == IF r = None THEN None ELSE r.body

Each(v) == [e \in Eval |-> v]

RulesInit ==
    /\ rules = FirstRules
    /\ bodyRe = [id \in RuleId |-> BodyOf(FirstRules[id])]
    /\ snap = Each({}) /\ left = Each({}) /\ cur = Each(None)
    /\ gpc = Each("idle")
    /\ verdict = Each(None)
    /\ regexSem = 0
    /\ expired = {}
    /\ answer = Each(None)

(* The end of the process: the maps are gone, and the calls with their requests. *)
RulesLost ==
    /\ rules' = NoRules /\ bodyRe' = NoRules
    /\ snap' = Each({}) /\ left' = Each({}) /\ cur' = Each(None)
    /\ gpc' = Each("idle")
    /\ verdict' = Each(None)
    /\ regexSem' = 0
    /\ expired' = {}
    /\ answer' = Each(None)

-----------------------------------------------------------------------------
(* The maps. *)

ValidRule(r) ==
    /\ r.urls # Bad /\ r.body # Bad /\ r.header # Bad
    /\ r.methods \subseteq KnownMethod
    /\ r.codes \subseteq 100..599

(* AddRule, for a rule that ValidRule accepts. *)
AddRule(id, r) ==
    /\ rules' = [rules EXCEPT ![id] = r]
    /\ bodyRe' = [bodyRe EXCEPT ![id] = r.body]

RemoveRule(id) ==
    /\ rules' = [rules EXCEPT ![id] = None]
    /\ bodyRe' = [bodyRe EXCEPT ![id] = None]

ListRules == {[id |-> id, rule |-> rules[id]] : id \in {i \in RuleId : rules[i] # None}}

-----------------------------------------------------------------------------
(* evaluate. *)

(* The context: it is cancelled by its timer, and when the call returns. *)
CtxDone(e) == e \in expired \/ answer[e] # None

Snapshot(e) ==
    /\ gpc[e] = "idle"
    /\ snap' = [snap EXCEPT ![e] = {[id |-> x.id, rule |-> x.rule, body |-> bodyRe[x.id]] : x \in ListRules}]
    /\ left' = [left EXCEPT ![e] = snap'[e]]
    /\ gpc' = [gpc EXCEPT ![e] = "loop"]
    /\ UNCHANGED <<cur, verdict, regexSem, expired, answer>>

(* Mutant: rules that are switched off are looked at. *)
SkipsNoDisabled(e, r) ==
    \/ (r.codes # {}) # (e \in Responses)
    \/ r.methods # {} /\ message[e].method \notin r.methods

(* The rules the goroutine passes over without a regular expression. *)
Skips(e, r) ==
    \/ ~r.enabled
    \/ (r.codes # {}) # (e \in Responses)
    \/ r.methods # {} /\ message[e].method \notin r.methods

Visit(e) ==
    /\ gpc[e] = "loop"
    /\ \E x \in left[e] :
          /\ left' = [left EXCEPT ![e] = @ \ {x}]
          /\ IF Skips(e, x.rule) THEN UNCHANGED <<cur, gpc>>
             ELSE /\ cur' = [cur EXCEPT ![e] = x]
                  /\ gpc' = [gpc EXCEPT ![e] = "want"]
    /\ UNCHANGED <<snap, verdict, regexSem, expired, answer>>

(* The send on done, which has room for one value: the goroutine ends. *)
SendDone(e, result) ==
    /\ verdict' = [verdict EXCEPT ![e] = result]
    /\ gpc' = [gpc EXCEPT ![e] = "ended"]

NothingFound(e) ==
    /\ gpc[e] = "loop" /\ left[e] = {}
    /\ SendDone(e, NoMatch)
    /\ UNCHANGED <<snap, left, cur, regexSem, expired, answer>>

(* regexEvalSem <- struct{}{}, for the URL and, in matchesBody, for the body. *)
TakeSlot(e) ==
    /\ gpc[e] \in {"want", "wantBody"} /\ regexSem < MaxRegex
    /\ regexSem' = regexSem + 1
    /\ gpc' = [gpc EXCEPT ![e] = IF @ = "want" THEN "url" ELSE "body"]
    /\ UNCHANGED <<snap, left, cur, verdict, expired, answer>>

(* The other arm of the two selects. *)
NoSlotInTime(e) ==
    /\ CtxDone(e)
    /\ \/ gpc[e] = "want" /\ SendDone(e, NoMatch)
       \/ gpc[e] = "wantBody" /\ gpc' = [gpc EXCEPT ![e] = "loop"] /\ UNCHANGED verdict
    /\ UNCHANGED <<snap, left, cur, regexSem, expired, answer>>

matchesHeader(r, m) ==
    \/ r.header = NoHeader
    \/ m.header # NoHeader /\ r.header \in {"present", m.header}

matchesStatusCode(r, m) == r.codes = {} \/ m.status \in r.codes

(* Mutant: the slot is given back only when the URL matches. *)
MatchURLKeepsSlot(e) ==
    /\ gpc[e] = "url"
    /\ LET m == message[e]
           r == cur[e].rule
           goesOn == m.url \in r.urls /\ matchesHeader(r, m) /\ (e \in Responses => matchesStatusCode(r, m))
       IN  CASE ~goesOn -> gpc' = [gpc EXCEPT ![e] = "loop"] /\ UNCHANGED <<verdict, regexSem>>
             [] goesOn /\ cur[e].body # None -> gpc' = [gpc EXCEPT ![e] = "wantBody"] /\ UNCHANGED verdict /\ regexSem' = regexSem - 1
             [] goesOn /\ cur[e].body = None -> SendDone(e, cur[e].id) /\ regexSem' = regexSem - 1
    /\ UNCHANGED <<snap, left, cur, expired, answer>>

MatchURL(e) ==
    /\ gpc[e] = "url"
    /\ regexSem' = regexSem - 1
    /\ LET m == message[e]
           r == cur[e].rule
           goesOn == /\ m.url \in r.urls /\ matchesHeader(r, m)
                     /\ e \in Responses => matchesStatusCode(r, m)
       IN  CASE ~goesOn -> gpc' = [gpc EXCEPT ![e] = "loop"] /\ UNCHANGED verdict
             [] goesOn /\ cur[e].body # None -> gpc' = [gpc EXCEPT ![e] = "wantBody"] /\ UNCHANGED verdict
             [] goesOn /\ cur[e].body = None -> SendDone(e, cur[e].id)
    /\ UNCHANGED <<snap, left, cur, expired, answer>>

MatchBody(e) ==
    /\ gpc[e] = "body"
    /\ regexSem' = regexSem - 1
    /\ IF message[e].body \in cur[e].body THEN SendDone(e, cur[e].id)
       ELSE gpc' = [gpc EXCEPT ![e] = "loop"] /\ UNCHANGED verdict
    /\ UNCHANGED <<snap, left, cur, expired, answer>>

Expire(e) ==
    /\ gpc[e] # "idle" /\ ~CtxDone(e)
    /\ expired' = expired \cup {e}
    /\ UNCHANGED <<snap, left, cur, gpc, verdict, regexSem, answer>>

(* The select of the caller. *)
Return(e) ==
    /\ gpc[e] # "idle" /\ answer[e] = None
    /\ \/ verdict[e] # None /\ answer' = [answer EXCEPT ![e] = verdict[e]]
       \/ e \in expired /\ answer' = [answer EXCEPT ![e] = NoMatch]
    /\ UNCHANGED <<snap, left, cur, gpc, verdict, regexSem, expired>>

Goroutine(e) == Visit(e) \/ NothingFound(e) \/ TakeSlot(e) \/ NoSlotInTime(e) \/ MatchURL(e) \/ MatchBody(e)

Evaluate(e) == Snapshot(e) \/ Goroutine(e) \/ Expire(e) \/ Return(e)

(* What may become of the maps and of the calls: the manager's operations, *)
(* at any moment and for any caller, and the end of the process.           *)
RulesNext ==
    \/ \E id \in RuleId, r \in Rule : ValidRule(r) /\ AddRule(id, r) /\ UNCHANGED evalVars
    \/ \E id \in RuleId : RemoveRule(id) /\ UNCHANGED evalVars
    \/ \E e \in Eval : Evaluate(e) /\ UNCHANGED ruleVars
    \/ RulesLost

(* The server keeps to the manager's operations: no handler writes the     *)
(* maps otherwise, changes a rule without its compiled body pattern, or    *)
(* adds a rule that AddRule refuses (server.go, SetBreakpoint and          *)
(* DeleteBreakpoint), and no step touches an evaluation that is under way. *)
RulesSpec == RulesInit /\ [][RulesNext]_<<ruleVars, evalVars>>

EvalFairness == \A e \in Eval : WF_evalVars(Goroutine(e)) /\ WF_evalVars(Return(e))

-----------------------------------------------------------------------------
RulesTypeOK ==
    /\ rules \in [RuleId -> Rule \cup {None}]
    /\ \A id \in RuleId : bodyRe[id] # None => rules[id] # None
    /\ gpc \in [Eval -> Running]
    /\ regexSem \in 0..MaxRegex
    /\ expired \subseteq Eval
    /\ answer \in [Eval -> RuleId \cup {NoMatch, None}]

(* What a rule asks for, read off the rule itself: codes make it a rule for responses. *)
Wants(r, m, isResponse) ==
    /\ r.enabled
    /\ r.methods = {} \/ m.method \in r.methods
    /\ m.url \in r.urls
    /\ r.header = NoHeader \/ (m.header # NoHeader /\ r.header \in {"present", m.header})
    /\ IF isResponse THEN m.status \in r.codes ELSE r.codes = {}
    /\ r.body = None \/ m.body \in r.body

(* A request or response is held for a rule that was enabled and asked for *)
(* it when the evaluation began, and passes unheld only when no rule asked *)
(* for it or the 100 ms were over (evaluate, manager.go:141-237): whatever *)
(* AddRule and RemoveRule do meanwhile, in whatever order the map is read. *)
MatchIsTrue ==
    \A e \in Eval : answer[e] # None =>
        LET asks == {x \in snap[e] : Wants(x.rule, message[e], e \in Responses)}
        IN  IF answer[e] = NoMatch THEN e \in expired \/ asks = {}
            ELSE answer[e] \in {x.id : x \in asks}
=============================================================================
