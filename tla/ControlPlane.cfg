\* Two evaluations, three clients of which one has no token, rules, templates,
\* a rewrite rule and a history of three transactions; one call a second where there is a limit.
SPECIFICATION ControlSpec
CONSTANTS
  c1 = c1 c2 = c2 c3 = c3 b1 = b1 b2 = b2 b3 = b3 b4 = b4 t1 = t1 t2 = t2 t3 = t3 login = login nothing = nothing w1 = w1 e1 = e1 e2 = e2 u1 = u1 u2 = u2 GET = GET POST = POST
  None = None Bad = Bad NoHeader = NoHeader
  RuleId = {b1, b2, b3, b4}
  Rule <- AllRules
  FirstRules <- Rules0
  Eval = {e1, e2}
  message <- Messages
  Responses = {e2}
  MaxRegex = 1
  KnownMethod = {GET, POST}
  Client = {c1, c2, c3}
  Scenario <- AllScenarios
  Authorized = {c1, c2}
  AllowedTools = {"replay"}
  FirstTable <- Tables0
  FirstHistory = 3
INVARIANTS MatchIsTrue  SearchFindsStayer
PROPERTIES RulesSpec CommandEnds EvaluationEnds
CHECK_DEADLOCK FALSE
