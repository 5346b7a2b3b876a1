----------------------------- MODULE ControlPlane -----------------------------
(***************************************************************************)
(* The clients of the control side: the commands of the command line       *)
(* client (cmd/apix-cli/main.go), and other programs that make one call    *)
(* over gRPC (the editor extension) or over MCP.                           *)
(*                                                                         *)
(* A command fails on its arguments, or makes one call after another, acts *)
(* on the answers, and exits with the code scripts rely on.  Each call has *)
(* a deadline; a client that gives up leaves its handler running.  What a  *)
(* command prints is left out.                                             *)
(***************************************************************************)
EXTENDS ControlServer

VARIABLES
    step,   \* step[c]: calls the command of c has made, counted to MaxStep
    exit,   \* exit[c]: its exit code, None while it runs
    file,   \* file[c]: the file it writes: "old" (as it was), "empty", "partial", "new"
    gaveUp  \* the clients whose deadline has passed before the answer

clientVars == <<step, exit, file, gaveUp>>
controlVars == <<ruleVars, evalVars, callVars, storeVars, otherVars, held, traceVars, clientVars>>
serverSide == <<ruleVars, evalVars, draft, events, storeVars, otherVars, held, traceVars>>

(* No command but history get makes more calls, and that one does not count them. *)
MaxStep == 2

cmd(c) == scenario.commands[c]

(* The flags of breakpoints add know a pattern, methods and a label. *)
Plain(r) == [r EXCEPT !.header = NoHeader, !.body = None, !.codes = {}]

(* Rule has the rules clients set, with and without their other criteria, on and off. *)
Settable(r) == ValidRule(r) => r \in Rule
ASSUME RuleSetAssumption == \A r \in Rule, b \in BOOLEAN : Settable([Plain(r) EXCEPT !.enabled = b])

(* A rule is set and deleted under an ID of RuleId. *)
CallAllowed(k) ==
    /\ k.rpc = "SetBreakpoint" => k.id \in RuleId \cup {None} /\ Settable(k.rule)
    /\ k.rpc = "DeleteBreakpoint" => k.id \in RuleId

(* The commands that have an output file. *)
FileCommands == {"export ndjson", "export har", "learn", "doctor bundle", "contract init", "contract convert"}

(* What the arguments of a command may be, once its flags are parsed; a page size of 0 *)
(* stands for the negative ones too, which ListTransactions treats alike.  A file may  *)
(* be refused when it is opened or fail when it is written.                            *)
CommandAllowed(k) ==
    /\ k.file \in {"none", "ok", "refused", "failing"} /\ (k.file # "none" => k.name \in FileCommands)
    /\ k.stdin => k.name \in {"send", "replay"}
    /\ k.name = "history get" => k.id \in Nat /\ k.size \in Nat
    /\ k.name = "breakpoints add" => Settable(Plain(k.rule))
    /\ k.name = "breakpoints delete" => k.id \in RuleId
    /\ k.name = "call" => CallAllowed(k.call)

ASSUME CommandAssumption ==
    \A s \in Scenario : \A c \in Client : s.commands[c] # None => CommandAllowed(s.commands[c])

ControlInit ==
    /\ ServerInit
    /\ step = [c \in Client |-> 0]
    /\ exit = [c \in Client |-> None]
    /\ file = [c \in Client |-> "old"]
    /\ gaveUp = {}

-----------------------------------------------------------------------------
(* Calls and exits. *)

Call(rpc) ==
    [rpc |-> rpc, via |-> "grpc", method |-> "POST", bad |-> FALSE, id |-> None,
     rule |-> None, row |-> None, match |-> None, limit |-> 0, offset |-> 0]

(* clientConn connects on demand: without an engine the call is Unavailable. *)
Send(c, k) ==
    /\ step' = [step EXCEPT ![c] = Min2(@ + 1, MaxStep)]
    /\ call' = [call EXCEPT ![c] = k]
    /\ IF running
       THEN /\ spc' = [spc EXCEPT ![c] = "sent"]
            /\ reply' = [reply EXCEPT ![c] = None]
       ELSE Answer(c, "Unavailable", None)
    /\ UNCHANGED <<exit, gaveUp>>

(* The process of c ends: its connection is closed, and with it a stream. *)
Exit(c, code) ==
    /\ exit' = [exit EXCEPT ![c] = code]
    /\ spc' = [spc EXCEPT ![c] = IF @ = "open" THEN "answered" ELSE @]
    /\ UNCHANGED <<call, reply, step, gaveUp>>

(* unaryContext, and streamContext when --timeout is given. *)
GiveUp(c) ==
    /\ exit[c] = None /\ c \notin gaveUp
    /\ spc[c] \in InFlight /\ (spc[c] = "open" => Fault("timeout"))
    /\ gaveUp' = gaveUp \cup {c}
    /\ UNCHANGED <<callVars, ruleVars, evalVars, storeVars, otherVars, held, traceVars, step, exit, file>>

(* The n-th call of c is answered. *)
Answered(c, n) == step[c] = n /\ (spc[c] = "answered" \/ c \in gaveUp)
Code(c) == IF c \in gaveUp THEN "DeadlineExceeded" ELSE reply[c].code

(* What has arrived of a stream. *)
Data(c) ==
    CASE c \notin gaveUp -> reply[c].data
      [] c \in gaveUp /\ spc[c] = "stream" -> draft[c]
      [] OTHER -> None

(* Mutant: every code that has none of its own is taken for a bad argument. *)
exitCodeForErrorDefaultsTo2(code) ==
    CASE code = "OK" -> 0
      [] code = "NotFound" -> 3
      [] code = "Unauthenticated" -> 4
      [] code = "PermissionDenied" -> 5
      [] code = "Unavailable" -> 6
      [] code = "DeadlineExceeded" -> 7
      [] OTHER -> 2

exitCodeForError(code) ==
    CASE code = "OK" -> 0
      [] code \in {"InvalidArgument", "error"} -> 2
      [] code = "NotFound" -> 3
      [] code = "Unauthenticated" -> 4
      [] code = "PermissionDenied" -> 5
      [] code = "Unavailable" -> 6
      [] code = "DeadlineExceeded" -> 7
      [] OTHER -> 1

Fail(c) == Code(c) # "OK" /\ Exit(c, exitCodeForError(Code(c)))

(* A command that makes one call and is done. *)
OneCall(c, k) ==
    /\ \/ step[c] = 0 /\ Send(c, k)
       \/ Answered(c, 1) /\ Exit(c, exitCodeForError(Code(c)))
    /\ UNCHANGED file

Named(c, name) == cmd(c).name = name
Local(c, code) == Exit(c, code) /\ UNCHANGED file

(* A command writes its output file, if it has one, and ends; with onError when the write fails. *)
WriteFile(c, onError) ==
    \/ cmd(c).file = "refused" /\ Exit(c, 2) /\ UNCHANGED file
    \/ cmd(c).file = "failing" /\ Exit(c, onError) /\ file' = [file EXCEPT ![c] = "partial"]
    \/ cmd(c).file = "ok" /\ Exit(c, 0) /\ file' = [file EXCEPT ![c] = "new"]
    \/ cmd(c).file = "none" /\ Exit(c, 0) /\ UNCHANGED file

-----------------------------------------------------------------------------
(* Commands. *)

cmdStatus(c) == Named(c, "status") /\ OneCall(c, Call("GetStatus"))
cmdVersion(c) == Named(c, "version") /\ OneCall(c, Call("GetVersion"))
cmdPlugins(c) == Named(c, "plugins list") /\ OneCall(c, Call("ListPlugins"))

HistoryQuery(c, limit, offset) == [Call("GetHistory") EXCEPT !.match = cmd(c).match, !.limit = limit, !.offset = offset]
cmdHistoryList(c) == Named(c, "history list") /\ OneCall(c, HistoryQuery(c, cmd(c).size, cmd(c).offset))
cmdFilter(c) == Named(c, "filter") /\ OneCall(c, HistoryQuery(c, cmd(c).size, 0))
cmdHistoryClear(c) == Named(c, "history clear") /\ OneCall(c, Call("ClearHistory"))

PageAt(c, offset) == [Call("GetHistory") EXCEPT !.limit = cmd(c).size, !.offset = offset]

(* Mutant: a page that is empty does not end the search. *)
cmdHistoryGetForever(c) ==
    /\ Named(c, "history get")
    /\ \/ step[c] = 0 /\ Send(c, PageAt(c, 0))
       \/ /\ step[c] > 0 /\ Answered(c, step[c]) /\ Code(c) = "OK"
          /\ \/ (\E i \in DOMAIN Data(c) : Data(c)[i] = cmd(c).id) /\ Exit(c, 0)
             \/ /\ \A i \in DOMAIN Data(c) : Data(c)[i] # cmd(c).id
                /\ Send(c, PageAt(c, call[c].offset + Len(Data(c))))
       \/ step[c] > 0 /\ Answered(c, step[c]) /\ Fail(c)
    /\ UNCHANGED file

(* Page after page until the transaction is there or a page is empty. *)
cmdHistoryGet(c) ==
    /\ Named(c, "history get")
    /\ \/ step[c] = 0 /\ Send(c, PageAt(c, 0))
       \/ /\ step[c] > 0 /\ Answered(c, step[c])
          /\ \/ Fail(c)
             \/ /\ Code(c) = "OK"
                /\ LET items == Data(c)
                   IN  CASE items = <<>> -> Exit(c, exitCodeForError("NotFound"))
                         [] \E i \in DOMAIN items : items[i] = cmd(c).id -> Exit(c, 0)
                         [] OTHER -> Send(c, PageAt(c, call[c].offset + Len(items)))
    /\ UNCHANGED file

(* watch and paused watch: until the stream ends or --count events have come. *)
Watch(c, rpc) ==
    /\ \/ step[c] = 0 /\ Send(c, [Call(rpc) EXCEPT !.match = cmd(c).match])
       \/ Answered(c, 1) /\ Fail(c)
       \/ step[c] = 1 /\ cmd(c).size > 0 /\ events[c] >= cmd(c).size /\ Exit(c, 0)
    /\ UNCHANGED file
cmdWatch(c) == Named(c, "watch") /\ Watch(c, "CaptureTraffic")
cmdPausedWatch(c) == Named(c, "paused watch") /\ Watch(c, "WatchPausedRequests")

(* The file is created, and so emptied, before the call; writeString drops the error of the HAR. *)
cmdExport(c) ==
    /\ Named(c, "export ndjson") \/ Named(c, "export har")
    /\ \/ step[c] = 0 /\ cmd(c).file = "refused" /\ Exit(c, 2) /\ UNCHANGED file
       \/ /\ step[c] = 0 /\ cmd(c).file # "refused"
          /\ Send(c, IF Named(c, "export har") THEN Call("ExportHAR") ELSE HistoryQuery(c, cmd(c).size, 0))
          /\ file' = [file EXCEPT ![c] = IF cmd(c).file = "none" THEN @ ELSE "empty"]
       \/ Answered(c, 1) /\ Code(c) = "OK" /\ WriteFile(c, IF Named(c, "export har") THEN 0 ELSE 2)
       \/ /\ Answered(c, 1) /\ Fail(c)
          /\ file' = [file EXCEPT ![c] = IF @ = "empty" /\ Data(c) \notin {None, <<>>} THEN "partial" ELSE @]

cmdLearn(c) ==
    /\ Named(c, "learn")
    /\ \/ step[c] = 0 /\ Send(c, HistoryQuery(c, cmd(c).size, 0)) /\ UNCHANGED file
       \/ Answered(c, 1) /\ Fail(c) /\ UNCHANGED file
       \/ Answered(c, 1) /\ Code(c) = "OK" /\ WriteFile(c, 2)

(* contract init refuses a file that exists; the others refuse a document that is not *)
(* valid, except that validate with --output json reports it and succeeds.            *)
cmdContract(c) ==
    \/ Named(c, "contract init") /\ (IF cmd(c).bad THEN Local(c, 2) ELSE WriteFile(c, 2))
    \/ Named(c, "contract validate") /\ Local(c, IF cmd(c).bad /\ ~cmd(c).json THEN 2 ELSE 0)
    \/ Named(c, "contract convert") /\ (IF cmd(c).bad THEN Local(c, 2) ELSE WriteFile(c, 2))

cmdBreakpoints(c) ==
    \/ Named(c, "breakpoints list") /\ OneCall(c, Call("ListBreakpoints"))
    \/ Named(c, "breakpoints delete") /\ OneCall(c, [Call("DeleteBreakpoint") EXCEPT !.id = cmd(c).id])

cmdBreakpointAdd(c) ==
    Named(c, "breakpoints add") /\ OneCall(c, [Call("SetBreakpoint") EXCEPT !.rule = Plain(cmd(c).rule)])

(* The list, then the rule again with another Enabled, and without the other criteria. *)
cmdBreakpointToggle(c) ==
    /\ Named(c, "breakpoints enable") \/ Named(c, "breakpoints disable")
    /\ \/ step[c] = 0 /\ Send(c, Call("ListBreakpoints"))
       \/ Answered(c, 1) /\ Fail(c)
       \/ /\ Answered(c, 1) /\ Code(c) = "OK"
          /\ LET hits == {x \in Data(c) : x.id = cmd(c).id}
             IN  \/ hits = {} /\ Exit(c, exitCodeForError("NotFound"))
                 \/ \E x \in hits :
                       Send(c, [Call("SetBreakpoint") EXCEPT !.id = x.id,
                                  !.rule = [Plain(x.rule) EXCEPT !.enabled = Named(c, "breakpoints enable")]])
       \/ Answered(c, 2) /\ Exit(c, exitCodeForError(Code(c)))
    /\ UNCHANGED file

Resume(c) == OneCall(c, [Call("ResumeRequest") EXCEPT !.id = cmd(c).id])
cmdPausedForward(c) == Named(c, "paused forward") /\ Resume(c)
cmdPausedDrop(c) == Named(c, "paused drop") /\ Resume(c)
cmdPausedRespond(c) == Named(c, "paused respond") /\ Resume(c)

(* Without --body, and unless it is a terminal, the standard input is read to its end first. *)
WaitsForInput(c) == cmd(c).stdin /\ step[c] = 0
BodyCall(c) ==
    IF Named(c, "send") THEN [Call("ComposeRequest") EXCEPT !.bad = cmd(c).bad]
    ELSE [Call("ReplayRequest") EXCEPT !.id = cmd(c).id]
cmdSend(c) == Named(c, "send") /\ ~WaitsForInput(c) /\ OneCall(c, BodyCall(c))
cmdReplay(c) == Named(c, "replay") /\ ~WaitsForInput(c) /\ OneCall(c, BodyCall(c))

(* readBodyFromStdin returns: whoever writes to the input has closed it, or reading fails. *)
InputEnds(c) ==
    /\ cmd(c) # None /\ exit[c] = None
    /\ ~cmd(c).usage /\ WaitsForInput(c)
    /\ Send(c, BodyCall(c)) \/ (Fault("stdin") /\ Exit(c, exitCodeForError("error")))
    /\ UNCHANGED <<file, serverSide>>

cmdTemplates(c) ==
    \/ Named(c, "templates save") /\ OneCall(c, [Call("SaveRequestTemplate") EXCEPT !.id = cmd(c).id, !.row = cmd(c).row])
    \/ Named(c, "templates list") /\ OneCall(c, Call("ListRequestTemplates"))
    \/ Named(c, "templates delete") /\ OneCall(c, [Call("DeleteRequestTemplate") EXCEPT !.id = cmd(c).id])

(* An ID wins over a name, a name must be unique. *)
lookupRequestTemplate(list, identifier) ==
    LET byId == {x \in list : x.id = identifier}
    IN  IF byId # {} THEN byId ELSE {x \in list : x.row.name = identifier}

cmdTemplatesExecute(c) ==
    /\ Named(c, "templates execute")
    /\ \/ step[c] = 0 /\ Send(c, Call("ListRequestTemplates"))
       \/ Answered(c, 1) /\ Fail(c)
       \/ /\ Answered(c, 1) /\ Code(c) = "OK"
          /\ LET hits == lookupRequestTemplate(Data(c), cmd(c).id)
             IN  CASE hits = {} -> Exit(c, exitCodeForError("NotFound"))
                   [] Cardinality(hits) > 1 -> Exit(c, exitCodeForError("error"))
                   [] OTHER -> Send(c, Call("ComposeRequest"))
       \/ Answered(c, 2) /\ Exit(c, exitCodeForError(Code(c)))
    /\ UNCHANGED file

cmdCert(c) == Named(c, "cert status") /\ Local(c, 0)
runConfigCheck(c) == Named(c, "config-check") /\ Local(c, IF cmd(c).bad THEN 1 ELSE 0)
cmdConfig(c) ==
    \/ Named(c, "config show") /\ Local(c, 0)
    \/ Named(c, "config reload") /\ OneCall(c, [Call("ReloadConfig") EXCEPT !.bad = cmd(c).bad])
cmdCompletion(c) == Named(c, "completion") /\ Local(c, IF cmd(c).bad THEN 2 ELSE 0)

(* The status is only shown: setup succeeds without an engine, unless the profile is unknown. *)
cmdSetup(c) ==
    /\ Named(c, "setup")
    /\ \/ step[c] = 0 /\ Send(c, Call("GetStatus"))
       \/ Answered(c, 1) /\ Exit(c, IF cmd(c).bad THEN 2 ELSE 0)
    /\ UNCHANGED file

(* Whatever GetStatus fails on, the engine is called unreachable. *)
cmdDoctor(c) ==
    /\ Named(c, "doctor")
    /\ \/ step[c] = 0 /\ Send(c, Call("GetStatus"))
       \/ /\ Answered(c, 1)
          /\ Exit(c, CASE Code(c) # "OK" -> exitCodeForError("Unavailable")
                       [] Code(c) = "OK" /\ cmd(c).bad -> exitCodeForError("error")
                       [] OTHER -> 0)
    /\ UNCHANGED file

cmdDoctorBundle(c) ==
    /\ Named(c, "doctor bundle")
    /\ \/ step[c] = 0 /\ Send(c, Call("GetStatus")) /\ UNCHANGED file
       \/ Answered(c, 1) /\ WriteFile(c, 2)

(* The editor extension and MCP clients: external programs that make the call cmd(c).call. *)
OtherClient(c) == Named(c, "call") /\ OneCall(c, cmd(c).call)

(* Flags that do not parse, missing or surplus arguments, an output mode a stream refuses. *)
BadArguments(c) == cmd(c).usage /\ Local(c, 2)

(* runWithStdin: the command is chosen by its name. *)
Command(c) ==
    /\ cmd(c) # None /\ exit[c] = None
    /\ \/ BadArguments(c)
       \/ /\ ~cmd(c).usage
          /\ \/ cmdStatus(c) \/ cmdVersion(c) \/ cmdPlugins(c)
             \/ cmdHistoryList(c) \/ cmdHistoryGet(c) \/ cmdHistoryClear(c)
             \/ cmdWatch(c) \/ cmdFilter(c) \/ cmdExport(c) \/ cmdLearn(c) \/ cmdContract(c)
             \/ cmdBreakpoints(c) \/ cmdBreakpointAdd(c) \/ cmdBreakpointToggle(c)
             \/ cmdPausedWatch(c) \/ cmdPausedForward(c) \/ cmdPausedDrop(c) \/ cmdPausedRespond(c)
             \/ cmdSend(c) \/ cmdTemplates(c) \/ cmdTemplatesExecute(c) \/ cmdReplay(c)
             \/ cmdCert(c) \/ runConfigCheck(c) \/ cmdConfig(c) \/ cmdCompletion(c)
             \/ cmdSetup(c) \/ cmdDoctor(c) \/ cmdDoctorBundle(c) \/ OtherClient(c)
    /\ UNCHANGED serverSide

-----------------------------------------------------------------------------
ControlNext ==
    \/ \E c \in Client : Command(c) \/ InputEnds(c) \/ GiveUp(c) \/ (Serve(c) /\ UNCHANGED clientVars)
    \/ Environment /\ UNCHANGED clientVars

(* The client runs and its timers fire; evaluations run on the engine's scheduler.  Nobody *)
(* has to end the standard input.                                                          *)
ControlSpec ==
    /\ ControlInit /\ [][ControlNext]_controlVars
    /\ \A c \in Client : WF_controlVars(Command(c) \/ GiveUp(c))
    /\ EvalFairness

-----------------------------------------------------------------------------
ControlTypeOK ==
    /\ RulesTypeOK
    /\ spc \in [Client -> InFlight \cup {"none", "answered"}]
    /\ tokens \in [{"unary", "stream"} -> 0..scenario.rate]
    /\ exit \in [Client -> 0..7 \cup {None}]
    /\ file \in [Client -> {"old", "empty", "partial", "new"}]
    /\ \A e \in Eval : held[e] \in {"none", "held", "resumed", "gone"}

Writes ==
    {"breakpoints add", "breakpoints delete", "breakpoints enable", "breakpoints disable", "history clear",
     "paused forward", "paused drop", "paused respond", "send", "replay", "templates save", "templates delete",
     "templates execute"}
Deletions == {"history clear", "templates delete"}

(* Scripts act on exit codes (docs/REFERENCE/cli-contract-v1.md:119-131):   *)
(* a command that exits with invalid argument, not found or                *)
(* unauthenticated has changed nothing; one that exits with success has    *)
(* made its change, once, unless there was nothing left to delete, and the *)
(* audit log names it if it is enabled and can be written; the output file *)
(* is then complete, unless the write of a HAR file failed, which export   *)
(* har does not notice.  It takes the interceptors, every handler and      *)
(* every command, and calls of others between the steps of a handler.      *)
ExitIsTrue ==
    \A c \in Client : exit[c] # None /\ cmd(c) # None =>
        /\ exit[c] \in {2, 3, 4} => effects[c] = 0
        /\ exit[c] = 0 /\ cmd(c).name \in Writes =>
              /\ effects[c] = 1 \/ (effects[c] = 0 /\ cmd(c).name \in Deletions)
              /\ scenario.auditing = "on" => c \in audit
        /\ exit[c] = 0 /\ cmd(c).file # "none" =>
              file[c] = "new" \/ (cmd(c).name = "export har" /\ cmd(c).file = "failing")
        /\ exit[c] # 0 /\ cmd(c).name = "learn" /\ cmd(c).file # "failing" => file[c] = "old"

(* history get pages through a history that grows at its head and shrinks  *)
(* at its tail meanwhile (cmdHistoryGet, main.go:968-1006): it reports not *)
(* found only when the transaction is gone.                                *)
SearchFindsStayer ==
    \A c \in Client :
        exit[c] = 3 /\ cmd(c) # None /\ cmd(c).name = "history get" /\ cmd(c).id <= FirstHistory =>
            \A i \in DOMAIN history : history[i] # cmd(c).id

(* Every command that is not a watch ends, once it has no standard input   *)
(* left to read (send and replay, main.go:2039-2047), whatever the server  *)
(* does or does not: each call has its deadline (unaryContext,             *)
(* main.go:592-604), and the search of history get runs out of pages.      *)
CommandEnds ==
    \A c \in Client :
        (cmd(c) # None /\ cmd(c).name \notin {"watch", "paused watch"} /\ (WaitsForInput(c) => cmd(c).usage))
            ~> exit[c] # None

(* Every evaluation returns, and its goroutine ends and gives its slot     *)
(* back, also when its caller has left before it found anything            *)
(* (manager.go:162, 214-236), unless the process ends.                     *)
EvaluationEnds ==
    \A e \in Eval : gpc[e] # "idle" ~> (answer[e] # None /\ gpc[e] = "ended") \/ gpc[e] = "idle"
=============================================================================
