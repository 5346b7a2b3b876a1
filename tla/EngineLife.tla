------------------------------ MODULE EngineLife ------------------------------
(***************************************************************************)
(* The life of the engine process (cmd/apix-engine/main.go): it reads its  *)
(* configuration, opens and migrates the database, loads or creates its    *)
(* certificate authority, starts its servers, reloads the configuration on *)
(* SIGHUP or at the request of a client, and shuts down on SIGTERM.  It    *)
(* may be killed at any moment and started again; what is on disk stays.   *)
(*                                                                         *)
(* Time counts, in units of five seconds, only during the shutdown, where  *)
(* three timeouts meet: 5 s for the tracer, 5 s for the gRPC server and    *)
(* 15 s for all.  A step of the process itself takes less than a unit, a   *)
(* call in flight may take forever.                                        *)
(***************************************************************************)
EXTENDS Integers, FiniteSets, Sequences

CONSTANTS
    File,       \* the contents the configuration file may have: [kind, values]
    OtherFile,  \* the file a client names in ReloadConfig
    EnvToken,   \* APIX_AUTH_TOKEN, "" when it is not set
    Story,      \* what may happen: see story
    Columns,    \* the columns migration 1 adds, in its order
    None

VARIABLES
    story,       \* [file, disk: what the first start finds, busy: the servers whose port is taken,
                 \*  ops: what may happen ("kill", "stop", "hup", "rpc", and the failures "log",
                 \*  "database", "read", "ca", "otel"), starts, edits: how often the process is started and
                 \*  the file edited at most]
    file, edits, \* the configuration file, and how often it has been edited
    disk,        \* [cert, key: the CA files, tables, cols, version: the schema]
    tx,          \* the open transaction of a migration
    pc,          \* where main is, "off" when there is no process
    cfg,         \* the configuration, shared by pointer
    inUse,       \* [pause, rate, conc]: the copies of the engine and of the limiter
    pruner,      \* the row limit of the daily pruner, 0 when there is none
    ca,          \* [cert, key]: the authority in memory
    srv,         \* srv[s]: the state of server s
    calling,     \* the gRPC server has a call in flight
    sig,         \* the signals that wait for main
    lock,        \* who holds runtimeConfigReloader.mu
    at, next,    \* at[a], next[a]: where reload a is, and what it has loaded
    clock, since,\* time since the shutdown began; when main began to wait
    code,        \* how the last process ended
    wanted,      \* what the start or the last successful reload has read
    trusted,     \* the authority the clients have installed, None when the engine gave it up
    starts       \* starts so far

diskVars == <<file, edits, disk, tx>>
mainVars == <<pc, ca, sig, clock, since, code, trusted, starts>>
reloadVars == <<cfg, inUse, pruner, lock, at, next, wanted>>
netVars == <<story, srv, calling>>
vars == <<diskVars, mainVars, reloadVars, netVars>>

Servers == {"metrics", "health", "grpc", "proxy", "mcp"}
Reloads == {"main", "rpc"}
Up == {"running", "reloading"}
Stopping == {"otel", "waiting"}

(* The defaults of LoadConfig, for the settings that are told apart here. *)
DefaultRate == 2
DefaultConc == 3
Defaults ==
    [pause |-> 1, body |-> 1, rate |-> DefaultRate, conc |-> DefaultConc, rows |-> 0, port |-> 1, bind |-> "loopback",
     tls |-> FALSE, token |-> "", mcp |-> FALSE, metrics |-> FALSE, health |-> TRUE, otel |-> FALSE, flaws |-> {}]

(* Configurations, the files they come from, and what is on disk. *)
Config ==
    [pause : Int, body : Int, rate : Int, conc : Int, rows : Int, port : Int, bind : {"", "loopback", "remote"},
     tls : BOOLEAN, token : {"", EnvToken, "configured"}, mcp : BOOLEAN, metrics : BOOLEAN, health : BOOLEAN,
     otel : BOOLEAN, flaws : SUBSET {"contract", "tls", "other"}]
ConfigFile(f) ==
    /\ f.kind \in {"missing", "syntax", "mistyped", "ok"}
    /\ f.kind \in {"mistyped", "ok"} => f.values \in Config
AllColumns == {Columns[i] : i \in DOMAIN Columns}
Disk == [cert : Nat \cup {None}, key : Nat \cup {None}, tables : BOOLEAN, cols : SUBSET AllColumns, version : Nat]

(* A database of version 1 has been migrated by an earlier run. *)
ASSUME StoryAssumption ==
    \A s \in Story : ConfigFile(s.file) /\ s.disk \in Disk /\ (s.disk.version = 1 => s.disk.cols = AllColumns)
ASSUME FileAssumption == (\A f \in File : ConfigFile(f)) /\ ConfigFile(OtherFile)
ASSUME ColumnsAssumption == Columns \in Seq(AllColumns)
ASSUME NoneAssumption == None \notin Nat /\ None \notin Reloads

-----------------------------------------------------------------------------
(* Configuration. *)

(* A file that does not parse leaves the defaults, or what did decode before a *)
(* value of the wrong type; the environment's token is then not looked at.     *)
LoadConfig(f) ==
    CASE f.kind = "missing" -> [Defaults EXCEPT !.token = EnvToken]
      [] f.kind = "syntax" -> Defaults
      [] f.kind = "mistyped" -> f.values
      [] f.kind = "ok" ->
           LET token == IF EnvToken # "" THEN EnvToken ELSE f.values.token
           IN  [f.values EXCEPT !.token = token,
                  !.bind = IF @ # "" THEN @ ELSE IF f.values.tls /\ token # "" THEN "remote" ELSE "loopback"]

applyValidationDefaults(c) ==
    [c EXCEPT !.rate = IF @ = 0 THEN DefaultRate ELSE @, !.conc = IF @ = 0 THEN DefaultConc ELSE @]

(* validatePorts, without the checks that only look at the text of a port. *)
validatePorts(c, allowBoundPorts) ==
    IF allowBoundPorts THEN {} ELSE ({"proxy", "grpc"} \cup (IF c.mcp THEN {"mcp"} ELSE {})) \cap story.busy

validateConnectionPool(c) == {x \in {c.rate, c.conc} : x <= 0} \cup {x \in {c.body} : x < 0}

validateTLSAndAuth(c) ==
    {x \in {"token"} : c.token = "" /\ (c.tls \/ c.bind = "remote")} \cup {x \in {"tls"} : c.bind = "remote" /\ ~c.tls}

(* The other checks (database, paths, patterns, logging, map-local rules) find c.flaws. *)
validate(c, allowBoundPorts) ==
    LET d == applyValidationDefaults(c)
    IN  /\ validatePorts(d, allowBoundPorts) = {} /\ validateConnectionPool(d) = {}
        /\ validateTLSAndAuth(d) = {} /\ d.flaws = {}

-----------------------------------------------------------------------------
Init ==
    /\ story \in Story
    /\ file = story.file /\ edits = 0
    /\ disk = story.disk /\ tx = None
    /\ pc = "off" /\ ca = None /\ sig = {} /\ clock = 0 /\ since = 0 /\ code = "none" /\ trusted = None /\ starts = 0
    /\ cfg = Defaults /\ inUse = None /\ pruner = 0 /\ lock = None /\ wanted = None
    /\ at = [a \in Reloads |-> "idle"] /\ next = [a \in Reloads |-> None]
    /\ srv = [s \in Servers |-> "off"] /\ calling = FALSE

(* The process is gone, and everything in its memory. *)
ProcessEnds(how) ==
    /\ pc' = "off" /\ code' = how
    /\ tx' = None /\ ca' = None /\ sig' = {} /\ clock' = 0 /\ since' = 0
    /\ cfg' = Defaults /\ inUse' = None /\ pruner' = 0 /\ lock' = None /\ wanted' = None
    /\ at' = [a \in Reloads |-> "idle"] /\ next' = [a \in Reloads |-> None]
    /\ srv' = [s \in Servers |-> "off"] /\ calling' = FALSE
    /\ UNCHANGED <<file, edits, disk, story, trusted, starts>>

(* logging.Fatalf: os.Exit, and no deferred call runs. *)
Fatal == ProcessEnds("fatal")

Goto(label) == pc' = label /\ UNCHANGED <<sig, clock, since, code, starts>>
May(what) == what \in story.ops /\ Fatal
Starting(ss) == srv' = [s \in Servers |-> IF s \in ss THEN "starting" ELSE srv[s]]

-----------------------------------------------------------------------------
(* main, up to its loop. *)

(* The configuration is not validated here; the metrics and health servers start at once. *)
Boot ==
    /\ pc = "off" /\ starts < story.starts
    /\ starts' = starts + 1
    /\ \/ /\ pc' \in {"check", "contracts"}
          /\ cfg' = LoadConfig(file) /\ wanted' = cfg'
          /\ Starting({s \in {"metrics"} : cfg'.metrics} \cup {s \in {"health"} : cfg'.health})
          /\ UNCHANGED code
       \/ "log" \in story.ops /\ code' = "fatal" /\ UNCHANGED <<pc, cfg, wanted, srv>>
    /\ UNCHANGED <<diskVars, ca, sig, clock, since, trusted, inUse, pruner, lock, at, next, calling, story>>

(* --config-check: validate, and the contracts of the configuration. *)
ConfigCheck ==
    /\ pc = "check"
    /\ IF validate(cfg, FALSE) THEN ProcessEnds("ok") ELSE Fatal

validateConfiguredContracts ==
    /\ pc = "contracts"
    /\ IF "contract" \in cfg.flaws THEN Fatal
       ELSE Goto("open") /\ UNCHANGED <<diskVars, ca, trusted, reloadVars, netVars>>

(* storage.Open: the tables of a new database have the columns of every migration. *)
OpenDB ==
    /\ pc = "open"
    /\ \/ /\ disk' = IF disk.tables THEN disk
                     ELSE [disk EXCEPT !.tables = TRUE, !.cols = AllColumns]
          /\ Goto("migrate")
          /\ UNCHANGED <<file, edits, tx, ca, trusted, reloadVars, netVars>>
       \/ May("database")

(* Mutant: the version is set in the database before the statements of the migration run. *)
MigrationBeginsVersionFirst ==
    /\ pc = "migrate" /\ tx = None
    /\ CASE disk.version > 1 -> Fatal
         [] disk.version = 1 -> Goto("prune") /\ UNCHANGED <<diskVars, ca, trusted, reloadVars, netVars>>
         [] OTHER -> /\ tx' = [cols |-> disk.cols, done |-> 0]
                     /\ disk' = [disk EXCEPT !.version = 1]
                     /\ UNCHANGED <<file, edits, mainVars, reloadVars, netVars>>

(* applyStorageMigrations, up to the first statement of the transaction. *)
MigrationBegins ==
    /\ pc = "migrate" /\ tx = None
    /\ CASE disk.version > 1 -> Fatal
         [] disk.version = 1 -> Goto("prune") /\ UNCHANGED <<diskVars, ca, trusted, reloadVars, netVars>>
         [] OTHER -> /\ tx' = [cols |-> disk.cols, done |-> 0]
                     /\ UNCHANGED <<file, edits, disk, mainVars, reloadVars, netVars>>

(* execMigrationDDL: a column that is there already is no error. *)
MigrationStatement ==
    /\ pc = "migrate" /\ tx # None /\ tx.done < Len(Columns)
    /\ \/ /\ tx' = [cols |-> tx.cols \cup {Columns[tx.done + 1]}, done |-> tx.done + 1]
          /\ UNCHANGED <<file, edits, disk, mainVars, reloadVars, netVars>>
       \/ May("database")

(* user_version and the columns are committed together. *)
MigrationCommits ==
    /\ pc = "migrate" /\ tx # None /\ tx.done = Len(Columns)
    /\ \/ /\ disk' = [disk EXCEPT !.cols = tx.cols, !.version = 1]
          /\ tx' = None
          /\ UNCHANGED <<file, edits, mainVars, reloadVars, netVars>>
       \/ May("database")

StartPeriodicPrune ==
    /\ pc = "prune"
    /\ pruner' = cfg.rows
    /\ Goto("ca")
    /\ UNCHANGED <<diskVars, ca, trusted, cfg, inUse, lock, at, next, wanted, netVars>>

(* NewCertAuthority: the two files are used when they are a pair.  Any error of load, also *)
(* of the read of a pair or because its key is not RSA, puts a new authority in its place. *)
caLoads(d) == d.cert # None /\ d.cert = d.key

NewCertAuthority ==
    /\ pc = "ca"
    /\ \/ /\ caLoads(disk) /\ Goto("plugins")
          /\ ca' = [cert |-> disk.cert, key |-> disk.key] /\ UNCHANGED trusted
       \/ /\ ~caLoads(disk) \/ "read" \in story.ops
          /\ ca' = [cert |-> starts, key |-> starts] /\ Goto("certTrunc")
          /\ trusted' = IF caLoads(disk) THEN None ELSE trusted
    /\ UNCHANGED <<diskVars, reloadVars, netVars>>

(* save: each file is truncated, then written. *)
SaveStep(label, field, value, then) ==
    /\ pc = label
    /\ \/ /\ disk' = [disk EXCEPT ![field] = value]
          /\ Goto(then)
          /\ UNCHANGED <<file, edits, tx, ca, trusted, reloadVars, netVars>>
       \/ May("ca")
save ==
    \/ SaveStep("certTrunc", "cert", None, "certWrite")
    \/ pc = "certWrite" /\ SaveStep("certWrite", "cert", ca.cert, "keyTrunc")
    \/ SaveStep("keyTrunc", "key", None, "keyWrite")
    \/ pc = "keyWrite" /\ SaveStep("keyWrite", "key", ca.key, "plugins")

(* initPlugins: only the tracer may fail. *)
initPlugins ==
    /\ pc = "plugins"
    /\ \/ Goto("start") /\ UNCHANGED <<diskVars, ca, trusted, reloadVars, netVars>>
       \/ cfg.otel /\ May("otel")

(* The engine and the proxies are made from cfg, and the servers start. *)
StartServers ==
    /\ pc = "start"
    /\ inUse' = [pause |-> cfg.pause, rate |-> cfg.rate, conc |-> cfg.conc]
    /\ Starting({"grpc", "proxy"} \cup {s \in {"mcp"} : cfg.mcp})
    /\ Goto("running")
    /\ trusted' = IF trusted = None THEN ca ELSE trusted
    /\ UNCHANGED <<diskVars, ca, cfg, pruner, lock, at, next, wanted, calling, story>>

-----------------------------------------------------------------------------
(* The servers. *)

(* Only the gRPC server takes a port or a certificate it cannot use as fatal. *)
Listen(s) ==
    /\ srv[s] = "starting"
    /\ IF s = "grpc" /\ (s \in story.busy \/ (cfg.tls /\ "tls" \in cfg.flaws)) THEN Fatal
       ELSE /\ srv' = [srv EXCEPT ![s] = IF s \in story.busy \/ (s = "mcp" /\ cfg.tls /\ "tls" \in cfg.flaws) THEN "returned" ELSE "serving"]
            /\ UNCHANGED <<diskVars, mainVars, reloadVars, calling, story>>

(* ListenAndServe returns when Shutdown is called, not when it is done. *)
Shutdown(s) ==
    /\ pc \in Stopping /\ s # "grpc" /\ srv[s] \in {"starting", "serving"}
    /\ srv' = [srv EXCEPT ![s] = "returned"]
    /\ UNCHANGED <<diskVars, mainVars, reloadVars, calling, story>>

(* Mutant: GracefulStop without the timeout that leads to Stop. *)
GRPCEndsNoTimeout == ~calling

(* GracefulStop waits for the calls in flight, and 5 s later Stop ends them. *)
GRPCEnds == ~calling \/ clock >= 1

StopGRPC ==
    /\ pc \in Stopping
    /\ \/ srv["grpc"] = "serving" /\ srv' = [srv EXCEPT !["grpc"] = "draining"] /\ UNCHANGED calling
       \/ /\ srv["grpc"] = "draining" /\ GRPCEnds
          /\ srv' = [srv EXCEPT !["grpc"] = "returned"]
          /\ calling' = FALSE
    /\ UNCHANGED <<diskVars, mainVars, reloadVars, story>>

(* Calls of the gRPC server; nothing waits for those of the others. *)
CallBegins ==
    /\ srv["grpc"] = "serving" /\ ~calling
    /\ calling' = TRUE
    /\ UNCHANGED <<diskVars, mainVars, reloadVars, srv, story>>

CallEnds ==
    /\ calling /\ at["rpc"] = "idle"
    /\ calling' = FALSE
    /\ UNCHANGED <<diskVars, mainVars, reloadVars, srv, story>>

-----------------------------------------------------------------------------
(* Reload: on SIGHUP by main itself, or by a handler of the gRPC server. *)

ReloadBegins(a) ==
    /\ at[a] = "idle"
    /\ \/ a = "main" /\ pc = "running" /\ "hup" \in sig /\ pc' = "reloading" /\ sig' = sig \ {"hup"}
       \/ a = "rpc" /\ calling /\ "rpc" \in story.ops /\ UNCHANGED <<pc, sig>>
    /\ at' = [at EXCEPT ![a] = "lock"]
    /\ UNCHANGED <<diskVars, ca, clock, since, code, trusted, starts, cfg, inUse, pruner, lock, next, wanted, netVars>>

Lock(a) ==
    /\ at[a] = "lock" /\ lock = None
    /\ lock' = a
    /\ at' = [at EXCEPT ![a] = "load"]
    /\ UNCHANGED <<diskVars, mainVars, cfg, inUse, pruner, next, wanted, netVars>>

Unlock(a) ==
    /\ lock' = None
    /\ at' = [at EXCEPT ![a] = "idle"]
    /\ pc' = IF a = "main" THEN "running" ELSE pc
    /\ UNCHANGED <<ca, sig, clock, since, code, trusted, starts>>

(* Mutant: a file that is refused leaves the mutex locked. *)
ReloadLoadKeepsLock(a) ==
    /\ at[a] = "load"
    /\ \E f \in {file} \cup (IF a = "rpc" THEN {OtherFile} ELSE {}) :
          IF validate(LoadConfig(f), TRUE)
          THEN /\ next' = [next EXCEPT ![a] = applyValidationDefaults(LoadConfig(f))]
               /\ at' = [at EXCEPT ![a] = "engine"]
               /\ UNCHANGED mainVars
          ELSE /\ at' = [at EXCEPT ![a] = "idle"]
               /\ pc' = IF a = "main" THEN "running" ELSE pc
               /\ UNCHANGED <<next, ca, sig, clock, since, code, trusted, starts>>
    /\ UNCHANGED <<diskVars, cfg, inUse, pruner, lock, wanted, netVars>>

(* The path of the call, if it has one.  ValidateRuntime also puts defaults for zeros. *)
ReloadLoad(a) ==
    /\ at[a] = "load"
    /\ \E f \in {file} \cup (IF a = "rpc" THEN {OtherFile} ELSE {}) :
          IF validate(LoadConfig(f), TRUE)
          THEN /\ next' = [next EXCEPT ![a] = applyValidationDefaults(LoadConfig(f))]
               /\ at' = [at EXCEPT ![a] = "engine"]
               /\ UNCHANGED <<lock, mainVars>>
          ELSE Unlock(a) /\ UNCHANGED next
    /\ UNCHANGED <<diskVars, cfg, inUse, pruner, wanted, netVars>>

ReloadEngine(a) ==
    /\ at[a] = "engine"
    /\ cfg' = [cfg EXCEPT !.pause = next[a].pause, !.body = next[a].body]
    /\ inUse' = [inUse EXCEPT !.pause = next[a].pause]
    /\ at' = [at EXCEPT ![a] = "limits"]
    /\ UNCHANGED <<diskVars, mainVars, pruner, lock, next, wanted, netVars>>

(* Mutant: changedRate || changedConcurrent evaluated lazily: a new rate hides a new cap. *)
ReloadLimitsLazy(a) ==
    /\ at[a] = "limits"
    /\ LET n == next[a]
       IN  /\ cfg' = [cfg EXCEPT !.rate = n.rate, !.conc = IF n.rate # cfg.rate THEN @ ELSE n.conc]
           /\ inUse' = [inUse EXCEPT !.rate = cfg'.rate, !.conc = cfg'.conc]
    /\ at' = [at EXCEPT ![a] = "history"]
    /\ UNCHANGED <<diskVars, mainVars, pruner, lock, next, wanted, netVars>>

(* The limiter is told only when one of the two has changed. *)
ReloadLimits(a) ==
    /\ at[a] = "limits"
    /\ LET n == next[a]
       IN  /\ cfg' = [cfg EXCEPT !.rate = n.rate, !.conc = n.conc]
           /\ inUse' = IF n.rate # cfg.rate \/ n.conc # cfg.conc
                       THEN [inUse EXCEPT !.rate = n.rate, !.conc = n.conc] ELSE inUse
    /\ at' = [at EXCEPT ![a] = "history"]
    /\ UNCHANGED <<diskVars, mainVars, pruner, lock, next, wanted, netVars>>

(* The history is pruned once; the daily pruner is not told.  Ports and the like are only reported. *)
ReloadHistory(a) ==
    /\ at[a] = "history"
    /\ cfg' = [cfg EXCEPT !.rows = next[a].rows]
    /\ wanted' = next[a]
    /\ Unlock(a)
    /\ UNCHANGED <<diskVars, inUse, pruner, next, netVars>>

Reload(a) == ReloadLoad(a) \/ ReloadEngine(a) \/ ReloadLimits(a) \/ ReloadHistory(a)

-----------------------------------------------------------------------------
(* The shutdown. *)

(* cancel: the servers see it, and the tracer is given 5 s. *)
Break ==
    /\ pc = "running" /\ "stop" \in sig
    /\ pc' = IF cfg.otel THEN "otel" ELSE "waiting"
    /\ sig' = sig \ {"stop"}
    /\ UNCHANGED <<diskVars, ca, clock, since, code, trusted, starts, reloadVars, netVars>>

OtelShutdown ==
    /\ pc = "otel"
    /\ pc' = "waiting" /\ since' = clock
    /\ UNCHANGED <<diskVars, ca, sig, clock, code, trusted, starts, reloadVars, netVars>>

AllReturned == \A s \in Servers : srv[s] \in {"off", "returned"}

(* The select at the end of main.  When all have returned the database is closed and main   *)
(* returns, whatever is still in flight; after 15 s the process exits and closes nothing.    *)
WaitEnds ==
    /\ pc = "waiting"
    /\ \E how \in {"ok", "forced"} :
          /\ IF how = "ok" THEN AllReturned ELSE clock - since >= 3
          /\ ProcessEnds(how)

(* Five seconds pass: no timer that is due and no step of the process that is ready waits so long. *)
Tick ==
    /\ pc \in Stopping /\ clock < 4
    /\ pc = "otel" => clock < 1
    /\ pc = "waiting" => ~AllReturned /\ clock - since < 3
    /\ \A s \in Servers : srv[s] \notin {"starting", "serving"}
    /\ srv["grpc"] = "draining" => ~GRPCEnds
    /\ clock' = clock + 1
    /\ UNCHANGED <<diskVars, pc, ca, sig, since, code, trusted, starts, reloadVars, netVars>>

-----------------------------------------------------------------------------
(* The operator, and kill -9. *)

Signal(x) ==
    /\ pc # "off" /\ x \in story.ops \ sig
    /\ sig' = sig \cup {x}
    /\ UNCHANGED <<diskVars, pc, ca, clock, since, code, trusted, starts, reloadVars, netVars>>

Edit ==
    /\ edits < story.edits
    /\ edits' = edits + 1
    /\ file' \in File \ {file}
    /\ UNCHANGED <<disk, tx, mainVars, reloadVars, netVars>>

Killed == pc # "off" /\ "kill" \in story.ops /\ ProcessEnds("killed")

MainStep ==
    \/ ConfigCheck \/ validateConfiguredContracts \/ OpenDB
    \/ MigrationBegins \/ MigrationStatement \/ MigrationCommits \/ StartPeriodicPrune
    \/ NewCertAuthority \/ save \/ initPlugins \/ StartServers
    \/ OtelShutdown \/ WaitEnds

ServerStep == StopGRPC \/ \E s \in Servers : Listen(s) \/ Shutdown(s)

Next ==
    \/ Boot \/ MainStep \/ ServerStep \/ Break \/ Tick \/ Edit \/ Killed
    \/ \E a \in Reloads : ReloadBegins(a) \/ Lock(a) \/ Reload(a)
    \/ CallBegins \/ CallEnds \/ Signal("stop") \/ Signal("hup")

(* Goroutines run, time passes; select takes a case that stays ready sooner  *)
(* or later, and a mutex is handed to a waiter that starves.                 *)
Spec ==
    /\ Init /\ [][Next]_vars
    /\ WF_vars(MainStep) /\ WF_vars(ServerStep) /\ WF_vars(Tick)
    /\ SF_vars(Break) /\ SF_vars(Lock("main"))
    /\ \A a \in Reloads : WF_vars(Reload(a))

-----------------------------------------------------------------------------
(* A database that says it is migrated is, and an engine that runs has an  *)
(* authority whose certificate and key belong together and are those on    *)
(* disk, the one its clients have trusted since the first run, or since a  *)
(* pair on disk could not be loaded: also when earlier starts were killed  *)
(* between two statements of a migration (migrations.go:86-105) or between *)
(* two writes of save (cert.go:116-130).                                   *)
DiskWhole ==
    /\ disk.version = 1 => disk.cols = AllColumns
    /\ pc \in Up \cup Stopping =>
          /\ disk.version = 1
          /\ ca.cert = ca.key /\ disk.cert = ca.cert /\ disk.key = ca.key
          /\ ca = trusted

(* When no reload is under way, the engine's pause timeout, the limiter's   *)
(* limits and the shared configuration are those of one file, the one the  *)
(* start or the last successful reload has read: a reload that fails, and  *)
(* two that meet, leave no mixture (main.go:322-369).                      *)
ReloadIsWhole ==
    lock = None /\ pc \in Up =>
        /\ inUse = [pause |-> wanted.pause, rate |-> wanted.rate, conc |-> wanted.conc]
        /\ cfg.body = wanted.body /\ cfg.rows = wanted.rows

(* The 15 s of main are never used up: every server returns before, because *)
(* gRPC calls are ended after 5 s (main.go:196-208, grpc.go:203-217).       *)
NeverForced == code # "forced"

(* A process that has been told to stop ends, whatever is in flight, in the *)
(* middle of a start or of a reload.                                        *)
ShutdownEnds == "stop" \in sig ~> pc = "off"
=============================================================================
