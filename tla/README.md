# APiX: a TLA+ model of the intercepting proxy

APiX is a debugging proxy: it intercepts HTTP and HTTPS traffic, lets plugins
and an operator change or hold requests and responses, and records what passed
in SQLite. This directory holds TLA+ modules that model its proxy, its engine
process, its control API and its command line client, the TLC configurations
that check them on small instances, and TLAPS proofs for every instance.
`PROJECT.json` maps each definition to the lines it models and lists runs,
mutants, findings, hazards and theorems.

Commands, in this directory:

    tlc -workers 2 -config BreakpointFlow.cfg MCBreakpointManager
    tlapm BreakpointProofs.tla

## 1. The system

| Component | State | Operations | Hard part | What makes it correct |
|---|---|---|---|---|
| breakpoint manager: pauses (`internal/breakpoints`) | `pausedReqs` by request ID, subscriber channels, an entry's `done` and decision | `Pause`, `Resume`, `Subscribe`, `Unsubscribe` | goroutine, timeout, several resumers and watchers on one entry | a held request can be resumed, by one decision, made for it |
| breakpoint manager: rules | the maps `rules`, `compiled`, `bodyRe`; the slots of `regexEvalSem` | `AddRule`, `RemoveRule`, `ListRules`, `evaluate` | a goroutine that outlives its caller; rules that change meanwhile; map order | held for a rule that asked for it, unheld only when none did or time was over; slots come back |
| admission control (`internal/proxy/ratelimit.go`) | limits, token bucket and connection counter per client | `allow`, `acquire`, `release`, `update` | reload while connections are open; checks before the lock | caps and rates hold, nobody is locked out |
| plugin runtime (`internal/pluginrt`) | registry, order, in-flight counts | `Register`, `Unregister` (drains), `List`, `RunRequest`, `RunResponse` | removal while hooks run | no hook of a removed plugin runs; order and registry agree |
| proxy pipelines (`internal/proxy/http.go`, `https.go`) | the transaction, stage by stage | hooks, two breakpoint phases, rules, map-local, upstream, store, answer | many early returns on five paths, panics nobody in the proxy recovers, held requests whose client leaves | answered once, or not at all after a panic; forwarded as decided; the history is what the client got |
| connections (`http.go`, `https.go`) | what has arrived and is unread | CONNECT, sniffing, handshake, the keep-alive loops, HTTP/2 | refused bodies in a keep-alive loop, clients that leave while a handler waits | requests are what was sent as requests; connections end |
| certificates (`internal/proxy/cert*.go`) | LRU cache; CA files | `CertForHost`; load, generate, save | concurrent misses; a crash between two files; a file that cannot be read | the certificate is the host's; the pair on disk is whole |
| WebSocket relay (`internal/proxy/websocket.go`) | two connections, two pumps | copy, record, control handlers, shutdown | close races, vanished and stalled sides | order kept, recorded before passed on, both pumps end |
| engine and storage (`internal/engine`, `internal/storage`) | tables, capture subscribers | `StoreTransaction`, import, clear, prune, capture streams | connection pool, two-statement operations, streams that end | pairs match, nothing orphaned, pruning stops at its limit |
| bundled plugins (`internal/pluginrt/builtins`) | circuit state, counters, cache | `OnRequest`, `OnResponse` | transactions that end without `OnResponse` | no more than the limit at once; circuits change on evidence; the cache answers truly |
| gRPC and MCP servers (`internal/server`) | token buckets, rule and template tables, audit log | interceptors and handlers over engine and tables | concurrent callers between the steps of a handler, failing statements | an answer tells what happened |
| configuration, start, shutdown (`internal/config`, `cmd/apix-engine`) | the running configuration, the schema version | load, validate, migrate, start, reload, drain | kill at any moment, reloads that meet, three timeouts | disk whole, reload all or nothing, shutdown ends |
| command line client (`cmd/apix-cli`) | a command's progress, its file, its exit code | one to several calls per command | an engine that stops, deadlines, a history that moves under a search | exit codes tell what happened; commands end |
| replay, HAR, contracts, learning | none beyond a call | re-send, convert, compare | | pure functions |
| VS Code extension | UI state, engine process | calls of the gRPC API | | |

How they interact: `ServeHTTP` asks admission control, then runs the pipeline
in one goroutine per request (per connection inside a tunnel). The pipeline
calls the plugin runtime, `Engine.PauseRequest`/`PauseResponse` (which ask
`evaluate` and block in `Manager.Pause`), reads the rewrite rules from the
database, does the round trip, calls `Engine.StoreTransaction` (which publishes
to the capture streams and writes the tables) and answers. gRPC and MCP handlers
call `Manager.Resume`, the subscriptions, the rule tables, `ClearHistory`,
`ImportHAR` and the reload from their own goroutines; the command line client
calls them over a connection that may break. Background goroutines prune and
vacuum.

## 2. Modules

| Module | Models | Composes |
|---|---|---|
| `PauseContract` | what a pause promises: held, then freed by one offered decision, by the end of its context, or lost to a panic | |
| `BreakpointManager` | `Pause`, `Resume`, watchers | refines `PauseContract` |
| `BreakpointRules` | the rule maps and `evaluate` | |
| `ProxyRateLimiter` | admission control | |
| `PluginRuntime` | registry and passes | |
| `ProxyPipeline` | handleHTTP and processRequestPipeline | manager, runtime and store by the outcomes their modules allow |
| `TrafficHistory` | StoreTransaction, streams, tables, import, clear, prune | |
| `GuardPlugins` | the bundled cache, traffic shaping and circuit breaker in one chain | three plugins and the passes over them |
| `CertCache` | `CertForHost` and its LRU | |
| `WebSocketRelay` | `relayWebSocket` | |
| `ProxyConnections` | CONNECT, sniffing, handshake, loops | extends `CertCache` and `WebSocketRelay` |
| `ControlServer` | gRPC interceptors and handlers, MCP endpoint, their tables | extends `BreakpointRules` |
| `ControlPlane` | the commands of `apix-cli` and other clients | extends `ControlServer` |
| `EngineLife` | configuration, start, migrations, CA files, reload, shutdown | |
| `BreakpointProofs`, `LimiterProofs`, `PluginProofs`, `HistoryProofs`, `GuardProofs`, `PipelineProofs`, `LifeProofs`, `ConnectionProofs` | theorems (section 4); `BreakpointProofs` also those about `ControlPlane` | |
| `MC*` | instances for TLC | |

An operator whose comment begins with "Mutant:" is not part of a model: it is a
plausible bug, and a property of a passing run fails when it replaces the
operator defined after it.

**BreakpointManager.** An `Entry` is one call of `Pause`. An action is a
critical section or a channel operation: register and take the snapshot of the
subscribers (one lock), each non-blocking send, the select, the delete that both
of its cases do before they return; in `Resume` the lookup, the write of the
decision, the close. `RequestID` need not be injective, because
`EnsureRequestID` accepts the client's `X-Request-ID`. A send on a channel that
was closed since the snapshot makes `Pause` panic: the delete is not deferred,
so the entry stays in the map, and a later `Resume` for it is acknowledged to no
effect. The contract has a step for that (`Lose`), and its `Offer` is to a request
that is held or lost. The panic ends the request (net/http recovers it); one in
`Resume` is recovered by nobody and stops every action (`Crashed`).

**BreakpointRules.** A pattern is the set of texts it matches. `evaluate` is the
snapshot under the read lock, a goroutine that takes rules out of the snapshot
in any order (the code iterates over a map), takes and gives back a slot of the
semaphore around each regular expression, and sends its result into a channel
of capacity one; and a caller that takes the result or leaves when its 100 ms
are over. The goroutine goes on after that. `RulesSpec` is the rules and their
evaluations by themselves: any operation of the manager at any moment.

**ProxyRateLimiter.** `allow`, `acquire` and `release` are each split where the
code reads a limit before it takes the lock. A goroutine keeps the bucket it
looked up, also after `update` replaced the map (`gen`). Time is `Refill`, a
token at a time; what was given out is counted so that rates can be compared
without a clock.

**PluginRuntime.** A `Reg` is one plugin offered to `Register`; two may have the
same name. `Unregister` waits on the condition variable without the lock, so it
is two actions; `Broadcast` wakes every waiter.

**ProxyPipeline.** A request is the set of edits made to it, a response its
origin and its edits. The two copies of the request the code keeps, `r` (`raw`)
and `tx.Request` (`req`), are separate, as is the context the held request
waits on (`ctxOf`). Hooks, operator and upstream choose among all outcomes the
code distinguishes. The five paths are plain HTTP; after a CONNECT, HTTP/1.1
(`tunnel`) and HTTP/2 (`h2c`) in the clear; HTTP/1.1 (`tls`) and HTTP/2 (`h2`) in
intercepted TLS. A panic ends in `aborted`, with no answer: the handlers call
`recover` in a helper of the deferred function (`panic_recovery.go:9-16`), where it
returns nil, so the panic goes on to net/http, which closes the connection or the
stream. Pauses, the store and `WriteHeader` with a status outside 100 to 999 can
panic. A hook that panics is another matter: `pluginrt` calls each hook in a
function whose own deferred `recover` works (`runtime.go:178-195`), so it is a
hook that returned an error, and the request is answered.

**TrafficHistory.** A row is the call that wrote it. Every statement picks a
connection; a connection enforces foreign keys only if it is the one `Open`
configured and the pool has not replaced it, and `lax` remembers whether one
that does not was ever used. Time is the count of transactions recorded; "older
than n days" is any moment up to now. An imported entry brings its own
date, past or future (`Dates`). Entries of an import are independent of each other: one that fails
stops those after it, which is the behaviour in which they never start.

**GuardPlugins.** A hook holds its plugin's lock from the first read to the last
write, so it is one action; hooks of other transactions run in between. `at`
is the place in the chain. As in the code, a hook that sets `MockedResponse`
does not end the pass, so the plugins after it see the request too, and a
transaction may end after `OnRequest` and never reach `OnResponse`: mocked,
answered by an operator or a rule, failed in a hook or in the round trip.
`place` and `log` record what happened, for the properties; no action reads
them. Time is two actions, an entry's TTL and a circuit's timeout running out.
`cmd/apix-engine/main.go` registers none of the three today: they are library
plugins, and the model is of the chain they are written for.

**ProxyConnections, CertCache, WebSocketRelay.** The bytes of a client are a
sequence of units: a hello or preface, requests with or without a body, and the
rest of a body that was not read. Handling a request is one step here, after
which its handler may have returned or may wait (`waiting`) for an operator, at a
breakpoint without a timeout, or for the body of a response; what happens inside
it is `ProxyPipeline`. On HTTP/1.1 the handler runs in the loop that reads, so
nothing is read before it returns; an HTTP/2 stream has a goroutine of its own. `get` and `put` of the LRU are atomic,
the generation of a certificate between them is not. A relay is two pumps with
the checks, reads, records and writes of the code, `forwardCloseOnce`, and the
caller that waits for the first error, closes both connections and waits for
both pumps. A peer may send, close, vanish, or stop reading.

**ControlServer, ControlPlane.** A call passes the rate limiter (a bucket for
unary calls and one for streams), the token check and then its handler, one
step per effect: memory, table, upstream, audit log (off, as by default, on, or
failing, which is only logged), answer. A DELETE or UPDATE that finds no row has
no effect. MCP calls enter by
`mcpHandle` and share the handlers. A statement may fail, an upstream request
may fail, the process may stop and start again (memory gone, tables kept), and
a second `Resume` of one entry ends it. The proxy meanwhile captures, prunes,
evaluates and holds. A command of the client is the calls it makes and what it
does with each answer, `exitCodeForError`, its output file and, for `send` and
`replay` without `--body`, the end of its input included. `effects`
and `audit` record, for the properties, what a client's calls changed.
`scenario` fixes what a behaviour is about: which commands run, which faults
may happen, how much is captured and pruned.

**EngineLife.** The steps of `main` in order, each of which may be the last one
before a kill. `disk` is what survives: the CA files, the schema and its
version. The migration writes into `tx` until it commits; `load` may fail on a
pair of CA files that is whole, and `save` truncates and then writes each file. `cfg` is the configuration shared by pointer, `inUse`
the copies the engine and the limiter keep, `pruner` the copy of the daily
pruner. Reload is one step per group of settings, under its mutex. Time counts
only in the shutdown, in units of five seconds.

## 3. Runs

Passing runs:

| Run | Instance | Shows |
|---|---|---|
| `breakpoint_flow` | request and response phase of one transaction, the latter with a pause timeout, another request with the same ID, 2 resumers, a watcher that may leave or not read; fair | the map keeps nothing of a call that returned and a held request is in it unless its ID was reused, decisions reach the right call and are applied once, watchers are told once, `PauseContract` is implemented, acknowledged and timed-out requests go on |
| `limiter_admission` | 2 connections and a tunnelled request of one client, 2 reloads; fair | no counter above what is in flight, the cap until the first reload, the rate of each bucket, admission never waits |
| `plugin_chain` | 2 names, 3 registrations, 3 removals by two callers, 2 passes; fair | drain, counts, order; every removal returns |
| `pipeline_paths` | a request on any of the five paths, upgrade or not, with or without a pause timeout, the rules changing under it, panics and statuses of every kind; fair | answered once, or nothing after a panic; history true; forwarded as decided; hooks see every response; a timeout or, where the code watches for it, a disconnect ends every wait |
| `history_pool` | 2 transactions with one ID, one an upgrade, an import dated first or last, a connection that the pool may replace, a clear, 2 pruners with a limit of 1, a stream that may end; fair | no wrong pair, nothing orphaned while only enforcing connections were used, storing never waits for a stream, a pruner's delete falls short of its limit by no more than what others deleted since it counted |
| `guard_chain` | 3 transactions, 3 URLs of one host, a cache of 2, at most 2 at once, thresholds 2/1 and 1/2 | map and list of the cache agree, a hit is the response to the same method and URL, the concurrency limit holds, circuits open and close only on the required run of responses |
| `control_plane` | every command alone, with the token and all faults and without the token; 9 pairs of commands that meet in one table; searches while rows come and go; 2 evaluations with one slot; resumes and watches of a held request; a rate of one call a second; fair | exit codes tell what happened, a search misses nothing that stays, rules match what they ask for, the server changes the rules only as the manager does (`RulesSpec`), commands and evaluations end |
| `engine_life` | 3 starts from each of 4 disks, killed anywhere, CA files that do not load; reloads by signal and call of 5 files and another path; stops during them; ports taken; fair | schema and authority whole, a reload is all or nothing, the 15 s are never used up, a stop ends |
| `connections` | 3 handshakes for a cache of 1; each protocol with requests that are served, refused or too large, with handlers that return or wait; a relay of up to 3 frames a side whose ends close, vanish or stall; fair | certificates fit, nothing but requests is handled until a body was left unread, frames are recorded and passed on in order, connections end unless a handler waits or a write is blocked |

Runs that end in a counterexample. Each checks one sentence of the repository's
docs, comments or tests, quoted under "findings" in `PROJECT.json`:

| Run | Counterexample |
|---|---|
| `breakpoint_double_resume` | two `Resume` calls find the entry; the second closes `done` again and the process ends |
| `pipeline_hold` | after an edit the response pause waits on the finished gRPC call's context |
| `history_orphans` | a delete on a connection without the pragma leaves responses behind |

### Behaviours the models contain and no property claims

The models reach these states too. They are why some properties above are
stated with a condition, and no run is spent on them.

Proxy and engine:

* A second held request with the same `X-Request-ID` takes the first one's
  place in `pausedReqs`, and the delete of the one that returns first removes the
  other's: no `Resume` reaches that one any more (`RegistryIsHeld` makes that
  exception; the comment at `manager.go:285` does not).
* A watcher's channel closed between the snapshot and the send makes `Pause`
  panic. The request ends without an answer and its entry stays in `pausedReqs`
  (`RegistryIsHeld` makes that exception).
* With two rules that ask for a request it is not determined which one is
  reported (`MatchIsTrue` allows any; `docs/how-to/first-breakpoint.md:116` says
  the first one wins, the code iterates over a map). When the 100 ms are over,
  a request that a rule asked for goes on unheld.
* After a reload, releases of old connections decrement the new counters, so
  more connections than the limit may be served (`ConcurrencyCapped` speaks of
  the time before the first reload).
* Two removals of one name that overlap: the later delete by name removes the
  plugin registered meanwhile, which stays in the order, and `List` dereferences
  nil, although `docs/REFERENCE/plugin-sdk.md:34` promises "Concurrent safety for
  registration/listing" (`DrainExact` is about removals that follow each other).
  `Unregister` has no caller outside the tests yet.
* `DisconnectUnblocks` is about the contexts the code watches: a closed
  connection ends the one of plain HTTP, of HTTP/2 in TLS, and of HTTP/2 in the
  clear (`ServeConn` returns, with it the handler of the CONNECT request, and
  net/http ends its context). A cancelled stream ends only the one of HTTP/2 in
  TLS, because `handleH2CTunnelConn` gives its requests the CONNECT context. On
  HTTP/1.1 in a tunnel nobody reads the connection while a request is held, and
  without a timeout it waits on after its client has left; the comment at
  `internal/config/config.go:52` says that "a client disconnect will still unblock
  it".
* In a plain tunnel the client reads the status text as the body of a response
  the proxy makes itself, and a 1xx status is read as 200 where the writer checks
  it (`HistoryIsTrue` leaves both out). On an invalid status that writer panics
  after the store: the history then shows a response nobody got.
* A WebSocket upgrade that fails after the hijack closes the connection without
  an answer.
* Mocked responses and responses an operator supplies are not stored; a rule's
  header edits change `r` and not the copy sent upstream.
* Two pruners (the daily one and that of a reload, `main.go:249` and `366`), or a
  pruner and a clear, count before either deletes and leave fewer rows than the
  limit; `PruneStopsAtLimit` says how many fewer.
* An import half done leaves a request without its response.
* Streams are told before, and whether or not, a transaction is saved; a send on
  a stream channel closed meanwhile panics before the save.
* A transaction that took a place of TrafficShaping and ends without
  `OnResponse` never gives it back, and one that was the probe of a half-open
  circuit leaves `halfOpenPending` set: the host is refused from then on.
  A response from before the circuit opened is taken for the probe's.
  `ConcurrencyLimited` and `TripsOnEvidence` state the directions that hold.
* The body of a request that was refused in a tunnel, or what follows the limit
  of one that is too large, is not read; the keep-alive loop takes it for the
  next request. `HandledAsSent` says that this happens only then.
* After CONNECT, a first plain request shorter than the 24 bytes of the HTTP/2
  preface is not handled until more bytes arrive (`Peek`).
* The second of two close frames of a WebSocket is recorded and not passed on;
  a side that no longer reads blocks `WriteMessage`, which has no deadline
  (`ConnectionEnds` makes that exception).
* A request on HTTP/1.1 in a tunnel that waits for an operator or an upstream
  when its client leaves keeps its goroutine and its connection until it is
  resumed (`ConnectionEnds` makes that exception too).

Control side:

* Rules are set in memory first and then saved; two calls for one rule may leave
  memory and table different, and a failed save is only logged. The table is
  never read at a start, though `docs/ARCHITECTURE/storage_replay.md:20` calls the rules persistent.
* `UpdateRewriteRule` inserts a rule that is not there, so a toggle that meets a
  delete brings the rule back, and two toggles may leave one.
* `breakpoints enable` and `disable` send the rule back without its header,
  body and status criteria: a rule for responses becomes one for requests.
* `replay` of an unknown ID exits with 1, not with 3; `doctor` with a wrong token
  exits with 6; `contract validate --output json` exits with 0 for an invalid
  document (`ExitIsTrue` speaks of what was changed, which those codes do not
  misstate; `docs/REFERENCE/cli-contract-v1.md:119-131` says more).
* Unary calls and streams have a bucket each, although the comment at
  `internal/config/config.go:97` counts them together.
* `export har` drops the error of its last write (`main.go:252-254`, `1302`) and
  exits with 0 although its file is empty or cut; `export ndjson` checks it
  (`ExitIsTrue` makes that exception).
* `templates delete` of an ID that is not there, and `history clear` of an empty
  history, exit with 0. The audit log is off by default, and an entry that cannot
  be written is only logged: `ExitIsTrue` claims an entry when it is on and works.
* `send` and `replay` without `--body` read their input to its end before they
  call (`CommandEnds` begins after that: whoever feeds them owes nothing).
* A client that gives up, or whose engine stops, does not know whether its
  change was made (exit codes 6 and 7; `ExitIsTrue` claims nothing of them).

Process:

* A normal start does not validate the configuration, `--config-check` and a
  reload do; a file that does not parse is replaced by the defaults, and
  `APIX_AUTH_TOKEN` is then not looked at.
* The first reload of an unchanged file with a limit of 0 changes it to the
  default, because only the reload puts defaults for zeros.
* The daily pruner keeps the limits of the start (`pruner`).
* `NewCertAuthority` takes every error of `load` for a missing authority: when an
  intact file cannot be read, or the key is not RSA, both files are overwritten
  with a new pair, which the clients do not trust (`DiskWhole` makes that
  exception, and still claims that the new pair is whole).
* `ListenAndServe` returns when `Shutdown` is called, not when it is done: the
  database may be closed while proxied requests are in flight.

### Bounds

Every bound is a constant: sizes of the sets, `MaxUpdates` (reloads),
`MaxRefill`, `MaxRuleSets` (rule changes), `MaxClears`, `MaxFrames`, `MaxRegex`
(32 in the code, 1 in the run, so that slots are contended), `ChanCap` (16 and 32 in
the code, 1 in the runs, so that a full channel is met at once), `CertCapacity`
(1 in the run, so that every other host evicts), the `starts`, `edits`,
`captures` and `prunes` of a story or scenario. Two or three calls per kind are
enough for the races in question: each is between two calls for one ID, one
name, one row or one client, and a third bystander. Clients of the admission
control share nothing but the limits, and transactions of the pipeline share
only the rules, which change at any moment anyway; so one of each suffices.
Commands meet only in what they write, so the pairs of `control_plane` are
those with a table or a request in common; two captures and prunes move every
page boundary of a history of three. Three starts let a kill interrupt a repair
of what an earlier kill left. `guard_chain` is reduced by the symmetry of
transactions and of URLs (none is told apart by the specification); three URLs
and a capacity of two make evictions happen. Where such an argument is not
enough the theorems below cover every size.
Behaviours of the models end when all calls have returned, so the runs do not
check for deadlock; that nothing waits for ever is what the liveness properties
say.

### Fairness

Weak fairness of a goroutine's own steps (the Go scheduler runs what can run),
of an armed timer, of the return of a plugin hook, of the upstream round trip
(dialling and the wait for the header are bounded) and of a bounded SQL
statement (`busy_timeout`). In `ControlPlane` only the client's own steps and
its deadline are fair, and the evaluations: the server need not answer. In
`EngineLife` strong fairness of the arrival of main at its `stop` case (a select
over ready channels picks each of them sooner or later) and of its turn at the
mutex (Go hands a mutex to a waiter that starves). No fairness of operators,
resumers, watchers, capture streams or clients: nobody has to act. The server's
reaction to a disconnect is fair for the paths on which net/http cancels the
context. In `ProxyConnections` reading and handling a request is fair; what a
handler waits for is not (`HandlerGoesOn` may never happen), except that the end
of its context reaches it (`ContextEnds`).

## 4. Proofs

All hold for every value of the constants within the named assumptions.

**BreakpointProofs.** `TypeCorrect`. `ResumeSafe` (`ResumeKeepsItsWord`) from the
inductive invariant `IInv`: an entry's `Done` is closed exactly by acknowledged
calls, and what was written was written by a call that found the entry; without
the second part the read in `PauseReturn` could return anything. `RegistryExact`
(`RegistryIsHeld`) for any request IDs, with the two exceptions the code makes: an
ID that is reused (`IdReused`) and an entry whose call panicked.
`ManagerImplementsContract`: initial states and steps of the manager map to those of
`PauseContract`, a panicked call to a lost request. `AlwaysToldOnce` (`ToldOnce`) from
`ToldInv`: a pause that is in a channel, or was received, has begun and has the
channel no longer among those still to be sent to, so that a second send of it
is impossible although channels are read, closed and dropped meanwhile.
For the rules: `RulesTypeCorrect` (`RulesTypeOK`), with `SlotInv`: the semaphore
counts exactly the evaluations inside a match, which is what keeps it within
`MaxRegex` when callers leave and goroutines go on. `MatchAlwaysTrue`
(`MatchIsTrue`) from `MatchInv`: rules that were taken out of the snapshot
without an answer did not ask for the message (`Sought`), and an answer on its
way is one of the snapshot that did (`Told`). Both are theorems of `RulesSpec`.

The control plane, in the same module because its proof rests on the rules:
`ServerKeepsToRules` shows that `ControlSpec` implements `RulesSpec`. Each
handler step, each step of the proxy and each command is an operation of the
manager or leaves maps and evaluations alone (`ServeRules`, `EnvironmentRules`);
what has to be known for it is that the rule in a call that passes `ValidRule` is
one of `Rule`, also the one `breakpoints enable` makes out of a list. With it
`ServedMatchesTrue` carries `RulesTypeOK` and `MatchIsTrue` over to the server,
and `ControlTypeCorrect` adds the types of the rest, the token buckets included.

`ExitAlwaysTrue` (`ExitIsTrue`) from `ControlInv`, a conjunction over the clients:
which call can be at which stage of the server (`StageOK`); that a call has
changed something exactly from the step on that does it, and that an answer
which claims no change, or success, is then impossible, or true (`EffectOK`);
what a list of rules holds (`ListOK`); which call a command is at (`RpcOK`); and
`ExitOK`, the property with one more part: when a command has exited with a code
that speaks of its change, its call is answered or only reads (`Settled`).
Without that part the property is not inductive, since a handler goes on after
its client has given up and exited; it holds because giving up ends in code 7,
which claims nothing. The proof has one lemma for what a step of the server may
do (`ServerStep`, shown once per handler), one for what a command may send
(`MaySend`) and how it may exit (`MayExit`), and one per kind of command.

`SearchAlwaysFinds` (`SearchFindsStayer`) from `SearchInv`: as long as a search
runs, the transaction is behind the page it has asked for, or the page that was
read holds it or ends before it (`Ahead`). A step of the history may move a row
away from the head or remove it, never nearer (`Moves`): shown for a capture, a
prune and a clear. `ControlServer` gives every captured transaction a number of its
own, so the theorem is not about a transaction that is stored again under the ID
of an older one, which moves it to the head.

**LimiterProofs.** `LimiterTypeCorrect`; `NoGhosts`, through reloads, by
comparing the counter with the set of connections in flight (cardinality lemmas
for adding and removing one); `CappedUntilReload`, which needs in addition that
until the first reload (`gen = 0`) the counter is exact. `RateAlwaysHolds`
(`RateHolds`): the balance of each bucket, of every generation, is kept by every
step; the invariant adds that a connection holds no bucket before it has looked one
up and holds one when it takes a token (`BucketInv`), without which a connection
could be counted against a bucket that never gave it a token.

**PluginProofs.** `RuntimeTypeCorrect`; `DrainSafe` (`DrainExact`), assuming that
removals of one name follow each other (`UnregistersSequential`; section 3 says
what happens otherwise). The invariant `DInv` says who may still be waiting for
which registration, which is what makes the delete by name hit the right entry.

**HistoryProofs.** `PairsAlwaysMatch`: a row is always under its writer's ID, and
whoever writes a request also owns the response under that ID; holds on any
connections and any reuse of IDs by clients, with fresh IDs for imports
(`ImportIdsFresh`). `EnforcedIsWhole`: until a statement has run on a connection
without foreign keys (`lax`), every response and frame has its request.
`NoOrphans` on a single connection (`SingleConnection`). `PruneAlwaysStops`
(the action property `PruneStopsAtLimit`) for any number of pruners that overlap:
what a pruner has decided to delete is no more than the rows above its limit and
those that others have deleted since it counted (`taken`), because rows are added
or replaced otherwise (`Room`). `HistoryTypeCorrect`: the clock counts the
transactions that have made their records (`Clocked`), whatever dates an import
brings, and a pruner never decides to delete more rows than there are IDs.
`CaptureAlwaysBounded`: from `CaptureInv`, a buffer never holds more than `ChanCap`,
and a panic of `StoreTransaction` needs a stream that has left and was still to be
notified. No run checks these two.

**GuardProofs.** `CacheAlwaysCoherent`: the type invariant and the agreement of
map and list are inductive together; each change of the list (move to the front,
drop, replace, add) has a lemma about its keys. `CircuitNeedsEvidence`: the
counters are a lower bound on the run of failures, or of successes, at the end of
`log` (`Evidence`). `ShapingKeepsLimit`: a transaction past the shaping hook that
is not mocked has a place (`Placed`), so that every `OnResponse` that decrements
gives back a place that was counted; without that part a rejected request could
give back another's. `HitsAlwaysTrue` (`HitIsTrue`): every entry of the list is the
response of a transaction that had one, under the key it has now (`ListTrue`),
and the key of a transaction past its round trip is no longer edited
(`PastEdits`), without which an operator's edit could falsify an entry.

**PipelineProofs.** `PipelineTypeCorrect`; `AlwaysAnsweredOnce` (`AnsweredOnce`),
`HistoryAlwaysTrue` (`HistoryIsTrue`), `AlwaysForwardedAsDecided`
(`ForwardedAsDecided`) and `HooksAlwaysSee` (`HooksSeeResponses`) from one
invariant, `PipelineInv`, about each transaction: until its end it has no answer
but an upgrade (`Unanswered`), at its end it has one, or nothing more when it
panicked (`Ended`), what is recorded is the response
that will be written (`Recorded`), what went upstream is the request as it was
decided (`Forwarded`), and which hooks have run at which stage (`Responded`). The
properties speak of the end of a transaction and are not inductive: which
answer is the first is settled stages earlier.

**LifeProofs.** `LifeTypeCorrect`; `DiskAlwaysWhole` (`DiskWhole`) from `SchemaInv`
(what an open migration has added so far, and that a database is migrated from
"prune" on) and `AuthorityInv` (which of the two files have been written at each
step of `save`, and that a start which saves a new authority finds none that is
trusted, or gives up the one that `load` failed on); `ReloadAlwaysWhole`
(`ReloadIsWhole`) from `ReloadInv`: the mutex is held by the reload that is
between its groups, the groups already applied are those of its file, before the
first of them all settings are those of the last one, and the copies in use follow
the shared configuration; `AlwaysUnforced` (`NeverForced`) from `WaitInv`,
which bounds the clock: only the gRPC server drains, and at most for one unit of
five seconds.

**ConnectionProofs.** `RelayAlwaysFaithful` (`RelayFaithful`) from `RelayInv`: what
was sent is what was recorded and what is on the wire, what was recorded is what
arrived and the one frame the pump holds (`Flow`), the stages at which it holds one
(`StageInv`), and that with both sides there the relay is cancelled only when a close
frame has arrived (`CloseInv`, for the last part).
`CertAlwaysSound` (`CertSound`): the LRU (`CacheInv`, map and list) and the
handshakes that are generating a certificate (`CertInv`). `AlwaysHandledAsSent`
(`HandledAsSent`) from `UnitInv`: what was handled comes before what has arrived,
and that before what is still to come, and a rest of a body, handled or not, follows
a handled request that left one.

### Assumptions on constants

Besides sizes and types: `StoryAssumption` (a database of version 1 has the
columns of the migration: only a committed migration writes the version),
`FileAssumption` (a file that parses is a configuration, whatever its values),
`ColumnsAssumption` (a finite list of columns), `PlansAssumption` (a client numbers its
units as it sends them, and none it sends is a rest), `ScriptAssumption` (WebSocket
frames are of the four kinds the code distinguishes), `RuleAssumption` (rules are
records of the proto's fields), and that the values that stand for "nothing" are
not values of what they stand in for (`NilAssumption`, `NoneAssumption`,
`StatusAssumption`). For the control plane: `ScenarioAssumption` and
`StartAssumption` (shapes of a scenario and of the first tables, and `None` is no
number), `RuleSetAssumption` (`Rule` is closed under what the client does to a rule:
dropping the criteria its flags do not know and switching it on or off) and
`CommandAssumption` (only commands with an output flag have a file; IDs of rules are
from `RuleId`; a page size is a natural number, where 0 stands for the negative
ones too, which the server treats alike). TLC evaluates all of them in the runs.

### What the proofs changed in the models

`Left` in `ProxyConnections` had two arms that could both apply to one request;
TLC takes the first, the logic may take either, and the proof of `HandledAsSent`
failed there. Its arms are disjoint now, in the order of the code.

In `ControlServer` a fresh ID was one chosen by `CHOOSE`, the same in every
behaviour; it is now any ID not in use (`IdFor`). A query without criteria has no
`WHERE` clause (`Where`), where it used to be filtered by a criterion that is always
true, and `history get` sends no criteria (`PageAt`), as in the code. The names of
templates in the instance, `login` and `nothing`, became model values, which TLC
can compare with IDs and with `None`.

### Only model-checked

Every liveness property: liveness under fairness is outside what the prover can
do (`ResumedGoesOn`, `TimeoutReleases`, `NeverWaits`, `UnregisterReturns`,
`EveryRequestEnds`, `DisconnectUnblocks`, `StoreReturns`, `CommandEnds`,
`EvaluationEnds`, `ShutdownEnds`, `ConnectionEnds`). Every other property that a
passing run checks is a theorem, some of them under a hypothesis about the
callers that is named above.

## 5. Not modelled

* Conversions without state: HAR, GraphQL, OpenAPI and the other contract
  formats, learning, diffs, JSON output and text of the client, the terminal UI.
* Generated gRPC code, metrics, the wording of logs, certificate contents,
  header filtering, gRPC trailers.
* What a rewrite rule's pattern matches and the order of priorities (a pattern
  match and an `ORDER BY`), the counters of the remaining bundled plugins, the
  load generator and `RunScenario`, which no server or command starts.
* The editor extension, except as a client that makes any one call.

`PROJECT.json` lists each of them as `not_modelled` or `partly` with the reason.

## 6. Plan

Modelled, in this order: breakpoint manager, admission control, plugin runtime,
pipelines, history, guard plugins; then rules and matching, control API and
client, process life, connections with certificates and WebSockets. Proved:
every safety property of the passing runs, and the two refinements
(`PauseContract`, `RulesSpec`). What could follow:

1. The remaining bundled plugins: rate limiter, retry loop, the first match of
   the policy engine, the load generator.
2. Composition: the pipeline with the real manager in place of its outcomes, so
   that findings about `Pause` are seen from the client.
