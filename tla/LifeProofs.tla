------------------------------ MODULE LifeProofs ------------------------------
(***************************************************************************)
(* Proofs about EngineLife, for any configuration files, any disk a first  *)
(* start may find, any columns a migration adds, and any number of starts, *)
(* crashes, edits and reloads.                                             *)
(***************************************************************************)
EXTENDS EngineLife, TLAPS

USE ColumnsAssumption, NoneAssumption

(* Stages of main: before the servers run, with the schema migrated, while *)
(* a new authority is saved, with an authority that is saved.              *)
Saving == {"certTrunc", "certWrite", "keyTrunc", "keyWrite"}
Early == {"off", "check", "contracts", "open", "migrate", "prune", "ca", "plugins", "start"} \cup Saving
Serving == Up \cup Stopping
Migrated == {"prune", "ca", "plugins", "start"} \cup Saving \cup Serving
Saved == {"plugins", "start"} \cup Serving
Locked == {"load", "engine", "limits", "history"}

Authority == [cert : Nat, key : Nat]

LifeType ==
    /\ ConfigFile(file) /\ disk \in Disk
    /\ tx # None => tx \in [cols : SUBSET AllColumns, done : 0..Len(Columns)]
    /\ pc \in Early \cup Serving
    /\ cfg \in Config /\ next \in [Reloads -> Config \cup {None}] /\ wanted \in Config \cup {None}
    /\ inUse \in [pause : Int, rate : Int, conc : Int] \cup {None}
    /\ srv \in [Servers -> {"off", "starting", "serving", "draining", "returned"}]
    /\ calling \in BOOLEAN
    /\ lock \in Reloads \cup {None} /\ at \in [Reloads -> {"idle", "lock"} \cup Locked]
    /\ starts \in Nat /\ clock \in Int /\ since \in Int

(* The schema: what the version promises holds whenever it is read, and the *)
(* open transaction has run the statements it counts.                       *)
SchemaInv ==
    /\ disk.version = 1 => disk.cols = AllColumns
    /\ pc \in Migrated => disk.version = 1
    /\ tx # None => /\ pc = "migrate"
                    /\ \A i \in 1..tx.done : Columns[i] \in tx.cols

(* The authority: while it is trusted the files on disk are its own, and a  *)
(* start that saves a new one finds none that is.                           *)
AuthorityInv ==
    /\ pc \in Saving \cup Saved => ca \in Authority /\ ca.cert = ca.key
    /\ pc \in Saving => trusted = None
    /\ pc \in {"keyTrunc", "keyWrite"} => disk.cert = ca.cert
    /\ pc \in Saved => disk.cert = ca.cert /\ disk.key = ca.key
    /\ trusted # None => /\ trusted \in Authority /\ trusted.cert = trusted.key
                         /\ disk.cert = trusted.cert /\ disk.key = trusted.key
    /\ pc \in Serving => ca = trusted

(* The fields a reload sets agree. *)
Agree(c, d) ==
    /\ c.pause = d.pause /\ c.body = d.body /\ c.rate = d.rate /\ c.conc = d.conc /\ c.rows = d.rows

(* Reloads: one at a time, and each has applied the steps behind it. *)
ReloadInv ==
    /\ pc \in Early => /\ lock = None /\ \A a \in Reloads : at[a] = "idle"
                       /\ calling = FALSE /\ srv["grpc"] = "off"
    /\ pc \in Early \ {"off"} => wanted = cfg
    /\ pc # "off" => wanted \in Config
    /\ pc \in Serving => inUse = [pause |-> cfg.pause, rate |-> cfg.rate, conc |-> cfg.conc]
    /\ pc \in Serving /\ lock = None => Agree(cfg, wanted)
    /\ at["main"] # "idle" => pc = "reloading"
    /\ \A a \in Reloads :
          /\ at[a] \in Locked => lock = a
          /\ at[a] \in {"load", "engine"} => Agree(cfg, wanted)
          /\ at[a] \in {"engine", "limits", "history"} => next[a] \in Config
          /\ at[a] \in {"limits", "history"} => cfg.pause = next[a].pause /\ cfg.body = next[a].body
          /\ at[a] = "history" => cfg.rate = next[a].rate /\ cfg.conc = next[a].conc

(* Waiting: only a call of the gRPC server makes time pass, and for a unit at most. *)
WaitInv ==
    /\ clock \in 0..1 /\ since \in 0..1
    /\ \A s \in Servers : srv[s] = "draining" => s = "grpc"
    /\ code # "forced"

LifeInv == LifeType /\ SchemaInv /\ AuthorityInv /\ ReloadInv /\ WaitInv
-----------------------------------------------------------------------------
(* Configurations *)

(* The built-in defaults are a configuration. *)
LEMMA DefaultsAreConfig == Defaults \in Config
BY DEF Defaults, Config, DefaultRate, DefaultConc

(* Whatever the file holds, what is loaded is a configuration. *)
LEMMA LoadIsConfig == ASSUME NEW f, ConfigFile(f) PROVE LoadConfig(f) \in Config
<1>1. CASE f.kind = "missing"
  BY <1>1, DefaultsAreConfig DEF LoadConfig, Config
<1>2. CASE f.kind = "syntax"
  BY <1>2, DefaultsAreConfig DEF LoadConfig
<1>3. CASE f.kind = "mistyped"
  BY <1>3 DEF LoadConfig, ConfigFile
<1>4. CASE f.kind = "ok"
  <2> DEFINE token == IF EnvToken # "" THEN EnvToken ELSE f.values.token
             bind == IF f.values.bind # "" THEN f.values.bind
                     ELSE IF f.values.tls /\ token # "" THEN "remote" ELSE "loopback"
  <2>1. f.values \in Config /\ token \in {"", EnvToken, "configured"} /\ bind \in {"", "loopback", "remote"}
    BY <1>4 DEF ConfigFile, Config
  <2>2. LoadConfig(f) = [f.values EXCEPT !.token = token, !.bind = bind]
    BY <1>4 DEF LoadConfig
  <2> HIDE DEF token, bind
  <2>3. QED
    BY <2>1, <2>2 DEF Config
<1>5. QED
  BY <1>1, <1>2, <1>3, <1>4 DEF ConfigFile

(* Defaults put in for zeros leave a configuration. *)
LEMMA ValidatedIsConfig == ASSUME NEW c \in Config PROVE applyValidationDefaults(c) \in Config
<1> DEFINE r == IF c.rate = 0 THEN DefaultRate ELSE c.rate
           n == IF c.conc = 0 THEN DefaultConc ELSE c.conc
<1>0. c.rate \in Int /\ c.conc \in Int
  BY DEF Config
<1>1. r \in Int /\ n \in Int
  BY <1>0 DEF DefaultRate, DefaultConc
<1>2. applyValidationDefaults(c) = [c EXCEPT !.rate = r, !.conc = n]
  BY DEF applyValidationDefaults
<1> HIDE DEF r, n
<1>3. QED
  BY <1>1, <1>2 DEF Config

(* The columns the migrations add, by index and as a set. *)
LEMMA ColumnFacts ==
  /\ Len(Columns) \in Nat /\ DOMAIN Columns = 1..Len(Columns)
  /\ \A i \in 1..Len(Columns) : Columns[i] \in AllColumns
  /\ \A c \in AllColumns : \E i \in 1..Len(Columns) : c = Columns[i]
<1>1. Len(Columns) \in Nat /\ DOMAIN Columns = 1..Len(Columns)
  BY ColumnsAssumption
<1>2. QED
  BY <1>1 DEF AllColumns

-----------------------------------------------------------------------------
(* The end of the process: what is on disk stays, and the invariant with it. *)
LEMMA EndKeeps ==
  ASSUME LifeInv, NEW how, ProcessEnds(how), how # "forced"
  PROVE  LifeInv'
<1> USE DEF LifeInv, ProcessEnds
<1>1. LifeType'
  <2>1. /\ ConfigFile(file)' /\ disk' \in Disk /\ tx' = None /\ pc' \in Early /\ cfg' \in Config
        /\ inUse' = None /\ wanted' = None /\ lock' = None
    BY DefaultsAreConfig DEF LifeType, Early, ConfigFile
  <2>2. /\ next' \in [Reloads -> Config \cup {None}] /\ at' \in [Reloads -> {"idle", "lock"} \cup Locked]
        /\ srv' \in [Servers -> {"off", "starting", "serving", "draining", "returned"}]
        /\ starts' \in Nat /\ clock' \in Int /\ since' \in Int
    BY DEF LifeType, Locked
  <2>3. calling' \in BOOLEAN
    BY Zenon
  <2>4. /\ inUse' \in [pause : Int, rate : Int, conc : Int] \cup {None} /\ wanted' \in Config \cup {None}
        /\ lock' \in Reloads \cup {None} /\ pc' \in Early \cup Serving
    BY <2>1
  <2>5. QED
    BY <2>1, <2>2, <2>3, <2>4 DEF LifeType
<1>2. SchemaInv'
  BY DEF SchemaInv, Migrated, Saving, Serving, Up, Stopping
<1>3. AuthorityInv'
  BY DEF AuthorityInv, Saving, Saved, Serving, Up, Stopping
<1>4. ReloadInv'
  BY DEF ReloadInv, Early, Saving, Serving, Up, Stopping, Reloads, Locked, Servers
<1>5. WaitInv'
  BY DEF WaitInv, Servers
<1>6. QED
  BY <1>1, <1>2, <1>3, <1>4, <1>5
-----------------------------------------------------------------------------
(* The start *)

(* A step of the start that leaves the configuration and the servers alone. *)
LEMMA StartKeeps ==
  ASSUME LifeInv, pc \in Early \ {"off"}, pc' \in Early \ {"off"},
         UNCHANGED <<cfg, wanted, lock, at, next, srv, calling, clock, since, code>>
  PROVE  ReloadInv' /\ WaitInv'
<1>1. \A l \in Early : l \notin Serving /\ l # "reloading"
  BY DEF Early, Saving, Serving, Up, Stopping
<1>2. ReloadInv'
  <2>1. /\ lock' = None /\ (\A a \in Reloads : at'[a] = "idle") /\ calling' = FALSE /\ srv'["grpc"] = "off"
        /\ wanted' = cfg' /\ wanted' \in Config
    BY DEF LifeInv, ReloadInv
  <2>2. QED
    BY <1>1, <2>1 DEF ReloadInv, Reloads, Locked
<1>3. WaitInv'
  BY DEF LifeInv, WaitInv
<1>4. QED
  BY <1>2, <1>3

(* The types of a step that changes only main's place, the disk and the authority. *)
LEMMA TypeKeeps ==
  ASSUME LifeType, ConfigFile(file)', disk' \in Disk, tx' # None => tx' \in [cols : SUBSET AllColumns, done : 0..Len(Columns)],
         pc' \in Early \cup Serving,
         UNCHANGED <<cfg, next, wanted, inUse, srv, calling, lock, at, starts, clock, since>>
  PROVE  LifeType'
BY DEF LifeType

(* What is known of the disk and of the authority carries over to another place of main. *)
LEMMA DiskKeeps ==
  ASSUME LifeInv, UNCHANGED <<disk, tx, ca, trusted>>,
         \/ pc' = pc
         \/ tx = None /\ pc' \notin Migrated
         \/ pc \in Migrated \ Saved /\ pc' \in Migrated \ (Saving \cup Saved)
         \/ pc \in {"plugins", "start"} /\ pc' \in {"plugins", "start"}
         \/ pc \in Serving /\ pc' \in Serving
  PROVE  SchemaInv' /\ AuthorityInv'
<1> USE DEF LifeInv, SchemaInv, AuthorityInv, Migrated, Saving, Saved, Serving, Up, Stopping
<1>1. CASE pc' = pc
  BY <1>1
<1>2. CASE tx = None /\ pc' \notin Migrated
  BY <1>2
<1>3. CASE pc \in Migrated \ Saved /\ pc' \in Migrated \ (Saving \cup Saved)
  BY <1>3
<1>4. CASE pc \in {"plugins", "start"} /\ pc' \in {"plugins", "start"}
  BY <1>4
<1>5. CASE pc \in Serving /\ pc' \in Serving
  BY <1>5
<1>6. QED
  BY <1>1, <1>2, <1>3, <1>4, <1>5

(* What the start does, one step after the other. *)
LEMMA BootStep == ASSUME LifeInv, Boot PROVE LifeInv'
<1>1. /\ pc = "off" /\ starts' = starts + 1
      /\ UNCHANGED <<file, disk, tx, ca, clock, since, trusted, inUse, lock, at, next, calling>>
  BY DEF Boot, diskVars
<1>2. CASE /\ pc' \in {"check", "contracts"} /\ cfg' = LoadConfig(file) /\ wanted' = cfg' /\ UNCHANGED code
           /\ Starting({s \in {"metrics"} : cfg'.metrics} \cup {s \in {"health"} : cfg'.health})
  <2>1. cfg' \in Config /\ wanted' \in Config
    BY <1>2, LoadIsConfig DEF LifeInv, LifeType
  <2>2. /\ srv' \in [Servers -> {"off", "starting", "serving", "draining", "returned"}]
        /\ \A s \in Servers : srv'[s] \in {srv[s], "starting"}
        /\ srv'["grpc"] = srv["grpc"]
    BY <1>2 DEF LifeInv, LifeType, Starting, Servers
  <2>3. LifeType'
    BY <1>1, <1>2, <2>1, <2>2 DEF LifeInv, LifeType, Early
  <2>4. SchemaInv' /\ AuthorityInv'
    BY <1>1, <1>2 DEF LifeInv, SchemaInv, AuthorityInv, Migrated, Saving, Saved, Serving, Up, Stopping
  <2>5. ReloadInv'
    <3>1. /\ lock' = None /\ (\A a \in Reloads : at'[a] = "idle") /\ calling' = FALSE /\ srv'["grpc"] = "off"
      BY <1>1, <2>2 DEF LifeInv, ReloadInv, Early
    <3>2. QED
      BY <1>2, <2>1, <3>1 DEF ReloadInv, Early, Saving, Serving, Up, Stopping, Reloads, Locked
  <2>6. WaitInv'
    BY <1>1, <1>2, <2>2 DEF LifeInv, WaitInv
  <2>7. QED
    BY <2>3, <2>4, <2>5, <2>6 DEF LifeInv
<1>3. CASE code' = "fatal" /\ UNCHANGED <<pc, cfg, wanted, srv>>
  <2>1. LifeType'
    BY <1>1, <1>3 DEF LifeInv, LifeType
  <2>2. SchemaInv' /\ AuthorityInv'
    BY <1>1, <1>3, DiskKeeps
  <2>3. ReloadInv' /\ WaitInv'
    BY <1>1, <1>3 DEF LifeInv, ReloadInv, WaitInv
  <2>4. QED
    BY <2>1, <2>2, <2>3 DEF LifeInv
<1>4. QED
  BY <1>2, <1>3 DEF Boot
(* A step of main that only moves on, or the end of the process. *)
LEMMA MoveKeeps ==
  ASSUME LifeInv, NEW label \in Early \ {"off"}, pc \in Early \ {"off"}, Goto(label),
         UNCHANGED <<diskVars, ca, trusted, cfg, inUse, lock, at, next, wanted, netVars>>,
         \/ tx = None /\ label \notin Migrated
         \/ pc \in Migrated \ Saved /\ label \in Migrated \ (Saving \cup Saved)
         \/ pc \in {"plugins", "start"} /\ label \in {"plugins", "start"}
  PROVE  LifeInv'
<1>1. pc' = label /\ UNCHANGED <<file, disk, tx, srv, calling, starts, clock, since, code>>
  BY DEF Goto, diskVars, netVars
<1>2. LifeType'
  BY <1>1, TypeKeeps DEF LifeInv, LifeType
<1>3. SchemaInv' /\ AuthorityInv'
  BY <1>1, DiskKeeps
<1>4. ReloadInv' /\ WaitInv'
  BY <1>1, StartKeeps
<1>5. QED
  BY <1>2, <1>3, <1>4 DEF LifeInv

(* A step that may fail ends the process, which keeps the invariant. *)
LEMMA MayKeeps == ASSUME LifeInv, NEW what, May(what) PROVE LifeInv'
BY EndKeeps DEF May, Fatal

(* --config-check and the check of the contracts change nothing but where main is. *)
LEMMA ConfigStep == ASSUME LifeInv, ConfigCheck \/ validateConfiguredContracts PROVE LifeInv'
<1>1. CASE ConfigCheck
  BY <1>1, EndKeeps DEF ConfigCheck, Fatal
<1>2. CASE validateConfiguredContracts
  <2>1. CASE Fatal
    BY <2>1, EndKeeps DEF Fatal
  <2>2. CASE Goto("open") /\ UNCHANGED <<diskVars, ca, trusted, reloadVars, netVars>>
    <3>1. tx = None /\ pc = "contracts"
      BY <1>2 DEF LifeInv, SchemaInv, validateConfiguredContracts
    <3>2. QED
      BY <2>2, <3>1, MoveKeeps DEF reloadVars, Early, Migrated, Saving, Serving, Up, Stopping
  <2>3. QED
    BY <1>2, <2>1, <2>2 DEF validateConfiguredContracts
<1>3. QED
  BY <1>1, <1>2

(* storage.Open gives a new database every column, and its version stays. *)
LEMMA OpenStep == ASSUME LifeInv, OpenDB PROVE LifeInv'
<1>1. CASE May("database")
  BY <1>1, MayKeeps
<1>2. CASE /\ disk' = IF disk.tables THEN disk ELSE [disk EXCEPT !.tables = TRUE, !.cols = AllColumns]
           /\ Goto("migrate") /\ UNCHANGED <<file, edits, tx, ca, trusted, reloadVars, netVars>>
  <2>1. pc = "open" /\ tx = None
    BY DEF OpenDB, LifeInv, SchemaInv
  <2>2. /\ disk' \in Disk /\ disk'.version = disk.version /\ disk'.cert = disk.cert /\ disk'.key = disk.key
        /\ disk'.cols \in {disk.cols, AllColumns}
    BY <1>2 DEF LifeInv, LifeType, Disk
  <2>3. /\ pc' = "migrate" /\ UNCHANGED <<file, tx, ca, trusted, cfg, inUse, lock, at, next, wanted, srv, calling>>
        /\ UNCHANGED <<starts, clock, since, code>>
    BY <1>2 DEF Goto, reloadVars, netVars
  <2>4. LifeType'
    BY <2>1, <2>2, <2>3, TypeKeeps DEF LifeInv, LifeType, Early
  <2>5. SchemaInv'
    BY <2>1, <2>2, <2>3 DEF LifeInv, SchemaInv, Migrated, Saving, Serving, Up, Stopping
  <2>6. AuthorityInv'
    BY <2>1, <2>2, <2>3 DEF LifeInv, AuthorityInv, Saving, Saved, Serving, Up, Stopping
  <2>7. ReloadInv' /\ WaitInv'
    BY <2>1, <2>3, StartKeeps DEF Early
  <2>8. QED
    BY <2>4, <2>5, <2>6, <2>7 DEF LifeInv
<1>3. QED
  BY <1>1, <1>2 DEF OpenDB

(* The statements of the migration run in one transaction, and the version is set with it. *)
LEMMA MigrationStep ==
  ASSUME LifeInv, MigrationBegins \/ MigrationStatement \/ MigrationCommits
  PROVE  LifeInv'
<1> USE ColumnFacts
<1>0. pc = "migrate" /\ disk \in Disk /\ disk.version \in Nat
  BY DEF MigrationBegins, MigrationStatement, MigrationCommits, LifeInv, LifeType, Disk
<1>1. ASSUME disk' \in Disk, disk'.cert = disk.cert, disk'.key = disk.key,
             tx' # None => tx' \in [cols : SUBSET AllColumns, done : 0..Len(Columns)],
             UNCHANGED <<file, edits, mainVars, reloadVars, netVars>>, SchemaInv'
      PROVE  LifeInv'
  <2>1. UNCHANGED <<pc, ca, trusted, cfg, inUse, lock, at, next, wanted, srv, calling, starts, clock, since, code>>
    BY <1>1 DEF mainVars, reloadVars, netVars
  <2>2. LifeType'
    BY <1>0, <1>1, <2>1, TypeKeeps DEF LifeInv, LifeType
  <2>3. AuthorityInv'
    BY <1>0, <1>1, <2>1 DEF LifeInv, AuthorityInv, Saving, Saved, Serving, Up, Stopping
  <2>4. ReloadInv' /\ WaitInv'
    BY <1>0, <2>1, StartKeeps DEF Early
  <2>5. QED
    BY <1>1, <2>2, <2>3, <2>4 DEF LifeInv
<1>2. CASE MigrationBegins
  <2>1. CASE disk.version > 1
    BY <1>2, <2>1, EndKeeps DEF MigrationBegins, Fatal
  <2>2. CASE disk.version = 1
    <3>1. tx = None /\ Goto("prune") /\ UNCHANGED <<diskVars, ca, trusted, reloadVars, netVars>>
      BY <1>2, <2>2 DEF MigrationBegins
    <3>2. pc' = "prune" /\ UNCHANGED <<file, disk, tx, ca, trusted, cfg, inUse, lock, at, next, wanted, srv, calling>>
          /\ UNCHANGED <<starts, clock, since, code>>
      BY <3>1 DEF Goto, diskVars, reloadVars, netVars
    <3>3. LifeType'
      BY <3>2, TypeKeeps DEF LifeInv, LifeType, Early
    <3>4. SchemaInv' /\ AuthorityInv'
      BY <2>2, <3>1, <3>2 DEF LifeInv, SchemaInv, AuthorityInv, Saving, Saved, Serving, Up, Stopping
    <3>5. ReloadInv' /\ WaitInv'
      BY <1>0, <3>2, StartKeeps DEF Early
    <3>6. QED
      BY <3>3, <3>4, <3>5 DEF LifeInv
  <2>3. CASE ~(disk.version > 1) /\ disk.version # 1
    <3>1. /\ tx' = [cols |-> disk.cols, done |-> 0]
          /\ UNCHANGED <<file, edits, disk, mainVars, reloadVars, netVars>>
      BY <1>2, <2>3 DEF MigrationBegins
    <3>2. tx' \in [cols : SUBSET AllColumns, done : 0..Len(Columns)] /\ tx'.done = 0
      BY <1>0, <3>1 DEF Disk
    <3>3. SchemaInv'
      BY <1>0, <3>1, <3>2 DEF LifeInv, SchemaInv, mainVars
    <3>4. QED
      BY <1>0, <1>1, <3>1, <3>2, <3>3
  <2>4. QED
    BY <2>1, <2>2, <2>3
<1>3. CASE MigrationStatement
  <2>1. CASE May("database")
    BY <2>1, MayKeeps
  <2>2. CASE /\ tx' = [cols |-> tx.cols \cup {Columns[tx.done + 1]}, done |-> tx.done + 1]
             /\ UNCHANGED <<file, edits, disk, mainVars, reloadVars, netVars>>
    <3>1. tx # None /\ tx.done < Len(Columns) /\ tx \in [cols : SUBSET AllColumns, done : 0..Len(Columns)]
      BY <1>3 DEF MigrationStatement, LifeInv, LifeType
    <3>2. tx' \in [cols : SUBSET AllColumns, done : 0..Len(Columns)]
      BY <2>2, <3>1
    <3>3. \A i \in 1..tx'.done : Columns[i] \in tx'.cols
      <4>1. \A i \in 1..tx.done : Columns[i] \in tx.cols
        BY <3>1 DEF LifeInv, SchemaInv
      <4>2. \A i \in 1..(tx.done + 1) : i \in 1..tx.done \/ i = tx.done + 1
        BY <3>1
      <4>3. QED
        BY <2>2, <4>1, <4>2
    <3>4. SchemaInv'
      BY <1>0, <2>2, <3>3 DEF LifeInv, SchemaInv, mainVars
    <3>5. QED
      BY <1>0, <1>1, <2>2, <3>2, <3>4
  <2>3. QED
    BY <1>3, <2>1, <2>2 DEF MigrationStatement
<1>4. CASE MigrationCommits
  <2>1. CASE May("database")
    BY <2>1, MayKeeps
  <2>2. CASE /\ disk' = [disk EXCEPT !.cols = tx.cols, !.version = 1] /\ tx' = None
             /\ UNCHANGED <<file, edits, mainVars, reloadVars, netVars>>
    <3>1. /\ tx # None /\ tx.done = Len(Columns) /\ tx.cols \subseteq AllColumns
          /\ \A i \in 1..tx.done : Columns[i] \in tx.cols
      BY <1>4 DEF MigrationCommits, LifeInv, LifeType, SchemaInv
    <3>2. tx.cols = AllColumns
      BY <3>1
    <3>3. /\ disk' \in Disk /\ disk'.cols = AllColumns /\ disk'.version = 1
          /\ disk'.cert = disk.cert /\ disk'.key = disk.key
      BY <1>0, <2>2, <3>2 DEF Disk
    <3>4. SchemaInv'
      BY <1>0, <2>2, <3>3 DEF SchemaInv
    <3>5. QED
      BY <1>1, <2>2, <3>3, <3>4
  <2>3. QED
    BY <1>4, <2>1, <2>2 DEF MigrationCommits
<1>5. QED
  BY <1>2, <1>3, <1>4

(* The pruner, the plugins: nothing the invariant speaks of changes but main's place. *)
LEMMA PruneStep == ASSUME LifeInv, StartPeriodicPrune PROVE LifeInv'
<1>1. pc = "prune" /\ Goto("ca") /\ UNCHANGED <<diskVars, ca, trusted, cfg, inUse, lock, at, next, wanted, netVars>>
  BY DEF StartPeriodicPrune
<1>2. QED
  BY <1>1, MoveKeeps DEF Early, Migrated, Saving, Saved, Serving, Up, Stopping

(* Registering the plugins changes nothing on disk. *)
LEMMA PluginsStep == ASSUME LifeInv, initPlugins PROVE LifeInv'
<1>1. CASE May("otel")
  BY <1>1, MayKeeps
<1>2. CASE Goto("start") /\ UNCHANGED <<diskVars, ca, trusted, reloadVars, netVars>>
  <2>1. pc = "plugins" /\ UNCHANGED <<diskVars, ca, trusted, cfg, inUse, lock, at, next, wanted, netVars>>
    BY <1>2 DEF initPlugins, reloadVars
  <2>2. QED
    BY <1>2, <2>1, MoveKeeps DEF Early
<1>3. QED
  BY <1>1, <1>2 DEF initPlugins

(* A step of the start that changes the authority, or its files. *)
LEMMA AuthorityKeeps ==
  ASSUME LifeInv, NEW label \in {"plugins"} \cup Saving, pc \in {"ca"} \cup Saving, Goto(label),
         disk' \in Disk, disk'.version = disk.version, disk'.cols = disk.cols, AuthorityInv',
         UNCHANGED <<file, edits, tx, reloadVars, netVars>>
  PROVE  LifeInv'
<1>1. pc' = label /\ UNCHANGED <<file, tx, cfg, inUse, lock, at, next, wanted, srv, calling, starts, clock, since, code>>
  BY DEF Goto, reloadVars, netVars
<1>2. LifeType'
  BY <1>1, TypeKeeps DEF LifeInv, LifeType, Early
<1>3. SchemaInv'
  BY <1>1 DEF LifeInv, SchemaInv, Migrated, Saving
<1>4. ReloadInv' /\ WaitInv'
  BY <1>1, StartKeeps DEF Early, Saving
<1>5. QED
  BY <1>2, <1>3, <1>4 DEF LifeInv

(* NewCertAuthority: a pair on disk is used, or given up; without one nobody has trusted any. *)
LEMMA AuthorityStep == ASSUME LifeInv, NewCertAuthority PROVE LifeInv'
<1>1. /\ pc = "ca" /\ disk \in Disk /\ starts \in Nat
      /\ UNCHANGED <<file, edits, disk, tx, reloadVars, netVars>>
  BY DEF NewCertAuthority, diskVars, LifeInv, LifeType
<1>2. CASE /\ caLoads(disk) /\ Goto("plugins")
           /\ ca' = [cert |-> disk.cert, key |-> disk.key] /\ UNCHANGED trusted
  <2>1. ca' \in Authority /\ ca'.cert = ca'.key /\ disk.cert = ca'.cert /\ disk.key = ca'.key
    BY <1>1, <1>2 DEF caLoads, Authority, Disk
  <2>2. AuthorityInv'
    BY <1>1, <1>2, <2>1 DEF LifeInv, AuthorityInv, Goto, Saving, Serving, Up, Stopping
  <2>3. QED
    BY <1>1, <1>2, <2>2, AuthorityKeeps
<1>3. CASE /\ ca' = [cert |-> starts, key |-> starts] /\ Goto("certTrunc")
           /\ trusted' = IF caLoads(disk) THEN None ELSE trusted
  <2>1. ca' \in Authority /\ ca'.cert = ca'.key
    BY <1>1, <1>3 DEF Authority
  <2>2. trusted' = None
    BY <1>3 DEF LifeInv, AuthorityInv, caLoads, Authority
  <2>3. AuthorityInv'
    BY <1>1, <1>3, <2>1, <2>2 DEF AuthorityInv, Goto, Saving, Saved, Serving, Up, Stopping
  <2>4. QED
    BY <1>1, <1>3, <2>3, AuthorityKeeps DEF Saving
<1>4. QED
  BY <1>2, <1>3 DEF NewCertAuthority

(* save: the certificate is whole before the key is touched. *)
LEMMA SaveKeeps == ASSUME LifeInv, save PROVE LifeInv'
<1>0. disk \in Disk
  BY DEF LifeInv, LifeType
<1>1. CASE SaveStep("certTrunc", "cert", None, "certWrite")
  <2>1. CASE May("ca")
    BY <2>1, MayKeeps
  <2>2. CASE /\ disk' = [disk EXCEPT !["cert"] = None] /\ Goto("certWrite")
             /\ UNCHANGED <<file, edits, tx, ca, trusted, reloadVars, netVars>>
    <3>1. disk' \in Disk /\ disk'.version = disk.version /\ disk'.cols = disk.cols
      BY <1>0, <2>2 DEF Disk
    <3>2. AuthorityInv'
      BY <1>1, <2>2 DEF SaveStep, LifeInv, AuthorityInv, Goto, Saving, Saved, Serving, Up, Stopping
    <3>3. QED
      BY <1>1, <2>2, <3>1, <3>2, AuthorityKeeps DEF SaveStep, Saving
  <2>3. QED
    BY <1>1, <2>1, <2>2 DEF SaveStep
<1>2. CASE pc = "certWrite" /\ SaveStep("certWrite", "cert", ca.cert, "keyTrunc")
  <2>1. CASE May("ca")
    BY <2>1, MayKeeps
  <2>2. CASE /\ disk' = [disk EXCEPT !["cert"] = ca.cert] /\ Goto("keyTrunc")
             /\ UNCHANGED <<file, edits, tx, ca, trusted, reloadVars, netVars>>
    <3>0. ca \in Authority /\ trusted = None
      BY <1>2 DEF LifeInv, AuthorityInv, Saving
    <3>1. disk' \in Disk /\ disk'.version = disk.version /\ disk'.cols = disk.cols /\ disk'.cert = ca.cert
      BY <1>0, <2>2, <3>0 DEF Disk, Authority
    <3>2. AuthorityInv'
      BY <1>2, <2>2, <3>0, <3>1 DEF LifeInv, AuthorityInv, Goto, Saving, Saved, Serving, Up, Stopping
    <3>3. QED
      BY <1>2, <2>2, <3>1, <3>2, AuthorityKeeps DEF Saving
  <2>3. QED
    BY <1>2, <2>1, <2>2 DEF SaveStep
<1>3. CASE SaveStep("keyTrunc", "key", None, "keyWrite")
  <2>1. CASE May("ca")
    BY <2>1, MayKeeps
  <2>2. CASE /\ disk' = [disk EXCEPT !["key"] = None] /\ Goto("keyWrite")
             /\ UNCHANGED <<file, edits, tx, ca, trusted, reloadVars, netVars>>
    <3>1. disk' \in Disk /\ disk'.version = disk.version /\ disk'.cols = disk.cols /\ disk'.cert = disk.cert
      BY <1>0, <2>2 DEF Disk
    <3>2. AuthorityInv'
      BY <1>3, <2>2, <3>1 DEF SaveStep, LifeInv, AuthorityInv, Goto, Saving, Saved, Serving, Up, Stopping
    <3>3. QED
      BY <1>3, <2>2, <3>1, <3>2, AuthorityKeeps DEF SaveStep, Saving
  <2>3. QED
    BY <1>3, <2>1, <2>2 DEF SaveStep
<1>4. CASE pc = "keyWrite" /\ SaveStep("keyWrite", "key", ca.key, "plugins")
  <2>1. CASE May("ca")
    BY <2>1, MayKeeps
  <2>2. CASE /\ disk' = [disk EXCEPT !["key"] = ca.key] /\ Goto("plugins")
             /\ UNCHANGED <<file, edits, tx, ca, trusted, reloadVars, netVars>>
    <3>0. ca \in Authority /\ trusted = None /\ disk.cert = ca.cert
      BY <1>4 DEF LifeInv, AuthorityInv, Saving
    <3>1. /\ disk' \in Disk /\ disk'.version = disk.version /\ disk'.cols = disk.cols
          /\ disk'.cert = disk.cert /\ disk'.key = ca.key
      BY <1>0, <2>2, <3>0 DEF Disk, Authority
    <3>2. AuthorityInv'
      BY <1>4, <2>2, <3>0, <3>1 DEF LifeInv, AuthorityInv, Goto, Saving, Saved, Serving, Up, Stopping
    <3>3. QED
      BY <1>4, <2>2, <3>1, <3>2, AuthorityKeeps DEF Saving
  <2>3. QED
    BY <1>4, <2>1, <2>2 DEF SaveStep
<1>5. QED
  BY <1>1, <1>2, <1>3, <1>4 DEF save

(* The engine and the limiter are made from the configuration that was read, *)
(* and the first authority that serves is the one clients install.           *)
LEMMA ServeStep == ASSUME LifeInv, StartServers PROVE LifeInv'
<1>1. /\ pc = "start" /\ pc' = "running"
      /\ inUse' = [pause |-> cfg.pause, rate |-> cfg.rate, conc |-> cfg.conc]
      /\ trusted' = IF trusted = None THEN ca ELSE trusted
      /\ UNCHANGED <<file, disk, tx, ca, cfg, lock, at, next, wanted, calling, clock, since, code, starts>>
  BY DEF StartServers, Goto, diskVars
<1>2. /\ srv' \in [Servers -> {"off", "starting", "serving", "draining", "returned"}]
      /\ \A s \in Servers : srv'[s] \in {srv[s], "starting"}
  BY DEF StartServers, Starting, LifeInv, LifeType, Servers
<1>3. LifeType'
  <2>1. inUse' \in [pause : Int, rate : Int, conc : Int] /\ pc' \in Serving
    BY <1>1 DEF LifeInv, LifeType, Config, Serving, Up
  <2>2. QED
    BY <1>1, <1>2, <2>1 DEF LifeInv, LifeType
<1>4. SchemaInv'
  BY <1>1 DEF LifeInv, SchemaInv, Migrated
<1>5. AuthorityInv'
  <2>1. ca \in Authority /\ ca.cert = ca.key /\ disk.cert = ca.cert /\ disk.key = ca.key
    BY <1>1 DEF LifeInv, AuthorityInv, Saved
  <2>2. trusted # None => trusted \in Authority /\ trusted.cert = ca.cert /\ trusted.key = ca.key
    BY <2>1 DEF LifeInv, AuthorityInv
  <2>3. trusted' = ca
    BY <1>1, <2>1, <2>2 DEF Authority
  <2>4. QED
    BY <1>1, <2>1, <2>3 DEF AuthorityInv, Saving, Saved, Serving, Up
<1>6. ReloadInv'
  <2>1. /\ lock' = None /\ (\A a \in Reloads : at'[a] = "idle") /\ wanted' = cfg' /\ wanted' \in Config
    BY <1>1 DEF LifeInv, ReloadInv, Early
  <2>2. QED
    BY <1>1, <2>1 DEF ReloadInv, Agree, Reloads, Locked, Early, Saving, Serving, Up, Stopping
<1>7. WaitInv'
  BY <1>1, <1>2 DEF LifeInv, WaitInv
<1>8. QED
  BY <1>3, <1>4, <1>5, <1>6, <1>7 DEF LifeInv
-----------------------------------------------------------------------------
(* The servers, and the time of the shutdown *)

(* What a step of the servers, of time or of main's loop may change. *)
LEMMA ServingKeeps ==
  ASSUME LifeInv, UNCHANGED <<file, disk, tx, ca, trusted, cfg, next, wanted, inUse, lock, at, starts>>,
         \/ pc' = pc
         \/ pc \in Serving /\ pc' \in Serving /\ pc # "reloading",
         srv' \in [Servers -> {"off", "starting", "serving", "draining", "returned"}],
         srv["grpc"] = "off" => srv'["grpc"] = "off", calling' \in BOOLEAN, pc \in Early => calling' = calling,
         WaitInv'
  PROVE  LifeInv'
<1>0. \A l \in Early : l \notin Serving /\ l # "reloading"
  BY DEF Early, Saving, Serving, Up, Stopping
<1>1. LifeType'
  BY DEF LifeInv, LifeType, WaitInv
<1>2. SchemaInv' /\ AuthorityInv'
  BY DiskKeeps
<1>3. ReloadInv'
  <2>1. pc' \in Early => pc \in Early /\ pc' = pc
    BY <1>0
  <2>2. pc' \in Serving => pc \in Serving
    BY <1>0
  <2>3. pc \in Early => /\ lock = None /\ \A a \in Reloads : at[a] = "idle"
                       /\ calling = FALSE /\ srv["grpc"] = "off"
    BY DEF LifeInv, ReloadInv
  <2>4. pc' \in Early => /\ lock' = None /\ \A a \in Reloads : at'[a] = "idle"
                        /\ calling' = FALSE /\ srv'["grpc"] = "off"
    BY <2>1, <2>3
  <2>5. at["main"] # "idle" => pc' = "reloading"
    BY DEF LifeInv, ReloadInv
  <2>6. pc' # "off" => pc # "off"
    BY <1>0 DEF Early
  <2>7. QED
    BY <2>1, <2>2, <2>4, <2>5, <2>6 DEF LifeInv, ReloadInv, Agree
<1>4. QED
  BY <1>1, <1>2, <1>3 DEF LifeInv

(* A server listens or fails to, and returns when Shutdown is called. *)
LEMMA ListenStep == ASSUME LifeInv, NEW s \in Servers, Listen(s) \/ Shutdown(s) PROVE LifeInv'
<1>1. CASE Fatal
  BY <1>1, EndKeeps DEF Fatal
<1>2. CASE /\ srv[s] # "off" /\ UNCHANGED <<diskVars, mainVars, reloadVars, calling, story>>
           /\ \E x \in {"returned", "serving"} : srv' = [srv EXCEPT ![s] = x]
  <2>1. UNCHANGED <<pc, file, disk, tx, ca, trusted, cfg, next, wanted, inUse, lock, at, starts, calling, clock, since, code>>
    BY <1>2 DEF diskVars, mainVars, reloadVars
  <2>2. /\ srv' \in [Servers -> {"off", "starting", "serving", "draining", "returned"}]
        /\ \A t \in Servers : srv'[t] = "draining" => srv[t] = "draining"
        /\ srv["grpc"] = "off" => srv'["grpc"] = "off"
    BY <1>2 DEF LifeInv, LifeType, Servers
  <2>3. WaitInv'
    BY <2>1, <2>2 DEF LifeInv, WaitInv
  <2>4. calling' \in BOOLEAN
    BY <2>1 DEF LifeInv, LifeType
  <2>5. QED
    BY <2>1, <2>2, <2>3, <2>4, ServingKeeps
<1>3. QED
  BY <1>1, <1>2 DEF Listen, Shutdown

(* The gRPC server is stopped, gracefully or by force. *)
LEMMA StopStep == ASSUME LifeInv, StopGRPC PROVE LifeInv'
<1>1. /\ pc \in Stopping /\ srv["grpc"] \in {"serving", "draining"}
      /\ UNCHANGED <<pc, file, disk, tx, ca, trusted, cfg, next, wanted, inUse, lock, at, starts, clock, since, code>>
      /\ \E x \in {"draining", "returned"} : srv' = [srv EXCEPT !["grpc"] = x]
  BY DEF StopGRPC, diskVars, mainVars, reloadVars
<1>2. calling' \in BOOLEAN
  <2>1. CASE calling' = FALSE
    BY <2>1, Zenon
  <2>2. CASE UNCHANGED calling
    BY <2>2 DEF LifeInv, LifeType
  <2>3. QED
    BY <2>1, <2>2 DEF StopGRPC
<1>3. /\ srv' \in [Servers -> {"off", "starting", "serving", "draining", "returned"}]
      /\ \A t \in Servers : srv'[t] = "draining" => srv[t] = "draining" \/ t = "grpc"
  BY <1>1 DEF LifeInv, LifeType, Servers
<1>4. WaitInv'
  BY <1>1, <1>3 DEF LifeInv, WaitInv
<1>5. pc \notin Early
  BY <1>1 DEF Stopping, Early, Saving
<1>6. QED
  BY <1>1, <1>2, <1>3, <1>4, <1>5, ServingKeeps

(* A call begins or ends, a signal comes, main leaves its loop or shuts the tracer down. *)
LEMMA CallStep == ASSUME LifeInv, CallBegins \/ CallEnds PROVE LifeInv'
<1>1. UNCHANGED <<pc, srv, file, disk, tx, ca, trusted, cfg, next, wanted, inUse, lock, at, starts, clock, since, code>>
  BY DEF CallBegins, CallEnds, diskVars, mainVars, reloadVars
<1>2. calling' \in BOOLEAN
  BY Zenon DEF CallBegins, CallEnds
<1>3. pc \notin Early
  BY DEF CallBegins, CallEnds, LifeInv, ReloadInv
<1>4. WaitInv'
  BY <1>1 DEF LifeInv, WaitInv
<1>5. QED
  BY <1>1, <1>2, <1>3, <1>4, ServingKeeps DEF LifeInv, LifeType

(* A signal, the break out of the loop and the shutdown of tracing. *)
LEMMA SignalStep ==
  ASSUME LifeInv, NEW x, Signal(x) \/ Break \/ OtelShutdown
  PROVE  LifeInv'
<1>1. /\ UNCHANGED <<srv, calling, file, disk, tx, ca, trusted, cfg, next, wanted, inUse, lock, at, starts, clock, code>>
      /\ since' \in {since, clock}
      /\ pc' = pc \/ (pc \in Serving /\ pc' \in Serving /\ pc # "reloading")
  <2>1. CASE Signal(x)
    BY <2>1 DEF Signal, diskVars, reloadVars, netVars
  <2>2. CASE Break
    <3>1. pc = "running" /\ pc' \in Stopping
      <4>1. pc = "running" /\ pc' = (IF cfg.otel THEN "otel" ELSE "waiting")
        BY <2>2 DEF Break
      <4>2. QED
        BY <4>1 DEF Stopping
    <3>2. QED
      BY <2>2, <3>1 DEF Break, diskVars, reloadVars, netVars, Serving, Up
  <2>3. CASE OtelShutdown
    BY <2>3 DEF OtelShutdown, diskVars, reloadVars, netVars, Serving, Stopping
  <2>4. QED
    BY <2>1, <2>2, <2>3
<1>2. WaitInv'
  BY <1>1 DEF LifeInv, WaitInv
<1>3. QED
  BY <1>1, <1>2, ServingKeeps DEF LifeInv, LifeType

(* Only the gRPC server can make main wait, and its calls are ended after a unit. *)
LEMMA TickStep == ASSUME LifeInv, Tick PROVE LifeInv'
<1>1. /\ pc \in Stopping /\ clock' = clock + 1
      /\ UNCHANGED <<pc, srv, calling, file, disk, tx, ca, trusted, cfg, next, wanted, inUse, lock, at, starts, since, code>>
  BY DEF Tick, diskVars, reloadVars, netVars
<1>2. clock = 0
  <2>0. clock \in 0..1
    BY DEF LifeInv, WaitInv
  <2>1. CASE pc = "otel"
    BY <2>0, <2>1 DEF Tick
  <2>2. CASE pc = "waiting"
    <3>1. PICK s \in Servers : srv[s] \notin {"off", "returned"}
      BY <2>2 DEF Tick, AllReturned
    <3>2. srv[s] = "draining"
      BY <3>1 DEF Tick, LifeInv, LifeType
    <3>3. srv["grpc"] = "draining"
      BY <3>2 DEF LifeInv, WaitInv
    <3>4. ~(clock >= 1)
      BY <3>3 DEF Tick, GRPCEnds
    <3>5. QED
      BY <2>0, <3>4
  <2>3. QED
    BY <1>1, <2>1, <2>2 DEF Stopping
<1>3. WaitInv'
  BY <1>1, <1>2 DEF LifeInv, WaitInv
<1>4. QED
  BY <1>1, <1>3, ServingKeeps DEF LifeInv, LifeType

(* The 15 s are over only when more than a unit has passed. *)
LEMMA WaitStep == ASSUME LifeInv, WaitEnds PROVE LifeInv'
<1>1. PICK how \in {"ok", "forced"} : (IF how = "ok" THEN AllReturned ELSE clock - since >= 3) /\ ProcessEnds(how)
  BY DEF WaitEnds
<1>2. how # "forced"
  BY <1>1 DEF LifeInv, WaitInv
<1>3. QED
  BY <1>1, <1>2, EndKeeps

(* Somebody edits the configuration file. *)
LEMMA EditStep == ASSUME LifeInv, Edit PROVE LifeInv'
<1>1. /\ ConfigFile(file')
      /\ UNCHANGED <<pc, srv, calling, disk, tx, ca, trusted, cfg, next, wanted, inUse, lock, at, starts, clock, since, code>>
  BY FileAssumption DEF Edit, mainVars, reloadVars, netVars
<1>2. ConfigFile(file)'
  BY <1>1 DEF ConfigFile
<1>3. LifeType'
  BY <1>1, <1>2, TypeKeeps DEF LifeInv, LifeType
<1>4. SchemaInv' /\ AuthorityInv'
  BY <1>1, DiskKeeps
<1>5. ReloadInv' /\ WaitInv'
  BY <1>1 DEF LifeInv, ReloadInv, WaitInv
<1>6. QED
  BY <1>3, <1>4, <1>5 DEF LifeInv

(* The process is killed: memory is gone, the disk stays as it is. *)
LEMMA KilledStep == ASSUME LifeInv, Killed PROVE LifeInv'
BY EndKeeps DEF Killed
-----------------------------------------------------------------------------
(* Reloads *)

(* A reload runs while the process serves, and leaves the disk and the servers alone. *)
LEMMA ReloadKeeps ==
  ASSUME LifeInv, pc \in Serving, pc' \in Serving,
         UNCHANGED <<file, disk, tx, ca, trusted, starts, clock, since, code, srv, calling>>,
         cfg' \in Config, next' \in [Reloads -> Config \cup {None}], wanted' \in Config \cup {None},
         inUse' \in [pause : Int, rate : Int, conc : Int] \cup {None},
         lock' \in Reloads \cup {None}, at' \in [Reloads -> {"idle", "lock"} \cup Locked], ReloadInv'
  PROVE  LifeInv'
<1>1. LifeType'
  BY DEF LifeInv, LifeType
<1>2. SchemaInv' /\ AuthorityInv'
  BY DiskKeeps
<1>3. WaitInv'
  BY DEF LifeInv, WaitInv
<1>4. QED
  BY <1>1, <1>2, <1>3 DEF LifeInv

(* Who has begun a reload serves, and who is past the mutex holds it alone. *)
LEMMA ReloadFacts ==
  ASSUME LifeInv, NEW a \in Reloads, at[a] # "idle"
  PROVE  /\ pc \in Serving /\ wanted \in Config /\ cfg \in Config
         /\ inUse = [pause |-> cfg.pause, rate |-> cfg.rate, conc |-> cfg.conc]
         /\ inUse \in [pause : Int, rate : Int, conc : Int]
         /\ a = "main" => pc = "reloading"
         /\ at[a] \in Locked => /\ lock = a
                                /\ \A b \in Reloads \ {a} : at[b] \in {"idle", "lock"}
<1>1. pc \in Serving /\ pc # "off"
  BY DEF LifeInv, LifeType, ReloadInv, Serving, Up, Stopping
<1>2. wanted \in Config /\ cfg \in Config /\ inUse = [pause |-> cfg.pause, rate |-> cfg.rate, conc |-> cfg.conc]
  BY <1>1 DEF LifeInv, LifeType, ReloadInv
<1>3. inUse \in [pause : Int, rate : Int, conc : Int]
  BY <1>2 DEF Config
<1>4. ASSUME at[a] \in Locked, NEW b \in Reloads \ {a} PROVE at[b] \in {"idle", "lock"}
  BY <1>4 DEF LifeInv, LifeType, ReloadInv
<1>5. QED
  BY <1>1, <1>2, <1>3, <1>4 DEF LifeInv, ReloadInv

(* A reload arrives, and waits for its mutex. *)
LEMMA BeginStep == ASSUME LifeInv, NEW a \in Reloads, ReloadBegins(a) \/ Lock(a) PROVE LifeInv'
<1>1. UNCHANGED <<file, disk, tx, ca, trusted, starts, clock, since, code, srv, calling, cfg, inUse, next, wanted>>
  BY DEF ReloadBegins, Lock, diskVars, mainVars, netVars
<1>2. at \in [Reloads -> {"idle", "lock"} \cup Locked] /\ next \in [Reloads -> Config \cup {None}]
      /\ lock \in Reloads \cup {None} /\ wanted \in Config \cup {None} /\ cfg \in Config
      /\ inUse \in [pause : Int, rate : Int, conc : Int] \cup {None}
  BY DEF LifeInv, LifeType
<1>3. \A l \in Serving : l \notin Early /\ l # "off"
  BY DEF Early, Saving, Serving, Up, Stopping
<1>4. CASE ReloadBegins(a)
  <2>1. /\ at[a] = "idle" /\ at' = [at EXCEPT ![a] = "lock"] /\ UNCHANGED lock
        /\ \/ a = "main" /\ pc = "running" /\ pc' = "reloading"
           \/ a = "rpc" /\ calling /\ UNCHANGED pc
    BY <1>4 DEF ReloadBegins
  <2>2. pc \in Serving /\ pc' \in Serving
    BY <2>1 DEF LifeInv, LifeType, ReloadInv, Serving, Up
  <2>3. at' \in [Reloads -> {"idle", "lock"} \cup Locked] /\ at'[a] = "lock" /\ \A b \in Reloads \ {a} : at'[b] = at[b]
    BY <1>2, <2>1
  <2>4. at'["main"] # "idle" => pc' = "reloading"
    BY <2>1, <2>3 DEF LifeInv, ReloadInv, Reloads
  <2>5. ReloadInv'
    BY <1>1, <1>3, <2>1, <2>2, <2>3, <2>4 DEF LifeInv, ReloadInv, Locked, Agree
  <2>6. QED
    BY <1>1, <1>2, <2>1, <2>2, <2>3, <2>5, ReloadKeeps
<1>5. CASE Lock(a)
  <2>1. /\ at[a] = "lock" /\ lock = None /\ lock' = a /\ at' = [at EXCEPT ![a] = "load"] /\ UNCHANGED pc
    BY <1>5 DEF Lock, mainVars
  <2>2. pc \in Serving /\ Agree(cfg, wanted) /\ \A b \in Reloads : at[b] \notin Locked
    BY <2>1, ReloadFacts DEF LifeInv, ReloadInv
  <2>3. /\ at' \in [Reloads -> {"idle", "lock"} \cup Locked] /\ at'[a] = "load"
        /\ \A b \in Reloads \ {a} : at'[b] = at[b] /\ at'[b] \notin Locked
    BY <1>2, <2>1, <2>2 DEF Locked
  <2>4. at'["main"] # "idle" => pc' = "reloading"
    BY <2>1, <2>3 DEF LifeInv, ReloadInv, Reloads
  <2>5. ReloadInv'
    BY <1>1, <1>3, <2>1, <2>2, <2>3, <2>4 DEF LifeInv, ReloadInv, Locked, Agree
  <2>6. QED
    BY <1>1, <1>2, <2>1, <2>2, <2>3, <2>5, ReloadKeeps
<1>6. QED
  BY <1>4, <1>5

(* Each step of a reload keeps the invariant; the last one, or a refusal, unlocks. *)
LEMMA ReloadStep == ASSUME LifeInv, NEW a \in Reloads, Reload(a) PROVE LifeInv'
<1>0. at[a] \in Locked /\ at[a] # "idle"
  BY DEF Reload, ReloadLoad, ReloadEngine, ReloadLimits, ReloadHistory, Locked
<1>1. UNCHANGED <<file, disk, tx, ca, trusted, starts, clock, since, code, srv, calling>>
  BY DEF Reload, ReloadLoad, ReloadEngine, ReloadLimits, ReloadHistory, Unlock, diskVars, mainVars, netVars
<1>2. /\ at \in [Reloads -> {"idle", "lock"} \cup Locked] /\ next \in [Reloads -> Config \cup {None}]
      /\ lock \in Reloads \cup {None} /\ wanted \in Config \cup {None} /\ cfg \in Config
      /\ inUse \in [pause : Int, rate : Int, conc : Int] \cup {None}
  BY DEF LifeInv, LifeType
<1>3. \A l \in Serving : l \notin Early /\ l # "off"
  BY DEF Early, Saving, Serving, Up, Stopping
<1>4. /\ pc \in Serving /\ wanted \in Config /\ lock = a /\ (a = "main" => pc = "reloading")
      /\ inUse = [pause |-> cfg.pause, rate |-> cfg.rate, conc |-> cfg.conc]
      /\ inUse \in [pause : Int, rate : Int, conc : Int]
      /\ \A b \in Reloads \ {a} : at[b] \in {"idle", "lock"}
  BY <1>0, ReloadFacts
<1>5. at["main"] # "idle" => pc = "reloading"
  BY DEF LifeInv, ReloadInv
(* The reload goes on, with the mutex. *)
<1>6. ASSUME NEW l \in Locked \ {"load"}, at' = [at EXCEPT ![a] = l], UNCHANGED <<pc, lock, wanted>>,
             cfg' \in Config, next' \in [Reloads -> Config \cup {None}],
             inUse' = [pause |-> cfg'.pause, rate |-> cfg'.rate, conc |-> cfg'.conc],
             next'[a] \in Config, l = "engine" => Agree(cfg', wanted'),
             l \in {"limits", "history"} => cfg'.pause = next'[a].pause /\ cfg'.body = next'[a].body,
             l = "history" => cfg'.rate = next'[a].rate /\ cfg'.conc = next'[a].conc
      PROVE  LifeInv'
  <2>1. /\ at' \in [Reloads -> {"idle", "lock"} \cup Locked] /\ at'[a] = l
        /\ \A b \in Reloads \ {a} : at'[b] = at[b] /\ at'[b] \notin Locked
    BY <1>2, <1>4, <1>6 DEF Locked
  <2>2. at'["main"] # "idle" => pc' = "reloading"
    BY <1>4, <1>5, <1>6, <2>1 DEF Reloads
  <2>3. \A b \in Reloads \ {a} : at'[b] \notin {"load", "engine", "limits", "history"}
    BY <2>1 DEF Locked
  <2>4. ReloadInv'
    BY <1>3, <1>4, <1>6, <2>1, <2>2, <2>3 DEF ReloadInv, Locked, Agree
  <2>5. inUse' \in [pause : Int, rate : Int, conc : Int]
    BY <1>6 DEF Config
  <2>6. QED
    BY <1>1, <1>2, <1>4, <1>6, <2>1, <2>4, <2>5, ReloadKeeps
(* The reload is over. *)
<1>7. ASSUME Unlock(a), cfg' \in Config, wanted' \in Config, UNCHANGED next,
             inUse' = [pause |-> cfg'.pause, rate |-> cfg'.rate, conc |-> cfg'.conc], Agree(cfg', wanted')
      PROVE  LifeInv'
  <2>1. lock' = None /\ at' = [at EXCEPT ![a] = "idle"] /\ pc' = IF a = "main" THEN "running" ELSE pc
    BY <1>7 DEF Unlock
  <2>2. /\ at' \in [Reloads -> {"idle", "lock"} \cup Locked] /\ at'[a] = "idle"
        /\ \A b \in Reloads \ {a} : at'[b] = at[b]
        /\ \A b \in Reloads : at'[b] \notin {"load", "engine", "limits", "history"}
    BY <1>2, <1>4, <2>1
  <2>3. at'["main"] # "idle" => pc' = "reloading"
    BY <1>5, <2>1, <2>2 DEF Reloads
  <2>4. pc' \in Serving
    BY <1>4, <2>1 DEF Serving, Up
  <2>5. ReloadInv'
    BY <1>3, <1>7, <2>1, <2>2, <2>3, <2>4 DEF ReloadInv, Locked, Agree
  <2>6. inUse' \in [pause : Int, rate : Int, conc : Int]
    BY <1>7 DEF Config
  <2>7. QED
    BY <1>1, <1>2, <1>4, <1>7, <2>1, <2>2, <2>4, <2>5, <2>6, ReloadKeeps
<1>8. CASE ReloadLoad(a)
  <2>1. UNCHANGED <<cfg, inUse, wanted>> /\ at[a] = "load"
    BY <1>8 DEF ReloadLoad
  <2>2. Agree(cfg, wanted) /\ Agree(cfg, wanted)'
    BY <2>1 DEF LifeInv, ReloadInv, Agree
  <2>3. PICK f \in {file} \cup (IF a = "rpc" THEN {OtherFile} ELSE {}) :
          IF validate(LoadConfig(f), TRUE)
          THEN /\ next' = [next EXCEPT ![a] = applyValidationDefaults(LoadConfig(f))]
               /\ at' = [at EXCEPT ![a] = "engine"]
               /\ UNCHANGED <<lock, mainVars>>
          ELSE Unlock(a) /\ UNCHANGED next
    BY <1>8 DEF ReloadLoad
  <2>4. CASE Unlock(a) /\ UNCHANGED next
    BY <1>2, <1>4, <1>7, <2>1, <2>2, <2>4
  <2>5. CASE /\ next' = [next EXCEPT ![a] = applyValidationDefaults(LoadConfig(f))]
             /\ at' = [at EXCEPT ![a] = "engine"] /\ UNCHANGED <<lock, mainVars>>
    <3>1. ConfigFile(f)
      BY FileAssumption DEF LifeInv, LifeType
    <3>2. applyValidationDefaults(LoadConfig(f)) \in Config
      BY <3>1, LoadIsConfig, ValidatedIsConfig
    <3>3. next' \in [Reloads -> Config \cup {None}] /\ next'[a] \in Config
      BY <1>2, <2>5, <3>2
    <3>4. UNCHANGED <<pc, lock, wanted>> /\ "engine" \in Locked \ {"load"}
      BY <2>1, <2>5 DEF mainVars, Locked
    <3>5. QED
      BY <1>2, <1>4, <1>6, <2>1, <2>2, <2>5, <3>3, <3>4
  <2>6. QED
    BY <2>3, <2>4, <2>5
<1>9. CASE ReloadEngine(a)
  <2>1. /\ at[a] = "engine" /\ at' = [at EXCEPT ![a] = "limits"] /\ UNCHANGED <<pc, lock, next, wanted>>
        /\ cfg' = [cfg EXCEPT !.pause = next[a].pause, !.body = next[a].body]
        /\ inUse' = [inUse EXCEPT !.pause = next[a].pause]
    BY <1>9 DEF ReloadEngine, mainVars
  <2>2. next[a] \in Config
    BY <2>1 DEF LifeInv, ReloadInv
  <2>3. cfg' \in Config /\ cfg'.pause = next[a].pause /\ cfg'.body = next[a].body /\ cfg'.rate = cfg.rate /\ cfg'.conc = cfg.conc
    BY <1>2, <2>1, <2>2 DEF Config
  <2>4. inUse' = [pause |-> cfg'.pause, rate |-> cfg'.rate, conc |-> cfg'.conc]
    BY <1>4, <2>1, <2>3
  <2>5. QED
    BY <1>2, <1>6, <2>1, <2>2, <2>3, <2>4 DEF Locked
<1>10. CASE ReloadLimits(a)
  <2>1. /\ at[a] = "limits" /\ at' = [at EXCEPT ![a] = "history"] /\ UNCHANGED <<pc, lock, next, wanted>>
        /\ cfg' = [cfg EXCEPT !.rate = next[a].rate, !.conc = next[a].conc]
        /\ inUse' = IF next[a].rate # cfg.rate \/ next[a].conc # cfg.conc
                    THEN [inUse EXCEPT !.rate = next[a].rate, !.conc = next[a].conc] ELSE inUse
    BY <1>10 DEF ReloadLimits, mainVars
  <2>2. next[a] \in Config /\ cfg.pause = next[a].pause /\ cfg.body = next[a].body
    BY <2>1 DEF LifeInv, ReloadInv
  <2>3. cfg' \in Config /\ cfg'.pause = cfg.pause /\ cfg'.body = cfg.body /\ cfg'.rate = next[a].rate /\ cfg'.conc = next[a].conc
    BY <1>2, <2>1, <2>2 DEF Config
  <2>4. inUse' = [pause |-> cfg'.pause, rate |-> cfg'.rate, conc |-> cfg'.conc]
    BY <1>4, <2>1, <2>3
  <2>5. QED
    BY <1>2, <1>6, <2>1, <2>2, <2>3, <2>4 DEF Locked
<1>11. CASE ReloadHistory(a)
  <2>1. /\ at[a] = "history" /\ Unlock(a) /\ UNCHANGED <<inUse, next>> /\ wanted' = next[a]
        /\ cfg' = [cfg EXCEPT !.rows = next[a].rows]
    BY <1>11 DEF ReloadHistory
  <2>2. /\ next[a] \in Config /\ cfg.pause = next[a].pause /\ cfg.body = next[a].body
        /\ cfg.rate = next[a].rate /\ cfg.conc = next[a].conc
    BY <2>1 DEF LifeInv, ReloadInv
  <2>3. /\ cfg' \in Config /\ cfg'.pause = cfg.pause /\ cfg'.body = cfg.body /\ cfg'.rate = cfg.rate
        /\ cfg'.conc = cfg.conc /\ cfg'.rows = next[a].rows
    BY <1>2, <2>1, <2>2 DEF Config
  <2>4. QED
    BY <1>4, <1>7, <2>1, <2>2, <2>3 DEF Agree
<1>12. QED
  BY <1>8, <1>9, <1>10, <1>11 DEF Reload
-----------------------------------------------------------------------------
(* The invariant, and what it implies *)

(* The invariant holds of every disk the process may find. *)
LEMMA LifeStarts == Init => LifeInv
<1> SUFFICES ASSUME Init PROVE LifeInv
  OBVIOUS
<1> USE DEF Init
<1>1. /\ ConfigFile(file) /\ disk \in Disk /\ (disk.version = 1 => disk.cols = AllColumns)
      /\ tx = None /\ pc = "off" /\ trusted = None /\ cfg \in Config
  BY StoryAssumption, DefaultsAreConfig
<1>2. LifeType
  <2>1. /\ next \in [Reloads -> Config \cup {None}] /\ at \in [Reloads -> {"idle", "lock"} \cup Locked]
        /\ srv \in [Servers -> {"off", "starting", "serving", "draining", "returned"}]
        /\ starts \in Nat /\ clock \in Int /\ since \in Int
    OBVIOUS
  <2>2. calling \in BOOLEAN
    BY Zenon
  <2>3. QED
    BY <1>1, <2>1, <2>2 DEF LifeType, Early
<1>3. SchemaInv /\ AuthorityInv
  BY <1>1 DEF SchemaInv, AuthorityInv, Migrated, Saving, Saved, Serving, Up, Stopping
<1>4. ReloadInv
  BY <1>1 DEF ReloadInv, Early, Saving, Serving, Up, Stopping, Reloads, Locked, Servers
<1>5. WaitInv
  BY DEF WaitInv, Servers
<1>6. QED
  BY <1>2, <1>3, <1>4, <1>5 DEF LifeInv

(* One case per action. *)
LEMMA LifeStep == LifeInv /\ [Next]_vars => LifeInv'
<1> SUFFICES ASSUME LifeInv, [Next]_vars PROVE LifeInv'
  OBVIOUS
<1>1. CASE MainStep
  BY <1>1, ConfigStep, OpenStep, MigrationStep, PruneStep, AuthorityStep, SaveKeeps, PluginsStep, ServeStep,
     SignalStep, WaitStep DEF MainStep
<1>2. CASE ServerStep
  BY <1>2, StopStep, ListenStep DEF ServerStep
<1>3. CASE \E a \in Reloads : ReloadBegins(a) \/ Lock(a) \/ Reload(a)
  BY <1>3, BeginStep, ReloadStep
<1>4. CASE UNCHANGED vars
  <2>1. UNCHANGED <<file, disk, tx, pc, ca, trusted, cfg, next, wanted, inUse, lock, at, starts, clock, since, code, srv, calling>>
    BY <1>4 DEF vars, diskVars, mainVars, reloadVars, netVars
  <2>2. LifeType' /\ WaitInv'
    BY <2>1, TypeKeeps DEF LifeInv, LifeType, WaitInv, ConfigFile
  <2>3. SchemaInv' /\ AuthorityInv'
    BY <2>1, DiskKeeps
  <2>4. ReloadInv'
    BY <2>1 DEF LifeInv, ReloadInv, Agree
  <2>5. QED
    BY <2>2, <2>3, <2>4 DEF LifeInv
<1>5. CASE Boot \/ Break \/ Tick \/ Edit \/ Killed \/ CallBegins \/ CallEnds \/ Signal("stop") \/ Signal("hup")
  BY <1>5, BootStep, SignalStep, TickStep, EditStep, KilledStep, CallStep
<1>6. QED
  BY <1>1, <1>2, <1>3, <1>4, <1>5 DEF Next

(* The invariant of the process, its disk and its reloads. *)
LEMMA LifeAlways == Spec => []LifeInv
BY LifeStarts, LifeStep, PTL DEF Spec

(* Type correctness: main is at one of its stages, the configuration read, *)
(* merged and loaded anew is always a configuration, and a migration's     *)
(* transaction counts the statements of migrations.go.                     *)
THEOREM LifeTypeCorrect == Spec => []LifeType
BY LifeAlways, PTL DEF LifeInv

(* However often the process is killed, in the middle of a migration or of *)
(* save, a database that says it is migrated is, and an engine that runs   *)
(* has the authority its clients have trusted since the first run, or      *)
(* since load last failed on a pair, with its two files on disk            *)
(* (migrations.go, cert.go).                                               *)
THEOREM DiskAlwaysWhole == Spec => []DiskWhole
<1>1. LifeInv => DiskWhole
  BY DEF LifeInv, SchemaInv, AuthorityInv, DiskWhole, Migrated, Saved, Serving
<1>2. QED
  BY <1>1, LifeAlways, PTL

(* Reloads by SIGHUP and by clients, refused ones and ones that meet, leave *)
(* the engine, the limiter and the shared configuration with the values of  *)
(* one file, the one that was read last (main.go:322-369).                  *)
THEOREM ReloadAlwaysWhole == Spec => []ReloadIsWhole
<1>1. LifeInv => ReloadIsWhole
  BY DEF LifeInv, ReloadInv, ReloadIsWhole, Agree, Serving
<1>2. QED
  BY <1>1, LifeAlways, PTL

(* The 15 s after which main gives up are never used up: only calls of the *)
(* gRPC server keep a server from returning, and those are ended after 5 s *)
(* (main.go:196-208, grpc.go:203-217).                                     *)
THEOREM AlwaysUnforced == Spec => []NeverForced
<1>1. LifeInv => NeverForced
  BY DEF LifeInv, WaitInv, NeverForced
<1>2. QED
  BY <1>1, LifeAlways, PTL
=============================================================================
