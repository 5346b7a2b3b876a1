---------------------------- MODULE PluginRuntime ----------------------------
(***************************************************************************)
(* The plugin runtime, internal/pluginrt/runtime.go: Register, Unregister  *)
(* with its drain, List, and the passes RunRequest and RunResponse make    *)
(* over the chain.  Every step is one critical section of r.mu; a hook     *)
(* runs between two of them.  cond.Wait gives the mutex up, so Unregister  *)
(* is cut in two there.                                                    *)
(*                                                                         *)
(* A call of Register makes the pluginEntry it adds, and names it here.  A *)
(* plugin that lacks the hook of a pass is used and given back like one    *)
(* whose hook succeeds.                                                    *)
(***************************************************************************)
EXTENDS Integers, Sequences, FiniteSets

CONSTANTS
    Name,    \* plugin names
    Reg,     \* the calls of Register, each with its pluginEntry
    nameOf,  \* nameOf[g]: p.Name() of the plugin g registers
    Unreg,   \* the calls of Unregister
    target,  \* target[u]: the name argument of u
    After,   \* After[u]: the calls of Unregister the caller of u made before
    Run,     \* the calls of RunRequest and RunResponse
    None     \* nil

ASSUME RegAssumption == nameOf \in [Reg -> Name] /\ None \notin Reg
ASSUME UnregAssumption == target \in [Unreg -> Name] /\ After \in [Unreg -> SUBSET Unreg]
ASSUME RunAssumption == IsFiniteSet(Run)

(* No two calls of Unregister for one name overlap. *)
UnregistersSequential ==
    \A u, v \in Unreg :
        (u # v /\ target[u] = target[v]) => (u \in After[v] \/ v \in After[u])

VARIABLES
    plugins,   \* name -> entry, None where the map has no key
    order,     \* r.order
    inFlight,  \* inFlight[g]: entry.inFlight
    draining,  \* the entries with draining set
    regpc,     \* regpc[g]: idle, ok or exists
    upc,       \* upc[u]: idle, waiting, woken, done or notFound
    removing,  \* removing[u]: the entry u is about to remove
    pass,      \* pass[c]: idle, running, done or failed
    todo,      \* todo[c]: what is left of c's copy of r.order
    using,     \* using[c]: the entry whose hook c is in
    listed     \* outcome of the calls of List

registry == <<plugins, order, draining>>
unregVars == <<upc, removing>>
runVars == <<pass, todo, using>>
vars == <<registry, inFlight, regpc, unregVars, runVars, listed>>

RegState == {"idle", "ok", "exists"}
UnregState == {"idle", "waiting", "woken", "done", "notFound"}
PassState == {"idle", "running", "done", "failed"}

Finished(u) == upc[u] \in {"done", "notFound"}

NewRuntime ==
    /\ plugins = [n \in Name |-> None]
    /\ order = <<>>
    /\ inFlight = [g \in Reg |-> 0]
    /\ draining = {}

Init ==
    /\ NewRuntime
    /\ regpc = [g \in Reg |-> "idle"]
    /\ upc = [u \in Unreg |-> "idle"]
    /\ removing = [u \in Unreg |-> None]
    /\ pass = [c \in Run |-> "idle"]
    /\ todo = [c \in Run |-> <<>>]
    /\ using = [c \in Run |-> None]
    /\ listed = "no"

-----------------------------------------------------------------------------
Register(g) ==
    /\ regpc[g] = "idle"
    /\ IF plugins[nameOf[g]] # None
       THEN /\ regpc' = [regpc EXCEPT ![g] = "exists"]
            /\ UNCHANGED registry
       ELSE /\ regpc' = [regpc EXCEPT ![g] = "ok"]
            /\ plugins' = [plugins EXCEPT ![nameOf[g]] = g]
            /\ order' = Append(order, nameOf[g])
            /\ UNCHANGED draining
    /\ UNCHANGED <<inFlight, unregVars, runVars, listed>>

(* order without its i-th element. *)
WithoutAt(s, i) == [j \in 1..(Len(s) - 1) |-> IF j < i THEN s[j] ELSE s[j + 1]]

(* order' is order without the first occurrence of n. *)
DropFromOrder(n) ==
    IF \E i \in DOMAIN order : order[i] = n
    THEN \E i \in DOMAIN order :
            /\ order[i] = n
            /\ \A j \in 1..(i - 1) : order[j] # n
            /\ order' = WithoutAt(order, i)
    ELSE UNCHANGED order

(* Mutant: removal without the wait. *)
UnregisterAtOnce(u) ==
    /\ upc[u] = "idle"
    /\ \A v \in After[u] : Finished(v)
    /\ plugins[target[u]] # None
    /\ draining' = draining \cup {plugins[target[u]]}
    /\ DropFromOrder(target[u])
    /\ removing' = [removing EXCEPT ![u] = plugins[target[u]]]
    /\ upc' = [upc EXCEPT ![u] = "done"]
    /\ plugins' = [plugins EXCEPT ![target[u]] = None]
    /\ UNCHANGED <<inFlight, regpc, runVars, listed>>

(* Up to the first Wait, or to the end when nobody uses the plugin. *)
Unregister(u) ==
    /\ upc[u] = "idle"
    /\ \A v \in After[u] : Finished(v)
    /\ LET entry == plugins[target[u]]
       IN  IF entry = None
           THEN /\ upc' = [upc EXCEPT ![u] = "notFound"]
                /\ UNCHANGED <<registry, removing>>
           ELSE /\ draining' = draining \cup {entry}
                /\ DropFromOrder(target[u])
                /\ removing' = [removing EXCEPT ![u] = entry]
                /\ IF inFlight[entry] > 0
                   THEN /\ upc' = [upc EXCEPT ![u] = "waiting"]
                        /\ UNCHANGED plugins
                   ELSE /\ upc' = [upc EXCEPT ![u] = "done"]
                        /\ plugins' = [plugins EXCEPT ![target[u]] = None]
    /\ UNCHANGED <<inFlight, regpc, runVars, listed>>

(* Wait has returned: test again, then delete(r.plugins, name). *)
UnregisterWake(u) ==
    /\ upc[u] = "woken"
    /\ IF inFlight[removing[u]] > 0
       THEN /\ upc' = [upc EXCEPT ![u] = "waiting"]
            /\ UNCHANGED plugins
       ELSE /\ upc' = [upc EXCEPT ![u] = "done"]
            /\ plugins' = [plugins EXCEPT ![target[u]] = None]
    /\ UNCHANGED <<order, draining, inFlight, regpc, removing, runVars, listed>>

(* A name in the order that the map lacks is a nil dereference. *)
List ==
    /\ listed' = IF \A i \in DOMAIN order : plugins[order[i]] # None
                 THEN "ok" ELSE "panicked"
    /\ UNCHANGED <<registry, inFlight, regpc, unregVars, runVars>>

-----------------------------------------------------------------------------
(* A pass over the chain *)

RunRequest(c) ==
    /\ pass[c] = "idle"
    /\ pass' = [pass EXCEPT ![c] = "running"]
    /\ todo' = [todo EXCEPT ![c] = order]
    /\ UNCHANGED <<registry, inFlight, regpc, unregVars, using, listed>>

beginPluginUse(c) ==
    /\ pass[c] = "running" /\ using[c] = None /\ todo[c] # <<>>
    /\ todo' = [todo EXCEPT ![c] = Tail(@)]
    /\ LET entry == plugins[Head(todo[c])]
       IN  IF entry = None \/ entry \in draining
           THEN UNCHANGED <<inFlight, using>>
           ELSE /\ inFlight' = [inFlight EXCEPT ![entry] = @ + 1]
                /\ using' = [using EXCEPT ![c] = entry]
    /\ UNCHANGED <<registry, regpc, unregVars, pass, listed>>

(* r.cond.Broadcast() *)
Broadcast == upc' = [u \in Unreg |-> IF upc[u] = "waiting" THEN "woken" ELSE upc[u]]

(* Mutant: no Broadcast. *)
doneSilent(c) ==
    LET e == plugins[nameOf[using[c]]]
    IN  /\ inFlight' = IF e = None THEN inFlight ELSE [inFlight EXCEPT ![e] = @ - 1]
        /\ UNCHANGED upc

(* The function beginPluginUse returns: it looks the name up again. *)
done(c) ==
    LET e == plugins[nameOf[using[c]]]
    IN  IF e = None
        THEN UNCHANGED <<inFlight, upc>>
        ELSE /\ inFlight' = [inFlight EXCEPT ![e] = @ - 1]
             /\ IF e \in draining /\ inFlight[e] = 1 THEN Broadcast ELSE UNCHANGED upc

(* The hook returns, or fails (an error or a recovered panic) and ends the pass. *)
HookReturns(c, result) ==
    /\ using[c] # None
    /\ done(c)
    /\ using' = [using EXCEPT ![c] = None]
    /\ IF result = "ok"
       THEN UNCHANGED <<pass, todo>>
       ELSE /\ pass' = [pass EXCEPT ![c] = "failed"]
            /\ todo' = [todo EXCEPT ![c] = <<>>]
    /\ UNCHANGED <<registry, regpc, removing, listed>>

RunReturns(c) ==
    /\ pass[c] = "running" /\ using[c] = None /\ todo[c] = <<>>
    /\ pass' = [pass EXCEPT ![c] = "done"]
    /\ UNCHANGED <<registry, inFlight, regpc, unregVars, todo, using, listed>>

RunStep(c) ==
    \/ RunRequest(c)
    \/ beginPluginUse(c)
    \/ \E result \in {"ok", "error"} : HookReturns(c, result)
    \/ RunReturns(c)

(* List is called by a gRPC handler: its panic ends the process. *)
Next ==
    /\ listed # "panicked"
    /\ \/ \E g \in Reg : Register(g)
       \/ \E u \in Unreg : Unregister(u) \/ UnregisterWake(u)
       \/ \E c \in Run : RunStep(c)
       \/ List

Spec == Init /\ [][Next]_vars

(***************************************************************************)
(* Woken goroutines run and hooks return: RunRequest passes a context with *)
(* a deadline to the hook, but only the plugin can honour it.              *)
(***************************************************************************)
Fairness ==
    /\ \A u \in Unreg : WF_vars(listed # "panicked" /\ UnregisterWake(u))
    /\ \A c \in Run :
          WF_vars(/\ listed # "panicked"
                  /\ \E result \in {"ok", "error"} : HookReturns(c, result))

FairSpec == Spec /\ Fairness

-----------------------------------------------------------------------------
(* Properties *)

Users(g) == {c \in Run : using[c] = g}

TypeOK ==
    /\ plugins \in [Name -> Reg \cup {None}]
    /\ order \in Seq(Name)
    /\ inFlight \in [Reg -> Int]
    /\ draining \subseteq Reg
    /\ regpc \in [Reg -> RegState]
    /\ upc \in [Unreg -> UnregState]
    /\ removing \in [Unreg -> Reg \cup {None}]
    /\ pass \in [Run -> PassState]
    /\ todo \in [Run -> Seq(Name)]
    /\ using \in [Run -> Reg \cup {None}]
    /\ listed \in {"no", "ok", "panicked"}

(***************************************************************************)
(* Once Unregister has returned, no request is inside the plugin it        *)
(* removed, and none ever will be ("wait for in-flight executions to       *)
(* finish before removing it").                                            *)
(***************************************************************************)
DrainedWhenRemoved ==
    \A u \in Unreg : upc[u] = "done" => Users(removing[u]) = {}

(***************************************************************************)
(* The counter Unregister waits for is the number of requests inside the   *)
(* plugin, although done() looks the entry up again by name, which could   *)
(* by then belong to another registration.                                 *)
(***************************************************************************)
CountsExact == \A g \in Reg : inFlight[g] = Cardinality(Users(g))

(***************************************************************************)
(* The chain is the set of registered plugins that are not being removed,  *)
(* each once: a plugin is never run twice by a pass, and List finds every  *)
(* name in the map.                                                        *)
(***************************************************************************)
OrderMatchesRegistry ==
    /\ \A i, j \in DOMAIN order : order[i] = order[j] => i = j
    /\ \A n \in Name :
          (\E i \in DOMAIN order : order[i] = n)
              <=> (plugins[n] # None /\ plugins[n] \notin draining)

(***************************************************************************)
(* The three together: what a plugin may rely on when it is registered,    *)
(* run and removed while passes and other removals go on.                  *)
(***************************************************************************)
DrainExact == DrainedWhenRemoved /\ CountsExact /\ OrderMatchesRegistry

(***************************************************************************)
(* A call of Unregister that waits is woken and returns: no new request    *)
(* enters the plugin, and the last one out broadcasts.                     *)
(***************************************************************************)
UnregisterReturns ==
    \A u \in Unreg : upc[u] = "waiting" ~> (upc[u] = "done" \/ listed = "panicked")
=============================================================================
