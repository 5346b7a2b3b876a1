----------------------------- MODULE PluginProofs -----------------------------
(***************************************************************************)
(* Proofs about PluginRuntime, for any number of plugins, passes and calls *)
(* of Register and Unregister.                                             *)
(***************************************************************************)
EXTENDS PluginRuntime, FiniteSetTheorems, TLAPS

USE RegAssumption, UnregAssumption, RunAssumption

(* Dropping a name keeps the order a sequence of names. *)
LEMMA DropType ==
  ASSUME NEW n \in Name, order \in Seq(Name), DropFromOrder(n)
  PROVE  order' \in Seq(Name)
<1>1. CASE UNCHANGED order
  BY <1>1
<1>2. ASSUME NEW i \in DOMAIN order, order' = WithoutAt(order, i) PROVE order' \in Seq(Name)
  <2>1. Len(order) \in Nat /\ i \in 1..Len(order) /\ \A j \in 1..Len(order) : order[j] \in Name
    BY <1>2
  <2>2. \A j \in 1..(Len(order) - 1) : (IF j < i THEN order[j] ELSE order[j + 1]) \in Name
    BY <2>1
  <2>3. order' \in [1..(Len(order) - 1) -> Name]
    BY <1>2, <2>2 DEF WithoutAt
  <2>4. Len(order) - 1 \in Nat
    BY <2>1
  <2>5. QED
    BY <2>3, <2>4
<1>3. QED
  BY <1>1, <1>2 DEF DropFromOrder

(* One step keeps the types. *)
LEMMA TypeStep == TypeOK /\ [Next]_vars => TypeOK'
<1> SUFFICES ASSUME TypeOK, [Next]_vars PROVE TypeOK'
  OBVIOUS
<1> USE DEF TypeOK, RegState, UnregState, PassState, registry, unregVars, runVars
<1>1. ASSUME NEW g \in Reg, Register(g) PROVE TypeOK'
  <2>1. Append(order, nameOf[g]) \in Seq(Name)
    OBVIOUS
  <2>2. plugins' \in [Name -> Reg \cup {None}] /\ regpc' \in [Reg -> RegState]
    <3>1. plugins' = plugins \/ plugins' = [plugins EXCEPT ![nameOf[g]] = g]
      BY <1>1 DEF Register
    <3>2. regpc' = [regpc EXCEPT ![g] = "exists"] \/ regpc' = [regpc EXCEPT ![g] = "ok"]
      BY <1>1 DEF Register
    <3>3. plugins' \in [Name -> Reg \cup {None}]
      BY <3>1
    <3>4. regpc' \in [Reg -> RegState]
      BY <3>2
    <3>5. QED
      BY <3>3, <3>4
  <2>3. order' \in Seq(Name)
    BY <1>1, <2>1 DEF Register
  <2>4. draining' = draining
    BY <1>1 DEF Register
  <2>5. QED
    BY <1>1, <2>2, <2>3, <2>4 DEF Register
<1>2. ASSUME NEW u \in Unreg, Unregister(u) PROVE TypeOK'
  <2>1. order' \in Seq(Name)
    <3>1. CASE UNCHANGED order
      BY <3>1
    <3>2. CASE DropFromOrder(target[u])
      BY <3>2, DropType
    <3>3. QED
      BY <1>2, <3>1, <3>2 DEF Unregister
  <2>2. upc' \in [Unreg -> UnregState] /\ removing' \in [Unreg -> Reg \cup {None}]
    BY <1>2 DEF Unregister
  <2>3. plugins' \in [Name -> Reg \cup {None}] /\ draining' \subseteq Reg
    BY <1>2 DEF Unregister
  <2>4. UNCHANGED <<inFlight, regpc, runVars, listed>>
    BY <1>2 DEF Unregister
  <2>5. QED
    BY <2>1, <2>2, <2>3, <2>4
<1>3. ASSUME NEW u \in Unreg, UnregisterWake(u) PROVE TypeOK'
  BY <1>3 DEF UnregisterWake
<1>4. ASSUME NEW c \in Run, RunRequest(c) PROVE TypeOK'
  BY <1>4 DEF RunRequest
<1>5. ASSUME NEW c \in Run, beginPluginUse(c) PROVE TypeOK'
  <2>1. Tail(todo[c]) \in Seq(Name) /\ Head(todo[c]) \in Name
    BY <1>5 DEF beginPluginUse
  <2>2. todo' \in [Run -> Seq(Name)]
    BY <1>5, <2>1 DEF beginPluginUse
  <2>3. inFlight' \in [Reg -> Int] /\ using' \in [Run -> Reg \cup {None}]
    <3> DEFINE entry == plugins[Head(todo[c])]
    <3>1. entry \in Reg \cup {None}
      BY <2>1
    <3>2. \/ UNCHANGED <<inFlight, using>>
          \/ /\ entry # None
             /\ inFlight' = [inFlight EXCEPT ![entry] = @ + 1]
             /\ using' = [using EXCEPT ![c] = entry]
      BY <1>5 DEF beginPluginUse
    <3> HIDE DEF entry
    <3>3. QED
      BY <3>1, <3>2
  <2>4. UNCHANGED <<registry, regpc, unregVars, pass, listed>>
    BY <1>5 DEF beginPluginUse
  <2>5. QED
    BY <2>2, <2>3, <2>4
<1>6. ASSUME NEW c \in Run, NEW result \in {"ok", "error"}, HookReturns(c, result) PROVE TypeOK'
  <2>1. upc' \in [Unreg -> UnregState]
    BY <1>6 DEF HookReturns, done, Broadcast
  <2>2. inFlight' \in [Reg -> Int]
    BY <1>6 DEF HookReturns, done
  <2>3. todo' \in [Run -> Seq(Name)] /\ pass' \in [Run -> PassState]
    <3>1. <<>> \in Seq(Name)
      OBVIOUS
    <3>2. \/ UNCHANGED <<pass, todo>>
          \/ /\ pass' = [pass EXCEPT ![c] = "failed"]
             /\ todo' = [todo EXCEPT ![c] = <<>>]
      BY <1>6 DEF HookReturns
    <3>3. todo' \in [Run -> Seq(Name)]
      BY <3>1, <3>2
    <3>4. pass' \in [Run -> PassState]
      BY <3>2
    <3>5. QED
      BY <3>3, <3>4
  <2>4. QED
    BY <1>6, <2>1, <2>2, <2>3 DEF HookReturns
<1>7. ASSUME NEW c \in Run, RunReturns(c) PROVE TypeOK'
  BY <1>7 DEF RunReturns
<1>8. CASE List
  BY <1>8 DEF List
<1>9. CASE UNCHANGED vars
  BY <1>9 DEF vars
<1>10. QED
  BY <1>1, <1>2, <1>3, <1>4, <1>5, <1>6, <1>7, <1>8, <1>9 DEF Next, RunStep

(***************************************************************************)
(* Type correctness of the runtime, under any race of its calls.           *)
(***************************************************************************)
THEOREM RuntimeTypeCorrect == Spec => []TypeOK
<1>1. Init => TypeOK
  BY DEF Init, NewRuntime, TypeOK, RegState, UnregState, PassState
<1>2. QED
  BY <1>1, TypeStep, PTL DEF Spec
-----------------------------------------------------------------------------
(* The inductive invariant, for removals of one name that do not overlap *)

(* Entries are under their own name; those in use or being removed were registered. *)
EntryInv ==
    /\ \A n \in Name : plugins[n] # None => nameOf[plugins[n]] = n /\ regpc[plugins[n]] = "ok"
    /\ \A g \in draining : regpc[g] = "ok"

(* An entry in use is in the map: the by-name lookup in done() finds it again. *)
UseInv == \A c \in Run : using[c] # None => plugins[nameOf[using[c]]] = using[c]

(* Calls of Unregister by one caller follow one another. *)
SeqInv == \A u, v \in Unreg : (u \in After[v] /\ upc[v] # "idle") => Finished(u)

(* A waiting Unregister owns its entry; a finished one has taken it out for good. *)
RemoveInv ==
    /\ \A u \in Unreg : upc[u] \in {"waiting", "woken"} =>
          /\ removing[u] # None
          /\ plugins[target[u]] = removing[u]
          /\ removing[u] \in draining
    /\ \A u \in Unreg : upc[u] = "done" =>
          /\ removing[u] # None
          /\ removing[u] \in draining
          /\ plugins[nameOf[removing[u]]] # removing[u]

DInv ==
    /\ TypeOK /\ EntryInv /\ UseInv /\ SeqInv /\ RemoveInv
    /\ CountsExact /\ OrderMatchesRegistry

(* With sequential removals at most one call waits for a name. *)
LEMMA OneWaits ==
  ASSUME UnregistersSequential, SeqInv, NEW u \in Unreg, NEW v \in Unreg,
         upc[u] \in {"waiting", "woken"}, upc[v] \in {"waiting", "woken"},
         target[u] = target[v]
  PROVE  u = v
BY DEF UnregistersSequential, SeqInv, Finished

(* The types of everything but the sequences. *)
CoreType ==
    /\ plugins \in [Name -> Reg \cup {None}]
    /\ inFlight \in [Reg -> Int]
    /\ draining \subseteq Reg
    /\ regpc \in [Reg -> RegState]
    /\ upc \in [Unreg -> UnregState]
    /\ removing \in [Unreg -> Reg \cup {None}]
    /\ using \in [Run -> Reg \cup {None}]

(* What beginPluginUse does to the counters: nothing, or one more use. *)
LEMMA BeginEffect ==
  ASSUME TypeOK, NEW c \in Run, beginPluginUse(c)
  PROVE  /\ UNCHANGED <<plugins, order, draining, regpc, upc, removing, listed>>
         /\ using[c] = None
         /\ \/ UNCHANGED <<inFlight, using>>
            \/ \E n \in Name, g \in Reg :
                  /\ plugins[n] = g
                  /\ g \notin draining
                  /\ inFlight' = [inFlight EXCEPT ![g] = @ + 1]
                  /\ using' = [using EXCEPT ![c] = g]
<1> DEFINE n == Head(todo[c])
<1> DEFINE g == plugins[n]
<1>1. n \in Name
  BY DEF TypeOK, beginPluginUse
<1>2. g \in Reg \cup {None}
  BY <1>1 DEF TypeOK
<1>3. UNCHANGED <<plugins, order, draining, regpc, upc, removing, listed>> /\ using[c] = None
  BY DEF beginPluginUse, registry, unregVars
<1>4. \/ UNCHANGED <<inFlight, using>>
      \/ /\ g # None /\ g \notin draining
         /\ inFlight' = [inFlight EXCEPT ![g] = @ + 1]
         /\ using' = [using EXCEPT ![c] = g]
  BY DEF beginPluginUse
<1> HIDE DEF n
<1>5. QED
  BY <1>1, <1>2, <1>3, <1>4

(* What the end of a hook does, when the entry in use is in the map: one use less. *)
LEMMA HookEffect ==
  ASSUME CoreType, UseInv, NEW c \in Run, NEW result, HookReturns(c, result)
  PROVE  /\ UNCHANGED <<plugins, order, draining, regpc, removing, listed>>
         /\ upc' = upc \/ Broadcast
         /\ \E g \in Reg :
               /\ using[c] = g
               /\ inFlight' = [inFlight EXCEPT ![g] = @ - 1]
               /\ using' = [using EXCEPT ![c] = None]
<1>1. using[c] \in Reg /\ plugins[nameOf[using[c]]] = using[c]
  BY DEF CoreType, UseInv, HookReturns
<1>2. UNCHANGED <<plugins, order, draining, regpc, removing, listed>>
  BY DEF HookReturns, registry
<1>3. (upc' = upc \/ Broadcast) /\ inFlight' = [inFlight EXCEPT ![using[c]] = @ - 1]
  BY <1>1 DEF HookReturns, done
<1>4. using' = [using EXCEPT ![c] = None]
  BY DEF HookReturns
<1>5. QED
  BY <1>1, <1>2, <1>3, <1>4

(* A count of zero means that no pass is inside the plugin. *)
LEMMA NoUsers ==
  ASSUME CoreType, CountsExact, NEW g \in Reg, ~(inFlight[g] > 0)
  PROVE  \A c \in Run : using[c] # g
<1>1. IsFiniteSet(Users(g))
  BY FS_Subset DEF Users
<1>2. Cardinality(Users(g)) \in Nat
  BY <1>1, FS_CardinalityType
<1>3. inFlight[g] = Cardinality(Users(g))
  BY DEF CountsExact
<1>4. Cardinality(Users(g)) = 0
  BY <1>2, <1>3
<1>5. Users(g) = {}
  BY <1>1, <1>4, FS_EmptySet
<1>6. QED
  BY <1>5 DEF Users

(* What Unregister does up to its first Wait, when it finds the name. *)
LEMMA UnregisterEffect ==
  ASSUME CoreType, CountsExact, NEW u \in Unreg, Unregister(u), plugins[target[u]] # None
  PROVE  /\ UNCHANGED <<inFlight, regpc, using, listed>>
         /\ draining' = draining \cup {plugins[target[u]]}
         /\ removing' = [removing EXCEPT ![u] = plugins[target[u]]]
         /\ DropFromOrder(target[u])
         /\ \/ /\ upc' = [upc EXCEPT ![u] = "waiting"]
               /\ UNCHANGED plugins
            \/ /\ upc' = [upc EXCEPT ![u] = "done"]
               /\ plugins' = [plugins EXCEPT ![target[u]] = None]
               /\ \A c \in Run : using[c] # plugins[target[u]]
<1>1. plugins[target[u]] \in Reg
  BY DEF CoreType
<1>2. ~(inFlight[plugins[target[u]]] > 0) => \A c \in Run : using[c] # plugins[target[u]]
  BY <1>1, NoUsers
<1>3. QED
  BY <1>2 DEF Unregister, runVars

(* When it does not find the name, Unregister changes nothing else. *)
LEMMA NotFoundEffect ==
  ASSUME NEW u \in Unreg, Unregister(u), plugins[target[u]] = None
  PROVE  /\ UNCHANGED <<plugins, order, draining, inFlight, regpc, removing, using, listed>>
         /\ upc' = [upc EXCEPT ![u] = "notFound"]
BY DEF Unregister, registry, runVars

(* What a woken Unregister does: wait again, or remove a plugin nobody is in. *)
LEMMA WakeEffect ==
  ASSUME CoreType, CountsExact, RemoveInv, NEW u \in Unreg, UnregisterWake(u)
  PROVE  /\ UNCHANGED <<order, draining, inFlight, regpc, removing, using, listed>>
         /\ upc[u] = "woken"
         /\ \/ /\ upc' = [upc EXCEPT ![u] = "waiting"]
               /\ UNCHANGED plugins
            \/ /\ upc' = [upc EXCEPT ![u] = "done"]
               /\ plugins' = [plugins EXCEPT ![target[u]] = None]
               /\ \A c \in Run : using[c] # removing[u]
<1>1. removing[u] \in Reg
  BY DEF CoreType, RemoveInv, UnregisterWake
<1>2. ~(inFlight[removing[u]] > 0) => \A c \in Run : using[c] # removing[u]
  BY <1>1, NoUsers
<1>3. QED
  BY <1>2 DEF UnregisterWake, runVars

(* What Register does: refuse a known name, or add the entry. *)
LEMMA RegisterEffect ==
  ASSUME NEW g \in Reg, Register(g)
  PROVE  /\ UNCHANGED <<inFlight, draining, upc, removing, using, listed>>
         /\ regpc[g] = "idle"
         /\ \/ /\ UNCHANGED <<plugins, order>>
               /\ regpc' = [regpc EXCEPT ![g] = "exists"]
            \/ /\ plugins[nameOf[g]] = None
               /\ plugins' = [plugins EXCEPT ![nameOf[g]] = g]
               /\ order' = Append(order, nameOf[g])
               /\ regpc' = [regpc EXCEPT ![g] = "ok"]
BY DEF Register, registry, unregVars, runVars

(* The steps that leave the registry and its counters alone. *)
LEMMA OtherSteps ==
  ASSUME TypeOK, [Next]_vars
  PROVE  \/ UNCHANGED <<plugins, order, draining, inFlight, regpc, upc, removing, using>>
         \/ \E g \in Reg : Register(g)
         \/ \E u \in Unreg : Unregister(u) \/ UnregisterWake(u)
         \/ \E c \in Run : beginPluginUse(c)
         \/ \E c \in Run, result \in {"ok", "error"} : HookReturns(c, result)
BY DEF Next, vars, RunStep, RunRequest, RunReturns, List, registry, unregVars, runVars

(* Types and entries: an entry is added once, under its name. *)
LEMMA EntryStep == DInv /\ [Next]_vars => EntryInv'
<1> SUFFICES ASSUME DInv, [Next]_vars PROVE EntryInv'
  OBVIOUS
<1>0. CoreType /\ EntryInv /\ UseInv /\ RemoveInv /\ CountsExact /\ TypeOK
  BY DEF DInv, TypeOK, CoreType
<1>1. ASSUME NEW g \in Reg, Register(g) PROVE EntryInv'
  <2>1. CASE UNCHANGED <<plugins, draining>> /\ regpc' = [regpc EXCEPT ![g] = "exists"] /\ regpc[g] = "idle"
    BY <1>0, <2>1 DEF EntryInv, CoreType
  <2>2. CASE /\ plugins' = [plugins EXCEPT ![nameOf[g]] = g]
             /\ regpc' = [regpc EXCEPT ![g] = "ok"]
             /\ UNCHANGED draining
    BY <1>0, <2>2 DEF EntryInv, CoreType
  <2>3. QED
    BY <1>1, <2>1, <2>2, RegisterEffect
<1>2. ASSUME NEW u \in Unreg, Unregister(u) PROVE EntryInv'
  <2>1. CASE plugins[target[u]] = None
    BY <1>0, <1>2, <2>1, NotFoundEffect DEF EntryInv
  <2>2. CASE plugins[target[u]] # None
    BY <1>0, <1>2, <2>2, UnregisterEffect DEF EntryInv, CoreType
  <2>3. QED
    BY <2>1, <2>2
<1>3. ASSUME NEW u \in Unreg, UnregisterWake(u) PROVE EntryInv'
  BY <1>0, <1>3, WakeEffect DEF EntryInv, CoreType
<1>4. ASSUME NEW c \in Run, beginPluginUse(c) PROVE EntryInv'
  BY <1>0, <1>4, BeginEffect DEF EntryInv
<1>5. ASSUME NEW c \in Run, NEW result, HookReturns(c, result) PROVE EntryInv'
  BY <1>0, <1>5, HookEffect DEF EntryInv
<1>6. CASE UNCHANGED <<plugins, order, draining, inFlight, regpc, upc, removing, using>>
  BY <1>0, <1>6 DEF EntryInv
<1>7. QED
  BY <1>0, <1>1, <1>2, <1>3, <1>4, <1>5, <1>6, OtherSteps

(* Nobody is inside an entry when it leaves the map. *)
LEMMA UseStep == DInv /\ [Next]_vars => UseInv'
<1> SUFFICES ASSUME DInv, [Next]_vars PROVE UseInv'
  OBVIOUS
<1>0. CoreType /\ EntryInv /\ UseInv /\ RemoveInv /\ CountsExact /\ TypeOK
  BY DEF DInv, TypeOK, CoreType
<1>1. ASSUME NEW g \in Reg, Register(g) PROVE UseInv'
  BY <1>0, <1>1, RegisterEffect DEF UseInv, CoreType
<1>2. ASSUME NEW u \in Unreg, Unregister(u) PROVE UseInv'
  <2>1. CASE plugins[target[u]] = None
    BY <1>0, <1>2, <2>1, NotFoundEffect DEF UseInv
  <2>2. CASE plugins[target[u]] # None
    BY <1>0, <1>2, <2>2, UnregisterEffect DEF UseInv, CoreType
  <2>3. QED
    BY <2>1, <2>2
<1>3. ASSUME NEW u \in Unreg, UnregisterWake(u) PROVE UseInv'
  BY <1>0, <1>3, WakeEffect DEF UseInv, RemoveInv, CoreType
<1>4. ASSUME NEW c \in Run, beginPluginUse(c) PROVE UseInv'
  BY <1>0, <1>4, BeginEffect DEF UseInv, EntryInv, CoreType
<1>5. ASSUME NEW c \in Run, NEW result, HookReturns(c, result) PROVE UseInv'
  BY <1>0, <1>5, HookEffect DEF UseInv, CoreType
<1>6. CASE UNCHANGED <<plugins, order, draining, inFlight, regpc, upc, removing, using>>
  BY <1>0, <1>6 DEF UseInv
<1>7. QED
  BY <1>0, <1>1, <1>2, <1>3, <1>4, <1>5, <1>6, OtherSteps

(* Broadcast finishes nobody and starts nobody. *)
LEMMA SeqStep == DInv /\ [Next]_vars => SeqInv'
<1> SUFFICES ASSUME DInv, [Next]_vars PROVE SeqInv'
  OBVIOUS
<1>0. CoreType /\ SeqInv /\ UseInv /\ RemoveInv /\ CountsExact /\ TypeOK
  BY DEF DInv, TypeOK, CoreType
<1>1. ASSUME NEW g \in Reg, Register(g) PROVE SeqInv'
  BY <1>0, <1>1, RegisterEffect DEF SeqInv, Finished
<1>2. ASSUME NEW u \in Unreg, Unregister(u) PROVE SeqInv'
  <2>1. upc[u] = "idle" /\ \A v \in After[u] : Finished(v)
    BY <1>2 DEF Unregister
  <2>2. \E l \in UnregState : upc' = [upc EXCEPT ![u] = l]
    BY <1>2 DEF Unregister, UnregState
  <2>3. QED
    BY <1>0, <2>1, <2>2 DEF SeqInv, Finished, CoreType
<1>3. ASSUME NEW u \in Unreg, UnregisterWake(u) PROVE SeqInv'
  BY <1>0, <1>3, WakeEffect DEF SeqInv, Finished, CoreType
<1>4. ASSUME NEW c \in Run, beginPluginUse(c) PROVE SeqInv'
  BY <1>0, <1>4, BeginEffect DEF SeqInv, Finished
<1>5. ASSUME NEW c \in Run, NEW result, HookReturns(c, result) PROVE SeqInv'
  BY <1>0, <1>5, HookEffect DEF SeqInv, Finished, Broadcast, CoreType
<1>6. CASE UNCHANGED <<plugins, order, draining, inFlight, regpc, upc, removing, using>>
  BY <1>0, <1>6 DEF SeqInv, Finished
<1>7. QED
  BY <1>0, <1>1, <1>2, <1>3, <1>4, <1>5, <1>6, OtherSteps

(* The map gives an entry up only to the Unregister call that waits for it. *)
LEMMA RemoveStep == UnregistersSequential /\ DInv /\ [Next]_vars => RemoveInv'
<1> SUFFICES ASSUME UnregistersSequential, DInv, [Next]_vars PROVE RemoveInv'
  OBVIOUS
<1>0. CoreType /\ EntryInv /\ SeqInv /\ UseInv /\ RemoveInv /\ CountsExact /\ TypeOK
  BY DEF DInv, TypeOK, CoreType
<1>1. ASSUME NEW g \in Reg, Register(g) PROVE RemoveInv'
  BY <1>0, <1>1, RegisterEffect DEF RemoveInv, EntryInv, CoreType
<1>2. ASSUME NEW u \in Unreg, Unregister(u) PROVE RemoveInv'
  <2>1. CASE plugins[target[u]] = None
    BY <1>0, <1>2, <2>1, NotFoundEffect DEF RemoveInv, CoreType
  <2>2. CASE plugins[target[u]] # None
    <3>1. upc[u] = "idle" /\ \A v \in After[u] : Finished(v)
      BY <1>2 DEF Unregister
    <3>2. ASSUME NEW v \in Unreg, v # u, upc[v] \in {"waiting", "woken"}
          PROVE  target[v] # target[u]
      BY <1>0, <3>1, <3>2 DEF UnregistersSequential, SeqInv, Finished
    <3>3. QED
      BY <1>0, <1>2, <2>2, <3>1, <3>2, UnregisterEffect DEF RemoveInv, EntryInv, CoreType
  <2>3. QED
    BY <2>1, <2>2
<1>3. ASSUME NEW u \in Unreg, UnregisterWake(u) PROVE RemoveInv'
  <2>1. ASSUME NEW v \in Unreg, v # u, upc[v] \in {"waiting", "woken"}
        PROVE  target[v] # target[u]
    BY <1>0, <1>3, <2>1, OneWaits DEF UnregisterWake
  <2>2. QED
    BY <1>0, <1>3, <2>1, WakeEffect DEF RemoveInv, EntryInv, CoreType
<1>4. ASSUME NEW c \in Run, beginPluginUse(c) PROVE RemoveInv'
  BY <1>0, <1>4, BeginEffect DEF RemoveInv
<1>5. ASSUME NEW c \in Run, NEW result, HookReturns(c, result) PROVE RemoveInv'
  BY <1>0, <1>5, HookEffect DEF RemoveInv, Broadcast, CoreType
<1>6. CASE UNCHANGED <<plugins, order, draining, inFlight, regpc, upc, removing, using>>
  BY <1>0, <1>6 DEF RemoveInv
<1>7. QED
  BY <1>0, <1>1, <1>2, <1>3, <1>4, <1>5, <1>6, OtherSteps

(* The counter moves with the set of passes inside the plugin. *)
LEMMA CountsStep == DInv /\ [Next]_vars => CountsExact'
<1> SUFFICES ASSUME DInv, [Next]_vars, NEW h \in Reg
             PROVE  inFlight'[h] = Cardinality(Users(h)')
  BY DEF CountsExact
<1>0. CoreType /\ UseInv /\ RemoveInv /\ CountsExact /\ TypeOK
  BY DEF DInv, TypeOK, CoreType
<1>1. IsFiniteSet(Users(h)) /\ inFlight[h] = Cardinality(Users(h)) /\ Cardinality(Users(h)) \in Nat
  BY <1>0, FS_Subset, FS_CardinalityType DEF CountsExact, Users
<1>2. CASE UNCHANGED <<inFlight, using>>
  BY <1>1, <1>2 DEF Users
<1>3. ASSUME NEW c \in Run, beginPluginUse(c) PROVE inFlight'[h] = Cardinality(Users(h)')
  <2>1. PICK g \in Reg : \/ UNCHANGED <<inFlight, using>>
                         \/ /\ inFlight' = [inFlight EXCEPT ![g] = @ + 1]
                            /\ using' = [using EXCEPT ![c] = g]
    <3>1. CASE UNCHANGED <<inFlight, using>>
      BY <3>1
    <3>2. QED
      BY <1>0, <1>3, <3>1, BeginEffect
  <2>2. using[c] = None
    BY <1>0, <1>3, BeginEffect
  <2>3. CASE using' = [using EXCEPT ![c] = g] /\ inFlight' = [inFlight EXCEPT ![g] = @ + 1] /\ h = g
    <3>1. Users(h)' = Users(h) \cup {c} /\ c \notin Users(h)
      BY <1>0, <2>2, <2>3 DEF Users, CoreType
    <3>2. Cardinality(Users(h) \cup {c}) = Cardinality(Users(h)) + 1
      BY <1>1, <3>1, FS_AddElement
    <3>3. inFlight'[h] = inFlight[h] + 1
      BY <1>0, <2>3 DEF CoreType
    <3>4. QED
      BY <1>1, <3>1, <3>2, <3>3
  <2>4. CASE using' = [using EXCEPT ![c] = g] /\ inFlight' = [inFlight EXCEPT ![g] = @ + 1] /\ h # g
    <3>1. Users(h)' = Users(h)
      BY <1>0, <2>2, <2>4 DEF Users, CoreType
    <3>2. inFlight'[h] = inFlight[h]
      BY <1>0, <2>4 DEF CoreType
    <3>3. QED
      BY <1>1, <3>1, <3>2
  <2>5. QED
    BY <1>2, <2>1, <2>3, <2>4
<1>4. ASSUME NEW c \in Run, NEW result, HookReturns(c, result)
      PROVE  inFlight'[h] = Cardinality(Users(h)')
  <2>1. PICK g \in Reg : /\ using[c] = g
                         /\ inFlight' = [inFlight EXCEPT ![g] = @ - 1]
                         /\ using' = [using EXCEPT ![c] = None]
    BY <1>0, <1>4, HookEffect
  <2>2. CASE h = g
    <3>1. Users(h)' = Users(h) \ {c} /\ c \in Users(h)
      BY <1>0, <2>1, <2>2 DEF Users, CoreType
    <3>2. Cardinality(Users(h) \ {c}) = Cardinality(Users(h)) - 1
      BY <1>1, <3>1, FS_RemoveElement
    <3>3. inFlight'[h] = inFlight[h] - 1
      BY <1>0, <2>1, <2>2 DEF CoreType
    <3>4. QED
      BY <1>1, <3>1, <3>2, <3>3
  <2>3. CASE h # g
    <3>1. Users(h)' = Users(h)
      BY <1>0, <2>1, <2>3 DEF Users, CoreType
    <3>2. inFlight'[h] = inFlight[h]
      BY <1>0, <2>1, <2>3 DEF CoreType
    <3>3. QED
      BY <1>1, <3>1, <3>2
  <2>4. QED
    BY <2>2, <2>3
<1>5. ASSUME NEW u \in Unreg, Unregister(u) PROVE UNCHANGED <<inFlight, using>>
  BY <1>5 DEF Unregister, runVars
<1>6. QED
  BY <1>0, <1>2, <1>3, <1>4, <1>5, OtherSteps, RegisterEffect, WakeEffect

(* Dropping a name that occurs at most once leaves the other names, once each. *)
LEMMA DropEffect ==
  ASSUME NEW n \in Name, order \in Seq(Name), DropFromOrder(n),
         \A i, j \in DOMAIN order : order[i] = order[j] => i = j
  PROVE  /\ \A i, j \in DOMAIN order' : order'[i] = order'[j] => i = j
         /\ \A m \in Name : (\E i \in DOMAIN order' : order'[i] = m)
                <=> (m # n /\ \E i \in DOMAIN order : order[i] = m)
<1>1. CASE ~\E i \in DOMAIN order : order[i] = n
  BY <1>1 DEF DropFromOrder
<1>2. CASE \E i \in DOMAIN order : order[i] = n
  <2>1. PICK k \in DOMAIN order : order[k] = n /\ order' = WithoutAt(order, k)
    BY <1>2 DEF DropFromOrder
  <2> DEFINE L == Len(order)
  <2>2. L \in Nat /\ DOMAIN order = 1..L /\ k \in 1..L
    OBVIOUS
  <2>3. DOMAIN order' = 1..(L - 1) /\ \A j \in 1..(L - 1) :
          order'[j] = IF j < k THEN order[j] ELSE order[j + 1]
    BY <2>1 DEF WithoutAt
  <2> HIDE DEF L
  <2>4. \A i, j \in DOMAIN order' : order'[i] = order'[j] => i = j
    <3>1. SUFFICES ASSUME NEW i \in 1..(L - 1), NEW j \in 1..(L - 1), order'[i] = order'[j]
                   PROVE  i = j
      BY <2>3
    <3> DEFINE at(x) == IF x < k THEN x ELSE x + 1
    <3>2. at(i) \in 1..L /\ at(j) \in 1..L
      BY <2>2
    <3>3. order[at(i)] = order[at(j)]
      BY <2>2, <2>3, <3>1
    <3>4. at(i) = at(j)
      BY <2>2, <3>2, <3>3
    <3>5. QED
      BY <2>2, <3>4
  <2>5. ASSUME NEW m \in Name, NEW i \in DOMAIN order', order'[i] = m
        PROVE  m # n /\ \E j \in DOMAIN order : order[j] = m
    <3>1. CASE i < k
      BY <2>1, <2>2, <2>3, <2>5, <3>1
    <3>2. CASE ~(i < k)
      BY <2>1, <2>2, <2>3, <2>5, <3>2
    <3>3. QED
      BY <3>1, <3>2
  <2>6. ASSUME NEW m \in Name, m # n, NEW i \in DOMAIN order, order[i] = m
        PROVE  \E j \in DOMAIN order' : order'[j] = m
    <3>1. CASE i < k
      <4>1. i \in 1..(L - 1) /\ order'[i] = m
        BY <2>1, <2>2, <2>3, <2>6, <3>1
      <4>2. QED
        BY <2>3, <4>1
    <3>2. CASE i > k
      <4>1. (i - 1) \in 1..(L - 1) /\ order'[i - 1] = m
        BY <2>1, <2>2, <2>3, <2>6, <3>2
      <4>2. QED
        BY <2>3, <4>1
    <3>3. QED
      BY <2>1, <2>2, <2>6, <3>1, <3>2
  <2>7. QED
    BY <2>4, <2>5, <2>6
<1>3. QED
  BY <1>1, <1>2

(* The chain follows the registry through every step. *)
LEMMA OrderStep == DInv /\ [Next]_vars => OrderMatchesRegistry'
<1> SUFFICES ASSUME DInv, [Next]_vars PROVE OrderMatchesRegistry'
  OBVIOUS
<1>0. CoreType /\ EntryInv /\ UseInv /\ RemoveInv /\ CountsExact /\ TypeOK /\ OrderMatchesRegistry
  BY DEF DInv, TypeOK, CoreType
<1>1. ASSUME NEW g \in Reg, Register(g) PROVE OrderMatchesRegistry'
  <2>1. CASE UNCHANGED <<plugins, order, draining>>
    BY <1>0, <2>1 DEF OrderMatchesRegistry
  <2>2. CASE /\ plugins[nameOf[g]] = None
             /\ plugins' = [plugins EXCEPT ![nameOf[g]] = g]
             /\ order' = Append(order, nameOf[g])
             /\ UNCHANGED draining
             /\ regpc[g] = "idle"
    <3>1. order \in Seq(Name) /\ nameOf[g] \in Name
      BY <1>0 DEF TypeOK
    <3>2. /\ DOMAIN order' = 1..(Len(order) + 1)
          /\ DOMAIN order = 1..Len(order) /\ Len(order) \in Nat
          /\ order'[Len(order) + 1] = nameOf[g]
          /\ \A i \in 1..Len(order) : order'[i] = order[i]
      BY <2>2, <3>1
    <3>3. g \notin draining
      BY <1>0, <2>2 DEF EntryInv
    <3>4. \A i \in DOMAIN order : order[i] # nameOf[g]
      BY <1>0, <2>2, <3>1 DEF OrderMatchesRegistry
    <3>5. \A i, j \in DOMAIN order' : order'[i] = order'[j] => i = j
      BY <1>0, <3>2, <3>4 DEF OrderMatchesRegistry
    <3>6. ASSUME NEW n \in Name
          PROVE  (\E i \in DOMAIN order' : order'[i] = n)
                    <=> (n = nameOf[g] \/ \E i \in DOMAIN order : order[i] = n)
      BY <3>2
    <3>7. ASSUME NEW n \in Name
          PROVE  (plugins'[n] # None /\ plugins'[n] \notin draining')
                    <=> (n = nameOf[g] \/ (plugins[n] # None /\ plugins[n] \notin draining))
      BY <1>0, <2>2, <3>3 DEF CoreType
    <3>8. QED
      BY <1>0, <3>5, <3>6, <3>7 DEF OrderMatchesRegistry
  <2>3. QED
    BY <1>1, <2>1, <2>2, RegisterEffect
<1>2. ASSUME NEW u \in Unreg, Unregister(u) PROVE OrderMatchesRegistry'
  <2>1. CASE plugins[target[u]] = None
    BY <1>0, <1>2, <2>1, NotFoundEffect DEF OrderMatchesRegistry
  <2>2. CASE plugins[target[u]] # None
    <3>1. target[u] \in Name /\ order \in Seq(Name) /\ DropFromOrder(target[u])
      BY <1>0, <1>2, <2>2, UnregisterEffect DEF TypeOK
    <3>2. /\ \A i, j \in DOMAIN order' : order'[i] = order'[j] => i = j
          /\ \A m \in Name : (\E i \in DOMAIN order' : order'[i] = m)
                 <=> (m # target[u] /\ \E i \in DOMAIN order : order[i] = m)
      BY <1>0, <3>1, DropEffect DEF OrderMatchesRegistry
    <3>3. ASSUME NEW m \in Name
          PROVE  (plugins'[m] # None /\ plugins'[m] \notin draining')
                    <=> (m # target[u] /\ plugins[m] # None /\ plugins[m] \notin draining)
      BY <1>0, <1>2, <2>2, UnregisterEffect DEF CoreType, EntryInv
    <3>4. QED
      BY <1>0, <3>2, <3>3 DEF OrderMatchesRegistry
  <2>3. QED
    BY <2>1, <2>2
<1>3. ASSUME NEW u \in Unreg, UnregisterWake(u) PROVE OrderMatchesRegistry'
  BY <1>0, <1>3, WakeEffect DEF OrderMatchesRegistry, RemoveInv, CoreType
<1>4. CASE UNCHANGED <<plugins, order, draining>>
  BY <1>0, <1>4 DEF OrderMatchesRegistry
<1>5. QED
  BY <1>0, <1>1, <1>2, <1>3, <1>4, OtherSteps, BeginEffect, HookEffect

(***************************************************************************)
(* The inductive invariant, when no two removals of one name overlap.      *)
(***************************************************************************)
THEOREM DInvAlways == ASSUME UnregistersSequential PROVE Spec => []DInv
<1>1. Init => DInv
  <2> SUFFICES ASSUME Init PROVE DInv
    OBVIOUS
  <2>1. TypeOK
    BY DEF Init, NewRuntime, TypeOK, RegState, UnregState, PassState
  <2>2. EntryInv /\ UseInv /\ SeqInv /\ RemoveInv /\ OrderMatchesRegistry
    BY DEF Init, NewRuntime, EntryInv, UseInv, SeqInv, RemoveInv, OrderMatchesRegistry, Finished
  <2>3. CountsExact
    <3>1. \A g \in Reg : Users(g) = {}
      BY DEF Init, Users
    <3>2. QED
      BY <3>1, FS_EmptySet DEF Init, NewRuntime, CountsExact
  <2>4. QED
    BY <2>1, <2>2, <2>3 DEF DInv
<1>2. DInv /\ [Next]_vars => DInv'
  <2> SUFFICES ASSUME DInv, [Next]_vars PROVE DInv'
    OBVIOUS
  <2>1. TypeOK
    BY DEF DInv
  <2>2. QED
    BY <2>1, TypeStep, EntryStep, UseStep, SeqStep, RemoveStep, CountsStep, OrderStep DEF DInv
<1>3. QED
  BY <1>1, <1>2, PTL DEF Spec

(***************************************************************************)
(* A plugin is drained when Unregister returns, the in-flight counters are *)
(* exact and the chain is the registry, if removals of one name do not     *)
(* overlap.                                                                *)
(***************************************************************************)
THEOREM DrainSafe ==
  ASSUME UnregistersSequential
  PROVE  Spec => []DrainExact
<1>1. DInv => DrainExact
  BY DEF DInv, RemoveInv, UseInv, DrainedWhenRemoved, Users, DrainExact
<1>2. QED
  BY <1>1, DInvAlways, PTL
=============================================================================
