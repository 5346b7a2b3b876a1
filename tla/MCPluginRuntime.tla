--------------------------- MODULE MCPluginRuntime ---------------------------
(***************************************************************************)
(* An instance of PluginRuntime: two names, of which n1 is registered      *)
(* twice and n2 once.  One caller removes n1 twice, another removes n2.    *)
(***************************************************************************)
EXTENDS PluginRuntime, TLC

CONSTANTS n1, n2, g1, g2, g3, u1, u2, u3, c1, c2

MCnameOf == (g1 :> n1) @@ (g2 :> n1) @@ (g3 :> n2)
MCtarget == (u1 :> n1) @@ (u2 :> n1) @@ (u3 :> n2)
TwoCallers == (u1 :> {}) @@ (u2 :> {u1}) @@ (u3 :> {})
=============================================================================
