--------------------------- MODULE MCProxyPipeline ---------------------------
(***************************************************************************)
(* Instance of ProxyPipeline: one transaction, on any path, with and       *)
(* without a pause timeout.  Transactions share only the rewrite rules,    *)
(* which change at any moment.                                             *)
(***************************************************************************)
EXTENDS ProxyPipeline, TLC

CONSTANT t1
=============================================================================
