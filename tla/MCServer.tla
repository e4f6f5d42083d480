-------------------------------- MODULE MCServer ------------------------------
(***************************************************************************)
(* Server with up to two connections at once and two calls of              *)
(* ListenAndServe, for every configuration of the graceful shutdown.       *)
(***************************************************************************)
EXTENDS Server, TLC
===============================================================================
