---------------------------- MODULE MCPoolServer ----------------------------
(* Values for checking PoolServer with TLC. *)
EXTENDS PoolServer, TLC

CONSTANT a

OneBlock == a :> 1
JustA == <<a>>
=============================================================================
