---------------------------- MODULE MCPerRequest ----------------------------
(* Values for checking PerRequest with TLC. *)
EXTENDS PerRequest, TLC

CONSTANT a

OneBlock == a :> 1
JustA == <<a>>
=============================================================================
