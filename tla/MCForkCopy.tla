----------------------------- MODULE MCForkCopy -----------------------------
(* Values for checking ForkCopy with TLC. *)
EXTENDS ForkCopy

MCSize == <<Missing, 2, Missing>>
OneFile == <<1>>
=============================================================================
