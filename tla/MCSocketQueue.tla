--------------------------- MODULE MCSocketQueue ---------------------------
(* Values for checking SocketQueue with TLC. *)
EXTENDS SocketQueue

MCMinCount == -1
=============================================================================
