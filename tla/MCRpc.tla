--------------------------------- MODULE MCRpc ---------------------------------
(* ChildRpc for TLC: two calls and one client request through pipes of one  *)
(* message, so that every queue fills.                                      *)
EXTENDS ChildRpc
=============================================================================
