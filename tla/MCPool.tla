-------------------------------- MODULE MCPool --------------------------------
(* ChildPool for TLC.                                                       *)
EXTENDS ChildPool
=============================================================================
