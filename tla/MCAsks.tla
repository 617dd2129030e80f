-------------------------------- MODULE MCAsks --------------------------------
(* ServerRequests for TLC.                                                  *)
EXTENDS ServerRequests
=============================================================================
