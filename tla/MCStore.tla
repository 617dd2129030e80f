------------------------------- MODULE MCStore -------------------------------
(* StateStore with the primary account and two more, and two threads.       *)
EXTENDS StateStore

CONSTANTS p, a1, a2, t1, t2
=============================================================================
