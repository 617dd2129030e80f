----------------------------- MODULE Replacement ----------------------------
(***************************************************************************)
(* What replacing an installed build promises, whatever the platform does  *)
(* to get there: there is one place where a build is started from, builds  *)
(* that were moved away are kept apart, and none is let go of unless       *)
(* another one is in place.                                                *)
(***************************************************************************)
EXTENDS Naturals

CONSTANT Builds   \* the builds; 0 stands for none

VARIABLES
  shown,   \* the build in place, 0 when there is none
  kept     \* builds kept apart

Init == shown \in Builds \cup {0} /\ kept = {}

\* The build in place is set aside.
Withdraw == shown # 0 /\ kept' = kept \cup {shown} /\ shown' = 0

\* A build takes the empty place.
Publish(b) == shown = 0 /\ shown' = b /\ UNCHANGED kept

\* A build that was set aside comes back.
Restore(b) == shown = 0 /\ b \in kept /\ shown' = b /\ kept' = kept \ {b}

\* A build that was set aside is let go of, with another one in place.
Discard(b) == shown # 0 /\ b \in kept /\ kept' = kept \ {b} /\ UNCHANGED shown

Next == Withdraw \/ \E b \in Builds \ {0} : Publish(b) \/ Restore(b) \/ Discard(b)

Spec == Init /\ [][Next]_<<shown, kept>>

\* Nothing that was there is ever lost without a successor: once there is a
\* build, there is always one.
NeverWithout ==
  [][(shown # 0 \/ kept # {}) => (shown' # 0 \/ kept' # {})]_<<shown, kept>>
=============================================================================
