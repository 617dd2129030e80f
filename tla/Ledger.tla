-------------------------------- MODULE Ledger --------------------------------
(***************************************************************************)
(* What the store of accounts and thread owners promises, without files or *)
(* locks: every operation takes effect at one instant on what readers see, *)
(* and, unless the disk failed it, on what a restart will find as well; a  *)
(* restart brings back exactly what was stable.  StateStore implements it. *)
(***************************************************************************)
CONSTANTS
  Accounts,  \* account identifiers
  Primary,   \* the account every store starts with
  Threads,   \* thread identifiers
  None       \* no account; no state yet

VARIABLES
  live,   \* what readers see
  stable  \* what a restart finds

vars == <<live, stable>>

(* The accounts, which of them are enabled, and the owner of each thread.  *)
Images == [accts : SUBSET Accounts, enabled : SUBSET Accounts,
           owner : [Threads -> Accounts \cup {None}]]

First == [accts |-> {Primary}, enabled |-> {Primary},
          owner |-> [t \in Threads |-> None]]

Init == live = None /\ stable = None

(* One operation on an image: a thread changes owner, an account is added, *)
(* enabled or disabled.                                                    *)
Effect(i, j) ==
  \/ \E t \in Threads, a \in i.accts : j = [i EXCEPT !.owner[t] = a]
  \/ \E a \in Accounts \ i.accts :
       j = [i EXCEPT !.accts = @ \cup {a}, !.enabled = @ \cup {a}]
  \/ \E a \in i.accts : \E e \in {i.enabled \cup {a}, i.enabled \ {a}} :
       j = [i EXCEPT !.enabled = e]

Bootstrap == stable = None /\ live' = First /\ stable' = First

Operate ==
  /\ live \in Images
  /\ Effect(live, live')
  /\ stable' \in {live', stable}

Restart == live' = stable /\ UNCHANGED stable

Next == Bootstrap \/ Operate \/ Restart

Spec == Init /\ [][Next]_vars
=============================================================================
