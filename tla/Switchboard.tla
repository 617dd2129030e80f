----------------------------- MODULE Switchboard -----------------------------
(***************************************************************************)
(* What the multiplexer promises its one desktop client, without saying    *)
(* how: every request is answered at most once, the copies of a thread's   *)
(* rollout only spread, and the account a thread calls home is always one  *)
(* that holds a copy of it.  Router implements this module.                *)
(***************************************************************************)
CONSTANTS
  Accounts,  \* the connected subscriptions
  Threads,   \* conversation identifiers
  Requests,  \* JSON-RPC request identifiers of the client
  None       \* no account

VARIABLES
  status,  \* where each request stands
  home,    \* the account each thread is pinned to
  copies   \* the threads whose rollout each account can open

vars == <<status, home, copies>>

Status == {"unsent", "pending", "answered"}

Init ==
  /\ status = [r \in Requests |-> "unsent"]
  /\ home \in [Threads -> Accounts \cup {None}]
  /\ copies \in [Accounts -> SUBSET Threads]
  /\ \A t \in Threads : home[t] # None => t \in copies[home[t]]

(* A request moves forward one stage at a time and never back.             *)
Advance(r) ==
  \/ /\ status[r] = "unsent"
     /\ status' = [status EXCEPT ![r] = "pending"]
  \/ /\ status[r] = "pending"
     /\ status' = [status EXCEPT ![r] = "answered"]

(* Copies spread; a thread moves house only to an account holding a copy,  *)
(* and never becomes homeless.                                             *)
Settle ==
  /\ copies' \in [Accounts -> SUBSET Threads]
  /\ home' \in [Threads -> Accounts \cup {None}]
  /\ \A a \in Accounts : copies[a] \subseteq copies'[a]
  /\ \A t \in Threads :
       home'[t] # home[t] => home'[t] \in Accounts /\ t \in copies'[home'[t]]

Next ==
  /\ UNCHANGED status \/ \E r \in Requests : Advance(r)
  /\ Settle

Spec == Init /\ [][Next]_vars
=============================================================================
