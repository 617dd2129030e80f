------------------------------- MODULE MCRouter -------------------------------
(* Router on small instances: three accounts (so that a failover can itself *)
(* be turned down), one thread that exists and one that can be created.     *)
EXTENDS Router, TLC

CONSTANTS a1, a2, a3, t1, t2, r1, r2

(* A turn races a second turn, a listing, a resume or a new thread.         *)
OffersPair == r1 :> {"turn"} @@ r2 :> {"turn", "list", "resume", "start"}

(* Every operation, the ones that touch no thread included.                 *)
OffersAll ==
  r1 :> {"turn", "fork", "list", "unarchive"}
    @@ r2 :> {"turn", "start", "scoped", "other", "limits"}

OffersScoped == r1 :> {"scoped"} @@ r2 :> {"scoped"}

OffersSticky == r1 :> {"turn"} @@ r2 :> {"list"}

(* Accounts other than the controller are interchangeable.                  *)
Others == Permutations(Accounts \ {Controller})

(* One thread exists: the table knows whose it is, or it is on another      *)
(* account than the controller and has yet to be learned from a listing.    *)
MCInit ==
  /\ Init
  /\ \E a \in Accounts :
       /\ holds = [b \in Accounts |-> IF b = a THEN {t1} ELSE {}]
       /\ owner[t1] = None => a # Controller
  /\ known = {t \in Threads : owner[t] # None}

(* A child exits or the user toggles an account, at any point; not both.    *)
OneUpset == toggles + exits =< 1

MCSpec == MCInit /\ [][Next]_vars
MCFairSpec == MCInit /\ [][Next]_vars /\ Fairness
=============================================================================
