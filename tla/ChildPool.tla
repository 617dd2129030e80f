------------------------------- MODULE ChildPool -------------------------------
(***************************************************************************)
(* internal/mux/mux.go: the initialize handshake of a pool of app-servers. *)
(* The client's initialize is fanned out by a goroutine of its own, its    *)
(* initialized notice by the stdin loop, while startChild brings up the    *)
(* child of an account that was just added and repeats the handshake.      *)
(***************************************************************************)
EXTENDS Sequences, FiniteSets

CONSTANTS
  Accounts,  \* account identifiers
  Original,  \* the accounts that exist when the mux starts
  None       \* no child

ASSUME PoolAssumption ==
  /\ Original \subseteq Accounts
  /\ Original # {}
  /\ None \notin Accounts

VARIABLES
  children,  \* m.children
  running,   \* the app-servers that run
  params,    \* is m.initializeParams set?
  flag,      \* m.initialized
  client,    \* how far the client's side of the handshake is
  initer,    \* where the goroutine of initialize stands,
  todo,      \* which of its entries are left,
  asking,    \* which of them it waits for,
  accepted,  \* and has any accepted?
  noticer,   \* where the stdin loop stands with initialized,
  toTell,    \* and which children it has still to tell
  adder,     \* where each account's startChild stands
  readFlag,  \* m.initialized as startChild read it
  got,       \* history: the handshake as each app-server received it
  settled    \* history: accounts added after the handshake was over

fanout == <<client, initer, todo, asking, accepted>>
notice == <<noticer, toTell>>
adding == <<adder, readFlag, settled>>
vars == <<children, running, params, flag, fanout, notice, adding, got>>

Init ==
  /\ children \in SUBSET Original \ {{}}
  /\ running = children
  /\ params = FALSE
  /\ flag = FALSE
  /\ client = "new"
  /\ initer = "none"
  /\ todo = {}
  /\ asking = None
  /\ accepted = FALSE
  /\ noticer = "none"
  /\ toTell = {}
  /\ adder = [a \in Accounts |-> IF a \in children THEN "done" ELSE
                                 IF a \in Original THEN "failed" ELSE "none"]
  /\ readFlag = [a \in Accounts |-> FALSE]
  /\ got = [a \in Accounts |-> <<>>]
  /\ settled = {}

(* A line written to a child reaches it unless it has exited.              *)
SendTo(a, what) ==
  got' = IF a \in running THEN [got EXCEPT ![a] = Append(@, what)] ELSE got
-----------------------------------------------------------------------------
ClientInitialize ==
  /\ client = "new"
  /\ client' = "asked"
  /\ initer' = "set"
  /\ UNCHANGED <<children, running, params, flag, todo, asking, accepted, notice, adding, got>>

SetParams ==
  /\ initer = "set"
  /\ params' = TRUE
  /\ initer' = "list"
  /\ UNCHANGED <<children, running, flag, client, todo, asking, accepted, notice, adding, got>>

(* Seeded fault: the pool is the one the mux started with.                 *)
ListOriginal ==
  /\ initer = "list"
  /\ todo' = children \cap Original
  /\ initer' = "ask"
  /\ UNCHANGED <<children, running, params, flag, client, asking, accepted, notice, adding, got>>

ListChildren ==
  /\ initer = "list"
  /\ todo' = children
  /\ initer' = "ask"
  /\ UNCHANGED <<children, running, params, flag, client, asking, accepted, notice, adding, got>>

(* One Request at a time; an exited child fails it at once.                *)
AskChild(a) ==
  /\ initer = "ask"
  /\ asking = None
  /\ a \in todo
  /\ asking' = a
  /\ SendTo(a, "initialize")
  /\ UNCHANGED <<children, running, params, flag, client, initer, todo, accepted, notice, adding>>

(* The child accepts, or it refuses, exits, or lets the deadline pass.     *)
ChildAnswers(ok) ==
  /\ asking # None
  /\ ok => asking \in running
  /\ accepted' = (accepted \/ ok)
  /\ todo' = todo \ {asking}
  /\ asking' = None
  /\ UNCHANGED <<children, running, params, flag, client, initer, notice, adding, got>>

(* Seeded fault: the client is answered as soon as one child has accepted. *)
AnswerEarly ==
  /\ initer = "ask"
  /\ todo = {} \/ accepted
  /\ client = "asked"
  /\ client' = IF accepted THEN "ready" ELSE "refused"
  /\ UNCHANGED <<children, running, params, flag, initer, todo, asking, accepted, notice, adding, got>>

(* Seeded fault: the client is not told that no child could be initialized.*)
AnswerSuccess ==
  /\ initer = "ask"
  /\ todo = {}
  /\ accepted
  /\ client' = "ready"
  /\ initer' = "done"
  /\ UNCHANGED <<children, running, params, flag, todo, asking, accepted, notice, adding, got>>

AnswerClient ==
  /\ initer = "ask"
  /\ todo = {}
  /\ client' = IF accepted THEN "ready" ELSE "refused"
  /\ initer' = "done"
  /\ UNCHANGED <<children, running, params, flag, todo, asking, accepted, notice, adding, got>>
-----------------------------------------------------------------------------
(* The client, once answered, sends initialized: the flag is set, ...      *)
ClientInitialized ==
  /\ client = "ready"
  /\ client' = "over"
  /\ flag' = TRUE
  /\ noticer' = "list"
  /\ UNCHANGED <<children, running, params, initer, todo, asking, accepted, toTell, adding, got>>

(* Seeded fault: the accounts are told, with or without a child.           *)
ListAccounts ==
  /\ noticer = "list"
  /\ toTell' = Accounts
  /\ noticer' = "tell"
  /\ UNCHANGED <<children, running, params, flag, fanout, adding, got>>

(* ... and every child there is by then is told.                           *)
ListToTell ==
  /\ noticer = "list"
  /\ toTell' = children
  /\ noticer' = "tell"
  /\ UNCHANGED <<children, running, params, flag, fanout, adding, got>>

Tell(a) ==
  /\ a \in toTell
  /\ toTell' = toTell \ {a}
  /\ SendTo(a, "initialized")
  /\ UNCHANGED <<children, running, params, flag, fanout, noticer, adding>>

AllTold ==
  /\ noticer = "tell"
  /\ toTell = {}
  /\ noticer' = "done"
  /\ UNCHANGED <<children, running, params, flag, fanout, toTell, adding, got>>
-----------------------------------------------------------------------------
AddAccount(a) ==
  /\ adder[a] = "none"
  /\ adder' = [adder EXCEPT ![a] = "start"]
  /\ settled' = IF noticer = "done" THEN settled \cup {a} ELSE settled
  /\ UNCHANGED <<children, running, params, flag, fanout, notice, readFlag, got>>

(* startChild: the process is started or cannot be, ...                    *)
StartProcess(a, ok) ==
  /\ adder[a] = "start"
  /\ adder' = [adder EXCEPT ![a] = IF ok THEN "map" ELSE "failed"]
  /\ running' = IF ok THEN running \cup {a} ELSE running
  /\ UNCHANGED <<children, params, flag, fanout, notice, readFlag, settled, got>>

(* ... joins the pool, ...                                                 *)
MapChild(a) ==
  /\ adder[a] = "map"
  /\ children' = children \cup {a}
  /\ adder' = [adder EXCEPT ![a] = "read"]
  /\ UNCHANGED <<running, params, flag, fanout, notice, readFlag, settled, got>>

(* ... and reads, under one lock, what the client has sent so far, ...     *)
ReadHandshake(a) ==
  /\ adder[a] = "read"
  /\ adder' = [adder EXCEPT ![a] = IF params THEN "ask" ELSE "done"]
  /\ readFlag' = [readFlag EXCEPT ![a] = flag]
  /\ UNCHANGED <<children, running, params, flag, fanout, notice, settled, got>>

(* ... which the child is then told: initialize, awaiting its reply, ...   *)
AskAdded(a) ==
  /\ adder[a] = "ask"
  /\ adder' = [adder EXCEPT ![a] = "await"]
  /\ SendTo(a, "initialize")
  /\ UNCHANGED <<children, running, params, flag, fanout, notice, readFlag, settled>>

(* ... and initialized; a child that refuses stays in the pool.            *)
AddedAnswers(a, ok) ==
  /\ adder[a] = "await"
  /\ ok => a \in running
  /\ adder' = [adder EXCEPT ![a] = IF ok THEN "done" ELSE "failed"]
  /\ IF ok /\ readFlag[a] THEN SendTo(a, "initialized") ELSE UNCHANGED got
  /\ UNCHANGED <<children, running, params, flag, fanout, notice, readFlag, settled>>

Exit(a) ==
  /\ a \in running
  /\ running' = running \ {a}
  /\ UNCHANGED <<children, params, flag, fanout, notice, adding, got>>
-----------------------------------------------------------------------------
Initialize ==
  \/ SetParams \/ ListChildren \/ AnswerClient
  \/ \E a \in Accounts : AskChild(a)
  \/ \E ok \in BOOLEAN : ChildAnswers(ok)

StartChild(a) ==
  \/ AddAccount(a) \/ MapChild(a) \/ ReadHandshake(a) \/ AskAdded(a)
  \/ \E ok \in BOOLEAN : StartProcess(a, ok) \/ AddedAnswers(a, ok)

Next ==
  \/ ClientInitialize \/ Initialize
  \/ ClientInitialized \/ ListToTell \/ AllTold
  \/ \E a \in Accounts : Tell(a) \/ StartChild(a) \/ Exit(a)

Spec == Init /\ [][Next]_vars

(* The goroutine of initialize runs, and every Request has a deadline.     *)
FairSpec == Spec /\ WF_vars(Initialize)
-----------------------------------------------------------------------------
(* Type correctness.                                                       *)
TypeOK ==
  /\ children \subseteq Accounts
  /\ running \subseteq Accounts
  /\ params \in BOOLEAN /\ flag \in BOOLEAN /\ accepted \in BOOLEAN
  /\ client \in {"new", "asked", "ready", "refused", "over"}
  /\ initer \in {"none", "set", "list", "ask", "done"}
  /\ todo \subseteq children
  /\ asking \in todo \cup {None}
  /\ noticer \in {"none", "list", "tell", "done"}
  /\ toTell \subseteq children
  /\ adder \in [Accounts -> {"none", "start", "map", "read", "ask", "await", "done", "failed"}]
  /\ readFlag \in [Accounts -> BOOLEAN]
  /\ got \in [Accounts -> Seq({"initialize", "initialized"})]
  /\ settled \subseteq Accounts

(* Whichever way startChild and the client's handshake interleave, once    *)
(* both are over, a running child that joined the pool has been told all.  *)
Told(a, what) == \E i \in DOMAIN got[a] : got[a][i] = what
NobodyMissed ==
  \A a \in children \cap running :
    adder[a] = "done" =>
      /\ initer = "done" => Told(a, "initialize")
      /\ noticer = "done" => Told(a, "initialized")

(* A child that was there when the mux started, or is added when the       *)
(* handshake is over, is told once, and initialized after initialize.      *)
HandshakeInOrder ==
  \A a \in Original \cup settled :
    got[a] \in {<<>>, <<"initialize">>, <<"initialize", "initialized">>}

(* The client's initialize is answered, whatever the children do.          *)
InitializeAnswered == client = "asked" ~> client \in {"ready", "refused", "over"}
=============================================================================
