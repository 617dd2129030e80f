-------------------------------- MODULE Router --------------------------------
(***************************************************************************)
(* The request router of the multiplexer (internal/mux): one desktop       *)
(* client, one app-server child per account, and a table that pins every   *)
(* thread to an account.  Client requests are dispatched one at a time by  *)
(* the stdin loop; thread/start, turn/start and thread/list then continue  *)
(* in goroutines of their own, and the replies and notifications of all    *)
(* children come back through one inbound loop.                            *)
(*                                                                         *)
(* The children (the Codex app-servers) are external: they are modelled by *)
(* the replies the router is prepared for.                                 *)
(***************************************************************************)
EXTENDS Naturals, FiniteSets

CONSTANTS
  Accounts,    \* the accounts in the store, each with its child process
  Controller,  \* the account that serves requests of no thread
  Threads,     \* thread identifiers, in use or still to be created
  Remembered,  \* threads the client names from an earlier run, owned or not
  Requests,    \* identifiers of client requests, used once each
  None,        \* no account, no thread
  Offers,      \* the operations the client may send under each identifier
  MaxToggles,  \* bound: how often accounts are enabled or disabled
  MaxExits     \* bound: how many children exit

Ops == {"start", "turn", "resume", "unarchive", "fork", "other", "scoped", "list",
        "limits"}

ASSUME RouterAssumption ==
  /\ Controller \in Accounts
  /\ None \notin Accounts
  /\ None \notin Threads
  /\ Remembered \subseteq Threads
  /\ Offers \in [Requests -> SUBSET Ops]
  /\ MaxToggles \in Nat
  /\ MaxExits \in Nat

VARIABLES
  enabled,  \* store: is the account enabled?
  owner,    \* store: the owner of each thread, or None
  alive,    \* is the child of the account running?
  holds,    \* external: the threads the child of the account can open
  known,    \* external: the threads the client has been told of
  op,       \* the operation of each request
  thr,      \* the threadId in its params, or None
  orphan,   \* history: the turns whose thread had no owner when taken up
  pc,       \* the next step of the code that handles it
  at,       \* the account the thread was found on (ownerID, sourceAccountID)
  to,       \* the account chosen to serve it
  excl,     \* externalRoute.excluded: accounts a failover must avoid
  route,    \* externalRoutes: the account a request was forwarded to
  tried,    \* history: the accounts a request was ever forwarded to
  marked,   \* the requests whose params still carry codexMuxAccountId
  got,      \* thread/list: the (account, thread) pairs listed so far
  left,     \* thread/list: the accounts still to be asked, then merged
  inbox,    \* (account, request) pairs written to a child's stdin
  outbox,   \* replies of children, in the pipe or in m.inbound
  notices,  \* thread/started notifications of children, likewise
  handed,   \* the thread named in what the inbound loop is about to write, if any
  answers,  \* how many answers the client got for each request
  toggles, exits  \* bound counters

store == <<enabled, owner>>
request == <<op, thr, orphan>>
turn == <<at, to, excl, tried>>
listing == <<got, left>>
pipes == <<inbox, outbox, notices>>
bounds == <<toggles, exits>>
vars == <<store, alive, holds, known, request, pc, turn, listing, route,
          marked, pipes, handed, answers, bounds>>

Stages == {"idle", "check", "choose", "resume", "own", "forward", "sent", "write",
           "gather", "merge", "aggregate", "done"}

Account == Accounts \cup {None}
Thread == Threads \cup {None}
Replies == [acct : Accounts, req : Requests, outcome : {"ok", "limit", "error"},
            thread : Thread]

(* The reading of one account that account/read and account/rateLimits/read *)
(* give: room left this week, no readable weekly window, nothing left (or   *)
(* no ChatGPT login), or no answer in time.                                 *)
Views == {"room", "blind", "spent", "silent"}
-----------------------------------------------------------------------------
Init ==
  /\ enabled = [a \in Accounts |-> TRUE]
  /\ alive = [a \in Accounts |-> TRUE]
  /\ holds \in [Accounts -> SUBSET Threads]
  /\ owner \in [Threads -> Account]
  /\ \A t \in Threads : owner[t] # None => t \in holds[owner[t]]
  /\ known \in SUBSET {t \in Threads : owner[t] # None}
  /\ op = [r \in Requests |-> "other"]
  /\ thr = [r \in Requests |-> None]
  /\ orphan = {}
  /\ pc = [r \in Requests |-> "idle"]
  /\ at = [r \in Requests |-> None]
  /\ to = [r \in Requests |-> None]
  /\ excl = [r \in Requests |-> {}]
  /\ route = [r \in Requests |-> None]
  /\ tried = [r \in Requests |-> {}]
  /\ marked = {}
  /\ got = [r \in Requests |-> {}]
  /\ left = [r \in Requests |-> {}]
  /\ inbox = {}
  /\ outbox = {}
  /\ notices = {}
  /\ handed = {}
  /\ answers = [r \in Requests |-> 0]
  /\ toggles = 0
  /\ exits = 0

(* Requests served on the stdin loop itself, without a goroutine.          *)
Direct(r) ==
  \/ op[r] \in {"resume", "unarchive", "fork", "other", "scoped"}
  \/ (op[r] = "turn" /\ thr[r] = None)
LoopFree == \A r \in Requests : ~(pc[r] = "forward" /\ Direct(r))

Goto(r, stage) == pc' = [pc EXCEPT ![r] = stage]

(* The client gets an answer; what the handler of r kept is garbage.       *)
Answer(r) ==
  /\ Goto(r, "done")
  /\ answers' = [answers EXCEPT ![r] = @ + 1]
  /\ op' = [op EXCEPT ![r] = "other"]
  /\ thr' = [thr EXCEPT ![r] = None]
  /\ orphan' = orphan \ {r}
  /\ at' = [at EXCEPT ![r] = None]
  /\ to' = [to EXCEPT ![r] = None]
  /\ excl' = [excl EXCEPT ![r] = {}]
  /\ tried' = [tried EXCEPT ![r] = {}]
  /\ got' = [got EXCEPT ![r] = {}]
  /\ left' = [left EXCEPT ![r] = {}]

Proceed == UNCHANGED <<answers, request, turn, listing>>

(* The client writes request r; the stdin loop takes it up.                *)
Receive(r, o, t) ==
  /\ pc[r] = "idle"
  /\ LoopFree
  /\ o \in Offers[r]
  /\ op' = [op EXCEPT ![r] = o]
  /\ thr' = [thr EXCEPT ![r] = t]
  /\ orphan' = IF o = "turn" /\ t # None /\ owner[t] = None
                 THEN orphan \cup {r} ELSE orphan
  /\ UNCHANGED <<store, alive, holds, known, excl, tried, got, route, pipes,
                 handed, answers, bounds>>

(* go routeNewThread *)
RouteNewThread(r) ==
  /\ Receive(r, "start", None)
  /\ Goto(r, "choose")
  /\ UNCHANGED <<at, to, marked, left>>

(* go routeAggregatedRateLimits *)
RouteRateLimits(r) ==
  /\ Receive(r, "limits", None)
  /\ Goto(r, "aggregate")
  /\ UNCHANGED <<at, to, marked, left>>

(* go aggregateThreadList *)
ListThreads(r) ==
  /\ Receive(r, "list", None)
  /\ Goto(r, "gather")
  /\ left' = [left EXCEPT ![r] = Accounts]
  /\ UNCHANGED <<at, to, marked>>

(* A plugin request marked with an account the router may use goes there   *)
(* without the marker; any other falls through to the controller as it is. *)
RouteScoped(r, account) ==
  /\ Receive(r, "scoped", None)
  /\ Goto(r, "forward")
  /\ IF enabled[account]
       THEN to' = [to EXCEPT ![r] = account] /\ UNCHANGED marked
       ELSE to' = [to EXCEPT ![r] = Controller] /\ marked' = marked \cup {r}
  /\ UNCHANGED <<at, left>>

(* Seeded fault: no thread, no account: the controller is forgotten.    *)
OwnerOrNobody(t) == IF t = None THEN None ELSE owner[t]

OwnerOrController(t) ==
  IF t # None /\ owner[t] # None THEN owner[t] ELSE Controller

RouteExisting(r, o, t) ==
  /\ o \in {"turn", "resume", "unarchive", "fork", "other"}
  /\ Receive(r, o, t)
  /\ IF o = "turn" /\ t # None
       THEN /\ Goto(r, "check")
            /\ at' = [at EXCEPT ![r] = OwnerOrController(t)]
            /\ UNCHANGED to
       ELSE /\ Goto(r, "forward")
            /\ to' = [to EXCEPT ![r] = OwnerOrController(t)]
            /\ UNCHANGED at
  /\ UNCHANGED <<marked, left>>

(* routeTurnStart: an owner that cannot be read keeps the turn.            *)
OwnerHasCapacity(r, view) ==
  view = "silent" \/ (enabled[at[r]] /\ view # "spent")

CheckOwner(r, view) ==
  /\ pc[r] = "check"
  /\ ~alive[at[r]] => view = "silent"
  /\ IF OwnerHasCapacity(r, view)
       THEN /\ Goto(r, "forward")
            /\ to' = [to EXCEPT ![r] = at[r]]
            /\ UNCHANGED excl
       ELSE /\ Goto(r, "choose")
            /\ excl' = [excl EXCEPT ![r] = {at[r]}]
            /\ UNCHANGED to
  /\ UNCHANGED <<store, alive, holds, known, request, at, tried, listing, route,
                 marked, pipes, handed, answers, bounds>>

(* chooseAccountExcluding: accounts with a readable weekly window win over *)
(* those without one; the ranking within each group is RoutePolicy's.      *)
Readable == [Accounts -> Views]

(* Seeded fault: a failover may pick the account it came from.             *)
CandidatesAgain(r, views, view) == {a \in Accounts : enabled[a] /\ views[a] = view}

Candidates(r, views, view) ==
  {a \in Accounts \ excl[r] : enabled[a] /\ views[a] = view}
Choices(r, views) ==
  IF Candidates(r, views, "room") # {} THEN Candidates(r, views, "room")
                                       ELSE Candidates(r, views, "blind")
Snapshots(views) == \A a \in Accounts : ~alive[a] => views[a] = "silent"

(* Seeded fault: a failover forwards the turn without opening the thread.  *)
ChooseWithoutResume(r, views) ==
  /\ pc[r] = "choose"
  /\ Snapshots(views)
  /\ \E a \in Choices(r, views) : to' = [to EXCEPT ![r] = a]
  /\ Goto(r, "forward")
  /\ UNCHANGED <<store, alive, holds, known, request, at, excl, tried, listing,
                 route, marked, pipes, handed, answers, bounds>>

ChooseAccount(r, views) ==
  /\ pc[r] = "choose"
  /\ Snapshots(views)
  /\ \E a \in Choices(r, views) : to' = [to EXCEPT ![r] = a]
  /\ Goto(r, IF op[r] = "turn" THEN "resume" ELSE "forward")
  /\ UNCHANGED <<store, alive, holds, known, request, at, excl, tried, listing,
                 route, marked, pipes, handed, answers, bounds>>

AllDepleted(r, views) ==
  /\ pc[r] = "choose"
  /\ Snapshots(views)
  /\ Choices(r, views) = {}
  /\ Answer(r)
  /\ UNCHANGED <<store, alive, holds, known, route, marked, pipes, handed, bounds>>

(* resumeThreadOnAccount: thread/read on the source gives the rollout path *)
(* that thread/resume opens on the target.                                 *)
CanResume(r) == alive[at[r]] /\ alive[to[r]] /\ thr[r] \in holds[at[r]]

ResumeOnTarget(r) ==
  /\ pc[r] = "resume"
  /\ CanResume(r)
  /\ holds' = [holds EXCEPT ![to[r]] = @ \cup {thr[r]}]
  /\ Goto(r, "own")
  /\ Proceed
  /\ UNCHANGED <<store, alive, known, route, marked, pipes, handed, bounds>>

(* Seeded fault: a failed resume does not stop the failover.               *)
ResumeErrorIgnored(r, late) ==
  /\ pc[r] = "resume"
  /\ Goto(r, "own")
  /\ Proceed
  /\ UNCHANGED <<store, alive, holds, known, route, marked, pipes, handed, bounds>>

(* A child refuses, is gone, or answers after the deadline; in the last    *)
(* case the target has opened the thread all the same.                     *)
ResumeFails(r, late) ==
  /\ pc[r] = "resume"
  /\ late => CanResume(r)
  /\ holds' = IF late THEN [holds EXCEPT ![to[r]] = @ \cup {thr[r]}] ELSE holds
  /\ Answer(r)
  /\ UNCHANGED <<store, alive, known, route, marked, pipes, handed, bounds>>

(* SetThreadOwner changes the table before it saves; a failed save is      *)
(* reported to the client and not undone.                                  *)
TakeOwnership(r, saved) ==
  /\ pc[r] = "own"
  /\ ~saved => owner[thr[r]] # to[r]
  /\ owner' = [owner EXCEPT ![thr[r]] = to[r]]
  /\ IF saved THEN Goto(r, "forward") /\ Proceed ELSE Answer(r)
  /\ UNCHANGED <<enabled, alive, holds, known, route, marked, pipes, handed, bounds>>

(* Seeded fault: the route is registered for the owner, not the target.     *)
ForwardForOwner(r) ==
  /\ pc[r] = "forward"
  /\ alive[to[r]]
  /\ route' = [route EXCEPT ![r] = OwnerOrController(thr[r])]
  /\ tried' = [tried EXCEPT ![r] = @ \cup {to[r]}]
  /\ inbox' = inbox \cup {<<to[r], r>>}
  /\ Goto(r, "sent")
  /\ UNCHANGED <<store, alive, holds, known, request, at, to, excl, listing,
                 marked, outbox, notices, handed, answers, bounds>>

Forward(r) ==
  /\ pc[r] = "forward"
  /\ IF alive[to[r]]
       THEN /\ route' = [route EXCEPT ![r] = to[r]]
            /\ tried' = [tried EXCEPT ![r] = @ \cup {to[r]}]
            /\ inbox' = inbox \cup {<<to[r], r>>}
            /\ Goto(r, "sent")
            /\ UNCHANGED <<request, at, to, excl, listing, answers>>
       ELSE /\ Answer(r)
            /\ UNCHANGED <<route, inbox>>
  /\ UNCHANGED <<store, alive, holds, known, marked, outbox, notices, handed, bounds>>
-----------------------------------------------------------------------------
(* thread/list: every child is asked in parallel, page by page; an error   *)
(* ends its listing with what it had so far.                               *)
GatherThreads(r, a, listed) ==
  /\ pc[r] = "gather"
  /\ a \in left[r]
  /\ listed \subseteq holds[a]
  /\ got' = [got EXCEPT ![r] = @ \cup ({a} \X listed)]
  /\ IF left[r] = {a}
       THEN /\ Goto(r, "merge")
            /\ left' = [left EXCEPT ![r] = Accounts]
       ELSE /\ left' = [left EXCEPT ![r] = @ \ {a}]
            /\ UNCHANGED pc
  /\ UNCHANGED <<store, alive, holds, known, request, turn, route, marked, pipes,
                 handed, answers, bounds>>

Listed(r) == {t \in Threads : \E a \in Accounts : <<a, t>> \in got[r]}

(* Seeded fault: a listing is taken for complete, and unlists the rest.    *)
MergeForgets(r, a) ==
  /\ pc[r] = "merge"
  /\ a \in left[r]
  /\ owner' = [t \in Threads |-> IF <<a, t>> \in got[r] THEN a
                                ELSE IF owner[t] = a THEN None ELSE owner[t]]
  /\ left' = [left EXCEPT ![r] = @ \ {a}]
  /\ UNCHANGED <<enabled, alive, holds, known, request, pc, turn, got, route,
                 marked, pipes, handed, answers, bounds>>

(* Then the listings are merged in the order in which they completed, and  *)
(* every thread is pinned to the account that listed it.                   *)
MergeThreads(r, a) ==
  /\ pc[r] = "merge"
  /\ a \in left[r]
  /\ owner' = [t \in Threads |-> IF <<a, t>> \in got[r] THEN a ELSE owner[t]]
  /\ left' = [left EXCEPT ![r] = @ \ {a}]
  /\ UNCHANGED <<enabled, alive, holds, known, request, pc, turn, got, route,
                 marked, pipes, handed, answers, bounds>>

AnswerList(r) ==
  /\ pc[r] = "merge"
  /\ left[r] = {}
  /\ known' = known \cup Listed(r)
  /\ Answer(r)
  /\ UNCHANGED <<store, alive, holds, route, marked, pipes, handed, bounds>>

AnswerRateLimits(r) ==
  /\ pc[r] = "aggregate"
  /\ Answer(r)
  /\ UNCHANGED <<store, alive, holds, known, route, marked, pipes, handed, bounds>>
-----------------------------------------------------------------------------
(* One loop serves what the children write, one message at a time: it      *)
(* takes up no other while it has an answer or a notice to pass on.        *)
InboundFree == handed = {} /\ \A r \in Requests : pc[r] # "write"

(* Seeded fault: a route outlives its reply.                               *)
TakeReplyKeepingRoute(m) ==
  /\ InboundFree
  /\ m \in outbox
  /\ route[m.req] # None
  /\ outbox' = outbox \ {m}
  /\ UNCHANGED <<enabled, alive, holds, known, route, marked, inbox, notices, bounds>>

(* handleInbound, for the reply to a forwarded request.                    *)
TakeReply(m) ==
  /\ InboundFree
  /\ m \in outbox
  /\ route[m.req] # None
  /\ outbox' = outbox \ {m}
  /\ route' = [route EXCEPT ![m.req] = None]
  /\ UNCHANGED <<enabled, alive, holds, known, marked, inbox, notices, bounds>>

LearnsOwner(o) == o \in {"start", "fork", "resume", "unarchive"}
HitLimit(m) == op[m.req] = "turn" /\ m.outcome = "limit"

(* learnThreadOwner: the table is written first, then the client.          *)
LearnThreadOwner(m) ==
  /\ ~HitLimit(m)
  /\ TakeReply(m)
  /\ owner' = IF LearnsOwner(op[m.req]) /\ m.thread # None
                THEN [owner EXCEPT ![m.thread] = m.acct] ELSE owner
  /\ handed' = {m.thread} \ {None}
  /\ Goto(m.req, "write")
  /\ UNCHANGED <<request, turn, listing, answers>>

WriteReply(r) ==
  /\ pc[r] = "write"
  /\ known' = known \cup handed
  /\ handed' = {}
  /\ Answer(r)
  /\ UNCHANGED <<store, alive, holds, route, marked, pipes, bounds>>

(* go retryTurnAfterUsageLimit: another account is looked for, never one   *)
(* that was exhausted before.                                              *)
RetryTurn(m) ==
  /\ HitLimit(m)
  /\ thr[m.req] # None
  /\ TakeReply(m)
  /\ excl' = [excl EXCEPT ![m.req] = @ \cup {m.acct}]
  /\ at' = [at EXCEPT ![m.req] = m.acct]
  /\ Goto(m.req, "choose")
  /\ UNCHANGED <<owner, handed, request, to, tried, listing, answers>>

RefuseTurn(m) ==
  /\ HitLimit(m)
  /\ thr[m.req] = None
  /\ TakeReply(m)
  /\ Answer(m.req)
  /\ UNCHANGED <<owner, handed>>

(* Seeded fault: the notice goes out before the thread is pinned.          *)
TellThenPin(n) ==
  /\ InboundFree
  /\ n \in notices
  /\ IF n[2] \notin known
       THEN known' = known \cup {n[2]} /\ UNCHANGED <<owner, notices>>
       ELSE /\ owner' = [owner EXCEPT ![n[2]] = n[1]]
            /\ notices' = notices \ {n}
            /\ UNCHANGED known
  /\ UNCHANGED <<enabled, alive, holds, request, pc, turn, listing, route, marked,
                 inbox, outbox, handed, answers, bounds>>

(* handleInbound, for thread/started: pin the thread, then pass it on.     *)
PinThread(n) ==
  /\ InboundFree
  /\ n \in notices
  /\ notices' = notices \ {n}
  /\ owner' = [owner EXCEPT ![n[2]] = n[1]]
  /\ handed' = {n[2]}
  /\ UNCHANGED <<enabled, alive, holds, known, request, pc, turn, listing, route,
                 marked, inbox, outbox, answers, bounds>>

WriteNotice ==
  /\ handed # {}
  /\ \A r \in Requests : pc[r] # "write"
  /\ known' = known \cup handed
  /\ handed' = {}
  /\ UNCHANGED <<store, alive, holds, request, pc, turn, listing, route, marked,
                 pipes, answers, bounds>>
-----------------------------------------------------------------------------
(* External: the child of account a answers request r.                     *)
Reply(a, r, outcome, t) ==
  /\ <<a, r>> \in inbox
  /\ alive[a]
  /\ inbox' = inbox \ {<<a, r>>}
  /\ outbox' = outbox \cup
       {[acct |-> a, req |-> r, outcome |-> outcome, thread |-> t]}
  /\ UNCHANGED <<store, alive, known, request, pc, turn, listing, route, marked,
                 handed, answers, bounds>>

Fresh(t) == \A a \in Accounts : t \notin holds[a]

ServeNewThread(a, r, t) ==
  /\ op[r] = "start" \/ (op[r] = "fork" /\ thr[r] \in holds[a])
  /\ Fresh(t)
  /\ Reply(a, r, "ok", t)
  /\ holds' = [holds EXCEPT ![a] = @ \cup {t}]
  /\ notices' = notices \cup {<<a, t>>}

ServeResume(a, r) ==
  /\ op[r] \in {"resume", "unarchive"}
  /\ thr[r] \in holds[a]
  /\ Reply(a, r, "ok", thr[r])
  /\ UNCHANGED <<holds, notices>>

ServeOther(a, r) ==
  /\ op[r] \in {"other", "scoped"} \/ (op[r] = "turn" /\ thr[r] \in holds[a])
  /\ Reply(a, r, "ok", None)
  /\ UNCHANGED <<holds, notices>>

Refuse(a, r, outcome) ==
  /\ outcome = "limit" => op[r] = "turn"
  /\ Reply(a, r, outcome, None)
  /\ UNCHANGED <<holds, notices>>

Serve(a, r) ==
  \/ \E t \in Threads : ServeNewThread(a, r, t)
  \/ ServeResume(a, r)
  \/ ServeOther(a, r)
  \/ \E outcome \in {"limit", "error"} : Refuse(a, r, outcome)

(* External: a child exits and is not restarted; what it had not yet read  *)
(* is lost, and so may be what it had written.                             *)
ChildExit(a, lost, unheard) ==
  /\ alive[a]
  /\ exits < MaxExits
  /\ exits' = exits + 1
  /\ alive' = [alive EXCEPT ![a] = FALSE]
  /\ lost \subseteq {m \in outbox : m.acct = a}
  /\ unheard \subseteq {n \in notices : n[1] = a}
  /\ inbox' = {m \in inbox : m[1] # a}
  /\ outbox' = outbox \ lost
  /\ notices' = notices \ unheard
  /\ UNCHANGED <<store, holds, known, request, pc, turn, listing, route, marked,
                 handed, answers, toggles>>

(* UpdateAccount: the account menu enables or disables an account.         *)
UpdateAccount(a) ==
  /\ toggles < MaxToggles
  /\ toggles' = toggles + 1
  /\ enabled' = [enabled EXCEPT ![a] = ~@]
  /\ UNCHANGED <<owner, alive, holds, known, request, pc, turn, listing, route,
                 marked, pipes, handed, answers, exits>>
-----------------------------------------------------------------------------
ClientSends(r) ==
  \/ RouteNewThread(r)
  \/ RouteRateLimits(r)
  \/ ListThreads(r)
  \/ \E account \in Accounts : RouteScoped(r, account)
  \/ \E o \in Ops, t \in known \cup Remembered \cup {None} : RouteExisting(r, o, t)

(* What the goroutine, or the stdin loop, that handles r does next.        *)
Handle(r) ==
  \/ \E view \in Views : CheckOwner(r, view)
  \/ \E views \in Readable : ChooseAccount(r, views) \/ AllDepleted(r, views)
  \/ ResumeOnTarget(r)
  \/ \E late \in BOOLEAN : ResumeFails(r, late)
  \/ \E saved \in BOOLEAN : TakeOwnership(r, saved)
  \/ Forward(r)
  \/ \E a \in Accounts : \E listed \in SUBSET holds[a] : GatherThreads(r, a, listed)
  \/ \E a \in Accounts : MergeThreads(r, a)
  \/ AnswerList(r)
  \/ AnswerRateLimits(r)

Inbound ==
  \/ \E m \in outbox : LearnThreadOwner(m) \/ RetryTurn(m) \/ RefuseTurn(m)
  \/ \E r \in Requests : WriteReply(r)
  \/ \E n \in notices : PinThread(n)
  \/ WriteNotice

Environment ==
  \/ \E a \in Accounts, r \in Requests : Serve(a, r)
  \/ \E a \in Accounts : \E lost \in SUBSET outbox, unheard \in SUBSET notices :
       ChildExit(a, lost, unheard)
  \/ \E a \in Accounts : UpdateAccount(a)

Next ==
  \/ \E r \in Requests : ClientSends(r) \/ Handle(r)
  \/ Inbound
  \/ Environment

Spec == Init /\ [][Next]_vars

(* The Go scheduler runs every goroutine, every internal request returns   *)
(* or times out, and a child that is running answers what it reads.        *)
Fairness ==
  /\ \A r \in Requests : WF_vars(Handle(r))
  /\ WF_vars(Inbound)
  /\ \A a \in Accounts, r \in Requests : WF_vars(Serve(a, r))

FairSpec == Spec /\ Fairness
-----------------------------------------------------------------------------
(* Type correctness; a turn that is checked or moved has a thread and an   *)
(* account to move from, and whatever is forwarded has somewhere to go.    *)
TypeOK ==
  /\ enabled \in [Accounts -> BOOLEAN]
  /\ owner \in [Threads -> Account]
  /\ alive \in [Accounts -> BOOLEAN]
  /\ holds \in [Accounts -> SUBSET Threads]
  /\ known \in SUBSET Threads
  /\ op \in [Requests -> Ops]
  /\ thr \in [Requests -> Thread]
  /\ orphan \in SUBSET Requests
  /\ pc \in [Requests -> Stages]
  /\ at \in [Requests -> Account]
  /\ to \in [Requests -> Account]
  /\ excl \in [Requests -> SUBSET Accounts]
  /\ route \in [Requests -> Account]
  /\ tried \in [Requests -> SUBSET Accounts]
  /\ marked \in SUBSET Requests
  /\ got \in [Requests -> SUBSET (Accounts \X Threads)]
  /\ left \in [Requests -> SUBSET Accounts]
  /\ inbox \in SUBSET (Accounts \X Requests)
  /\ outbox \in SUBSET Replies
  /\ notices \in SUBSET (Accounts \X Threads)
  /\ handed \in SUBSET Threads
  /\ answers \in [Requests -> Nat]
  /\ toggles \in Nat
  /\ exits \in Nat
  /\ \A r \in Requests :
       /\ pc[r] \in {"check", "resume", "own"} => op[r] = "turn"
       /\ pc[r] \in {"check", "choose", "resume", "own"} /\ op[r] = "turn"
            => at[r] \in Accounts /\ thr[r] \in Threads
       /\ pc[r] \in {"resume", "own", "forward"} => to[r] \in Accounts

(* A thread is only ever pinned to an account whose child can open it,     *)
(* whatever order list merges, failovers, notices and replies come in.     *)
OwnerHolds == \A t \in Threads : owner[t] # None => t \in holds[owner[t]]

(* Every thread the client has been told of has an owner: the table is     *)
(* written before the answer or the notice that names the thread goes out. *)
KnownThreadHasOwner == \A t \in known : owner[t] # None

(* A turn is only ever put to a child that can open its thread, though the *)
(* owner was read several steps earlier and may have moved since.  The one *)
(* exception is the controller's: a thread nobody owned when the turn was  *)
(* taken up.                                                               *)
CanServe(r, a) == thr[r] \in holds[a] \/ (r \in orphan /\ a = Controller)
TurnLandsOnHolder ==
  \A m \in inbox :
    op[m[2]] = "turn" /\ thr[m[2]] # None => CanServe(m[2], m[1])

(* Whatever is on its way to or from a child for a request is what the     *)
(* route table says, and there is one such message at most: no reply can   *)
(* be taken for the reply of another account or of an earlier attempt.     *)
RouteMatchesChild ==
  /\ \A m \in inbox : route[m[2]] = m[1]
  /\ \A m \in outbox : route[m.req] = m.acct
  /\ \A m \in inbox, n \in outbox : m[2] # n.req
  /\ \A m, n \in outbox : m.req = n.req => m = n
  /\ \A m, n \in inbox : m[2] = n[2] => m = n

(* The client gets one answer at most, and nothing is under way for a      *)
(* request that has been answered.                                         *)
OneAnswer ==
  \A r \in Requests :
    /\ answers[r] <= 1
    /\ answers[r] = 1 => route[r] = None /\ pc[r] = "done"

(* A turn that failovers carry from account to account never returns to an *)
(* account that has already turned it down.                                *)
NoAccountTriedTwice ==
  \A r \in Requests : pc[r] = "forward" => to[r] \notin tried[r]

Promise == INSTANCE Switchboard WITH
  status <- [r \in Requests |-> CASE pc[r] = "idle" -> "unsent"
                                  [] pc[r] = "done" -> "answered"
                                  [] OTHER -> "pending"],
  home <- owner,
  copies <- holds

(* The router keeps the promise of Switchboard.                            *)
KeepsPromise == Promise!Spec

(* Every request is answered, or waits on a child that has exited: the     *)
(* failover chain ends, the stdin loop is never blocked for good.          *)
EventuallyAnswered ==
  \A r \in Requests :
    pc[r] # "idle" ~>
      (answers[r] = 1 \/ (route[r] # None /\ ~alive[route[r]]))

(* scoped_request.go:15-17, docs/ARCHITECTURE.md "removes that private routing  *)
(* marker before forwarding the strict RPC request to the chosen child".   *)
MarkerStripped == \A m \in inbox : m[2] \notin marked

(* README.md:28 "Once a thread is assigned, every follow-up returns to the *)
(* same subscription unless that subscription is depleted": the owner      *)
(* changes only when a failover away from it is under way.                 *)
OwnerMovesOnlyOnDepletion ==
  [][\A t \in Threads :
       owner[t] # None /\ owner'[t] # owner[t]
         => \E r \in Requests : pc[r] = "own" /\ thr[r] = t /\ at[r] = owner[t]]_vars
=============================================================================
