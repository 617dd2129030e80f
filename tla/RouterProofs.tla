----------------------------- MODULE RouterProofs -----------------------------
(* Proofs about Router, for every number of accounts, threads and requests. *)
EXTENDS Router, TLAPS

(* What answering a request leaves of the state of its handler.             *)
LEMMA AnswerTypes ==
  ASSUME TypeOK, NEW r \in Requests, Answer(r)
  PROVE  /\ op' \in [Requests -> Ops]
         /\ thr' \in [Requests -> Thread]
         /\ orphan' \in SUBSET Requests
         /\ pc' \in [Requests -> Stages]
         /\ at' \in [Requests -> Account]
         /\ to' \in [Requests -> Account]
         /\ excl' \in [Requests -> SUBSET Accounts]
         /\ tried' \in [Requests -> SUBSET Accounts]
         /\ got' \in [Requests -> SUBSET (Accounts \X Threads)]
         /\ left' \in [Requests -> SUBSET Accounts]
         /\ answers' \in [Requests -> Nat]
         /\ \A q \in Requests :
              /\ pc'[q] \in {"check", "resume", "own"} => op'[q] = "turn"
              /\ pc'[q] \in {"check", "choose", "resume", "own"} /\ op'[q] = "turn"
                   => at'[q] \in Accounts /\ thr'[q] \in Threads
              /\ pc'[q] \in {"resume", "own", "forward"} => to'[q] \in Accounts
  BY DEF TypeOK, Answer, Goto, Ops, Thread, Account, Stages

LEMMA PairsOfOne ==
  ASSUME NEW A, NEW a \in A, NEW T, NEW S \in SUBSET T
  PROVE  {a} \X S \subseteq A \X T
  OBVIOUS

(* Children and the account menu touch neither the table of owners nor what *)
(* the handlers of requests keep.                                           *)
LEMMA EnvironmentQuiet ==
  ASSUME Environment
  PROVE  UNCHANGED <<owner, known, op, thr, orphan, pc, at, to, excl, tried, got, left, route,
                      handed>>
<1> USE DEF store, request, turn, listing
<1>1. ASSUME NEW a \in Accounts, NEW r \in Requests, Serve(a, r)
      PROVE UNCHANGED <<owner, known, op, thr, orphan, pc, at, to, excl, tried, got, left, route,
                      handed>>
  BY <1>1 DEF Serve, ServeNewThread, ServeResume, ServeOther, Refuse, Reply
<1>2. ASSUME NEW a \in Accounts, NEW lost \in SUBSET outbox,
             NEW unheard \in SUBSET notices, ChildExit(a, lost, unheard)
      PROVE UNCHANGED <<owner, known, op, thr, orphan, pc, at, to, excl, tried, got, left, route,
                      handed>>
  BY <1>2 DEF ChildExit
<1>3. ASSUME NEW a \in Accounts, UpdateAccount(a)
      PROVE UNCHANGED <<owner, known, op, thr, orphan, pc, at, to, excl, tried, got, left, route,
                      handed>>
  BY <1>3 DEF UpdateAccount
<1> HIDE DEF store, request, turn, listing
<1> QED BY <1>1, <1>2, <1>3 DEF Environment

(* Types are preserved by every action of the stdin loop, of the goroutines,*)
(* of the inbound loop and of the children.                                 *)
LEMMA TypeStep == ASSUME TypeOK, [Next]_vars PROVE TypeOK'
<1> USE RouterAssumption DEF TypeOK, Account, Thread, Stages, Ops, Replies,
        store, request, turn, listing, pipes, bounds, Goto, Proceed
<1>1. CASE UNCHANGED vars
  BY <1>1 DEF vars
<1>2. ASSUME NEW r \in Requests, RouteNewThread(r) PROVE TypeOK'
  BY <1>2 DEF RouteNewThread, Receive
<1>3. ASSUME NEW r \in Requests, RouteRateLimits(r) PROVE TypeOK'
  BY <1>3 DEF RouteRateLimits, Receive
<1>4. ASSUME NEW r \in Requests, ListThreads(r) PROVE TypeOK'
  BY <1>4 DEF ListThreads, Receive
<1>5. ASSUME NEW r \in Requests, NEW account \in Accounts, RouteScoped(r, account)
      PROVE TypeOK'
  BY <1>5 DEF RouteScoped, Receive
<1>6. ASSUME NEW r \in Requests, NEW o \in Ops, NEW t \in known \cup Remembered \cup {None},
             RouteExisting(r, o, t)
      PROVE TypeOK'
  <2>1. t \in Thread /\ OwnerOrController(t) \in Accounts
    BY DEF OwnerOrController
  <2>2. /\ op' \in [Requests -> Ops] /\ thr' \in [Requests -> Thread]
        /\ orphan' \in SUBSET Requests
        /\ at' \in [Requests -> Account] /\ to' \in [Requests -> Account]
        /\ pc' \in [Requests -> Stages]
    BY <1>6, <2>1 DEF RouteExisting, Receive
  <2> QED BY <1>6, <2>1, <2>2 DEF RouteExisting, Receive
<1>7. ASSUME NEW r \in Requests, NEW view \in Views, CheckOwner(r, view)
      PROVE TypeOK'
  BY <1>7 DEF CheckOwner
<1>8. ASSUME NEW r \in Requests, NEW views \in Readable, ChooseAccount(r, views)
      PROVE TypeOK'
  BY <1>8 DEF ChooseAccount, Choices, Candidates
<1>9. ASSUME NEW r \in Requests, NEW views \in Readable, AllDepleted(r, views)
      PROVE TypeOK'
  BY <1>9, AnswerTypes DEF AllDepleted
<1>10. ASSUME NEW r \in Requests, ResumeOnTarget(r) PROVE TypeOK'
  BY <1>10 DEF ResumeOnTarget, CanResume
<1>11. ASSUME NEW r \in Requests, NEW late \in BOOLEAN, ResumeFails(r, late)
       PROVE TypeOK'
  BY <1>11, AnswerTypes DEF ResumeFails, CanResume
<1>12. ASSUME NEW r \in Requests, NEW saved \in BOOLEAN, TakeOwnership(r, saved)
       PROVE TypeOK'
  BY <1>12, AnswerTypes DEF TakeOwnership
<1>13. ASSUME NEW r \in Requests, Forward(r) PROVE TypeOK'
  <2>1. CASE alive[to[r]]
    <3>1. /\ route' = [route EXCEPT ![r] = to[r]]
          /\ tried' = [tried EXCEPT ![r] = @ \cup {to[r]}]
          /\ inbox' = inbox \cup {<<to[r], r>>}
          /\ pc' = [pc EXCEPT ![r] = "sent"]
          /\ to[r] \in Accounts
          /\ UNCHANGED <<enabled, owner, alive, holds, known, op, thr, orphan, at, to,
                         excl, got, left, marked, outbox, notices, handed, answers,
                         toggles, exits>>
      BY <1>13, <2>1 DEF Forward
    <3>2. /\ route' \in [Requests -> Account]
          /\ tried' \in [Requests -> SUBSET Accounts]
          /\ inbox' \in SUBSET (Accounts \X Requests)
          /\ pc' \in [Requests -> Stages]
      BY <3>1
    <3> QED BY <3>1, <3>2
  <2>2. CASE ~alive[to[r]]
    BY <1>13, <2>2, AnswerTypes DEF Forward
  <2> QED BY <2>1, <2>2
<1>14. ASSUME NEW r \in Requests, NEW a \in Accounts, NEW listed \in SUBSET holds[a],
              GatherThreads(r, a, listed)
       PROVE TypeOK'
  <2>0. listed \in SUBSET Threads
    BY <1>14
  <2>1. {a} \X listed \subseteq Accounts \X Threads
    BY <2>0, PairsOfOne, ZenonT(30)
  <2>2. got' \in [Requests -> SUBSET (Accounts \X Threads)]
    BY <1>14, <2>1 DEF GatherThreads
  <2>3. CASE left[r] = {a}
    <3>1. /\ pc' = [pc EXCEPT ![r] = "merge"]
          /\ left' \in [Requests -> SUBSET Accounts]
      BY <1>14, <2>3 DEF GatherThreads
    <3> QED BY <1>14, <2>2, <3>1 DEF GatherThreads
  <2>4. CASE left[r] # {a}
    <3>1. /\ pc' = pc
          /\ left' \in [Requests -> SUBSET Accounts]
      BY <1>14, <2>4 DEF GatherThreads
    <3> QED BY <1>14, <2>2, <3>1 DEF GatherThreads
  <2> QED BY <2>3, <2>4
<1>15. ASSUME NEW r \in Requests, NEW a \in Accounts, MergeThreads(r, a)
       PROVE TypeOK'
  BY <1>15 DEF MergeThreads
<1>16. ASSUME NEW r \in Requests, AnswerList(r) PROVE TypeOK'
  BY <1>16, AnswerTypes DEF AnswerList, Listed
<1>17. ASSUME NEW r \in Requests, AnswerRateLimits(r) PROVE TypeOK'
  BY <1>17, AnswerTypes DEF AnswerRateLimits
<1>18. ASSUME NEW m \in outbox, LearnThreadOwner(m) PROVE TypeOK'
  <2>1. m.req \in Requests /\ m.acct \in Accounts /\ m.thread \in Thread
    OBVIOUS
  <2>2. owner' \in [Threads -> Account] /\ handed' \in SUBSET Threads
    BY <1>18, <2>1 DEF LearnThreadOwner
  <2> QED BY <1>18, <2>1, <2>2 DEF LearnThreadOwner, TakeReply
<1>19. ASSUME NEW m \in outbox, RetryTurn(m) PROVE TypeOK'
  BY <1>19 DEF RetryTurn, TakeReply
<1>20. ASSUME NEW m \in outbox, RefuseTurn(m) PROVE TypeOK'
  BY <1>20, AnswerTypes DEF RefuseTurn, TakeReply
<1>21. ASSUME NEW n \in notices, PinThread(n) PROVE TypeOK'
  BY <1>21 DEF PinThread
<1>22. ASSUME NEW a \in Accounts, NEW r \in Requests, Serve(a, r) PROVE TypeOK'
  <2>1. PICK outcome \in {"ok", "limit", "error"}, t \in Thread : Reply(a, r, outcome, t)
    BY <1>22 DEF Serve, ServeNewThread, ServeResume, ServeOther, Refuse
  <2>2. holds' \in [Accounts -> SUBSET Threads] /\ notices' \in SUBSET (Accounts \X Threads)
    BY <1>22 DEF Serve, ServeNewThread, ServeResume, ServeOther, Refuse
  <2> QED BY <2>1, <2>2 DEF Reply
<1>23. ASSUME NEW a \in Accounts, NEW lost \in SUBSET outbox,
              NEW unheard \in SUBSET notices, ChildExit(a, lost, unheard)
       PROVE TypeOK'
  BY <1>23 DEF ChildExit
<1>24. ASSUME NEW a \in Accounts, UpdateAccount(a) PROVE TypeOK'
  BY <1>24 DEF UpdateAccount
<1>25. ASSUME NEW r \in Requests, WriteReply(r) PROVE TypeOK'
  BY <1>25, AnswerTypes DEF WriteReply
<1>26. ASSUME WriteNotice PROVE TypeOK'
  BY <1>26 DEF WriteNotice
<1> HIDE RouterAssumption DEF TypeOK, Account, Thread, Stages, Ops, Replies,
         store, request, turn, listing, pipes, bounds, Goto, Proceed
<1> QED
  BY <1>1, <1>2, <1>3, <1>4, <1>5, <1>6, <1>7, <1>8, <1>9, <1>10, <1>11, <1>12,
     <1>13, <1>14, <1>15, <1>16, <1>17, <1>18, <1>19, <1>20, <1>21, <1>22, <1>23,
     <1>24, <1>25, <1>26
  DEF Next, ClientSends, Handle, Inbound, Environment

(* Type correctness of the router.                                          *)
THEOREM TypeCorrect == Spec => []TypeOK
<1>1. Init => TypeOK
  BY RouterAssumption DEF Init, TypeOK, Account, Thread, Stages, Ops
<1> QED BY <1>1, TypeStep, PTL DEF Spec
-----------------------------------------------------------------------------
(* The route table, the pipes and the stage of a request agree: only a      *)
(* request in stage "sent" has a route, and a request is answered exactly   *)
(* when it is done.                                                         *)
RoutedIsSent == \A r \in Requests : route[r] # None => pc[r] = "sent"
AnsweredIsDone == \A r \in Requests : answers[r] = IF pc[r] = "done" THEN 1 ELSE 0
RoutingInv == RouteMatchesChild /\ RoutedIsSent /\ AnsweredIsDone

(* What is under way for a request that has no route: nothing.              *)
LEMMA UnroutedIsQuiet ==
  ASSUME TypeOK, RouteMatchesChild, NEW r \in Requests, route[r] = None
  PROVE  /\ \A m \in inbox : m[2] # r
         /\ \A m \in outbox : m.req # r
  BY RouterAssumption DEF TypeOK, RouteMatchesChild, Replies

(* Actions that leave the route table and the pipes alone.                  *)
LEMMA QuietStep ==
  ASSUME TypeOK, RoutingInv, UNCHANGED <<route, inbox, outbox>>,
         NEW r \in Requests, pc[r] \notin {"sent", "done"},
         \/ Answer(r)
         \/ /\ \E stage \in Stages \ {"done"} : Goto(r, stage)
            /\ UNCHANGED answers
         \/ UNCHANGED <<pc, answers>>
  PROVE  RoutingInv'
  BY DEF TypeOK, RoutingInv, RouteMatchesChild, RoutedIsSent, AnsweredIsDone,
         Answer, Goto, Stages

(* Actions that only take messages out of the pipes.                        *)
LEMMA DrainStep ==
  ASSUME TypeOK, RoutingInv, UNCHANGED <<route, pc, answers>>,
         inbox' \subseteq inbox, outbox' \subseteq outbox
  PROVE  RoutingInv'
  BY DEF RoutingInv, RouteMatchesChild, RoutedIsSent, AnsweredIsDone

LEMMA ForwardRouting ==
  ASSUME TypeOK, RoutingInv, NEW r \in Requests, Forward(r)
  PROVE  RoutingInv'
<1>1. CASE alive[to[r]]
  <2>1. route[r] = None
    BY <1>1 DEF Forward, RoutingInv, RoutedIsSent
  <2>2. /\ \A m \in inbox : m[2] # r
        /\ \A m \in outbox : m.req # r
    BY <2>1, UnroutedIsQuiet DEF RoutingInv
  <2>3. /\ route' = [route EXCEPT ![r] = to[r]]
        /\ inbox' = inbox \cup {<<to[r], r>>}
        /\ outbox' = outbox
        /\ pc' = [pc EXCEPT ![r] = "sent"]
        /\ answers' = answers
        /\ pc[r] = "forward"
    BY <1>1 DEF Forward, Goto
  <2>4. RouteMatchesChild'
    <3>1. \A m \in inbox' : m \in inbox \/ m = <<to[r], r>>
      BY <2>3
    <3>2. \A m \in inbox : m[2] \in Requests /\ m[2] # r /\ route[m[2]] = m[1]
      BY <2>2 DEF TypeOK, RoutingInv, RouteMatchesChild
    <3>3. \A m \in outbox : m.req \in Requests /\ m.req # r /\ route[m.req] = m.acct
      BY <2>2 DEF TypeOK, Replies, RoutingInv, RouteMatchesChild
    <3>4. \A m \in inbox' : route'[m[2]] = m[1]
      BY <2>3, <3>1, <3>2 DEF TypeOK
    <3>5. \A m \in outbox' : route'[m.req] = m.acct
      BY <2>3, <3>3 DEF TypeOK
    <3>6. \A m \in inbox', n \in outbox' : m[2] # n.req
      BY <2>3, <3>1, <3>3 DEF RoutingInv, RouteMatchesChild
    <3>7. \A m, n \in inbox' : m[2] = n[2] => m = n
      BY <3>1, <3>2 DEF RoutingInv, RouteMatchesChild
    <3> QED BY <2>3, <3>4, <3>5, <3>6, <3>7 DEF RoutingInv, RouteMatchesChild
  <2> QED BY <2>3, <2>4 DEF TypeOK, RoutingInv, RoutedIsSent, AnsweredIsDone
<1>2. CASE ~alive[to[r]]
  BY <1>2, QuietStep DEF Forward
<1> QED BY <1>1, <1>2

(* A reply leaves the pipe and its request loses its route.                 *)
LEMMA TakeReplyRouting ==
  ASSUME TypeOK, RoutingInv, NEW m \in outbox, TakeReply(m),
         \/ Answer(m.req)
         \/ /\ Goto(m.req, "choose") \/ Goto(m.req, "write")
            /\ UNCHANGED answers
  PROVE  RoutingInv'
<1> DEFINE q == m.req
<1>1. q \in Requests /\ pc[q] = "sent" /\ answers[q] = 0
  BY DEF TakeReply, TypeOK, Replies, RoutingInv, RoutedIsSent, AnsweredIsDone
<1>2. /\ outbox' = outbox \ {m}
      /\ inbox' = inbox
      /\ route' = [route EXCEPT ![q] = None]
  BY DEF TakeReply
<1>3. /\ \A n \in inbox : n[2] # q
      /\ \A n \in outbox' : n.req # q
  BY <1>2 DEF RoutingInv, RouteMatchesChild
<1>4. RouteMatchesChild'
  <2>1. \A n \in inbox' : route'[n[2]] = n[1]
    BY <1>2, <1>3 DEF TypeOK, RoutingInv, RouteMatchesChild
  <2>2. \A n \in outbox' : route'[n.req] = n.acct
    BY <1>2, <1>3 DEF TypeOK, Replies, RoutingInv, RouteMatchesChild
  <2> QED BY <1>2, <2>1, <2>2 DEF RoutingInv, RouteMatchesChild
<1>5. RoutedIsSent' /\ AnsweredIsDone'
  BY <1>1, <1>2 DEF TypeOK, RoutingInv, RoutedIsSent, AnsweredIsDone, Answer, Goto
<1> QED BY <1>4, <1>5 DEF RoutingInv

(* A child moves a request from its stdin to its stdout.                    *)
LEMMA ReplyRouting ==
  ASSUME TypeOK, RoutingInv, NEW a \in Accounts, NEW r \in Requests,
         NEW outcome \in {"ok", "limit", "error"}, NEW t \in Thread,
         Reply(a, r, outcome, t)
  PROVE  RoutingInv'
<1> DEFINE reply == [acct |-> a, req |-> r, outcome |-> outcome, thread |-> t]
<1>1. /\ <<a, r>> \in inbox
      /\ inbox' = inbox \ {<<a, r>>}
      /\ outbox' = outbox \cup {reply}
      /\ UNCHANGED <<route, pc, answers>>
  BY DEF Reply
<1>2. reply.req = r /\ reply.acct = a /\ route[r] = a
  BY <1>1 DEF RoutingInv, RouteMatchesChild
<1>3. /\ \A n \in outbox : n.req # r
      /\ \A n \in inbox' : n[2] # r
  BY <1>1 DEF RoutingInv, RouteMatchesChild
<1>4. RouteMatchesChild'
  <2>1. \A n \in outbox' : n \in outbox \/ n = reply
    BY <1>1
  <2> HIDE DEF reply
  <2>2. \A n \in outbox' : route'[n.req] = n.acct
    BY <1>1, <1>2, <2>1 DEF RoutingInv, RouteMatchesChild
  <2>3. \A n, k \in outbox' : n.req = k.req => n = k
    BY <1>2, <1>3, <2>1 DEF RoutingInv, RouteMatchesChild
  <2>4. \A n \in inbox', k \in outbox' : n[2] # k.req
    BY <1>1, <1>2, <1>3, <2>1 DEF RoutingInv, RouteMatchesChild
  <2> QED BY <1>1, <2>2, <2>3, <2>4 DEF RoutingInv, RouteMatchesChild
<1> QED BY <1>1, <1>4 DEF RoutingInv, RoutedIsSent, AnsweredIsDone

LEMMA RoutingStep == ASSUME TypeOK, RoutingInv, [Next]_vars PROVE RoutingInv'
<1>1. CASE UNCHANGED vars
  BY <1>1, DrainStep DEF vars, pipes
<1>2. ASSUME NEW r \in Requests, ClientSends(r) PROVE RoutingInv'
  <2>1. pc[r] = "idle" /\ UNCHANGED <<route, inbox, outbox, answers>>
    BY <1>2 DEF ClientSends, RouteNewThread, RouteRateLimits, ListThreads,
       RouteScoped, RouteExisting, Receive, pipes
  <2>2. \E stage \in Stages \ {"done"} : Goto(r, stage)
    BY <1>2 DEF ClientSends, RouteNewThread, RouteRateLimits, ListThreads,
       RouteScoped, RouteExisting, Stages
  <2> QED BY <2>1, <2>2, QuietStep
<1>3. ASSUME NEW r \in Requests, Handle(r) PROVE RoutingInv'
  <2>1. CASE Forward(r)
    BY <2>1, ForwardRouting
  <2>2. CASE ~Forward(r)
    <3>1. /\ pc[r] \notin {"sent", "done"}
          /\ UNCHANGED <<route, inbox, outbox>>
      BY <1>3, <2>2 DEF Handle, CheckOwner, ChooseAccount, AllDepleted,
         ResumeOnTarget, ResumeFails, TakeOwnership, GatherThreads, MergeThreads,
         AnswerList, AnswerRateLimits, pipes
    <3>2. \/ Answer(r)
          \/ /\ \E stage \in Stages \ {"done"} : Goto(r, stage)
             /\ UNCHANGED answers
          \/ UNCHANGED <<pc, answers>>
      BY <1>3, <2>2 DEF Handle, CheckOwner, ChooseAccount, AllDepleted,
         ResumeOnTarget, ResumeFails, TakeOwnership, GatherThreads, MergeThreads,
         AnswerList, AnswerRateLimits, Proceed, Stages
    <3> QED BY <3>1, <3>2, QuietStep
  <2> QED BY <2>1, <2>2
<1>4. ASSUME NEW m \in outbox, LearnThreadOwner(m) \/ RetryTurn(m) \/ RefuseTurn(m)
      PROVE RoutingInv'
  BY <1>4, TakeReplyRouting DEF LearnThreadOwner, RetryTurn, RefuseTurn
<1>5. ASSUME WriteNotice \/ \E n \in notices : PinThread(n) PROVE RoutingInv'
  BY <1>5, DrainStep DEF PinThread, WriteNotice, pipes
<1>9. ASSUME NEW r \in Requests, WriteReply(r) PROVE RoutingInv'
  BY <1>9, QuietStep DEF WriteReply, pipes
<1>6. ASSUME NEW a \in Accounts, NEW r \in Requests, Serve(a, r)
      PROVE RoutingInv'
  BY <1>6, ReplyRouting DEF Serve, ServeNewThread, ServeResume, ServeOther, Refuse,
     TypeOK, Thread
<1>7. ASSUME NEW a \in Accounts, NEW lost \in SUBSET outbox,
             NEW unheard \in SUBSET notices, ChildExit(a, lost, unheard)
      PROVE RoutingInv'
  BY <1>7, DrainStep DEF ChildExit
<1>8. ASSUME NEW a \in Accounts, UpdateAccount(a) PROVE RoutingInv'
  BY <1>8, DrainStep DEF UpdateAccount, pipes
<1> QED
  BY <1>1, <1>2, <1>3, <1>4, <1>5, <1>6, <1>7, <1>8, <1>9
  DEF Next, Inbound, Environment

LEMMA RoutingHolds == Spec => [](TypeOK /\ RoutingInv)
<1>1. Init => RoutingInv
  BY DEF Init, RoutingInv, RouteMatchesChild, RoutedIsSent, AnsweredIsDone
<1> QED BY <1>1, RoutingStep, TypeCorrect, PTL DEF Spec

(* No reply is ever taken for another account's or another attempt's.       *)
THEOREM RoutingCorrect == Spec => []RouteMatchesChild
<1>1. RoutingInv => RouteMatchesChild
  BY DEF RoutingInv
<1> QED BY <1>1, RoutingHolds, PTL

(* The client gets at most one answer to a request, whichever of the reply, *)
(* the failover, the death of the child and the retry comes first.          *)
THEOREM AnsweredOnce == Spec => []OneAnswer
<1>1. TypeOK /\ RoutingInv => OneAnswer
  BY DEF TypeOK, RoutingInv, RoutedIsSent, AnsweredIsDone, OneAnswer
<1> QED BY <1>1, RoutingHolds, PTL
-----------------------------------------------------------------------------
(* Every way an account can come to own a thread goes through a copy of its *)
(* rollout: a reply, a notice or a listing names a thread its sender holds. *)
RepliesHeld == \A m \in outbox : m.thread # None => m.thread \in holds[m.acct]
NoticesHeld == \A n \in notices : n[2] \in holds[n[1]]
ListingsHeld == \A r \in Requests : \A p \in got[r] : p[2] \in holds[p[1]]

(* A turn on the move: the account it leaves can serve its thread, unless   *)
(* it is the controller serving for want of an owner; the account it goes   *)
(* to holds the thread once the resume has succeeded.                       *)
SourceServes ==
  \A r \in Requests :
    pc[r] \in {"check", "choose", "resume", "own"} /\ op[r] = "turn"
      => CanServe(r, at[r])
TargetServes ==
  \A r \in Requests :
    op[r] = "turn" /\ thr[r] # None =>
      /\ pc[r] = "own" => thr[r] \in holds[to[r]]
      /\ pc[r] = "forward" => CanServe(r, to[r])
AnsweredByServer ==
  \A m \in outbox :
    op[m.req] = "turn" /\ thr[m.req] # None => CanServe(m.req, m.acct)

CopiesInv == OwnerHolds /\ RepliesHeld /\ NoticesHeld /\ ListingsHeld
TurnsInv == SourceServes /\ TargetServes /\ AnsweredByServer /\ TurnLandsOnHolder

(* What the client is told of, or is about to be told of, has an owner.     *)
HandedOwned == \A t \in handed : owner[t] # None
MergedOwned ==
  \A r \in Requests : pc[r] = "merge" =>
    \A p \in got[r] : p[1] \notin left[r] => owner[p[2]] # None
KnownInv == KnownThreadHasOwner /\ HandedOwned /\ MergedOwned

(* The rollouts an account can open never disappear.                        *)
LEMMA CopiesSpread ==
  ASSUME TypeOK, [Next]_vars
  PROVE  \A a \in Accounts : holds[a] \subseteq holds'[a]
<1>1. ASSUME NEW r \in Requests, Handle(r)
      PROVE \A a \in Accounts : holds[a] \subseteq holds'[a]
  BY <1>1 DEF Handle, CheckOwner, ChooseAccount, AllDepleted, ResumeOnTarget,
     ResumeFails, TakeOwnership, Forward, GatherThreads, MergeThreads, AnswerList,
     AnswerRateLimits, TypeOK
<1>2. ASSUME NEW a \in Accounts, NEW r \in Requests, Serve(a, r)
      PROVE \A b \in Accounts : holds[b] \subseteq holds'[b]
  BY <1>2 DEF Serve, ServeNewThread, ServeResume, ServeOther, Refuse, TypeOK
<1>3. ASSUME NEW r \in Requests, ClientSends(r) PROVE UNCHANGED holds
  BY <1>3 DEF ClientSends, RouteNewThread, RouteRateLimits, ListThreads, RouteScoped,
     RouteExisting, Receive
<1>4. ASSUME Inbound PROVE UNCHANGED holds
  BY <1>4 DEF Inbound, LearnThreadOwner, RetryTurn, RefuseTurn, TakeReply, WriteReply,
     PinThread, WriteNotice
<1>5. ASSUME NEW a \in Accounts, NEW lost \in SUBSET outbox,
             NEW unheard \in SUBSET notices,
             ChildExit(a, lost, unheard) \/ UpdateAccount(a)
      PROVE UNCHANGED holds
  BY <1>5 DEF ChildExit, UpdateAccount
<1> QED BY <1>1, <1>2, <1>3, <1>4, <1>5 DEF Next, Environment, vars

(* What an answer may change leaves the copies where they are.              *)
LEMMA CopiesQuiet ==
  ASSUME TypeOK, CopiesInv, UNCHANGED owner, TypeOK',
         \A a \in Accounts : holds[a] \subseteq holds'[a],
         outbox' \subseteq outbox, notices' \subseteq notices,
         \A r \in Requests : got'[r] \subseteq got[r]
  PROVE  CopiesInv'
<1>1. OwnerHolds'
  BY DEF CopiesInv, OwnerHolds, TypeOK, Account
<1>2. RepliesHeld'
  BY DEF CopiesInv, RepliesHeld, TypeOK, Replies
<1>3. NoticesHeld'
  BY DEF CopiesInv, NoticesHeld, TypeOK
<1>4. ListingsHeld'
  <2> SUFFICES ASSUME NEW r \in Requests, NEW p \in got'[r] PROVE p[2] \in holds'[p[1]]
    BY DEF ListingsHeld
  <2>1. p \in got[r] /\ p \in Accounts \X Threads
    BY DEF TypeOK
  <2> QED BY <2>1 DEF CopiesInv, ListingsHeld
<1> QED BY <1>1, <1>2, <1>3, <1>4 DEF CopiesInv

LEMMA AnswerDropsListing ==
  ASSUME TypeOK, NEW r \in Requests, Answer(r)
  PROVE  \A q \in Requests : got'[q] \subseteq got[q]
  BY DEF TypeOK, Answer

LEMMA CopiesStep ==
  ASSUME TypeOK, CopiesInv, TargetServes, [Next]_vars
  PROVE  CopiesInv'
<1>0. TypeOK' /\ (\A a \in Accounts : holds[a] \subseteq holds'[a])
  BY TypeStep, CopiesSpread
<1>1. CASE UNCHANGED vars
  BY <1>0, <1>1, CopiesQuiet DEF vars, store, listing, pipes
<1>2. ASSUME NEW r \in Requests, ClientSends(r) PROVE CopiesInv'
  <2>1. UNCHANGED <<owner, outbox, notices, got>>
    BY <1>2 DEF ClientSends, RouteNewThread, RouteRateLimits, ListThreads,
       RouteScoped, RouteExisting, Receive, store, pipes
  <2> QED BY <1>0, <2>1, CopiesQuiet
<1>3. ASSUME NEW r \in Requests, NEW saved \in BOOLEAN, TakeOwnership(r, saved)
      PROVE CopiesInv'
  <2>1. thr[r] \in Threads /\ to[r] \in Accounts /\ thr[r] \in holds[to[r]]
    BY <1>3, RouterAssumption DEF TakeOwnership, TypeOK, TargetServes
  <2>2. /\ owner' = [owner EXCEPT ![thr[r]] = to[r]]
        /\ UNCHANGED <<holds, outbox, notices>>
    BY <1>3 DEF TakeOwnership, pipes
  <2>3. OwnerHolds'
    BY <2>1, <2>2 DEF CopiesInv, OwnerHolds, TypeOK
  <2>4. \A q \in Requests : got'[q] \subseteq got[q]
    BY <1>3, AnswerDropsListing DEF TakeOwnership, Proceed, listing
  <2> QED BY <2>2, <2>3, <2>4 DEF CopiesInv, RepliesHeld, NoticesHeld, ListingsHeld
<1>4. ASSUME NEW r \in Requests, NEW a \in Accounts, NEW listed \in SUBSET holds[a],
             GatherThreads(r, a, listed)
      PROVE CopiesInv'
  <2>1. /\ got' = [got EXCEPT ![r] = @ \cup ({a} \X listed)]
        /\ UNCHANGED <<owner, holds, outbox, notices>>
    BY <1>4 DEF GatherThreads, store, pipes
  <2>2. ListingsHeld'
    <3> SUFFICES ASSUME NEW q \in Requests, NEW p \in got'[q]
                 PROVE  p[2] \in holds[p[1]]
      BY <2>1 DEF ListingsHeld
    <3>1. p \in got[q] \/ p \in {a} \X listed
      BY <2>1 DEF TypeOK
    <3>2. p \in {a} \X listed => p[1] = a /\ p[2] \in listed
      OBVIOUS
    <3> QED BY <3>1, <3>2 DEF CopiesInv, ListingsHeld
  <2> QED BY <2>1, <2>2 DEF CopiesInv, OwnerHolds, RepliesHeld, NoticesHeld
<1>5. ASSUME NEW r \in Requests, NEW a \in Accounts, MergeThreads(r, a)
      PROVE CopiesInv'
  <2>1. /\ owner' = [t \in Threads |-> IF <<a, t>> \in got[r] THEN a ELSE owner[t]]
        /\ UNCHANGED <<holds, outbox, notices, got>>
    BY <1>5 DEF MergeThreads, pipes
  <2>2. \A t \in Threads : <<a, t>> \in got[r] => t \in holds[a]
    BY DEF CopiesInv, ListingsHeld
  <2>3. OwnerHolds'
    BY <2>1, <2>2 DEF CopiesInv, OwnerHolds, TypeOK
  <2> QED BY <2>1, <2>3 DEF CopiesInv, RepliesHeld, NoticesHeld, ListingsHeld
<1>6. ASSUME NEW r \in Requests, Handle(r),
             ~\E saved \in BOOLEAN : TakeOwnership(r, saved),
             ~\E a \in Accounts : \E listed \in SUBSET holds[a] : GatherThreads(r, a, listed),
             ~\E a \in Accounts : MergeThreads(r, a)
      PROVE CopiesInv'
  <2>1. UNCHANGED <<owner, outbox, notices>>
    BY <1>6 DEF Handle, CheckOwner, ChooseAccount, AllDepleted, ResumeOnTarget,
       ResumeFails, Forward, AnswerList, AnswerRateLimits, store, pipes
  <2>2. Answer(r) \/ UNCHANGED got
    BY <1>6 DEF Handle, CheckOwner, ChooseAccount, AllDepleted, ResumeOnTarget,
       ResumeFails, Forward, AnswerList, AnswerRateLimits, Proceed, listing
  <2>3. \A q \in Requests : got'[q] \subseteq got[q]
    BY <2>2, AnswerDropsListing
  <2> QED BY <1>0, <2>1, <2>3, CopiesQuiet
<1>7. ASSUME NEW m \in outbox, LearnThreadOwner(m) PROVE CopiesInv'
  <2>1. /\ m.req \in Requests /\ m.acct \in Accounts /\ m.thread \in Thread
        /\ outbox' \subseteq outbox
        /\ UNCHANGED <<holds, notices, got>>
    BY <1>7 DEF TypeOK, Replies, LearnThreadOwner, TakeReply, listing
  <2>2. CASE UNCHANGED owner
    BY <1>0, <2>1, <2>2, CopiesQuiet
  <2>3. CASE m.thread # None /\ owner' = [owner EXCEPT ![m.thread] = m.acct]
    <3>1. m.thread \in Threads /\ m.thread \in holds[m.acct]
      BY <2>1, <2>3 DEF CopiesInv, RepliesHeld, Thread
    <3>2. OwnerHolds'
      BY <2>1, <2>3, <3>1 DEF CopiesInv, OwnerHolds, TypeOK
    <3> QED BY <2>1, <3>2, <1>0
        DEF CopiesInv, RepliesHeld, NoticesHeld, ListingsHeld, TypeOK
  <2> QED BY <1>7, <2>2, <2>3 DEF LearnThreadOwner
<1>8. ASSUME NEW m \in outbox, RetryTurn(m) \/ RefuseTurn(m) PROVE CopiesInv'
  <2>1. /\ m.req \in Requests
        /\ outbox' \subseteq outbox
        /\ UNCHANGED <<owner, notices>>
        /\ Answer(m.req) \/ UNCHANGED got
    BY <1>8 DEF TypeOK, Replies, RetryTurn, RefuseTurn, TakeReply, listing
  <2>2. \A q \in Requests : got'[q] \subseteq got[q]
    BY <2>1, AnswerDropsListing
  <2> QED BY <1>0, <2>1, <2>2, CopiesQuiet
<1>9. ASSUME NEW n \in notices, PinThread(n) PROVE CopiesInv'
  <2>1. /\ owner' = [owner EXCEPT ![n[2]] = n[1]]
        /\ n[1] \in Accounts /\ n[2] \in Threads /\ n[2] \in holds[n[1]]
        /\ notices' \subseteq notices
        /\ UNCHANGED <<holds, outbox, got>>
    BY <1>9 DEF PinThread, TypeOK, CopiesInv, NoticesHeld, listing
  <2>2. OwnerHolds'
    BY <2>1 DEF CopiesInv, OwnerHolds, TypeOK
  <2> QED BY <2>1, <2>2 DEF CopiesInv, RepliesHeld, NoticesHeld, ListingsHeld
<1>10. ASSUME NEW a \in Accounts, NEW r \in Requests, Serve(a, r) PROVE CopiesInv'
  <2>1. PICK outcome \in {"ok", "limit", "error"}, t \in Thread :
          /\ Reply(a, r, outcome, t)
          /\ t # None => t \in holds'[a]
          /\ notices' \in {notices, notices \cup {<<a, t>>}}
          /\ notices' # notices => t \in holds'[a]
    <3>1. ASSUME NEW t \in Threads, ServeNewThread(a, r, t)
          PROVE Reply(a, r, "ok", t) /\ t \in holds'[a] /\ notices' = notices \cup {<<a, t>>}
      BY <3>1 DEF ServeNewThread, TypeOK
    <3>2. ASSUME ServeResume(a, r)
          PROVE Reply(a, r, "ok", thr[r]) /\ thr[r] \in holds'[a] /\ notices' = notices
      BY <3>2 DEF ServeResume
    <3>3. ASSUME ServeOther(a, r)
          PROVE Reply(a, r, "ok", None) /\ notices' = notices
      BY <3>3 DEF ServeOther
    <3>4. ASSUME NEW outcome \in {"limit", "error"}, Refuse(a, r, outcome)
          PROVE Reply(a, r, outcome, None) /\ notices' = notices
      BY <3>4 DEF Refuse
    <3> QED BY <1>10, <3>1, <3>2, <3>3, <3>4 DEF Serve, Thread, TypeOK
  <2>2. /\ outbox' = outbox \cup
               {[acct |-> a, req |-> r, outcome |-> outcome, thread |-> t]}
        /\ UNCHANGED <<owner, got>>
    BY <2>1 DEF Reply, store, listing
  <2>3. OwnerHolds'
    BY <1>0, <2>2 DEF CopiesInv, OwnerHolds, TypeOK, Account
  <2>4. RepliesHeld'
    BY <1>0, <2>1, <2>2 DEF CopiesInv, RepliesHeld, TypeOK, Replies
  <2>5. NoticesHeld'
    BY <1>0, <2>1 DEF CopiesInv, NoticesHeld, TypeOK
  <2>6. ListingsHeld'
    <3> SUFFICES ASSUME NEW q \in Requests, NEW p \in got[q] PROVE p[2] \in holds'[p[1]]
      BY <2>2 DEF ListingsHeld
    <3>1. p[1] \in Accounts /\ p[2] \in holds[p[1]]
      BY DEF TypeOK, CopiesInv, ListingsHeld
    <3> QED BY <1>0, <3>1
  <2> QED BY <2>3, <2>4, <2>5, <2>6 DEF CopiesInv
<1>11. ASSUME NEW a \in Accounts, NEW lost \in SUBSET outbox,
              NEW unheard \in SUBSET notices,
              ChildExit(a, lost, unheard) \/ UpdateAccount(a)
       PROVE CopiesInv'
  <2>1. /\ UNCHANGED <<owner, got>>
        /\ outbox' \subseteq outbox
        /\ notices' \subseteq notices
    BY <1>11 DEF ChildExit, UpdateAccount, store, listing, pipes
  <2> QED BY <1>0, <2>1, CopiesQuiet
<1>12. ASSUME NEW r \in Requests, WriteReply(r) PROVE CopiesInv'
  <2>1. UNCHANGED <<owner, outbox, notices>> /\ Answer(r)
    BY <1>12 DEF WriteReply, store, pipes
  <2>2. \A q \in Requests : got'[q] \subseteq got[q]
    BY <2>1, AnswerDropsListing
  <2> QED BY <1>0, <2>1, <2>2, CopiesQuiet
<1>13. ASSUME WriteNotice PROVE CopiesInv'
  BY <1>0, <1>13, CopiesQuiet DEF WriteNotice, store, listing, pipes
<1> QED
  BY <1>1, <1>2, <1>3, <1>4, <1>5, <1>6, <1>7, <1>8, <1>9, <1>10, <1>11, <1>12, <1>13
  DEF Next, Handle, Inbound, Environment
-----------------------------------------------------------------------------
(* Once owned, a thread stays owned; what the client knows it keeps.        *)
LEMMA OwnedStays ==
  ASSUME TypeOK, TypeOK', [Next]_vars
  PROVE  /\ \A t \in Threads : owner[t] # None => owner'[t] # None
         /\ known \subseteq known'
<1> USE RouterAssumption
<1>1. ASSUME NEW r \in Requests, ClientSends(r) PROVE UNCHANGED <<owner, known>>
  BY <1>1 DEF ClientSends, RouteNewThread, RouteRateLimits, ListThreads, RouteScoped,
     RouteExisting, Receive, store
<1>2. ASSUME NEW r \in Requests, Handle(r)
      PROVE  /\ \A t \in Threads : owner[t] # None => owner'[t] # None
             /\ known \subseteq known'
  <2>1. ASSUME NEW saved \in BOOLEAN, TakeOwnership(r, saved)
        PROVE  /\ \A t \in Threads : owner[t] # None => owner'[t] # None
               /\ known' = known
    BY <2>1 DEF TakeOwnership, TypeOK
  <2>2. ASSUME NEW a \in Accounts, MergeThreads(r, a)
        PROVE  /\ \A t \in Threads : owner[t] # None => owner'[t] # None
               /\ known' = known
    BY <2>2 DEF MergeThreads, TypeOK
  <2> QED BY <1>2, <2>1, <2>2 DEF Handle, CheckOwner, ChooseAccount, AllDepleted,
          ResumeOnTarget, ResumeFails, Forward, GatherThreads, AnswerList,
          AnswerRateLimits, store
<1>3. ASSUME NEW m \in outbox, LearnThreadOwner(m) \/ RetryTurn(m) \/ RefuseTurn(m)
      PROVE  /\ \A t \in Threads : owner[t] # None => owner'[t] # None
             /\ known \subseteq known'
  <2>1. m.acct \in Accounts
    BY DEF TypeOK, Replies
  <2> QED BY <1>3, <2>1 DEF LearnThreadOwner, RetryTurn, RefuseTurn, TakeReply, TypeOK
<1>4. ASSUME NEW n \in notices, PinThread(n)
      PROVE  /\ \A t \in Threads : owner[t] # None => owner'[t] # None
             /\ known \subseteq known'
  <2>1. n[1] \in Accounts
    BY DEF TypeOK
  <2> QED BY <1>4, <2>1 DEF PinThread, TypeOK
<1>6. ASSUME WriteNotice \/ \E r \in Requests : WriteReply(r)
      PROVE  owner' = owner /\ known \subseteq known'
  BY <1>6 DEF WriteNotice, WriteReply, store
<1>5. ASSUME Environment PROVE UNCHANGED <<owner, known>>
  BY <1>5, EnvironmentQuiet
<1> QED BY <1>1, <1>2, <1>3, <1>4, <1>5, <1>6 DEF Next, Inbound, vars, store

LEMMA KnownQuiet ==
  ASSUME TypeOK, TypeOK', KnownInv,
         \A t \in Threads : owner[t] # None => owner'[t] # None,
         known' \subseteq known \cup handed, handed' \subseteq handed,
         \A r \in Requests : pc'[r] = "merge" =>
           pc[r] = "merge" /\ got'[r] = got[r] /\ left'[r] = left[r]
  PROVE  KnownInv'
<1>1. KnownThreadHasOwner' /\ HandedOwned'
  BY DEF KnownInv, KnownThreadHasOwner, HandedOwned, TypeOK
<1>2. MergedOwned'
  <2> SUFFICES ASSUME NEW r \in Requests, pc'[r] = "merge", NEW p \in got'[r],
                      p[1] \notin left'[r]
               PROVE  owner'[p[2]] # None
    BY DEF MergedOwned
  <2>1. p \in got[r] /\ p[2] \in Threads
    BY DEF TypeOK
  <2> QED BY <2>1 DEF KnownInv, MergedOwned
<1> QED BY <1>1, <1>2 DEF KnownInv

LEMMA AnswerForgets ==
  ASSUME TypeOK, NEW r \in Requests, Answer(r)
  PROVE  \A q \in Requests : pc'[q] = "merge" =>
           pc[q] = "merge" /\ got'[q] = got[q] /\ left'[q] = left[q]
  BY DEF TypeOK, Answer, Goto

(* Only the replies that settle an owner name a thread.                     *)
NamesLearnt == \A m \in outbox : m.thread # None => LearnsOwner(op[m.req])

LEMMA NamesQuiet ==
  ASSUME TypeOK, NamesLearnt, outbox' \subseteq outbox,
         \A m \in outbox' : op'[m.req] = op[m.req]
  PROVE  NamesLearnt'
  BY DEF NamesLearnt, LearnsOwner

LEMMA NamesStep ==
  ASSUME TypeOK, RoutingInv, NamesLearnt, [Next]_vars
  PROVE  NamesLearnt'
<1>0. \A m \in outbox : m.req \in Requests /\ pc[m.req] = "sent"
  BY RouterAssumption DEF TypeOK, Replies, RoutingInv, RouteMatchesChild, RoutedIsSent
<1>1. CASE UNCHANGED vars
  BY <1>1, NamesQuiet DEF vars, request, pipes
<1>2. ASSUME NEW r \in Requests, ClientSends(r) \/ Handle(r) PROVE NamesLearnt'
  <2>1. UNCHANGED outbox /\ (pc[r] # "sent" \/ op' = op)
    BY <1>2 DEF ClientSends, RouteNewThread, RouteRateLimits, ListThreads, RouteScoped,
       RouteExisting, Receive, Handle, CheckOwner, ChooseAccount, AllDepleted,
       ResumeOnTarget, ResumeFails, TakeOwnership, Forward, GatherThreads,
       MergeThreads, AnswerList, AnswerRateLimits, pipes
  <2>2. \A q \in Requests \ {r} : op'[q] = op[q]
    BY <1>2 DEF ClientSends, RouteNewThread, RouteRateLimits, ListThreads, RouteScoped,
       RouteExisting, Receive, Handle, CheckOwner, ChooseAccount, AllDepleted,
       ResumeOnTarget, ResumeFails, TakeOwnership, Forward, GatherThreads,
       MergeThreads, AnswerList, AnswerRateLimits, Proceed, Answer, request, TypeOK
  <2> QED BY <1>0, <2>1, <2>2, NamesQuiet
<1>3. ASSUME NEW m \in outbox, LearnThreadOwner(m) \/ RetryTurn(m) \/ RefuseTurn(m)
      PROVE NamesLearnt'
  <2>1. outbox' = outbox \ {m} /\ \A q \in Requests \ {m.req} : op'[q] = op[q]
    BY <1>0, <1>3 DEF LearnThreadOwner, RetryTurn, RefuseTurn, TakeReply, Answer,
       request, TypeOK
  <2>2. \A n \in outbox' : n.req # m.req
    BY <2>1 DEF RoutingInv, RouteMatchesChild
  <2> QED BY <1>0, <2>1, <2>2, NamesQuiet
<1>4. ASSUME NEW a \in Accounts, NEW r \in Requests, Serve(a, r) PROVE NamesLearnt'
  <2>1. PICK outcome, t : Reply(a, r, outcome, t) /\ (t # None => LearnsOwner(op[r]))
    BY <1>4 DEF Serve, ServeNewThread, ServeResume, ServeOther, Refuse, LearnsOwner
  <2> QED BY <2>1 DEF Reply, request, NamesLearnt, LearnsOwner
<1>5. ASSUME \/ WriteNotice \/ \E n \in notices : PinThread(n)
             \/ Environment /\ ~\E a \in Accounts, r \in Requests : Serve(a, r)
      PROVE NamesLearnt'
  <2>1. outbox' \subseteq outbox /\ op' = op
    BY <1>5 DEF Environment, ChildExit, UpdateAccount, PinThread, WriteNotice, request,
       pipes
  <2> QED BY <2>1, NamesQuiet
<1>6. ASSUME NEW r \in Requests, WriteReply(r) PROVE NamesLearnt'
  <2>1. outbox' = outbox /\ pc[r] = "write" /\ \A q \in Requests \ {r} : op'[q] = op[q]
    BY <1>6 DEF WriteReply, Answer, pipes, TypeOK
  <2> QED BY <1>0, <2>1, NamesQuiet
<1> QED BY <1>1, <1>2, <1>3, <1>4, <1>5, <1>6 DEF Next, Inbound, Environment

LEMMA KnownStep ==
  ASSUME TypeOK, KnownInv, NamesLearnt, [Next]_vars
  PROVE  KnownInv'
<1>0. TypeOK'
  BY TypeStep
<1>a. /\ \A t \in Threads : owner[t] # None => owner'[t] # None
      /\ known \subseteq known'
  BY <1>0, OwnedStays
<1>1. CASE UNCHANGED vars
  BY <1>0, <1>a, <1>1, KnownQuiet DEF vars, listing
<1>2. ASSUME NEW r \in Requests, ClientSends(r) PROVE KnownInv'
  <2>1. /\ known' = known /\ handed' = handed /\ got' = got
        /\ \E stage \in Stages \ {"merge"} : Goto(r, stage)
        /\ \A q \in Requests \ {r} : left'[q] = left[q]
    BY <1>2 DEF ClientSends, RouteNewThread, RouteRateLimits, ListThreads,
       RouteScoped, RouteExisting, Receive, Stages, TypeOK
  <2>2. \A q \in Requests : pc'[q] = "merge" => q # r /\ pc[q] = "merge"
    BY <2>1 DEF Goto, TypeOK
  <2> QED BY <1>0, <1>a, <2>1, <2>2, KnownQuiet
<1>3. ASSUME NEW r \in Requests, NEW a \in Accounts, NEW listed \in SUBSET holds[a],
             GatherThreads(r, a, listed)
      PROVE KnownInv'
  <2>1. /\ known' = known /\ owner' = owner /\ handed' = handed
        /\ \A q \in Requests \ {r} :
              pc'[q] = pc[q] /\ got'[q] = got[q] /\ left'[q] = left[q]
        /\ pc'[r] = "merge" => left'[r] = Accounts
    BY <1>3 DEF GatherThreads, Goto, store, TypeOK
  <2>2. MergedOwned'
    <3> SUFFICES ASSUME NEW q \in Requests, pc'[q] = "merge", NEW p \in got'[q],
                        p[1] \notin left'[q]
                 PROVE  owner'[p[2]] # None
      BY DEF MergedOwned
    <3>1. p \in Accounts \X Threads
      BY <1>0 DEF TypeOK
    <3>2. q # r
      BY <2>1, <3>1
    <3> QED BY <2>1, <3>2 DEF KnownInv, MergedOwned
  <2> QED BY <2>1, <2>2 DEF KnownInv, KnownThreadHasOwner, HandedOwned
<1>4. ASSUME NEW r \in Requests, NEW a \in Accounts, MergeThreads(r, a)
      PROVE KnownInv'
  <2>1. /\ known' = known /\ handed' = handed /\ pc' = pc /\ got' = got
        /\ owner' = [t \in Threads |-> IF <<a, t>> \in got[r] THEN a ELSE owner[t]]
        /\ left' = [left EXCEPT ![r] = @ \ {a}]
    BY <1>4 DEF MergeThreads
  <2>2. MergedOwned'
    <3> SUFFICES ASSUME NEW q \in Requests, pc'[q] = "merge", NEW p \in got'[q],
                        p[1] \notin left'[q]
                 PROVE  owner'[p[2]] # None
      BY DEF MergedOwned
    <3>1. p \in got[q] /\ p \in Accounts \X Threads /\ p = <<p[1], p[2]>>
      BY <2>1 DEF TypeOK
    <3>2. CASE q = r /\ p[1] = a
      BY <2>1, <3>1, <3>2, RouterAssumption
    <3>3. CASE ~(q = r /\ p[1] = a)
      <4>1. p[1] \notin left[q] /\ pc[q] = "merge"
        BY <2>1, <3>3 DEF TypeOK
      <4> QED BY <1>a, <3>1, <4>1 DEF KnownInv, MergedOwned
    <3> QED BY <3>2, <3>3
  <2> QED BY <1>a, <2>1, <2>2 DEF KnownInv, KnownThreadHasOwner, HandedOwned, TypeOK
<1>5. ASSUME NEW r \in Requests, AnswerList(r) PROVE KnownInv'
  <2>1. known' = known \cup Listed(r) /\ owner' = owner /\ handed' = handed
    BY <1>5 DEF AnswerList, store
  <2>2. \A t \in Listed(r) : t \in Threads /\ owner[t] # None
    <3> SUFFICES ASSUME NEW t \in Threads, NEW a \in Accounts, <<a, t>> \in got[r]
                 PROVE  owner[t] # None
      BY DEF Listed
    <3>1. pc[r] = "merge" /\ left[r] = {}
      BY <1>5 DEF AnswerList
    <3> QED BY <3>1 DEF KnownInv, MergedOwned
  <2>3. \A q \in Requests : pc'[q] = "merge" =>
          pc[q] = "merge" /\ got'[q] = got[q] /\ left'[q] = left[q]
    BY <1>5, AnswerForgets DEF AnswerList
  <2>4. KnownThreadHasOwner' /\ HandedOwned'
    BY <2>1, <2>2 DEF KnownInv, KnownThreadHasOwner, HandedOwned
  <2>5. MergedOwned'
    BY <2>1, <2>3 DEF KnownInv, MergedOwned
  <2> QED BY <2>4, <2>5 DEF KnownInv
<1>6. ASSUME NEW r \in Requests, Handle(r), ~AnswerList(r),
             ~\E a \in Accounts : \E listed \in SUBSET holds[a] : GatherThreads(r, a, listed),
             ~\E a \in Accounts : MergeThreads(r, a)
      PROVE KnownInv'
  <2>1. UNCHANGED <<known, handed>>
    BY <1>6 DEF Handle, CheckOwner, ChooseAccount, AllDepleted, ResumeOnTarget,
       ResumeFails, TakeOwnership, Forward, AnswerRateLimits
  <2>2. \/ Answer(r)
        \/ /\ UNCHANGED <<got, left>>
           /\ \E stage \in Stages \ {"merge"} : Goto(r, stage)
    BY <1>6 DEF Handle, CheckOwner, ChooseAccount, AllDepleted, ResumeOnTarget,
       ResumeFails, TakeOwnership, Forward, AnswerRateLimits, Proceed, listing, Stages
  <2>3. \A q \in Requests : pc'[q] = "merge" =>
          pc[q] = "merge" /\ got'[q] = got[q] /\ left'[q] = left[q]
    BY <2>2, AnswerForgets DEF Goto, TypeOK
  <2> QED BY <1>0, <1>a, <2>1, <2>3, KnownQuiet
<1>7. ASSUME NEW m \in outbox, LearnThreadOwner(m) PROVE KnownInv'
  <2>1. /\ m.req \in Requests /\ m.acct \in Accounts /\ m.thread \in Thread
        /\ known' = known /\ handed' = {m.thread} \ {None}
        /\ got' = got /\ left' = left
        /\ pc' = [pc EXCEPT ![m.req] = "write"]
    BY <1>7 DEF TypeOK, Replies, LearnThreadOwner, TakeReply, Goto, listing
  <2>2. KnownThreadHasOwner'
    BY <1>a, <2>1 DEF KnownInv, KnownThreadHasOwner, TypeOK
  <2>3. HandedOwned'
    <3>1. CASE m.thread = None
      BY <2>1, <3>1 DEF HandedOwned
    <3>2. CASE m.thread # None
      <4>1. LearnsOwner(op[m.req])
        BY <3>2 DEF NamesLearnt
      <4>2. owner' = [owner EXCEPT ![m.thread] = m.acct] /\ m.thread \in Threads
        BY <1>7, <2>1, <3>2, <4>1 DEF LearnThreadOwner, Thread
      <4> QED BY <2>1, <4>2, RouterAssumption DEF HandedOwned, TypeOK
    <3> QED BY <3>1, <3>2
  <2>4. MergedOwned'
    <3> SUFFICES ASSUME NEW q \in Requests, pc'[q] = "merge", NEW p \in got[q],
                        p[1] \notin left[q]
                 PROVE  owner'[p[2]] # None
      BY <2>1 DEF MergedOwned
    <3>1. p[2] \in Threads /\ pc[q] = "merge"
      BY <2>1 DEF TypeOK
    <3> QED BY <1>a, <3>1 DEF KnownInv, MergedOwned
  <2> QED BY <2>2, <2>3, <2>4 DEF KnownInv
<1>8. ASSUME NEW m \in outbox, RetryTurn(m) \/ RefuseTurn(m) PROVE KnownInv'
  <2>1. /\ m.req \in Requests
        /\ UNCHANGED <<known, handed>>
        /\ \/ Answer(m.req)
           \/ UNCHANGED <<got, left>> /\ Goto(m.req, "choose")
    BY <1>8 DEF RetryTurn, RefuseTurn, TakeReply, TypeOK, Replies, listing
  <2>2. \A q \in Requests : pc'[q] = "merge" =>
          pc[q] = "merge" /\ got'[q] = got[q] /\ left'[q] = left[q]
    BY <2>1, AnswerForgets DEF Goto, TypeOK
  <2> QED BY <1>0, <1>a, <2>1, <2>2, KnownQuiet
<1>9. ASSUME NEW n \in notices, PinThread(n) PROVE KnownInv'
  <2>1. /\ owner' = [owner EXCEPT ![n[2]] = n[1]]
        /\ known' = known /\ handed' = {n[2]}
        /\ n[1] \in Accounts /\ n[2] \in Threads
        /\ UNCHANGED <<pc, got, left>>
    BY <1>9 DEF PinThread, TypeOK, listing
  <2>2. KnownThreadHasOwner' /\ HandedOwned'
    BY <1>a, <2>1, RouterAssumption
    DEF KnownInv, KnownThreadHasOwner, HandedOwned, TypeOK
  <2>3. MergedOwned'
    <3> SUFFICES ASSUME NEW q \in Requests, pc[q] = "merge", NEW p \in got[q],
                        p[1] \notin left[q]
                 PROVE  owner'[p[2]] # None
      BY <2>1 DEF MergedOwned
    <3>1. p[2] \in Threads
      BY DEF TypeOK
    <3> QED BY <1>a, <3>1 DEF KnownInv, MergedOwned
  <2> QED BY <2>2, <2>3 DEF KnownInv
<1>10. ASSUME NEW r \in Requests, WriteReply(r) PROVE KnownInv'
  <2>1. known' = known \cup handed /\ handed' = {}
    BY <1>10 DEF WriteReply
  <2>2. \A q \in Requests : pc'[q] = "merge" =>
          pc[q] = "merge" /\ got'[q] = got[q] /\ left'[q] = left[q]
    BY <1>10, AnswerForgets DEF WriteReply
  <2> QED BY <1>0, <1>a, <2>1, <2>2, KnownQuiet
<1>11. ASSUME WriteNotice PROVE KnownInv'
  BY <1>0, <1>a, <1>11, KnownQuiet DEF WriteNotice, listing
<1>12. ASSUME Environment PROVE KnownInv'
  <2>1. UNCHANGED <<known, handed, pc, got, left>>
    BY <1>12, EnvironmentQuiet
  <2> QED BY <1>0, <1>a, <2>1, KnownQuiet
<1> QED
  BY <1>1, <1>2, <1>3, <1>4, <1>5, <1>6, <1>7, <1>8, <1>9, <1>10, <1>11, <1>12
  DEF Next, Handle, Inbound
-----------------------------------------------------------------------------
(* Steps that put no turn anywhere new.                                     *)
LEMMA TurnsQuiet ==
  ASSUME TypeOK, TypeOK', TurnsInv,
         \A a \in Accounts : holds[a] \subseteq holds'[a],
         inbox' \subseteq inbox, outbox' \subseteq outbox,
         \A q \in Requests :
           \/ op'[q] # "turn"
           \/ /\ op'[q] = op[q] /\ thr'[q] = thr[q] /\ (q \in orphan => q \in orphan')
              /\ at'[q] = at[q] /\ to'[q] = to[q]
              /\ pc'[q] = pc[q] \/ pc'[q] = "write"
  PROVE  TurnsInv'
<1> USE DEF CanServe
<1>1. SourceServes'
  BY DEF TypeOK, TurnsInv, SourceServes
<1>2. TargetServes'
  BY RouterAssumption DEF TypeOK, TurnsInv, TargetServes, Thread
<1>3. AnsweredByServer'
  BY DEF TypeOK, Replies, TurnsInv, AnsweredByServer
<1>4. TurnLandsOnHolder'
  BY DEF TypeOK, TurnsInv, TurnLandsOnHolder
<1> QED BY <1>1, <1>2, <1>3, <1>4 DEF TurnsInv

LEMMA AnswerEndsTurn ==
  ASSUME TypeOK, NEW r \in Requests, Answer(r), NEW q \in Requests
  PROVE  \/ op'[q] # "turn"
         \/ /\ op'[q] = op[q] /\ thr'[q] = thr[q] /\ (q \in orphan => q \in orphan')
            /\ at'[q] = at[q] /\ to'[q] = to[q] /\ pc'[q] = pc[q]
  BY DEF TypeOK, Answer, Goto

(* The handler of one turn moves it on, and what it has to show for it is   *)
(* that the account it names now can serve the thread.                      *)
LEMMA TurnMoves ==
  ASSUME TypeOK, TypeOK', TurnsInv, NEW r \in Requests,
         \A a \in Accounts : holds[a] \subseteq holds'[a],
         UNCHANGED <<inbox, outbox, op, thr, orphan>>,
         \A q \in Requests \ {r} :
           at'[q] = at[q] /\ to'[q] = to[q] /\ pc'[q] = pc[q],
         pc'[r] \in {"choose", "resume", "own"} /\ op[r] = "turn"
           => thr[r] \in holds'[at'[r]] \/ (r \in orphan /\ at'[r] = Controller),
         pc'[r] = "own" /\ op[r] = "turn" /\ thr[r] # None
           => thr[r] \in holds'[to'[r]],
         pc'[r] = "forward" /\ op[r] = "turn" /\ thr[r] # None
           => thr[r] \in holds'[to'[r]] \/ (r \in orphan /\ to'[r] = Controller),
         pc'[r] # "check"
  PROVE  TurnsInv'
<1> USE DEF CanServe
<1>1. SourceServes'
  BY DEF TypeOK, TurnsInv, SourceServes
<1>2. TargetServes'
  BY DEF TypeOK, TurnsInv, TargetServes
<1>3. AnsweredByServer'
  BY DEF TypeOK, Replies, TurnsInv, AnsweredByServer
<1>4. TurnLandsOnHolder'
  BY DEF TypeOK, TurnsInv, TurnLandsOnHolder
<1> QED BY <1>1, <1>2, <1>3, <1>4 DEF TurnsInv

LEMMA TurnReceived ==
  ASSUME TypeOK, TypeOK', RoutingInv, OwnerHolds, TurnsInv,
         NEW r \in Requests, ClientSends(r)
  PROVE  TurnsInv'
<1>1. /\ pc[r] = "idle"
      /\ UNCHANGED <<holds, inbox, outbox>>
      /\ \A q \in Requests \ {r} :
           /\ op'[q] = op[q] /\ thr'[q] = thr[q] /\ (q \in orphan' <=> q \in orphan)
           /\ at'[q] = at[q] /\ to'[q] = to[q] /\ pc'[q] = pc[q]
  BY DEF ClientSends, RouteNewThread, RouteRateLimits, ListThreads, RouteScoped,
     RouteExisting, Receive, Goto, pipes, TypeOK
<1>2. /\ \A m \in inbox : m[2] \in Requests /\ m[2] # r
      /\ \A m \in outbox : m.req \in Requests /\ m.req # r
  BY <1>1, UnroutedIsQuiet DEF RoutingInv, RoutedIsSent, TypeOK, Replies
<1>3. AnsweredByServer' /\ TurnLandsOnHolder'
  BY <1>1, <1>2 DEF TurnsInv, AnsweredByServer, TurnLandsOnHolder, CanServe
<1>4. /\ op'[r] = "turn" /\ thr'[r] # None
         => /\ pc'[r] = "check"
            /\ \/ thr'[r] \in holds[at'[r]]
               \/ r \in orphan' /\ at'[r] = Controller
      /\ thr'[r] = None => pc'[r] \notin {"check", "resume", "own"}
      /\ pc'[r] = "choose" => op'[r] # "turn"
  <2>1. ASSUME NEW o \in Ops, NEW t \in known \cup Remembered \cup {None},
               RouteExisting(r, o, t)
        PROVE  /\ op'[r] = o /\ thr'[r] = t /\ t \in Thread
               /\ o = "turn" /\ t # None =>
                    /\ pc'[r] = "check" /\ at'[r] = OwnerOrController(t)
                    /\ owner[t] = None => r \in orphan'
               /\ ~(o = "turn" /\ t # None) => pc'[r] = "forward"
    BY <2>1, RouterAssumption DEF RouteExisting, Receive, Goto, TypeOK, Thread
  <2>2. ASSUME NEW t \in Threads
        PROVE  \/ t \in holds[OwnerOrController(t)]
               \/ owner[t] = None /\ OwnerOrController(t) = Controller
    BY <2>2, RouterAssumption DEF OwnerOrController, OwnerHolds, TypeOK
  <2>3. ASSUME ~\E o \in Ops, t \in known \cup Remembered \cup {None} : RouteExisting(r, o, t)
        PROVE  op'[r] # "turn" /\ pc'[r] \notin {"check", "resume", "own"}
    BY <2>3 DEF ClientSends, RouteNewThread, RouteRateLimits, ListThreads,
       RouteScoped, Receive, Goto, TypeOK
  <2> QED BY <2>1, <2>2, <2>3 DEF Thread
<1>5. SourceServes' /\ TargetServes'
  BY <1>1, <1>4 DEF TurnsInv, SourceServes, TargetServes, CanServe
<1> QED BY <1>3, <1>5 DEF TurnsInv

LEMMA TurnsStep ==
  ASSUME TypeOK, RoutingInv, OwnerHolds, TurnsInv, [Next]_vars
  PROVE  TurnsInv'
<1>0. TypeOK' /\ (\A a \in Accounts : holds[a] \subseteq holds'[a])
  BY TypeStep, CopiesSpread
<1>1. CASE UNCHANGED vars
  BY <1>0, <1>1, TurnsQuiet DEF vars, request, turn, pipes
<1>2. ASSUME NEW r \in Requests, ClientSends(r) PROVE TurnsInv'
  BY <1>0, <1>2, TurnReceived
<1>3. ASSUME NEW r \in Requests, NEW view \in Views, CheckOwner(r, view)
      PROVE TurnsInv'
  <2>1. /\ pc[r] = "check" /\ op[r] = "turn" /\ at[r] \in Accounts
        /\ UNCHANGED <<holds, inbox, outbox, op, thr, orphan, at>>
        /\ \A q \in Requests \ {r} : to'[q] = to[q] /\ pc'[q] = pc[q]
        /\ \/ pc'[r] = "forward" /\ to'[r] = at[r]
           \/ pc'[r] = "choose"
    BY <1>3 DEF CheckOwner, Goto, TypeOK, request, pipes
  <2>2. CanServe(r, at[r])
    BY <2>1 DEF TurnsInv, SourceServes
  <2> QED BY <1>0, <2>1, <2>2, TurnMoves DEF CanServe
<1>4. ASSUME NEW r \in Requests, NEW views \in Readable, ChooseAccount(r, views)
      PROVE TurnsInv'
  <2>1. /\ pc[r] = "choose"
        /\ UNCHANGED <<holds, inbox, outbox, op, thr, orphan, at>>
        /\ \A q \in Requests \ {r} : to'[q] = to[q] /\ pc'[q] = pc[q]
        /\ pc'[r] = IF op[r] = "turn" THEN "resume" ELSE "forward"
    BY <1>4 DEF ChooseAccount, Goto, TypeOK, request, pipes
  <2>2. op[r] = "turn" => CanServe(r, at[r])
    BY <2>1 DEF TurnsInv, SourceServes
  <2> QED BY <1>0, <2>1, <2>2, TurnMoves DEF CanServe
<1>5. ASSUME NEW r \in Requests, ResumeOnTarget(r) PROVE TurnsInv'
  <2>1. /\ pc[r] = "resume" /\ op[r] = "turn"
        /\ at[r] \in Accounts /\ to[r] \in Accounts
        /\ UNCHANGED <<inbox, outbox, op, thr, orphan, at, to>>
        /\ pc' = [pc EXCEPT ![r] = "own"]
        /\ thr[r] \in holds[at[r]] /\ thr[r] \in holds'[to[r]]
    BY <1>5 DEF ResumeOnTarget, CanResume, Goto, Proceed, TypeOK, request, turn, pipes
  <2>2. thr[r] \in holds'[at[r]]
    BY <1>0, <2>1
  <2>3. /\ pc'[r] = "own"
        /\ \A q \in Requests \ {r} : at'[q] = at[q] /\ to'[q] = to[q] /\ pc'[q] = pc[q]
    BY <2>1 DEF TypeOK
  <2> QED BY <1>0, <2>1, <2>2, <2>3, TurnMoves
<1>6. ASSUME NEW r \in Requests, TakeOwnership(r, TRUE) PROVE TurnsInv'
  <2>1. /\ pc[r] = "own" /\ op[r] = "turn" /\ thr[r] \in Threads
        /\ UNCHANGED <<holds, inbox, outbox, op, thr, orphan, at, to>>
        /\ pc' = [pc EXCEPT ![r] = "forward"]
    BY <1>6 DEF TakeOwnership, Goto, Proceed, TypeOK, request, turn, pipes
  <2>2. thr[r] \in holds[to[r]]
    BY <2>1, RouterAssumption DEF TurnsInv, TargetServes
  <2>3. /\ pc'[r] = "forward"
        /\ \A q \in Requests \ {r} : at'[q] = at[q] /\ to'[q] = to[q] /\ pc'[q] = pc[q]
    BY <2>1 DEF TypeOK
  <2> QED BY <1>0, <2>1, <2>2, <2>3, TurnMoves
<1>7. ASSUME NEW r \in Requests, Forward(r), alive[to[r]] PROVE TurnsInv'
  <2>1. /\ pc[r] = "forward" /\ to[r] \in Accounts
        /\ UNCHANGED <<holds, outbox, op, thr, orphan, at, to>>
        /\ inbox' = inbox \cup {<<to[r], r>>}
        /\ pc' = [pc EXCEPT ![r] = "sent"]
    BY <1>7 DEF Forward, Goto, TypeOK, request
  <2>2. SourceServes' /\ TargetServes'
    BY <2>1 DEF TurnsInv, SourceServes, TargetServes, CanServe, TypeOK
  <2>3. AnsweredByServer'
    BY <2>1 DEF TurnsInv, AnsweredByServer, CanServe
  <2>4. op[r] = "turn" /\ thr[r] # None => CanServe(r, to[r])
    BY <2>1 DEF TurnsInv, TargetServes
  <2>5. TurnLandsOnHolder'
    BY <2>1, <2>4 DEF TurnsInv, TurnLandsOnHolder, CanServe
  <2> QED BY <2>2, <2>3, <2>5 DEF TurnsInv
<1>8. ASSUME NEW r \in Requests, Handle(r),
             ~\E view \in Views : CheckOwner(r, view),
             ~\E views \in Readable : ChooseAccount(r, views),
             ~ResumeOnTarget(r), ~TakeOwnership(r, TRUE),
             ~(Forward(r) /\ alive[to[r]])
      PROVE TurnsInv'
  <2>1. UNCHANGED <<inbox, outbox>>
    BY <1>8 DEF Handle, AllDepleted, ResumeFails, TakeOwnership, Forward,
       GatherThreads, MergeThreads, AnswerList, AnswerRateLimits, pipes
  <2>2. \/ Answer(r)
        \/ /\ UNCHANGED <<op, thr, orphan, at, to>>
           /\ pc' = pc \/ (pc[r] = "gather" /\ Goto(r, "merge"))
    BY <1>8 DEF Handle, AllDepleted, ResumeFails, TakeOwnership, Forward,
       GatherThreads, MergeThreads, AnswerList, AnswerRateLimits, request, turn
  <2>3. CASE Answer(r)
    BY <1>0, <2>1, <2>3, AnswerEndsTurn, TurnsQuiet
  <2>4. CASE UNCHANGED <<op, thr, orphan, at, to>> /\ pc' = pc
    BY <1>0, <2>1, <2>4, TurnsQuiet
  <2>5. CASE UNCHANGED <<op, thr, orphan, at, to>> /\ Goto(r, "merge")
    <3>1. /\ pc'[r] = "merge"
          /\ \A q \in Requests \ {r} : at'[q] = at[q] /\ to'[q] = to[q] /\ pc'[q] = pc[q]
      BY <2>5 DEF Goto, TypeOK
    <3> QED BY <1>0, <2>1, <2>5, <3>1, TurnMoves
  <2> QED BY <2>2, <2>3, <2>4, <2>5
<1>9. ASSUME NEW m \in outbox, RefuseTurn(m) PROVE TurnsInv'
  <2>1. /\ m.req \in Requests
        /\ inbox' \subseteq inbox /\ outbox' \subseteq outbox
        /\ Answer(m.req)
    BY <1>9 DEF RefuseTurn, TakeReply, TypeOK, Replies
  <2> QED BY <1>0, <2>1, AnswerEndsTurn, TurnsQuiet
<1>10. ASSUME NEW m \in outbox, RetryTurn(m) PROVE TurnsInv'
  <2> DEFINE r == m.req
  <2>1. /\ r \in Requests /\ m.acct \in Accounts
        /\ op[r] = "turn" /\ thr[r] # None
        /\ UNCHANGED <<holds, inbox, op, thr, orphan, to>>
        /\ outbox' \subseteq outbox
        /\ at' = [at EXCEPT ![r] = m.acct]
        /\ pc' = [pc EXCEPT ![r] = "choose"]
    BY <1>10 DEF RetryTurn, HitLimit, TakeReply, Goto, TypeOK, Replies, request
  <2>2. CanServe(r, m.acct)
    BY <2>1 DEF TurnsInv, AnsweredByServer
  <2>3. SourceServes' /\ TargetServes'
    BY <2>1, <2>2 DEF TurnsInv, SourceServes, TargetServes, CanServe, TypeOK
  <2>4. AnsweredByServer' /\ TurnLandsOnHolder'
    BY <2>1 DEF TurnsInv, AnsweredByServer, TurnLandsOnHolder, CanServe
  <2> QED BY <2>3, <2>4 DEF TurnsInv
<1>11. ASSUME WriteNotice \/ \E n \in notices : PinThread(n) PROVE TurnsInv'
  <2>1. UNCHANGED <<inbox, outbox, op, thr, orphan, at, to, pc>>
    BY <1>11 DEF PinThread, WriteNotice, request, turn, pipes
  <2> QED BY <1>0, <2>1, TurnsQuiet
<1>14. ASSUME NEW m \in outbox, LearnThreadOwner(m) PROVE TurnsInv'
  <2>1. /\ m.req \in Requests
        /\ inbox' \subseteq inbox /\ outbox' \subseteq outbox
        /\ UNCHANGED <<op, thr, orphan, at, to>>
        /\ pc' = [pc EXCEPT ![m.req] = "write"]
    BY <1>14 DEF LearnThreadOwner, TakeReply, Goto, TypeOK, Replies, request, turn
  <2>2. \A q \in Requests : pc'[q] = pc[q] \/ pc'[q] = "write"
    BY <2>1 DEF TypeOK
  <2> QED BY <1>0, <2>1, <2>2, TurnsQuiet
<1>15. ASSUME NEW r \in Requests, WriteReply(r) PROVE TurnsInv'
  <2>1. UNCHANGED <<inbox, outbox>> /\ Answer(r)
    BY <1>15 DEF WriteReply, pipes
  <2> QED BY <1>0, <2>1, AnswerEndsTurn, TurnsQuiet
<1>12. ASSUME NEW a \in Accounts, NEW r \in Requests, Serve(a, r) PROVE TurnsInv'
  <2>1. PICK outcome, t : Reply(a, r, outcome, t)
    BY <1>12 DEF Serve, ServeNewThread, ServeResume, ServeOther, Refuse
  <2>2. /\ <<a, r>> \in inbox
        /\ inbox' \subseteq inbox
        /\ outbox' = outbox \cup
             {[acct |-> a, req |-> r, outcome |-> outcome, thread |-> t]}
        /\ UNCHANGED <<op, thr, orphan, at, to, pc>>
    BY <2>1 DEF Reply, request, turn
  <2>3. SourceServes' /\ TargetServes'
    BY <1>0, <2>2 DEF TurnsInv, SourceServes, TargetServes, CanServe, TypeOK
  <2>4. op[r] = "turn" /\ thr[r] # None => CanServe(r, a)
    BY <2>2 DEF TurnsInv, TurnLandsOnHolder
  <2>5. AnsweredByServer'
    BY <1>0, <2>2, <2>4 DEF TurnsInv, AnsweredByServer, CanServe, TypeOK, Replies
  <2>6. TurnLandsOnHolder'
    BY <1>0, <2>2 DEF TurnsInv, TurnLandsOnHolder, CanServe, TypeOK
  <2> QED BY <2>3, <2>5, <2>6 DEF TurnsInv
<1>13. ASSUME NEW a \in Accounts, NEW lost \in SUBSET outbox,
              NEW unheard \in SUBSET notices,
              ChildExit(a, lost, unheard) \/ UpdateAccount(a)
       PROVE TurnsInv'
  <2>1. /\ inbox' \subseteq inbox /\ outbox' \subseteq outbox
        /\ UNCHANGED <<op, thr, orphan, at, to, pc>>
    BY <1>13 DEF ChildExit, UpdateAccount, request, turn, pipes
  <2> QED BY <1>0, <2>1, TurnsQuiet
<1> QED
  BY <1>1, <1>2, <1>3, <1>4, <1>5, <1>6, <1>7, <1>8, <1>9, <1>10, <1>11, <1>12, <1>13,
     <1>14, <1>15
  DEF Next, Inbound, Environment

(* The inductive invariant of the router.                                   *)
IInv == TypeOK /\ RoutingInv /\ CopiesInv /\ NamesLearnt /\ KnownInv /\ TurnsInv

LEMMA IInvStep == ASSUME IInv, [Next]_vars PROVE IInv'
  BY TypeStep, RoutingStep, CopiesStep, NamesStep, KnownStep, TurnsStep
  DEF IInv, CopiesInv, TurnsInv

LEMMA IInvHolds == Spec => []IInv
<1>1. Init => IInv
  <2>1. ASSUME Init PROVE TypeOK /\ RoutingInv
    BY <2>1, RouterAssumption DEF Init, TypeOK, Account, Thread, Stages, Ops,
       RoutingInv, RouteMatchesChild, RoutedIsSent, AnsweredIsDone
  <2>2. ASSUME Init PROVE CopiesInv /\ NamesLearnt /\ KnownInv /\ TurnsInv
    BY <2>2 DEF Init, CopiesInv, NamesLearnt, OwnerHolds, RepliesHeld, NoticesHeld, ListingsHeld,
       KnownInv, KnownThreadHasOwner, HandedOwned, MergedOwned, TurnsInv,
       SourceServes, TargetServes, AnsweredByServer, TurnLandsOnHolder
  <2> QED BY <2>1, <2>2 DEF IInv
<1> QED BY <1>1, IInvStep, PTL DEF Spec

(* Ownership follows the rollout: the owner in the table can open the       *)
(* thread, in whatever order listings, failovers, notices and replies come. *)
THEOREM OwnershipCorrect == Spec => []OwnerHolds
<1>1. IInv => OwnerHolds
  BY DEF IInv, CopiesInv
<1> QED BY <1>1, IInvHolds, PTL

(* The table is written before the client is told of a thread.              *)
THEOREM ToldIsRecorded == Spec => []KnownThreadHasOwner
<1>1. IInv => KnownThreadHasOwner
  BY DEF IInv, KnownInv
<1> QED BY <1>1, IInvHolds, PTL

(* No turn is put to a child that cannot open its thread, also when it is   *)
(* moved to another account on the way.                                     *)
THEOREM TurnsLand == Spec => []TurnLandsOnHolder
<1>1. IInv => TurnLandsOnHolder
  BY DEF IInv, TurnsInv
<1> QED BY <1>1, IInvHolds, PTL
-----------------------------------------------------------------------------
(* The accounts a turn was put to are exactly those a failover must avoid,  *)
(* up to the one it is waiting for.                                         *)
RetryInv ==
  \A r \in Requests :
    /\ pc[r] \in {"idle", "check"} => tried[r] = {} /\ excl[r] = {}
    /\ pc[r] \in {"choose", "resume", "own", "forward"} => tried[r] \subseteq excl[r]
    /\ pc[r] \in {"resume", "own", "forward"} => to[r] \notin tried[r]
    /\ pc[r] = "sent" => tried[r] \subseteq excl[r] \cup {route[r]}

LEMMA RetryQuiet ==
  ASSUME TypeOK, RetryInv, UNCHANGED route,
         \A q \in Requests :
           \/ pc'[q] \in {"gather", "merge", "aggregate", "write", "done"}
           \/ /\ pc'[q] = pc[q] /\ to'[q] = to[q]
              /\ tried'[q] = tried[q] /\ excl'[q] = excl[q]
  PROVE  RetryInv'
  BY DEF RetryInv, TypeOK

LEMMA AnswerEndsRetry ==
  ASSUME TypeOK, NEW r \in Requests, Answer(r), NEW q \in Requests
  PROVE  \/ pc'[q] = "done"
         \/ /\ pc'[q] = pc[q] /\ to'[q] = to[q]
            /\ tried'[q] = tried[q] /\ excl'[q] = excl[q]
  BY DEF TypeOK, Answer, Goto

LEMMA RetryStep ==
  ASSUME TypeOK, RoutingInv, RetryInv, [Next]_vars
  PROVE  RetryInv'
<1>1. CASE UNCHANGED vars
  BY <1>1, RetryQuiet DEF vars, turn
<1>2. ASSUME NEW r \in Requests, ClientSends(r) PROVE RetryInv'
  <2>1. /\ pc[r] = "idle" /\ UNCHANGED <<route, tried, excl>>
        /\ pc'[r] \in {"choose", "aggregate", "gather", "forward", "check"}
        /\ \A q \in Requests \ {r} : pc'[q] = pc[q] /\ to'[q] = to[q]
    BY <1>2 DEF ClientSends, RouteNewThread, RouteRateLimits, ListThreads,
       RouteScoped, RouteExisting, Receive, Goto, TypeOK
  <2> QED BY <2>1 DEF RetryInv
<1>3. ASSUME NEW r \in Requests, NEW view \in Views, CheckOwner(r, view)
      PROVE RetryInv'
  <2>1. /\ pc[r] = "check" /\ UNCHANGED <<route, tried>>
        /\ pc'[r] \in {"choose", "forward"}
        /\ \A q \in Requests \ {r} :
             pc'[q] = pc[q] /\ to'[q] = to[q] /\ excl'[q] = excl[q]
    BY <1>3 DEF CheckOwner, Goto, TypeOK
  <2> QED BY <2>1 DEF RetryInv
<1>4. ASSUME NEW r \in Requests, NEW views \in Readable, ChooseAccount(r, views)
      PROVE RetryInv'
  <2>1. /\ pc[r] = "choose" /\ UNCHANGED <<route, tried, excl>>
        /\ pc'[r] \in {"resume", "forward"}
        /\ to'[r] \notin excl[r]
        /\ \A q \in Requests \ {r} : pc'[q] = pc[q] /\ to'[q] = to[q]
    BY <1>4 DEF ChooseAccount, Choices, Candidates, Goto, TypeOK
  <2> QED BY <2>1 DEF RetryInv
<1>5. ASSUME NEW r \in Requests, ResumeOnTarget(r) \/ TakeOwnership(r, TRUE)
      PROVE RetryInv'
  <2>1. /\ pc[r] \in {"resume", "own"} /\ UNCHANGED <<route, tried, excl, to>>
        /\ pc'[r] \in {"own", "forward"}
        /\ \A q \in Requests \ {r} : pc'[q] = pc[q]
    BY <1>5 DEF ResumeOnTarget, TakeOwnership, Proceed, Goto, TypeOK, turn
  <2> QED BY <2>1 DEF RetryInv
<1>6. ASSUME NEW r \in Requests, Forward(r), alive[to[r]] PROVE RetryInv'
  <2>1. /\ pc[r] = "forward" /\ UNCHANGED <<excl, to>>
        /\ pc' = [pc EXCEPT ![r] = "sent"]
        /\ route' = [route EXCEPT ![r] = to[r]]
        /\ tried' = [tried EXCEPT ![r] = @ \cup {to[r]}]
    BY <1>6 DEF Forward, Goto
  <2> QED BY <2>1 DEF RetryInv, TypeOK
<1>7. ASSUME NEW r \in Requests, Handle(r),
             ~\E view \in Views : CheckOwner(r, view),
             ~\E views \in Readable : ChooseAccount(r, views),
             ~ResumeOnTarget(r), ~TakeOwnership(r, TRUE),
             ~(Forward(r) /\ alive[to[r]])
      PROVE RetryInv'
  <2>1. UNCHANGED route
    BY <1>7 DEF Handle, AllDepleted, ResumeFails, TakeOwnership, Forward,
       GatherThreads, MergeThreads, AnswerList, AnswerRateLimits
  <2>2. \/ Answer(r)
        \/ UNCHANGED <<to, tried, excl>> /\ (pc' = pc \/ Goto(r, "merge"))
    BY <1>7 DEF Handle, AllDepleted, ResumeFails, TakeOwnership, Forward,
       GatherThreads, MergeThreads, AnswerList, AnswerRateLimits, turn
  <2>3. CASE Answer(r)
    BY <2>1, <2>3, AnswerEndsRetry, RetryQuiet
  <2>4. CASE UNCHANGED <<to, tried, excl>> /\ (pc' = pc \/ Goto(r, "merge"))
    <3>1. \A q \in Requests : pc'[q] = pc[q] \/ pc'[q] = "merge"
      BY <2>4 DEF Goto, TypeOK
    <3> QED BY <2>1, <2>4, <3>1, RetryQuiet
  <2> QED BY <2>2, <2>3, <2>4
<1>8. ASSUME NEW m \in outbox, LearnThreadOwner(m) \/ RefuseTurn(m) PROVE RetryInv'
  <2>1. /\ m.req \in Requests /\ route' = [route EXCEPT ![m.req] = None]
        /\ \/ Answer(m.req)
           \/ Goto(m.req, "write") /\ UNCHANGED <<to, tried, excl>>
    BY <1>8 DEF LearnThreadOwner, RefuseTurn, TakeReply, TypeOK, Replies, turn
  <2>2. \A q \in Requests :
          \/ pc'[q] \in {"write", "done"}
          \/ /\ pc'[q] = pc[q] /\ to'[q] = to[q] /\ route'[q] = route[q]
             /\ tried'[q] = tried[q] /\ excl'[q] = excl[q]
    BY <2>1 DEF Answer, Goto, TypeOK
  <2> QED BY <2>2 DEF RetryInv
<1>9. ASSUME NEW m \in outbox, RetryTurn(m) PROVE RetryInv'
  <2> DEFINE r == m.req
  <2>1. /\ r \in Requests /\ route[r] = m.acct /\ pc[r] = "sent"
        /\ UNCHANGED <<to, tried>>
        /\ pc' = [pc EXCEPT ![r] = "choose"]
        /\ excl' = [excl EXCEPT ![r] = @ \cup {m.acct}]
        /\ route' = [route EXCEPT ![r] = None]
    BY <1>9 DEF RetryTurn, TakeReply, Goto, TypeOK, Replies, RoutingInv,
       RouteMatchesChild, RoutedIsSent
  <2>2. tried[r] \subseteq excl'[r]
    BY <2>1 DEF RetryInv, TypeOK
  <2> HIDE DEF r
  <2> QED BY <2>1, <2>2 DEF RetryInv, TypeOK
<1>10. ASSUME Environment \/ WriteNotice \/ (\E n \in notices : PinThread(n))
       PROVE RetryInv'
  <2>1. UNCHANGED <<route, pc, to, tried, excl>>
    BY <1>10, EnvironmentQuiet DEF PinThread, WriteNotice, turn
  <2> QED BY <2>1, RetryQuiet
<1>11. ASSUME NEW r \in Requests, WriteReply(r) PROVE RetryInv'
  <2>1. UNCHANGED route /\ Answer(r)
    BY <1>11 DEF WriteReply
  <2> QED BY <2>1, AnswerEndsRetry, RetryQuiet
<1> QED
  BY <1>1, <1>2, <1>3, <1>4, <1>5, <1>6, <1>7, <1>8, <1>9, <1>10, <1>11
  DEF Next, Inbound

(* However many failovers a turn goes through, no account is tried twice.   *)
THEOREM RetriesEnd == Spec => []NoAccountTriedTwice
<1>1. Init => RetryInv
  BY DEF Init, RetryInv
<1>2. RetryInv => NoAccountTriedTwice
  BY DEF RetryInv, NoAccountTriedTwice
<1> QED BY <1>1, <1>2, RetryStep, RoutingStep, IInvHolds, PTL DEF Spec, IInv
-----------------------------------------------------------------------------
(* A step moves one request at most, from idle on and up to done.           *)
LEMMA OneStage ==
  ASSUME TypeOK, RoutingInv, [Next]_vars
  PROVE  \/ UNCHANGED pc
         \/ \E r \in Requests, stage \in Stages \ {"idle"} :
              /\ pc[r] # "done"
              /\ pc[r] = "idle" => stage # "done"
              /\ Goto(r, stage)
<1>1. ASSUME NEW r \in Requests, ClientSends(r)
      PROVE  pc[r] = "idle" /\ \E stage \in Stages \ {"idle", "done"} : Goto(r, stage)
  BY <1>1 DEF ClientSends, RouteNewThread, RouteRateLimits, ListThreads,
     RouteScoped, RouteExisting, Receive, Stages
<1>2. ASSUME NEW r \in Requests, Handle(r)
      PROVE  \/ UNCHANGED pc
             \/ pc[r] \notin {"idle", "done"} /\ \E stage \in Stages \ {"idle"} : Goto(r, stage)
  BY <1>2 DEF Handle, CheckOwner, ChooseAccount, AllDepleted, ResumeOnTarget,
     ResumeFails, TakeOwnership, Forward, GatherThreads, MergeThreads, AnswerList,
     AnswerRateLimits, Answer, Stages
<1>3. ASSUME NEW m \in outbox, LearnThreadOwner(m) \/ RetryTurn(m) \/ RefuseTurn(m)
      PROVE  /\ m.req \in Requests /\ pc[m.req] = "sent"
             /\ \E stage \in Stages \ {"idle"} : Goto(m.req, stage)
  BY <1>3 DEF LearnThreadOwner, RetryTurn, RefuseTurn, TakeReply, Answer, Stages, TypeOK,
     Replies, RoutingInv, RoutedIsSent
<1>4. ASSUME Environment \/ WriteNotice \/ \E n \in notices : PinThread(n)
      PROVE UNCHANGED pc
  BY <1>4, EnvironmentQuiet DEF PinThread, WriteNotice
<1>5. ASSUME NEW r \in Requests, WriteReply(r)
      PROVE  pc[r] = "write" /\ Goto(r, "done")
  BY <1>5 DEF WriteReply, Answer
<1> QED BY <1>1, <1>2, <1>3, <1>4, <1>5 DEF Next, Inbound, vars, Stages

StatusOf(stage) == CASE stage = "idle" -> "unsent"
                     [] stage = "done" -> "answered"
                     [] OTHER -> "pending"

(* The router implements Switchboard: requests only move forward, copies    *)
(* only spread, and threads only move to accounts that can open them.       *)
THEOREM Implements == Spec => KeepsPromise
<1> USE DEF Promise!Init, Promise!Next, Promise!vars, Promise!Settle, Promise!Advance
<1>1. Init => Promise!Init
  BY DEF Init, Account
<1>2. ASSUME IInv, IInv', [Next]_vars PROVE [Promise!Next]_(Promise!vars)
  <2>1. Promise!Settle
    <3>1. \A a \in Accounts : holds[a] \subseteq holds'[a]
      BY <1>2, CopiesSpread DEF IInv
    <3>2. ASSUME NEW t \in Threads, owner'[t] # owner[t]
          PROVE owner'[t] \in Accounts /\ t \in holds'[owner'[t]]
      <4>1. owner'[t] # None
        BY <1>2, <3>2, OwnedStays DEF IInv
      <4> QED BY <1>2, <4>1 DEF IInv, TypeOK, Account, CopiesInv, OwnerHolds
    <3> QED BY <1>2, <3>1, <3>2 DEF IInv, TypeOK, Account
  <2>2. CASE UNCHANGED pc
    BY <2>1, <2>2
  <2>3. ASSUME NEW r \in Requests, NEW stage \in Stages \ {"idle"},
               pc[r] # "done", pc[r] = "idle" => stage # "done", Goto(r, stage)
        PROVE Promise!Next
    <3>1. pc' = [pc EXCEPT ![r] = stage] /\ pc \in [Requests -> Stages]
      BY <1>2, <2>3 DEF Goto, IInv, TypeOK
    <3> DEFINE status == [q \in Requests |-> StatusOf(pc[q])]
               next == [q \in Requests |-> StatusOf(pc'[q])]
    <3>2. next = [status EXCEPT ![r] = StatusOf(stage)]
      BY <3>1
    <3>3. \/ status[r] = "unsent" /\ StatusOf(stage) = "pending"
          \/ status[r] = "pending" /\ StatusOf(stage) \in {"pending", "answered"}
      BY <2>3, <3>1 DEF StatusOf
    <3>4. \/ next = status
          \/ status[r] = "unsent" /\ next = [status EXCEPT ![r] = "pending"]
          \/ status[r] = "pending" /\ next = [status EXCEPT ![r] = "answered"]
      BY <3>2, <3>3
    <3> QED BY <2>1, <3>4 DEF StatusOf
  <2> QED BY <1>2, <2>2, <2>3, <2>1, OneStage DEF IInv
<1> QED BY <1>1, <1>2, IInvHolds, PTL DEF Spec, KeepsPromise, Promise!Spec
=============================================================================
