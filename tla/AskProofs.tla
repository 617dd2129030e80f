------------------------------- MODULE AskProofs -------------------------------
(* Proofs about ServerRequests, for any number of app-servers and requests. *)
EXTENDS ServerRequests, TLAPS

(* Every request that is anywhere has been numbered.                        *)
NumbersInv ==
  /\ \A ask \in open \cup inbound : ask.number <= made
  /\ \A s \in shown : s.ask.number <= made /\ s.id.seq <= sequence

(* An app-server has one request open under an id; of a running app-server  *)
(* everything under way is open.                                            *)
OpenInv ==
  /\ \A a1, a2 \in open : a1.account = a2.account /\ a1.original = a2.original => a1 = a2
  /\ \A ask \in open : ask.account \in running
  /\ \A ask \in inbound : ask.account \in running => ask \in open

(* The client sees each request once, under an id of its own.               *)
ShownInv ==
  /\ \A s1, s2 \in shown : s1.id = s2.id \/ s1.ask = s2.ask => s1 = s2
  /\ \A s \in shown : s.ask \notin inbound

(* A route belongs to a request the client was shown, and not yet answered. *)
RoutesInv ==
  /\ \A e1, e2 \in routes : e1.id = e2.id => e1 = e2
  /\ \A e \in routes : \E s \in shown :
       /\ s.id = e.id
       /\ e.account = s.ask.account /\ e.original = s.ask.original
       /\ s.ask.account \in running => s.ask \in open
       /\ \A m \in answers : m.ask # s.ask

(* An answer is for a request that the client was shown.                    *)
AnswersInv ==
  /\ AnswerReachesAsker
  /\ \A m \in answers : \E s \in shown : s.ask = m.ask

QInv == TypeOK /\ NumbersInv /\ OpenInv /\ ShownInv /\ RoutesInv /\ AnswersInv /\ NothingStranded

LEMMA AskStep ==
  ASSUME QInv, NEW a \in Accounts, NEW o \in Originals, ChildAsks(a, o)
  PROVE  QInv'
<1> DEFINE ask == [account |-> a, original |-> o, number |-> made + 1]
<1>1. /\ a \in running /\ made < MaxAsks /\ made' = made + 1 /\ made \in Nat
      /\ \A x \in open : x.account = a => x.original # o
      /\ open' = open \cup {ask} /\ inbound' = inbound \cup {ask}
      /\ UNCHANGED <<running, sequence, routes, shown, answers>>
  BY AskAssumption DEF ChildAsks, QInv, TypeOK
<1>2. ask \in Asks /\ ask.account = a /\ ask.original = o /\ ask.number = made + 1
  BY <1>1, AskAssumption DEF Asks, Numbers, QInv, TypeOK
<1> HIDE DEF ask
<1>3. /\ \A x \in open \cup inbound : x \in Asks /\ x.number \in Nat
      /\ \A s \in shown : s.ask.number \in Nat
  BY AskAssumption DEF QInv, TypeOK, Asks, Shown, Numbers
<1>4. /\ ask \notin open \cup inbound
      /\ \A s \in shown : s.ask # ask
  BY <1>1, <1>2, <1>3 DEF QInv, NumbersInv
<1>5. TypeOK'
  BY <1>1, <1>2, AskAssumption DEF QInv, TypeOK
<1>6. NumbersInv'
  BY <1>1, <1>2, <1>3 DEF QInv, NumbersInv
<1>7. OpenInv' /\ ShownInv'
  BY <1>1, <1>2, <1>4 DEF QInv, OpenInv, ShownInv
<1>8. RoutesInv'
  BY <1>1 DEF QInv, RoutesInv
<1>9. AnswersInv'
  BY <1>1 DEF QInv, AnswersInv, AnswerReachesAsker
<1>10. NothingStranded'
  BY <1>1 DEF QInv, NothingStranded
<1> QED BY <1>5, <1>6, <1>7, <1>8, <1>9, <1>10 DEF QInv

LEMMA ForwardStep ==
  ASSUME QInv, NEW ask \in inbound, ForwardServerRequest(ask)
  PROVE  QInv'
<1> DEFINE id == [account |-> ask.account, seq |-> sequence + 1]
           new == [id |-> id, ask |-> ask]
           entry == [id |-> id, account |-> ask.account, original |-> ask.original]
<1>1. ask \in Asks /\ sequence \in Nat /\ MaxAsks \in Nat /\ sequence < MaxAsks
      /\ ask.account \in Accounts /\ ask.original \in Originals
  BY AskAssumption DEF QInv, TypeOK, ForwardServerRequest, Asks
<1>2. /\ id \in NewIds /\ id.seq = sequence + 1
      /\ new \in Shown /\ new.id = id /\ new.ask = ask
      /\ entry \in Entries /\ entry.id = id
      /\ entry.account = ask.account /\ entry.original = ask.original
  BY <1>1 DEF NewIds, Numbers, Shown, Entries
<1>3. /\ inbound' = inbound \ {ask} /\ sequence' = sequence + 1
      /\ routes' = {e \in routes : e.id # id} \cup {entry}
      /\ shown' = shown \cup {new}
      /\ UNCHANGED <<running, made, open, answers>>
  BY DEF ForwardServerRequest, Stored
<1> HIDE DEF id, new, entry
<1>4. \A s \in shown : s.id # id /\ s.ask # ask /\ s.id.seq \in Nat
  BY <1>1, <1>2, AskAssumption DEF QInv, TypeOK, NumbersInv, ShownInv, Shown, NewIds, Numbers
<1>5. \A e \in routes : e.id # id
  BY <1>4 DEF QInv, RoutesInv
<1>6. routes' = routes \cup {entry}
  BY <1>3, <1>5
<1>7. \A m \in answers : m.ask # ask
  BY <1>4 DEF QInv, AnswersInv
<1>8. TypeOK'
  BY <1>1, <1>2, <1>3, <1>6 DEF QInv, TypeOK
<1>9. NumbersInv'
  <2>1. ask.number <= made
    BY DEF QInv, NumbersInv
  <2>2. \A s \in shown : s.ask.number <= made /\ s.id.seq <= sequence + 1
    BY <1>1, <1>4 DEF QInv, NumbersInv
  <2>3. \A x \in open \cup inbound : x.number <= made
    BY DEF QInv, NumbersInv
  <2> QED BY <1>1, <1>2, <1>3, <2>1, <2>2, <2>3 DEF NumbersInv
<1>10. OpenInv'
  BY <1>3 DEF QInv, OpenInv
<1>11. ShownInv'
  BY <1>2, <1>3, <1>4 DEF QInv, ShownInv
<1>12. RoutesInv'
  <2>1. \A e1, e2 \in routes' : e1.id = e2.id => e1 = e2
    BY <1>2, <1>5, <1>6 DEF QInv, RoutesInv
  <2>2. ask.account \in running => ask \in open
    BY DEF QInv, OpenInv
  <2> QED BY <1>2, <1>3, <1>6, <1>7, <2>1, <2>2 DEF QInv, RoutesInv
<1>13. AnswersInv'
  BY <1>3 DEF QInv, AnswersInv, AnswerReachesAsker
<1>14. NothingStranded'
  BY <1>2, <1>3, <1>6 DEF QInv, NothingStranded
<1> QED BY <1>8, <1>9, <1>10, <1>11, <1>12, <1>13, <1>14 DEF QInv

LEMMA AnswerStep ==
  ASSUME QInv, NEW s \in shown, HandleServerRequestResponse(s)
  PROVE  QInv'
<1>1. PICK e \in routes :
        /\ e.id = s.id
        /\ routes' = routes \ {e}
        /\ answers' = IF e.account \in running
                        THEN answers \cup {[account |-> e.account, original |-> e.original, ask |-> s.ask]}
                        ELSE answers
  BY DEF HandleServerRequestResponse
<1>2. UNCHANGED <<running, made, open, inbound, sequence, shown>>
  BY DEF HandleServerRequestResponse
<1> DEFINE new == [account |-> e.account, original |-> e.original, ask |-> s.ask]
<1>3. new \in Answers /\ new.account = e.account /\ new.original = e.original /\ new.ask = s.ask
  BY DEF QInv, TypeOK, Entries, Shown, Answers
<1>4. answers' = IF e.account \in running THEN answers \cup {new} ELSE answers
  BY <1>1
<1> HIDE DEF new
<1>5. /\ e.account = s.ask.account /\ e.original = s.ask.original
      /\ s.ask.account \in running => s.ask \in open
      /\ \A m \in answers : m.ask # s.ask
  BY <1>1 DEF QInv, RoutesInv, ShownInv
<1>6. TypeOK'
  BY <1>1, <1>2, <1>3, <1>4 DEF QInv, TypeOK
<1>7. NumbersInv' /\ OpenInv' /\ ShownInv'
  BY <1>2 DEF QInv, NumbersInv, OpenInv, ShownInv
<1>8. RoutesInv'
  <2>1. ASSUME NEW f \in routes'
        PROVE  \E t \in shown' :
                 /\ t.id = f.id
                 /\ f.account = t.ask.account /\ f.original = t.ask.original
                 /\ t.ask.account \in running' => t.ask \in open'
                 /\ \A m \in answers' : m.ask # t.ask
    <3>1. f \in routes /\ f # e /\ f.id # e.id
      BY <1>1, <2>1 DEF QInv, RoutesInv
    <3>2. PICK t \in shown :
            /\ t.id = f.id
            /\ f.account = t.ask.account /\ f.original = t.ask.original
            /\ t.ask.account \in running => t.ask \in open
            /\ \A m \in answers : m.ask # t.ask
      BY <3>1 DEF QInv, RoutesInv
    <3>3. t.ask # s.ask
      BY <1>1, <3>1, <3>2 DEF QInv, ShownInv
    <3>4. \A m \in answers' : m.ask # t.ask
      BY <1>3, <1>4, <3>2, <3>3
    <3> QED BY <1>2, <3>2, <3>4
  <2> QED BY <1>1, <2>1 DEF QInv, RoutesInv
<1>9. AnswersInv'
  BY <1>2, <1>3, <1>4, <1>5 DEF QInv, AnswersInv, AnswerReachesAsker
<1>10. NothingStranded'
  <2> SUFFICES ASSUME NEW ask \in open
               PROVE  \/ ask \in inbound
                      \/ \E t \in shown, f \in routes' :
                           /\ t.ask = ask /\ f.id = t.id
                           /\ f.account = ask.account /\ f.original = ask.original
                      \/ \E m \in answers' : m.ask = ask
    BY <1>2 DEF NothingStranded
  <2>1. CASE ask = s.ask
    <3>1. e.account \in running
      BY <1>5, <2>1 DEF QInv, OpenInv
    <3> QED BY <1>3, <1>4, <2>1, <3>1
  <2>2. CASE ask # s.ask
    BY <1>1, <1>4, <2>2 DEF QInv, NothingStranded, ShownInv
  <2> QED BY <2>1, <2>2
<1> QED BY <1>6, <1>7, <1>8, <1>9, <1>10 DEF QInv

LEMMA TakeStep ==
  ASSUME QInv, NEW m \in answers, TakeAnswer(m)
  PROVE  QInv'
<1>1. /\ answers' = answers \ {m}
      /\ open' = {ask \in open : ask.account # m.account \/ ask.original # m.original}
      /\ UNCHANGED <<running, made, inbound, sequence, routes, shown>>
  BY DEF TakeAnswer
<1>2. m.ask \in open /\ m.account = m.ask.account /\ m.original = m.ask.original
  BY DEF QInv, AnswersInv, AnswerReachesAsker
<1>3. open' = open \ {m.ask}
  BY <1>1, <1>2 DEF QInv, OpenInv
<1>4. PICK s \in shown : s.ask = m.ask
  BY DEF QInv, AnswersInv
<1>5. m.ask \notin inbound
  BY <1>4 DEF QInv, ShownInv
<1>6. \A n \in answers : n.ask = m.ask => n = m
  BY DEF QInv, TypeOK, Answers, AnswersInv, AnswerReachesAsker
<1>7. TypeOK' /\ NumbersInv' /\ OpenInv' /\ ShownInv'
  BY <1>1, <1>3, <1>5 DEF QInv, TypeOK, NumbersInv, OpenInv, ShownInv
<1>8. RoutesInv'
  BY <1>1, <1>3 DEF QInv, RoutesInv
<1>9. AnswersInv'
  BY <1>1, <1>3, <1>6 DEF QInv, AnswersInv, AnswerReachesAsker
<1>10. NothingStranded'
  BY <1>1, <1>3 DEF QInv, NothingStranded
<1> QED BY <1>7, <1>8, <1>9, <1>10 DEF QInv

LEMMA ExitStep ==
  ASSUME QInv, NEW a \in Accounts, Exit(a)
  PROVE  QInv'
<1>1. /\ running' = running \ {a}
      /\ open' = {ask \in open : ask.account # a}
      /\ answers' = {m \in answers : m.account # a}
      /\ UNCHANGED <<made, inbound, sequence, routes, shown>>
  BY DEF Exit
<1>2. TypeOK' /\ NumbersInv' /\ OpenInv' /\ ShownInv'
  BY <1>1 DEF QInv, TypeOK, NumbersInv, OpenInv, ShownInv
<1>3. RoutesInv'
  BY <1>1 DEF QInv, RoutesInv
<1>4. AnswersInv'
  BY <1>1 DEF QInv, AnswersInv, AnswerReachesAsker
<1>5. NothingStranded'
  BY <1>1 DEF QInv, NothingStranded, AnswersInv, AnswerReachesAsker
<1> QED BY <1>2, <1>3, <1>4, <1>5 DEF QInv

LEMMA QInvHolds == Spec => []QInv
<1>1. Init => QInv
  BY AskAssumption DEF Init, QInv, TypeOK, NumbersInv, OpenInv, ShownInv, RoutesInv,
     AnswersInv, AnswerReachesAsker, NothingStranded
<1>2. QInv /\ [Next]_vars => QInv'
  <2>1. CASE Next
    BY <2>1, AskStep, ForwardStep, AnswerStep, TakeStep, ExitStep DEF Next
  <2>2. CASE UNCHANGED vars
    BY <2>2 DEF vars, QInv, TypeOK, NumbersInv, OpenInv, ShownInv, RoutesInv,
       AnswersInv, AnswerReachesAsker, NothingStranded
  <2> QED BY <2>1, <2>2
<1> QED BY <1>1, <1>2, PTL DEF Spec

(* An answer from the client goes to the app-server that asked, for the     *)
(* request it has open, however many app-servers use the same ids.          *)
THEOREM AnswersCorrect == Spec => []AnswerReachesAsker
<1>1. QInv => AnswerReachesAsker
  BY DEF QInv, AnswersInv
<1> QED BY <1>1, QInvHolds, PTL

(* Every request, route and answer has its type, and no more requests are   *)
(* numbered than were made.                                                 *)
THEOREM AskTypes == Spec => []TypeOK
<1>1. QInv => TypeOK
  BY DEF QInv
<1> QED BY <1>1, QInvHolds, PTL

(* While an app-server runs and waits, its request or its answer is on the  *)
(* way, or the client has it and the mux knows whose it is.                 *)
THEOREM AsksNeverStranded == Spec => []NothingStranded
<1>1. QInv => NothingStranded
  BY DEF QInv
<1> QED BY <1>1, QInvHolds, PTL
=============================================================================
