------------------------------- MODULE PoolProofs -------------------------------
(* Proofs about ChildPool, for any accounts and any of them original.       *)
EXTENDS ChildPool, SequenceTheorems, TLAPS

(* How far the fan-outs are, and what the mux remembers of the client.      *)
PhasesInv ==
  /\ client = "new" <=> initer = "none"
  /\ client \in {"ready", "refused", "over"} <=> initer = "done"
  /\ client = "over" <=> noticer # "none"
  /\ params <=> initer \notin {"none", "set"}
  /\ flag <=> noticer # "none"
  /\ initer # "ask" => todo = {} /\ asking = None
  /\ noticer # "tell" => toTell = {}

(* startChild: whom the pool holds by then, and what has been said to them. *)
JoinInv == \A a \in Accounts :
  /\ adder[a] \in {"none", "start", "map"} => a \notin children
  /\ adder[a] \in {"read", "ask", "await"} => a \in children
  /\ a \notin children => got[a] = <<>>
  /\ adder[a] = "await" /\ a \in running => Told(a, "initialize")
  /\ a \in Original => adder[a] \in {"done", "failed"} /\ (a \in children => adder[a] = "done")

(* A running child that startChild is through with without asking it was in *)
(* the pool when the fan-out of initialize listed it, ...                   *)
AskedInv ==
  initer \in {"ask", "done"} =>
    \A a \in children \cap running :
      adder[a] = "done" => a \in todo \ {asking} \/ Told(a, "initialize")

(* ... and one that startChild will not tell that the client is through was *)
(* there when the stdin loop listed whom to tell.                           *)
LeftToNotice(a) == adder[a] = "done" \/ (adder[a] \in {"ask", "await"} /\ ~readFlag[a])
ToldInv ==
  noticer \in {"tell", "done"} =>
    \A a \in children \cap running :
      LeftToNotice(a) => a \in toTell \/ Told(a, "initialized")

OriginalInv == \A a \in Original :
  /\ initer \in {"none", "set", "list"} \/ a \in todo \ {asking} => got[a] = <<>>
  /\ noticer \in {"none", "list"} \/ a \in toTell => got[a] \in {<<>>, <<"initialize">>}

SettledInv ==
  /\ settled # {} => noticer = "done"
  /\ \A a \in settled :
       /\ a \notin Original /\ adder[a] # "none"
       /\ adder[a] \in {"start", "map", "read", "ask"} => got[a] = <<>>
       /\ adder[a] = "await" => got[a] \in {<<>>, <<"initialize">>}

PInv ==
  /\ TypeOK /\ PhasesInv /\ JoinInv /\ AskedInv /\ ToldInv /\ OriginalInv /\ SettledInv
  /\ HandshakeInOrder
-----------------------------------------------------------------------------
(* What is written to a child is added to what it was told.                 *)

LEMMA OneMore ==
  ASSUME NEW W, NEW first \in W, NEW what \in W
  PROVE  /\ Append(<<>>, what) = <<what>>
         /\ Append(<<first>>, what) = <<first, what>>
<1> DEFINE one == <<first>>
           two == <<first, what>>
<1>1. /\ <<>> \in Seq(W) /\ Len(<<>>) = 0
      /\ <<what>> \in Seq(W) /\ Len(<<what>>) = 1 /\ <<what>>[1] = what
      /\ one \in Seq(W) /\ Len(one) = 1 /\ one[1] = first
      /\ two \in Seq(W) /\ Len(two) = 2 /\ two[1] = first /\ two[2] = what
  OBVIOUS
<1>2. Append(<<>>, what) = <<what>>
  <2>1. /\ Append(<<>>, what) \in Seq(W) /\ Len(Append(<<>>, what)) = 1
        /\ Append(<<>>, what)[1] = what
    BY <1>1, AppendProperties
  <2> QED BY <1>1, <2>1, SeqEqual
<1> HIDE DEF one, two
<1>3. Append(one, what) = two
  <2>1. /\ Append(one, what) \in Seq(W) /\ Len(Append(one, what)) = 2
        /\ Append(one, what)[1] = first /\ Append(one, what)[2] = what
    <3> DEFINE more == Append(one, what)
    <3>1. one \in Seq(W)
      BY <1>1
    <3>2. /\ more \in Seq(W) /\ Len(more) = Len(one) + 1
          /\ \A i \in 1 .. Len(one) : more[i] = one[i]
          /\ more[Len(one) + 1] = what
      BY <3>1, AppendProperties
    <3> HIDE DEF more
    <3>3. 1 \in 1 .. Len(one) /\ Len(one) + 1 = 2
      BY <1>1
    <3>4. more \in Seq(W) /\ Len(more) = 2 /\ more[1] = first /\ more[2] = what
      BY <1>1, <3>2, <3>3
    <3> QED BY <3>4 DEF more
  <2> QED BY <1>1, <2>1, SeqEqual
<1> QED BY <1>2, <1>3 DEF one, two

LEMMA Sent ==
  ASSUME TypeOK, NEW a \in Accounts, NEW what \in {"initialize", "initialized"}, SendTo(a, what)
  PROVE  /\ got' \in [Accounts -> Seq({"initialize", "initialized"})]
         /\ \A b \in Accounts : b # a => got'[b] = got[b]
         /\ a \notin running => got'[a] = got[a]
         /\ a \in running => /\ got'[a] = Append(got[a], what) /\ Told(a, what)'
                             /\ got[a] = <<>> => got'[a] = <<what>>
                             /\ got[a] = <<"initialize">> => got'[a] = <<"initialize", what>>
         /\ \A b \in Accounts : \A x : Told(b, x) => Told(b, x)'
<1>1. CASE a \notin running
  BY <1>1 DEF SendTo, TypeOK, Told
<1>2. CASE a \in running
  <2> DEFINE s == Append(got[a], what)
  <2>1. got' = [got EXCEPT ![a] = s] /\ got \in [Accounts -> Seq({"initialize", "initialized"})]
    BY <1>2 DEF SendTo, TypeOK
  <2>2. /\ s \in Seq({"initialize", "initialized"}) /\ Len(s) = Len(got[a]) + 1 /\ Len(got[a]) \in Nat
        /\ s[Len(s)] = what /\ \A i \in 1 .. Len(got[a]) : s[i] = got[a][i]
        /\ DOMAIN s = 1 .. Len(s) /\ DOMAIN got[a] = 1 .. Len(got[a])
    BY <2>1, AppendProperties
  <2>3. /\ got[a] = <<>> => s = <<what>>
        /\ got[a] = <<"initialize">> => s = <<"initialize", what>>
    BY OneMore
  <2> HIDE DEF s
  <2>4. got'[a] = s /\ \A b \in Accounts : b # a => got'[b] = got[b]
    BY <2>1
  <2>5. Len(s) \in DOMAIN s /\ \A i \in DOMAIN got[a] : i \in DOMAIN s /\ s[i] = got[a][i]
    BY <2>2
  <2>6. Told(a, what)' /\ \A b \in Accounts : \A x : Told(b, x) => Told(b, x)'
    BY <2>2, <2>4, <2>5 DEF Told
  <2>7. got' \in [Accounts -> Seq({"initialize", "initialized"})]
    BY <2>1, <2>2
  <2> QED BY <1>2, <2>3, <2>4, <2>6, <2>7 DEF s
<1> QED BY <1>1, <1>2

(* What has been told when no line is written.                              *)
LEMMA NothingSent == UNCHANGED got => \A b, x : Told(b, x)' <=> Told(b, x)
  BY DEF Told

LEMMA ClientInitializeKeeps ==
  ASSUME PInv, ClientInitialize
  PROVE  PInv'
<1>1. /\ children \subseteq Accounts /\ running \subseteq Accounts /\ None \notin Accounts
      /\ adder \in [Accounts -> {"none", "start", "map", "read", "ask", "await", "done", "failed"}]
      /\ readFlag \in [Accounts -> BOOLEAN] /\ Original \subseteq Accounts /\ settled \subseteq Accounts
  BY PoolAssumption DEF ClientInitialize, PInv, TypeOK, fanout, notice, adding, PhasesInv
<1>2. \A b, x : Told(b, x)' <=> Told(b, x)
  BY NothingSent DEF ClientInitialize
<1>3. TypeOK'
  BY <1>1, <1>2 DEF ClientInitialize, fanout, notice, adding, PInv, TypeOK
<1>4. PhasesInv'
  BY <1>1, <1>2 DEF ClientInitialize, fanout, notice, adding, PInv, PhasesInv
<1>5. JoinInv'
  BY <1>1, <1>2 DEF ClientInitialize, fanout, notice, adding, PInv, JoinInv
<1>6. AskedInv'
  BY <1>1, <1>2 DEF ClientInitialize, fanout, notice, adding, PInv, AskedInv
<1>7. ToldInv'
  BY <1>1, <1>2 DEF ClientInitialize, fanout, notice, adding, PInv, ToldInv, LeftToNotice
<1>8. OriginalInv'
  BY <1>1, <1>2 DEF ClientInitialize, fanout, notice, adding, PInv, OriginalInv, PhasesInv
<1>9. SettledInv'
  BY <1>1, <1>2 DEF ClientInitialize, fanout, notice, adding, PInv, SettledInv
<1>10. HandshakeInOrder'
  BY <1>1, <1>2 DEF ClientInitialize, fanout, notice, adding, PInv, HandshakeInOrder
<1> QED BY <1>3, <1>4, <1>5, <1>6, <1>7, <1>8, <1>9, <1>10 DEF PInv

LEMMA SetParamsKeeps ==
  ASSUME PInv, SetParams
  PROVE  PInv'
<1>1. /\ children \subseteq Accounts /\ running \subseteq Accounts /\ None \notin Accounts
      /\ adder \in [Accounts -> {"none", "start", "map", "read", "ask", "await", "done", "failed"}]
      /\ readFlag \in [Accounts -> BOOLEAN] /\ Original \subseteq Accounts /\ settled \subseteq Accounts
  BY PoolAssumption DEF SetParams, PInv, TypeOK, fanout, notice, adding, PhasesInv
<1>2. \A b, x : Told(b, x)' <=> Told(b, x)
  BY NothingSent DEF SetParams
<1>3. TypeOK'
  BY <1>1, <1>2 DEF SetParams, fanout, notice, adding, PInv, TypeOK
<1>4. PhasesInv'
  BY <1>1, <1>2 DEF SetParams, fanout, notice, adding, PInv, PhasesInv
<1>5. JoinInv'
  BY <1>1, <1>2 DEF SetParams, fanout, notice, adding, PInv, JoinInv
<1>6. AskedInv'
  BY <1>1, <1>2 DEF SetParams, fanout, notice, adding, PInv, AskedInv
<1>7. ToldInv'
  BY <1>1, <1>2 DEF SetParams, fanout, notice, adding, PInv, ToldInv, LeftToNotice
<1>8. OriginalInv'
  BY <1>1, <1>2 DEF SetParams, fanout, notice, adding, PInv, OriginalInv
<1>9. SettledInv'
  BY <1>1, <1>2 DEF SetParams, fanout, notice, adding, PInv, SettledInv
<1>10. HandshakeInOrder'
  BY <1>1, <1>2 DEF SetParams, fanout, notice, adding, PInv, HandshakeInOrder
<1> QED BY <1>3, <1>4, <1>5, <1>6, <1>7, <1>8, <1>9, <1>10 DEF PInv

LEMMA ListChildrenKeeps ==
  ASSUME PInv, ListChildren
  PROVE  PInv'
<1>1. /\ children \subseteq Accounts /\ running \subseteq Accounts /\ None \notin Accounts
      /\ adder \in [Accounts -> {"none", "start", "map", "read", "ask", "await", "done", "failed"}]
      /\ readFlag \in [Accounts -> BOOLEAN] /\ Original \subseteq Accounts /\ settled \subseteq Accounts
  BY PoolAssumption DEF ListChildren, PInv, TypeOK, fanout, notice, adding, PhasesInv
<1>2. \A b, x : Told(b, x)' <=> Told(b, x)
  BY NothingSent DEF ListChildren
<1>3. TypeOK'
  BY <1>1, <1>2 DEF ListChildren, fanout, notice, adding, PInv, TypeOK
<1>4. PhasesInv'
  BY <1>1, <1>2 DEF ListChildren, fanout, notice, adding, PInv, PhasesInv
<1>5. JoinInv'
  BY <1>1, <1>2 DEF ListChildren, fanout, notice, adding, PInv, JoinInv
<1>6. AskedInv'
  BY <1>1, <1>2 DEF ListChildren, fanout, notice, adding, PInv, AskedInv, PhasesInv
<1>7. ToldInv'
  BY <1>1, <1>2 DEF ListChildren, fanout, notice, adding, PInv, ToldInv, LeftToNotice
<1>8. OriginalInv'
  BY <1>1, <1>2 DEF ListChildren, fanout, notice, adding, PInv, OriginalInv
<1>9. SettledInv'
  BY <1>1, <1>2 DEF ListChildren, fanout, notice, adding, PInv, SettledInv
<1>10. HandshakeInOrder'
  BY <1>1, <1>2 DEF ListChildren, fanout, notice, adding, PInv, HandshakeInOrder
<1> QED BY <1>3, <1>4, <1>5, <1>6, <1>7, <1>8, <1>9, <1>10 DEF PInv

LEMMA AnswerClientKeeps ==
  ASSUME PInv, AnswerClient
  PROVE  PInv'
<1>1. /\ children \subseteq Accounts /\ running \subseteq Accounts /\ None \notin Accounts
      /\ adder \in [Accounts -> {"none", "start", "map", "read", "ask", "await", "done", "failed"}]
      /\ readFlag \in [Accounts -> BOOLEAN] /\ Original \subseteq Accounts /\ settled \subseteq Accounts
  BY PoolAssumption DEF AnswerClient, PInv, TypeOK, fanout, notice, adding, PhasesInv
<1>2. \A b, x : Told(b, x)' <=> Told(b, x)
  BY NothingSent DEF AnswerClient
<1>3. TypeOK'
  BY <1>1, <1>2 DEF AnswerClient, fanout, notice, adding, PInv, TypeOK
<1>4. PhasesInv'
  BY <1>1, <1>2 DEF AnswerClient, fanout, notice, adding, PInv, PhasesInv, TypeOK
<1>5. JoinInv'
  BY <1>1, <1>2 DEF AnswerClient, fanout, notice, adding, PInv, JoinInv
<1>6. AskedInv'
  BY <1>1, <1>2 DEF AnswerClient, fanout, notice, adding, PInv, AskedInv
<1>7. ToldInv'
  BY <1>1, <1>2 DEF AnswerClient, fanout, notice, adding, PInv, ToldInv, LeftToNotice
<1>8. OriginalInv'
  BY <1>1, <1>2 DEF AnswerClient, fanout, notice, adding, PInv, OriginalInv
<1>9. SettledInv'
  BY <1>1, <1>2 DEF AnswerClient, fanout, notice, adding, PInv, SettledInv
<1>10. HandshakeInOrder'
  BY <1>1, <1>2 DEF AnswerClient, fanout, notice, adding, PInv, HandshakeInOrder
<1> QED BY <1>3, <1>4, <1>5, <1>6, <1>7, <1>8, <1>9, <1>10 DEF PInv

LEMMA ClientInitializedKeeps ==
  ASSUME PInv, ClientInitialized
  PROVE  PInv'
<1>1. /\ children \subseteq Accounts /\ running \subseteq Accounts /\ None \notin Accounts
      /\ adder \in [Accounts -> {"none", "start", "map", "read", "ask", "await", "done", "failed"}]
      /\ readFlag \in [Accounts -> BOOLEAN] /\ Original \subseteq Accounts /\ settled \subseteq Accounts
  BY PoolAssumption DEF ClientInitialized, PInv, TypeOK, fanout, notice, adding, PhasesInv
<1>2. \A b, x : Told(b, x)' <=> Told(b, x)
  BY NothingSent DEF ClientInitialized
<1>3. TypeOK'
  BY <1>1, <1>2 DEF ClientInitialized, fanout, notice, adding, PInv, TypeOK
<1>4. PhasesInv'
  BY <1>1, <1>2 DEF ClientInitialized, fanout, notice, adding, PInv, PhasesInv
<1>5. JoinInv'
  BY <1>1, <1>2 DEF ClientInitialized, fanout, notice, adding, PInv, JoinInv
<1>6. AskedInv'
  BY <1>1, <1>2 DEF ClientInitialized, fanout, notice, adding, PInv, AskedInv
<1>7. ToldInv'
  BY <1>1, <1>2 DEF ClientInitialized, fanout, notice, adding, PInv, ToldInv, LeftToNotice
<1>8. OriginalInv'
  BY <1>1, <1>2 DEF ClientInitialized, fanout, notice, adding, PInv, OriginalInv, PhasesInv
<1>9. SettledInv'
  BY <1>1, <1>2 DEF ClientInitialized, fanout, notice, adding, PInv, SettledInv, PhasesInv
<1>10. HandshakeInOrder'
  BY <1>1, <1>2 DEF ClientInitialized, fanout, notice, adding, PInv, HandshakeInOrder
<1> QED BY <1>3, <1>4, <1>5, <1>6, <1>7, <1>8, <1>9, <1>10 DEF PInv

LEMMA ListToTellKeeps ==
  ASSUME PInv, ListToTell
  PROVE  PInv'
<1>1. /\ children \subseteq Accounts /\ running \subseteq Accounts /\ None \notin Accounts
      /\ adder \in [Accounts -> {"none", "start", "map", "read", "ask", "await", "done", "failed"}]
      /\ readFlag \in [Accounts -> BOOLEAN] /\ Original \subseteq Accounts /\ settled \subseteq Accounts
  BY PoolAssumption DEF ListToTell, PInv, TypeOK, fanout, notice, adding, PhasesInv
<1>2. \A b, x : Told(b, x)' <=> Told(b, x)
  BY NothingSent DEF ListToTell
<1>3. TypeOK'
  BY <1>1, <1>2 DEF ListToTell, fanout, notice, adding, PInv, TypeOK
<1>4. PhasesInv'
  BY <1>1, <1>2 DEF ListToTell, fanout, notice, adding, PInv, PhasesInv
<1>5. JoinInv'
  BY <1>1, <1>2 DEF ListToTell, fanout, notice, adding, PInv, JoinInv
<1>6. AskedInv'
  BY <1>1, <1>2 DEF ListToTell, fanout, notice, adding, PInv, AskedInv
<1>7. ToldInv'
  BY <1>1, <1>2 DEF ListToTell, fanout, notice, adding, PInv, ToldInv, LeftToNotice
<1>8. OriginalInv'
  BY <1>1, <1>2 DEF ListToTell, fanout, notice, adding, PInv, OriginalInv
<1>9. SettledInv'
  BY <1>1, <1>2 DEF ListToTell, fanout, notice, adding, PInv, SettledInv
<1>10. HandshakeInOrder'
  BY <1>1, <1>2 DEF ListToTell, fanout, notice, adding, PInv, HandshakeInOrder
<1> QED BY <1>3, <1>4, <1>5, <1>6, <1>7, <1>8, <1>9, <1>10 DEF PInv

LEMMA AllToldKeeps ==
  ASSUME PInv, AllTold
  PROVE  PInv'
<1>1. /\ children \subseteq Accounts /\ running \subseteq Accounts /\ None \notin Accounts
      /\ adder \in [Accounts -> {"none", "start", "map", "read", "ask", "await", "done", "failed"}]
      /\ readFlag \in [Accounts -> BOOLEAN] /\ Original \subseteq Accounts /\ settled \subseteq Accounts
  BY PoolAssumption DEF AllTold, PInv, TypeOK, fanout, notice, adding, PhasesInv
<1>2. \A b, x : Told(b, x)' <=> Told(b, x)
  BY NothingSent DEF AllTold
<1>3. TypeOK'
  BY <1>1, <1>2 DEF AllTold, fanout, notice, adding, PInv, TypeOK
<1>4. PhasesInv'
  BY <1>1, <1>2 DEF AllTold, fanout, notice, adding, PInv, PhasesInv
<1>5. JoinInv'
  BY <1>1, <1>2 DEF AllTold, fanout, notice, adding, PInv, JoinInv
<1>6. AskedInv'
  BY <1>1, <1>2 DEF AllTold, fanout, notice, adding, PInv, AskedInv
<1>7. ToldInv'
  BY <1>1, <1>2 DEF AllTold, fanout, notice, adding, PInv, ToldInv, LeftToNotice
<1>8. OriginalInv'
  BY <1>1, <1>2 DEF AllTold, fanout, notice, adding, PInv, OriginalInv
<1>9. SettledInv'
  BY <1>1, <1>2 DEF AllTold, fanout, notice, adding, PInv, SettledInv
<1>10. HandshakeInOrder'
  BY <1>1, <1>2 DEF AllTold, fanout, notice, adding, PInv, HandshakeInOrder
<1> QED BY <1>3, <1>4, <1>5, <1>6, <1>7, <1>8, <1>9, <1>10 DEF PInv

LEMMA ChildAnswersKeeps ==
  ASSUME PInv, NEW ok \in BOOLEAN, ChildAnswers(ok)
  PROVE  PInv'
<1>1. /\ children \subseteq Accounts /\ running \subseteq Accounts /\ None \notin Accounts
      /\ adder \in [Accounts -> {"none", "start", "map", "read", "ask", "await", "done", "failed"}]
      /\ readFlag \in [Accounts -> BOOLEAN] /\ Original \subseteq Accounts /\ settled \subseteq Accounts
  BY PoolAssumption DEF ChildAnswers, PInv, TypeOK, fanout, notice, adding, PhasesInv
<1>2. \A b, x : Told(b, x)' <=> Told(b, x)
  BY NothingSent DEF ChildAnswers
<1>3. TypeOK'
  BY <1>1, <1>2 DEF ChildAnswers, fanout, notice, adding, PInv, TypeOK
<1>4. PhasesInv'
  BY <1>1, <1>2 DEF ChildAnswers, fanout, notice, adding, PInv, PhasesInv
<1>5. JoinInv'
  BY <1>1, <1>2 DEF ChildAnswers, fanout, notice, adding, PInv, JoinInv
<1>6. AskedInv'
  BY <1>1, <1>2 DEF ChildAnswers, fanout, notice, adding, PInv, AskedInv
<1>7. ToldInv'
  BY <1>1, <1>2 DEF ChildAnswers, fanout, notice, adding, PInv, ToldInv, LeftToNotice
<1>8. OriginalInv'
  BY <1>1, <1>2 DEF ChildAnswers, fanout, notice, adding, PInv, OriginalInv
<1>9. SettledInv'
  BY <1>1, <1>2 DEF ChildAnswers, fanout, notice, adding, PInv, SettledInv
<1>10. HandshakeInOrder'
  BY <1>1, <1>2 DEF ChildAnswers, fanout, notice, adding, PInv, HandshakeInOrder
<1> QED BY <1>3, <1>4, <1>5, <1>6, <1>7, <1>8, <1>9, <1>10 DEF PInv

LEMMA AddAccountKeeps ==
  ASSUME PInv, NEW a \in Accounts, AddAccount(a)
  PROVE  PInv'
<1>1. /\ children \subseteq Accounts /\ running \subseteq Accounts /\ None \notin Accounts
      /\ adder \in [Accounts -> {"none", "start", "map", "read", "ask", "await", "done", "failed"}]
      /\ readFlag \in [Accounts -> BOOLEAN] /\ Original \subseteq Accounts /\ settled \subseteq Accounts
  BY PoolAssumption DEF AddAccount, PInv, TypeOK, fanout, notice, adding, PhasesInv
<1>2. \A b, x : Told(b, x)' <=> Told(b, x)
  BY NothingSent DEF AddAccount
<1>3. TypeOK'
  BY <1>1, <1>2 DEF AddAccount, fanout, notice, adding, PInv, TypeOK
<1>4. PhasesInv'
  BY <1>1, <1>2 DEF AddAccount, fanout, notice, adding, PInv, PhasesInv
<1>5. JoinInv'
  BY <1>1, <1>2 DEF AddAccount, fanout, notice, adding, PInv, JoinInv
<1>6. AskedInv'
  BY <1>1, <1>2 DEF AddAccount, fanout, notice, adding, PInv, AskedInv
<1>7. ToldInv'
  BY <1>1, <1>2 DEF AddAccount, fanout, notice, adding, PInv, ToldInv, LeftToNotice
<1>8. OriginalInv'
  BY <1>1, <1>2 DEF AddAccount, fanout, notice, adding, PInv, OriginalInv
<1>9. SettledInv'
  BY <1>1, <1>2 DEF AddAccount, fanout, notice, adding, PInv, SettledInv, PhasesInv, JoinInv
<1>10. HandshakeInOrder'
  BY <1>1, <1>2 DEF AddAccount, fanout, notice, adding, PInv, HandshakeInOrder, JoinInv
<1> QED BY <1>3, <1>4, <1>5, <1>6, <1>7, <1>8, <1>9, <1>10 DEF PInv

LEMMA StartProcessKeeps ==
  ASSUME PInv, NEW a \in Accounts, NEW ok \in BOOLEAN, StartProcess(a, ok)
  PROVE  PInv'
<1>1. /\ children \subseteq Accounts /\ running \subseteq Accounts /\ None \notin Accounts
      /\ adder \in [Accounts -> {"none", "start", "map", "read", "ask", "await", "done", "failed"}]
      /\ readFlag \in [Accounts -> BOOLEAN] /\ Original \subseteq Accounts /\ settled \subseteq Accounts
  BY PoolAssumption DEF StartProcess, PInv, TypeOK, fanout, notice, adding, PhasesInv
<1>2. \A b, x : Told(b, x)' <=> Told(b, x)
  BY NothingSent DEF StartProcess
<1>3. TypeOK'
  BY <1>1, <1>2 DEF StartProcess, fanout, notice, adding, PInv, TypeOK
<1>4. PhasesInv'
  BY <1>1, <1>2 DEF StartProcess, fanout, notice, adding, PInv, PhasesInv
<1>5. JoinInv'
  BY <1>1, <1>2 DEF StartProcess, fanout, notice, adding, PInv, JoinInv
<1>6. AskedInv'
  BY <1>1, <1>2 DEF StartProcess, fanout, notice, adding, PInv, AskedInv
<1>7. ToldInv'
  BY <1>1, <1>2 DEF StartProcess, fanout, notice, adding, PInv, ToldInv, LeftToNotice
<1>8. OriginalInv'
  BY <1>1, <1>2 DEF StartProcess, fanout, notice, adding, PInv, OriginalInv
<1>9. SettledInv'
  BY <1>1, <1>2 DEF StartProcess, fanout, notice, adding, PInv, SettledInv
<1>10. HandshakeInOrder'
  BY <1>1, <1>2 DEF StartProcess, fanout, notice, adding, PInv, HandshakeInOrder
<1> QED BY <1>3, <1>4, <1>5, <1>6, <1>7, <1>8, <1>9, <1>10 DEF PInv

LEMMA MapChildKeeps ==
  ASSUME PInv, NEW a \in Accounts, MapChild(a)
  PROVE  PInv'
<1>1. /\ children \subseteq Accounts /\ running \subseteq Accounts /\ None \notin Accounts
      /\ adder \in [Accounts -> {"none", "start", "map", "read", "ask", "await", "done", "failed"}]
      /\ readFlag \in [Accounts -> BOOLEAN] /\ Original \subseteq Accounts /\ settled \subseteq Accounts
  BY PoolAssumption DEF MapChild, PInv, TypeOK, fanout, notice, adding, PhasesInv
<1>2. \A b, x : Told(b, x)' <=> Told(b, x)
  BY NothingSent DEF MapChild
<1>3. TypeOK'
  BY <1>1, <1>2 DEF MapChild, fanout, notice, adding, PInv, TypeOK
<1>4. PhasesInv'
  BY <1>1, <1>2 DEF MapChild, fanout, notice, adding, PInv, PhasesInv
<1>5. JoinInv'
  BY <1>1, <1>2 DEF MapChild, fanout, notice, adding, PInv, JoinInv
<1>6. AskedInv'
  BY <1>1, <1>2 DEF MapChild, fanout, notice, adding, PInv, AskedInv
<1>7. ToldInv'
  BY <1>1, <1>2 DEF MapChild, fanout, notice, adding, PInv, ToldInv, LeftToNotice
<1>8. OriginalInv'
  BY <1>1, <1>2 DEF MapChild, fanout, notice, adding, PInv, OriginalInv
<1>9. SettledInv'
  BY <1>1, <1>2 DEF MapChild, fanout, notice, adding, PInv, SettledInv
<1>10. HandshakeInOrder'
  BY <1>1, <1>2 DEF MapChild, fanout, notice, adding, PInv, HandshakeInOrder
<1> QED BY <1>3, <1>4, <1>5, <1>6, <1>7, <1>8, <1>9, <1>10 DEF PInv

LEMMA ReadHandshakeKeeps ==
  ASSUME PInv, NEW a \in Accounts, ReadHandshake(a)
  PROVE  PInv'
<1>1. /\ children \subseteq Accounts /\ running \subseteq Accounts /\ None \notin Accounts
      /\ adder \in [Accounts -> {"none", "start", "map", "read", "ask", "await", "done", "failed"}]
      /\ readFlag \in [Accounts -> BOOLEAN] /\ Original \subseteq Accounts /\ settled \subseteq Accounts
  BY PoolAssumption DEF ReadHandshake, PInv, TypeOK, fanout, notice, adding, PhasesInv
<1>2. \A b, x : Told(b, x)' <=> Told(b, x)
  BY NothingSent DEF ReadHandshake
<1>3. TypeOK'
  BY <1>1, <1>2 DEF ReadHandshake, fanout, notice, adding, PInv, TypeOK
<1>4. PhasesInv'
  BY <1>1, <1>2 DEF ReadHandshake, fanout, notice, adding, PInv, PhasesInv
<1>5. JoinInv'
  BY <1>1, <1>2 DEF ReadHandshake, fanout, notice, adding, PInv, JoinInv
<1>6. AskedInv'
  BY <1>1, <1>2 DEF ReadHandshake, fanout, notice, adding, PInv, AskedInv, PhasesInv
<1>7. ToldInv'
  BY <1>1, <1>2 DEF ReadHandshake, fanout, notice, adding, PInv, ToldInv, LeftToNotice, PhasesInv
<1>8. OriginalInv'
  BY <1>1, <1>2 DEF ReadHandshake, fanout, notice, adding, PInv, OriginalInv
<1>9. SettledInv'
  BY <1>1, <1>2 DEF ReadHandshake, fanout, notice, adding, PInv, SettledInv
<1>10. HandshakeInOrder'
  BY <1>1, <1>2 DEF ReadHandshake, fanout, notice, adding, PInv, HandshakeInOrder
<1> QED BY <1>3, <1>4, <1>5, <1>6, <1>7, <1>8, <1>9, <1>10 DEF PInv

LEMMA ExitKeeps ==
  ASSUME PInv, NEW a \in Accounts, Exit(a)
  PROVE  PInv'
<1>1. /\ children \subseteq Accounts /\ running \subseteq Accounts /\ None \notin Accounts
      /\ adder \in [Accounts -> {"none", "start", "map", "read", "ask", "await", "done", "failed"}]
      /\ readFlag \in [Accounts -> BOOLEAN] /\ Original \subseteq Accounts /\ settled \subseteq Accounts
  BY PoolAssumption DEF Exit, PInv, TypeOK, fanout, notice, adding, PhasesInv
<1>2. \A b, x : Told(b, x)' <=> Told(b, x)
  BY NothingSent DEF Exit
<1>3. TypeOK'
  BY <1>1, <1>2 DEF Exit, fanout, notice, adding, PInv, TypeOK
<1>4. PhasesInv'
  BY <1>1, <1>2 DEF Exit, fanout, notice, adding, PInv, PhasesInv
<1>5. JoinInv'
  BY <1>1, <1>2 DEF Exit, fanout, notice, adding, PInv, JoinInv
<1>6. AskedInv'
  BY <1>1, <1>2 DEF Exit, fanout, notice, adding, PInv, AskedInv
<1>7. ToldInv'
  BY <1>1, <1>2 DEF Exit, fanout, notice, adding, PInv, ToldInv, LeftToNotice
<1>8. OriginalInv'
  BY <1>1, <1>2 DEF Exit, fanout, notice, adding, PInv, OriginalInv
<1>9. SettledInv'
  BY <1>1, <1>2 DEF Exit, fanout, notice, adding, PInv, SettledInv
<1>10. HandshakeInOrder'
  BY <1>1, <1>2 DEF Exit, fanout, notice, adding, PInv, HandshakeInOrder
<1> QED BY <1>3, <1>4, <1>5, <1>6, <1>7, <1>8, <1>9, <1>10 DEF PInv

(* The actions that write to a child.                                       *)

LEMMA AskChildKeeps ==
  ASSUME PInv, NEW a \in Accounts, AskChild(a)
  PROVE  PInv'
<1>1. /\ initer = "ask" /\ asking = None /\ a \in todo /\ asking' = a /\ SendTo(a, "initialize")
      /\ UNCHANGED <<children, running, params, flag, client, initer, todo, accepted, notice, adding>>
      /\ a \in children /\ None \notin Accounts /\ noticer = "none" /\ settled = {}
      /\ Original \subseteq Accounts /\ children \subseteq Accounts
  BY PoolAssumption DEF AskChild, PInv, TypeOK, PhasesInv, SettledInv
<1>2. /\ got' \in [Accounts -> Seq({"initialize", "initialized"})]
      /\ \A b \in Accounts : b # a => got'[b] = got[b]
      /\ a \in running => Told(a, "initialize")'
      /\ got[a] = <<>> => got'[a] \in {<<>>, <<"initialize">>}
      /\ \A b \in Accounts : \A x : Told(b, x) => Told(b, x)'
  BY <1>1, Sent DEF PInv
<1>3. TypeOK'
  BY <1>1, <1>2 DEF PInv, TypeOK, notice, adding
<1>4. PhasesInv'
  BY <1>1 DEF PInv, PhasesInv, notice
<1>5. JoinInv'
  BY <1>1, <1>2 DEF PInv, JoinInv, adding
<1>6. AskedInv'
  BY <1>1, <1>2 DEF PInv, AskedInv, adding
<1>7. ToldInv'
  BY <1>1 DEF ToldInv, notice
<1>8. a \in Original => got[a] = <<>>
  BY <1>1 DEF PInv, OriginalInv
<1>9. OriginalInv'
  BY <1>1, <1>2, <1>8 DEF PInv, OriginalInv, notice
<1>10. SettledInv'
  BY <1>1 DEF SettledInv, adding
<1>11. HandshakeInOrder'
  BY <1>1, <1>2, <1>8 DEF PInv, HandshakeInOrder, adding
<1> QED BY <1>3, <1>4, <1>5, <1>6, <1>7, <1>9, <1>10, <1>11 DEF PInv

LEMMA TellKeeps ==
  ASSUME PInv, NEW a \in Accounts, Tell(a)
  PROVE  PInv'
<1>1. /\ a \in toTell /\ toTell' = toTell \ {a} /\ SendTo(a, "initialized")
      /\ UNCHANGED <<children, running, params, flag, fanout, noticer, adding>>
      /\ a \in children /\ noticer = "tell" /\ initer = "done" /\ settled = {} /\ todo = {}
      /\ Original \subseteq Accounts /\ children \subseteq Accounts
  BY PoolAssumption DEF Tell, PInv, TypeOK, PhasesInv, SettledInv
<1>2. /\ got' \in [Accounts -> Seq({"initialize", "initialized"})]
      /\ \A b \in Accounts : b # a => got'[b] = got[b]
      /\ a \notin running => got'[a] = got[a]
      /\ a \in running => /\ Told(a, "initialized")'
                          /\ got[a] = <<"initialize">> => got'[a] = <<"initialize", "initialized">>
      /\ \A b \in Accounts : \A x : Told(b, x) => Told(b, x)'
  BY <1>1, Sent DEF PInv
<1>3. TypeOK'
  BY <1>1, <1>2 DEF PInv, TypeOK, fanout, adding
<1>4. PhasesInv'
  BY <1>1 DEF PInv, PhasesInv, fanout
<1>5. JoinInv'
  BY <1>1, <1>2 DEF PInv, JoinInv, adding
<1>6. AskedInv'
  BY <1>1, <1>2 DEF PInv, AskedInv, fanout, adding
<1>7. ToldInv'
  BY <1>1, <1>2 DEF PInv, ToldInv, LeftToNotice, adding
<1>8. OriginalInv'
  BY <1>1, <1>2 DEF PInv, OriginalInv, fanout
<1>9. SettledInv'
  BY <1>1 DEF SettledInv, adding
<1>10. a \in Original /\ a \in running => got[a] = <<"initialize">>
  <2>1. a \in Original /\ a \in running => Told(a, "initialize")
    BY <1>1 DEF PInv, JoinInv, AskedInv
  <2> QED BY <1>1, <2>1 DEF PInv, OriginalInv, Told
<1>11. HandshakeInOrder'
  BY <1>1, <1>2, <1>10 DEF PInv, HandshakeInOrder, adding
<1> QED BY <1>3, <1>4, <1>5, <1>6, <1>7, <1>8, <1>9, <1>11 DEF PInv

LEMMA AskAddedKeeps ==
  ASSUME PInv, NEW a \in Accounts, AskAdded(a)
  PROVE  PInv'
<1>1. /\ adder[a] = "ask" /\ adder' = [adder EXCEPT ![a] = "await"] /\ SendTo(a, "initialize")
      /\ UNCHANGED <<children, running, params, flag, fanout, notice, readFlag, settled>>
      /\ a \in children /\ a \notin Original
      /\ adder \in [Accounts -> {"none", "start", "map", "read", "ask", "await", "done", "failed"}]
      /\ Original \subseteq Accounts /\ children \subseteq Accounts /\ settled \subseteq Accounts
  BY PoolAssumption DEF AskAdded, PInv, TypeOK, JoinInv
<1>2. /\ got' \in [Accounts -> Seq({"initialize", "initialized"})]
      /\ \A b \in Accounts : b # a => got'[b] = got[b]
      /\ a \in running => Told(a, "initialize")'
      /\ got[a] = <<>> => got'[a] \in {<<>>, <<"initialize">>}
      /\ \A b \in Accounts : \A x : Told(b, x) => Told(b, x)'
  BY <1>1, Sent DEF PInv
<1>3. TypeOK'
  BY <1>1, <1>2 DEF PInv, TypeOK, fanout, notice
<1>4. PhasesInv'
  BY <1>1 DEF PInv, PhasesInv, fanout, notice
<1>5. JoinInv'
  BY <1>1, <1>2 DEF PInv, JoinInv
<1>6. AskedInv'
  BY <1>1, <1>2 DEF PInv, AskedInv, fanout
<1>7. ToldInv'
  BY <1>1, <1>2 DEF PInv, ToldInv, LeftToNotice, notice
<1>8. OriginalInv'
  BY <1>1, <1>2 DEF PInv, OriginalInv, fanout, notice
<1>9. SettledInv'
  BY <1>1, <1>2 DEF PInv, SettledInv, notice
<1>10. HandshakeInOrder'
  BY <1>1, <1>2 DEF PInv, SettledInv, HandshakeInOrder
<1> QED BY <1>3, <1>4, <1>5, <1>6, <1>7, <1>8, <1>9, <1>10 DEF PInv

LEMMA AddedAnswersKeeps ==
  ASSUME PInv, NEW a \in Accounts, NEW ok \in BOOLEAN, AddedAnswers(a, ok)
  PROVE  PInv'
<1>1. /\ adder[a] = "await" /\ adder' = [adder EXCEPT ![a] = IF ok THEN "done" ELSE "failed"]
      /\ ok => a \in running
      /\ UNCHANGED <<children, running, params, flag, fanout, notice, readFlag, settled>>
      /\ a \in children /\ a \notin Original /\ (a \in running => Told(a, "initialize"))
      /\ adder \in [Accounts -> {"none", "start", "map", "read", "ask", "await", "done", "failed"}]
      /\ readFlag \in [Accounts -> BOOLEAN]
      /\ Original \subseteq Accounts /\ children \subseteq Accounts /\ settled \subseteq Accounts
  BY PoolAssumption DEF AddedAnswers, PInv, TypeOK, JoinInv
<1>2. /\ got' \in [Accounts -> Seq({"initialize", "initialized"})]
      /\ \A b \in Accounts : b # a => got'[b] = got[b]
      /\ ok /\ readFlag[a] => /\ Told(a, "initialized")'
                              /\ got[a] = <<"initialize">> => got'[a] = <<"initialize", "initialized">>
      /\ ~(ok /\ readFlag[a]) => got'[a] = got[a]
      /\ \A b \in Accounts : \A x : Told(b, x) => Told(b, x)'
  <2>1. CASE ok /\ readFlag[a]
    BY <1>1, <2>1, Sent DEF AddedAnswers, PInv
  <2>2. CASE ~(ok /\ readFlag[a])
    BY <2>2, NothingSent DEF AddedAnswers, PInv, TypeOK
  <2> QED BY <2>1, <2>2
<1>3. TypeOK'
  BY <1>1, <1>2 DEF PInv, TypeOK, fanout, notice
<1>4. PhasesInv'
  BY <1>1 DEF PInv, PhasesInv, fanout, notice
<1>5. JoinInv'
  BY <1>1, <1>2 DEF PInv, JoinInv
<1>6. AskedInv'
  BY <1>1, <1>2 DEF PInv, AskedInv, fanout
<1>7. ToldInv'
  BY <1>1, <1>2 DEF PInv, ToldInv, LeftToNotice, notice
<1>8. OriginalInv'
  BY <1>1, <1>2 DEF PInv, OriginalInv, fanout, notice
<1>9. SettledInv'
  BY <1>1, <1>2 DEF PInv, SettledInv, notice
<1>10. HandshakeInOrder'
  <2>1. a \in settled /\ a \in running => got[a] = <<"initialize">>
    BY <1>1 DEF PInv, SettledInv, Told
  <2> QED BY <1>1, <1>2, <2>1 DEF PInv, HandshakeInOrder
<1> QED BY <1>3, <1>4, <1>5, <1>6, <1>7, <1>8, <1>9, <1>10 DEF PInv
-----------------------------------------------------------------------------
(* PInv is inductive.                                                       *)

LEMMA PInvStarts == Init => PInv
<1> SUFFICES ASSUME Init
             PROVE  PInv
  OBVIOUS
<1>1. /\ children \subseteq Original /\ Original \subseteq Accounts /\ None \notin Accounts
      /\ \A a \in Accounts : /\ got[a] = <<>>
                             /\ adder[a] = IF a \in children THEN "done" ELSE
                                           IF a \in Original THEN "failed" ELSE "none"
  BY PoolAssumption DEF Init
<1>2. TypeOK
  <2>1. got \in [Accounts -> Seq({"initialize", "initialized"})]
    BY DEF Init
  <2>2. adder \in [Accounts -> {"none", "start", "map", "read", "ask", "await", "done", "failed"}]
    BY DEF Init
  <2>3. readFlag \in [Accounts -> BOOLEAN]
    BY DEF Init
  <2> QED BY <1>1, <2>1, <2>2, <2>3 DEF Init, TypeOK
<1>3. PhasesInv
  BY DEF Init, PhasesInv
<1>4. JoinInv
  BY <1>1 DEF JoinInv
<1>5. AskedInv /\ ToldInv
  BY DEF Init, AskedInv, ToldInv
<1>6. OriginalInv /\ SettledInv /\ HandshakeInOrder
  BY <1>1 DEF Init, OriginalInv, SettledInv, HandshakeInOrder
<1> QED BY <1>2, <1>3, <1>4, <1>5, <1>6 DEF PInv

LEMMA PInvKept == PInv /\ [Next]_vars => PInv'
<1> SUFFICES ASSUME PInv, [Next]_vars
             PROVE  PInv'
  OBVIOUS
<1>1. CASE ClientInitialize \/ Initialize
  BY <1>1, ClientInitializeKeeps, SetParamsKeeps, ListChildrenKeeps, AnswerClientKeeps, AskChildKeeps,
     ChildAnswersKeeps DEF Initialize
<1>2. CASE ClientInitialized \/ ListToTell \/ AllTold
  BY <1>2, ClientInitializedKeeps, ListToTellKeeps, AllToldKeeps
<1>3. CASE \E a \in Accounts : Tell(a) \/ StartChild(a) \/ Exit(a)
  BY <1>3, TellKeeps, ExitKeeps, AddAccountKeeps, StartProcessKeeps, MapChildKeeps,
     ReadHandshakeKeeps, AskAddedKeeps, AddedAnswersKeeps DEF StartChild
<1>4. CASE UNCHANGED vars
  BY <1>4 DEF vars, fanout, notice, adding, PInv, TypeOK, PhasesInv, JoinInv, AskedInv, ToldInv,
              LeftToNotice, OriginalInv, SettledInv, HandshakeInOrder, Told
<1> QED BY <1>1, <1>2, <1>3, <1>4 DEF Next

LEMMA PInvAlways == Spec => []PInv
  BY PInvStarts, PInvKept, PTL DEF Spec
-----------------------------------------------------------------------------
(* Every variable is of its kind; what a fan-out has still to visit is in   *)
(* the pool.                                                                *)
THEOREM PoolTypes == Spec => []TypeOK
<1>1. PInv => TypeOK
  BY DEF PInv
<1> QED BY <1>1, PInvAlways, PTL

(* However startChild interleaves with the two fan-outs, no child that runs *)
(* is left without initialize or initialized once all three are over.       *)
THEOREM NoChildIsMissed == Spec => []NobodyMissed
<1>1. PInv => NobodyMissed
  BY DEF PInv, NobodyMissed, AskedInv, ToldInv, LeftToNotice, PhasesInv
<1> QED BY <1>1, PInvAlways, PTL

(* A child of the start, or of an account added after the handshake, is     *)
(* told each part once and in order.                                        *)
THEOREM HandshakesKeepOrder == Spec => []HandshakeInOrder
<1>1. PInv => HandshakeInOrder
  BY DEF PInv
<1> QED BY <1>1, PInvAlways, PTL
=============================================================================
