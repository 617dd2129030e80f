-------------------------------- MODULE RpcProofs --------------------------------
(* Proofs about ChildRpc, for any calls, client requests and capacities.    *)
EXTENDS ChildRpc, SequenceTheorems, TLAPS

(* Line `line` carries the id of the call or client request it is from.     *)
Keyed(line) == line = Notice \/ (line.from \in Users /\ line = LineOf(line.from))

(* A pipe: whose lines are in it, that all carry their ids and that no call *)
(* has two.                                                                 *)
Holds(pipe, c) == \E i \in 1 .. Len(pipe) : pipe[i].from = c
Orderly(pipe) ==
  /\ \A i \in 1 .. Len(pipe) : Keyed(pipe[i])
  /\ \A i, j \in 1 .. Len(pipe) : pipe[i].from = pipe[j].from /\ pipe[i].from \in Calls => i = j

Works(c) == \E line \in working : line.from = c
Answered(c) == chan[c] = c \/ result[c] = c
Delivering(c) == reader.at = "deliver" /\ reader.to = c

(* Every call that has begun has an id of its own, drawn from the counter.  *)
KeysInv ==
  /\ \A c \in Calls : pc[c] = "idle" <=> key[c] = None
  /\ \A c \in Calls : key[c] # None => key[c] <= sequence
  /\ \A c, d \in Calls : key[c] = key[d] /\ key[c] # None => c = d

(* What a call has got by each of its steps.                                *)
CallsInv ==
  /\ \A c \in Calls : pc[c] \in {"idle", "send", "write", "wait"} => result[c] = None
  /\ \A c \in Calls : pc[c] = "giveup" => result[c] = Failed
  /\ \A c \in Calls : chan[c] \in {None, Failed, c}
  /\ OwnReply
  /\ \A c \in Calls : pc[c] = "idle" => chan[c] = None
  /\ \A c \in Calls : pc[c] \in {"send", "write"} => chan[c] # c

(* An entry is under the call's id, and nobody has told the call anything.  *)
TableInv ==
  \A i \in Ids : pending[i] # None =>
    /\ key[pending[i]] = i
    /\ chan[pending[i]] = None
    /\ pc[pending[i]] \in {"send", "write", "wait", "giveup"}
    /\ ~Delivering(pending[i])

ReaderInv ==
  /\ reader.at = "read" => reader = Reading
  /\ reader.at = "deliver" => /\ reader.to \in Calls /\ reader.to = reader.line.from
                              /\ chan[reader.to] = None
  /\ Keyed(reader.line)

(* There is one line of a call at most, on its way there or back, and none  *)
(* once it is answered.                                                     *)
LinesInv ==
  /\ Orderly(stdin) /\ Orderly(stdout)
  /\ \A line \in working : Keyed(line)
OnceInv == \A c \in Calls :
  /\ Holds(stdin, c) => ~Works(c) /\ ~Holds(stdout, c) /\ reader.line.from # c
  /\ Works(c) => ~Holds(stdout, c) /\ reader.line.from # c
  /\ Holds(stdout, c) => reader.line.from # c
  /\ Holds(stdin, c) \/ Works(c) \/ Holds(stdout, c) \/ reader.line.from = c =>
       pc[c] \in {"wait", "giveup", "done"} /\ ~Answered(c)

(* A call whose entry is gone has been told, or is about to be.             *)
GoneInv == \A c \in Calls :
  key[c] # None /\ pending[key[c]] # c =>
    result[c] = Failed \/ chan[c] = Failed \/ Answered(c) \/ Delivering(c)

RInv ==
  /\ TypeOK /\ KeysInv /\ CallsInv /\ TableInv /\ ReaderInv /\ LinesInv /\ OnceInv
  /\ GoneInv /\ NoReplyAstray
-----------------------------------------------------------------------------
(* What the pipes do to the lines in them.                                  *)

LEMMA HoldsAppended ==
  ASSUME NEW S, NEW pipe \in Seq(S), NEW line \in S, NEW c
  PROVE  Holds(Append(pipe, line), c) <=> Holds(pipe, c) \/ line.from = c
  BY DEF Holds

LEMMA OrderlyAppended ==
  ASSUME NEW S, NEW pipe \in Seq(S), NEW line \in S, Orderly(pipe), Keyed(line),
         line.from \in Calls => ~Holds(pipe, line.from)
  PROVE  Orderly(Append(pipe, line))
<1> DEFINE p == Append(pipe, line)
<1>1. /\ Len(p) = Len(pipe) + 1 /\ Len(pipe) \in Nat /\ p[Len(pipe) + 1] = line
      /\ \A i \in 1 .. Len(pipe) : p[i] = pipe[i]
  BY AppendProperties
<1>2. \A i \in 1 .. Len(p) : Keyed(p[i])
  BY <1>1 DEF Orderly
<1>3. \A i, j \in 1 .. Len(p) : p[i].from = p[j].from /\ p[i].from \in Calls => i = j
  BY <1>1 DEF Orderly, Holds
<1> QED BY <1>2, <1>3 DEF Orderly

LEMMA HeadTaken ==
  ASSUME NEW S, NEW pipe \in Seq(S), pipe # <<>>, Orderly(pipe)
  PROVE  /\ Head(pipe) \in S /\ Tail(pipe) \in Seq(S) /\ Len(Tail(pipe)) = Len(pipe) - 1
         /\ Keyed(Head(pipe)) /\ Orderly(Tail(pipe))
         /\ Holds(pipe, Head(pipe).from)
         /\ \A c : Holds(Tail(pipe), c) => Holds(pipe, c)
         /\ Head(pipe).from \in Calls => ~Holds(Tail(pipe), Head(pipe).from)
<1>1. /\ Len(pipe) \in Nat /\ Len(pipe) # 0 /\ Head(pipe) = pipe[1] /\ Head(pipe) \in S
      /\ Tail(pipe) \in Seq(S) /\ Len(Tail(pipe)) = Len(pipe) - 1
      /\ \A i \in 1 .. Len(Tail(pipe)) : Tail(pipe)[i] = pipe[i + 1]
  BY HeadTailProperties
<1>2. \A i \in 1 .. Len(Tail(pipe)) : i + 1 \in 1 .. Len(pipe) /\ i + 1 # 1
  BY <1>1
<1>3. Keyed(Head(pipe)) /\ Holds(pipe, Head(pipe).from)
  BY <1>1 DEF Orderly, Holds
<1>4. \A c : Holds(Tail(pipe), c) => Holds(pipe, c)
  BY <1>1, <1>2 DEF Holds
<1>5. Head(pipe).from \in Calls => ~Holds(Tail(pipe), Head(pipe).from)
  BY <1>1, <1>2 DEF Orderly, Holds
<1>6. Orderly(Tail(pipe))
  <2>1. \A i \in 1 .. Len(Tail(pipe)) : Keyed(Tail(pipe)[i])
    BY <1>1, <1>2 DEF Orderly
  <2>2. \A i, j \in 1 .. Len(Tail(pipe)) :
          Tail(pipe)[i].from = Tail(pipe)[j].from /\ Tail(pipe)[i].from \in Calls => i = j
    <3> SUFFICES ASSUME NEW i \in 1 .. Len(Tail(pipe)), NEW j \in 1 .. Len(Tail(pipe)),
                        Tail(pipe)[i].from = Tail(pipe)[j].from, Tail(pipe)[i].from \in Calls
                 PROVE  i = j
      OBVIOUS
    <3>1. i + 1 = j + 1
      BY <1>1, <1>2 DEF Orderly
    <3> QED BY <3>1
  <2> QED BY <2>1, <2>2 DEF Orderly
<1> QED BY <1>1, <1>3, <1>4, <1>5, <1>6

LEMMA Shortened ==
  ASSUME NEW S, NEW pipe \in Seq(S), NEW n \in 0 .. Len(pipe), Orderly(pipe)
  PROVE  LET cut == SubSeq(pipe, 1, n)
         IN  /\ cut \in Seq(S) /\ Len(cut) <= Len(pipe) /\ Orderly(cut)
             /\ \A c : Holds(cut, c) => Holds(pipe, c)
<1> DEFINE cut == SubSeq(pipe, 1, n)
<1>1. Len(pipe) \in Nat /\ n \in Nat /\ n <= Len(pipe)
  OBVIOUS
<1>2. /\ cut \in Seq(S) /\ Len(cut) = n
      /\ \A i \in 1 .. n : cut[i] = pipe[i] /\ i \in 1 .. Len(pipe)
  BY <1>1
<1> HIDE DEF cut
<1>3. Orderly(cut) /\ \A c : Holds(cut, c) => Holds(pipe, c)
  BY <1>2 DEF Orderly, Holds
<1> QED BY <1>1, <1>2, <1>3 DEF cut

-----------------------------------------------------------------------------
(* Callers.                                                                 *)

LEMMA RegisterKeeps ==
  ASSUME RInv, NEW c \in Calls, Register(c)
  PROVE  RInv'
<1> DEFINE i == sequence + 1
<1>1. /\ pc[c] = "idle" /\ key[c] = None /\ i \in Ids /\ sequence \in Nat
      /\ sequence' = i /\ key' = [key EXCEPT ![c] = i] /\ pending' = [pending EXCEPT ![i] = c]
      /\ pc' = [pc EXCEPT ![c] = "send"]
      /\ UNCHANGED <<result, writer, chan, stdin, stdout, child, reader, waiter, closed, inbound>>
  BY RpcAssumption DEF Register, Goes, RInv, TypeOK, KeysInv, Ids
<1>2. /\ pc \in [Users -> Steps] /\ key \in [Calls -> Ids \cup {None}]
      /\ pending \in [Ids -> Calls \cup {None}] /\ c \in Users /\ None \notin Ids /\ None \notin Calls
  BY RpcAssumption DEF RInv, TypeOK, Users, Ids
<1> HIDE DEF i
<1>3. /\ \A d \in Calls : key[d] # i
      /\ ~Works(c) /\ ~Holds(stdin, c) /\ ~Holds(stdout, c) /\ reader.line.from # c
      /\ chan[c] = None /\ result[c] = None /\ ~Delivering(c)
  <2>1. \A d \in Calls : key[d] # i
    BY <1>1, <1>2 DEF RInv, KeysInv, Ids, i
  <2>2. ~Works(c) /\ ~Holds(stdin, c) /\ ~Holds(stdout, c) /\ reader.line.from # c
    BY <1>1 DEF RInv, OnceInv
  <2>3. chan[c] = None /\ result[c] = None
    BY <1>1 DEF RInv, CallsInv
  <2>4. ~Delivering(c)
    BY <2>2 DEF RInv, ReaderInv, Delivering
  <2> QED BY <2>1, <2>2, <2>3, <2>4
<1>4. TypeOK'
  BY <1>1, <1>2 DEF RInv, TypeOK, Ids, child, Steps
<1>5. KeysInv'
  <2>1. /\ pc'[c] = "send" /\ key'[c] = i /\ i # None /\ i \in Nat /\ i = sequence + 1
        /\ \A d \in Calls : d # c => pc'[d] = pc[d] /\ key'[d] = key[d]
        /\ \A d \in Calls : key[d] # None => key[d] \in Nat
    BY <1>1, <1>2 DEF Users, Ids, i
  <2>2. \A d \in Calls : pc'[d] = "idle" <=> key'[d] = None
    BY <2>1 DEF RInv, KeysInv
  <2>3. \A d \in Calls : key'[d] # None => key'[d] <= sequence'
    BY <1>1, <2>1 DEF RInv, KeysInv
  <2>4. \A d, e \in Calls : key'[d] = key'[e] /\ key'[d] # None => d = e
    BY <1>3, <2>1 DEF RInv, KeysInv
  <2> QED BY <2>2, <2>3, <2>4 DEF KeysInv
<1>6. CallsInv'
  BY <1>1, <1>2, <1>3 DEF RInv, CallsInv, OwnReply, Users
<1>7. TableInv'
  BY <1>1, <1>2, <1>3 DEF RInv, TableInv, Delivering, Users
<1>8. \A line : Keyed(line) /\ line.from # c => Keyed(line)'
  BY <1>1, <1>2 DEF Keyed, LineOf, Users
<1>9. ReaderInv'
  BY <1>1, <1>3, <1>8 DEF RInv, ReaderInv
<1>10. LinesInv'
  BY <1>1, <1>3, <1>8 DEF RInv, LinesInv, Orderly, Holds, Works, child
<1>11. OnceInv'
  BY <1>1, <1>2, <1>3 DEF RInv, OnceInv, Holds, Works, Answered, child, Users
<1>12. GoneInv'
  BY <1>1, <1>2, <1>3 DEF RInv, GoneInv, Answered, Delivering
<1>13. NoReplyAstray'
  BY <1>1 DEF RInv, NoReplyAstray
<1> QED BY <1>4, <1>5, <1>6, <1>7, <1>9, <1>10, <1>11, <1>12, <1>13 DEF RInv

(* What a step leaves of the pipes when it does not touch them.             *)
LEMMA PipesKept ==
  ASSUME LinesInv, UNCHANGED <<key, stdin, stdout, working>>
  PROVE  LinesInv'
  BY DEF LinesInv, Orderly, Keyed, LineOf

LEMMA ForwardKeeps ==
  ASSUME RInv, NEW s \in Sends, Forward(s)
  PROVE  RInv'
<1>1. /\ pc' = [pc EXCEPT ![s] = "send"] /\ pc \in [Users -> Steps] /\ s \in Users
      /\ \A c \in Calls : c # s /\ c \in Users
      /\ UNCHANGED <<key, result, sequence, writer, pending, chan, stdin, stdout, child,
                     reader, waiter, closed, inbound>>
  BY RpcAssumption DEF Forward, Goes, RInv, TypeOK, Users
<1>2. \A c \in Calls : pc'[c] = pc[c]
  BY <1>1
<1>3. TypeOK'
  BY <1>1 DEF RInv, TypeOK, Steps, child
<1>4. KeysInv' /\ CallsInv'
  BY <1>1, <1>2 DEF RInv, KeysInv, CallsInv, OwnReply
<1>5. TableInv'
  BY <1>1, <1>2 DEF RInv, TableInv, Delivering, TypeOK
<1>6. ReaderInv' /\ LinesInv'
  BY <1>1, PipesKept DEF RInv, ReaderInv, Keyed, LineOf, child
<1>7. OnceInv'
  BY <1>1, <1>2 DEF RInv, OnceInv, Holds, Works, Answered, child
<1>8. GoneInv' /\ NoReplyAstray'
  BY <1>1 DEF RInv, GoneInv, NoReplyAstray, Answered, Delivering
<1> QED BY <1>3, <1>4, <1>5, <1>6, <1>7, <1>8 DEF RInv

(* A caller goes from one step to a later one without a table or a pipe.    *)
LEMMA SendEndsKeeps ==
  ASSUME RInv, NEW u \in Users, NEW ok \in BOOLEAN, pc[u] \in {"send", "write"}, SendEnds(u, ok),
         writer' \in Users \cup {None},
         UNCHANGED <<key, sequence, pending, chan, stdin, stdout, child, reader, waiter, closed,
                     inbound>>
  PROVE  RInv'
<1>1. /\ pc \in [Users -> Steps] /\ result \in [Calls -> Users \cup {None, Failed}]
      /\ Calls \subseteq Users /\ None # Failed /\ Failed \notin Calls /\ None \notin Calls
      /\ u \notin Sends => u \in Calls
      /\ \A c \in Calls : c \notin Sends
  BY RpcAssumption DEF RInv, TypeOK, Users
<1>2. /\ pc' \in [Users -> Steps] /\ result' \in [Calls -> Users \cup {None, Failed}]
      /\ \A c \in Calls : c # u => pc'[c] = pc[c] /\ result'[c] = result[c]
      /\ u \in Calls => \/ pc'[u] = "wait" /\ result'[u] = result[u]
                        \/ pc'[u] = "giveup" /\ result'[u] = Failed
  BY <1>1 DEF SendEnds, Goes, Steps
<1>3. u \in Calls => result[u] = None
  BY DEF RInv, CallsInv
<1>4. TypeOK'
  BY <1>2 DEF RInv, TypeOK, child
<1>5. KeysInv' /\ CallsInv'
  BY <1>1, <1>2, <1>3 DEF RInv, KeysInv, CallsInv, OwnReply
<1>6. TableInv'
  BY <1>1, <1>2 DEF RInv, TableInv, Delivering, TypeOK
<1>7. ReaderInv' /\ LinesInv'
  BY PipesKept DEF RInv, ReaderInv, Keyed, LineOf, child
<1>8. OnceInv'
  BY <1>1, <1>2 DEF RInv, OnceInv, Holds, Works, Answered, child
<1>9. GoneInv' /\ NoReplyAstray'
  BY <1>1, <1>2, <1>3 DEF RInv, GoneInv, NoReplyAstray, Answered, Delivering
<1> QED BY <1>4, <1>5, <1>6, <1>7, <1>8, <1>9 DEF RInv

LEMMA LockWriterKeeps ==
  ASSUME RInv, NEW u \in Users, LockWriter(u)
  PROVE  RInv'
<1>1. CASE closed
  BY <1>1, SendEndsKeeps DEF LockWriter, RInv, TypeOK
<1>2. CASE ~closed
  <2>1. /\ pc[u] = "send" /\ pc' = [pc EXCEPT ![u] = "write"] /\ writer' = u
        /\ pc \in [Users -> Steps] /\ Calls \subseteq Users
        /\ UNCHANGED <<key, result, sequence, pending, chan, stdin, stdout, child, reader, waiter,
                       closed, inbound>>
    BY <1>2 DEF LockWriter, Goes, RInv, TypeOK, Users
  <2>2. TypeOK'
    BY <2>1 DEF RInv, TypeOK, Steps, child
  <2>3. KeysInv' /\ CallsInv'
    BY <2>1 DEF RInv, KeysInv, CallsInv, OwnReply
  <2>4. TableInv'
    BY <2>1 DEF RInv, TableInv, Delivering, TypeOK
  <2>5. ReaderInv' /\ LinesInv'
    BY <2>1, PipesKept DEF RInv, ReaderInv, Keyed, LineOf, child
  <2>6. OnceInv'
    BY <2>1 DEF RInv, OnceInv, Holds, Works, Answered, child
  <2>7. GoneInv' /\ NoReplyAstray'
    BY <2>1 DEF RInv, GoneInv, NoReplyAstray, Answered, Delivering
  <2> QED BY <2>2, <2>3, <2>4, <2>5, <2>6, <2>7 DEF RInv
<1> QED BY <1>1, <1>2

LEMMA WriteKeeps ==
  ASSUME RInv, NEW u \in Users, Write(u)
  PROVE  RInv'
<1>1. CASE ~alive
  <2>1. alive = FALSE /\ pc[u] = "write" /\ writer' = None
    BY <1>1 DEF Write, RInv, TypeOK
  <2> QED BY <2>1, SendEndsKeeps DEF Write, child
<1>2. CASE alive
  <2> DEFINE line == LineOf(u)
  <2>1. /\ pc[u] = "write" /\ Len(stdin) < PipeSize /\ stdin' = Append(stdin, line) /\ SendEnds(u, TRUE)
        /\ writer' = None
        /\ UNCHANGED <<key, result, sequence, pending, chan, stdout, child, reader, waiter, closed,
                       inbound>>
    BY <1>2 DEF Write, SendEnds
  <2>2. /\ pc \in [Users -> Steps] /\ key \in [Calls -> Ids \cup {None}] /\ Calls \subseteq Users
        /\ stdin \in Seq(Lines) /\ PipeSize \in Nat /\ u # None
        /\ pending \in [Ids -> Calls \cup {None}]
        /\ u \notin Sends => u \in Calls
        /\ \A c \in Calls : c \notin Sends
    BY RpcAssumption DEF RInv, TypeOK, Users
  <2>3. /\ \A c \in Calls : c # u => pc'[c] = pc[c]
        /\ u \in Calls => pc'[u] = "wait"
        /\ pc' \in [Users -> Steps]
    BY <2>1, <2>2 DEF SendEnds, Goes, Steps
  <2>4. line.from = u /\ line \in Lines /\ Keyed(line)
    BY <2>1, <2>2 DEF LineOf, Lines, Keyed, RInv, KeysInv
  <2>5. u \in Calls => /\ ~Holds(stdin, u) /\ ~Works(u) /\ ~Holds(stdout, u) /\ reader.line.from # u
                       /\ ~Answered(u)
    BY <2>1, <2>2 DEF RInv, OnceInv, CallsInv, Answered
  <2> HIDE DEF line
  <2>6. \A c : Holds(stdin', c) <=> Holds(stdin, c) \/ u = c
    BY <2>1, <2>2, <2>4, HoldsAppended
  <2>7. TypeOK'
    <3>1. stdin' \in Seq(Lines) /\ Len(stdin') <= PipeSize
      BY <2>1, <2>2, <2>4
    <3> QED BY <2>1, <2>3, <3>1 DEF RInv, TypeOK, child
  <2>8. KeysInv' /\ CallsInv'
    BY <2>1, <2>3 DEF RInv, KeysInv, CallsInv, OwnReply
  <2>9. TableInv'
    BY <2>1, <2>2, <2>3 DEF RInv, TableInv, Delivering
  <2>10. Orderly(stdin') /\ \A l : Keyed(l)' <=> Keyed(l)
    BY <2>1, <2>2, <2>4, <2>5, OrderlyAppended DEF RInv, LinesInv, Keyed, LineOf
  <2>11. ReaderInv' /\ LinesInv'
    BY <2>1, <2>10 DEF RInv, ReaderInv, LinesInv, Orderly, child
  <2>12. OnceInv'
    <3>1. \A c \in Calls : /\ Holds(stdout, c)' <=> Holds(stdout, c)
                           /\ Works(c)' <=> Works(c)
                           /\ Answered(c)' <=> Answered(c)
                           /\ Holds(stdin, c)' <=> Holds(stdin, c) \/ u = c
      BY <2>1, <2>6 DEF Holds, Works, Answered, child
    <3>2. reader' = reader
      BY <2>1
    <3> QED BY <2>3, <2>5, <3>1, <3>2 DEF RInv, OnceInv
  <2>13. GoneInv' /\ NoReplyAstray'
    BY <2>1 DEF RInv, GoneInv, NoReplyAstray, Answered, Delivering
  <2> QED BY <2>7, <2>8, <2>9, <2>11, <2>12, <2>13 DEF RInv
<1> QED BY <1>1, <1>2

LEMMA ReceiveKeeps ==
  ASSUME RInv, NEW c \in Calls, Receive(c)
  PROVE  RInv'
<1>1. /\ pc[c] = "wait" /\ chan[c] \in {Failed, c} /\ result[c] = None
      /\ chan' = [chan EXCEPT ![c] = None] /\ result' = [result EXCEPT ![c] = chan[c]]
      /\ pc' = [pc EXCEPT ![c] = "done"]
      /\ UNCHANGED <<key, sequence, writer, pending, stdin, stdout, child, reader, waiter, closed,
                     inbound>>
  BY DEF Receive, Goes, RInv, CallsInv
<1>2. /\ pc \in [Users -> Steps] /\ chan \in [Calls -> Users \cup {None, Failed}]
      /\ result \in [Calls -> Users \cup {None, Failed}] /\ Calls \subseteq Users
      /\ None # Failed /\ c # None /\ c # Failed
  BY RpcAssumption DEF RInv, TypeOK, Users
<1>3. /\ pc'[c] = "done" /\ chan'[c] = None /\ result'[c] = chan[c]
      /\ \A d \in Calls : d # c => pc'[d] = pc[d] /\ chan'[d] = chan[d] /\ result'[d] = result[d]
  BY <1>1, <1>2
<1>4. \A i \in Ids : pending[i] # c
  BY <1>1, <1>2 DEF RInv, TableInv
<1>5. ~Delivering(c)
  BY <1>1, <1>2 DEF RInv, ReaderInv, Delivering
<1>6. TypeOK'
  BY <1>1, <1>2 DEF RInv, TypeOK, Steps, child
<1>7. KeysInv' /\ CallsInv'
  BY <1>1, <1>2, <1>3 DEF RInv, KeysInv, CallsInv, OwnReply
<1>8. TableInv'
  BY <1>1, <1>3, <1>4 DEF RInv, TableInv, Delivering, TypeOK
<1>9. ReaderInv' /\ LinesInv'
  BY <1>1, <1>3, <1>5, PipesKept DEF RInv, ReaderInv, Delivering, Keyed, LineOf, child
<1>10. OnceInv'
  BY <1>1, <1>2, <1>3 DEF RInv, OnceInv, Holds, Works, Answered, child
<1>11. GoneInv' /\ NoReplyAstray'
  BY <1>1, <1>2, <1>3 DEF RInv, GoneInv, NoReplyAstray, Answered, Delivering
<1> QED BY <1>6, <1>7, <1>8, <1>9, <1>10, <1>11 DEF RInv

LEMMA GivesUpKeeps ==
  ASSUME RInv, NEW c \in Calls, GivesUp(c)
  PROVE  RInv'
<1>1. /\ pc[c] = "wait" /\ result[c] = None
      /\ result' = [result EXCEPT ![c] = Failed] /\ pc' = [pc EXCEPT ![c] = "giveup"]
      /\ UNCHANGED <<key, sequence, writer, pending, chan, stdin, stdout, child, reader, waiter, closed,
                     inbound>>
  BY DEF GivesUp, Goes, RInv, CallsInv
<1>2. /\ pc \in [Users -> Steps] /\ result \in [Calls -> Users \cup {None, Failed}]
      /\ Calls \subseteq Users /\ None # Failed /\ c # None /\ c # Failed
  BY RpcAssumption DEF RInv, TypeOK, Users
<1>3. /\ pc'[c] = "giveup" /\ result'[c] = Failed
      /\ \A d \in Calls : d # c => pc'[d] = pc[d] /\ result'[d] = result[d]
  BY <1>1, <1>2
<1>4. TypeOK'
  BY <1>1, <1>2 DEF RInv, TypeOK, Steps, child
<1>5. KeysInv' /\ CallsInv'
  BY <1>1, <1>2, <1>3 DEF RInv, KeysInv, CallsInv, OwnReply
<1>6. TableInv'
  BY <1>1, <1>3 DEF RInv, TableInv, Delivering, TypeOK
<1>7. ReaderInv' /\ LinesInv'
  BY <1>1, PipesKept DEF RInv, ReaderInv, Keyed, LineOf, child
<1>8. OnceInv'
  BY <1>1, <1>2, <1>3 DEF RInv, OnceInv, Holds, Works, Answered, child
<1>9. GoneInv' /\ NoReplyAstray'
  BY <1>1, <1>2, <1>3 DEF RInv, GoneInv, NoReplyAstray, Answered, Delivering
<1> QED BY <1>4, <1>5, <1>6, <1>7, <1>8, <1>9 DEF RInv

LEMMA RemovePendingKeeps ==
  ASSUME RInv, NEW c \in Calls, RemovePending(c)
  PROVE  RInv'
<1>1. /\ pc[c] = "giveup" /\ result[c] = Failed /\ key[c] \in Ids
      /\ pending' = [pending EXCEPT ![key[c]] = None] /\ pc' = [pc EXCEPT ![c] = "done"]
      /\ UNCHANGED <<key, result, sequence, writer, chan, stdin, stdout, child, reader, waiter, closed,
                     inbound>>
  BY DEF RemovePending, Goes, RInv, CallsInv, KeysInv, TypeOK
<1>2. /\ pc \in [Users -> Steps] /\ pending \in [Ids -> Calls \cup {None}]
      /\ key \in [Calls -> Ids \cup {None}] /\ Calls \subseteq Users /\ None \notin Calls
  BY RpcAssumption DEF RInv, TypeOK, Users
<1>3. /\ pc'[c] = "done"
      /\ \A d \in Calls : d # c => pc'[d] = pc[d]
      /\ \A i \in Ids : pending'[i] = IF i = key[c] THEN None ELSE pending[i]
  BY <1>1, <1>2
<1>4. \A i \in Ids : pending'[i] # None => pending'[i] = pending[i] /\ pending[i] # c
  BY <1>3 DEF RInv, TableInv
<1>5. \A d \in Calls : key[d] # None /\ d # c => key[d] \in Ids /\ key[d] # key[c]
  BY <1>1, <1>2 DEF RInv, KeysInv
<1>6. TypeOK'
  BY <1>1, <1>2 DEF RInv, TypeOK, Steps, child
<1>7. KeysInv' /\ CallsInv'
  BY <1>1, <1>3 DEF RInv, KeysInv, CallsInv, OwnReply
<1>8. TableInv'
  BY <1>1, <1>2, <1>3, <1>4 DEF RInv, TableInv, Delivering
<1>9. ReaderInv' /\ LinesInv'
  BY <1>1, PipesKept DEF RInv, ReaderInv, Keyed, LineOf, child
<1>10. OnceInv'
  BY <1>1, <1>3 DEF RInv, OnceInv, Holds, Works, Answered, child
<1>11. GoneInv' /\ NoReplyAstray'
  BY <1>1, <1>3, <1>5 DEF RInv, GoneInv, NoReplyAstray, Answered, Delivering
<1> QED BY <1>6, <1>7, <1>8, <1>9, <1>10, <1>11 DEF RInv
-----------------------------------------------------------------------------
(* The read loop and the wait loop.                                         *)

LEMMA ReadLineKeeps ==
  ASSUME RInv, ReadLine
  PROVE  RInv'
<1> DEFINE line == Head(stdout)
           call == IF line.id \in Ids THEN pending[line.id] ELSE None
<1>1. /\ reader.at = "read" /\ reader = Reading /\ stdout # <<>> /\ stdout' = Tail(stdout)
      /\ pending' = IF call # None THEN [pending EXCEPT ![line.id] = None] ELSE pending
      /\ reader' = [at |-> IF call # None THEN "deliver" ELSE "pass", line |-> line, to |-> call]
      /\ UNCHANGED <<callers, chan, stdin, child, waiter, closed, inbound>>
  BY DEF ReadLine, RInv, ReaderInv
<1>2. /\ pending \in [Ids -> Calls \cup {None}] /\ key \in [Calls -> Ids \cup {None}]
      /\ stdout \in Seq(Lines \cup {Notice}) /\ Len(stdout) <= PipeSize /\ Len(stdout) \in Nat
  BY DEF RInv, TypeOK
<1>0. /\ PipeSize \in Nat /\ Calls \subseteq Users /\ None \notin Calls /\ None \notin Ids
      /\ \A c \in Calls : c \notin Sends
      /\ \A i \in Ids : i \notin Sends
      /\ None \notin Sends
  BY RpcAssumption DEF Users, Ids
<1>3. /\ line \in Lines \cup {Notice} /\ Tail(stdout) \in Seq(Lines \cup {Notice})
      /\ Len(Tail(stdout)) = Len(stdout) - 1
      /\ Keyed(line) /\ Orderly(Tail(stdout)) /\ Holds(stdout, line.from)
      /\ \A c : Holds(Tail(stdout), c) => Holds(stdout, c)
      /\ line.from \in Calls => ~Holds(Tail(stdout), line.from)
  BY <1>1, <1>2, HeadTaken DEF RInv, LinesInv
<1>4. /\ line.from \in Calls => line.id = key[line.from] /\ line.id \in Ids
      /\ line.id \in Ids => line.from \in Calls
  <2>1. CASE line = Notice
    BY <1>0, <2>1 DEF Notice
  <2>2. CASE line # Notice
    <3> DEFINE u == line.from
    <3>1. u \in Users /\ line.id = IF u \in Sends THEN u ELSE key[u]
      BY <1>3, <2>2 DEF Keyed, LineOf
    <3>2. line \in Lines /\ line.id \in Ids \cup Sends
      BY <1>3, <2>2 DEF Lines
    <3> HIDE DEF u, line
    <3>3. u \in Calls => line.id = key[u] /\ line.id \in Ids
      BY <1>0, <1>2, <3>1, <3>2
    <3>4. line.id \in Ids => u \in Calls
      BY <1>0, <3>1 DEF Users
    <3> QED BY <3>3, <3>4 DEF u
  <2> QED BY <2>1, <2>2
<1>5. call # None => call \in Calls /\ call = line.from /\ line.id \in Ids /\ pending[line.id] = call
                     /\ key[call] = line.id /\ chan[call] = None
  BY <1>0, <1>2, <1>4 DEF RInv, TableInv, KeysInv
<1>6. \A c \in Calls : ~Delivering(c)
  BY <1>1 DEF Delivering
<1> HIDE DEF line, call
<1>7. reader'.at = (IF call # None THEN "deliver" ELSE "pass") /\ reader'.line = line /\ reader'.to = call
  BY <1>1
<1>8. \A i \in Ids : pending'[i] # None => pending'[i] = pending[i] /\ (call # None => i # line.id)
  BY <1>1, <1>0, <1>2, <1>5
<1>9. TypeOK'
  <2>1. stdout' \in Seq(Lines \cup {Notice}) /\ Len(stdout') <= PipeSize
    BY <1>1, <1>0, <1>2, <1>3
  <2>2. pending' \in [Ids -> Calls \cup {None}]
    BY <1>1, <1>0, <1>2
  <2>3. reader' \in [at : {"read", "deliver", "pass", "over"}, line : Lines \cup {Notice}, to : Calls \cup {None}]
    BY <1>1, <1>3, <1>5
  <2> QED BY <1>1, <2>1, <2>2, <2>3 DEF RInv, TypeOK, callers, child
<1>10. KeysInv' /\ CallsInv'
  BY <1>1 DEF RInv, KeysInv, CallsInv, OwnReply, callers
<1>11. TableInv'
  <2> SUFFICES ASSUME NEW i \in Ids, pending'[i] # None
               PROVE  /\ key'[pending'[i]] = i /\ chan'[pending'[i]] = None
                      /\ pc'[pending'[i]] \in {"send", "write", "wait", "giveup"}
                      /\ ~(reader'.at = "deliver" /\ reader'.to = pending'[i])
    BY DEF TableInv, Delivering
  <2>1. pending'[i] = pending[i] /\ key[pending[i]] = i
    BY <1>8 DEF RInv, TableInv
  <2>2. call # None => call # pending[i]
    BY <1>5, <1>8, <2>1
  <2>3. ~(reader'.at = "deliver" /\ reader'.to = pending'[i])
    BY <1>7, <2>1, <2>2
  <2> QED BY <1>1, <1>8, <2>1, <2>3 DEF RInv, TableInv, callers
<1>12. \A l : Keyed(l)' <=> Keyed(l)
  BY <1>1 DEF Keyed, LineOf, callers
<1>13. ReaderInv'
  BY <1>1, <1>3, <1>5, <1>7, <1>12 DEF ReaderInv
<1>14. LinesInv'
  BY <1>1, <1>3, <1>12 DEF RInv, LinesInv, Orderly, child
<1>15. OnceInv'
  <2>1. \A c \in Calls : /\ Holds(stdin, c)' <=> Holds(stdin, c)
                         /\ Works(c)' <=> Works(c)
                         /\ Answered(c)' <=> Answered(c)
                         /\ Holds(stdout, c)' => Holds(stdout, c) /\ line.from # c
                         /\ reader'.line.from = c => Holds(stdout, c)
                         /\ pc'[c] = pc[c]
    BY <1>1, <1>3, <1>7 DEF Holds, Works, Answered, callers, child
  <2> QED BY <1>7, <2>1 DEF RInv, OnceInv
<1>16. GoneInv'
  <2> SUFFICES ASSUME NEW c \in Calls, key'[c] # None, pending'[key'[c]] # c
               PROVE  result'[c] = Failed \/ chan'[c] = Failed \/ Answered(c)' \/ Delivering(c)'
    BY DEF GoneInv
  <2>1. key'[c] = key[c] /\ key[c] \in Ids
    BY <1>1, <1>0, <1>2 DEF callers
  <2>2. CASE call = c
    BY <1>1, <1>7, <2>2, <1>0, <1>2 DEF Delivering
  <2>3. CASE call # c
    <3>1. pending[key[c]] # c
      BY <1>1, <1>0, <1>2, <1>5, <2>1, <2>3
    <3>2. Answered(c)' <=> Answered(c)
      BY <1>1 DEF Answered, callers
    <3> QED BY <1>1, <1>6, <2>1, <3>1, <3>2 DEF RInv, GoneInv, callers
  <2> QED BY <2>2, <2>3
<1>17. NoReplyAstray'
  <2> SUFFICES ASSUME call = None, line.from \in Calls
               PROVE  result[line.from] = Failed \/ chan[line.from] = Failed
    BY <1>1, <1>7 DEF NoReplyAstray, callers
  <2>1. key[line.from] # None /\ pending[key[line.from]] # line.from
    BY <1>0, <1>2, <1>4 DEF call
  <2>2. ~Answered(line.from)
    BY <1>3 DEF RInv, OnceInv
  <2> QED BY <1>6, <2>1, <2>2 DEF RInv, GoneInv
<1> QED BY <1>9, <1>10, <1>11, <1>13, <1>14, <1>15, <1>16, <1>17 DEF RInv

LEMMA DeliverKeeps ==
  ASSUME RInv, Deliver
  PROVE  RInv'
<1> DEFINE c == reader.to
<1>1. /\ reader.at = "deliver" /\ c \in Calls /\ reader.line.from = c /\ Delivering(c) /\ chan[c] = None
      /\ chan' = [chan EXCEPT ![c] = c] /\ reader' = Reading
      /\ UNCHANGED <<callers, pending, stdin, stdout, child, waiter, closed, inbound>>
  BY DEF Deliver, RInv, ReaderInv, Delivering
<1>2. /\ chan \in [Calls -> Users \cup {None, Failed}] /\ pending \in [Ids -> Calls \cup {None}]
      /\ Calls \subseteq Users /\ None \notin Calls /\ Failed \notin Calls
  BY RpcAssumption DEF RInv, TypeOK, Users
<1>3. /\ ~Holds(stdin, c) /\ ~Holds(stdout, c) /\ ~Works(c)
      /\ pc[c] \in {"wait", "giveup", "done"} /\ ~Answered(c)
  BY <1>1 DEF RInv, OnceInv
<1>4. \A d \in Calls : d # c => ~Delivering(d)
  BY DEF Delivering
<1> HIDE DEF c
<1>5. chan'[c] = c /\ \A d \in Calls : d # c => chan'[d] = chan[d]
  BY <1>1, <1>2
<1>6. reader'.at = "read" /\ reader'.line = Notice /\ reader'.line.from = None /\ Keyed(Notice)'
  BY <1>1 DEF Reading, Notice, Keyed
<1>7. TypeOK'
  <2>1. Reading \in [at : {"read", "deliver", "pass", "over"}, line : Lines \cup {Notice}, to : Calls \cup {None}]
    BY DEF Reading
  <2> QED BY <1>1, <1>2, <2>1 DEF RInv, TypeOK, callers, child
<1>8. KeysInv' /\ CallsInv'
  BY <1>1, <1>3, <1>5 DEF RInv, KeysInv, CallsInv, OwnReply, callers
<1>9. TableInv'
  BY <1>1, <1>2, <1>5, <1>6 DEF RInv, TableInv, Delivering, callers
<1>10. ReaderInv' /\ LinesInv'
  BY <1>1, <1>6, PipesKept DEF RInv, ReaderInv, callers, child
<1>11. OnceInv'
  <2>1. \A d \in Calls : /\ Holds(stdin, d)' <=> Holds(stdin, d)
                         /\ Holds(stdout, d)' <=> Holds(stdout, d)
                         /\ Works(d)' <=> Works(d)
                         /\ d # c => (Answered(d)' <=> Answered(d))
                         /\ reader'.line.from # d /\ pc'[d] = pc[d]
    BY <1>1, <1>2, <1>5, <1>6 DEF Holds, Works, Answered, callers, child
  <2> QED BY <1>3, <2>1 DEF RInv, OnceInv
<1>12. GoneInv' /\ NoReplyAstray'
  BY <1>1, <1>4, <1>5, <1>6 DEF RInv, GoneInv, NoReplyAstray, Answered, callers
<1> QED BY <1>7, <1>8, <1>9, <1>10, <1>11, <1>12 DEF RInv

LEMMA PassKeeps ==
  ASSUME RInv, Pass
  PROVE  RInv'
<1>1. /\ reader.at = "pass" /\ Len(inbound) < InboundSize /\ inbound' = Append(inbound, reader.line)
      /\ reader' = Reading
      /\ UNCHANGED <<callers, pending, chan, stdin, stdout, child, waiter, closed>>
  BY DEF Pass
<1>2. reader'.at = "read" /\ reader'.line = Notice /\ reader'.line.from = None /\ Keyed(Notice)'
  BY <1>1 DEF Reading, Notice, Keyed
<1>3. TypeOK'
  <2>1. Reading \in [at : {"read", "deliver", "pass", "over"}, line : Lines \cup {Notice}, to : Calls \cup {None}]
    BY DEF Reading
  <2>2. /\ inbound \in Seq(Lines \cup {Notice}) /\ reader.line \in Lines \cup {Notice}
        /\ InboundSize \in Nat
    BY RpcAssumption DEF RInv, TypeOK
  <2>3. inbound' \in Seq(Lines \cup {Notice}) /\ Len(inbound') <= InboundSize
    BY <1>1, <2>2
  <2> QED BY <1>1, <2>1, <2>3 DEF RInv, TypeOK, callers, child
<1>4. KeysInv' /\ CallsInv'
  BY <1>1 DEF RInv, KeysInv, CallsInv, OwnReply, callers
<1>5. TableInv'
  BY <1>1, <1>2 DEF RInv, TableInv, Delivering, callers
<1>6. ReaderInv' /\ LinesInv'
  BY <1>1, <1>2, PipesKept DEF RInv, ReaderInv, callers, child
<1>7. OnceInv'
  <2>1. \A d \in Calls : /\ Holds(stdin, d)' <=> Holds(stdin, d)
                         /\ Holds(stdout, d)' <=> Holds(stdout, d)
                         /\ Works(d)' <=> Works(d)
                         /\ Answered(d)' <=> Answered(d)
                         /\ reader'.line.from # d /\ pc'[d] = pc[d]
    BY <1>1, <1>2, RpcAssumption DEF Holds, Works, Answered, callers, child
  <2> QED BY <2>1 DEF RInv, OnceInv
<1>8. GoneInv' /\ NoReplyAstray'
  BY <1>1, <1>2 DEF RInv, GoneInv, NoReplyAstray, Answered, Delivering, callers
<1> QED BY <1>3, <1>4, <1>5, <1>6, <1>7, <1>8 DEF RInv

(* A step that touches nothing the callers and the pipes share.             *)
LEMMA ApartKeeps ==
  ASSUME RInv, TypeOK', UNCHANGED <<callers, pending, chan, stdin, stdout, working, reader>>
  PROVE  RInv'
<1>1. KeysInv' /\ CallsInv' /\ TableInv'
  BY DEF RInv, KeysInv, CallsInv, OwnReply, TableInv, Delivering, callers
<1>2. ReaderInv' /\ LinesInv'
  BY PipesKept DEF RInv, ReaderInv, Keyed, LineOf, callers
<1>3. OnceInv' /\ GoneInv' /\ NoReplyAstray'
  BY DEF RInv, OnceInv, GoneInv, NoReplyAstray, Holds, Works, Answered, Delivering, callers
<1> QED BY <1>1, <1>2, <1>3 DEF RInv

LEMMA HandleInboundKeeps ==
  ASSUME RInv, HandleInbound
  PROVE  RInv'
<1>1. inbound' \in Seq(Lines \cup {Notice}) /\ Len(inbound') <= InboundSize
  <2>1. /\ inbound \in Seq(Lines \cup {Notice}) /\ Len(inbound) <= InboundSize /\ inbound # <<>>
        /\ inbound' = Tail(inbound) /\ InboundSize \in Nat
    BY RpcAssumption DEF HandleInbound, RInv, TypeOK
  <2>2. inbound' \in Seq(Lines \cup {Notice}) /\ Len(inbound') = Len(inbound) - 1 /\ Len(inbound) \in Nat
    BY <2>1, HeadTailProperties
  <2> QED BY <2>1, <2>2
<1>2. TypeOK'
  BY <1>1 DEF HandleInbound, RInv, TypeOK, callers, child
<1> QED BY <1>2, ApartKeeps DEF HandleInbound, child

LEMMA DrainedKeeps ==
  ASSUME RInv, Drained
  PROVE  RInv'
<1>1. TypeOK'
  BY DEF Drained, RInv, TypeOK, callers, child
<1> QED BY <1>1, ApartKeeps DEF Drained, child

LEMMA WaitReturnsKeeps ==
  ASSUME RInv, WaitReturns
  PROVE  RInv'
<1>1. PICK n \in 0 .. Len(stdout) : stdout' = SubSeq(stdout, 1, n)
  BY DEF WaitReturns
<1>2. /\ closed' = TRUE /\ waiter' = "drain"
      /\ UNCHANGED <<callers, pending, chan, stdin, child, reader, inbound>>
  BY DEF WaitReturns
<1>3. /\ stdout \in Seq(Lines \cup {Notice}) /\ Len(stdout) <= PipeSize /\ Len(stdout) \in Nat
      /\ PipeSize \in Nat
  BY RpcAssumption DEF RInv, TypeOK
<1>4. /\ stdout' \in Seq(Lines \cup {Notice}) /\ Len(stdout') <= Len(stdout) /\ Len(stdout') \in Nat
      /\ Orderly(stdout') /\ \A c : Holds(stdout', c) => Holds(stdout, c)
  BY <1>1, <1>3, Shortened DEF RInv, LinesInv
<1>5. TypeOK'
  <2>1. Len(stdout') <= PipeSize
    BY <1>3, <1>4
  <2> QED BY <1>2, <1>4, <2>1 DEF RInv, TypeOK, callers, child
<1>6. KeysInv' /\ CallsInv' /\ TableInv'
  BY <1>2 DEF RInv, KeysInv, CallsInv, OwnReply, TableInv, Delivering, callers
<1>7. ReaderInv' /\ LinesInv'
  BY <1>2, <1>4 DEF RInv, ReaderInv, LinesInv, Orderly, Keyed, LineOf, callers, child
<1>8. OnceInv'
  <2>1. \A c \in Calls : /\ Holds(stdin, c)' <=> Holds(stdin, c)
                         /\ Holds(stdout, c)' => Holds(stdout, c)
                         /\ Works(c)' <=> Works(c)
                         /\ Answered(c)' <=> Answered(c)
                         /\ pc'[c] = pc[c] /\ reader' = reader
    BY <1>2, <1>4 DEF Holds, Works, Answered, callers, child
  <2> QED BY <2>1 DEF RInv, OnceInv
<1>9. GoneInv' /\ NoReplyAstray'
  BY <1>2 DEF RInv, GoneInv, NoReplyAstray, Answered, Delivering, callers
<1> QED BY <1>5, <1>6, <1>7, <1>8, <1>9 DEF RInv

LEMMA SkipLineKeeps ==
  ASSUME RInv, SkipLine
  PROVE  RInv'
<1>1. /\ stdout # <<>> /\ stdout' = Tail(stdout)
      /\ UNCHANGED <<callers, pending, chan, stdin, child, reader, waiter, closed, inbound>>
  BY DEF SkipLine
<1>2. /\ stdout \in Seq(Lines \cup {Notice}) /\ Len(stdout) <= PipeSize /\ PipeSize \in Nat
      /\ Orderly(stdout)
  BY RpcAssumption DEF RInv, TypeOK, LinesInv
<1>3. /\ stdout' \in Seq(Lines \cup {Notice}) /\ Len(stdout') = Len(stdout) - 1 /\ Orderly(stdout')
      /\ \A c : Holds(stdout', c) => Holds(stdout, c)
  BY <1>1, <1>2, HeadTaken
<1>4. Len(stdout') <= PipeSize
  <2>1. Len(stdout) \in Nat
    BY <1>2
  <2> QED BY <1>2, <1>3, <2>1
<1>5. TypeOK'
  BY <1>1, <1>3, <1>4 DEF RInv, TypeOK, callers, child
<1>6. KeysInv' /\ CallsInv' /\ TableInv'
  BY <1>1 DEF RInv, KeysInv, CallsInv, OwnReply, TableInv, Delivering, callers
<1>7. ReaderInv' /\ LinesInv'
  BY <1>1, <1>3 DEF RInv, ReaderInv, LinesInv, Orderly, Keyed, LineOf, callers, child
<1>8. OnceInv'
  <2>1. \A c \in Calls : /\ Holds(stdin, c)' <=> Holds(stdin, c)
                         /\ Holds(stdout, c)' => Holds(stdout, c)
                         /\ Works(c)' <=> Works(c)
                         /\ Answered(c)' <=> Answered(c)
                         /\ pc'[c] = pc[c] /\ reader' = reader
    BY <1>1, <1>3 DEF Holds, Works, Answered, callers, child
  <2> QED BY <2>1 DEF RInv, OnceInv
<1>9. GoneInv' /\ NoReplyAstray'
  BY <1>1 DEF RInv, GoneInv, NoReplyAstray, Answered, Delivering, callers
<1> QED BY <1>5, <1>6, <1>7, <1>8, <1>9 DEF RInv

LEMMA ReadEndsKeeps ==
  ASSUME RInv, ReadEnds
  PROVE  RInv'
<1>1. /\ reader.at = "read" /\ reader = Reading /\ reader' = [Reading EXCEPT !.at = "over"]
      /\ UNCHANGED <<callers, pending, chan, stdin, stdout, child, waiter, closed, inbound>>
  BY DEF ReadEnds, RInv, ReaderInv
<1>2. /\ reader'.at = "over" /\ reader'.line = Notice /\ reader'.line.from = None
      /\ reader.line = Notice /\ reader.line.from = None /\ Keyed(Notice)'
  BY <1>1 DEF Reading, Notice, Keyed
<1>3. TypeOK'
  <2>1. reader' \in [at : {"read", "deliver", "pass", "over"}, line : Lines \cup {Notice}, to : Calls \cup {None}]
    BY <1>1 DEF Reading
  <2> QED BY <1>1, <2>1 DEF RInv, TypeOK, callers, child
<1>4. KeysInv' /\ CallsInv'
  BY <1>1 DEF RInv, KeysInv, CallsInv, OwnReply, callers
<1>5. TableInv'
  BY <1>1, <1>2 DEF RInv, TableInv, Delivering, callers
<1>6. ReaderInv' /\ LinesInv'
  BY <1>1, <1>2, PipesKept DEF RInv, ReaderInv, callers, child
<1>7. OnceInv'
  <2>1. \A d \in Calls : /\ Holds(stdin, d)' <=> Holds(stdin, d)
                         /\ Holds(stdout, d)' <=> Holds(stdout, d)
                         /\ Works(d)' <=> Works(d)
                         /\ Answered(d)' <=> Answered(d)
                         /\ reader'.line.from # d /\ pc'[d] = pc[d]
    BY <1>1, <1>2, RpcAssumption DEF Holds, Works, Answered, callers, child
  <2> QED BY <2>1 DEF RInv, OnceInv
<1>8. GoneInv' /\ NoReplyAstray'
  BY <1>1, <1>2 DEF RInv, GoneInv, NoReplyAstray, Answered, Delivering, callers
<1> QED BY <1>3, <1>4, <1>5, <1>6, <1>7, <1>8 DEF RInv

LEMMA FailPendingKeeps ==
  ASSUME RInv, NEW i \in Ids, FailPending(i)
  PROVE  RInv'
<1> DEFINE c == pending[i]
<1>1. /\ c # None /\ chan' = [chan EXCEPT ![c] = Failed] /\ pending' = [pending EXCEPT ![i] = None]
      /\ UNCHANGED <<callers, stdin, stdout, child, reader, waiter, closed, inbound>>
      /\ key[c] = i /\ chan[c] = None /\ pc[c] \in {"send", "write", "wait", "giveup"} /\ ~Delivering(c)
  BY DEF FailPending, RInv, TableInv
<1>2. /\ pending \in [Ids -> Calls \cup {None}] /\ chan \in [Calls -> Users \cup {None, Failed}]
      /\ c \in Calls /\ c # None /\ c # Failed /\ None # Failed /\ Calls \subseteq Users
  BY <1>1, RpcAssumption DEF RInv, TypeOK, Users
<1>3. \A j \in Ids : pending'[j] # None => pending'[j] = pending[j] /\ pending[j] # c
  BY <1>1, <1>2 DEF RInv, TableInv
<1> HIDE DEF c
<1>4. chan'[c] = Failed /\ \A d \in Calls : d # c => chan'[d] = chan[d]
  BY <1>1, <1>2
<1>5. TypeOK'
  BY <1>1, <1>2 DEF RInv, TypeOK, callers, child
<1>6. KeysInv' /\ CallsInv'
  BY <1>1, <1>2, <1>4 DEF RInv, KeysInv, CallsInv, OwnReply, callers
<1>7. TableInv'
  BY <1>1, <1>2, <1>3, <1>4 DEF RInv, TableInv, Delivering, callers
<1>8. ReaderInv' /\ LinesInv'
  BY <1>1, <1>4, PipesKept DEF RInv, ReaderInv, Delivering, Keyed, LineOf, callers, child
<1>9. OnceInv'
  <2>1. \A d \in Calls : /\ Holds(stdin, d)' <=> Holds(stdin, d)
                         /\ Holds(stdout, d)' <=> Holds(stdout, d)
                         /\ Works(d)' <=> Works(d)
                         /\ Answered(d)' => Answered(d)
                         /\ pc'[d] = pc[d] /\ reader' = reader
    BY <1>1, <1>2, <1>4 DEF Holds, Works, Answered, callers, child
  <2> QED BY <2>1 DEF RInv, OnceInv
<1>10. GoneInv'
  <2> SUFFICES ASSUME NEW d \in Calls, key'[d] # None, pending'[key'[d]] # d, d # c
               PROVE  result'[d] = Failed \/ chan'[d] = Failed \/ Answered(d)' \/ Delivering(d)'
    BY <1>4 DEF GoneInv
  <2>1. key'[d] = key[d] /\ key[d] \in Ids
    BY <1>1 DEF RInv, TypeOK, callers
  <2>2. pending[key[d]] # d
    BY <1>1, <1>2, <2>1 DEF c
  <2> QED BY <1>1, <1>4, <2>1, <2>2 DEF RInv, GoneInv, Answered, Delivering, callers
<1>11. NoReplyAstray'
  BY <1>1, <1>2, <1>4 DEF RInv, NoReplyAstray, callers
<1> QED BY <1>5, <1>6, <1>7, <1>8, <1>9, <1>10, <1>11 DEF RInv
-----------------------------------------------------------------------------
(* The app-server.                                                          *)

LEMMA TakeRequestKeeps ==
  ASSUME RInv, TakeRequest
  PROVE  RInv'
<1> DEFINE line == Head(stdin)
<1>1. /\ stdin # <<>> /\ stdin' = Tail(stdin) /\ working' = working \cup {line}
      /\ UNCHANGED <<callers, pending, chan, stdout, alive, notices, reader, waiter, closed, inbound>>
      /\ stdin \in Seq(Lines) /\ Len(stdin) <= PipeSize /\ Len(stdin) \in Nat /\ PipeSize \in Nat
  BY RpcAssumption DEF TakeRequest, RInv, TypeOK
<1>2. /\ line \in Lines /\ Tail(stdin) \in Seq(Lines) /\ Len(Tail(stdin)) = Len(stdin) - 1
      /\ Keyed(line) /\ Orderly(Tail(stdin)) /\ Holds(stdin, line.from)
      /\ \A c : Holds(Tail(stdin), c) => Holds(stdin, c)
      /\ line.from \in Calls => ~Holds(Tail(stdin), line.from)
  BY <1>1, HeadTaken DEF RInv, LinesInv
<1> HIDE DEF line
<1>3. TypeOK'
  <2>1. stdin' \in Seq(Lines) /\ Len(stdin') <= PipeSize
    BY <1>1, <1>2
  <2> QED BY <1>1, <1>2, <2>1 DEF RInv, TypeOK, callers
<1>4. KeysInv' /\ CallsInv' /\ TableInv'
  BY <1>1 DEF RInv, KeysInv, CallsInv, OwnReply, TableInv, Delivering, callers
<1>5. \A l : Keyed(l)' <=> Keyed(l)
  BY <1>1 DEF Keyed, LineOf, callers
<1>6. ReaderInv' /\ LinesInv'
  BY <1>1, <1>2, <1>5 DEF RInv, ReaderInv, LinesInv, Orderly
<1>7. OnceInv'
  <2>1. \A c \in Calls : /\ Holds(stdin, c)' => Holds(stdin, c) /\ line.from # c
                         /\ Holds(stdout, c)' <=> Holds(stdout, c)
                         /\ Works(c)' => Works(c) \/ line.from = c
                         /\ line.from = c => Holds(stdin, c)
                         /\ Answered(c)' <=> Answered(c)
                         /\ pc'[c] = pc[c] /\ reader' = reader
    BY <1>1, <1>2 DEF Holds, Works, Answered, callers
  <2> QED BY <2>1 DEF RInv, OnceInv
<1>8. GoneInv' /\ NoReplyAstray'
  BY <1>1 DEF RInv, GoneInv, NoReplyAstray, Answered, Delivering, callers
<1> QED BY <1>3, <1>4, <1>6, <1>7, <1>8 DEF RInv

(* A line goes onto the child's output; a reply comes from its work.        *)
LEMMA AnswerRequestKeeps ==
  ASSUME RInv, NEW line \in working, AnswerRequest(line)
  PROVE  RInv'
<1>1. /\ Len(stdout) < PipeSize /\ stdout' = Append(stdout, line) /\ working' = working \ {line}
      /\ UNCHANGED <<callers, pending, chan, stdin, alive, notices, reader, waiter, closed, inbound>>
      /\ stdout \in Seq(Lines \cup {Notice}) /\ working \subseteq Lines /\ PipeSize \in Nat
      /\ None \notin Calls
  BY RpcAssumption DEF AnswerRequest, RInv, TypeOK
<1>2. Keyed(line) /\ line \in Lines /\ \A l \in working : Keyed(l)
  BY <1>1 DEF RInv, LinesInv
<1>3. line.from \in Calls => \A l \in working : l.from = line.from => l = line
  BY <1>1, <1>2 DEF Keyed, Notice
<1>4. line.from \in Calls => ~Holds(stdout, line.from)
  BY DEF RInv, OnceInv, Works
<1>5. \A c : Holds(stdout', c) <=> Holds(stdout, c) \/ line.from = c
  BY <1>1, <1>2, HoldsAppended
<1>6. \A l : Keyed(l)' <=> Keyed(l)
  BY <1>1 DEF Keyed, LineOf, callers
<1>7. Orderly(stdout')
  BY <1>1, <1>2, <1>4, OrderlyAppended DEF RInv, LinesInv
<1>8. TypeOK'
  <2>1. stdout' \in Seq(Lines \cup {Notice}) /\ Len(stdout') <= PipeSize
    BY <1>1, <1>2
  <2> QED BY <1>1, <2>1 DEF RInv, TypeOK, callers
<1>9. KeysInv' /\ CallsInv' /\ TableInv'
  BY <1>1 DEF RInv, KeysInv, CallsInv, OwnReply, TableInv, Delivering, callers
<1>10. ReaderInv' /\ LinesInv'
  BY <1>1, <1>2, <1>6, <1>7 DEF RInv, ReaderInv, LinesInv, Orderly
<1>11. OnceInv'
  <2>1. \A c \in Calls : /\ Holds(stdin, c)' <=> Holds(stdin, c)
                         /\ Holds(stdout, c)' <=> Holds(stdout, c) \/ line.from = c
                         /\ Works(c)' => Works(c) /\ line.from # c
                         /\ line.from = c => Works(c)
                         /\ Answered(c)' <=> Answered(c)
                         /\ pc'[c] = pc[c] /\ reader' = reader
    BY <1>1, <1>3, <1>5 DEF Holds, Works, Answered, callers
  <2> QED BY <2>1 DEF RInv, OnceInv
<1>12. GoneInv' /\ NoReplyAstray'
  BY <1>1 DEF RInv, GoneInv, NoReplyAstray, Answered, Delivering, callers
<1> QED BY <1>8, <1>9, <1>10, <1>11, <1>12 DEF RInv

LEMMA NotifyKeeps ==
  ASSUME RInv, Notify
  PROVE  RInv'
<1>1. /\ Len(stdout) < PipeSize /\ stdout' = Append(stdout, Notice) /\ notices' = notices + 1
      /\ notices < MaxNotices /\ notices \in Nat /\ MaxNotices \in Nat
      /\ UNCHANGED <<callers, pending, chan, stdin, alive, working, reader, waiter, closed, inbound>>
      /\ stdout \in Seq(Lines \cup {Notice}) /\ PipeSize \in Nat
      /\ Keyed(Notice) /\ Notice.from \notin Calls /\ Notice \in Lines \cup {Notice}
  BY RpcAssumption DEF Notify, RInv, TypeOK, Keyed, Notice
<1>2. \A c \in Calls : Holds(stdout', c) <=> Holds(stdout, c)
  BY <1>1, HoldsAppended
<1>3. Orderly(stdout')
  BY <1>1, OrderlyAppended DEF RInv, LinesInv
<1>4. \A l : Keyed(l)' <=> Keyed(l)
  BY <1>1 DEF Keyed, LineOf, callers
<1>5. TypeOK'
  <2>1. stdout' \in Seq(Lines \cup {Notice}) /\ Len(stdout') <= PipeSize
    BY <1>1
  <2> QED BY <1>1, <2>1 DEF RInv, TypeOK, callers
<1>6. KeysInv' /\ CallsInv' /\ TableInv'
  BY <1>1 DEF RInv, KeysInv, CallsInv, OwnReply, TableInv, Delivering, callers
<1>7. ReaderInv' /\ LinesInv'
  BY <1>1, <1>3, <1>4 DEF RInv, ReaderInv, LinesInv, Orderly
<1>8. OnceInv'
  <2>1. \A c \in Calls : /\ Holds(stdin, c)' <=> Holds(stdin, c)
                         /\ Holds(stdout, c)' <=> Holds(stdout, c)
                         /\ Works(c)' <=> Works(c)
                         /\ Answered(c)' <=> Answered(c)
                         /\ pc'[c] = pc[c] /\ reader' = reader
    BY <1>1, <1>2 DEF Holds, Works, Answered, callers
  <2> QED BY <2>1 DEF RInv, OnceInv
<1>9. GoneInv' /\ NoReplyAstray'
  BY <1>1 DEF RInv, GoneInv, NoReplyAstray, Answered, Delivering, callers
<1> QED BY <1>5, <1>6, <1>7, <1>8, <1>9 DEF RInv

LEMMA ExitKeeps ==
  ASSUME RInv, Exit
  PROVE  RInv'
<1>1. /\ alive' = FALSE /\ stdin' = <<>> /\ working' = {}
      /\ UNCHANGED <<callers, pending, chan, stdout, notices, reader, waiter, closed, inbound>>
      /\ PipeSize \in Nat
  BY RpcAssumption DEF Exit
<1>2. Len(stdin') = 0 /\ stdin' \in Seq(Lines) /\ Len(stdin') <= PipeSize
  BY <1>1
<1>3. TypeOK'
  BY <1>1, <1>2 DEF RInv, TypeOK, callers
<1>4. KeysInv' /\ CallsInv' /\ TableInv'
  BY <1>1 DEF RInv, KeysInv, CallsInv, OwnReply, TableInv, Delivering, callers
<1>5. \A l : Keyed(l)' <=> Keyed(l)
  BY <1>1 DEF Keyed, LineOf, callers
<1>6. ReaderInv' /\ LinesInv'
  BY <1>1, <1>2, <1>5 DEF RInv, ReaderInv, LinesInv, Orderly
<1>7. OnceInv'
  <2>1. \A c \in Calls : /\ ~Holds(stdin, c)' /\ ~Works(c)'
                         /\ Holds(stdout, c)' <=> Holds(stdout, c)
                         /\ Answered(c)' <=> Answered(c)
                         /\ pc'[c] = pc[c] /\ reader' = reader
    BY <1>1, <1>2 DEF Holds, Works, Answered, callers
  <2> QED BY <2>1 DEF RInv, OnceInv
<1>8. GoneInv' /\ NoReplyAstray'
  BY <1>1 DEF RInv, GoneInv, NoReplyAstray, Answered, Delivering, callers
<1> QED BY <1>3, <1>4, <1>6, <1>7, <1>8 DEF RInv
-----------------------------------------------------------------------------
(* RInv is inductive.                                                       *)

LEMMA RInvStarts == Init => RInv
<1> SUFFICES ASSUME Init
             PROVE  RInv
  OBVIOUS
<1>1. /\ stdin = <<>> /\ stdout = <<>> /\ inbound = <<>> /\ Len(stdin) = 0 /\ Len(stdout) = 0
      /\ Len(inbound) = 0 /\ stdin \in Seq(Lines) /\ stdout \in Seq(Lines \cup {Notice})
      /\ inbound \in Seq(Lines \cup {Notice})
  BY DEF Init
<1>2. /\ PipeSize \in Nat /\ InboundSize \in Nat /\ MaxId \in Nat /\ MaxNotices \in Nat
      /\ None \notin Calls /\ None # Failed /\ Calls \subseteq Users
  BY RpcAssumption DEF Users
<1>3. /\ reader.at = "read" /\ reader.line = Notice /\ reader.to = None /\ reader.line.from = None
  BY DEF Init, Reading, Notice
<1>4. TypeOK
  <2>1. reader \in [at : {"read", "deliver", "pass", "over"}, line : Lines \cup {Notice}, to : Calls \cup {None}]
    BY DEF Init, Reading
  <2>2. /\ pc \in [Users -> Steps] /\ key \in [Calls -> Ids \cup {None}]
        /\ result \in [Calls -> Users \cup {None, Failed}]
        /\ pending \in [Ids -> Calls \cup {None}] /\ chan \in [Calls -> Users \cup {None, Failed}]
    BY DEF Init, Steps
  <2>3. /\ sequence \in 0 .. MaxId /\ notices \in 0 .. MaxNotices
        /\ writer \in Users \cup {None} /\ alive \in BOOLEAN /\ working \subseteq Lines
        /\ waiter \in {"wait", "drain", "done"} /\ closed \in BOOLEAN
    <3>1. 0 \in 0 .. MaxId /\ 0 \in 0 .. MaxNotices
      BY <1>2
    <3> QED BY <3>1 DEF Init
  <2>4. Len(stdin) <= PipeSize /\ Len(stdout) <= PipeSize /\ Len(inbound) <= InboundSize
    BY <1>1, <1>2
  <2> QED BY <1>1, <2>1, <2>2, <2>3, <2>4 DEF TypeOK
<1>5. KeysInv /\ CallsInv
  BY <1>2 DEF Init, KeysInv, CallsInv, OwnReply
<1>6. TableInv
  BY DEF Init, TableInv
<1>7. ReaderInv
  BY <1>3 DEF Init, ReaderInv, Keyed
<1>8. LinesInv
  BY <1>1 DEF Init, LinesInv, Orderly
<1>9. OnceInv
  BY <1>1, <1>2, <1>3 DEF Init, OnceInv, Holds, Works
<1>10. GoneInv /\ NoReplyAstray
  BY <1>3 DEF Init, GoneInv, NoReplyAstray
<1> QED BY <1>4, <1>5, <1>6, <1>7, <1>8, <1>9, <1>10 DEF RInv

LEMMA RInvKept == RInv /\ [Next]_vars => RInv'
<1> SUFFICES ASSUME RInv, [Next]_vars
             PROVE  RInv'
  OBVIOUS
<1>1. CASE \E c \in Calls : Register(c) \/ Await(c)
  BY <1>1, RegisterKeeps, ReceiveKeeps, GivesUpKeeps, RemovePendingKeeps DEF Await
<1>2. CASE \E s \in Sends : Forward(s)
  BY <1>2, ForwardKeeps
<1>3. CASE \E u \in Users : Transmit(u)
  BY <1>3, LockWriterKeeps, WriteKeeps DEF Transmit
<1>4. CASE ReadLoop
  BY <1>4, ReadLineKeeps, SkipLineKeeps, ReadEndsKeeps, DeliverKeeps, PassKeeps DEF ReadLoop
<1>5. CASE WaitLoop
  BY <1>5, WaitReturnsKeeps, FailPendingKeeps, DrainedKeeps DEF WaitLoop
<1>6. CASE HandleInbound
  BY <1>6, HandleInboundKeeps
<1>7. CASE AppServer
  BY <1>7, TakeRequestKeeps, AnswerRequestKeeps, NotifyKeeps, ExitKeeps DEF AppServer
<1>8. CASE UNCHANGED vars
  <2>1. TypeOK'
    BY <1>8 DEF vars, callers, child, RInv, TypeOK
  <2> QED BY <1>8, <2>1, ApartKeeps DEF vars, child
<1> QED BY <1>1, <1>2, <1>3, <1>4, <1>5, <1>6, <1>7, <1>8 DEF Next

LEMMA RInvAlways == Spec => []RInv
  BY RInvStarts, RInvKept, PTL DEF Spec
-----------------------------------------------------------------------------
(* Every queue stays within its capacity and every entry, reply and holder  *)
(* is of its kind, whatever the calls and the sizes.                        *)
THEOREM RpcTypes == Spec => []TypeOK
<1>1. RInv => TypeOK
  BY DEF RInv
<1> QED BY <1>1, RInvAlways, PTL

(* Request never returns another call's reply, however replies are          *)
(* reordered, given up on or overtaken by the exit of the child.            *)
THEOREM RepliesReachTheirCallers == Spec => []OwnReply
<1>1. RInv => OwnReply
  BY DEF RInv, CallsInv
<1> QED BY <1>1, RInvAlways, PTL

(* readLoop and waitLoop never find the channel of a call full: each call   *)
(* is told once, by whoever took its entry from the table.                  *)
THEOREM LoopsNeverBlockOnCallers == Spec => []NoBlockedSend
<1>1. RInv => NoBlockedSend
  BY DEF RInv, NoBlockedSend, ReaderInv, TableInv
<1> QED BY <1>1, RInvAlways, PTL

(* readLoop drops no reply a caller still waits for.                        *)
THEOREM RepliesStayOnCourse == Spec => []NoReplyAstray
<1>1. RInv => NoReplyAstray
  BY DEF RInv
<1> QED BY <1>1, RInvAlways, PTL

(* The table of pending calls does not grow with calls that have returned.  *)
THEOREM PendingTableDrains == Spec => []NoLeak
<1>1. RInv => NoLeak
  BY DEF RInv, NoLeak, TableInv
<1> QED BY <1>1, RInvAlways, PTL
=============================================================================
