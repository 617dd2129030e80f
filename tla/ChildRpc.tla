------------------------------- MODULE ChildRpc -------------------------------
(***************************************************************************)
(* internal/backend/child.go: one app-server process and the goroutines    *)
(* around it.  Callers await a Request; the router passes the client's     *)
(* requests on with SendRaw; readLoop hands replies to callers and all     *)
(* else to the inbound channel; waitLoop reports the exit.  Pipes and the  *)
(* channel are bounded, and whoever finds one full blocks.                 *)
(***************************************************************************)
EXTENDS Naturals, Sequences, FiniteSets

CONSTANTS
  Calls,       \* uses of Request, each with a deadline
  Sends,       \* client requests passed on by SendRaw, under their own ids
  None,        \* no id, no call, nothing received
  Failed,      \* an error in place of a reply
  PipeSize,    \* bound: messages a pipe of the child holds
  InboundSize, \* bound: messages the inbound channel holds (1024 in mux.New)
  MaxId,       \* bound: internal ids drawn from c.sequence
  MaxNotices   \* bound: notices the child emits

ASSUME RpcAssumption ==
  /\ PipeSize \in Nat \ {0}
  /\ InboundSize \in Nat
  /\ MaxId \in Nat
  /\ MaxNotices \in Nat
  /\ Calls \cap Sends = {}
  /\ {None, Failed} \cap (Calls \cup Sends \cup (1 .. MaxId)) = {}
  /\ Sends \cap (1 .. MaxId) = {}
  /\ None # Failed

Users == Calls \cup Sends
Ids == 1 .. MaxId

(* A line on a pipe: its id, and whose request it is or answers.           *)
Lines == [id : Ids \cup Sends, from : Users]
Notice == [id |-> None, from |-> None]

VARIABLES
  pc,       \* where each caller or sender stands
  key,      \* the id each call was given
  result,   \* what each call returned: whose reply, or Failed
  sequence, \* c.sequence
  pending,  \* c.pending: the call that waits for each id
  chan,     \* each call's channel, of capacity one
  writer,   \* the holder of c.writeMu
  stdin,    \* the pipe to the child
  stdout,   \* the pipe from the child
  alive,    \* does the child run?
  working,  \* the requests the child has read and not answered
  notices,  \* how many notices the child has emitted
  reader,   \* readLoop: what it holds and where that must go
  waiter,   \* waitLoop
  closed,   \* c.closed
  inbound   \* the channel to the inbound loop

callers == <<pc, key, result, sequence, writer>>
child == <<alive, working, notices>>
vars == <<callers, pending, chan, stdin, stdout, child, reader, waiter, closed, inbound>>

Steps == {"idle", "send", "write", "wait", "giveup", "done"}
Reading == [at |-> "read", line |-> Notice, to |-> None]

(* waitLoop keeps c.pendingMu while it fails what is still pending.        *)
TableFree == waiter # "drain"
-----------------------------------------------------------------------------
Init ==
  /\ pc = [u \in Users |-> "idle"]
  /\ key = [c \in Calls |-> None]
  /\ result = [c \in Calls |-> None]
  /\ sequence = 0
  /\ pending = [i \in Ids |-> None]
  /\ chan = [c \in Calls |-> None]
  /\ writer = None
  /\ stdin = <<>>
  /\ stdout = <<>>
  /\ alive = TRUE
  /\ working = {}
  /\ notices = 0
  /\ reader = Reading
  /\ waiter = "wait"
  /\ closed = FALSE
  /\ inbound = <<>>

Goes(u, step) == pc' = [pc EXCEPT ![u] = step]

(* Seeded fault: the id is read from the counter and incremented later.    *)
RegisterRacing(c) ==
  /\ pc[c] = "idle"
  /\ TableFree
  /\ sequence < MaxId
  /\ sequence' \in {sequence, sequence + 1}
  /\ key' = [key EXCEPT ![c] = sequence + 1]
  /\ pending' = [pending EXCEPT ![sequence + 1] = c]
  /\ Goes(c, "send")
  /\ UNCHANGED <<result, writer, chan, stdin, stdout, child, reader, waiter, closed, inbound>>

(* Request draws an id and makes the call pending, ...                     *)
Register(c) ==
  /\ pc[c] = "idle"
  /\ TableFree
  /\ sequence < MaxId
  /\ sequence' = sequence + 1
  /\ key' = [key EXCEPT ![c] = sequence']
  /\ pending' = [pending EXCEPT ![sequence'] = c]
  /\ Goes(c, "send")
  /\ UNCHANGED <<result, writer, chan, stdin, stdout, child, reader, waiter, closed, inbound>>

Forward(s) ==
  /\ pc[s] = "idle"
  /\ Goes(s, "send")
  /\ UNCHANGED <<key, result, sequence, writer, pending, chan, stdin, stdout, child,
                 reader, waiter, closed, inbound>>

(* Where a send leads, and what a failed one leaves a call with.           *)
SendEnds(u, ok) ==
  IF u \in Sends
    THEN Goes(u, "done") /\ UNCHANGED result
    ELSE /\ Goes(u, IF ok THEN "wait" ELSE "giveup")
         /\ result' = IF ok THEN result ELSE [result EXCEPT ![u] = Failed]

(* SendRaw takes the write lock, and fails once the child is closed, ...   *)
LockWriter(u) ==
  /\ pc[u] = "send"
  /\ writer = None
  /\ IF closed
       THEN SendEnds(u, FALSE) /\ UNCHANGED writer
       ELSE Goes(u, "write") /\ writer' = u /\ UNCHANGED result
  /\ UNCHANGED <<key, sequence, pending, chan, stdin, stdout, child, reader, waiter, closed, inbound>>

(* Seeded fault: the id is taken from the counter again when the request   *)
(* is encoded.                                                             *)
LineOfLatest(u) == [id |-> IF u \in Sends THEN u ELSE sequence, from |-> u]

LineOf(u) == [id |-> IF u \in Sends THEN u ELSE key[u], from |-> u]

(* ... writes when the pipe has room, and fails when the child is gone.    *)
Write(u) ==
  /\ pc[u] = "write"
  /\ alive => Len(stdin) < PipeSize
  /\ stdin' = IF alive THEN Append(stdin, LineOf(u)) ELSE stdin
  /\ SendEnds(u, alive)
  /\ writer' = None
  /\ UNCHANGED <<key, sequence, pending, chan, stdout, child, reader, waiter, closed, inbound>>

(* Request's select: a reply or the exit is received, or the deadline has  *)
(* passed or the child is closed; any case that is ready may win.          *)
Receive(c) ==
  /\ pc[c] = "wait"
  /\ chan[c] # None
  /\ chan' = [chan EXCEPT ![c] = None]
  /\ result' = [result EXCEPT ![c] = chan[c]]
  /\ Goes(c, "done")
  /\ UNCHANGED <<key, sequence, writer, pending, stdin, stdout, child, reader, waiter, closed, inbound>>

GivesUp(c) ==
  /\ pc[c] = "wait"
  /\ result' = [result EXCEPT ![c] = Failed]
  /\ Goes(c, "giveup")
  /\ UNCHANGED <<key, sequence, writer, pending, chan, stdin, stdout, child, reader, waiter, closed, inbound>>

(* Seeded fault: a call that gives up leaves its entry in the table.       *)
LeavePending(c) ==
  /\ pc[c] = "giveup"
  /\ TableFree
  /\ Goes(c, "done")
  /\ UNCHANGED <<key, result, sequence, writer, pending, chan, stdin, stdout, child,
                 reader, waiter, closed, inbound>>

(* removePending, on the ways out that have an error of their own.         *)
RemovePending(c) ==
  /\ pc[c] = "giveup"
  /\ TableFree
  /\ pending' = [pending EXCEPT ![key[c]] = None]
  /\ Goes(c, "done")
  /\ UNCHANGED <<key, result, sequence, writer, chan, stdin, stdout, child, reader, waiter, closed, inbound>>
-----------------------------------------------------------------------------
(* Seeded fault: the entry stays until the caller removes it.              *)
ReadLineKeepingEntry ==
  /\ reader.at = "read"
  /\ TableFree
  /\ stdout # <<>>
  /\ stdout' = Tail(stdout)
  /\ LET line == Head(stdout)
         call == IF line.id \in Ids THEN pending[line.id] ELSE None
     IN  reader' = [at |-> IF call # None THEN "deliver" ELSE "pass", line |-> line, to |-> call]
  /\ UNCHANGED <<callers, pending, chan, stdin, child, waiter, closed, inbound>>

(* readLoop parses a line; a reply to a pending call takes its entry away. *)
ReadLine ==
  /\ reader.at = "read"
  /\ TableFree
  /\ stdout # <<>>
  /\ stdout' = Tail(stdout)
  /\ LET line == Head(stdout)
         call == IF line.id \in Ids THEN pending[line.id] ELSE None
     IN  /\ pending' = IF call # None THEN [pending EXCEPT ![line.id] = None] ELSE pending
         /\ reader' = [at |-> IF call # None THEN "deliver" ELSE "pass", line |-> line, to |-> call]
  /\ UNCHANGED <<callers, chan, stdin, child, waiter, closed, inbound>>

(* A line that is not JSON is skipped, ...                                 *)
SkipLine ==
  /\ reader.at = "read"
  /\ stdout # <<>>
  /\ stdout' = Tail(stdout)
  /\ UNCHANGED <<callers, pending, chan, stdin, child, reader, waiter, closed, inbound>>

(* ... and one that the scanner cannot read, or the end of the pipe, is the *)
(* last: readLoop returns, and nobody reads the child's output any more.   *)
ReadEnds ==
  /\ reader.at = "read"
  /\ stdout # <<>> \/ ~alive
  /\ reader' = [Reading EXCEPT !.at = "over"]
  /\ UNCHANGED <<callers, pending, chan, stdin, stdout, child, waiter, closed, inbound>>

Deliver ==
  /\ reader.at = "deliver"
  /\ chan[reader.to] = None
  /\ chan' = [chan EXCEPT ![reader.to] = reader.line.from]
  /\ reader' = Reading
  /\ UNCHANGED <<callers, pending, stdin, stdout, child, waiter, closed, inbound>>

(* Seeded fault: the hand-over to the inbound loop does not wait for room. *)
PassAnyway ==
  /\ reader.at = "pass"
  /\ inbound' = Append(inbound, reader.line)
  /\ reader' = Reading
  /\ UNCHANGED <<callers, pending, chan, stdin, stdout, child, waiter, closed>>

Pass ==
  /\ reader.at = "pass"
  /\ Len(inbound) < InboundSize
  /\ inbound' = Append(inbound, reader.line)
  /\ reader' = Reading
  /\ UNCHANGED <<callers, pending, chan, stdin, stdout, child, waiter, closed>>

(* The inbound loop takes the next message, when the client lets it.       *)
HandleInbound ==
  /\ inbound # <<>>
  /\ inbound' = Tail(inbound)
  /\ UNCHANGED <<callers, pending, chan, stdin, stdout, child, reader, waiter, closed>>

(* Wait returns: it closes the child's pipes, whatever readLoop has not    *)
(* read of them is lost, and the callers are told that the child is closed.*)
WaitReturns ==
  /\ waiter = "wait"
  /\ ~alive
  /\ \E n \in 0 .. Len(stdout) : stdout' = SubSeq(stdout, 1, n)
  /\ closed' = TRUE
  /\ waiter' = "drain"
  /\ UNCHANGED <<callers, pending, chan, stdin, child, reader, inbound>>

(* Every call still pending is told of the exit, under c.pendingMu.        *)
FailPending(i) ==
  /\ waiter = "drain"
  /\ pending[i] # None
  /\ chan[pending[i]] = None
  /\ chan' = [chan EXCEPT ![pending[i]] = Failed]
  /\ pending' = [pending EXCEPT ![i] = None]
  /\ UNCHANGED <<callers, stdin, stdout, child, reader, waiter, closed, inbound>>

Drained ==
  /\ waiter = "drain"
  /\ \A i \in Ids : pending[i] = None
  /\ waiter' = "done"
  /\ UNCHANGED <<callers, pending, chan, stdin, stdout, child, reader, closed, inbound>>
-----------------------------------------------------------------------------
(* The app-server: reads, answers each request once in any order or not at *)
(* all, emits notices, and may exit or be terminated at any instant.       *)
TakeRequest ==
  /\ alive
  /\ stdin # <<>>
  /\ working' = working \cup {Head(stdin)}
  /\ stdin' = Tail(stdin)
  /\ UNCHANGED <<callers, pending, chan, stdout, alive, notices, reader, waiter, closed, inbound>>

AnswerRequest(line) ==
  /\ alive
  /\ Len(stdout) < PipeSize
  /\ stdout' = Append(stdout, line)
  /\ working' = working \ {line}
  /\ UNCHANGED <<callers, pending, chan, stdin, alive, notices, reader, waiter, closed, inbound>>

Notify ==
  /\ alive
  /\ notices < MaxNotices
  /\ Len(stdout) < PipeSize
  /\ stdout' = Append(stdout, Notice)
  /\ notices' = notices + 1
  /\ UNCHANGED <<callers, pending, chan, stdin, alive, working, reader, waiter, closed, inbound>>

Exit ==
  /\ alive
  /\ alive' = FALSE
  /\ stdin' = <<>>
  /\ working' = {}
  /\ UNCHANGED <<callers, pending, chan, stdout, notices, reader, waiter, closed, inbound>>
-----------------------------------------------------------------------------
Await(c) == Receive(c) \/ GivesUp(c) \/ RemovePending(c)
Transmit(u) == LockWriter(u) \/ Write(u)
ReadLoop == ReadLine \/ SkipLine \/ ReadEnds \/ Deliver \/ Pass
WaitLoop == WaitReturns \/ (\E i \in Ids : FailPending(i)) \/ Drained
AppServer ==
  TakeRequest \/ (\E line \in working : AnswerRequest(line)) \/ Notify \/ Exit

Next ==
  \/ \E c \in Calls : Register(c) \/ Await(c)
  \/ \E s \in Sends : Forward(s)
  \/ \E u \in Users : Transmit(u)
  \/ ReadLoop \/ WaitLoop \/ HandleInbound \/ AppServer

Spec == Init /\ [][Next]_vars

(* The scheduler runs every goroutine that can move, a deadline passes and *)
(* Wait returns.  Nothing is asked of the child or of the client.          *)
Fairness ==
  /\ \A c \in Calls : WF_vars(Await(c))
  /\ \A u \in Users : WF_vars(Transmit(u))
  /\ WF_vars(WaitLoop)

FairSpec == Spec /\ Fairness
-----------------------------------------------------------------------------
(* Type correctness, with the capacity of every queue.                     *)
TypeOK ==
  /\ pc \in [Users -> Steps]
  /\ key \in [Calls -> Ids \cup {None}]
  /\ result \in [Calls -> Users \cup {None, Failed}]
  /\ sequence \in 0 .. MaxId
  /\ pending \in [Ids -> Calls \cup {None}]
  /\ chan \in [Calls -> Users \cup {None, Failed}]
  /\ writer \in Users \cup {None}
  /\ stdin \in Seq(Lines) /\ Len(stdin) <= PipeSize
  /\ stdout \in Seq(Lines \cup {Notice}) /\ Len(stdout) <= PipeSize
  /\ alive \in BOOLEAN
  /\ working \subseteq Lines
  /\ notices \in 0 .. MaxNotices
  /\ reader \in [at : {"read", "deliver", "pass", "over"}, line : Lines \cup {Notice}, to : Calls \cup {None}]
  /\ waiter \in {"wait", "drain", "done"}
  /\ closed \in BOOLEAN
  /\ inbound \in Seq(Lines \cup {Notice}) /\ Len(inbound) <= InboundSize

(* A call that returns a reply returns the reply to its own request.       *)
OwnReply == \A c \in Calls : result[c] \in {None, Failed, c}

(* readLoop and, under c.pendingMu, waitLoop never find a call's channel   *)
(* full, or every user of the child would stop behind them.                *)
NoBlockedSend ==
  /\ reader.at = "deliver" => chan[reader.to] = None
  /\ waiter = "drain" => \A i \in Ids : pending[i] # None => chan[pending[i]] = None

(* A reply that readLoop passes on to the inbound loop, which drops it,    *)
(* answers a client request or a call that fails.                          *)
NoReplyAstray ==
  reader.at = "pass" /\ reader.line.from \in Calls =>
    result[reader.line.from] = Failed \/ chan[reader.line.from] = Failed

(* A call that has returned leaves no entry in the table.                  *)
NoLeak == \A i \in Ids : pending[i] # None => pc[pending[i]] # "done"

(* However slow the child and the client are, every call returns, unless   *)
(* the child lives and never reads again: no deadline covers a write.      *)
WriterStuck == alive /\ writer # None /\ Len(stdin) = PipeSize
EveryCallReturns ==
  \A c \in Calls : pc[c] = "send" ~> (pc[c] = "done" \/ []WriterStuck)
=============================================================================
