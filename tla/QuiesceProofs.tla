--------------------------- MODULE QuiesceProofs ---------------------------
(***************************************************************************)
(* Proofs about one call of the quiescence loop (Quiesce): its types with  *)
(* the bound on its scans, and that its verdict rests on what was really   *)
(* seen, for every set of processes and every timeout.                     *)
(***************************************************************************)
EXTENDS Quiesce, TLAPS

\* A scan is only begun below the bound; only the end gives a verdict, which
\* the caller may find after it has put the loop off.
Bounded ==
  /\ clean =< scans
  /\ qpc \in {"first", "quit", "scan"} => scans < MaxScans
  /\ qpc \in {"first", "quit"} => clean = 0 /\ todo = {}
  /\ qpc \notin {"off", "done"} => verdict = "none"

\* The verdict rests on two clean scans in a row.
Said == verdict = "QUIESCENT" => rows = {} /\ clean >= 2

\* While the last real inventory showed something, or there was none, every
\* clean scan of the row was a blind one.
Grounded == seen # {} => clean =< blind

QInv == QTypeOK /\ Bounded /\ Said /\ Grounded

LEMMA MaxScansType == MaxScans \in Nat /\ MaxScans >= 2
  BY QuiesceAssumption DEF MaxScans

LEMMA OwnedType == Owned(image) \subseteq Pid
  BY DEF Owned

\* A process that starts or exits leaves a snapshot, and the loop alone.
LEMMA EnvironmentKeeps == QInv /\ Environment => QInv'
<1> SUFFICES ASSUME QInv, Environment PROVE QInv'
  OBVIOUS
<1>1. PICK p \in Pid : Start(p) \/ Exit(p)
  BY DEF Environment
<1>2. image' \in Snapshot /\ starts' \in 0..MaxStarts
  BY <1>1, QuiesceAssumption DEF QInv, QTypeOK, Start, Exit, Snapshot, Image
<1>3. UNCHANGED loopVars
  BY <1>1 DEF Start, Exit
<1> QED
  BY <1>2, <1>3 DEF QInv, QTypeOK, Bounded, Said, Grounded, loopVars

\* What one inventory may leave behind.
LEMMA InventoryKeeps ==
  ASSUME NEW good, Inventory(good), QTypeOK
  PROVE  /\ rows' \subseteq Pid /\ seen' \subseteq Pid \cup {NoPid}
         /\ blind' \in 0..MaxBlind
         /\ \/ blind' = blind /\ seen' = rows'
            \/ blind' = blind + 1 /\ seen' = seen /\ rows' = {}
  BY OwnedType, QuiesceAssumption DEF Inventory, QTypeOK

LEMMA CallKeeps == QInv /\ Call => QInv'
  BY MaxScansType DEF QInv, QTypeOK, Bounded, Said, Grounded, Call, procVars

LEMMA FirstReadKeeps == QInv /\ FirstRead => QInv'
<1> SUFFICES ASSUME QInv, FirstRead PROVE QInv'
  OBVIOUS
<1>1. /\ rows' \subseteq Pid /\ seen' \subseteq Pid \cup {NoPid} /\ blind' \in 0..MaxBlind
      /\ qpc' \in {"scan", "quit"} /\ faults' \in Nat
  BY InventoryKeeps, QuiesceAssumption DEF FirstRead, QInv, QTypeOK, Inventory, Owned
<1>2. todo = {} /\ clean = 0
  BY DEF QInv, QTypeOK, Bounded, FirstRead
<1> QED
  BY <1>1, <1>2, QuiesceAssumption DEF QInv, QTypeOK, Bounded, Said, Grounded, FirstRead, procVars

LEMMA AskToQuitKeeps == QInv /\ AskToQuit => QInv'
  BY QuiesceAssumption DEF QInv, QTypeOK, Bounded, Said, Grounded, AskToQuit, Later, procVars

LEMMA ScanKeeps == QInv /\ Scan => QInv'
<1> SUFFICES ASSUME QInv, Scan PROVE QInv'
  OBVIOUS
<1>1. scans' \in 0..MaxScans /\ scans' = scans + 1
  BY MaxScansType DEF QInv, QTypeOK, Bounded, Scan
<1>2. CASE /\ Inventory(qpc' = IF rows' = {} THEN "check" ELSE "kill")
           /\ clean' = IF rows' = {} THEN clean + 1 ELSE 0
           /\ todo' = rows'
           /\ UNCHANGED faults
  <2>1. qpc' = IF rows' = {} THEN "check" ELSE "kill"
    BY <1>2 DEF Inventory
  <2>2. /\ rows' \subseteq Pid /\ seen' \subseteq Pid \cup {NoPid} /\ blind' \in 0..MaxBlind
        /\ \/ blind' = blind /\ seen' = rows'
           \/ blind' = blind + 1 /\ seen' = seen /\ rows' = {}
    BY <1>2, InventoryKeeps DEF QInv
  <2>3. clean' \in 0..MaxScans /\ clean' =< scans'
    BY <1>1, <1>2, MaxScansType DEF QInv, QTypeOK, Bounded, Scan
  <2>4. Grounded'
    BY <1>2, <2>2, QuiesceAssumption DEF QInv, QTypeOK, Grounded
  <2>5. verdict' = verdict
    BY <2>1 DEF Scan
  <2> QED
    BY <1>1, <1>2, <2>1, <2>2, <2>3, <2>4, <2>5 DEF QInv, QTypeOK, Bounded, Said, Scan, procVars
<1>3. CASE /\ blind < MaxBlind /\ blind' = blind + 1
           /\ faults' = faults + 1 /\ clean' = 0 /\ qpc' = "done"
           /\ UNCHANGED <<rows, todo, seen>>
  BY <1>1, <1>3, MaxScansType, QuiesceAssumption
  DEF QInv, QTypeOK, Bounded, Said, Grounded, Scan, procVars
<1> QED
  BY <1>2, <1>3 DEF Scan

LEMMA TerminateKeeps == QInv /\ Terminate => QInv'
<1> SUFFICES ASSUME QInv, Terminate PROVE QInv'
  OBVIOUS
<1>1. PICK p \in Deepest(todo, rows), t \in 0..KillTime, dies \in BOOLEAN :
        /\ image' = IF dies THEN [image EXCEPT ![p] = "none"] ELSE image
        /\ clock' = IF clock + t > Timeout THEN Timeout ELSE clock + t
        /\ todo' = todo \ {p}
  BY DEF Terminate
<1>2. image' \in Snapshot
  BY <1>1 DEF QInv, QTypeOK, Snapshot, Image
<1>3. clock' \in Nat
  BY <1>1, QuiesceAssumption DEF QInv, QTypeOK
<1>4. todo' \subseteq rows
  BY <1>1 DEF QInv, QTypeOK
<1> QED
  BY <1>2, <1>3, <1>4 DEF QInv, QTypeOK, Bounded, Said, Grounded, Terminate

LEMMA TurnOverKeeps == QInv /\ TurnOver => QInv'
  BY MaxScansType, QuiesceAssumption
  DEF QInv, QTypeOK, Bounded, Said, Grounded, TurnOver, Later, procVars

LEMMA LoopKeeps == QInv /\ Loop => QInv'
  BY FirstReadKeeps, AskToQuitKeeps, ScanKeeps, TerminateKeeps, TurnOverKeeps DEF Loop

LEMMA IdleKeeps == QInv /\ UNCHANGED quiesceVars => QInv'
  BY DEF quiesceVars, procVars, loopVars, QInv, QTypeOK, Bounded, Said, Grounded

\* A caller that puts the loop off, or takes a snapshot of its own.
LEMMA CallerKeeps ==
  ASSUME QInv, qpc' \in {qpc, "off"}, blind' \in {blind, blind + 1}, blind' =< MaxBlind,
         UNCHANGED <<procVars, rows, todo, scans, clean, faults, clock, verdict, seen>>
  PROVE  QInv'
  BY QuiesceAssumption DEF QInv, QTypeOK, Bounded, Said, Grounded, procVars

LEMMA QStarts == QInit => QInv
  BY MaxScansType, QuiesceAssumption DEF QInit, QInv, QTypeOK, Bounded, Said, Grounded

LEMMA QInvInductive == QuiesceSpec => []QInv
<1>1. QInv /\ [Call \/ Loop \/ Environment]_quiesceVars => QInv'
  BY CallKeeps, LoopKeeps, EnvironmentKeeps, IdleKeeps
<1> QED
  BY <1>1, QStarts, PTL DEF QuiesceSpec

\* Type correctness of the loop; that scans stay within MaxScans is part of it
\* (the "while" of quiesce_processes_under_root, discovery.py:942-992).
THEOREM QuiesceTypes == QuiesceSpec => []QTypeOK
  BY QInvInductive, PTL DEF QInv

LEMMA QuietIsSeen == MaxBlind =< 1 /\ QInv => QuietWasSeen
  BY QuiesceAssumption DEF QInv, QTypeOK, Said, Grounded, QuietWasSeen

\* With at most one snapshot lost, QUIESCENT is only ever said when the last
\* real inventory was empty, whatever starts and exits meanwhile.
THEOREM QuietVerdict ==
  ASSUME MaxBlind =< 1 PROVE QuiesceSpec => []QuietWasSeen
  BY QuietIsSeen, QInvInductive, PTL
=============================================================================
