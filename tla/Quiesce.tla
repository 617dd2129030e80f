------------------------------- MODULE Quiesce ------------------------------
(***************************************************************************)
(* quiesce_processes_under_root (scripts/windows/discovery.py): before the *)
(* validation shell is replaced, and again after it ran, the tool asks the *)
(* processes under its root to quit, then scans and terminates until two   *)
(* scans in a row are clean, within a deadline.  Processes start and exit  *)
(* by themselves meanwhile.                                                *)
(***************************************************************************)
EXTENDS Processes, Integers

CONSTANTS
  Timeout,      \* VALIDATION_SHELL_QUIESCENCE_TIMEOUT_SECONDS, in intervals
  KillTime,     \* the longest wait for one termination, in intervals
  MaxStarts,    \* bound: processes started while the model runs
  MaxBlind      \* bound: snapshots the system fails to take

ASSUME QuiesceAssumption ==
  Timeout \in Nat /\ KillTime \in Nat /\ MaxStarts \in Nat /\ MaxBlind \in Nat

VARIABLES
  image,      \* Pid -> Image: what runs
  starts,     \* how many processes were started
  blind,      \* how many snapshots failed
  qpc,        \* where the loop is
  rows,       \* the owned rows of the last inventory (remaining_rows)
  todo,       \* rows the terminator has still to visit
  scans,      \* scans made
  clean,      \* clean scans in a row
  faults,     \* inventory_error_count
  clock,      \* time.monotonic() since the call, in intervals
  verdict,    \* "none" while it runs, then "QUIESCENT" or "BUSY"
  seen        \* history: owned pids a scan really saw since the last real one

procVars == <<image, starts>>
loopVars == <<blind, qpc, rows, todo, scans, clean, faults, clock, verdict, seen>>
quiesceVars == <<procVars, loopVars>>

MaxScans == IF Timeout + 2 > 2 THEN Timeout + 2 ELSE 2

QTypeOK ==
  /\ image \in Snapshot
  /\ starts \in 0..MaxStarts
  /\ blind \in 0..MaxBlind
  /\ qpc \in {"off", "first", "quit", "scan", "kill", "check", "done"}
  /\ rows \subseteq Pid /\ todo \subseteq rows
  /\ scans \in 0..MaxScans /\ clean \in 0..MaxScans
  /\ faults \in Nat /\ clock \in Nat
  /\ verdict \in {"none", "QUIESCENT", "BUSY"}
  /\ seen \subseteq Pid \cup {NoPid}

QInit ==
  /\ image \in Snapshot /\ starts = 0 /\ blind = 0
  /\ qpc = "off" /\ rows = {} /\ todo = {} /\ scans = 0 /\ clean = 0
  /\ faults = 0 /\ clock = 0 /\ verdict = "none" /\ seen = {NoPid}

-----------------------------------------------------------------------------
(* The system's processes.  A pid is not given out twice.                   *)

Start(p) ==
  /\ image[p] = "none" /\ starts < MaxStarts
  /\ Parent[p] # NoPid => image[Parent[p]] # "none"
  /\ \E i \in Live : image' = [image EXCEPT ![p] = i]
  /\ starts' = starts + 1
  /\ UNCHANGED loopVars

Exit(p) ==
  /\ image[p] # "none"
  /\ image' = [image EXCEPT ![p] = "none"]
  /\ UNCHANGED <<starts, loopVars>>

-----------------------------------------------------------------------------
(* The loop.                                                                *)

\* quiesce_processes_under_root is called: every counter starts from zero.
Call ==
  /\ qpc = "off"
  /\ qpc' = "first" /\ clock' = 0 /\ scans' = 0 /\ clean' = 0 /\ faults' = 0
  /\ rows' = {} /\ todo' = {} /\ verdict' = "none" /\ seen' = {NoPid}
  /\ UNCHANGED <<procVars, blind>>

\* read_owned_rows: the inventory of a snapshot.  A snapshot the system
\* cannot take comes back empty (discover_process_snapshot_native), and
\* NoPid in seen stands for that nobody has looked yet.
Inventory(good) ==
  \/ rows' = Owned(image) /\ seen' = Owned(image) /\ UNCHANGED blind /\ good
  \/ blind < MaxBlind /\ blind' = blind + 1
     /\ rows' = {} /\ UNCHANGED seen /\ good

\* The first inventory; one that raises only counts as a fault.
FirstRead ==
  /\ qpc = "first"
  /\ \/ Inventory(qpc' = IF rows' = {} THEN "scan" ELSE "quit") /\ UNCHANGED faults
     \/ /\ blind < MaxBlind /\ blind' = blind + 1
        /\ faults' = faults + 1 /\ qpc' = "scan"
        /\ UNCHANGED <<rows, seen>>
  /\ UNCHANGED <<procVars, todo, scans, clean, clock, verdict>>

Later(t) == IF t < Timeout THEN t + 1 ELSE t

\* graceful_quit: the shell is asked over its test bridge and may or may not
\* exit (Exit); one interval passes before the first scan.
AskToQuit ==
  /\ qpc = "quit"
  /\ clock' = Later(clock) /\ qpc' = "scan"
  /\ UNCHANGED <<procVars, blind, rows, todo, scans, clean, faults, verdict, seen>>

(* Seeded fault: only clean scans are counted towards the bound. *)
ScanCountingClean ==
  /\ qpc = "scan"
  /\ \/ /\ Inventory(qpc' = IF rows' = {} THEN "check" ELSE "kill")
        /\ clean' = IF rows' = {} THEN clean + 1 ELSE 0
        /\ scans' = IF rows' = {} THEN scans + 1 ELSE scans
        /\ todo' = rows'
        /\ UNCHANGED faults
     \/ /\ blind < MaxBlind /\ blind' = blind + 1
        /\ faults' = faults + 1 /\ clean' = 0 /\ qpc' = "done"
        /\ UNCHANGED <<rows, todo, scans, seen>>
  /\ UNCHANGED <<procVars, clock>>
  /\ verdict' = IF qpc' = "done" THEN "BUSY" ELSE verdict

\* One scan: a fault ends the loop, owned rows go to the terminator, a clean
\* scan counts.
Scan ==
  /\ qpc = "scan"
  /\ scans' = scans + 1
  /\ \/ /\ Inventory(qpc' = IF rows' = {} THEN "check" ELSE "kill")
        /\ clean' = IF rows' = {} THEN clean + 1 ELSE 0
        /\ todo' = rows'
        /\ UNCHANGED faults
     \/ /\ blind < MaxBlind /\ blind' = blind + 1
        /\ faults' = faults + 1 /\ clean' = 0 /\ qpc' = "done"
        /\ UNCHANGED <<rows, todo, seen>>
  /\ UNCHANGED <<procVars, clock>>
  /\ verdict' = IF qpc' = "done" THEN "BUSY" ELSE verdict

\* terminate_processes_under_root, one pid: it is gone already, or it exits
\* within the wait, or the wait or the call fails.
Terminate ==
  /\ qpc = "kill"
  /\ \E p \in Deepest(todo, rows), t \in 0..KillTime, dies \in BOOLEAN :
       /\ image' = IF dies THEN [image EXCEPT ![p] = "none"] ELSE image
       /\ clock' = IF clock + t > Timeout THEN Timeout ELSE clock + t
       /\ todo' = todo \ {p}
  /\ qpc' = IF todo' = {} THEN "check" ELSE "kill"
  /\ UNCHANGED <<starts, blind, rows, scans, clean, faults, verdict, seen>>

(* Seeded fault: one clean scan is taken for two. *)
TurnOverAtOnce ==
  LET proven == rows = {} /\ clean >= 1 /\ faults = 0
      over == proven \/ (scans >= 2 /\ clock >= Timeout) \/ scans >= MaxScans
  IN  /\ qpc = "check"
      /\ qpc' = IF over THEN "done" ELSE "scan"
      /\ clock' = IF over THEN clock ELSE Later(clock)
      /\ verdict' = CASE ~over -> verdict [] proven -> "QUIESCENT" [] OTHER -> "BUSY"
      /\ UNCHANGED <<procVars, blind, rows, todo, scans, clean, faults, seen>>

\* The end of a turn of the loop: two clean scans, the deadline or the scan
\* bound end it, else an interval passes.
TurnOver ==
  LET proven == rows = {} /\ clean >= 2 /\ faults = 0
      over == proven \/ (scans >= 2 /\ clock >= Timeout) \/ scans >= MaxScans
  IN  /\ qpc = "check"
      /\ qpc' = IF over THEN "done" ELSE "scan"
      /\ clock' = IF over THEN clock ELSE Later(clock)
      /\ verdict' = CASE ~over -> verdict [] proven -> "QUIESCENT" [] OTHER -> "BUSY"
      /\ UNCHANGED <<procVars, blind, rows, todo, scans, clean, faults, seen>>

Environment == \E p \in Pid : Start(p) \/ Exit(p)
Loop == FirstRead \/ AskToQuit \/ Scan \/ Terminate \/ TurnOver

\* One call of the loop by itself, among the system's processes.
QuiesceSpec == QInit /\ [][Call \/ Loop \/ Environment]_quiesceVars

\* QUIESCENT is never said of a root whose last real inventory showed a
\* process, when one snapshot at most is lost (discovery.py:942-992).
QuietWasSeen == verdict = "QUIESCENT" => seen = {}
=============================================================================
