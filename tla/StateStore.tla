------------------------------ MODULE StateStore ------------------------------
(***************************************************************************)
(* internal/state/store.go: accounts and thread owners, kept in memory     *)
(* under one mutex and written to state.json, through state.json.tmp and a *)
(* rename, before the mutex is released.  The process may be killed at any *)
(* instant and every file operation may fail.                              *)
(***************************************************************************)
EXTENDS FiniteSets

CONSTANTS
  Accounts,  \* account identifiers: randomID never repeats one
  Primary,   \* the account with the user's own Codex home
  Threads,   \* thread identifiers
  None,      \* no account, no file
  Torn       \* a file that was opened for writing and not yet filled

Images == [accts : SUBSET Accounts, enabled : SUBSET Accounts,
           owner : [Threads -> Accounts \cup {None}]]

ASSUME StoreAssumption ==
  /\ Primary \in Accounts
  /\ None \notin Accounts
  /\ None \notin Threads
  /\ None \notin Images
  /\ Torn \notin Images
  /\ None # Torn

VARIABLES
  mem,     \* s.accounts and s.owners
  file,    \* state.json
  tmp,     \* state.json.tmp
  homes,   \* the accounts whose isolated Codex home is set up
  stage,   \* where the one operation that holds s.mu stands
  job,     \* that operation
  seen,    \* history: mem as readers last saw it
  behind,  \* history: has a save failed since the last good one?
  acked    \* history: the owner SetThreadOwner last returned nil for

disk == <<file, tmp, homes>>
vars == <<mem, disk, stage, job, seen, behind, acked>>

Stages == {"down", "idle", "home", "write", "fill", "rename"}
Jobs == [what : {"none", "open", "own", "update", "add"}, acct : Accounts,
         thread : Threads \cup {None}]

(* The state a first run starts with.                                      *)
First == [accts |-> {Primary}, enabled |-> {Primary},
          owner |-> [t \in Threads |-> None]]
Job(what, a, t) == [what |-> what, acct |-> a, thread |-> t]
NoJob == Job("none", Primary, None)
-----------------------------------------------------------------------------
Init ==
  /\ mem = None
  /\ file = None
  /\ tmp = None
  /\ homes = {}
  /\ stage = "down"
  /\ job = NoJob
  /\ seen = None
  /\ behind = FALSE
  /\ acked = [t \in Threads |-> None]

(* Open, for a state root that has a state file: every isolated account's  *)
(* home is set up again.                                                   *)
OpenStored ==
  /\ stage = "down"
  /\ file \in Images
  /\ mem' = file
  /\ homes' = homes \cup (file.accts \ {Primary})
  /\ stage' = "idle"
  /\ seen' = file
  /\ behind' = FALSE
  /\ UNCHANGED <<file, tmp, job, acked>>

(* Seeded fault: a leftover temporary file is taken for a broken store.     *)
OpenForgetting ==
  /\ stage = "down"
  /\ file = None \/ tmp # None
  /\ mem' = First
  /\ stage' = "write"
  /\ job' = Job("open", Primary, None)
  /\ seen' = None
  /\ UNCHANGED <<disk, behind, acked>>

(* Open, on the first run.                                                 *)
OpenFresh ==
  /\ stage = "down"
  /\ file = None
  /\ mem' = First
  /\ stage' = "write"
  /\ job' = Job("open", Primary, None)
  /\ seen' = None
  /\ UNCHANGED <<disk, behind, acked>>

Change(image, j) == mem' = image /\ job' = j /\ stage' = "write"

(* Seeded fault: the table of owners is changed without a save.            *)
SetOwnerUnsaved(t, a) ==
  /\ stage = "idle"
  /\ a \in mem.accts
  /\ mem' = [mem EXCEPT !.owner[t] = a]
  /\ seen' = mem'
  /\ acked' = [acked EXCEPT ![t] = a]
  /\ UNCHANGED <<disk, job, stage, behind>>

SetThreadOwner(t, a) ==
  /\ stage = "idle"
  /\ a \in mem.accts
  /\ IF mem.owner[t] = a
       THEN /\ acked' = [acked EXCEPT ![t] = a]
            /\ UNCHANGED <<mem, job, stage>>
       ELSE /\ Change([mem EXCEPT !.owner[t] = a], Job("own", a, t))
            /\ UNCHANGED acked
  /\ UNCHANGED <<disk, seen, behind>>

UpdateAccount(a, e) ==
  /\ stage = "idle"
  /\ a \in mem.accts
  /\ Change([mem EXCEPT !.enabled = IF e THEN @ \cup {a} ELSE @ \ {a}],
            Job("update", a, None))
  /\ UNCHANGED <<disk, seen, behind, acked>>

(* Seeded fault: the account is listed before its home is set up.          *)
ListBeforeHome(a) ==
  /\ stage = "idle"
  /\ a \notin mem.accts \cup homes
  /\ Change([mem EXCEPT !.accts = @ \cup {a}, !.enabled = @ \cup {a}],
            Job("add", a, None))
  /\ UNCHANGED <<disk, seen, behind, acked>>

(* AddAccount sets the isolated home up first, ...                         *)
MakeHome(a) ==
  /\ stage = "idle"
  /\ a \notin mem.accts \cup homes
  /\ homes' = homes \cup {a}
  /\ job' = Job("add", a, None)
  /\ stage' = "home"
  /\ UNCHANGED <<mem, file, tmp, seen, behind, acked>>

(* Seeded fault: a new account starts out disabled.                        *)
AppendDisabled ==
  /\ stage = "home"
  /\ Change([mem EXCEPT !.accts = @ \cup {job.acct}], job)
  /\ UNCHANGED <<disk, seen, behind, acked>>

(* ... and then lists the account.                                         *)
AppendAccount ==
  /\ stage = "home"
  /\ Change([mem EXCEPT !.accts = @ \cup {job.acct}, !.enabled = @ \cup {job.acct}], job)
  /\ UNCHANGED <<disk, seen, behind, acked>>
-----------------------------------------------------------------------------
(* Seeded fault: the state file is written in place.                       *)
TruncateState ==
  /\ stage = "write"
  /\ file' = Torn
  /\ stage' = "fill"
  /\ UNCHANGED <<mem, tmp, homes, job, seen, behind, acked>>

(* saveLocked: the temporary file is truncated, ...                        *)
OpenTemporary ==
  /\ stage = "write"
  /\ tmp' = Torn
  /\ stage' = "fill"
  /\ UNCHANGED <<mem, file, homes, job, seen, behind, acked>>

(* ... filled, ...                                                         *)
FillTemporary ==
  /\ stage = "fill"
  /\ tmp' = mem
  /\ stage' = "rename"
  /\ UNCHANGED <<mem, file, homes, job, seen, behind, acked>>

(* ... and takes the place of the state file; the mutex is released.       *)
CommitState ==
  /\ stage = "rename"
  /\ file' = tmp
  /\ tmp' = None
  /\ stage' = "idle"
  /\ seen' = mem
  /\ behind' = FALSE
  /\ acked' = IF job.what = "own" THEN [acked EXCEPT ![job.thread] = job.acct] ELSE acked
  /\ job' = NoJob
  /\ UNCHANGED <<mem, homes>>

(* A step of the save fails: the mutex is released, memory stays changed   *)
(* and the caller gets an error, on which Open gives the process up.       *)
SaveFails ==
  /\ stage \in {"write", "fill", "rename"}
  /\ IF job.what = "open"
       THEN stage' = "down" /\ mem' = None /\ UNCHANGED <<seen, behind>>
       ELSE stage' = "idle" /\ seen' = mem /\ behind' = TRUE /\ UNCHANGED mem
  /\ job' = NoJob
  /\ UNCHANGED <<disk, acked>>

(* The process is killed or exits.                                         *)
Crash ==
  /\ stage # "down"
  /\ stage' = "down"
  /\ mem' = None
  /\ seen' = None
  /\ job' = NoJob
  /\ UNCHANGED <<disk, behind, acked>>
-----------------------------------------------------------------------------
Operation ==
  \/ \E t \in Threads, a \in Accounts : SetThreadOwner(t, a)
  \/ \E a \in Accounts, e \in BOOLEAN : UpdateAccount(a, e)
  \/ \E a \in Accounts : MakeHome(a)
  \/ AppendAccount

Save == OpenTemporary \/ FillTemporary \/ CommitState \/ SaveFails

Next == OpenStored \/ OpenFresh \/ Operation \/ Save \/ Crash

Spec == Init /\ [][Next]_vars
-----------------------------------------------------------------------------
(* Type correctness.  The state file is never torn: whatever instant the   *)
(* process is killed at, the next Open finds a complete state or none.     *)
TypeOK ==
  /\ mem \in Images \cup {None}
  /\ file \in Images \cup {None}
  /\ tmp \in Images \cup {None, Torn}
  /\ homes \in SUBSET Accounts
  /\ stage \in Stages
  /\ job \in Jobs
  /\ seen \in Images \cup {None}
  /\ behind \in BOOLEAN
  /\ acked \in [Threads -> Accounts \cup {None}]

(* What a reader of the store is told is what a restart would find, unless *)
(* a save has failed since the last one that went through.                 *)
ReadersSeeSaved == stage # "down" /\ ~behind => seen = file

(* An account that any reader or any restart may see has its isolated home,*)
(* with file-backed credentials, already set up.                           *)
HomesFirst ==
  \A i \in {mem, file, tmp} \cap Images : i.accts \subseteq homes \cup {Primary}

(* Neither an account nor the fact that a thread has an owner is ever lost *)
(* from the state file, whatever fails or is killed.                       *)
Remembers(old, new) ==
  /\ old.accts \subseteq new.accts
  /\ \A t \in Threads : old.owner[t] # None => new.owner[t] # None
NothingForgotten ==
  [][(file \in Images) => (file' \in Images /\ Remembers(file, file'))]_vars

Promise == INSTANCE Ledger WITH
  live <- IF stage = "down" THEN file ELSE seen,
  stable <- file

(* The store keeps the promise of Ledger: the steps of a save, failed or   *)
(* interrupted, look like one operation or none.                           *)
KeepsLedger == Promise!Spec

(* docs/ARCHITECTURE.md:25 "Once a thread ID is known, `state.json`       *)
(* persists its owner": an owner SetThreadOwner has accepted is in the file. *)
AcceptedIsStored ==
  \A t \in Threads :
    acked[t] # None => file \in Images /\ file.owner[t] = acked[t]
=============================================================================
