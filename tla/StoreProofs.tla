------------------------------ MODULE StoreProofs ------------------------------
(* Proofs about StateStore, for every set of accounts and of threads.       *)
EXTENDS StateStore, TLAPS

Saving == stage \in {"write", "fill", "rename"}

(* Where the operation under way stands, and what it has done so far.       *)
ProgressInv ==
  /\ stage = "down" => mem = None
  /\ stage # "down" => mem \in Images
  /\ stage \in {"idle", "home"} => seen = mem /\ file \in Images
  /\ stage = "home" => job.acct \notin mem.accts /\ job.acct \in homes /\ job.what = "add"
  /\ stage = "rename" => tmp = mem
  /\ Saving /\ job.what = "open" => file = None /\ seen = None /\ mem = First
  /\ Saving /\ job.what # "open" => file \in Images /\ seen \in Images
                                      /\ Promise!Effect(seen, mem)
  /\ Saving /\ job.what = "own" => job.thread \in Threads

(* Memory never forgets what the file holds.                                *)
MemoryInv == stage # "down" /\ file \in Images => Remembers(file, mem)

SInv == TypeOK /\ ReadersSeeSaved /\ HomesFirst /\ ProgressInv /\ MemoryInv

LEMMA FirstIsImage == First \in Images
  BY StoreAssumption DEF First, Images

(* The operations yield images that forget nothing.                         *)
LEMMA ImageAfterOwn ==
  ASSUME NEW i \in Images, NEW t \in Threads, NEW a \in Accounts
  PROVE  /\ [i EXCEPT !.owner[t] = a] \in Images
         /\ [i EXCEPT !.owner[t] = a].accts = i.accts
         /\ Remembers(i, [i EXCEPT !.owner[t] = a])
  BY StoreAssumption DEF Images, Remembers

LEMMA ImageAfterUpdate ==
  ASSUME NEW i \in Images, NEW e \in SUBSET Accounts
  PROVE  /\ [i EXCEPT !.enabled = e] \in Images
         /\ [i EXCEPT !.enabled = e].accts = i.accts
         /\ Remembers(i, [i EXCEPT !.enabled = e])
  BY DEF Images, Remembers

LEMMA ImageAfterAdd ==
  ASSUME NEW i \in Images, NEW a \in Accounts
  PROVE  LET j == [i EXCEPT !.accts = @ \cup {a}, !.enabled = @ \cup {a}]
         IN  j \in Images /\ j.accts = i.accts \cup {a} /\ Remembers(i, j)
  BY DEF Images, Remembers

LEMMA RemembersTrans ==
  ASSUME NEW i, NEW j, NEW k, Remembers(i, j), Remembers(j, k)
  PROVE  Remembers(i, k)
  BY DEF Remembers

LEMMA EffectKept ==
  ASSUME mem' = mem, seen' = seen
  PROVE  Promise!Effect(seen, mem)' <=> Promise!Effect(seen, mem)
  BY DEF Promise!Effect

(* The three operations start alike: memory moves on by one effect that     *)
(* forgets nothing, and the save begins.                                    *)
LEMMA ChangeStep ==
  ASSUME SInv, stage \in {"idle", "home"},
         NEW image \in Images, NEW j \in Jobs, Change(image, j),
         j.what \notin {"none", "open"}, j.what = "own" => j.thread \in Threads,
         Promise!Effect(mem, image), Remembers(mem, image),
         image.accts \subseteq homes \cup {Primary},
         UNCHANGED <<disk, seen, behind, acked>>
  PROVE  SInv'
<1>1. TypeOK'
  BY DEF SInv, TypeOK, Change, disk, Stages
<1>2. ReadersSeeSaved' /\ HomesFirst'
  BY DEF SInv, TypeOK, Change, disk, ReadersSeeSaved, HomesFirst
<1>3. ProgressInv'
  <2>1. /\ mem' = image /\ seen' = mem /\ file' = file /\ file \in Images
        /\ mem \in Images /\ stage' = "write" /\ job' = j
    BY DEF SInv, ProgressInv, Change, disk
  <2>2. Promise!Effect(seen, mem)'
    BY <2>1 DEF Promise!Effect
  <2> QED BY <2>1, <2>2 DEF ProgressInv, Saving
<1>4. MemoryInv'
  BY RemembersTrans DEF SInv, MemoryInv, ProgressInv, Change, disk
<1> QED BY <1>1, <1>2, <1>3, <1>4 DEF SInv

LEMMA SetOwnerStep ==
  ASSUME SInv, NEW t \in Threads, NEW a \in Accounts, SetThreadOwner(t, a)
  PROVE  SInv'
<1>1. stage = "idle" /\ mem \in Images /\ a \in mem.accts
  BY DEF SetThreadOwner, SInv, ProgressInv
<1>2. CASE mem.owner[t] = a
  <2>1. /\ acked' = [acked EXCEPT ![t] = a]
        /\ UNCHANGED <<mem, file, tmp, homes, stage, job, seen, behind>>
    BY <1>2 DEF SetThreadOwner, disk
  <2>2. ProgressInv'
    BY <2>1, EffectKept DEF SInv, ProgressInv, Saving
  <2> QED BY <2>1, <2>2 DEF SInv, TypeOK, ReadersSeeSaved, HomesFirst, MemoryInv
<1>3. CASE mem.owner[t] # a
  <2> DEFINE image == [mem EXCEPT !.owner[t] = a]
             j == Job("own", a, t)
  <2>1. Change(image, j) /\ UNCHANGED <<disk, seen, behind, acked>>
    BY <1>3 DEF SetThreadOwner
  <2>2. image \in Images /\ image.accts = mem.accts /\ Remembers(mem, image)
    BY <1>1, ImageAfterOwn
  <2>3. Promise!Effect(mem, image)
    BY <1>1 DEF Promise!Effect
  <2>4. j \in Jobs /\ j.what = "own" /\ j.thread \in Threads
    BY DEF Job, Jobs
  <2>5. image.accts \subseteq homes \cup {Primary}
    BY <1>1, <2>2 DEF SInv, HomesFirst
  <2> HIDE DEF image, j
  <2> QED BY <1>1, <2>1, <2>2, <2>3, <2>4, <2>5, ChangeStep
<1> QED BY <1>2, <1>3

LEMMA UpdateStep ==
  ASSUME SInv, NEW a \in Accounts, NEW e \in BOOLEAN, UpdateAccount(a, e)
  PROVE  SInv'
<1> DEFINE on == IF e THEN mem.enabled \cup {a} ELSE mem.enabled \ {a}
           image == [mem EXCEPT !.enabled = on]
           j == Job("update", a, None)
<1>1. stage = "idle" /\ mem \in Images /\ a \in mem.accts
  BY DEF UpdateAccount, SInv, ProgressInv
<1>2. on \in SUBSET Accounts /\ on \in {mem.enabled \cup {a}, mem.enabled \ {a}}
  BY <1>1 DEF Images
<1>3. Change(image, j) /\ UNCHANGED <<disk, seen, behind, acked>>
  BY <1>1 DEF UpdateAccount, Images
<1> HIDE DEF on
<1>4. image \in Images /\ image.accts = mem.accts /\ Remembers(mem, image)
  BY <1>1, <1>2, ImageAfterUpdate
<1>5. Promise!Effect(mem, image)
  BY <1>1, <1>2 DEF Promise!Effect
<1>6. j \in Jobs /\ j.what = "update"
  BY DEF Job, Jobs
<1>7. image.accts \subseteq homes \cup {Primary}
  BY <1>1, <1>4 DEF SInv, HomesFirst
<1> HIDE DEF image, j
<1> QED BY <1>1, <1>3, <1>4, <1>5, <1>6, <1>7, ChangeStep

LEMMA AppendStep ==
  ASSUME SInv, AppendAccount
  PROVE  SInv'
<1> DEFINE a == job.acct
           image == [mem EXCEPT !.accts = @ \cup {a}, !.enabled = @ \cup {a}]
<1>1. /\ stage = "home" /\ mem \in Images /\ a \in Accounts /\ a \notin mem.accts
      /\ a \in homes /\ job \in Jobs /\ job.what = "add"
  BY DEF AppendAccount, SInv, ProgressInv, TypeOK, Jobs
<1>2. Change(image, job) /\ UNCHANGED <<disk, seen, behind, acked>>
  BY DEF AppendAccount
<1> HIDE DEF a
<1>3. image \in Images /\ image.accts = mem.accts \cup {a} /\ Remembers(mem, image)
  BY <1>1, ImageAfterAdd
<1>4. Promise!Effect(mem, image)
  BY <1>1 DEF Promise!Effect
<1>5. image.accts \subseteq homes \cup {Primary}
  BY <1>1, <1>3 DEF SInv, HomesFirst
<1> HIDE DEF image
<1> QED BY <1>1, <1>2, <1>3, <1>4, <1>5, ChangeStep

LEMMA HomeStep ==
  ASSUME SInv, NEW a \in Accounts, MakeHome(a)
  PROVE  SInv'
<1>1. /\ stage = "idle" /\ stage' = "home" /\ a \notin mem.accts
      /\ homes' = homes \cup {a} /\ job' = Job("add", a, None)
      /\ UNCHANGED <<mem, file, tmp, seen, behind, acked>>
  BY DEF MakeHome
<1>2. job' \in Jobs /\ job'.acct = a /\ job'.what = "add"
  BY <1>1 DEF Job, Jobs
<1>3. ProgressInv'
  BY <1>1, <1>2 DEF SInv, ProgressInv, Saving
<1> QED BY <1>1, <1>2, <1>3 DEF SInv, TypeOK, Stages, ReadersSeeSaved, HomesFirst, MemoryInv

LEMMA OpenStep ==
  ASSUME SInv, OpenStored \/ OpenFresh
  PROVE  SInv'
<1>1. CASE OpenStored
  <2>1. ProgressInv'
    BY <1>1 DEF OpenStored, ProgressInv, Saving, SInv, TypeOK
  <2>2. HomesFirst'
    BY <1>1 DEF OpenStored, HomesFirst, SInv
  <2>3. MemoryInv'
    BY <1>1 DEF OpenStored, MemoryInv, Remembers
  <2>4. TypeOK'
    BY <1>1 DEF OpenStored, SInv, TypeOK, Stages, Images
  <2> QED BY <1>1, <2>1, <2>2, <2>3, <2>4 DEF OpenStored, SInv, ReadersSeeSaved
<1>2. CASE OpenFresh
  <2>1. job' \in Jobs /\ job'.what = "open"
    BY <1>2, StoreAssumption DEF OpenFresh, Job, Jobs
  <2>2. First.accts \subseteq homes \cup {Primary}
    BY DEF First
  <2>3. ProgressInv'
    BY <1>2, <2>1, FirstIsImage DEF OpenFresh, ProgressInv, Saving, disk
  <2>4. HomesFirst'
    BY <1>2, <2>2 DEF OpenFresh, HomesFirst, SInv, disk
  <2> QED BY <1>2, <2>1, <2>3, <2>4, FirstIsImage, StoreAssumption
      DEF OpenFresh, SInv, TypeOK, Stages, ReadersSeeSaved, MemoryInv, disk
<1> QED BY <1>1, <1>2

LEMMA NoJobIsJob == NoJob \in Jobs /\ NoJob.what = "none"
  BY StoreAssumption DEF NoJob, Job, Jobs

LEMMA SaveStep ==
  ASSUME SInv, Save
  PROVE  SInv'
<1>1. CASE OpenTemporary
  <2>1. /\ stage = "write" /\ stage' = "fill" /\ tmp' = Torn
        /\ UNCHANGED <<mem, file, homes, job, seen, behind, acked>>
    BY <1>1 DEF OpenTemporary
  <2>2. ProgressInv'
    BY <2>1, EffectKept DEF SInv, ProgressInv, Saving
  <2> QED BY <2>1, <2>2, StoreAssumption
      DEF SInv, TypeOK, Stages, ReadersSeeSaved, HomesFirst, MemoryInv
<1>2. CASE FillTemporary
  <2>1. /\ stage = "fill" /\ stage' = "rename" /\ tmp' = mem
        /\ UNCHANGED <<mem, file, homes, job, seen, behind, acked>>
    BY <1>2 DEF FillTemporary
  <2>2. ProgressInv'
    BY <2>1, EffectKept DEF SInv, ProgressInv, Saving
  <2> QED BY <2>1, <2>2
      DEF SInv, TypeOK, Stages, ReadersSeeSaved, HomesFirst, MemoryInv
<1>3. CASE CommitState
  <2>1. /\ stage = "rename" /\ stage' = "idle" /\ file' = mem /\ tmp' = None
        /\ seen' = mem /\ behind' = FALSE /\ job' = NoJob /\ mem \in Images
        /\ UNCHANGED <<mem, homes>>
    BY <1>3 DEF CommitState, SInv, ProgressInv
  <2>2. ProgressInv'
    BY <2>1, NoJobIsJob DEF ProgressInv, Saving
  <2>3. acked' \in [Threads -> Accounts \cup {None}]
    BY <1>3 DEF CommitState, SInv, TypeOK, Jobs
  <2>4. MemoryInv'
    BY <2>1 DEF MemoryInv, Remembers
  <2>5. HomesFirst'
    BY <2>1, StoreAssumption DEF SInv, HomesFirst
  <2> QED BY <2>1, <2>2, <2>3, <2>4, <2>5, NoJobIsJob
      DEF SInv, TypeOK, Stages, ReadersSeeSaved
<1>4. CASE SaveFails
  <2>1. Saving /\ job' = NoJob /\ UNCHANGED <<file, tmp, homes, acked>>
    BY <1>4 DEF SaveFails, Saving, disk
  <2>2. CASE job.what = "open"
    <3>1. stage' = "down" /\ mem' = None /\ UNCHANGED <<seen, behind>>
      BY <1>4, <2>2 DEF SaveFails
    <3>2. ProgressInv'
      BY <3>1 DEF ProgressInv, Saving
    <3> QED BY <2>1, <3>1, <3>2, NoJobIsJob, StoreAssumption
        DEF SInv, TypeOK, Stages, ReadersSeeSaved, HomesFirst, MemoryInv
  <2>3. CASE job.what # "open"
    <3>1. stage' = "idle" /\ seen' = mem /\ behind' = TRUE /\ UNCHANGED mem
      BY <1>4, <2>3 DEF SaveFails
    <3>2. ProgressInv'
      BY <2>1, <2>3, <3>1 DEF SInv, ProgressInv, Saving
    <3> QED BY <2>1, <3>1, <3>2, NoJobIsJob
        DEF SInv, TypeOK, Stages, ReadersSeeSaved, HomesFirst, MemoryInv, Saving
  <2> QED BY <2>2, <2>3
<1> QED BY <1>1, <1>2, <1>3, <1>4 DEF Save

LEMMA CrashStep ==
  ASSUME SInv, Crash
  PROVE  SInv'
<1>1. /\ stage' = "down" /\ mem' = None /\ seen' = None /\ job' = NoJob
      /\ UNCHANGED <<file, tmp, homes, behind, acked>>
  BY DEF Crash, disk
<1> QED BY <1>1, NoJobIsJob, StoreAssumption DEF SInv, TypeOK, Stages, ReadersSeeSaved,
        HomesFirst, ProgressInv, Saving, MemoryInv

LEMMA SInvStep == ASSUME SInv, [Next]_vars PROVE SInv'
<1>1. CASE UNCHANGED vars
  <2>1. UNCHANGED <<mem, file, tmp, homes, stage, job, seen, behind, acked>>
    BY <1>1 DEF vars, disk
  <2>2. ProgressInv'
    BY <2>1, EffectKept DEF SInv, ProgressInv, Saving
  <2> QED BY <2>1, <2>2 DEF SInv, TypeOK, ReadersSeeSaved, HomesFirst, MemoryInv
<1> QED BY <1>1, OpenStep, SetOwnerStep, UpdateStep, HomeStep, AppendStep, SaveStep,
        CrashStep DEF Next, Operation

LEMMA SInvHolds == Spec => []SInv
<1>1. Init => SInv
  BY NoJobIsJob, StoreAssumption DEF Init, SInv, TypeOK, Stages, ReadersSeeSaved,
     HomesFirst, ProgressInv, Saving, MemoryInv
<1> QED BY <1>1, SInvStep, PTL DEF Spec

(* The state file is never torn, at whatever instant the process is killed, *)
(* and every variable has its type.                                         *)
THEOREM StoreTypes == Spec => []TypeOK
<1>1. SInv => TypeOK
  BY DEF SInv
<1> QED BY <1>1, SInvHolds, PTL

(* Readers are told what a restart would find, unless a save has failed     *)
(* since.                                                                   *)
THEOREM StoreSafe == Spec => []ReadersSeeSaved
<1>1. SInv => ReadersSeeSaved
  BY DEF SInv
<1> QED BY <1>1, SInvHolds, PTL

(* No account is visible, in memory or in the file, before its home is set  *)
(* up, also when the process is killed while one is being added.            *)
THEOREM HomesComeFirst == Spec => []HomesFirst
<1>1. SInv => HomesFirst
  BY DEF SInv
<1> QED BY <1>1, SInvHolds, PTL

(* No save, failed save or crash removes an account or the owner of a       *)
(* thread from the state file: only a commit changes it, and memory has     *)
(* forgotten nothing that the file holds.                                   *)
THEOREM StoreRemembers == Spec => NothingForgotten
<1>1. ASSUME SInv, [Next]_vars, file \in Images
      PROVE  file' \in Images /\ Remembers(file, file')
  <2>1. CASE CommitState
    <3>1. file' = mem /\ mem \in Images /\ stage # "down"
      BY <1>1, <2>1 DEF CommitState, SInv, ProgressInv
    <3> QED BY <1>1, <3>1 DEF SInv, MemoryInv
  <2>2. CASE file' = file
    BY <1>1, <2>2 DEF Remembers
  <2>3. CommitState \/ file' = file
    BY <1>1 DEF Next, Operation, Save, vars, disk, OpenStored, OpenFresh, SetThreadOwner,
       UpdateAccount, MakeHome, AppendAccount, OpenTemporary, FillTemporary, SaveFails, Crash
  <2> QED BY <2>1, <2>2, <2>3
<1>2. SInv /\ [Next]_vars =>
        [(file \in Images) => (file' \in Images /\ Remembers(file, file'))]_vars
  BY <1>1
<1> QED BY <1>2, SInvHolds, PTL DEF Spec, NothingForgotten
-----------------------------------------------------------------------------
(* Refinement: what readers see, which is what a restart finds while down.  *)
Live == IF stage = "down" THEN file ELSE seen

LEMMA SameWords == Promise!Images = Images /\ Promise!First = First
  BY DEF Promise!Images, Images, Promise!First, First

(* A step that ends a save is one operation of Ledger, or its first.        *)
LEMMA EndOfSave ==
  ASSUME SInv, CommitState \/ SaveFails
  PROVE  Promise!Next \/ UNCHANGED <<Live, file>>
<1>1. Saving /\ stage # "down"
  BY DEF CommitState, SaveFails, Saving
<1>2. CASE job.what = "open"
  <2>1. file = None /\ seen = None /\ mem = First
    BY <1>1, <1>2 DEF SInv, ProgressInv
  <2>2. CASE CommitState
    <3>1. file' = First /\ seen' = First /\ stage' = "idle"
      BY <2>1, <2>2 DEF CommitState, SInv, ProgressInv
    <3>2. Promise!Bootstrap
      BY <2>1, <3>1, SameWords DEF Promise!Bootstrap
    <3> QED BY <3>2 DEF Promise!Next
  <2>3. CASE SaveFails
    BY <1>1, <1>2, <2>1, <2>3 DEF SaveFails, Live, disk
  <2> QED BY <2>2, <2>3
<1>3. CASE job.what # "open"
  <2>1. seen \in Images /\ Promise!Effect(seen, mem)
    BY <1>1, <1>3 DEF SInv, ProgressInv
  <2>2. /\ stage' = "idle" /\ seen' = mem
        /\ file' = mem \/ file' = file
    BY <1>3 DEF CommitState, SaveFails, SInv, ProgressInv, disk
  <2>3. Promise!Operate
    BY <1>1, <2>1, <2>2, SameWords DEF Promise!Operate
  <2> QED BY <2>3 DEF Promise!Next
<1> QED BY <1>2, <1>3

LEMMA StepMaps ==
  ASSUME SInv, [Next]_vars
  PROVE  Promise!Next \/ UNCHANGED <<Live, file>>
<1>1. CASE CommitState \/ SaveFails
  BY <1>1, EndOfSave
<1>2. CASE Crash
  <2>1. Promise!Restart
    BY <1>2 DEF Crash, Promise!Restart, disk
  <2> QED BY <2>1 DEF Promise!Next
<1>3. CASE OpenStored \/ OpenFresh
  BY <1>3 DEF OpenStored, OpenFresh, Live, disk
<1>4. CASE Operation
  <2>1. stage # "down" /\ stage' # "down" /\ UNCHANGED <<seen, file>>
    BY <1>4 DEF Operation, SetThreadOwner, UpdateAccount, MakeHome, AppendAccount, Change, disk
  <2> QED BY <2>1 DEF Live
<1>5. CASE OpenTemporary \/ FillTemporary
  BY <1>5 DEF OpenTemporary, FillTemporary, Live
<1>6. CASE UNCHANGED vars
  BY <1>6 DEF vars, disk, Live
<1> QED BY <1>1, <1>2, <1>3, <1>4, <1>5, <1>6 DEF Next, Save

(* The store implements Ledger: every operation, however its save fares,    *)
(* takes effect at one instant, and a restart brings back what was stable.  *)
THEOREM StoreImplements == Spec => KeepsLedger
<1>1. Init => Promise!Init
  BY DEF Init, Promise!Init
<1>2. SInv /\ [Next]_vars => [Promise!Next]_(Promise!vars)
  BY StepMaps DEF Promise!vars, Live
<1> QED BY <1>1, <1>2, SInvHolds, PTL DEF Spec, KeepsLedger, Promise!Spec
=============================================================================
