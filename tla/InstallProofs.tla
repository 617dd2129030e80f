--------------------------- MODULE InstallProofs ---------------------------
(***************************************************************************)
(* Proofs about both installers (Installers): that a failed attempt leaves *)
(* the shell, that a failed rename of a new bundle brings the old pair     *)
(* back, that replacing a build implements Replacement, that what is       *)
(* installed is whole and what a full disk may come from; for every        *)
(* package, request, volume, process and bound.                            *)
(***************************************************************************)
EXTENDS Installers, QuiesceProofs, FiniteSetTheorems

-----------------------------------------------------------------------------
(* Windows.  Where the builds are at each stage of an attempt.              *)

Ends == {"idle", "done", "off"}
Early == Working \cup {"quiet", "assert", "aside"}

PlacesInv ==
  /\ attempt \in Nat /\ attempt =< MaxAttempts
  /\ dest \in 0..Build /\ before \in 0..Build /\ moved \in 0..Build /\ side \subseteq Nat \ {0}
  /\ pc = "idle" => attempt = 0
  /\ pc \notin Ends => result = "running"
  /\ pc \in Early => dest = before /\ moved = 0
  /\ pc = "aside" => dest # 0
  /\ pc \in {"publish", "restore"} => dest = 0 /\ moved = before
  /\ pc = "restore" => moved # 0
  /\ pc \in {"publish", "restore", "finish"} => moved = 0 \/ moved \in side
  /\ pc = "finish" => dest = Build

WInv == PlacesInv /\ FailureKeepsShell

Kept == <<attempt, placeVars, before>>

\* A step that keeps the builds, goes on to a stage that asks for no more, or
\* ends the attempt.
LEMMA StageKeeps ==
  ASSUME WInv, UNCHANGED Kept, pc \in Early,
         \/ /\ pc' \in Working \cup {"quiet", "assert"} /\ result' = result
         \/ pc' = "done" /\ result' # "INSTALLED"
  PROVE  WInv'
  BY DEF WInv, PlacesInv, FailureKeepsShell, Kept, placeVars, Ends, Early, Working, Build

\* Every stage between the gate and the assertion is such a step.
LEMMA DecisionKeeps ==
  ASSUME WInv, Quiet \/ Gate \/ PlanMirror \/ Weigh \/ LoadToken \/ ToolFails
  PROVE  WInv'
<1> USE DEF Leave, LeaveFreeing, Kept, Early, Working
<1>1. CASE Quiet
  BY <1>1, StageKeeps DEF Quiet, Decide
<1>2. CASE Gate
  BY <1>2, StageKeeps DEF Gate, Decide
<1>3. CASE PlanMirror
  BY <1>3, StageKeeps DEF PlanMirror
<1>4. CASE Weigh
  BY <1>4, StageKeeps DEF Weigh, Decide
<1>5. CASE LoadToken
  BY <1>5, StageKeeps DEF LoadToken
<1>6. CASE ToolFails
  BY <1>6, StageKeeps DEF ToolFails
<1> QED
  BY <1>1, <1>2, <1>3, <1>4, <1>5, <1>6

LEMMA WorkKeeps ==
  ASSUME WInv,
         \/ MirrorFile \/ VerifyMirror \/ PrepareAcl \/ ResolveIntegrity \/ Extract
         \/ AuditAnchors \/ PatchStartup \/ SelectScript \/ PatchAsset \/ CheckSyntax
         \/ Repack \/ StageArchive \/ Seal \/ ClearUnpacked \/ CopyUnpacked \/ StageRuntime
  PROVE  WInv'
<1> USE DEF Stage, Leave, LeaveFreeing, Kept, Early, Working
<1>1. CASE MirrorFile
  BY <1>1, StageKeeps DEF MirrorFile
<1>2. CASE VerifyMirror
  BY <1>2, StageKeeps DEF VerifyMirror
<1>3. CASE PrepareAcl
  BY <1>3, StageKeeps DEF PrepareAcl
<1>4. CASE ResolveIntegrity
  BY <1>4, StageKeeps DEF ResolveIntegrity
<1>5. CASE Extract
  BY <1>5, StageKeeps DEF Extract
<1>6. CASE AuditAnchors
  BY <1>6, StageKeeps DEF AuditAnchors
<1>7. CASE PatchStartup
  BY <1>7, StageKeeps DEF PatchStartup
<1>8. CASE SelectScript
  BY <1>8, StageKeeps DEF SelectScript
<1>9. CASE PatchAsset
  BY <1>9, StageKeeps DEF PatchAsset
<1>10. CASE CheckSyntax
  BY <1>10, StageKeeps DEF CheckSyntax
<1>11. CASE Repack
  BY <1>11, StageKeeps DEF Repack
<1>12. CASE Seal
  BY <1>12, StageKeeps DEF Seal
<1>13. CASE StageRuntime
  BY <1>13, StageKeeps DEF StageRuntime
<1>14. CASE StageArchive
  BY <1>14, StageKeeps DEF StageArchive
<1>15. CASE ClearUnpacked
  BY <1>15, StageKeeps DEF ClearUnpacked
<1>16. CASE CopyUnpacked
  BY <1>16, StageKeeps DEF CopyUnpacked
<1> QED
  BY <1>1, <1>2, <1>3, <1>4, <1>5, <1>6, <1>7, <1>8,
     <1>9, <1>10, <1>11, <1>12, <1>13, <1>14, <1>15, <1>16

\* The installation moves builds.
LEMMA AssertKeeps == WInv /\ AssertQuiet => WInv'
  BY DEF AssertQuiet, Leave, LeaveFreeing, WInv, PlacesInv, FailureKeepsShell, placeVars, Ends,
         Early, Working, Build

LEMMA MoveAsideKeeps == WInv /\ MoveAside => WInv'
  BY DEF MoveAside, Denied, Leave, LeaveFreeing, WInv, PlacesInv, FailureKeepsShell, placeVars,
         Ends, Early, Working, Build

LEMMA PublishKeeps == WInv /\ Publish => WInv'
  BY DEF Publish, Leave, LeaveFreeing, WInv, PlacesInv, FailureKeepsShell, placeVars, Ends,
         Early, Working, Build

LEMMA RestoreKeeps == WInv /\ RestoreOld => WInv'
  BY DEF RestoreOld, Leave, LeaveFreeing, WInv, PlacesInv, FailureKeepsShell, placeVars, Ends,
         Early, Working, Build

LEMMA FinishKeeps == WInv /\ Finish => WInv'
  BY DEF Finish, Leave, LeaveFreeing, WInv, PlacesInv, FailureKeepsShell, placeVars, Ends,
         Early, Working, Build

LEMMA BeginKeeps == WInv /\ Begin => WInv'
  BY InstallAssumption
  DEF Begin, WInv, PlacesInv, FailureKeepsShell, placeVars, Ends, Early, Working, Build

LEMMA DieKeeps == WInv /\ Die => WInv'
  BY DEF Die, WInv, PlacesInv, FailureKeepsShell, placeVars, Ends, Early, Working, Build

\* What runs beside the tool, and its own looking on, move none.
LEMMA LookersKeep == WInv /\ UNCHANGED installVars => WInv'
  BY DEF installVars, placeVars, WInv, PlacesInv, FailureKeepsShell, Build

LEMMA WindowsKeeps == WInv /\ DNext => WInv'
  BY DecisionKeeps, WorkKeeps, AssertKeeps, MoveAsideKeeps, PublishKeeps, RestoreKeeps,
     FinishKeeps, BeginKeeps, DieKeeps, LookersKeep DEF DNext, Tool, Look, Beside

LEMMA WInvInductive == Spec => []WInv
<1>1. Init => WInv
  BY InstallAssumption
  DEF Init, DInit, WindowsIdle, WInv, PlacesInv, FailureKeepsShell, Ends, Early, Working, Build
<1>2. WInv /\ [Next]_vars => WInv'
  BY WindowsKeeps, LookersKeep DEF Next, vars, windowsVars
<1> QED
  BY <1>1, <1>2, PTL DEF Spec

\* A failed attempt leaves the destination as it found it
\* (_atomic_install, patch_app_windows.py:1541-1644).
THEOREM FailedAttemptKeepsShell == Spec => []FailureKeepsShell
  BY WInvInductive, PTL DEF WInv

-----------------------------------------------------------------------------
(* macOS.  Where the builds are at each stage of a run.                     *)

Building == {"checks", "extract", "profile", "renderer", "pack", "sign", "helper", "backupApp"}
Undoing == {"makeFailed", "setAsideApp", "setAsideHelper", "restoreApp", "restoreHelper"}
BothBack == failedAt \in {"publishApp", "publishHelper"}

MacTypes ==
  /\ app \in 0..2 /\ helper \in 0..2 /\ appBackup \in 0..1 /\ helperBackup \in 0..1
  /\ appFailed \in 0..2 /\ helperFailed \in 0..2
  /\ mpc \in Building \cup {"backupHelper", "publishApp", "publishHelper", "register"} \cup Undoing
              \cup {"ended", "off"}
  /\ failedAt \in {"none", "backupApp", "backupHelper", "publishApp", "publishHelper"}
  /\ mresult = "failed" => mpc = "ended"

MacPlaces ==
  /\ mpc \notin Undoing \cup {"ended"} => failedAt = "none" /\ appFailed = 0 /\ helperFailed = 0
  /\ mpc \in Undoing => failedAt # "none"
  /\ mpc \in Building => app < 2 /\ helper < 2 /\ appBackup = 0 /\ helperBackup = 0
  /\ mpc = "backupHelper" => app = 0 /\ helper < 2 /\ helperBackup = 0
  /\ mpc = "publishApp" => app = 0 /\ helper = 0
  /\ mpc = "publishHelper" => helper = 0
  /\ mpc \in {"publishHelper", "register"} => app = 2

RollbackPlaces ==
  /\ mpc \in {"makeFailed", "setAsideApp"} => appFailed = 0 /\ helperFailed = 0 /\ (app = 1 => appBackup = 0)
  /\ mpc = "setAsideHelper" => app = 0 /\ helperFailed = 0
  /\ mpc = "restoreApp" => app = 0 /\ helper = 0
  /\ mpc \in {"setAsideHelper", "restoreApp"} => appBackup = 0 \/ appFailed # 1
  /\ mpc = "restoreHelper" => helper = 0 /\ appBackup = 0
  /\ BothBack /\ mpc \in Undoing =>
       /\ helper = 0 /\ helperFailed = 0 /\ appFailed # 1
       /\ mpc \in {"makeFailed", "setAsideApp"} => app # 1
       /\ mpc = "restoreHelper" => app < 2

MInv == MacTypes /\ MacPlaces /\ RollbackPlaces /\ OldPairComesBack

\* A stage of the build moves nothing.
LEMMA BuildingKeeps ==
  ASSUME MInv, NEW at \in Building, NEW next \in Building, NEW good, MacStage(at, next, good)
  PROVE  MInv'
  BY DEF MacStage, MInv, MacTypes, MacPlaces, RollbackPlaces, OldPairComesBack, Unchanged,
         bundles, Building, Undoing, BothBack

LEMMA RenamesKeep ==
  ASSUME MInv, BackUpApp \/ BackUpHelper \/ PublishApp \/ PublishHelper
  PROVE  MInv'
<1> USE DEF Rename, MInv, MacTypes, MacPlaces, RollbackPlaces, OldPairComesBack, Unchanged,
         bundles, Building, Undoing, BothBack
<1>1. CASE BackUpApp
  BY <1>1 DEF BackUpApp
<1>2. CASE BackUpHelper
  BY <1>2 DEF BackUpHelper
<1>3. CASE PublishApp
  BY <1>3 DEF PublishApp
<1>4. CASE PublishHelper
  BY <1>4 DEF PublishHelper
<1> QED
  BY <1>1, <1>2, <1>3, <1>4

LEMMA HandlerKeeps ==
  ASSUME MInv, MakeFailed \/ SetAsideApp \/ SetAsideHelper \/ RestoreApp \/ RestoreHelper
  PROVE  MInv'
<1> USE DEF Undo, MInv, MacTypes, MacPlaces, RollbackPlaces, OldPairComesBack, Unchanged,
         bundles, Building, Undoing, BothBack
<1>1. CASE SetAsideApp
  BY <1>1 DEF SetAsideApp
<1>2. CASE SetAsideHelper
  BY <1>2 DEF SetAsideHelper
<1>3. CASE RestoreApp
  BY <1>3 DEF RestoreApp
<1>4. CASE RestoreHelper
  BY <1>4 DEF RestoreHelper
<1>5. CASE MakeFailed
  BY <1>5 DEF MakeFailed
<1> QED
  BY <1>1, <1>2, <1>3, <1>4, <1>5

LEMMA MacKeeps == MInv /\ MNext => MInv'
<1> SUFFICES ASSUME MInv, MNext PROVE MInv'
  OBVIOUS
<1>1. CASE \/ CheckRequest \/ CopyApp \/ PatchProfile \/ PatchMacRenderer \/ PackApp \/ SignApp
           \/ CopyHelper
  BY <1>1, BuildingKeeps
  DEF CheckRequest, CopyApp, PatchProfile, PatchMacRenderer, PackApp, SignApp, CopyHelper, Building
<1>2. CASE Register \/ MacDies
  BY <1>2 DEF Register, MacDies, MInv, MacTypes, MacPlaces, RollbackPlaces, OldPairComesBack,
              Unchanged, bundles, Building, Undoing, BothBack
<1> QED
  BY <1>1, <1>2, RenamesKeep, HandlerKeeps DEF MNext

LEMMA MacIdles == MInv /\ UNCHANGED macVars => MInv'
  BY DEF macVars, bundles, MInv, MacTypes, MacPlaces, RollbackPlaces, OldPairComesBack, Unchanged,
         BothBack

LEMMA MInvInductive == Spec => []MInv
<1>1. Init => MInv
  BY DEF Init, MInit, MacIdle, MInv, MacTypes, MacPlaces, RollbackPlaces, OldPairComesBack,
         Unchanged, Building, Undoing, BothBack
<1>2. MInv /\ [Next]_vars => MInv'
  BY MacKeeps, MacIdles DEF Next, vars
<1> QED
  BY <1>1, <1>2, PTL DEF Spec

\* When the rename of a new bundle fails and the rollback goes through, the old
\* app and the old helper are back (patch_app, patch_app.py:950-972).
THEOREM FailedPublishRestoresPair == Spec => []OldPairComesBack
  BY MInvInductive, PTL DEF MInv

-----------------------------------------------------------------------------
(* Replacing a build implements Replacement: each step is one of its steps, *)
(* or moves nothing of it.                                                  *)

PNext == [Promise!Next]_<<IF platform = "macos" THEN app ELSE dest,
                          IF platform = "macos" THEN {appBackup, appFailed} \ {0} ELSE side>>

LEMMA WindowsStepRefines ==
  ASSUME platform = "windows", platform' = platform, WInv, DNext
  PROVE  PNext
<1> DEFINE Still == dest' = dest /\ side' = side
<1>1. Still => PNext
  BY DEF PNext
<1>2. CASE MoveAside
  <2>1. Still \/ (dest # 0 /\ side' = side \cup {dest} /\ dest' = 0)
    BY <1>2 DEF MoveAside, placeVars, WInv, PlacesInv
  <2> QED
    BY <1>1, <2>1 DEF PNext, Promise!Next, Promise!Withdraw
<1>3. CASE Publish
  <2>1. Still \/ (dest = 0 /\ dest' = Build /\ UNCHANGED side)
    BY <1>3 DEF Publish, WInv, PlacesInv
  <2>2. Build \in (1 .. (MaxAttempts + 2)) \ {0}
    BY InstallAssumption DEF WInv, PlacesInv, Build
  <2> QED
    BY <1>1, <2>1, <2>2 DEF PNext, Promise!Next, Promise!Publish
<1>4. CASE RestoreOld
  <2>1. Still \/ (dest = 0 /\ moved \in side /\ dest' = moved /\ side' = side \ {moved})
    BY <1>4 DEF RestoreOld, WInv, PlacesInv
  <2>2. moved \in 1 .. (MaxAttempts + 2)
    BY <1>4, InstallAssumption DEF RestoreOld, WInv, PlacesInv, Build
  <2> QED
    BY <1>1, <2>1, <2>2 DEF PNext, Promise!Next, Promise!Restore
<1>5. CASE Finish
  <2>1. Still \/ (dest # 0 /\ moved \in side /\ side' = side \ {moved} /\ UNCHANGED dest)
    BY <1>5 DEF Finish, WInv, PlacesInv, Build
  <2>2. moved \in side => moved \in 1 .. (MaxAttempts + 2)
    BY <1>5, InstallAssumption DEF Finish, WInv, PlacesInv, Build
  <2> QED
    BY <1>1, <2>1, <2>2 DEF PNext, Promise!Next, Promise!Discard
<1>6. CASE \/ Begin \/ Look \/ Quiet \/ Gate \/ PlanMirror \/ Weigh \/ LoadToken \/ ToolFails
           \/ Die \/ Beside \/ AssertQuiet
  <2>1. Still
    BY <1>6 DEF Begin, Look, Quiet, Gate, Decide, PlanMirror, Weigh, LoadToken, ToolFails, Die,
                Beside, AssertQuiet, installVars, placeVars
  <2> QED
    BY <1>1, <2>1
<1>7. CASE \/ MirrorFile \/ VerifyMirror \/ PrepareAcl \/ ResolveIntegrity \/ Extract
           \/ AuditAnchors \/ PatchStartup \/ SelectScript \/ PatchAsset \/ CheckSyntax
           \/ Repack \/ StageArchive \/ Seal \/ ClearUnpacked \/ CopyUnpacked \/ StageRuntime
  <2>1. Still
    BY <1>7 DEF MirrorFile, VerifyMirror, PrepareAcl, ResolveIntegrity, Extract, AuditAnchors,
                PatchStartup, SelectScript, PatchAsset, CheckSyntax, Repack, StageArchive, Seal,
                ClearUnpacked, CopyUnpacked, StageRuntime, Stage, placeVars
  <2> QED
    BY <1>1, <2>1
<1> QED
  BY <1>2, <1>3, <1>4, <1>5, <1>6, <1>7 DEF DNext, Tool

LEMMA MacStepRefines ==
  ASSUME platform = "macos", platform' = platform, MInv, MNext
  PROVE  PNext
<1> DEFINE kept == {appBackup, appFailed} \ {0}
           Still == app' = app /\ kept' = kept
<1>1. Still => PNext
  BY DEF PNext
<1>2. CASE BackUpApp
  <2>1. \/ UNCHANGED <<app, appBackup, appFailed>>
        \/ app # 0 /\ appBackup = 0 /\ appFailed = 0 /\ appBackup' = app /\ app' = 0 /\ appFailed' = 0
    BY <1>2 DEF BackUpApp, Rename, bundles, MInv, MacPlaces, Building, Undoing
  <2>2. Still \/ (app # 0 /\ kept' = kept \cup {app} /\ app' = 0)
    BY <2>1
  <2> QED
    BY <1>1, <2>2 DEF PNext, Promise!Next, Promise!Withdraw
<1>3. CASE PublishApp
  <2>1. Still \/ (app = 0 /\ app' = 2 /\ kept' = kept)
    BY <1>3 DEF PublishApp, Rename, bundles, MInv, MacPlaces
  <2>2. 2 \in (1 .. (MaxAttempts + 2)) \ {0}
    BY InstallAssumption
  <2> QED
    BY <1>1, <2>1, <2>2 DEF PNext, Promise!Next, Promise!Publish
<1>4. CASE SetAsideApp
  <2>1. \/ UNCHANGED <<app, appBackup, appFailed>>
        \/ app # 0 /\ appFailed = 0 /\ appFailed' = app /\ app' = 0 /\ appBackup' = appBackup
    BY <1>4 DEF SetAsideApp, Undo, bundles, MInv, RollbackPlaces
  <2>2. Still \/ (app # 0 /\ kept' = kept \cup {app} /\ app' = 0)
    BY <2>1
  <2> QED
    BY <1>1, <2>2 DEF PNext, Promise!Next, Promise!Withdraw
<1>5. CASE RestoreApp
  <2>1. \/ UNCHANGED <<app, appBackup, appFailed>>
        \/ /\ app = 0 /\ appBackup = 1 /\ appFailed # 1
           /\ app' = 1 /\ appBackup' = 0 /\ appFailed' = appFailed
    BY <1>5 DEF RestoreApp, Undo, bundles, MInv, MacTypes, RollbackPlaces
  <2>2. Still \/ (app = 0 /\ 1 \in kept /\ app' = 1 /\ kept' = kept \ {1})
    BY <2>1
  <2>3. 1 \in 1 .. (MaxAttempts + 2)
    BY InstallAssumption
  <2> QED
    BY <1>1, <2>2, <2>3 DEF PNext, Promise!Next, Promise!Restore
<1>6. CASE \/ CheckRequest \/ CopyApp \/ PatchProfile \/ PatchMacRenderer \/ PackApp \/ SignApp
           \/ CopyHelper \/ BackUpHelper \/ PublishHelper \/ MakeFailed \/ SetAsideHelper \/ RestoreHelper
           \/ Register \/ MacDies
  <2>1. UNCHANGED <<app, appBackup, appFailed>>
    BY <1>6 DEF CheckRequest, CopyApp, PatchProfile, PatchMacRenderer, PackApp, SignApp, CopyHelper,
                MacStage, BackUpHelper, PublishHelper, Rename, MakeFailed, SetAsideHelper, RestoreHelper, Undo,
                Register, MacDies, bundles
  <2> QED
    BY <1>1, <2>1
<1> QED
  BY <1>2, <1>3, <1>4, <1>5, <1>6 DEF MNext

LEMMA StepRefines == WInv /\ MInv /\ [Next]_vars => PNext
<1> SUFFICES ASSUME WInv, MInv, [Next]_vars PROVE PNext
  OBVIOUS
<1>1. CASE platform = "windows" /\ DNext /\ UNCHANGED <<platform, macVars>>
  BY <1>1, WindowsStepRefines
<1>2. CASE platform = "macos" /\ MNext /\ UNCHANGED <<platform, windowsVars>>
  BY <1>2, MacStepRefines
<1>3. CASE UNCHANGED vars
  BY <1>3 DEF vars, windowsVars, macVars, installVars, placeVars, bundles, PNext
<1> QED
  BY <1>1, <1>2, <1>3 DEF Next

\* On either platform replacing a build implements Replacement: a build that
\* was there is only let go of when another one is in place (_atomic_install;
\* patch_app's renames).
THEOREM ReplacementImplemented == Spec => NeverLost
<1>1. Init => Promise!Init
  <2> SUFFICES ASSUME Init PROVE Promise!Init
    OBVIOUS
  <2>1. 1 \in 1 .. (MaxAttempts + 2)
    BY InstallAssumption
  <2>2. CASE platform = "windows"
    BY <2>1, <2>2 DEF Init, DInit, Promise!Init
  <2>3. CASE platform = "macos"
    <3>1. app \in {0, 1} /\ appBackup = 0 /\ appFailed = 0
      BY <2>3 DEF Init, MInit
    <3> QED
      BY <2>1, <2>3, <3>1 DEF Promise!Init
  <2> QED
    BY <2>2, <2>3 DEF Init
<1>2. WInv /\ MInv /\ [Next]_vars => PNext
  BY StepRefines
<1> QED
  BY <1>1, <1>2, WInvInductive, MInvInductive, PTL DEF Spec, NeverLost, Promise!Spec, PNext

\* (That promise, as a step of the installers keeps it.)
StillThere ==
  [\/ (IF platform = "macos" THEN app ELSE dest) # 0
   \/ (IF platform = "macos" THEN {appBackup, appFailed} \ {0} ELSE side) # {}
   => \/ (IF platform = "macos" THEN app ELSE dest)' # 0
      \/ (IF platform = "macos" THEN {appBackup, appFailed} \ {0} ELSE side)' # {}]_
  <<IF platform = "macos" THEN app ELSE dest,
    IF platform = "macos" THEN {appBackup, appFailed} \ {0} ELSE side>>

\* What Replacement promises is so of both installers: once there is a build,
\* in place or kept apart, there is always one, however attempts end.
THEOREM OnceThereAlwaysOne == Spec => Promise!NeverWithout
<1>1. PNext => StillThere
  <2> SUFFICES ASSUME PNext, Promise!Next PROVE StillThere
    BY DEF PNext, StillThere
  <2> QED
    BY DEF StillThere, Promise!Next, Promise!Withdraw, Promise!Publish, Promise!Restore,
           Promise!Discard
<1>2. WInv /\ MInv /\ [Next]_vars => PNext
  BY StepRefines
<1> QED
  BY <1>1, <1>2, WInvInductive, MInvInductive, PTL DEF Spec, StillThere, Promise!NeverWithout

-----------------------------------------------------------------------------
(* The quiescence loop within the attempts.                                 *)

LEMMA ToolKeepsQuiet ==
  ASSUME QInv,
         \/ Gate \/ PlanMirror \/ Weigh \/ LoadToken \/ MirrorFile \/ VerifyMirror \/ PrepareAcl
         \/ ResolveIntegrity \/ Extract \/ AuditAnchors \/ PatchStartup \/ SelectScript
         \/ PatchAsset \/ CheckSyntax \/ Repack \/ StageArchive \/ Seal \/ ClearUnpacked
         \/ CopyUnpacked \/ StageRuntime
         \/ MoveAside \/ Publish \/ RestoreOld \/ Finish \/ ToolFails
  PROVE  QInv'
<1>1. UNCHANGED quiesceVars
  BY DEF Gate, PlanMirror, Weigh, LoadToken, MirrorFile, VerifyMirror, PrepareAcl,
         ResolveIntegrity, Extract, AuditAnchors, PatchStartup, SelectScript, PatchAsset,
         CheckSyntax, Repack, StageArchive, Seal, ClearUnpacked, CopyUnpacked, StageRuntime, Stage,
         MoveAside, Publish, RestoreOld, Finish, ToolFails
<1> QED
  BY <1>1, IdleKeeps

LEMMA AttemptKeepsQuiet ==
  ASSUME QInv, Begin \/ Quiet \/ AssertQuiet \/ Die \/ Look \/ Beside
  PROVE  QInv'
<1>1. CASE Begin
  BY <1>1, CallKeeps, IdleKeeps DEF Begin
<1>2. CASE Quiet
  BY <1>2, CallerKeeps, QuiesceAssumption DEF Quiet, QInv, QTypeOK
<1>3. CASE AssertQuiet
  <2>1. blind' \in {blind, blind + 1} /\ blind' =< MaxBlind
    BY <1>3, QuiesceAssumption DEF AssertQuiet, QInv, QTypeOK
  <2> QED
    BY <1>3, <2>1, CallerKeeps DEF AssertQuiet
<1>4. CASE Die
  BY <1>4, CallerKeeps, QuiesceAssumption DEF Die, QInv, QTypeOK
<1>5. CASE Look
  BY <1>5, LoopKeeps DEF Look
<1>6. CASE Beside
  BY <1>6, EnvironmentKeeps DEF Beside
<1> QED
  BY <1>1, <1>2, <1>3, <1>4, <1>5, <1>6

LEMMA QuietInAttempts == Spec => []QInv
<1>1. Init => QInv
  BY QStarts DEF Init
<1>2. QInv /\ [Next]_vars => QInv'
  BY ToolKeepsQuiet, AttemptKeepsQuiet, IdleKeeps DEF Next, DNext, Tool, vars, windowsVars
<1> QED
  BY <1>1, <1>2, PTL DEF Spec

\* However often the tool is run, dies in the middle of its loop or looks once
\* more before its rename: with at most one snapshot lost in all, no attempt
\* builds on a QUIESCENT that a real inventory had not seen
\* (discovery.py:942-992, patch_app_windows.py:1541-1644).
THEOREM AttemptsAreQuiet ==
  ASSUME MaxBlind =< 1 PROVE Spec => []QuietWasSeen
  BY QuietIsSeen, QuietInAttempts, PTL

-----------------------------------------------------------------------------
(* What an attempt has built at each of its stages.                         *)

AllOfIt == Assets \cup {"bootstrap"}
Steps == UNION {{script[i] : i \in DOMAIN script} :
                  script \in {Script820, Script825, LegacyScript, Script901}}
LeftOf(steps) == UNION {Written(steps[i]) : i \in DOMAIN steps}

AfterSelect == {"patch", "pack", "archive", "seal", "clear", "unpack", "runtime"}
AfterIntegrity == {"extract", "audit", "bootstrap", "select"} \cup AfterSelect
AfterToken == {"mirror", "acl", "integrity"} \cup AfterIntegrity

\* The token is there before anything carries it, and then it stays.
TokenInv ==
  /\ pc \in AfterToken \/ made # <<>> => token # 0
  /\ \A b \in DOMAIN made : made[b].token = token

\* What the temporary directory holds when stage `at` begins: what was written
\* and what the script has left make the whole patch, the digests follow the
\* archive.
Fit(at, st) ==
  /\ at \in AfterSelect => st.token = token
  /\ at \in AfterIntegrity => IntegrityResolved(Official.bins)
  /\ at = "select" => st.written = {"bootstrap"}
  /\ at = "patch" => /\ DOMAIN st.script = {"binding", "steps"}
                     /\ st.script.steps \in Seq(Steps)
                     /\ st.written \cup LeftOf(st.script.steps) = AllOfIt
  /\ at \in AfterSelect \ {"patch"} => st.written = AllOfIt
  /\ at \in {"seal", "clear", "unpack", "runtime"} => st.asar = "patched"
  /\ at \in {"clear", "unpack", "runtime"} => Boots(Official.bins, st.digests, st.asar)

StageInv ==
  /\ DOMAIN stage = DOMAIN NoStage
  /\ pc # "off" => pkg \in DOMAIN Packages
  /\ Fit(pc, stage)

\* Every build that was made is whole, and wherever a build is that was not
\* there before, it was made by an attempt.
Whole(build) ==
  /\ build.written = AllOfIt /\ build.asar = "patched"
  /\ Boots(Official.bins, build.digests, build.asar)
MadeInv ==
  /\ \A b \in DOMAIN made : Whole(made[b])
  /\ pc \in {"assert", "aside", "publish"} => Build \in DOMAIN made
  /\ {dest, moved} \subseteq {0, 1} \cup DOMAIN made
  /\ side \subseteq {1} \cup DOMAIN made

BInv == TokenInv /\ StageInv /\ MadeInv

\* A script writes every asset of the renderer.
LEMMA ScriptsWriteAll ==
  ASSUME NEW script \in {Script820, Script825, LegacyScript, Script901}
  PROVE  script \in Seq(Steps) /\ LeftOf(script) = Assets
<1>1. /\ Script820 \in Seq(Steps) /\ Script825 \in Seq(Steps)
      /\ LegacyScript \in Seq(Steps) /\ Script901 \in Seq(Steps)
  <2>1. \A i \in 1..5 : /\ Script820[i] \in Steps /\ Script825[i] \in Steps
                        /\ LegacyScript[i] \in Steps
    <3>1. /\ DOMAIN Script820 = 1..5 /\ DOMAIN Script825 = 1..5 /\ DOMAIN LegacyScript = 1..5
      BY DEF Script820, Script825, LegacyScript
    <3> QED
      BY <3>1 DEF Steps
  <2>2. Script901[1] \in Steps
    <3>1. DOMAIN Script901 = 1..1
      BY DEF Script901
    <3> QED
      BY <3>1 DEF Steps
  <2> QED
    BY <2>1, <2>2 DEF Script820, Script825, LegacyScript, Script901
<1>2. LeftOf(Script901) = Assets
  BY DEF LeftOf, Script901, Written, Step
<1>3. ASSUME NEW steps \in {Script820, Script825, LegacyScript} PROVE LeftOf(steps) = Assets
  <2>1. /\ DOMAIN steps = 1..5
        /\ steps[1].asset = "index" /\ steps[2].asset = "initial" /\ steps[3].asset = "profile"
        /\ steps[4].asset = "plugin" /\ steps[5].asset = "thread"
    BY <1>3 DEF Script820, Script825, LegacyScript, Step
  <2>2. \A i \in 1..5 : Written(steps[i]) = {steps[i].asset}
    BY <2>1 DEF Written
  <2> QED
    BY <2>1, <2>2 DEF LeftOf, Assets
<1> QED
  BY <1>1, <1>2, <1>3

LEMMA SelectedWritesAll ==
  ASSUME NEW p \in DOMAIN Packages, Scripts[p] # NoScript
  PROVE  /\ DOMAIN Scripts[p] = {"binding", "steps"}
         /\ Scripts[p].steps \in Seq(Steps) /\ LeftOf(Scripts[p].steps) = Assets
<1> DEFINE All == {Script820, Script825, LegacyScript, Script901}
<1>1. ASSUME NEW x, NEW reviewed, NEW id, NEW release, Script(x, reviewed, id, release) # NoScript
      PROVE  \E b : \E script \in All :
               Script(x, reviewed, id, release) = [binding |-> b, steps |-> script]
  <2> DEFINE pick == IF reviewed # "none" THEN {reviewed} \cap Detected(x)
                     ELSE Variants(x, id, release)
             c == CHOOSE q \in pick : TRUE
             binding == CHOOSE b \in Fits(x, c) : TRUE
             steps == CASE c = "windows-26.901" -> Script901
                        [] c = "windows-26.820" -> Script820
                        [] c = "windows-26.825" -> Script825
                        [] OTHER -> LegacyScript
  <2>1. steps \in All
    OBVIOUS
  <2>2. Script(x, reviewed, id, release) = [binding |-> binding, steps |-> steps]
    BY <1>1, Zenon DEF Script
  <2> HIDE DEF steps, binding
  <2> QED
    BY <2>1, <2>2
<1>2. Scripts[p] = Script(Packages[p].x, Contracts[p], Packages[p].id, Releases)
  BY DEF Scripts
<1>3. PICK b : \E script \in All : Scripts[p] = [binding |-> b, steps |-> script]
  <2> HIDE DEF All
  <2>1. Script(Packages[p].x, Contracts[p], Packages[p].id, Releases) # NoScript
    BY <1>2
  <2>2. \E b : \E script \in All :
          Script(Packages[p].x, Contracts[p], Packages[p].id, Releases)
            = [binding |-> b, steps |-> script]
    BY <1>1, <2>1
  <2> QED
    BY <1>2, <2>2
<1> QED
  BY <1>3, ScriptsWriteAll

LEMMA OneStepWritten ==
  ASSUME NEW steps \in Seq(Steps), steps # <<>>
  PROVE  /\ Tail(steps) \in Seq(Steps)
         /\ LeftOf(steps) = Written(Head(steps)) \cup LeftOf(Tail(steps))
<1>1. /\ Tail(steps) \in Seq(Steps) /\ Len(Tail(steps)) = Len(steps) - 1 /\ Len(steps) \in Nat \ {0}
      /\ \A i \in 1..Len(Tail(steps)) : Tail(steps)[i] = steps[i + 1]
      /\ Head(steps) = steps[1]
  OBVIOUS
<1>2. DOMAIN steps = 1..Len(steps) /\ DOMAIN Tail(steps) = 1..Len(Tail(steps))
  BY <1>1
<1>3. LeftOf(Tail(steps)) \subseteq LeftOf(steps) /\ Written(Head(steps)) \subseteq LeftOf(steps)
  BY <1>1, <1>2 DEF LeftOf
<1>4. ASSUME NEW i \in DOMAIN steps, i # 1 PROVE Written(steps[i]) \subseteq LeftOf(Tail(steps))
  <2>1. i - 1 \in 1..Len(Tail(steps)) /\ Tail(steps)[i - 1] = steps[i]
    BY <1>1, <1>2, <1>4
  <2> QED
    BY <1>2, <2>1 DEF LeftOf
<1> QED
  BY <1>1, <1>3, <1>4 DEF LeftOf

\* Where the fuse validates the archive there is a resource to seal.
LEMMA SealedBoots ==
  ASSUME NEW bins, NEW digests, NEW asar, IntegrityResolved(bins)
  PROVE  Boots(bins, Sealed(bins, digests, asar), asar)
<1>1. ValidationOn(bins) => Resources(bins) # {}
  BY DEF IntegrityResolved, IntegrityState
<1>2. Resources(bins) \subseteq bins
  BY DEF Resources, Observed, Carriers
<1> QED
  BY <1>1, <1>2 DEF Boots, Sealed

\* What a stage leaves: the end of the attempt, or the record it was to leave.
LEMMA StageMoves ==
  ASSUME NEW at, NEW next, NEW good, NEW n, NEW full, NEW st, DOMAIN st = DOMAIN NoStage,
         Stage(at, next, good, n, full, st)
  PROVE  /\ pc = at /\ UNCHANGED <<pkg, attempt, placeVars>>
         /\ DOMAIN stage' = DOMAIN NoStage
         /\ \/ pc' = "done"
            \/ /\ good /\ pc' = next
               /\ stage'.written = st.written /\ stage'.script = st.script
               /\ stage'.asar = st.asar /\ stage'.digests = st.digests /\ stage'.token = st.token
<1>1. /\ pc = at /\ UNCHANGED <<pkg, attempt, placeVars>>
      /\ \/ pc' = "done" /\ stage' = NoStage
         \/ good /\ pc' = next /\ stage' = [st EXCEPT !.bytes = @ + n]
  BY DEF Stage, Leave, LeaveFreeing, fixedVars
<1>2. ASSUME stage' = [st EXCEPT !.bytes = @ + n]
      PROVE  /\ DOMAIN stage' = DOMAIN NoStage
             /\ stage'.written = st.written /\ stage'.script = st.script
             /\ stage'.asar = st.asar /\ stage'.digests = st.digests /\ stage'.token = st.token
  BY <1>2 DEF NoStage
<1> QED
  BY <1>1, <1>2

LEMMA FitIsKept ==
  ASSUME NEW st, Fit(pc', st), UNCHANGED <<pkg, token>>,
         stage'.written = st.written, stage'.script = st.script, stage'.asar = st.asar,
         stage'.digests = st.digests, stage'.token = st.token
  PROVE  Fit(pc, stage)'
  BY DEF Fit, Official

\* A stage keeps the invariant when it leaves what the next one may rely on.
LEMMA StageKeepsBuild ==
  ASSUME BInv, NEW at, NEW next, NEW good, NEW n, NEW full, NEW st,
         Stage(at, next, good, n, full, st), UNCHANGED <<made, token>>,
         at \in AfterToken, next \in AfterToken,
         DOMAIN st = DOMAIN NoStage, good => Fit(next, st)
  PROVE  BInv'
<1>1. /\ pc = at /\ UNCHANGED <<pkg, attempt, placeVars>>
      /\ DOMAIN stage' = DOMAIN NoStage
      /\ \/ pc' = "done"
         \/ /\ good /\ pc' = next
            /\ stage'.written = st.written /\ stage'.script = st.script
            /\ stage'.asar = st.asar /\ stage'.digests = st.digests /\ stage'.token = st.token
  BY StageMoves
<1>2. Fit(pc, stage)'
  <2>1. pc' = "done" => Fit(pc, stage)'
    BY DEF Fit, AfterSelect, AfterIntegrity
  <2>2. pc' # "done" => Fit(pc', st)
    BY <1>1
  <2> QED
    BY <1>1, <2>1, <2>2, FitIsKept
<1>3. TokenInv' /\ StageInv'
  BY <1>1, <1>2 DEF BInv, TokenInv, StageInv, AfterSelect, AfterIntegrity, AfterToken
<1>4. MadeInv'
  BY <1>1 DEF BInv, MadeInv, Whole, Official, placeVars, AfterSelect, AfterIntegrity, AfterToken
<1> QED
  BY <1>3, <1>4 DEF BInv

\* A step after which no attempt is under way, or one that only decides.
LEMMA RestKeepsBuild ==
  ASSUME BInv, UNCHANGED <<pkg, token, made, attempt, placeVars>>,
         DOMAIN stage' = DOMAIN NoStage,
         pc' \in {"done", "gate", "plan", "weigh", "token"}, pc # "off"
  PROVE  BInv'
  BY DEF BInv, TokenInv, StageInv, Fit, MadeInv, placeVars, AfterToken, AfterIntegrity,
         AfterSelect, Whole, Official

LEMMA DecisionsKeepBuild ==
  ASSUME BInv, Quiet \/ Gate \/ PlanMirror \/ Weigh \/ ToolFails \/ Die
  PROVE  BInv'
<1> USE DEF Decide, Leave, LeaveFreeing, fixedVars, AfterToken, AfterIntegrity, AfterSelect
<1>1. DOMAIN stage = DOMAIN NoStage
  BY DEF BInv, StageInv
<1>2. CASE Quiet
  BY <1>1, <1>2, RestKeepsBuild DEF Quiet
<1>3. CASE Gate
  BY <1>1, <1>3, RestKeepsBuild DEF Gate
<1>4. CASE PlanMirror
  BY <1>1, <1>4, RestKeepsBuild DEF PlanMirror, NoStage
<1>5. CASE Weigh
  BY <1>1, <1>5, RestKeepsBuild DEF Weigh
<1>6. CASE ToolFails
  BY <1>1, <1>6, RestKeepsBuild DEF ToolFails, Working
<1>7. CASE Die
  BY <1>1, <1>7, RestKeepsBuild DEF Die, Working
<1> QED
  BY <1>2, <1>3, <1>4, <1>5, <1>6, <1>7

LEMMA TokenKeepsBuild == WInv /\ BInv /\ LoadToken => BInv'
<1> SUFFICES ASSUME WInv, BInv, LoadToken PROVE BInv'
  OBVIOUS
<1>1. Build # 0
  BY DEF WInv, PlacesInv, Build
<1>2. /\ pc' = "done" \/ (pc' = "mirror" /\ token' # 0)
      /\ DOMAIN stage' = DOMAIN NoStage /\ pc = "token"
      /\ UNCHANGED <<pkg, made, attempt, placeVars>>
      /\ token' = token \/ token = 0
  BY <1>1 DEF LoadToken, Leave, LeaveFreeing, fixedVars, BInv, StageInv
<1>3. token = 0 => made = <<>>
  BY DEF BInv, TokenInv
<1>4. TokenInv'
  <2>1. CASE token' = token
    BY <1>2, <2>1 DEF BInv, TokenInv, AfterToken, AfterIntegrity, AfterSelect
  <2>2. CASE token = 0
    BY <1>2, <1>3, <2>2 DEF TokenInv, AfterToken, AfterIntegrity, AfterSelect
  <2> QED
    BY <1>2, <2>1, <2>2
<1> QED
  BY <1>2, <1>4 DEF BInv, StageInv, Fit, MadeInv, placeVars, AfterIntegrity, AfterSelect, Whole, Official

LEMMA CopyKeepsBuild ==
  ASSUME BInv,
         \/ MirrorFile \/ VerifyMirror \/ PrepareAcl \/ ResolveIntegrity \/ Extract \/ AuditAnchors
  PROVE  BInv'
<1> USE DEF AfterToken, AfterIntegrity, AfterSelect
<1>1. DOMAIN stage = DOMAIN NoStage /\ Fit(pc, stage)
  BY DEF BInv, StageInv
<1>2. \A st : Fit("mirror", st) /\ Fit("acl", st) /\ Fit("integrity", st)
  BY DEF Fit
<1>3. CASE MirrorFile
  <2> DEFINE f == CHOOSE g \in stage.plan.files \ stage.copied : TRUE
             st == [stage EXCEPT !.copied = @ \cup {f}]
  <2>1. Stage("mirror", "mirror", TRUE, f.size, "STORAGE", st) /\ UNCHANGED <<made, token>>
    BY <1>3 DEF MirrorFile
  <2>2. DOMAIN st = DOMAIN NoStage
    BY <1>1
  <2> HIDE DEF st, f
  <2> QED
    BY <1>2, <2>1, <2>2, StageKeepsBuild
<1>4. CASE VerifyMirror
  BY <1>1, <1>2, <1>4, StageKeepsBuild DEF VerifyMirror
<1>5. CASE PrepareAcl
  BY <1>1, <1>2, <1>5, StageKeepsBuild DEF PrepareAcl
<1>6. CASE ResolveIntegrity
  <2> DEFINE good == IntegrityResolved(Official.bins)
             st == [stage EXCEPT !.digests = [b \in Official.bins |-> "official"]]
  <2>1. Stage("integrity", "extract", good, 0, "FAILED", st) /\ UNCHANGED <<made, token>>
    BY <1>6 DEF ResolveIntegrity
  <2>2. DOMAIN st = DOMAIN NoStage
    BY <1>1
  <2>3. good => Fit("extract", st)
    BY DEF Fit
  <2> HIDE DEF st, good
  <2> QED
    BY <2>1, <2>2, <2>3, StageKeepsBuild
<1>7. CASE Extract
  <2>1. Fit("audit", stage)
    BY <1>1, <1>7 DEF Fit, Extract, Stage
  <2> QED
    BY <1>1, <1>7, <2>1, StageKeepsBuild DEF Extract
<1>8. CASE AuditAnchors
  <2>1. Fit("bootstrap", stage)
    BY <1>1, <1>8 DEF Fit, AuditAnchors, Stage
  <2> QED
    BY <1>1, <1>8, <2>1, StageKeepsBuild DEF AuditAnchors
<1> QED
  BY <1>3, <1>4, <1>5, <1>6, <1>7, <1>8

LEMMA StartupKeepsBuild == BInv /\ PatchStartup => BInv'
<1> SUFFICES ASSUME BInv, PatchStartup PROVE BInv'
  OBVIOUS
<1> DEFINE st == [stage EXCEPT !.written = {"bootstrap"}]
           good == BootstrapPatched(Official.boot, {"bridge"} \cup Asked.hooks)
<1>1. Stage("bootstrap", "select", good, 0, "FAILED", st) /\ UNCHANGED <<made, token>>
  BY DEF PatchStartup
<1>2. Fit("bootstrap", stage)
  BY <1>1 DEF Stage, BInv, StageInv
<1>3. DOMAIN st = DOMAIN NoStage /\ st.written = {"bootstrap"}
  BY DEF BInv, StageInv, NoStage
<1>4. Fit("select", st)
  BY <1>2, <1>3 DEF Fit, AfterIntegrity, AfterSelect
<1> HIDE DEF st, good
<1> QED
  BY <1>1, <1>3, <1>4, StageKeepsBuild DEF AfterToken, AfterIntegrity, AfterSelect

LEMMA SelectKeepsBuild == BInv /\ SelectScript => BInv'
<1> SUFFICES ASSUME BInv, SelectScript PROVE BInv'
  OBVIOUS
<1> DEFINE st == [stage EXCEPT !.script = Scripts[pkg], !.token = token]
           good == Scripts[pkg] # NoScript
<1>1. Stage("select", "patch", good, 0, "FAILED", st) /\ UNCHANGED <<made, token>>
  BY DEF SelectScript
<1>2. Fit("select", stage) /\ pkg \in DOMAIN Packages
  BY <1>1 DEF Stage, BInv, StageInv
<1>3. /\ DOMAIN st = DOMAIN NoStage /\ st.written = stage.written
      /\ st.script = Scripts[pkg] /\ st.token = token
  BY DEF BInv, StageInv, NoStage
<1>4. good => /\ DOMAIN Scripts[pkg] = {"binding", "steps"}
              /\ Scripts[pkg].steps \in Seq(Steps) /\ LeftOf(Scripts[pkg].steps) = Assets
  BY <1>2, SelectedWritesAll
<1> HIDE DEF st, good
<1>5. good => Fit("patch", st)
  BY <1>2, <1>3, <1>4 DEF Fit, AfterIntegrity, AfterSelect, AllOfIt
<1> QED
  BY <1>1, <1>3, <1>5, StageKeepsBuild DEF AfterToken, AfterIntegrity, AfterSelect

LEMMA AssetKeepsBuild == BInv /\ PatchAsset => BInv'
<1> SUFFICES ASSUME BInv, PatchAsset PROVE BInv'
  OBVIOUS
<1> DEFINE s == Head(stage.script.steps)
           st == [stage EXCEPT !.written = @ \cup Written(s), !.script.steps = Tail(@)]
           good == Requires(Official.x, stage.script.binding, s)
<1>1. /\ Stage("patch", "patch", good, 0, "FAILED", st) /\ UNCHANGED <<made, token>>
      /\ stage.script.steps # <<>>
  BY DEF PatchAsset
<1>2. Fit("patch", stage) /\ DOMAIN stage = DOMAIN NoStage
  BY <1>1 DEF Stage, BInv, StageInv
<1>3. /\ DOMAIN stage.script = {"binding", "steps"} /\ stage.script.steps \in Seq(Steps)
      /\ stage.written \cup LeftOf(stage.script.steps) = AllOfIt
  BY <1>2 DEF Fit
<1>4. /\ DOMAIN st = DOMAIN NoStage /\ st.written = stage.written \cup Written(s)
      /\ DOMAIN st.script = {"binding", "steps"} /\ st.script.steps = Tail(stage.script.steps)
      /\ st.token = stage.token
  BY <1>2, <1>3 DEF NoStage
<1>5. /\ st.script.steps \in Seq(Steps)
      /\ st.written \cup LeftOf(st.script.steps) = AllOfIt
  BY <1>1, <1>3, <1>4, OneStepWritten
<1> HIDE DEF st, good, s
<1>6. Fit("patch", st)
  BY <1>2, <1>4, <1>5 DEF Fit
<1> QED
  BY <1>1, <1>4, <1>6, StageKeepsBuild DEF AfterToken, AfterIntegrity, AfterSelect

LEMMA SyntaxKeepsBuild == BInv /\ CheckSyntax => BInv'
<1> SUFFICES ASSUME BInv, CheckSyntax PROVE BInv'
  OBVIOUS
<1> DEFINE good == stage.written # {}
<1>1. Stage("patch", "pack", good, 0, "FAILED", stage) /\ UNCHANGED <<made, token>>
  BY DEF CheckSyntax
<1>2. Fit("patch", stage) /\ DOMAIN stage = DOMAIN NoStage
  BY <1>1 DEF Stage, BInv, StageInv
<1>3. LeftOf(stage.script.steps) = {}
  BY DEF LeftOf, CheckSyntax
<1>4. Fit("pack", stage)
  BY <1>2, <1>3 DEF Fit, AfterIntegrity, AfterSelect
<1> HIDE DEF good
<1> QED
  BY <1>1, <1>2, <1>4, StageKeepsBuild DEF AfterToken, AfterIntegrity, AfterSelect

LEMMA ArchiveKeepsBuild == BInv /\ StageArchive => BInv'
<1> SUFFICES ASSUME BInv, StageArchive PROVE BInv'
  OBVIOUS
<1> DEFINE st == [stage EXCEPT !.asar = "patched"]
<1>1. Stage("archive", "seal", TRUE, Official.growth, "STORAGE", st) /\ UNCHANGED <<made, token>>
  BY DEF StageArchive
<1>2. Fit("archive", stage)
  BY <1>1 DEF Stage, BInv, StageInv
<1>3. /\ DOMAIN st = DOMAIN NoStage /\ st.written = stage.written /\ st.asar = "patched"
      /\ st.token = stage.token
  BY DEF BInv, StageInv, NoStage
<1> HIDE DEF st
<1>4. Fit("seal", st)
  BY <1>2, <1>3 DEF Fit, AfterIntegrity, AfterSelect
<1> QED
  BY <1>1, <1>3, <1>4, StageKeepsBuild DEF AfterToken, AfterIntegrity, AfterSelect

\* The archive is packed, the unpacked tree replaced: no part of a build.
LEMMA RepackKeepsBuild ==
  ASSUME BInv, Repack \/ ClearUnpacked \/ CopyUnpacked
  PROVE  BInv'
<1> USE DEF AfterToken, AfterIntegrity, AfterSelect
<1>1. DOMAIN stage = DOMAIN NoStage /\ Fit(pc, stage)
  BY DEF BInv, StageInv
<1>2. CASE Repack
  <2> DEFINE good == Official.native \subseteq UnpackRoots(stage.copied)
             n == AsarBytes(stage.copied) + Official.growth + UnpackedBytes(stage.plan)
  <2>1. Stage("pack", "archive", good, n, "FAILED", stage) /\ UNCHANGED <<made, token>>
    BY <1>2 DEF Repack
  <2> HIDE DEF good, n
  <2>2. Fit("archive", stage)
    BY <1>1, <2>1 DEF Fit, Stage
  <2> QED
    BY <1>1, <2>1, <2>2, StageKeepsBuild
<1>3. CASE ClearUnpacked
  <2>1. Fit("unpack", stage)
    BY <1>1, <1>3 DEF Fit, ClearUnpacked, Stage
  <2> QED
    BY <1>1, <1>3, <2>1, StageKeepsBuild DEF ClearUnpacked
<1>4. CASE CopyUnpacked
  <2>1. Fit("runtime", stage)
    BY <1>1, <1>4 DEF Fit, CopyUnpacked, Stage
  <2> QED
    BY <1>1, <1>4, <2>1, StageKeepsBuild DEF CopyUnpacked
<1> QED
  BY <1>2, <1>3, <1>4

LEMMA SealKeepsBuild == BInv /\ Seal => BInv'
<1> SUFFICES ASSUME BInv, Seal PROVE BInv'
  OBVIOUS
<1> DEFINE bins == Official.bins
           st == [stage EXCEPT !.digests = Sealed(bins, @, stage.asar)]
<1>1. Stage("seal", "clear", TRUE, 0, "FAILED", st) /\ UNCHANGED <<made, token>>
  BY DEF Seal
<1>2. Fit("seal", stage)
  BY <1>1 DEF Stage, BInv, StageInv
<1>3. /\ DOMAIN st = DOMAIN NoStage /\ st.written = stage.written /\ st.asar = stage.asar
      /\ st.token = stage.token /\ st.digests = Sealed(bins, stage.digests, stage.asar)
  BY DEF BInv, StageInv, NoStage
<1>4. Boots(bins, st.digests, st.asar)
  BY <1>2, <1>3, SealedBoots DEF Fit, AfterIntegrity, AfterSelect
<1> HIDE DEF st
<1>5. Fit("clear", st)
  BY <1>2, <1>3, <1>4 DEF Fit, AfterIntegrity, AfterSelect
<1> HIDE DEF bins
<1> QED
  BY <1>1, <1>3, <1>5, StageKeepsBuild DEF AfterToken, AfterIntegrity, AfterSelect

LEMMA RuntimeKeepsBuild == BInv /\ StageRuntime => BInv'
<1> SUFFICES ASSUME BInv, StageRuntime PROVE BInv'
  OBVIOUS
<1>1. /\ Stage("runtime", "assert", TRUE, RuntimeBytes, "FAILED", stage) /\ UNCHANGED token
      /\ \/ pc' # "assert" /\ made' = made
         \/ /\ pc' = "assert" /\ DOMAIN made' = DOMAIN made \cup {Build}
            /\ \A b \in DOMAIN made' :
                 made'[b] = IF b = Build
                            THEN [written |-> stage.written, asar |-> stage.asar,
                                  digests |-> stage.digests, token |-> stage.token]
                            ELSE made[b]
  BY DEF StageRuntime
<1>2. DOMAIN stage = DOMAIN NoStage
  BY DEF BInv, StageInv
<1>3. /\ pc = "runtime" /\ UNCHANGED <<pkg, attempt, placeVars>>
      /\ DOMAIN stage' = DOMAIN NoStage /\ pc' \in {"assert", "done"}
  BY <1>1, <1>2, StageMoves
<1>4. TokenInv'
  BY <1>1, <1>3 DEF BInv, TokenInv, StageInv, Fit, AfterToken, AfterIntegrity, AfterSelect
<1>5. StageInv'
  BY <1>3 DEF BInv, StageInv, Fit, AfterToken, AfterIntegrity, AfterSelect
<1>6. \A b \in DOMAIN made' : Whole(made[b])'
  <2>1. /\ stage.written = AllOfIt /\ stage.asar = "patched"
        /\ Boots(Official.bins, stage.digests, stage.asar)
    BY <1>3 DEF BInv, StageInv, Fit, AfterSelect
  <2>2. Official' = Official
    BY <1>3 DEF Official
  <2>3. \A b \in DOMAIN made : Whole(made[b])
    BY DEF BInv, MadeInv
  <2> SUFFICES ASSUME NEW b \in DOMAIN made' PROVE Whole(made[b])'
    OBVIOUS
  <2>4. CASE made' = made
    BY <2>2, <2>3, <2>4 DEF Whole
  <2>5. CASE pc' = "assert" /\ b = Build
    BY <1>1, <2>1, <2>2, <2>5 DEF Whole
  <2>6. CASE pc' = "assert" /\ b # Build
    BY <1>1, <2>2, <2>3, <2>6 DEF Whole
  <2> QED
    BY <1>1, <2>4, <2>5, <2>6
<1>7. MadeInv'
  <2>1. DOMAIN made \subseteq DOMAIN made' /\ (pc' = "assert" => Build \in DOMAIN made')
    BY <1>1
  <2> QED
    BY <1>3, <1>6, <2>1 DEF BInv, MadeInv, Whole, Official, placeVars, Build
<1> QED
  BY <1>4, <1>5, <1>7 DEF BInv

\* Moving builds about.
LEMMA MovesKeepBuild ==
  ASSUME WInv, BInv, Begin \/ AssertQuiet \/ MoveAside \/ Publish \/ RestoreOld \/ Finish
  PROVE  BInv'
<1> USE DEF BInv, TokenInv, StageInv, Fit, AfterToken, AfterIntegrity, AfterSelect,
         Whole, Official, Leave, LeaveFreeing, fixedVars, placeVars
<1>1. DOMAIN [stage EXCEPT !.bytes = @ - SizeOf(Build)] = DOMAIN NoStage
  OBVIOUS
<1>2. /\ UNCHANGED <<pkg, made, token>> /\ DOMAIN stage' = DOMAIN NoStage /\ pc # "off"
      /\ pc' \in {"quiet", "gate", "publish", "aside", "finish", "restore", "done"}
  BY <1>1 DEF Begin, AssertQuiet, MoveAside, Publish, RestoreOld, Finish, workVars
<1>3. TokenInv' /\ StageInv' /\ \A b \in DOMAIN made' : Whole(made[b])'
  BY <1>2 DEF MadeInv
<1>4. MadeInv'
  <2>1. CASE Begin
    BY <1>2, <1>3, <2>1 DEF Begin, MadeInv
  <2>2. CASE AssertQuiet
    BY <1>2, <1>3, <2>2 DEF AssertQuiet, MadeInv, Build
  <2>3. CASE MoveAside
    <3>1. /\ pc = "aside" /\ attempt' = attempt /\ dest # 0
          /\ \/ UNCHANGED <<dest, side, moved>>
             \/ moved' = dest /\ side' = side \cup {dest} /\ dest' = 0
      BY <2>3 DEF MoveAside, WInv, PlacesInv
    <3>2. dest \in {1} \cup DOMAIN made /\ moved \in {0, 1} \cup DOMAIN made
      BY <3>1 DEF MadeInv
    <3>3. Build' = Build /\ Build \in DOMAIN made
      BY <3>1 DEF MadeInv, Build
    <3>4. {dest', moved'} \subseteq {0, 1} \cup DOMAIN made
      BY <3>1, <3>2
    <3>5. side' \subseteq {1} \cup DOMAIN made
      BY <3>1, <3>2 DEF MadeInv
    <3> QED
      BY <1>2, <1>3, <3>3, <3>4, <3>5 DEF MadeInv
  <2>4. CASE Publish
    BY <1>2, <1>3, <2>4 DEF Publish, MadeInv, Build
  <2>5. CASE RestoreOld
    BY <1>2, <1>3, <2>5 DEF RestoreOld, MadeInv, Build
  <2>6. CASE Finish
    BY <1>2, <1>3, <2>6 DEF Finish, MadeInv, Build
  <2> QED
    BY <2>1, <2>2, <2>3, <2>4, <2>5, <2>6
<1> QED
  BY <1>3, <1>4

LEMMA LookersKeepBuild == BInv /\ UNCHANGED installVars => BInv'
  BY DEF installVars, fixedVars, placeVars, workVars, BInv, TokenInv, StageInv, Fit, MadeInv,
         Whole, Official, Build

LEMMA BInvHolds == Spec => []BInv
<1>1. Init => BInv
  BY DEF Init, DInit, WindowsIdle, BInv, TokenInv, StageInv, Fit, MadeInv, AfterToken, AfterIntegrity,
         AfterSelect
<1>2. WInv /\ BInv /\ DNext => BInv'
  BY DecisionsKeepBuild, TokenKeepsBuild, CopyKeepsBuild, StartupKeepsBuild, SelectKeepsBuild,
     AssetKeepsBuild, SyntaxKeepsBuild, RepackKeepsBuild, ArchiveKeepsBuild, SealKeepsBuild,
     RuntimeKeepsBuild, MovesKeepBuild, LookersKeepBuild DEF DNext, Tool, Look, Beside
<1>3. WInv /\ BInv /\ [Next]_vars => BInv'
  BY <1>2, LookersKeepBuild DEF Next, vars, windowsVars
<1> QED
  BY <1>1, <1>3, WInvInductive, PTL DEF Spec

\* Whatever fails, dies or is tried again: what is in place is what was there
\* before or a build whose every asset and digest was patched (the stages of
\* build_windows_desktop, and apply_windows_asar_integrity).
THEOREM InstalledIsWhole ==
  Spec => [](InstalledShellWorks /\ dest \in {0, 1} \cup DOMAIN made)
<1>1. BInv => InstalledShellWorks /\ dest \in {0, 1} \cup DOMAIN made
  BY DEF BInv, MadeInv, Whole, AllOfIt, InstalledShellWorks
<1> QED
  BY <1>1, BInvHolds, PTL

\* Rebuilds keep the token: the renderer in place and its mux agree
\* (load_or_create_token).
THEOREM TokensAgree == Spec => []RendererMuxAgree
<1>1. BInv => RendererMuxAgree
  BY DEF BInv, TokenInv, RendererMuxAgree
<1> QED
  BY <1>1, BInvHolds, PTL

-----------------------------------------------------------------------------
(* Sums of sizes.  FoldSet computes them by recursion on sets; that the      *)
(* recursion has a solution, and one only, is shown by a least               *)
(* counterexample among the subsets of a finite set.                         *)

\* Bytes is a sum taken file by file; what FoldSet computes on the subsets of
\* T, as a function, and which file it takes first.
First(s) == CHOOSE x \in s : TRUE
Sums(g, T) ==
  g = [s \in SUBSET T |-> IF s = {} THEN 0 ELSE g[s \ {First(s)}] + First(s).size]

Sized(T) == IsFiniteSet(T) /\ \A f \in T : f.size \in Nat

LEMMA BytesIsSum == \A T : Bytes(T) = (CHOOSE g : Sums(g, T))[T]
  BY DEF Bytes, FoldSet, MapThenFoldSet, Sums, First

\* Among some subsets of a finite set there is a least one.
LEMMA LeastSubset ==
  ASSUME NEW T, IsFiniteSet(T), NEW D, D \subseteq SUBSET T, D # {}
  PROVE  \E d \in D : \A e \in D : e \subseteq d => e = d
<1>1. IsWellFoundedOn(StrictSubsetOrdering(T), SUBSET T)
  BY FS_StrictSubsetOrderingWellFounded, FS_FiniteSubsetsOfFinite
<1>2. PICK d \in D : \A e \in D : ~ (<<e, d>> \in StrictSubsetOrdering(T))
  BY <1>1, WFMin
<1>3. ASSUME NEW e \in D, e \subseteq d PROVE e = d
  BY <1>2, <1>3 DEF StrictSubsetOrdering
<1> QED
  BY <1>3

LEMMA FirstIn == \A s : s # {} => First(s) \in s
  BY DEF First

LEMMA SumsAt ==
  ASSUME NEW T, NEW g, Sums(g, T), NEW s \in SUBSET T
  PROVE  g[s] = IF s = {} THEN 0 ELSE g[s \ {First(s)}] + First(s).size
  BY DEF Sums

LEMMA SumsUnique ==
  ASSUME NEW T, IsFiniteSet(T), NEW g, Sums(g, T), NEW h, Sums(h, T)
  PROVE  g = h
<1> DEFINE D == {s \in SUBSET T : g[s] # h[s]}
<1>1. SUFFICES ASSUME D # {} PROVE FALSE
  <2>1. g = [s \in SUBSET T |-> g[s]] /\ h = [s \in SUBSET T |-> h[s]]
    BY DEF Sums
  <2> QED
    BY <2>1
<1>2. PICK d \in D : \A e \in D : e \subseteq d => e = d
  <2>1. D \subseteq SUBSET T
    OBVIOUS
  <2> HIDE DEF D
  <2> QED
    BY <1>1, <2>1, LeastSubset
<1>3. d # {}
  BY <1>2, SumsAt
<1>4. First(d) \in d
  BY <1>3, FirstIn
<1>5. d \ {First(d)} \in SUBSET T /\ d \ {First(d)} \notin D
  BY <1>2, <1>4
<1>6. g[d] = g[d \ {First(d)}] + First(d).size /\ h[d] = h[d \ {First(d)}] + First(d).size
  BY <1>2, <1>3, SumsAt
<1> QED
  BY <1>2, <1>5, <1>6

\* A sum over a set holds those over its subsets.
LEMMA SumsDown ==
  ASSUME NEW T, NEW g, Sums(g, T), NEW U \in SUBSET T
  PROVE  Sums([s \in SUBSET U |-> g[s]], U)
<1> DEFINE k == [s \in SUBSET U |-> g[s]]
<1>1. ASSUME NEW s \in SUBSET U
      PROVE  g[s] = IF s = {} THEN 0 ELSE k[s \ {First(s)}] + First(s).size
  <2>1. s \in SUBSET T /\ s \ {First(s)} \in SUBSET U
    OBVIOUS
  <2>2. k[s \ {First(s)}] = g[s \ {First(s)}]
    BY <2>1
  <2> HIDE DEF k
  <2> QED
    BY <2>1, <2>2, SumsAt
<1>2. k = [s \in SUBSET U |-> IF s = {} THEN 0 ELSE k[s \ {First(s)}] + First(s).size]
  BY <1>1
<1> QED
  BY <1>2 DEF Sums

Summed(T) == \E g \in [SUBSET T -> Nat] : Sums(g, T)

LEMMA SumsExist ==
  ASSUME NEW T, Sized(T)
  PROVE  Summed(T)
<1> DEFINE D == {U \in SUBSET T : ~Summed(U)}
<1>1. SUFFICES ASSUME D # {} PROVE FALSE
  OBVIOUS
<1>2. PICK d \in D : \A e \in D : e \subseteq d => e = d
  <2>1. D \subseteq SUBSET T /\ IsFiniteSet(T)
    BY DEF Sized
  <2> HIDE DEF D
  <2> QED
    BY <1>1, <2>1, LeastSubset
<1> DEFINE Sub(s) == CHOOSE g \in [SUBSET s -> Nat] : Sums(g, s)
           Val(s) == IF s = d THEN IF s = {} THEN 0 ELSE Sub(s \ {First(s)})[s \ {First(s)}] + First(s).size
                     ELSE Sub(s)[s]
           H == [s \in SUBSET d |-> Val(s)]
<1>3. ASSUME NEW s \in SUBSET d, s # d
      PROVE  Sub(s) \in [SUBSET s -> Nat] /\ Sums(Sub(s), s)
  <2>1. Summed(s)
    BY <1>2, <1>3
  <2> QED
    BY <2>1 DEF Summed
<1> HIDE DEF Sub
<1>4. ASSUME NEW s \in SUBSET d, s # {}
      PROVE  s \ {First(s)} \in SUBSET d /\ s \ {First(s)} # d /\ First(s) \in s
  BY <1>4, FirstIn
<1>5. \A s \in SUBSET d : s # {} => First(s).size \in Nat
  BY <1>2, <1>4 DEF Sized
<1>6. ASSUME NEW s \in SUBSET d PROVE Val(s) \in Nat
  <2>1. CASE s = d /\ s # {}
    <3> DEFINE t == s \ {First(s)}
    <3>1. t \in SUBSET d /\ t # d
      BY <1>4, <2>1
    <3>2. Sub(t) \in [SUBSET t -> Nat] /\ t \in SUBSET t
      BY <1>3, <3>1
    <3>3. Sub(t)[t] \in Nat
      BY <3>2
    <3> QED
      BY <1>5, <2>1, <3>3
  <2>2. CASE s # d
    BY <1>3, <2>2
  <2> QED
    BY <2>1, <2>2
<1>7. ASSUME NEW s \in SUBSET d
      PROVE  Val(s) = IF s = {} THEN 0 ELSE Val(s \ {First(s)}) + First(s).size
  <2> DEFINE t == s \ {First(s)}
  <2>1. CASE s = {}
    <3>1. CASE s = d
      BY <2>1, <3>1
    <3>2. CASE s # d
      <4>1. Sums(Sub(s), s) /\ s \in SUBSET s
        BY <1>3, <3>2
      <4>2. Sub(s)[s] = 0
        BY <2>1, <4>1, SumsAt
      <4> QED
        BY <2>1, <3>2, <4>2
    <3> QED
      BY <3>1, <3>2
  <2>2. CASE s # {}
    <3>1. t \in SUBSET d /\ t # d /\ t \in SUBSET s
      BY <1>4, <2>2
    <3>2. Val(t) = Sub(t)[t]
      BY <3>1
    <3>3. CASE s = d
      BY <2>2, <3>2, <3>3
    <3>4. CASE s # d
      <4>0. Sums(Sub(s), s) /\ s \in SUBSET s
        BY <1>3, <3>4
      <4>1. Sub(s)[s] = Sub(s)[t] + First(s).size
        BY <2>2, <4>0, SumsAt
      <4>2. Sums([u \in SUBSET t |-> Sub(s)[u]], t)
        BY <3>1, <4>0, SumsDown
      <4>3. IsFiniteSet(t)
        BY <1>2, <3>1, FS_Subset DEF Sized
      <4>4. [u \in SUBSET t |-> Sub(s)[u]] = Sub(t)
        BY <1>3, <3>1, <4>2, <4>3, SumsUnique
      <4>5. Sub(t)[t] = Sub(s)[t]
        BY <4>4
      <4> QED
        BY <2>2, <3>2, <3>4, <4>1, <4>5
    <3> QED
      BY <3>3, <3>4
  <2> QED
    BY <2>1, <2>2
<1> HIDE DEF Val
<1>8. H \in [SUBSET d -> Nat]
  BY <1>6
<1>9. Sums(H, d)
  <2>1. ASSUME NEW s \in SUBSET d
        PROVE  Val(s) = IF s = {} THEN 0 ELSE H[s \ {First(s)}] + First(s).size
    <3>1. s \ {First(s)} \in SUBSET d
      OBVIOUS
    <3> QED
      BY <1>7, <3>1
  <2>2. H = [s \in SUBSET d |-> IF s = {} THEN 0 ELSE H[s \ {First(s)}] + First(s).size]
    BY <2>1
  <2> QED
    BY <2>2 DEF Sums
<1>10. Summed(d)
  BY <1>8, <1>9 DEF Summed
<1> QED
  BY <1>2, <1>10

\* Counting files adds their sizes.
LEMMA BytesAdd ==
  ASSUME NEW T, Sized(T)
  PROVE  /\ Bytes(T) \in Nat
         /\ T # {} => Bytes(T) = Bytes(T \ {First(T)}) + First(T).size
<1> DEFINE G(U) == CHOOSE g : Sums(g, U)
<1>1. ASSUME NEW U \in SUBSET T PROVE G(U) \in [SUBSET U -> Nat] /\ Sums(G(U), U) /\ IsFiniteSet(U)
  <2>1. Sized(U)
    BY FS_Subset DEF Sized
  <2>2. PICK g \in [SUBSET U -> Nat] : Sums(g, U)
    BY <2>1, SumsExist DEF Summed
  <2>3. Sums(G(U), U)
    BY <2>2
  <2>4. G(U) = g
    BY <2>1, <2>2, <2>3, SumsUnique DEF Sized
  <2> QED
    BY <2>1, <2>2, <2>3, <2>4 DEF Sized
<1>2. \A U : Bytes(U) = G(U)[U]
  BY BytesIsSum
<1> HIDE DEF G
<1>3. Bytes(T) \in Nat
  BY <1>1, <1>2
<1>4. ASSUME T # {} PROVE Bytes(T) = Bytes(T \ {First(T)}) + First(T).size
  <2> DEFINE t == T \ {First(T)}
  <2>1. t \in SUBSET T
    OBVIOUS
  <2>2. Sums([u \in SUBSET t |-> G(T)[u]], t)
    BY <1>1, <2>1, SumsDown
  <2>3. [u \in SUBSET t |-> G(T)[u]] = G(t)
    BY <1>1, <2>1, <2>2, SumsUnique
  <2>4. G(t)[t] = G(T)[t]
    BY <2>3
  <2>5. G(T)[T] = G(T)[t] + First(T).size
    <3>1. Sums(G(T), T) /\ T \in SUBSET T
      BY <1>1
    <3> QED
      BY <1>4, <3>1, SumsAt
  <2> QED
    BY <1>2, <2>4, <2>5
<1> QED
  BY <1>3, <1>4

-----------------------------------------------------------------------------
(* The room there is at each stage of an attempt.                           *)

\* The stages that write; `room` is enough for what they write from `at` on.
Writing == AfterToken \cup {"token"}
Copied == AfterIntegrity \cup {"acl", "integrity"}

Enough(at, st, room) ==
  LET last == AsarBytes(st.plan.files) + UnpackedBytes(st.plan) + 2 * Official.growth + RuntimeBytes
      work == Official.extracted + last
  IN  /\ at \in {"token", "mirror"} => Bytes(st.plan.files \ st.copied) + work =< room
      /\ at \in {"acl", "integrity", "extract"} => work =< room
      /\ at \in {"audit", "bootstrap", "select", "patch", "pack"} => last =< room
      /\ at = "archive" => Official.growth + RuntimeBytes =< room
      /\ at \in {"seal", "clear", "runtime"} => RuntimeBytes =< room
      /\ at = "unpack" => UnpackedBytes(st.plan) + RuntimeBytes =< room

\* What stage `at` finds copied.
Placed(at, st) ==
  /\ at \in Writing \cup {"weigh"} => /\ st.plan.files = Required(Official.src.files)
                                      /\ st.copied \subseteq st.plan.files
  /\ at \in {"weigh", "token"} => st.copied = {}
  /\ at \in Copied => st.copied = st.plan.files
  /\ at \in Ends \cup {"quiet", "gate", "plan"} => st = NoStage

\* What the preflight does not weigh fits into what it weighs in excess: then
\* the volume has room for all that is still to be written.
Covered == ~(Overrun > Slack)

SpaceInv ==
  /\ free \in Int /\ stage.bytes \in Int
  /\ Placed(pc, stage)
  /\ Covered => ~short /\ Enough(pc, stage, free)

\* A plan is for every required file of the package.
LEMMA PlansAreOfPackage ==
  ASSUME NEW src, \A f \in src.files : f.stat \in {"ok"} \cup DOMAIN FileStop,
         NEW p \in SourcePlans(src), p.kind = "plan"
  PROVE  p.files = Required(src.files)
<1> DEFINE Right(q) == q.kind = "plan" => q.files = Required(src.files)
<1>1. ASSUME NEW how, NEW q \in Listing(how, src.files) PROVE Right(q)
  <2>1. \A f \in src.files : f.stat # "ok" => FileStop[f.stat] \in {"storage", "packaging", "io"}
    BY DEF FileStop
  <2>2. \/ q = Plan(how, src.files) \/ q = Stop("packaging")
        \/ \E f \in src.files : f.stat # "ok" /\ q = Stop(FileStop[f.stat])
    BY <1>1 DEF Listing, Required
  <2> QED
    BY <2>1, <2>2 DEF Plan, Stop
<1>2. \A q \in WalkPlans(src) : Right(q)
  <2>1. CASE src.walk = "ok"
    BY <1>1, <2>1 DEF WalkPlans
  <2>2. CASE src.walk # "ok"
    BY <2>2 DEF WalkPlans, Stop
  <2> QED
    BY <2>1, <2>2
<1>3. \A q \in BlockMapPlans(src) : Right(q)
  <2>1. CASE src.map # "ok" \/ src.files = {}
    BY <2>1 DEF BlockMapPlans, Stop
  <2>2. CASE ~(src.map # "ok" \/ src.files = {})
    BY <1>1, <2>2 DEF BlockMapPlans
  <2> QED
    BY <2>1, <2>2
<1>4. PICK w \in WalkPlans(src) :
        p \in IF w.kind # "enumeration" THEN {w}
              ELSE {IF b.kind \in {"plan", "storage"} THEN b ELSE Stop("packaging")
                      : b \in BlockMapPlans(src)}
  BY DEF SourcePlans
<1>5. CASE w.kind # "enumeration"
  BY <1>2, <1>4, <1>5
<1>6. CASE w.kind = "enumeration"
  <2>1. PICK b \in BlockMapPlans(src) :
          p = IF b.kind \in {"plan", "storage"} THEN b ELSE Stop("packaging")
    BY <1>4, <1>6
  <2> QED
    BY <1>3, <2>1 DEF Stop
<1> QED
  BY <1>5, <1>6

LEMMA SizesAdd ==
  ASSUME pkg \in DOMAIN Packages, NEW fs, fs \subseteq Official.src.files
  PROVE  /\ Sized(fs) /\ Bytes(fs) \in Nat
         /\ \A f \in fs : f.size \in Nat
         /\ AsarBytes(fs) \in Nat
         /\ \A plan : plan.files = fs => UnpackedBytes(plan) \in Nat
<1>1. Sized(Official.src.files)
  BY InstallAssumption DEF Official, Sized
<1>2. ASSUME NEW gs, gs \subseteq fs PROVE Sized(gs) /\ Bytes(gs) \in Nat
  <2>1. Sized(gs)
    BY <1>1, <1>2, FS_Subset DEF Sized
  <2> QED
    BY <2>1, BytesAdd
<1>3. {f \in fs : f.role = "asar"} \subseteq fs /\ {f \in fs : f.role = "unpacked"} \subseteq fs
  OBVIOUS
<1>4. Bytes({f \in fs : f.role = "asar"}) \in Nat /\ Bytes({f \in fs : f.role = "unpacked"}) \in Nat
  BY <1>2, <1>3
<1> QED
  BY <1>2, <1>4 DEF AsarBytes, UnpackedBytes, Sized

\* The sizes an attempt reckons with.
LEMMA Sizes ==
  ASSUME pkg \in DOMAIN Packages, Placed(pc, stage), pc \in Writing \cup {"weigh"}
  PROVE  /\ AsarBytes(stage.plan.files) \in Nat /\ UnpackedBytes(stage.plan) \in Nat
         /\ Official.extracted \in Nat /\ Official.growth \in Nat /\ RuntimeBytes \in Nat
         /\ Bytes(stage.plan.files \ stage.copied) \in Nat
<1>1. /\ stage.plan.files \subseteq Official.src.files
      /\ stage.plan.files \ stage.copied \subseteq Official.src.files
  BY DEF Placed, Required
<1> QED
  BY <1>1, SizesAdd, InstallAssumption DEF Official

\* A stage that leaves enough for the next ones.
LEMMA StageFits ==
  ASSUME SpaceInv, NEW at, NEW next, NEW good, NEW n \in Int, NEW full, NEW st,
         Stage(at, next, good, n, full, st),
         DOMAIN st = DOMAIN NoStage, st.bytes = stage.bytes,
         next \in Writing \cup {"assert"},
         Placed(next, st),
         Covered => n =< free /\ Enough(next, st, free - n)
  PROVE  SpaceInv'
<1>1. free \in Int /\ stage.bytes \in Int /\ (Covered => ~short)
  BY DEF SpaceInv
<1>2. /\ UNCHANGED <<pkg, before>>
      /\ Covered' = Covered
      /\ Covered => ~short'
      /\ \/ pc' = "done" /\ stage' = NoStage /\ free' = free + stage.bytes + 0
         \/ good /\ pc' = next /\ free' = free - n /\ stage' = [st EXCEPT !.bytes = @ + n]
  <2>1. UNCHANGED <<pkg, before>> /\ short' = (short \/ (good /\ n > free))
    BY DEF Stage, fixedVars
  <2>2. Covered' = Covered
    BY <2>1 DEF Covered, Overrun, Slack, Official, SizeOf
  <2>3. Covered => ~short'
    <3>1. Covered => ~(n > free)
      BY <1>1
    <3> QED
      BY <1>1, <2>1, <3>1, Zenon
  <2>4. \/ pc' = "done" /\ stage' = NoStage /\ free' = free + stage.bytes + 0
        \/ good /\ pc' = next /\ free' = free - n /\ stage' = [st EXCEPT !.bytes = @ + n]
    BY DEF Stage, Leave, LeaveFreeing
  <2> QED
    BY <2>1, <2>2, <2>3, <2>4
<1>3. CASE pc' = "done" /\ stage' = NoStage /\ free' = free + stage.bytes + 0
  BY <1>1, <1>2, <1>3 DEF SpaceInv, Placed, Enough, Writing, AfterToken, Copied, AfterIntegrity,
                          AfterSelect, NoStage, Ends
<1>4. CASE good /\ pc' = next /\ free' = free - n /\ stage' = [st EXCEPT !.bytes = @ + n]
  <2>1. /\ stage'.plan = st.plan /\ stage'.copied = st.copied /\ stage'.bytes = st.bytes + n
    BY <1>4 DEF NoStage
  <2>2. free' \in Int /\ stage'.bytes \in Int
    BY <1>1, <1>4, <2>1
  <2>3. Placed(pc, stage)'
    BY <1>2, <1>4, <2>1
    DEF Placed, Official, Ends, Writing, AfterToken, Copied, AfterIntegrity, AfterSelect
  <2>4. Covered => Enough(pc, stage, free)'
    BY <1>2, <1>4, <2>1 DEF Enough, UnpackedBytes, Official
  <2> QED
    BY <1>2, <2>2, <2>3, <2>4 DEF SpaceInv
<1> QED
  BY <1>2, <1>3, <1>4

\* A step that keeps the stage's record and goes where no more is needed, and one
\* that ends the attempt.
LEMMA SameFits ==
  ASSUME SpaceInv, UNCHANGED <<pkg, before, short, stage, free>>, Placed(pc', stage),
         Covered => Enough(pc', stage, free)
  PROVE  SpaceInv'
<1>1. Covered' = Covered
  BY DEF Covered, Overrun, Slack, Official, SizeOf
<1> QED
  BY <1>1 DEF SpaceInv, Placed, Enough, Official, UnpackedBytes

LEMMA StopFits ==
  ASSUME SpaceInv, UNCHANGED <<pkg, before, short>>, pc' = "done", stage' = NoStage, free' \in Int
  PROVE  SpaceInv'
<1>1. Covered' = Covered
  BY DEF Covered, Overrun, Slack, Official, SizeOf
<1> QED
  BY <1>1 DEF SpaceInv, Placed, Enough, Writing, AfterToken, Copied, AfterIntegrity, AfterSelect,
              NoStage, Ends

\* Before anything is written.
LEMMA PreludeFits ==
  ASSUME SpaceInv, Quiet \/ Gate
  PROVE  SpaceInv'
<1>1. /\ UNCHANGED <<pkg, before, short>> /\ pc \in {"quiet", "gate"}
      /\ \/ pc' \in {"gate", "plan"} /\ UNCHANGED <<stage, free>>
         \/ pc' = "done" /\ stage' = NoStage /\ free' = free + stage.bytes + 0
  BY DEF Quiet, Gate, Decide, Leave, LeaveFreeing, fixedVars
<1>2. stage = NoStage /\ free \in Int /\ stage.bytes \in Int
  BY <1>1 DEF SpaceInv, Placed
<1>3. CASE pc' \in {"gate", "plan"} /\ UNCHANGED <<stage, free>>
  <2>1. Placed(pc', stage) /\ Enough(pc', stage, free)
    BY <1>2, <1>3 DEF Placed, Enough, Writing, AfterToken, Copied, AfterIntegrity, AfterSelect, Ends
  <2> QED
    BY <1>1, <1>3, <2>1, SameFits
<1>4. CASE pc' = "done" /\ stage' = NoStage /\ free' = free + stage.bytes + 0
  BY <1>1, <1>2, <1>4, StopFits
<1> QED
  BY <1>1, <1>3, <1>4

\* An attempt begins with nothing written and nothing refused.
LEMMA BeginFits == SpaceInv /\ Begin => SpaceInv'
<1> SUFFICES ASSUME SpaceInv, Begin PROVE SpaceInv'
  OBVIOUS
<1>1. /\ pc \in Ends /\ pc' \in {"quiet", "gate"} /\ ~short'
      /\ UNCHANGED <<stage, free>>
  BY DEF Begin, Ends
<1>2. stage = NoStage /\ free \in Int /\ stage.bytes \in Int
  BY <1>1 DEF SpaceInv, Placed
<1> QED
  BY <1>1, <1>2
  DEF SpaceInv, Placed, Enough, Writing, AfterToken, Copied, AfterIntegrity, AfterSelect, Ends

LEMMA PlanFits == SpaceInv /\ BInv /\ PlanMirror => SpaceInv'
<1> SUFFICES ASSUME SpaceInv, BInv, PlanMirror PROVE SpaceInv'
  OBVIOUS
<1>1. /\ UNCHANGED <<pkg, before, short>> /\ pc = "plan" /\ Covered' = Covered
      /\ pkg \in DOMAIN Packages
  BY DEF PlanMirror, fixedVars, Covered, Overrun, Slack, Official, SizeOf, BInv, StageInv
<1>2. stage = NoStage /\ free \in Int /\ stage.bytes \in Int /\ (Covered => ~short)
  BY <1>1 DEF SpaceInv, Placed
<1>3. PICK p \in SourcePlans(Official.src) :
        \/ p.kind = "plan" /\ pc' = "weigh" /\ stage' = [stage EXCEPT !.plan = p] /\ free' = free
        \/ pc' = "done" /\ stage' = NoStage /\ free' = free + stage.bytes + 0
  BY DEF PlanMirror, Leave, LeaveFreeing
<1>4. CASE p.kind = "plan" /\ pc' = "weigh" /\ stage' = [stage EXCEPT !.plan = p] /\ free' = free
  <2>1. stage'.plan = p /\ stage'.copied = {} /\ stage'.bytes = 0
    BY <1>2, <1>4 DEF NoStage
  <2>2. p.files = Required(Official.src.files)
    <3>1. \A f \in Official.src.files : f.stat \in {"ok"} \cup DOMAIN FileStop
      BY <1>1, InstallAssumption DEF Official
    <3> QED
      BY <1>4, <3>1, PlansAreOfPackage
  <2>3. Placed(pc, stage)'
    BY <1>1, <1>4, <2>1, <2>2
    DEF Placed, Official, Writing, AfterToken, Copied, AfterIntegrity, AfterSelect, Ends
  <2>4. Enough(pc, stage, free)'
    BY <1>4 DEF Enough
  <2> QED
    BY <1>1, <1>2, <1>4, <2>1, <2>3, <2>4 DEF SpaceInv
<1>5. CASE pc' = "done" /\ stage' = NoStage /\ free' = free + stage.bytes + 0
  BY <1>1, <1>2, <1>5, StopFits
<1> QED
  BY <1>3, <1>4, <1>5

\* What the preflight weighs covers all that is to come, if it covers what it
\* has no term for.
LEMMA EstimateCovers ==
  ASSUME pkg \in DOMAIN Packages, NEW plan, plan.files = Required(Official.src.files),
         SizeOf(before) \in Nat, free \in Int, Covered,
         free >= Estimate(plan, SizeOf(before), AsarBytes(plan.files))
  PROVE  Bytes(plan.files) + (Official.extracted
           + (AsarBytes(plan.files) + UnpackedBytes(plan) + 2 * Official.growth + RuntimeBytes)) =< free
<1> DEFINE asar == AsarBytes(plan.files)
           unpacked == UnpackedBytes(plan)
           files == Bytes(plan.files)
           base == files + SizeOf(before) + (2 * asar + unpacked) + asar
           growth == Official.growth
           extracted == Official.extracted
           over == IF extracted - 2 * asar > 0 THEN extracted - 2 * asar ELSE 0
<1>1. /\ asar \in Nat /\ unpacked \in Nat /\ files \in Nat
      /\ growth \in Nat /\ extracted \in Nat /\ RuntimeBytes \in Nat
  <2>1. plan.files \subseteq Official.src.files
    BY DEF Required
  <2> QED
    BY <2>1, SizesAdd, InstallAssumption DEF Official
<1>2. free >= base + Headroom(base)
  BY DEF Estimate, BeforeHeadroom, RequiredBytes, WorkingSet, Extracted
<1>3. Headroom(base) \in Int
  <2>1. base \in Nat /\ base \div 10 \in Int
    BY <1>1
  <2> HIDE DEF base
  <2> QED
    BY <2>1, HeadroomAssumption DEF Headroom, Clamp
<1>4. ~(over + 2 * growth + RuntimeBytes > SizeOf(before) + Headroom(base))
  <2>1. Overrun = over + 2 * growth + RuntimeBytes
    BY DEF Overrun, Extracted
  <2>2. BeforeHeadroom(Plan("walk", Official.src.files), SizeOf(before),
                       AsarBytes(Required(Official.src.files))) = base
    BY DEF BeforeHeadroom, RequiredBytes, WorkingSet, UnpackedBytes, Extracted, Plan
  <2>3. Slack = SizeOf(before) + Headroom(base)
    BY <2>2 DEF Slack
  <2> QED
    BY <2>1, <2>3 DEF Covered
<1> DEFINE headroom == Headroom(base)
           before0 == SizeOf(before)
<1>5. headroom \in Int /\ before0 \in Nat
  BY <1>3
<1>6. free >= files + before0 + (2 * asar + unpacked) + asar + headroom
  BY <1>2
<1>7. ~(over + 2 * growth + RuntimeBytes > before0 + headroom)
  BY <1>4
<1>8. over >= extracted - 2 * asar /\ over \in Int
  BY <1>1
<1> HIDE DEF headroom, before0, asar, unpacked, files, growth, extracted, over
<1>9. files + (extracted + (asar + unpacked + 2 * growth + RuntimeBytes)) =< free
  BY <1>1, <1>5, <1>6, <1>7, <1>8
<1> QED
  BY <1>9 DEF asar, unpacked, files, growth, extracted

LEMMA SizesOfBuilds ==
  ASSUME pkg \in DOMAIN Packages
  PROVE  \A b : SizeOf(b) \in Nat
<1>1. Bytes(Required(Official.src.files)) \in Nat
  <2>1. Required(Official.src.files) \subseteq Official.src.files
    BY DEF Required
  <2> QED
    BY <2>1, SizesAdd
<1>2. Bytes(Required(Official.src.files)) + Official.growth + RuntimeBytes \in Nat /\ ShellBytes \in Nat
  BY <1>1, InstallAssumption DEF Official
<1> QED
  BY <1>2 DEF SizeOf

LEMMA WeighFits == SpaceInv /\ BInv /\ WInv /\ Weigh => SpaceInv'
<1> SUFFICES ASSUME SpaceInv, BInv, WInv, Weigh PROVE SpaceInv'
  OBVIOUS
<1> DEFINE fs == stage.plan.files
           estimate == Estimate(stage.plan, SizeOf(dest), AsarBytes(fs))
<1>1. /\ UNCHANGED <<pkg, before, short>> /\ pc = "weigh"
      /\ \/ /\ pc' = "token" /\ free >= estimate /\ UNCHANGED <<stage, free>>
         \/ /\ pc' = "done" /\ stage' = NoStage /\ free' = free + stage.bytes + 0
  BY DEF Weigh, Decide, Leave, LeaveFreeing, fixedVars, CapacityProven
<1>2. /\ pkg \in DOMAIN Packages /\ fs = Required(Official.src.files) /\ stage.copied = {}
      /\ free \in Int /\ stage.bytes \in Int
  BY <1>1 DEF BInv, StageInv, SpaceInv, Placed
<1>3. dest = before
  BY <1>1 DEF WInv, PlacesInv, Early, Working
<1>4. CASE pc' = "token" /\ free >= estimate /\ UNCHANGED <<stage, free>>
  <2>1. ASSUME Covered PROVE Enough(pc', stage, free)
    <3>1. free >= Estimate(stage.plan, SizeOf(before), AsarBytes(fs))
      BY <1>3, <1>4
    <3>2. SizeOf(before) \in Nat
      BY <1>2, SizesOfBuilds
    <3>3. Bytes(fs) + (Official.extracted
            + (AsarBytes(fs) + UnpackedBytes(stage.plan) + 2 * Official.growth + RuntimeBytes)) =< free
      BY <1>2, <2>1, <3>1, <3>2, EstimateCovers
    <3>4. fs \ stage.copied = fs
      BY <1>2
    <3> QED
      BY <1>4, <3>3, <3>4 DEF Enough
  <2>2. Placed(pc', stage)
    BY <1>2, <1>4 DEF Placed, Copied, AfterIntegrity, AfterSelect, Ends
  <2> QED
    BY <1>1, <1>4, <2>1, <2>2, SameFits
<1>5. CASE pc' = "done" /\ stage' = NoStage /\ free' = free + stage.bytes + 0
  BY <1>1, <1>2, <1>5, StopFits
<1> QED
  BY <1>1, <1>4, <1>5

LEMMA TokenFits == SpaceInv /\ LoadToken => SpaceInv'
<1> SUFFICES ASSUME SpaceInv, LoadToken PROVE SpaceInv'
  OBVIOUS
<1>1. /\ UNCHANGED <<pkg, before, short>> /\ pc = "token"
      /\ \/ pc' = "mirror" /\ UNCHANGED <<stage, free>>
         \/ pc' = "done" /\ stage' = NoStage /\ free' = free + stage.bytes + 0
  BY DEF LoadToken, Leave, LeaveFreeing, fixedVars
<1>2. /\ Placed(pc, stage) /\ free \in Int /\ stage.bytes \in Int
      /\ Covered => Enough(pc, stage, free)
  BY DEF SpaceInv
<1>3. CASE pc' = "mirror" /\ UNCHANGED <<stage, free>>
  <2>1. Placed(pc', stage)
    BY <1>1, <1>2, <1>3
    DEF Placed, Writing, AfterToken, Copied, AfterIntegrity, AfterSelect, Ends
  <2>2. Covered => Enough(pc', stage, free)
    BY <1>1, <1>2, <1>3 DEF Enough
  <2> QED
    BY <1>1, <1>3, <2>1, <2>2, SameFits
<1>4. CASE pc' = "done" /\ stage' = NoStage /\ free' = free + stage.bytes + 0
  BY <1>1, <1>2, <1>4, StopFits
<1> QED
  BY <1>1, <1>3, <1>4

\* The stages that write nothing.
LEMMA StillFits ==
  ASSUME SpaceInv, NEW at, NEW next, NEW good, NEW full, NEW st,
         Stage(at, next, good, 0, full, st),
         DOMAIN st = DOMAIN NoStage, st.bytes = stage.bytes,
         st.plan = stage.plan, st.copied = stage.copied,
         \/ at = "mirror" /\ next = "acl" /\ stage.copied = stage.plan.files
         \/ at = "acl" /\ next = "integrity"
         \/ at = "integrity" /\ next = "extract"
         \/ at \in {"audit", "bootstrap", "select", "patch"} /\ next \in {"bootstrap", "select", "patch", "pack"}
         \/ at = "seal" /\ next = "clear",
         pkg \in DOMAIN Packages
  PROVE  SpaceInv'
<1>1. pc = at /\ Placed(at, stage) /\ free \in Int /\ (Covered => Enough(at, stage, free))
  BY DEF Stage, SpaceInv
<1>2. Placed(next, st)
  BY <1>1 DEF Placed, Writing, AfterToken, Copied, AfterIntegrity, AfterSelect, Ends
<1> DEFINE fs == stage.plan.files
           asar == AsarBytes(fs)
           unpacked == UnpackedBytes(stage.plan)
           left == Bytes(fs \ stage.copied)
           growth == Official.growth
           extracted == Official.extracted
<1>3. /\ asar \in Nat /\ unpacked \in Nat /\ left \in Nat /\ RuntimeBytes \in Nat
      /\ growth \in Nat /\ extracted \in Nat
  BY <1>1, Sizes DEF Writing, AfterToken, AfterIntegrity, AfterSelect
<1>4. ASSUME Covered PROVE 0 =< free /\ Enough(next, stage, free)
  <2> HIDE DEF asar, unpacked, left, growth, extracted
  <2>1. CASE at = "mirror"
    <3>1. left + (extracted + (asar + unpacked + 2 * growth + RuntimeBytes)) =< free
      BY <1>1, <1>4, <2>1 DEF Enough, asar, unpacked, left, growth, extracted
    <3>2. extracted + (asar + unpacked + 2 * growth + RuntimeBytes) =< free /\ 0 =< free
      BY <1>1, <1>3, <3>1
    <3> QED
      BY <2>1, <3>2 DEF Enough, asar, unpacked, growth, extracted
  <2>2. CASE at \in {"acl", "integrity"}
    <3>1. extracted + (asar + unpacked + 2 * growth + RuntimeBytes) =< free
      BY <1>1, <1>4, <2>2 DEF Enough, asar, unpacked, growth, extracted
    <3>2. 0 =< free
      BY <1>1, <1>3, <3>1
    <3> QED
      BY <2>2, <3>1, <3>2 DEF Enough, asar, unpacked, growth, extracted
  <2>3. CASE at \in {"audit", "bootstrap", "select", "patch"}
    <3>1. asar + unpacked + 2 * growth + RuntimeBytes =< free
      BY <1>1, <1>4, <2>3 DEF Enough, asar, unpacked, growth
    <3>2. 0 =< free
      BY <1>1, <1>3, <3>1
    <3> QED
      BY <2>3, <3>1, <3>2 DEF Enough, asar, unpacked, growth
  <2>4. CASE at = "seal"
    <3>1. RuntimeBytes =< free
      BY <1>1, <1>4, <2>4 DEF Enough
    <3> QED
      BY <1>1, <1>3, <2>4, <3>1 DEF Enough
  <2> QED
    BY <2>1, <2>2, <2>3, <2>4
<1>5. Covered => Enough(next, st, free - 0)
  BY <1>1, <1>4 DEF Enough, UnpackedBytes
<1>6. next \in Writing
  BY DEF Writing, AfterToken, AfterIntegrity, AfterSelect
<1> QED
  BY <1>1, <1>2, <1>4, <1>5, <1>6, StageFits

LEMMA StillStagesFit ==
  ASSUME SpaceInv, BInv,
         \/ VerifyMirror \/ PrepareAcl \/ ResolveIntegrity \/ AuditAnchors \/ PatchStartup
         \/ SelectScript \/ PatchAsset \/ CheckSyntax \/ Seal
  PROVE  SpaceInv'
<1>1. DOMAIN stage = DOMAIN NoStage
  BY DEF BInv, StageInv
<1>2. pc # "off" => pkg \in DOMAIN Packages
  BY DEF BInv, StageInv
<1>3. CASE VerifyMirror
  BY <1>1, <1>2, <1>3, StillFits DEF VerifyMirror, Stage
<1>4. CASE PrepareAcl
  <2>1. PICK good : Stage("acl", "integrity", good, 0, "FAILED", stage)
    BY <1>4 DEF PrepareAcl
  <2>2. pc = "acl"
    BY <2>1 DEF Stage
  <2> QED
    BY <1>1, <1>2, <2>1, <2>2, StillFits
<1>5. CASE ResolveIntegrity
  <2> DEFINE st == [stage EXCEPT !.digests = [b \in Official.bins |-> "official"]]
  <2>1. Stage("integrity", "extract", IntegrityResolved(Official.bins), 0, "FAILED", st)
    BY <1>5 DEF ResolveIntegrity
  <2>2. /\ DOMAIN st = DOMAIN NoStage /\ st.bytes = stage.bytes
        /\ st.plan = stage.plan /\ st.copied = stage.copied
    BY <1>1 DEF NoStage
  <2>3. pc = "integrity"
    BY <2>1 DEF Stage
  <2> HIDE DEF st
  <2> QED
    BY <1>2, <2>1, <2>2, <2>3, StillFits
<1>6. CASE AuditAnchors
  <2>1. Stage("audit", "bootstrap", Sound[pkg], 0, "FAILED", stage)
    BY <1>6 DEF AuditAnchors
  <2>2. pc = "audit"
    BY <2>1 DEF Stage
  <2> QED
    BY <1>1, <1>2, <2>1, <2>2, StillFits
<1>7. CASE PatchStartup
  <2> DEFINE st == [stage EXCEPT !.written = {"bootstrap"}]
  <2>1. PICK good : Stage("bootstrap", "select", good, 0, "FAILED", st)
    BY <1>7 DEF PatchStartup
  <2>2. /\ DOMAIN st = DOMAIN NoStage /\ st.bytes = stage.bytes
        /\ st.plan = stage.plan /\ st.copied = stage.copied
    BY <1>1 DEF NoStage
  <2>3. pc = "bootstrap"
    BY <2>1 DEF Stage
  <2> HIDE DEF st
  <2> QED
    BY <1>2, <2>1, <2>2, <2>3, StillFits
<1>8. CASE SelectScript
  <2> DEFINE st == [stage EXCEPT !.script = Scripts[pkg], !.token = token]
  <2>1. PICK good : Stage("select", "patch", good, 0, "FAILED", st)
    BY <1>8 DEF SelectScript
  <2>2. /\ DOMAIN st = DOMAIN NoStage /\ st.bytes = stage.bytes
        /\ st.plan = stage.plan /\ st.copied = stage.copied
    BY <1>1 DEF NoStage
  <2>3. pc = "select"
    BY <2>1 DEF Stage
  <2> HIDE DEF st
  <2> QED
    BY <1>2, <2>1, <2>2, <2>3, StillFits
<1>9. CASE PatchAsset
  <2> DEFINE s == Head(stage.script.steps)
             st == [stage EXCEPT !.written = @ \cup Written(s), !.script.steps = Tail(@)]
  <2>1. PICK good : Stage("patch", "patch", good, 0, "FAILED", st)
    BY <1>9 DEF PatchAsset
  <2>2. /\ DOMAIN st = DOMAIN NoStage /\ st.bytes = stage.bytes
        /\ st.plan = stage.plan /\ st.copied = stage.copied
    BY <1>1 DEF NoStage
  <2>3. pc = "patch"
    BY <2>1 DEF Stage
  <2> HIDE DEF st
  <2> QED
    BY <1>2, <2>1, <2>2, <2>3, StillFits
<1>10. CASE CheckSyntax
  <2>1. PICK good : Stage("patch", "pack", good, 0, "FAILED", stage)
    BY <1>10 DEF CheckSyntax
  <2>2. pc = "patch"
    BY <2>1 DEF Stage
  <2> QED
    BY <1>1, <1>2, <2>1, <2>2, StillFits
<1>11. CASE Seal
  <2> DEFINE st == [stage EXCEPT !.digests = Sealed(Official.bins, @, stage.asar)]
  <2>1. Stage("seal", "clear", TRUE, 0, "FAILED", st)
    BY <1>11 DEF Seal
  <2>2. /\ DOMAIN st = DOMAIN NoStage /\ st.bytes = stage.bytes
        /\ st.plan = stage.plan /\ st.copied = stage.copied
    BY <1>1 DEF NoStage
  <2>3. pc = "seal"
    BY <2>1 DEF Stage
  <2> HIDE DEF st
  <2> QED
    BY <1>2, <2>1, <2>2, <2>3, StillFits
<1> QED
  BY <1>3, <1>4, <1>5, <1>6, <1>7, <1>8, <1>9, <1>10, <1>11

\* The stages that write: a file of the plan, the extraction, the archive and
\* its unpacked tree, the runtime.
LEMMA FileFits == SpaceInv /\ BInv /\ MirrorFile => SpaceInv'
<1> SUFFICES ASSUME SpaceInv, BInv, MirrorFile PROVE SpaceInv'
  OBVIOUS
<1> DEFINE fs == stage.plan.files
           rest == fs \ stage.copied
           f == CHOOSE g \in rest : TRUE
           st == [stage EXCEPT !.copied = @ \cup {f}]
           work == Official.extracted + (AsarBytes(fs) + UnpackedBytes(stage.plan)
                                           + 2 * Official.growth + RuntimeBytes)
<1>1. Stage("mirror", "mirror", TRUE, f.size, "STORAGE", st) /\ stage.copied # fs
  BY DEF MirrorFile
<1>2. /\ pc = "mirror" /\ pkg \in DOMAIN Packages /\ free \in Int
      /\ DOMAIN stage = DOMAIN NoStage
      /\ Placed(pc, stage)
      /\ fs = Required(Official.src.files) /\ stage.copied \subseteq fs
      /\ Covered => Bytes(rest) + work =< free
  BY <1>1 DEF Stage, BInv, StageInv, SpaceInv, Placed, Enough, Writing, AfterToken
<1>3. rest # {} /\ rest \subseteq Official.src.files /\ f = First(rest) /\ f \in rest
  BY <1>1, <1>2 DEF First, Required
<1>4. /\ Bytes(rest) = Bytes(rest \ {f}) + f.size /\ f.size \in Nat
      /\ Bytes(rest \ {f}) \in Nat /\ work \in Nat
  <2>1. Sized(rest) /\ f.size \in Nat /\ Bytes(rest \ {f}) \in Nat
    <3>1. rest \ {f} \subseteq Official.src.files
      BY <1>3
    <3> QED
      BY <1>2, <1>3, <3>1, SizesAdd
  <2>2. Bytes(rest) = Bytes(rest \ {f}) + f.size
    BY <1>3, <2>1, BytesAdd
  <2>3. work \in Nat
    BY <1>2, Sizes DEF Writing, AfterToken
  <2> QED
    BY <2>1, <2>2, <2>3
<1>5. /\ DOMAIN st = DOMAIN NoStage /\ st.bytes = stage.bytes /\ st.plan = stage.plan
      /\ st.copied = stage.copied \cup {f}
  BY <1>2 DEF NoStage
<1>6. fs \ st.copied = rest \ {f} /\ st.copied \subseteq fs
  BY <1>2, <1>3, <1>5
<1> HIDE DEF work, f, rest, st
<1>7. Covered => f.size =< free /\ Bytes(rest \ {f}) + work =< free - f.size
  BY <1>2, <1>4
<1>8. Placed("mirror", st)
  BY <1>2, <1>5, <1>6 DEF Placed, Copied, AfterIntegrity, AfterSelect, Ends
<1>9. Covered => Enough("mirror", st, free - f.size)
  BY <1>5, <1>6, <1>7 DEF Enough, work, UnpackedBytes
<1>10. "mirror" \in Writing /\ f.size \in Int
  BY <1>4 DEF Writing, AfterToken
<1> QED
  BY <1>1, <1>5, <1>7, <1>8, <1>9, <1>10, StageFits

LEMMA BulkFits ==
  ASSUME SpaceInv, BInv,
         Extract \/ Repack \/ StageArchive \/ ClearUnpacked \/ CopyUnpacked \/ StageRuntime
  PROVE  SpaceInv'
<1> DEFINE fs == stage.plan.files
           asar == AsarBytes(fs)
           unpacked == UnpackedBytes(stage.plan)
           growth == Official.growth
           extracted == Official.extracted
<1>1. /\ pc \in {"extract", "pack", "archive", "clear", "unpack", "runtime"}
      /\ DOMAIN stage = DOMAIN NoStage /\ free \in Int
  BY DEF Extract, Repack, StageArchive, ClearUnpacked, CopyUnpacked, StageRuntime, Stage, BInv,
         StageInv, SpaceInv
<1>2. /\ pkg \in DOMAIN Packages /\ fs = Required(Official.src.files) /\ stage.copied = fs
      /\ Placed(pc, stage) /\ (Covered => Enough(pc, stage, free))
      /\ pc \in Writing
  BY <1>1
  DEF BInv, StageInv, SpaceInv, Placed, Writing, AfterToken, Copied, AfterIntegrity, AfterSelect
<1>3. /\ asar \in Nat /\ unpacked \in Nat /\ RuntimeBytes \in Nat
      /\ growth \in Nat /\ extracted \in Nat
  BY <1>2, Sizes
<1>4. \A next \in AfterIntegrity \cup {"assert"} : Placed(next, stage)
  BY <1>2 DEF Placed, Writing, AfterToken, Copied, AfterIntegrity, AfterSelect, Ends
<1>5. AfterIntegrity \subseteq Writing
  BY DEF Writing, AfterToken
<1>6. CASE Extract
  <2>1. Stage("extract", "audit", TRUE, extracted, "FAILED", stage) /\ pc = "extract"
    BY <1>6 DEF Extract, Stage
  <2> HIDE DEF asar, unpacked, growth, extracted
  <2>2. Covered => extracted + (asar + unpacked + 2 * growth + RuntimeBytes) =< free
    BY <1>2, <2>1 DEF Enough, asar, unpacked, growth, extracted
  <2>3. Covered => /\ extracted =< free
                   /\ asar + unpacked + 2 * growth + RuntimeBytes =< free - extracted
    BY <1>1, <1>3, <2>2
  <2>4. Covered => Enough("audit", stage, free - extracted)
    BY <2>3 DEF Enough, asar, unpacked, growth
  <2>5. "audit" \in AfterIntegrity /\ extracted \in Int
    BY <1>3 DEF AfterIntegrity
  <2> QED
    BY <1>1, <1>4, <1>5, <2>1, <2>3, <2>4, <2>5, StageFits
<1>7. CASE Repack
  <2> DEFINE n == asar + growth + unpacked
  <2>1. PICK good : Stage("pack", "archive", good, n, "FAILED", stage)
    BY <1>2, <1>7 DEF Repack
  <2>2. pc = "pack"
    BY <2>1 DEF Stage
  <2> HIDE DEF asar, unpacked, growth
  <2>3. Covered => asar + unpacked + 2 * growth + RuntimeBytes =< free
    BY <1>2, <2>2 DEF Enough, asar, unpacked, growth
  <2>4. /\ n \in Int
        /\ Covered => n =< free /\ growth + RuntimeBytes =< free - n
    BY <1>1, <1>3, <2>3
  <2> HIDE DEF n
  <2>5. Covered => Enough("archive", stage, free - n)
    BY <2>4 DEF Enough, growth
  <2>6. "archive" \in AfterIntegrity
    BY DEF AfterIntegrity, AfterSelect
  <2> QED
    BY <1>1, <1>4, <1>5, <2>1, <2>4, <2>5, <2>6, StageFits
<1>8. CASE StageArchive
  <2> DEFINE st == [stage EXCEPT !.asar = "patched"]
  <2>1. Stage("archive", "seal", TRUE, growth, "STORAGE", st) /\ pc = "archive"
    BY <1>8 DEF StageArchive, Stage
  <2>2. /\ DOMAIN st = DOMAIN NoStage /\ st.bytes = stage.bytes /\ st.plan = stage.plan
        /\ st.copied = stage.copied
    BY <1>1 DEF NoStage
  <2> HIDE DEF growth, st
  <2>3. Covered => growth + RuntimeBytes =< free
    BY <1>2, <2>1 DEF Enough, growth
  <2>4. growth \in Int /\ (Covered => growth =< free /\ RuntimeBytes =< free - growth)
    BY <1>1, <1>3, <2>3
  <2>5. Covered => Enough("seal", st, free - growth)
    BY <2>4 DEF Enough
  <2>6. Placed("seal", st) /\ "seal" \in Writing
    BY <1>2, <2>2 DEF Placed, Writing, AfterToken, AfterIntegrity, AfterSelect, Ends
  <2> QED
    BY <2>1, <2>2, <2>4, <2>5, <2>6, StageFits
<1>9. CASE ClearUnpacked
  <2>1. Stage("clear", "unpack", TRUE, -unpacked, "STORAGE", stage) /\ pc = "clear"
    BY <1>9 DEF ClearUnpacked, Stage
  <2> HIDE DEF unpacked
  <2>2. Covered => RuntimeBytes =< free
    BY <1>2, <2>1 DEF Enough
  <2>3. /\ -unpacked \in Int
        /\ Covered => -unpacked =< free /\ unpacked + RuntimeBytes =< free - (-unpacked)
    BY <1>1, <1>3, <2>2
  <2>4. Covered => Enough("unpack", stage, free - (-unpacked))
    BY <2>3 DEF Enough, unpacked
  <2>5. "unpack" \in AfterIntegrity
    BY DEF AfterIntegrity, AfterSelect
  <2> QED
    BY <1>1, <1>4, <1>5, <2>1, <2>3, <2>4, <2>5, StageFits
<1>10. CASE CopyUnpacked
  <2>1. Stage("unpack", "runtime", TRUE, unpacked, "STORAGE", stage) /\ pc = "unpack"
    BY <1>10 DEF CopyUnpacked, Stage
  <2> HIDE DEF unpacked
  <2>2. Covered => unpacked + RuntimeBytes =< free
    BY <1>2, <2>1 DEF Enough, unpacked
  <2>3. unpacked \in Int /\ (Covered => unpacked =< free /\ RuntimeBytes =< free - unpacked)
    BY <1>1, <1>3, <2>2
  <2>4. Covered => Enough("runtime", stage, free - unpacked)
    BY <2>3 DEF Enough
  <2>5. "runtime" \in AfterIntegrity
    BY DEF AfterIntegrity, AfterSelect
  <2> QED
    BY <1>1, <1>4, <1>5, <2>1, <2>3, <2>4, <2>5, StageFits
<1>11. CASE StageRuntime
  <2>1. Stage("runtime", "assert", TRUE, RuntimeBytes, "FAILED", stage) /\ pc = "runtime"
    BY <1>11 DEF StageRuntime, Stage
  <2>2. (Covered => RuntimeBytes =< free) /\ RuntimeBytes \in Int
    BY <1>2, <1>3, <2>1 DEF Enough
  <2>3. Enough("assert", stage, free - RuntimeBytes)
    BY DEF Enough
  <2> QED
    BY <1>1, <1>4, <2>1, <2>2, <2>3, StageFits
<1> QED
  BY <1>6, <1>7, <1>8, <1>9, <1>10, <1>11

\* Afterwards nothing is written any more.
LEMMA MovesFit ==
  ASSUME SpaceInv, BInv, WInv, AssertQuiet \/ MoveAside \/ Publish \/ RestoreOld \/ Finish \/ ToolFails \/ Die
  PROVE  SpaceInv'
<1>1. free \in Int /\ stage.bytes \in Int /\ (Covered => ~short)
  BY DEF SpaceInv
<1>2. \A b : SizeOf(b) \in Nat
  <2>1. pc # "off"
    BY DEF AssertQuiet, MoveAside, Publish, RestoreOld, Finish, ToolFails, Die, Working
  <2> QED
    BY <2>1, SizesOfBuilds DEF BInv, StageInv
<1>3. /\ UNCHANGED <<pkg, before, short>>
      /\ \/ /\ pc' = "done" /\ stage' = NoStage
            /\ \E gone \in {0, SizeOf(moved)} : free' \in {free, free + stage.bytes + gone}
         \/ /\ pc' \in {"publish", "aside", "finish", "restore"} /\ free' = free
            /\ \/ stage' = stage
               \/ stage' = [stage EXCEPT !.bytes = @ - SizeOf(Build)]
  BY DEF AssertQuiet, MoveAside, Publish, RestoreOld, Finish, ToolFails, Die, Leave, LeaveFreeing,
         fixedVars
<1>4. CASE pc' = "done" /\ stage' = NoStage
  <2>1. PICK gone \in {0, SizeOf(moved)} : free' \in {free, free + stage.bytes + gone}
    BY <1>3, <1>4
  <2>2. free' \in Int
    BY <1>1, <1>2, <2>1
  <2> QED
    BY <1>3, <1>4, <2>2, StopFits
<1>5. CASE pc' \in {"publish", "aside", "finish", "restore"} /\ free' = free
  <2>1. stage'.bytes \in Int
    <3>1. DOMAIN stage = DOMAIN NoStage
      BY DEF BInv, StageInv
    <3> QED
      BY <1>1, <1>2, <1>3, <1>5, <3>1 DEF NoStage
  <2>2. Placed(pc, stage)' /\ Enough(pc, stage, free)'
    BY <1>5 DEF Placed, Enough, Writing, AfterToken, Copied, AfterIntegrity, AfterSelect, Ends
  <2>3. Covered' = Covered
    BY <1>3 DEF Covered, Overrun, Slack, Official, SizeOf
  <2> QED
    BY <1>1, <1>3, <1>5, <2>1, <2>2, <2>3 DEF SpaceInv
<1> QED
  BY <1>3, <1>4, <1>5

LEMMA LookersFit == SpaceInv /\ UNCHANGED installVars => SpaceInv'
  BY SameFits DEF installVars, fixedVars, workVars, SpaceInv

LEMMA SpaceInvHolds == Spec => []SpaceInv
<1>1. Init => SpaceInv
  <2>1. Init => pc \in Ends /\ stage = NoStage /\ free \in Nat /\ ~short
    <3>1. Volumes \subseteq Nat
      BY InstallAssumption
    <3>2. Init => (DInit \/ WindowsIdle)
      BY DEF Init
    <3>3. DInit => pc \in Ends /\ stage = NoStage /\ free \in Nat /\ ~short
      BY <3>1 DEF DInit, Ends
    <3>4. WindowsIdle => pc \in Ends /\ stage = NoStage /\ free \in Nat /\ ~short
      BY DEF WindowsIdle, Ends
    <3> QED
      BY <3>2, <3>3, <3>4
  <2>2. NoStage.bytes \in Int
    BY DEF NoStage
  <2> QED
    BY <2>1, <2>2
    DEF SpaceInv, Placed, Enough, Writing, AfterToken, Copied, AfterIntegrity, AfterSelect, Ends
<1>2. SpaceInv /\ WInv /\ BInv /\ DNext => SpaceInv'
  BY PreludeFits, BeginFits, PlanFits, WeighFits, TokenFits, StillStagesFit, FileFits, BulkFits, MovesFit,
     LookersFit DEF DNext, Tool, Look, Beside
<1>3. SpaceInv /\ WInv /\ BInv /\ [Next]_vars => SpaceInv'
  BY <1>2, LookersFit DEF Next, vars, windowsVars
<1> QED
  BY <1>1, <1>3, WInvInductive, BInvHolds, PTL DEF Spec

\* A build that the preflight let pass only meets a full disk if what the
\* preflight has no term for is more than what it weighs in excess, whatever
\* the sizes of the package, of the build in place and of the volume and
\* however the attempts before ended (storage_preflight, mirror.py:732-831).
THEOREM PreflightCovers == Spec => []ExhaustedByUnweighed
<1>1. SpaceInv => ExhaustedByUnweighed
  BY DEF SpaceInv, Covered, ExhaustedByUnweighed
<1> QED
  BY <1>1, SpaceInvHolds, PTL

-----------------------------------------------------------------------------
(* Startup patches.                                                         *)

\* What audit_bootstrap passes, patch_bootstrap patches, whatever hooks it is
\* asked for (windows/bootstrap.py:172-406).
THEOREM AuditedIsPatched ==
  ASSUME NEW s, NEW hooks, {s.exact, s.generic, s.updaters} \subseteq Nat, BootstrapAudited(s)
  PROVE  BootstrapPatched(s, hooks)
  BY DEF BootstrapAudited, BootstrapPatched, ProfileHooks, HookStatus, StaticHook, ChainProven
=============================================================================
