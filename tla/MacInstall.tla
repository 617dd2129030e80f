----------------------------- MODULE MacInstall ----------------------------
(***************************************************************************)
(* Building and installing the patched macOS app (scripts/patch_app.py).   *)
(* Two bundles are replaced together, the app and the Computer Use helper  *)
(* beside it.  Build 1 is what was installed, 2 the one that is built.     *)
(***************************************************************************)
EXTENDS Naturals, FiniteSets

CONSTANTS
  MacSources,   \* official apps by name: what their checks and patches would find
  MacRequests,  \* the flags the tool may be given, by name
  MacTrouble    \* bound: failures of the platform

VARIABLES
  mac,      \* the official app
  flags,    \* the request
  mpc,      \* the stage
  app, helper,        \* the build in place, 0 for none
  appBackup, helperBackup,  \* the build under the backup name
  appFailed, helperFailed,  \* the build under failed-install
  failedAt,  \* history: the rename that failed first
  broken,    \* history: the rollback itself failed
  faultsLeft,
  mresult    \* how the run ended

Bundle == MacSources[mac]
Flag == MacRequests[flags]

macFixed == <<mac, flags>>
bundles == <<app, helper, appBackup, helperBackup, appFailed, helperFailed>>
macVars == <<macFixed, mpc, bundles, failedAt, broken, faultsLeft, mresult>>

MInit ==
  /\ mac \in DOMAIN MacSources /\ flags \in DOMAIN MacRequests
  /\ mpc = "checks"
  /\ app \in {0, 1} /\ helper \in {0, 1}
  /\ appBackup = 0 /\ helperBackup = 0 /\ appFailed = 0 /\ helperFailed = 0
  /\ failedAt = "none" /\ broken = FALSE /\ faultsLeft = MacTrouble /\ mresult = "none"

\* One stage: it goes on or raises; the platform may make it raise.
MacStage(at, next, good) ==
  /\ mpc = at
  /\ \E fault \in IF faultsLeft > 0 THEN BOOLEAN ELSE {FALSE} :
       /\ faultsLeft' = IF fault THEN faultsLeft - 1 ELSE faultsLeft
       /\ IF good /\ ~fault THEN mpc' = next /\ UNCHANGED mresult
          ELSE mpc' = "ended" /\ mresult' = "failed"
  /\ UNCHANGED <<macFixed, bundles, failedAt, broken>>

\* ensure_components_are_stopped, which is asked with --force only.
Stopped == Flag.force => ~Flag.running \/ (app = 0 /\ helper = 0)

\* resolve_signing_identity.
Signer == Bundle.identity = "team" \/ Flag.adhoc

\* existing_signing_team: a build is only replaced by one of its own team.
TeamKept == app # 0 => Bundle.sameTeam \/ Flag.teamChange

\* patch_app up to the temporary directory: the bundle, the destination, the
\* approved hash, the signer and the running components.
CheckRequest ==
  MacStage("checks", "extract",
           /\ Bundle.bundle /\ ~Flag.inPlace
           /\ app # 0 => Flag.force
           /\ Bundle.approved \/ Flag.untested
           /\ Signer /\ TeamKept /\ Stopped)

\* build_proxy, ditto, install_launcher, asar extract and
\* patch_asar_computer_use_identity, which counts its replacements.
CopyApp == MacStage("extract", "profile", Bundle.asarReferences = "expected")

\* patch_desktop_profile: one profile hook, one updater, one managed service,
\* one instruction, one bundle of each.
PatchProfile ==
  MacStage("profile", "renderer",
           \A hook \in {"bootstrap", "profile", "updater", "main", "service", "instruction"} :
             Bundle.hooks[hook] = 1)

\* patch_renderer of patch_common, then sign_native_code_tree.
PatchMacRenderer == MacStage("renderer", "pack", Bundle.renderer)

\* asar pack, the listing, the unpacked tree and codex.real.
PackApp == MacStage("pack", "sign", Bundle.nativeUnpacked /\ ~Bundle.alreadyPatched)

\* patch_computer_use_identity: exact counts of the helper's references and,
\* when there is a team to put in their place, of its team checks.
HelperPatched == /\ Bundle.helperReferences = "expected"
                 /\ Bundle.identity = "team" => Bundle.teamChecks = "expected"

\* patch_info_plist, then sign_independent_app: the helper first, its code
\* from the inside out, then the app; verify_signed_code.
SignApp == MacStage("sign", "helper", HelperPatched)

\* The helper is copied out of the signed app and verified, and the backup
\* directory is made.
CopyHelper == MacStage("helper", "backupApp", TRUE)

-----------------------------------------------------------------------------
(* The four renames and the handler of their failure.                       *)

\* `bundle` is what is renamed; there may be none.
Rename(at, next, bundle, done) ==
  /\ mpc = at
  /\ \/ /\ done /\ mpc' = next /\ UNCHANGED <<failedAt, faultsLeft>>
     \/ /\ bundle # 0 /\ faultsLeft > 0 /\ faultsLeft' = faultsLeft - 1
        /\ mpc' = "makeFailed" /\ failedAt' = at
        /\ UNCHANGED bundles
  /\ UNCHANGED <<macFixed, broken, mresult>>

BackUpApp ==
  Rename("backupApp", "backupHelper", app,
         /\ IF app # 0 THEN appBackup' = app /\ app' = 0 ELSE UNCHANGED <<app, appBackup>>
         /\ UNCHANGED <<helper, helperBackup, appFailed, helperFailed>>)

BackUpHelper ==
  Rename("backupHelper", "publishApp", helper,
         /\ IF helper # 0 THEN helperBackup' = helper /\ helper' = 0
            ELSE UNCHANGED <<helper, helperBackup>>
         /\ UNCHANGED <<app, appBackup, appFailed, helperFailed>>)

PublishApp ==
  Rename("publishApp", "publishHelper", 2,
         app' = 2 /\ UNCHANGED <<helper, appBackup, helperBackup, appFailed, helperFailed>>)

PublishHelper ==
  Rename("publishHelper", "register", 2,
         helper' = 2 /\ UNCHANGED <<app, appBackup, helperBackup, appFailed, helperFailed>>)

\* A step of the handler, which it ends if it fails.
Undo(at, next, bundle, done) ==
  /\ mpc = at
  /\ \/ /\ done /\ mpc' = next
        /\ mresult' = IF next = "ended" THEN "failed" ELSE mresult
        /\ UNCHANGED <<broken, faultsLeft>>
     \/ /\ bundle # 0 /\ faultsLeft > 0 /\ faultsLeft' = faultsLeft - 1
        /\ mpc' = "ended" /\ mresult' = "failed" /\ broken' = TRUE
        /\ UNCHANGED bundles
  /\ UNCHANGED <<macFixed, failedAt>>

\* failed_directory.mkdir.
MakeFailed == Undo("makeFailed", "setAsideApp", 2, UNCHANGED bundles)

\* "if destination.exists()": whatever is in place is set aside as failed.
SetAsideApp ==
  Undo("setAsideApp", "setAsideHelper", app,
       /\ IF app # 0 THEN appFailed' = app /\ app' = 0 ELSE UNCHANGED <<app, appFailed>>
       /\ UNCHANGED <<helper, appBackup, helperBackup, helperFailed>>)

SetAsideHelper ==
  Undo("setAsideHelper", "restoreApp", helper,
       /\ IF helper # 0 THEN helperFailed' = helper /\ helper' = 0
          ELSE UNCHANGED <<helper, helperFailed>>
       /\ UNCHANGED <<app, appBackup, helperBackup, appFailed>>)

(* Seeded fault: the handler forgets the helper. *)
RestoreNoHelper ==
  Undo("restoreHelper", "ended", helperBackup,
       UNCHANGED <<app, appBackup, helper, helperBackup, appFailed, helperFailed>>)

\* "if app_backup.exists()": what was backed up comes back.
RestoreApp ==
  Undo("restoreApp", "restoreHelper", appBackup,
       /\ IF appBackup # 0 THEN app' = appBackup /\ appBackup' = 0
          ELSE UNCHANGED <<app, appBackup>>
       /\ UNCHANGED <<helper, helperBackup, appFailed, helperFailed>>)

RestoreHelper ==
  Undo("restoreHelper", "ended", helperBackup,
       /\ IF helperBackup # 0 THEN helper' = helperBackup /\ helperBackup' = 0
          ELSE UNCHANGED <<helper, helperBackup>>
       /\ UNCHANGED <<app, appBackup, appFailed, helperFailed>>)

\* lsregister and retire_stale_cached_computer_use_app may still raise.
Register ==
  /\ mpc = "register"
  /\ mpc' = "ended" /\ mresult' \in {"installed", "unregistered"}
  /\ UNCHANGED <<macFixed, bundles, failedAt, broken, faultsLeft>>

\* The tool dies between any two of its steps.
MacDies ==
  /\ mpc \notin {"ended", "off"} /\ faultsLeft > 0
  /\ faultsLeft' = faultsLeft - 1
  /\ mpc' = "ended" /\ mresult' = "died"
  /\ UNCHANGED <<macFixed, bundles, failedAt, broken>>

MNext ==
  \/ CheckRequest \/ CopyApp \/ PatchProfile \/ PatchMacRenderer \/ PackApp \/ SignApp
  \/ CopyHelper
  \/ BackUpApp \/ BackUpHelper \/ PublishApp \/ PublishHelper
  \/ MakeFailed \/ SetAsideApp \/ SetAsideHelper \/ RestoreApp \/ RestoreHelper
  \/ Register \/ MacDies

-----------------------------------------------------------------------------

\* A run that failed, with a rollback that went through, left the app and the
\* helper that were there.
Unchanged == /\ app = IF 1 \in {appBackup, appFailed, app} THEN 1 ELSE 0
             /\ helper = IF 1 \in {helperBackup, helperFailed, helper} THEN 1 ELSE 0

\* What the rollback is for: the rename of a new bundle fails after the old
\* ones were backed up, and both come back (patch_app's handler).
OldPairComesBack ==
  (mresult = "failed" /\ ~broken /\ failedAt \in {"none", "publishApp", "publishHelper"})
    => Unchanged
=============================================================================
