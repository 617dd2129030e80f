--------------------------- MODULE DesktopInstall --------------------------
(***************************************************************************)
(* Building and installing the patched Windows desktop                     *)
(* (scripts/patch_app_windows.py, main and build_windows_desktop, with the *)
(* quiescence gate that host validation puts before it).  An attempt runs  *)
(* the stages in order in a temporary directory beside the destination,    *)
(* then moves the old build aside and the new one in.  A stage may fail,   *)
(* the tool may die at any point, processes start and exit meanwhile, and  *)
(* the user may try again.  Build 1 is what was installed before; attempt  *)
(* k makes build k + 1; 0 is none.                                         *)
(***************************************************************************)
EXTENDS Quiesce, Mirror, Payload, Renderer, Bootstrap, Discovery

CONSTANTS
  Packages,     \* the official packages that may be installed, by name, with
                \* what their archive takes when it is extracted and what the
                \* patched one has more
  Requests,     \* what the tool may be asked for, by name
  Registry,     \* the reviewed-source registry
  Releases,     \* the contracts bound to a package by its metadata
  Volumes,      \* free bytes of the volume at first
  ShellBytes,   \* what the build installed before occupies
  RuntimeBytes, \* the mux, the launcher and the copied Codex binary
  MaxAttempts, MaxTrouble   \* bounds: attempts, failures of the platform

ASSUME InstallAssumption ==
  /\ RegistryLoads(Registry)
  /\ \A p \in DOMAIN Packages : DOMAIN Packages[p].id = Field
  /\ \A p \in DOMAIN Packages : LET fs == Packages[p].src.files
                                IN  /\ IsFiniteSet(fs)
                                    /\ \A f \in fs : /\ f.size \in Nat
                                                      /\ f.stat \in {"ok"} \cup DOMAIN FileStop
  /\ \A p \in DOMAIN Packages : Packages[p].extracted \in Nat /\ Packages[p].growth \in Nat
  /\ Volumes \subseteq Nat /\ ShellBytes \in Nat
  /\ RuntimeBytes \in Nat
  /\ MaxAttempts \in Nat /\ MaxTrouble \in Nat

VARIABLES
  pkg, req,   \* the package and the request, which stay as they are
  pc,         \* the stage
  attempt, trouble,
  dest,       \* the build at the destination
  side,       \* builds under a backup or rollback name
  moved,      \* the build this attempt moved aside, 0 for none
  before,     \* history: the destination when the attempt began
  stage,      \* the temporary directory
  made,       \* what was built, by build
  free,       \* free bytes of the volume
  short,      \* history: a write of this attempt was refused for want of space
  token,      \* the mux home's token: 0 absent, -1 unusable
  result      \* how the last attempt ended

fixedVars == <<pkg, req>>
placeVars == <<dest, side, moved>>
workVars == <<stage, made, free, short, token>>
installVars == <<fixedVars, pc, attempt, trouble, placeVars, before, workVars, result>>

Official == Packages[pkg]
Asked == Requests[req]
Build == attempt + 1
Persistent == Asked.policy = "EPHEMERAL_ROLLBACK"

\* What a build occupies once it is in place or moved aside, 0 for none.
SizeOf(b) == CASE b = 0 -> 0
               [] b = 1 -> ShellBytes
               [] OTHER -> Bytes(Required(Official.src.files)) + Official.growth + RuntimeBytes

\* The temporary directory: the plan, the files copied, the assets written in
\* the extraction, the script steps left, what app.asar is, the digests in
\* the binaries, the token in the renderer and all its bytes.
NoStage == [plan |-> Stop("none"), copied |-> {}, written |-> {}, script |-> NoScript,
            asar |-> "official", digests |-> <<>>, token |-> 0, bytes |-> 0]

DInit ==
  /\ pkg \in DOMAIN Packages /\ req \in DOMAIN Requests
  /\ pc = "idle" /\ attempt = 0 /\ trouble = 0
  /\ dest \in {0, 1} /\ side = {} /\ moved = 0 /\ before = dest
  /\ stage = NoStage /\ made = <<>> /\ free \in Volumes /\ short = FALSE
  /\ token \in {0, -1, 1} /\ (dest = 1 => token = 1)
  /\ result = "none"

-----------------------------------------------------------------------------
(* How a stage ends.                                                        *)

\* Leaving the temporary directory's block removes it, and `gone` bytes more.
LeaveFreeing(why, gone) ==
  /\ pc' = "done" /\ result' = why
  /\ stage' = NoStage /\ free' = free + stage.bytes + gone
Leave(why) == LeaveFreeing(why, 0)

\* A stage at `at` that needs `good`, writes n bytes and leaves st; a full
\* volume ends it with `full`.
Stage(at, next, good, n, full, st) ==
  /\ pc = at
  /\ IF good /\ n =< free
     THEN /\ pc' = next /\ free' = free - n
          /\ stage' = [st EXCEPT !.bytes = @ + n]
          /\ UNCHANGED result
     ELSE Leave(IF good THEN full ELSE "FAILED")
  /\ short' = (short \/ (good /\ n > free))
  /\ UNCHANGED <<fixedVars, attempt, trouble, placeVars, before, quiesceVars>>

\* A stage that only decides.
Decide(at, next, good, why) ==
  /\ pc = at
  /\ IF good THEN pc' = next /\ UNCHANGED <<result, stage, free>> ELSE Leave(why)
  /\ UNCHANGED <<fixedVars, attempt, trouble, placeVars, before, made, short, token>>

-----------------------------------------------------------------------------
(* Before anything is written.                                              *)

\* main, or the validator: an attempt begins; a persistent shell is quiesced
\* first, once the loop of an earlier attempt is over.
Begin ==
  /\ pc \in {"idle", "done"} /\ attempt < MaxAttempts
  /\ attempt' = attempt + 1 /\ before' = dest /\ moved' = 0
  /\ result' = "running" /\ short' = FALSE
  /\ IF Persistent THEN pc' = "quiet" /\ Call
     ELSE pc' = "gate" /\ UNCHANGED quiesceVars
  /\ UNCHANGED <<fixedVars, trouble, dest, side, stage, made, free, token>>

\* The verdict of quiescence: BUSY builds nothing.
Quiet ==
  /\ qpc = "done"
  /\ Decide("quiet", "gate", verdict = "QUIESCENT", "BUSY")
  /\ qpc' = "off"
  /\ UNCHANGED <<procVars, blind, rows, todo, scans, clean, faults, clock, verdict, seen>>

\* The shell to start, the real binary and the source-review gate.
ContractOf(p) ==
  LET reviewed == ReviewedRecords(p.id, Registry)
  IN  IF Patchable(p.id, reviewed) THEN (CHOOSE r \in reviewed : TRUE).contract ELSE "none"
Contracts == [p \in DOMAIN Packages |-> ContractOf(Packages[p])]
ReviewedContract == Contracts[pkg]

\* What the extraction of a package decides: its audit and its script.
Sound == [p \in DOMAIN Packages |->
            /\ ~Failed(Audit(Packages[p].x, Contracts[p], Packages[p].id, Releases))
            /\ Contracts[p] # "none" => Selected(Packages[p].x, Contracts[p])]
Scripts == [p \in DOMAIN Packages |->
              Script(Packages[p].x, Contracts[p], Packages[p].id, Releases)]

Gate ==
  /\ Decide("gate", "plan",
            /\ Sources(Official.machine) # {}
            /\ Official.apart
            /\ LaunchShell(Official.shells, Asked.launch) # {}
            /\ RealCodex(Official.codex, 1) # {}
            /\ ReviewedContract # "none" \/ Asked.untested,
            "FAILED")
  /\ UNCHANGED quiesceVars

\* plan_mirror_source.
PlanMirror ==
  /\ pc = "plan"
  /\ \E p \in SourcePlans(Official.src) :
       IF p.kind = "plan"
       THEN /\ pc' = "weigh" /\ stage' = [stage EXCEPT !.plan = p]
            /\ UNCHANGED <<free, result>>
       ELSE Leave(IF p.kind = "storage" THEN "STORAGE" ELSE "FAILED")
  /\ UNCHANGED <<fixedVars, attempt, trouble, placeVars, before, made, short, token, quiesceVars>>

AsarBytes(fs) == Bytes({f \in fs : f.role = "asar"})

\* storage_preflight and require_storage_capacity.
Weigh ==
  /\ \E measured \in IF dest # 0 /\ trouble < MaxTrouble THEN BOOLEAN ELSE {TRUE} :
       /\ Decide("weigh", "token",
                 CapacityProven(free, Estimate(stage.plan, SizeOf(dest), AsarBytes(stage.plan.files)),
                                measured),
                 "STORAGE")
  /\ UNCHANGED quiesceVars

(* Seeded fault: every build writes a new token. *)
LoadTokenAnew ==
  /\ pc = "token"
  /\ token' = Build
  /\ pc' = "mirror" /\ UNCHANGED <<stage, free, result>>
  /\ UNCHANGED <<fixedVars, attempt, trouble, placeVars, before, made, short, quiesceVars>>

\* load_or_create_token: a rebuild keeps the token that is there.
LoadToken ==
  /\ pc = "token"
  /\ token' = IF token = 0 THEN Build ELSE token
  /\ IF token = -1 THEN Leave("FAILED")
     ELSE pc' = "mirror" /\ UNCHANGED <<stage, free, result>>
  /\ UNCHANGED <<fixedVars, attempt, trouble, placeVars, before, made, short, quiesceVars>>

-----------------------------------------------------------------------------
(* The mirror and what is changed in it.                                    *)

\* mirror_desktop_source: the planned files, one by one.
MirrorFile ==
  /\ stage.copied # stage.plan.files
  /\ LET f == CHOOSE g \in stage.plan.files \ stage.copied : TRUE
     IN  Stage("mirror", "mirror", TRUE, f.size, "STORAGE",
               [stage EXCEPT !.copied = @ \cup {f}])
  /\ UNCHANGED <<made, token>>

\* verify_desktop_mirror.
VerifyMirror ==
  /\ stage.copied = stage.plan.files
  /\ Stage("mirror", "acl", Verified(Official.src, stage.copied), 0, "FAILED", stage)
  /\ UNCHANGED <<made, token>>

\* _payload_acl_for_strategy: only an explicit grant must read back.
PrepareAcl ==
  /\ \E after \in Official.acls :
       Stage("acl", "integrity",
             Asked.acl = "APPCONTAINER_RX" => GrantVerified(Official.acl, after, TRUE),
             0, "FAILED", stage)
  /\ UNCHANGED <<made, token>>

\* scan_fuse_carriers, resolve_windows_asar_integrity, and that the staged
\* executable is still the source's.
ResolveIntegrity ==
  /\ Stage("integrity", "extract", IntegrityResolved(Official.bins), 0, "FAILED",
           [stage EXCEPT !.digests = [b \in Official.bins |-> "official"]])
  /\ UNCHANGED <<made, token>>

\* asar extract.
Extract ==
  /\ Stage("extract", "audit", TRUE, Official.extracted, "FAILED", stage)
  /\ UNCHANGED <<made, token>>

\* audit_renderer_anchors before any change; a reviewed source must carry the
\* very contract its record names.
AuditAnchors ==
  /\ Stage("audit", "bootstrap", Sound[pkg], 0, "FAILED", stage)
  /\ UNCHANGED <<made, token>>

\* patch_bootstrap.
PatchStartup ==
  /\ Stage("bootstrap", "select", BootstrapPatched(Official.boot, {"bridge"} \cup Asked.hooks),
           0, "FAILED", [stage EXCEPT !.written = {"bootstrap"}])
  /\ UNCHANGED <<made, token>>

\* patch_renderer, its audit and the choice of its script.
SelectScript ==
  /\ Stage("select", "patch", Scripts[pkg] # NoScript, 0, "FAILED",
           [stage EXCEPT !.script = Scripts[pkg], !.token = token])
  /\ UNCHANGED <<made, token>>

\* One asset of the renderer: its anchors, then its write.
PatchAsset ==
  /\ stage.script.steps # <<>>
  /\ LET s == Head(stage.script.steps)
     IN  Stage("patch", "patch", Requires(Official.x, stage.script.binding, s), 0, "FAILED",
               [stage EXCEPT !.written = @ \cup Written(s), !.script.steps = Tail(@)])
  /\ UNCHANGED <<made, token>>

\* validate_patched_javascript_syntax over every asset that was touched.
CheckSyntax ==
  /\ stage.script.steps = <<>>
  /\ Stage("patch", "pack", stage.written # {}, 0, "FAILED", stage)
  /\ UNCHANGED <<made, token>>

\* pack_asar with the derived unpack roots and verify_asar_listing: the new
\* archive and its unpacked tree, beside the mirror.
Repack ==
  /\ Stage("pack", "archive", Official.native \subseteq UnpackRoots(stage.copied),
           AsarBytes(stage.copied) + Official.growth + UnpackedBytes(stage.plan), "FAILED", stage)
  /\ UNCHANGED <<made, token>>

\* The repacked archive over the mirrored one.
StageArchive ==
  /\ Stage("archive", "seal", TRUE, Official.growth, "STORAGE",
           [stage EXCEPT !.asar = "patched"])
  /\ UNCHANGED <<made, token>>

\* apply_windows_asar_integrity.
Seal ==
  /\ Stage("seal", "clear", TRUE, 0, "FAILED",
           [stage EXCEPT !.digests = Sealed(Official.bins, @, stage.asar)])
  /\ UNCHANGED <<made, token>>

\* copy_unpacked_tree: the mirrored tree goes, the generated one is copied.
ClearUnpacked ==
  /\ Stage("clear", "unpack", TRUE, -UnpackedBytes(stage.plan), "STORAGE", stage)
  /\ UNCHANGED <<made, token>>

CopyUnpacked ==
  /\ Stage("unpack", "runtime", TRUE, UnpackedBytes(stage.plan), "STORAGE", stage)
  /\ UNCHANGED <<made, token>>

\* The Go binaries, the copy of the real Codex, launch.json, metadata.json and
\* validate_staged_layout.
StageRuntime ==
  /\ Stage("runtime", "assert", TRUE, RuntimeBytes, "FAILED", stage)
  /\ made' = IF pc' = "assert"
             THEN [b \in DOMAIN made \cup {Build} |->
                     IF b = Build THEN [written |-> stage.written, asar |-> stage.asar,
                                        digests |-> stage.digests, token |-> stage.token]
                     ELSE made[b]]
             ELSE made
  /\ UNCHANGED token

-----------------------------------------------------------------------------
(* _atomic_install.                                                         *)

\* The policy, and the last look at the destination before its rename.
AssertQuiet ==
  /\ pc = "assert"
  /\ \E look \in {Owned(image)} \cup (IF blind < MaxBlind THEN {{}} ELSE {}) :
       /\ blind' = IF look = Owned(image) THEN blind ELSE blind + 1
       /\ LET refused == dest # 0 /\ ~Asked.force
              busy == dest # 0 /\ Persistent /\ look # {}
          IN  IF refused \/ busy THEN Leave(IF refused THEN "FAILED" ELSE "BUSY")
              ELSE /\ pc' = IF dest = 0 THEN "publish" ELSE "aside"
                   /\ UNCHANGED <<stage, free, result>>
  /\ UNCHANGED <<fixedVars, attempt, trouble, placeVars, before, made, short, token,
                 procVars, qpc, rows, todo, scans, clean, faults, clock, verdict, seen>>

\* How a denied rename of the old build is reported.
Denied == CASE ~Persistent -> "FAILED"
            [] Persistent /\ Owned(image) # {} -> "BUSY"
            [] OTHER -> "RENAME_BLOCKED"

(* Seeded fault: the old build is deleted where it should be renamed. *)
MoveAsideByDeleting ==
  /\ pc = "aside" /\ Holding(image) = {}
  /\ dest' = 0 /\ pc' = "publish"
  /\ UNCHANGED <<side, moved, stage, free, result, trouble>>
  /\ UNCHANGED <<fixedVars, attempt, before, made, short, token, quiesceVars>>

\* destination.rename(...): Windows denies it while a process runs from there,
\* or for reasons of its own.
MoveAside ==
  /\ pc = "aside"
  /\ \E denied \in IF Holding(image) # {} THEN {TRUE}
                   ELSE IF trouble < MaxTrouble THEN BOOLEAN ELSE {FALSE} :
       /\ trouble' = IF denied /\ Holding(image) = {} THEN trouble + 1 ELSE trouble
       /\ IF denied THEN Leave(Denied) /\ UNCHANGED placeVars
          ELSE /\ moved' = dest /\ side' = side \cup {dest} /\ dest' = 0
               /\ pc' = "publish" /\ UNCHANGED <<stage, free, result>>
  /\ UNCHANGED <<fixedVars, attempt, before, made, short, token, quiesceVars>>

(* Seeded fault: a failed rename ends the attempt without a restore. *)
PublishOrGiveUp ==
  /\ pc = "publish"
  /\ \/ /\ dest' = Build /\ pc' = "finish"
        /\ stage' = [stage EXCEPT !.bytes = @ - SizeOf(Build)]
        /\ UNCHANGED <<trouble, free, result>>
     \/ /\ trouble < MaxTrouble /\ trouble' = trouble + 1
        /\ Leave("FAILED")
        /\ UNCHANGED dest
  /\ UNCHANGED <<fixedVars, attempt, side, moved, before, made, short, token, quiesceVars>>

\* staged.rename(destination); what the temporary directory still holds goes.
Publish ==
  /\ pc = "publish"
  /\ \/ /\ dest' = Build /\ pc' = "finish"
        /\ stage' = [stage EXCEPT !.bytes = @ - SizeOf(Build)]
        /\ UNCHANGED <<trouble, free, result>>
     \/ /\ trouble < MaxTrouble /\ trouble' = trouble + 1
        /\ IF moved # 0 THEN pc' = "restore" /\ UNCHANGED <<stage, free, result>>
           ELSE Leave("FAILED")
        /\ UNCHANGED dest
  /\ UNCHANGED <<fixedVars, attempt, side, moved, before, made, short, token, quiesceVars>>

\* The old build comes back when the new one could not be moved in.
RestoreOld ==
  /\ pc = "restore"
  /\ \/ dest' = moved /\ side' = side \ {moved} /\ Leave("FAILED") /\ UNCHANGED trouble
     \/ /\ trouble < MaxTrouble /\ trouble' = trouble + 1
        /\ Leave("RESTORE_FAILED") /\ UNCHANGED <<dest, side>>
  /\ UNCHANGED <<fixedVars, attempt, moved, before, made, short, token, quiesceVars>>

\* A rollback copy is removed, a backup stays.
Finish ==
  /\ pc = "finish"
  /\ \/ /\ side' = IF Persistent THEN side \ {moved} ELSE side
        /\ LeaveFreeing("INSTALLED", IF Persistent THEN SizeOf(moved) ELSE 0)
        /\ UNCHANGED trouble
     \/ /\ Persistent /\ moved # 0 /\ trouble < MaxTrouble
        /\ trouble' = trouble + 1 /\ Leave("ROLLBACK_LEFT") /\ UNCHANGED side
  /\ UNCHANGED <<fixedVars, attempt, dest, moved, before, made, short, token, quiesceVars>>

-----------------------------------------------------------------------------
(* What may go wrong anywhere, and what runs beside the tool.               *)

Working == {"gate", "plan", "weigh", "token", "mirror", "acl", "integrity", "extract",
            "audit", "bootstrap", "select", "patch", "pack", "archive", "seal", "clear",
            "unpack", "runtime"}

\* A tool, a read or a write fails: the attempt is over.  Where files are
\* copied, a full disk is told apart (_required_copy_error,
\* is_storage_exhaustion).
ToolFails ==
  /\ pc \in Working /\ trouble < MaxTrouble
  /\ trouble' = trouble + 1
  /\ \E e \in IF pc \in {"mirror", "archive", "clear", "unpack"} THEN DOMAIN FileStop ELSE {"io"} :
       Leave(IF FileStop[e] = "storage" THEN "STORAGE" ELSE "FAILED")
  /\ UNCHANGED <<fixedVars, attempt, placeVars, before, made, short, token, quiesceVars>>

\* The tool dies: whatever it left on the volume stays there.
Die ==
  /\ pc \in Working \cup {"quiet", "assert", "aside", "publish", "restore", "finish"}
  /\ trouble < MaxTrouble
  /\ trouble' = trouble + 1
  /\ pc' = "done" /\ result' = "DIED" /\ stage' = NoStage
  /\ qpc' = "off"
  /\ UNCHANGED <<fixedVars, attempt, placeVars, before, made, free, short, token, procVars,
                 blind, rows, todo, scans, clean, faults, clock, verdict, seen>>

\* Processes: none can start from a destination that is not there.  No stage
\* of Working reads them, so what happens during one is left to its end, and
\* what happens before the first attempt is in Init.
Beside ==
  /\ pc \notin Working \cup {"idle"}
  /\ pc = "done" => attempt < MaxAttempts
  /\ Environment
  /\ dest = 0 => Holding(image') \subseteq Holding(image)
  /\ UNCHANGED installVars

Look == Loop /\ UNCHANGED installVars

Tool ==
  \/ Begin \/ Look \/ Quiet \/ Gate \/ PlanMirror \/ Weigh \/ LoadToken
  \/ MirrorFile \/ VerifyMirror \/ PrepareAcl \/ ResolveIntegrity \/ Extract
  \/ AuditAnchors \/ PatchStartup \/ SelectScript \/ PatchAsset \/ CheckSyntax
  \/ Repack \/ StageArchive \/ Seal \/ ClearUnpacked \/ CopyUnpacked \/ StageRuntime
  \/ AssertQuiet \/ MoveAside \/ Publish \/ RestoreOld \/ Finish

DNext == Tool \/ ToolFails \/ Die \/ Beside
=============================================================================
