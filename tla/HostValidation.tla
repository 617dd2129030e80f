--------------------------- MODULE HostValidation ---------------------------
(***************************************************************************)
(* The two host workflows (scripts/windows/phase2a5_host_validation.py):   *)
(* "validate" proves a patched shell on a reviewed source, "prepare" has   *)
(* the user log in once and proves over three boots and a rebuild that the *)
(* login persists.  Each is an agenda of stages; the first that fails ends *)
(* it.  The official package may be updated or removed meanwhile; building *)
(* the shell is what DesktopInstall promises: it takes the package as it   *)
(* is when the mirror is made, and replaces no shell that runs.            *)
(***************************************************************************)
EXTENDS Smoke, Sequences

CONSTANTS
  Modes,        \* the workflows that may be started
  Hosts,        \* what the machine may be
  Version,      \* versions of the official package, 1..n; 0 is none
  Reviewed      \* the versions in the registry as patchable

ASSUME HostAssumption ==
  /\ Modes \subseteq {"validate", "prepare"}
  /\ Version \subseteq Nat \ {0} /\ Reviewed \subseteq Version

VARIABLES
  mode, agenda,
  source,     \* the version that is installed now
  pinned,     \* the identity the review read
  before,     \* the fingerprint the sandbox validation began with
  unchanged,  \* official_package_unchanged
  built,      \* the version the shell was built from, 0 before it was
  boots,      \* boots begun
  logins,     \* history: how the second and the third boot came by their login
  rebuilt,    \* history: boots begun when the shell was built the last time
  outcome     \* the result's status

packageVars == <<source>>
flowVars == <<mode, agenda, pinned, before, unchanged, built, boots, logins, rebuilt, outcome>>
vars == <<packageVars, flowVars, smokeVars, quiesceVars>>

Agenda == [validate |-> <<"host", "review", "sandbox", "evidence", "quiet", "build", "install",
                          "boot", "report", "stability">>,
           prepare |-> <<"host", "review", "build", "install", "boot", "judge", "boot", "judge",
                         "build", "install", "boot", "judge">>]

Init ==
  /\ SInit
  /\ mode \in Modes /\ agenda = Agenda[mode]
  /\ source \in Version /\ built = 0
  /\ pinned = 0 /\ before = 0 /\ unchanged = FALSE
  /\ boots = 0 /\ logins = [b \in 2..3 |-> "none"] /\ rebuilt = 0 /\ outcome = "running"

-----------------------------------------------------------------------------
(* Stages.                                                                  *)

At(stage) == agenda # <<>> /\ Head(agenda) = stage
Proceed == agenda' = Tail(agenda) /\ UNCHANGED outcome

\* A result before the end; what was reviewed is looked at once more.
Stop(why) ==
  /\ outcome' = why
  /\ agenda' = IF mode = "validate" /\ pinned \in Reviewed THEN <<"stability">> ELSE <<>>
Pass(good, why) == IF good THEN Proceed ELSE Stop(why)

kept == <<mode, before, unchanged, built, boots, logins, rebuilt, packageVars, smokeVars>>

\* _phase2a5_failure_status and the handlers around it: how an error is
\* reported that leaves the workflow.
Raised == {"STORAGE", "FAIL", "SOURCE_READ_BLOCKED", "PACKAGE_PROTECTION_BLOCKED", "RENDERER_BLOCKED"}
\* One of a build: "validate" has a report of its own, which tells few apart
\* and is overruled when the profile is no longer intact.
BuildErrors == IF mode = "validate" THEN {"STORAGE", "PATCHED_SHELL_BLOCKED"} ELSE Raised

\* detect_windows_host_context and run_localappdata_canary; "validate" also
\* resolves its profile here.
HostStage ==
  /\ At("host")
  /\ \E h \in Hosts, owned \in BOOLEAN :
       CASE h.packaged # "no" \/ h.virtual = "unknown" -> Stop("HOST_CONTEXT_BLOCKED")
         [] h.packaged = "no" /\ h.virtual = "yes" -> Stop("FILESYSTEM_VIRTUALIZED")
         [] OTHER -> Pass(mode = "prepare" \/ owned, "FAIL")
  /\ UNCHANGED <<pinned, kept, quiesceVars>>

\* _source_identity, the registry, the real Codex; "prepare" makes its profile
\* after them.
Review ==
  /\ At("review")
  /\ pinned' = source
  /\ \/ source \in Reviewed /\ Proceed
     \/ /\ source \in Reviewed
        /\ outcome' \in {"FAIL"} \cup (IF mode = "prepare" THEN {"STORAGE"} ELSE {})
        /\ agenda' = IF mode = "validate" THEN <<"stability">> ELSE <<>>
     \/ /\ source \notin Reviewed /\ agenda' = <<>>
        /\ outcome' = IF source = 0 THEN "FAIL" ELSE "SOURCE_REVIEW_REQUIRED"
  /\ UNCHANGED <<kept, quiesceVars>>

\* run_phase2a5_sandbox_validation, from its first fingerprint to its last.
SandboxStage ==
  /\ At("sandbox")
  /\ before' = source
  /\ Proceed \/ \E why \in Raised : Stop(why)
  /\ UNCHANGED <<mode, pinned, unchanged, built, boots, logins, rebuilt, packageVars, smokeVars, quiesceVars>>
Verdicts == {"PASS", "BLOCKED_CHROMIUM_SANDBOX", "CRASHED"}
EvidenceStage ==
  /\ At("evidence")
  /\ unchanged' = (source = before)
  /\ \E a, b, c \in Verdicts, granted \in BOOLEAN, root \in {"removed", "left", "virtual"} :
       Pass(source # 0 /\ MayBuildShell(a, b, c, granted, root),
            IF source = 0 THEN "FAIL" ELSE SandboxStatus(a, b, c, granted, root))
  /\ UNCHANGED <<mode, pinned, before, built, boots, logins, rebuilt, packageVars, smokeVars, quiesceVars>>

\* _run_external_patched_shell: no Go toolchain, or no root for the shell;
\* otherwise the quiescence before the build begins.
QuietRefused ==
  /\ At("quiet") /\ qpc = "off"
  /\ \E why \in {"TOOLCHAIN_BLOCKED"} \cup BuildErrors : Stop(why)
  /\ UNCHANGED <<pinned, kept, quiesceVars>>
QuietBegins ==
  /\ At("quiet") /\ Call
  /\ UNCHANGED <<flowVars, packageVars, smokeVars>>
QuietLoop ==
  /\ At("quiet") /\ (FirstRead \/ AskToQuit \/ Scan \/ Terminate \/ TurnOver)
  /\ UNCHANGED <<flowVars, packageVars, smokeVars>>
QuietEnds ==
  /\ At("quiet") /\ qpc = "done"
  /\ IF verdict = "QUIESCENT" THEN Proceed
     ELSE \E why \in {"BUSY", "PATCHED_SHELL_BLOCKED"} : Stop(why)
  /\ LoopReturns
  /\ UNCHANGED <<pinned, kept, procVars, blind>>

\* build_windows_desktop: the package still has the reviewed fingerprints, Go
\* and the archive tool are there.
BuildGate ==
  /\ At("build")
  /\ (source = pinned /\ Proceed) \/ \E why \in BuildErrors : Stop(why)
  /\ UNCHANGED <<pinned, kept, quiesceVars>>

\* The mirror and the installation; "prepare" looks at its profile after a
\* rebuild.  Only "validate" tells a busy shell and a denied rename apart.
Install ==
  /\ At("install")
  /\ \/ /\ source # 0 /\ Holding(image) = {}
        /\ built' = source /\ rebuilt' = boots
        /\ Proceed \/ (mode = "prepare" /\ boots > 0 /\ Stop("PATCHED_SHELL_BLOCKED"))
     \/ /\ Owned(image) # {} /\ mode = "validate" /\ Stop("BUSY")
        /\ UNCHANGED <<built, rebuilt>>
     \/ /\ \E why \in BuildErrors \cup (IF mode = "validate" THEN {"RENAME_BLOCKED"} ELSE {}) :
            Stop(why)
        /\ UNCHANGED <<built, rebuilt>>
  /\ UNCHANGED <<mode, pinned, before, unchanged, boots, logins, packageVars, smokeVars, quiesceVars>>

-----------------------------------------------------------------------------
(* Boots.                                                                   *)

(* Seeded fault: no boot gives up on a login page. *)
BootLenient ==
  /\ At("boot") /\ qpc = "off"
  /\ Launch(mode = "prepare", FALSE)
  /\ boots' = boots + 1 /\ Proceed
  /\ UNCHANGED <<mode, pinned, before, unchanged, built, logins, rebuilt, packageVars>>

\* Only the first boot of "prepare" waits for the user.
BootBegins ==
  /\ At("boot") /\ qpc = "off"
  /\ Launch(mode = "prepare", mode = "prepare" /\ boots > 0)
  /\ boots' = boots + 1 /\ Proceed
  /\ UNCHANGED <<mode, pinned, before, unchanged, built, logins, rebuilt, packageVars>>

Booting == Boot /\ UNCHANGED <<flowVars, packageVars>>

\* A boot has returned: of what it kept, the result is read and let go.
NextBoot ==
  /\ logins' = [b \in 2..3 |-> IF b = boots THEN login ELSE logins[b]]
  /\ spc' = "off" /\ seenOf' = Unseen /\ status' = "none" /\ login' = "none"
  /\ asked' = [prepare |-> FALSE, strict |-> FALSE]
  /\ UNCHANGED <<tracked, baseline, ui, session, quiesceVars>>

\* prepare_desktop_auth reads the last state and the shutdown, not the status.
LoginStatus ==
  CASE boots = 1 -> "DESKTOP_AUTH_REQUIRED"
    [] boots = 2 -> "AUTH_NOT_PERSISTED"
    [] OTHER -> "AUTH_LOST_AFTER_REBUILD"
JudgeBoot ==
  /\ At("judge") /\ spc = "over"
  /\ \E intact \in BOOLEAN :
       IF AuthOf(seenOf.state) # "AUTHENTICATED" THEN Stop(LoginStatus)
       ELSE IF seenOf.quit # "exited" \/ ~intact THEN Stop("PATCHED_SHELL_BLOCKED")
       ELSE IF Tail(agenda) = <<>> THEN Stop("DESKTOP_AUTH_PREPARED") ELSE Proceed
  /\ NextBoot
  /\ UNCHANGED <<mode, pinned, before, unchanged, built, boots, rebuilt, packageVars>>

\* The report on the patched shell; ci_verified names the pass.
Report ==
  /\ At("report") /\ spc = "over"
  /\ \E intact, ci \in BOOLEAN :
       outcome' = IF ~intact THEN "PATCHED_SHELL_BLOCKED"
                  ELSE IF status = "PASS"
                  THEN IF ~unchanged THEN "PATCHED_SHELL_BLOCKED"
                       ELSE IF ci THEN "FULL_PASS" ELSE "DIRECT_HOST_PASS"
                  ELSE IF status = "AUTH_REQUIRED" THEN "DESKTOP_AUTH_REQUIRED"
                  ELSE IF status = "BUSY" THEN "BUSY" ELSE "PATCHED_SHELL_BLOCKED"
  /\ agenda' = Tail(agenda)
  /\ NextBoot
  /\ UNCHANGED <<mode, pinned, before, unchanged, built, boots, rebuilt, packageVars>>

(* Seeded fault: the result stands whatever became of the source. *)
StabilityAssumed ==
  /\ At("stability")
  /\ agenda' = <<>> /\ UNCHANGED outcome
  /\ UNCHANGED <<pinned, kept, quiesceVars>>

\* _source_stability overrides every result of a reviewed source.
Stability ==
  /\ At("stability")
  /\ agenda' = <<>>
  /\ outcome' = IF source = pinned THEN outcome ELSE "SOURCE_CHANGED"
  /\ UNCHANGED <<pinned, kept, quiesceVars>>

-----------------------------------------------------------------------------
\* The official package moves on, or goes: what happens to it counts from the
\* next stage that reads it.
Update ==
  /\ source # 0
  /\ \E stage \in {"review", "sandbox", "evidence", "build", "install", "stability"} : At(stage)
  /\ source' \in {v \in Version : v > source} \cup {0}
  /\ UNCHANGED <<flowVars, smokeVars, quiesceVars>>

\* No other stage reads the processes.
Beside == /\ spc \notin {"off", "over"} \/ At("quiet") \/ At("install") \/ At("boot")
          /\ Around /\ UNCHANGED <<flowVars, packageVars>>

Tool ==
  \/ HostStage \/ Review \/ SandboxStage \/ EvidenceStage
  \/ QuietRefused \/ QuietBegins \/ QuietLoop \/ QuietEnds \/ BuildGate \/ Install
  \/ BootBegins \/ Booting \/ JudgeBoot \/ Report \/ Stability

Next == Tool \/ Update \/ Beside

\* The tool runs on once it was started; the desktop, its user and the store
\* owe nothing.
Spec == Init /\ [][Next]_vars /\ WF_vars(Tool)

-----------------------------------------------------------------------------
(* Properties.                                                              *)

\* A pass is only ever claimed for a shell that was built from the very
\* package that was reviewed, though the package may be updated between the
\* review, the sandbox probes, the build's own fingerprints, the mirror and
\* the report (_source_stability, phase2a5_host_validation.py:320-356).
PassIsReviewed ==
  agenda = <<>> /\ outcome \in {"DIRECT_HOST_PASS", "FULL_PASS"} =>
    built = pinned /\ pinned \in Reviewed

\* DESKTOP_AUTH_PREPARED: the login is on disk, and in the two boots after the
\* first, the second of them in a shell that was rebuilt between them, nobody
\* logged in at a page that had been graded AUTH_REQUIRED: the login was found
\* on disk, or the page had been read as something else (prepare_desktop_auth,
\* phase2a5_host_validation.py:1945-2011; fail_if_auth_required,
\* smoke.py:1967-1973).
PreparedMeansPersisted ==
  outcome = "DESKTOP_AUTH_PREPARED" =>
    session = "disk" /\ rebuilt = 2 /\ \A b \in 2..3 : logins[b] \in {"disk", "hand", "masked"}

\* A boot after the first in which a reading said AUTH_REQUIRED is not called
\* persistent: "Boot 2 reuses the same build and all three persistent roots
\* without manual interaction.  `AUTH_REQUIRED` returns
\* `ROUTER_DESKTOP_AUTH_NOT_PERSISTED`"
\* (docs/WINDOWS-PHASE2A5-HOST-VALIDATION.md:405-411).  The code stops a boot
\* by the gate's grade alone (smoke.py:1388-1395).
AuthRequiredNotPersisted ==
  outcome = "DESKTOP_AUTH_PREPARED" => \A b \in 2..3 : logins[b] \notin {"masked", "asked"}

\* Every workflow comes to a result, whatever the desktop, its user, the
\* processes and the store do.
ValidationEnds == <>[](agenda = <<>>)
=============================================================================
