----------------------------- MODULE Installers ----------------------------
(***************************************************************************)
(* Both installers, of which a machine runs the one of its platform, and   *)
(* what they promise: a build is replaced, never lost (Replacement).       *)
(***************************************************************************)
EXTENDS DesktopInstall, MacInstall

VARIABLE platform   \* what the tool runs on

windowsVars == <<installVars, quiesceVars>>
vars == <<platform, windowsVars, macVars>>

\* One of the two has nothing to do.
WindowsIdle == pc = "off" /\ attempt = 0 /\ trouble = 0 /\ dest = 0 /\ side = {} /\ moved = 0
               /\ before = 0 /\ stage = NoStage /\ made = <<>> /\ free = 0 /\ short = FALSE
               /\ token = 0 /\ result = "none"
               /\ pkg = (CHOOSE p \in DOMAIN Packages : TRUE) /\ req = (CHOOSE r \in DOMAIN Requests : TRUE)
               /\ image = Nothing
MacIdle == /\ mac = (CHOOSE m \in DOMAIN MacSources : TRUE) /\ flags = (CHOOSE r \in DOMAIN MacRequests : TRUE)
           /\ mpc = "off" /\ app = 0 /\ helper = 0 /\ appBackup = 0 /\ helperBackup = 0
           /\ appFailed = 0 /\ helperFailed = 0 /\ failedAt = "none" /\ broken = FALSE
           /\ faultsLeft = 0 /\ mresult = "none"

Init ==
  /\ QInit
  /\ \/ platform = "windows" /\ DInit /\ MacIdle
     \/ platform = "macos" /\ MInit /\ WindowsIdle

Next ==
  \/ platform = "windows" /\ DNext /\ UNCHANGED <<platform, macVars>>
  \/ platform = "macos" /\ MNext /\ UNCHANGED <<platform, windowsVars>>

\* The tool runs on once it was started; nothing else has to happen.
Spec == Init /\ [][Next]_vars /\ WF_vars(Tool /\ UNCHANGED <<platform, macVars>>)

-----------------------------------------------------------------------------
(* Properties.                                                              *)

\* A failed attempt leaves the destination as it found it (_atomic_install's
\* restore, patch_app_windows.py:1617-1637); only a failed restore is excused.
FailureKeepsShell ==
  result \in {"BUSY", "RENAME_BLOCKED", "STORAGE", "FAILED"} => dest = before

\* What the preflight has no term for: what the extraction takes beyond twice
\* the archive, what the patched archive has more, which is on the volume
\* twice, and the runtime with its copy of codex.exe.
Overrun ==
  LET asar == AsarBytes(Required(Official.src.files))
      over == Official.extracted - Extracted(asar)
  IN  (IF over > 0 THEN over ELSE 0) + 2 * Official.growth + RuntimeBytes

\* What it weighs and a build does not need: the headroom, and the build in
\* place, which is renamed and not copied.
Slack ==
  LET fs == Required(Official.src.files)
      base == BeforeHeadroom(Plan("walk", Official.src.files), SizeOf(before), AsarBytes(fs))
  IN  SizeOf(before) + Headroom(base)

\* A build that the preflight let pass meets a full disk only if what is not
\* weighed is more than the build in place and the headroom together, however
\* many files, stages and earlier attempts there are (mirror.py:732-831).
ExhaustedByUnweighed == short => Overrun > Slack

\* Any build in place was patched everywhere, and starts: wherever the fuse
\* validates the archive, the digest is the one of the patched archive.
InstalledShellWorks ==
  dest \in DOMAIN made =>
    /\ made[dest].written = Assets \cup {"bootstrap"}
    /\ made[dest].asar = "patched"
    /\ Boots(Official.bins, made[dest].digests, made[dest].asar)

\* load_or_create_token: "rebuilds keep renderer/mux agreement".  However
\* attempts end, a persistent build in place carries the token its mux will
\* read; a disposable one has a copy of its own (patch_app_windows.py:2033).
RendererMuxAgree ==
  dest \in DOMAIN made /\ Persistent => made[dest].token = token

\* Every attempt comes to an end, whatever runs under the root.
AttemptEnds == (pc \notin {"idle", "off"}) ~> (pc = "done")

\* On either platform a build that was there is never lost without another in
\* its place, through failures, deaths of the tool and retries.
Promise == INSTANCE Replacement WITH
  Builds <- 1 .. (MaxAttempts + 2),
  shown <- IF platform = "macos" THEN app ELSE dest,
  kept <- IF platform = "macos" THEN {appBackup, appFailed} \ {0} ELSE side
NeverLost == Promise!Spec
=============================================================================
