------------------------------- MODULE Sandbox ------------------------------
(***************************************************************************)
(* What the launch probes of the unmodified mirror say (scripts/windows/   *)
(* smoke.py).  A probe is a record: lines is the set of kinds of fatal     *)
(* lines in its log, running whether the shell still ran at the end,       *)
(* window whether it showed one, and ownKill whether the only evidence     *)
(* against the sandbox is the exit code of the probe's own termination.    *)
(***************************************************************************)
EXTENDS FiniteSets

LogLine == {"chromium", "updater", "identity", "instance", "native", "resource", "crash"}

\* _chromium_sandbox_evidence, less what classify_probe_output takes back.
SandboxEvidence(probe) ==
  "chromium" \in probe.lines /\ ~(probe.running /\ probe.ownKill)

\* classify_probe_output: the sandbox first, then life, then the other lines.
Classified(probe) ==
  CASE SandboxEvidence(probe) -> "BLOCKED_CHROMIUM_SANDBOX"
    [] ~SandboxEvidence(probe)
         /\ (probe.running \/ (probe.window /\ probe.lines \cap {"crash", "updater", "identity"} = {}))
         -> "PASS"
    [] OTHER -> IF "updater" \in probe.lines THEN "BLOCKED_UPDATER_IDENTITY"
                ELSE IF "identity" \in probe.lines THEN "BLOCKED_OTHER_IDENTITY"
                ELSE IF probe.lines \cap {"instance", "native", "resource"} # {} THEN "BLOCKED"
                ELSE "CRASHED"

\* The acts of run_phase2a5_sandbox_validation: A is the shell as it is, B
\* without the GPU sandbox, C with the grants; B and C run only when A was
\* blocked by the sandbox.  root is what became of the probe root.
\* native_evidence_is_usable, and the status in the order of its tests.
EvidenceUsable(root) == root = "removed"
SandboxStatus(a, b, c, granted, root) ==
  LET blocked == a = "BLOCKED_CHROMIUM_SANDBOX"
  IN  CASE root = "virtual" -> "FILESYSTEM_VIRTUALIZED"
        [] root # "virtual" /\ ~EvidenceUsable(root) -> "FAIL"
        [] EvidenceUsable(root) /\ a = "PASS" -> "DIRECT_HOST_PASS"
        [] OTHER -> IF blocked /\ b = "PASS"
                    THEN IF c = "PASS" /\ granted THEN "ACL_FIX_CONFIRMED"
                         ELSE "GPU_SANDBOX_REGRESSION"
                    ELSE "FAIL"

\* production_acl_strategy.
AclStrategy(a, b, c, granted, root) ==
  CASE root = "virtual" -> "UNRESOLVED"
    [] root # "virtual" /\ a = "PASS" -> "NONE"
    [] OTHER -> IF a = "BLOCKED_CHROMIUM_SANDBOX" /\ b = "PASS" /\ c = "PASS" /\ granted
                THEN "APPCONTAINER_RX" ELSE "UNRESOLVED"

\* What run_phase2a5_host_validation asks of it before a shell is built.
MayBuildShell(a, b, c, granted, root) ==
  /\ SandboxStatus(a, b, c, granted, root) = "DIRECT_HOST_PASS"
  /\ EvidenceUsable(root)
  /\ AclStrategy(a, b, c, granted, root) = "NONE"
=============================================================================
