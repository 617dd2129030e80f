------------------------------- MODULE Payload ------------------------------
(***************************************************************************)
(* What is changed in the mirrored binaries (scripts/windows/integrity.py, *)
(* fuses.py, acl.py).  A binary is a record: fuse is the state of Electron's*)
(* EnableEmbeddedAsarIntegrityValidation byte ("none": no fuse wire at all, *)
(* "short": a wire without that byte, "bad": a wire that cannot be read),   *)
(* res its INTEGRITY/ELECTRONASAR resource, host whether it is the shell.   *)
(***************************************************************************)
EXTENDS FiniteSets

FuseState == {"none", "short", "off", "on", "bad"}
Resource == {"none", "good", "bad"}

\* scan_fuse_carriers: every mirrored binary with a fuse wire.
Carriers(bins) == {b \in bins : b.fuse # "none"}
Observed(bins) == Carriers(bins) \cup {b \in bins : b.host}

\* _resource_asar_digest, read_fuses: what cannot be parsed is an error of the
\* whole plan.
Unreadable(bins) ==
  (\E b \in Carriers(bins) : b.fuse = "bad") \/ (\E b \in Observed(bins) : b.res = "bad")

ValidationOn(bins) == \E b \in Carriers(bins) : b.fuse = "on"
Resources(bins) == {b \in Observed(bins) : b.res = "good"}

\* resolve_windows_asar_integrity, in the order of its returns.
IntegrityState(bins) ==
  CASE Unreadable(bins) -> "UNRESOLVED"
    [] ~Unreadable(bins) /\ ValidationOn(bins) /\ Resources(bins) # {} -> "FUSE_PRESENT_RESOURCE_PRESENT"
    [] ~Unreadable(bins) /\ ValidationOn(bins) /\ Resources(bins) = {} -> "FUSE_PRESENT_RESOURCE_MISSING"
    [] ~Unreadable(bins) /\ ~ValidationOn(bins) /\ Carriers(bins) # {} -> "FUSE_PRESENT_ASAR_VALIDATION_DISABLED"
    [] OTHER -> IF Resources(bins) # {} THEN "RESOURCE_PRESENT_UPDATE_REQUIRED"
                ELSE "RESOURCE_ABSENT_NO_VALIDATION_METADATA"

IntegrityResolved(bins) ==
  IntegrityState(bins) \notin {"UNRESOLVED", "FUSE_PRESENT_RESOURCE_MISSING"}

(* Seeded fault: only the host executable is given the new digest. *)
SealedHostOnly(bins, digests, asar) ==
  [b \in bins |-> IF b \in Resources(bins) /\ b.host THEN asar ELSE digests[b]]

\* apply_windows_asar_integrity: the digest of the repacked archive goes into
\* every resource that was found, wherever the fuse is.
Sealed(bins, digests, asar) ==
  [b \in bins |-> IF b \in Resources(bins) THEN asar ELSE digests[b]]

\* Electron at start: with validation on, the host's (or carrier's) resource
\* must hold the digest of the archive beside it.
Boots(bins, digests, asar) ==
  ValidationOn(bins) =>
    /\ Resources(bins) # {}
    /\ \A b \in Resources(bins) : digests[b] = asar

-----------------------------------------------------------------------------
(* The payload's access list: [owner, aces, readable].                      *)

Wanted == {"APP_PACKAGES_RX", "RESTRICTED_PACKAGES_RX"}

\* _existing_aces_preserved, which an unreadable list does not refute.
AcesKept(before, after) ==
  (before.readable /\ after.readable) => before.aces \subseteq after.aces

\* prepare_windows_electron_payload_acl: a grant counts only when it reads
\* back, with the owner and the former entries still there.
GrantVerified(before, after, succeeded) ==
  /\ succeeded /\ after.readable
  /\ Wanted \subseteq after.aces
  /\ before.owner = after.owner
  /\ AcesKept(before, after)
=============================================================================
