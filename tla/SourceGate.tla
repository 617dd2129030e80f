----------------------------- MODULE SourceGate ----------------------------
(***************************************************************************)
(* The source-review gate (scripts/windows/reviewed_sources.py and         *)
(* compatibility.py): an official package may be patched when one record   *)
(* of the registry holds every fingerprint that was read from it.          *)
(***************************************************************************)
EXTENDS Naturals, Sequences, FiniteSets

\* What identifies a package, and Unread for what could not be read of it.
Field == {"package_name", "package_full_name", "package_version", "architecture",
          "app_file_version", "app_asar_sha256", "app_asar_header_sha256"}
Unread == "unread"

Contract == {"windows-26.820", "windows-26.825", "windows-26.901",
             "electron-6662", "electron-original"}

\* load_reviewed_sources: a registry that is complete and names no package twice.
RegistryLoads(registry) ==
  /\ \A i \in DOMAIN registry : registry[i].complete
  /\ \A i, j \in DOMAIN registry : registry[i].id = registry[j].id => i = j

\* reviewed_source_matches_identity: every fingerprint, and none unread.
MatchesIdentity(id, record) ==
  \A f \in Field : /\ id[f] # Unread /\ record.id[f] # Unread
                   /\ id[f] = record.id[f]

\* find_reviewed_source: the matching records; more than one is an error.
ReviewedRecords(id, registry) ==
  {registry[i] : i \in {j \in DOMAIN registry : MatchesIdentity(id, registry[j])}}

\* reviewed_source_is_patchable.
Patchable(id, records) ==
  \E record \in records :
    /\ records = {record}
    /\ MatchesIdentity(id, record)
    /\ record.status = "PATCHABLE"
    /\ record.contract \in Contract
    /\ record.shell = "ChatGPT"
=============================================================================
