----------------------------- MODULE Discovery -----------------------------
(***************************************************************************)
(* What the Windows tooling picks (scripts/windows/discovery.py): the      *)
(* official source, the shell to start in it and the real Codex binary.    *)
(***************************************************************************)
EXTENDS Integers, FiniteSets

Shell == {"ChatGPT", "Codex"}

-----------------------------------------------------------------------------
(* Shells.  s.present are the executables in the app's root, s.declared the *)
(* ones its manifest names, s.own the one the source was found by, s.exact  *)
(* whether it is the 26.820.7780.0 package.  The empty set is an error.     *)

\* inventory_desktop_executables, select_authoritative_desktop_candidate.
AuthoritativeShell(s) ==
  LET declared == s.present \cap s.declared
  IN  CASE s.exact -> {"ChatGPT"} \cap declared
        [] ~s.exact /\ Cardinality(declared) = 1 -> declared
        [] ~s.exact /\ Cardinality(declared) # 1 /\ s.own \in s.present -> {s.own}
        [] OTHER -> IF Cardinality(s.present) = 1 THEN s.present ELSE {}

\* _resolve_launch_executable: a requested shell only has to be there.
LaunchShell(s, requested) ==
  IF requested = "none" THEN AuthoritativeShell(s) ELSE {requested} \cap s.present

-----------------------------------------------------------------------------
(* Sources.  Where a shell may lie is a record [place, name, layout], place *)
(* "store" (WindowsApps), "router" (a generated shell) or "other", layout   *)
(* whether app.asar can be read beside it.                                  *)

\* select_running_process: a WindowsApps path first, then ChatGPT.exe.
ProcessRank(p) == (IF p.place = "store" THEN 2 ELSE 0) + (IF p.name = "ChatGPT" THEN 1 ELSE 0)
Foremost(found) == {p \in found : \A q \in found : ProcessRank(q) =< ProcessRank(p)}

\* _source_from_process_candidates: a generated shell is never a source, and
\* only the foremost row is tried.
FromProcesses(found) ==
  {p \in Foremost({q \in found : q.place # "router"}) : p.layout}

\* discover_desktop_source on a machine m: the directory it was told (which
\* nothing stands in for), the running app, the registered packages, the Codex
\* one first, the conventional directories.
Sources(m) ==
  LET readable == {q \in m.packages : q.layout}
      codex == {q \in readable : q.name = "Codex"}
  IN  CASE m.told # {} -> {q \in m.told : q.layout}
        [] m.told = {} /\ FromProcesses(m.running) # {} -> FromProcesses(m.running)
        [] OTHER -> IF codex # {} THEN codex
                    ELSE IF readable # {} THEN readable
                    ELSE {q \in m.conventional : q.layout}

-----------------------------------------------------------------------------
(* Binaries.  A candidate is [store, native, valid, openai, time].          *)

\* discover_real_codex: native, outside WindowsApps, and of those the valid
\* signature, the signer and the age decide, in this order.
CodexRank(c, maxTime) ==
  ((IF c.valid THEN 2 ELSE 0) + (IF c.openai THEN 1 ELSE 0)) * (maxTime + 1) + c.time
RealCodex(candidates, maxTime) ==
  LET usable == {c \in candidates : c.native /\ ~c.store}
  IN  {c \in usable : \A d \in usable : CodexRank(d, maxTime) =< CodexRank(c, maxTime)}
=============================================================================
