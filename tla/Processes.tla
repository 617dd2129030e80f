----------------------------- MODULE Processes -----------------------------
(***************************************************************************)
(* What the Windows tooling knows of processes (scripts/windows/           *)
(* discovery.py): a snapshot gives every live pid a parent and, when the   *)
(* path can be read, an image; ownership and clean-up targets are computed *)
(* from one snapshot.  Images are classes of paths: "shell" is inside the  *)
(* Router's root, "sealed" is inside it with a path that cannot be read,   *)
(* "browser" is any foreign program, "store" is inside WindowsApps.        *)
(***************************************************************************)
EXTENDS Naturals, FiniteSets

CONSTANTS
  Pid,      \* the process ids the model starts processes under
  Parent,   \* Parent[p]: who starts p; NoPid for what the user starts
  Live      \* the images that the model lets run

CONSTANT NoPid

ASSUME ParentAssumption == /\ IsFiniteSet(Pid)
                           /\ NoPid \notin Pid
                           /\ Parent \in [Pid -> Pid \cup {NoPid}]
                           /\ Live \subseteq {"shell", "sealed", "browser", "store"}

Image == Live \cup {"none"}

\* A snapshot: the image of every pid, "none" for those that do not run.
Snapshot == [Pid -> Image]
Nothing == [p \in Pid |-> "none"]
Running(snap) == {p \in Pid : snap[p] # "none"}

\* inventory_processes_under_root: readable path inside the root, only that.
Owned(snap) == {p \in Pid : snap[p] = "shell"}

\* What keeps files of the root open, whether its path can be read or not.
Holding(snap) == {p \in Pid : snap[p] \in {"shell", "sealed"}}

\* The least set that contains seed and all that grow adds to it.
Closure(seed, grow(_)) ==
  LET closed == {S \in SUBSET Pid : seed \subseteq S /\ grow(S) \subseteq S}
  IN  {p \in Pid : \A S \in closed : p \in S}

\* attributable_process_pids: not in the baseline, and started by a tracked
\* process or running from the mirrored root.
Attributed(root, baseline, snap, seed) ==
  Closure({root} \cup seed,
          LAMBDA S : {p \in Running(snap) \ baseline :
                        Parent[p] \in S \/ snap[p] = "shell"})

\* The clean-up targets of terminate_attributed_processes: tracked, still in
\* the snapshot, with a readable path that the Router owns.
Targets(tracked, snap) == {p \in tracked : snap[p] = "shell"}

\* "sorted(requested, key=depth, reverse=True)": the deepest among the known
\* rows first, so that no parent is left to start a terminated child again.  A
\* process starts after its parent, so that every chain of parents ends.
Deepest(todo, known) ==
  LET depth[p \in Pid] == IF Parent[p] \in known THEN 1 + depth[Parent[p]] ELSE 0
  IN  {p \in todo : \A q \in todo : depth[q] =< depth[p]}
=============================================================================
