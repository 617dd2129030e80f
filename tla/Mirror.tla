------------------------------- MODULE Mirror -------------------------------
(***************************************************************************)
(* The mirror of the official desktop (scripts/windows/mirror.py): one     *)
(* plan, made by walking the package or from its block map, is what the    *)
(* storage preflight weighs and what is copied.  A file is a record; its   *)
(* path is reduced to what the classification and the accounting read.     *)
(***************************************************************************)
EXTENDS Integers, FiniteSets, FiniteSetsExt

CONSTANTS
  MinHeadroom, MaxHeadroom  \* MIN/MAX_STORAGE_HEADROOM_BYTES, in the unit of size

ASSUME HeadroomAssumption ==
  MinHeadroom \in Nat /\ MaxHeadroom \in Nat /\ MinHeadroom =< MaxHeadroom

\* role is what classify_source_path and the accounting tell apart: the shell
\* executable, app.asar, what lies in app.asar.unpacked, a protected runtime
\* component, anything else.
Role == {"shell", "asar", "unpacked", "runtime", "other"}

\* should_exclude / classify_source_path: only the protected runtime
\* components under resources may be left out.
Optional(f) == f.role = "runtime"
Required(fs) == {f \in fs : ~Optional(f)}

Bytes(fs) == FoldSet(LAMBDA f, n : n + f.size, 0, fs)

\* A plan and the ways planning ends without one.
Plan(how, fs) == [kind |-> "plan", strategy |-> how, files |-> Required(fs),
                  left |-> {f \in fs : Optional(f)}]
Stop(why) == [kind |-> why, strategy |-> "none", files |-> {}, left |-> {}]

RequiredBytes(plan) == Bytes(plan.files)
UnpackedBytes(plan) == Bytes({f \in plan.files : f.role = "unpacked"})

\* _source_file_size and _required_copy_error: why a required file could not
\* be inspected or copied.
FileStop == [full |-> "storage", denied |-> "packaging", io |-> "io"]

\* Listing the files either way: a required link, or a required file that
\* cannot be inspected, stops the plan; the first one met decides.
Listing(how, fs) ==
  LET links == {f \in Required(fs) : f.link}
      hard == {f \in Required(fs) : ~f.link /\ f.stat # "ok"}
  IN  IF links \cup hard = {} THEN {Plan(how, fs)}
      ELSE {Stop("packaging") : f \in links} \cup {Stop(FileStop[f.stat]) : f \in hard}

\* plan_mirror_directory: a directory that cannot be listed is an error of
\* its own, the only one that the block map may stand in for.
WalkPlans(src) ==
  IF src.walk = "ok" THEN Listing("walk", src.files)
  ELSE {Stop(IF src.walk = "full" THEN "storage" ELSE "enumeration")}

\* plan_mirror_from_block_map: only files the map names, none outside the
\* package, and at least one of the app.
BlockMapPlans(src) ==
  IF src.map # "ok" \/ src.files = {} THEN {Stop("packaging")}
  ELSE Listing("appx-block-map", src.files)

\* plan_mirror_source: what the fallback cannot do is a packaging error, bar
\* a full disk.
SourcePlans(src) ==
  UNION {IF w.kind # "enumeration" THEN {w}
         ELSE {IF b.kind \in {"plan", "storage"} THEN b ELSE Stop("packaging")
                 : b \in BlockMapPlans(src)}
           : w \in WalkPlans(src)}

-----------------------------------------------------------------------------
(* Capacity.                                                                *)

Clamp(n) == IF n < MinHeadroom THEN MinHeadroom
            ELSE IF n > MaxHeadroom THEN MaxHeadroom ELSE n

\* What a build is taken to keep on the volume beside the mirror and the
\* repacked archive: the extracted archive (ASAR_EXTRACTED_SIZE_MULTIPLIER
\* times its size) and the generated unpacked tree.
Extracted(asar) == 2 * asar
WorkingSet(plan, asar) == Extracted(asar) + UnpackedBytes(plan)

\* before_headroom: the mirror, the present destination, the working set and
\* the repacked archive.
BeforeHeadroom(plan, existing, asar) ==
  RequiredBytes(plan) + existing + WorkingSet(plan, asar) + asar

Headroom(base) == Clamp(base \div 10)

(* Seeded fault: what is extracted and unpacked beside the mirror is not weighed. *)
EstimateOfMirror(plan, existing, asar) ==
  LET base == RequiredBytes(plan) + existing + asar
  IN  base + Headroom(base)

\* storage_preflight: with a tenth of it all, within bounds, as headroom.
Estimate(plan, existing, asar) ==
  LET base == BeforeHeadroom(plan, existing, asar)
  IN  base + Headroom(base)

\* require_storage_capacity: what could not be measured does not pass.
CapacityProven(free, estimate, measured) == measured /\ free >= estimate

-----------------------------------------------------------------------------
(* Checking.                                                                *)

\* verify_desktop_mirror: the shell executable and the archive are there, and
\* so is every known asset that the source has.
Verified(src, copied) ==
  /\ \E f \in src.files : f.role = "shell" /\ f \in copied
  /\ \E f \in copied : f.role = "asar"
  /\ \A f \in src.files : f.known => f \in copied

\* derive_unpack_directories and derive_unpack_files: what the repacked
\* archive must leave unpacked, taken from the mirrored tree.
UnpackRoots(copied) == {f.name : f \in {g \in copied : g.role = "unpacked"}}
=============================================================================
