-------------------------- MODULE ValidationProofs --------------------------
(***************************************************************************)
(* Proofs about the host workflows (HostValidation): a pass is only ever   *)
(* claimed for a shell that was built from the reviewed package, a boot    *)
(* that passed leaves nothing behind, and a login is only called           *)
(* persistent when it is on disk and no boot after the first was given it  *)
(* at a page graded AUTH_REQUIRED; for every machine, registry, desktop,   *)
(* layout and bound.                                                       *)
(***************************************************************************)
EXTENDS HostValidation, QuiesceProofs

Stages == {"host", "review", "sandbox", "evidence", "quiet", "build", "install", "boot", "report",
           "stability", "judge"}
Order == Agenda.validate
Passes == {"DIRECT_HOST_PASS", "FULL_PASS"}

\* What is left of the agenda is always its end.
InOrder ==
  /\ agenda \in Seq(Stages) /\ Len(agenda) =< 10
  /\ \A i \in 1..Len(agenda) : agenda[i] = Order[10 - Len(agenda) + i]

\* Which facts every stage of "validate" rests on; versions only grow.
Ground ==
  /\ Len(agenda) >= 2 => outcome \notin Passes
  /\ Len(agenda) \in 2..8 => pinned \in Reviewed
  /\ Len(agenda) \in 2..3 => built # 0
  /\ Len(agenda) >= 4 => built = 0
  /\ outcome \in Passes => built # 0 /\ pinned \in Reviewed

Growing ==
  /\ source \in Version \cup {0} /\ pinned \in Version \cup {0} /\ built \in Version \cup {0}
  /\ pinned # 0 => source = 0 \/ pinned =< source
  /\ built # 0 => pinned # 0 /\ pinned =< built /\ (source = 0 \/ built =< source)

Reporting ==
  /\ mode \in {"validate", "prepare"}
  /\ mode = "prepare" => /\ agenda \in Seq(Stages) /\ outcome \notin Passes
                         /\ \A i \in 1..Len(agenda) : agenda[i] # "report"

VInv == Reporting /\ PassIsReviewed /\ (mode = "validate" => InOrder /\ Ground /\ Growing)

-----------------------------------------------------------------------------
(* Positions on the agenda.                                                 *)

LEMMA Places ==
  /\ Order \in Seq(Stages) /\ Len(Order) = 10
  /\ Order[1] = "host" /\ Order[2] = "review" /\ Order[3] = "sandbox" /\ Order[4] = "evidence"
  /\ Order[5] = "quiet" /\ Order[6] = "build" /\ Order[7] = "install" /\ Order[8] = "boot"
  /\ Order[9] = "report" /\ Order[10] = "stability"
<1>1. Order = <<"host", "review", "sandbox", "evidence", "quiet", "build", "install", "boot",
                "report", "stability">>
  BY DEF Order, Agenda
<1>2. Order \in Seq(Stages)
  BY <1>1 DEF Stages
<1> QED
  BY <1>1, <1>2

\* The stage at hand tells how much is left.
LEMMA HeadIs ==
  ASSUME InOrder, agenda # <<>>
  PROVE  /\ Len(agenda) \in 1..10
         /\ Head(agenda) = Order[11 - Len(agenda)]
<1>1. agenda \in Seq(Stages) /\ Len(agenda) =< 10
  BY DEF InOrder
<1>2. Len(agenda) \in Nat /\ Len(agenda) # 0 /\ Head(agenda) = agenda[1]
  BY <1>1
<1>3. Len(agenda) \in 1..10
  <2>1. \A n \in Nat : n # 0 /\ n =< 10 => n \in 1..10
    OBVIOUS
  <2> QED
    BY <1>1, <1>2, <2>1, Zenon
<1>4. 1 \in 1..Len(agenda) /\ 10 - Len(agenda) + 1 = 11 - Len(agenda)
  BY <1>3
<1>5. agenda[1] = Order[10 - Len(agenda) + 1]
  BY <1>4 DEF InOrder
<1> QED
  BY <1>2, <1>3, <1>4, <1>5

LEMMA LeftAt ==
  ASSUME InOrder
  PROVE  /\ At("host") => Len(agenda) = 10
         /\ At("review") => Len(agenda) = 9
         /\ At("sandbox") => Len(agenda) = 8
         /\ At("evidence") => Len(agenda) = 7
         /\ At("quiet") => Len(agenda) = 6
         /\ At("build") => Len(agenda) = 5
         /\ At("install") => Len(agenda) = 4
         /\ At("boot") => Len(agenda) = 3
         /\ At("report") => Len(agenda) = 2
         /\ At("stability") => Len(agenda) = 1
         /\ ~At("judge")
<1> SUFFICES ASSUME agenda # <<>>
             PROVE  /\ Head(agenda) = "host" => Len(agenda) = 10
                    /\ Head(agenda) = "review" => Len(agenda) = 9
                    /\ Head(agenda) = "sandbox" => Len(agenda) = 8
                    /\ Head(agenda) = "evidence" => Len(agenda) = 7
                    /\ Head(agenda) = "quiet" => Len(agenda) = 6
                    /\ Head(agenda) = "build" => Len(agenda) = 5
                    /\ Head(agenda) = "install" => Len(agenda) = 4
                    /\ Head(agenda) = "boot" => Len(agenda) = 3
                    /\ Head(agenda) = "report" => Len(agenda) = 2
                    /\ Head(agenda) = "stability" => Len(agenda) = 1
                    /\ Head(agenda) # "judge"
  BY DEF At
<1>1. CASE Len(agenda) = 10
  <2>1. Head(agenda) = Order[1]
    BY <1>1, HeadIs
  <2> QED
    BY <1>1, <2>1, Places
<1>2. CASE Len(agenda) = 9
  <2>1. Head(agenda) = Order[2]
    BY <1>2, HeadIs
  <2> QED
    BY <1>2, <2>1, Places
<1>3. CASE Len(agenda) = 8
  <2>1. Head(agenda) = Order[3]
    BY <1>3, HeadIs
  <2> QED
    BY <1>3, <2>1, Places
<1>4. CASE Len(agenda) = 7
  <2>1. Head(agenda) = Order[4]
    BY <1>4, HeadIs
  <2> QED
    BY <1>4, <2>1, Places
<1>5. CASE Len(agenda) = 6
  <2>1. Head(agenda) = Order[5]
    BY <1>5, HeadIs
  <2> QED
    BY <1>5, <2>1, Places
<1>6. CASE Len(agenda) = 5
  <2>1. Head(agenda) = Order[6]
    BY <1>6, HeadIs
  <2> QED
    BY <1>6, <2>1, Places
<1>7. CASE Len(agenda) = 4
  <2>1. Head(agenda) = Order[7]
    BY <1>7, HeadIs
  <2> QED
    BY <1>7, <2>1, Places
<1>8. CASE Len(agenda) = 3
  <2>1. Head(agenda) = Order[8]
    BY <1>8, HeadIs
  <2> QED
    BY <1>8, <2>1, Places
<1>9. CASE Len(agenda) = 2
  <2>1. Head(agenda) = Order[9]
    BY <1>9, HeadIs
  <2> QED
    BY <1>9, <2>1, Places
<1>10. CASE Len(agenda) = 1
  <2>1. Head(agenda) = Order[10]
    BY <1>10, HeadIs
  <2> QED
    BY <1>10, <2>1, Places
<1> QED
  BY HeadIs, <1>1, <1>2, <1>3, <1>4, <1>5, <1>6, <1>7, <1>8, <1>9, <1>10

LEMMA TailInOrder ==
  ASSUME InOrder, agenda # <<>>, agenda' = Tail(agenda)
  PROVE  InOrder' /\ Len(agenda') = Len(agenda) - 1
<1>1. Len(agenda') = Len(agenda) - 1 /\ agenda' \in Seq(Stages) /\ Len(agenda) \in Nat
  BY DEF InOrder
<1>2. \A i \in 1..Len(agenda') : agenda'[i] = agenda[i + 1]
  BY DEF InOrder
<1> QED
  BY <1>1, <1>2 DEF InOrder

LEMMA EndInOrder ==
  ASSUME agenda' \in {<<>>, <<"stability">>}
  PROVE  InOrder' /\ Len(agenda') =< 1 /\ Len(agenda') \in Nat
<1>1. CASE agenda' = <<>>
  BY <1>1 DEF InOrder
<1>2. CASE agenda' = <<"stability">>
  <2>1. agenda' \in Seq(Stages) /\ Len(agenda') = 1 /\ agenda'[1] = "stability"
    BY <1>2 DEF Stages
  <2> QED
    BY <2>1, Places DEF InOrder
<1> QED
  BY <1>1, <1>2

LEMMA NoReportLeft ==
  ASSUME agenda \in Seq(Stages), \A i \in 1..Len(agenda) : agenda[i] # "report", agenda # <<>>,
         agenda' \in {Tail(agenda), <<>>, <<"stability">>}
  PROVE  /\ agenda' \in Seq(Stages)
         /\ \A i \in 1..Len(agenda') : agenda'[i] # "report"
<1>1. CASE agenda' = Tail(agenda)
  BY <1>1
<1>2. CASE agenda' = <<>>
  BY <1>2
<1>3. CASE agenda' = <<"stability">>
  BY <1>3 DEF Stages
<1> QED
  BY <1>1, <1>2, <1>3

-----------------------------------------------------------------------------
(* Steps.                                                                   *)

\* What a move on the agenda leaves of it.
LEMMA AgendaMoves ==
  ASSUME VInv, mode' = mode, agenda # <<>>, agenda' \in {Tail(agenda), <<>>, <<"stability">>}
  PROVE  /\ mode = "validate" => /\ InOrder' /\ Len(agenda') \in Nat
                                 /\ agenda' = Tail(agenda) => Len(agenda') = Len(agenda) - 1
                                 /\ agenda' # Tail(agenda) => Len(agenda') =< 1
         /\ mode = "prepare" => /\ agenda' \in Seq(Stages)
                                /\ \A i \in 1..Len(agenda') : agenda'[i] # "report"
<1>1. ASSUME mode = "validate"
      PROVE  /\ InOrder' /\ Len(agenda') \in Nat
             /\ agenda' = Tail(agenda) => Len(agenda') = Len(agenda) - 1
             /\ agenda' # Tail(agenda) => Len(agenda') =< 1
  <2>1. InOrder /\ Len(agenda) \in 1..10
    BY <1>1, HeadIs DEF VInv
  <2>2. CASE agenda' = Tail(agenda)
    <3>1. InOrder' /\ Len(agenda') = Len(agenda) - 1
      BY <2>1, <2>2, TailInOrder
    <3>2. Len(agenda) - 1 \in Nat
      BY <2>1
    <3> QED
      BY <2>2, <3>1, <3>2
  <2>3. CASE agenda' \in {<<>>, <<"stability">>} /\ agenda' # Tail(agenda)
    BY <2>3, EndInOrder
  <2> QED
    BY <2>2, <2>3
<1>2. ASSUME mode = "prepare"
      PROVE  /\ agenda' \in Seq(Stages)
             /\ \A i \in 1..Len(agenda') : agenda'[i] # "report"
  BY <1>2, NoReportLeft DEF VInv, Reporting
<1> QED
  BY <1>1, <1>2

LEMMA Counting ==
  ASSUME NEW n \in 1..10, NEW m \in Nat
  PROVE  /\ m =< 1 => ~(m >= 2) /\ ~(m >= 4) /\ m \notin 2..8 /\ m \notin 2..3
         /\ m = n - 1 => /\ m >= 2 => n >= 2
                         /\ m >= 4 => n >= 4
                         /\ m \in 2..8 /\ n # 9 => n \in 2..8
                         /\ m \in 2..3 /\ n # 4 => n \in 2..3
         /\ n \notin {1, 2} => n >= 2
OBVIOUS

LEMMA Few ==
  ASSUME NEW m \in Nat, m =< 1
  PROVE  m \notin 2..8 /\ m \notin 2..3
OBVIOUS

\* A stage that goes on or stops, and lays no ground itself.
LEMMA MovesOn ==
  ASSUME VInv, agenda # <<>>, UNCHANGED <<mode, pinned, built, source>>,
         \/ /\ agenda' = Tail(agenda) /\ outcome' = outcome
            /\ mode = "validate" => Len(agenda) \notin {1, 2, 4, 9}
         \/ /\ agenda' \in {<<>>, <<"stability">>} /\ outcome' \notin Passes
  PROVE  VInv'
<1>1. Reporting'
  BY AgendaMoves DEF VInv, Reporting
<1>2. ASSUME mode = "validate"
      PROVE  /\ InOrder' /\ Growing' /\ Len(agenda') \in Nat
             /\ Len(agenda) \in 1..10
             /\ agenda' = Tail(agenda) => Len(agenda') = Len(agenda) - 1
             /\ agenda' # Tail(agenda) => Len(agenda') =< 1
  BY <1>2, AgendaMoves, HeadIs DEF VInv, Growing
<1>3. ASSUME mode = "validate" PROVE Ground' /\ PassIsReviewed'
  <2>1. Len(agenda) \in 1..10 /\ Len(agenda') \in Nat
    BY <1>2, <1>3
  <2>2. Ground /\ pinned' = pinned /\ built' = built
    BY <1>3 DEF VInv
  <2>3. CASE /\ agenda' = Tail(agenda) /\ outcome' = outcome
             /\ mode = "validate" => Len(agenda) \notin {1, 2, 4, 9}
    <3>1. Len(agenda) \notin {1, 2, 4, 9} /\ Len(agenda') = Len(agenda) - 1
      BY <1>2, <1>3, <2>3, Zenon
    <3>2. Len(agenda) >= 2 /\ (Len(agenda') \in 2..8 => Len(agenda) \in 2..8)
          /\ (Len(agenda') \in 2..3 => Len(agenda) \in 2..3)
          /\ (Len(agenda') >= 4 => Len(agenda) >= 4)
      BY <2>1, <3>1, Counting
    <3>3. outcome' \notin Passes
      BY <2>2, <2>3, <3>2 DEF Ground
    <3> QED
      BY <2>2, <3>2, <3>3 DEF Ground, PassIsReviewed, Passes
  <2>4. CASE agenda' \in {<<>>, <<"stability">>} /\ outcome' \notin Passes
    <3>1. ~(Len(agenda') >= 2) /\ ~(Len(agenda') >= 4) /\ Len(agenda') \notin 2..8 /\ Len(agenda') \notin 2..3
      BY <2>1, <2>4, EndInOrder, Counting
    <3> QED
      BY <2>4, <3>1 DEF Ground, PassIsReviewed, Passes
  <2> QED
    BY <2>3, <2>4
<1>4. ASSUME mode = "prepare" PROVE PassIsReviewed'
  BY <1>1, <1>4 DEF Reporting, PassIsReviewed, Passes
<1> QED
  BY <1>1, <1>2, <1>3, <1>4 DEF VInv, Reporting

\* Steps that leave the result, the agenda and the package alone.
LEMMA LookersKeep ==
  ASSUME VInv, UNCHANGED <<flowVars, packageVars>>
  PROVE  VInv'
  BY DEF VInv, Reporting, InOrder, Ground, Growing, PassIsReviewed, flowVars, packageVars

LEMMA AtHas == ASSUME NEW stage, At(stage) PROVE agenda # <<>>
  BY DEF At

\* A stage of "validate" that lays no ground either goes on or stops short.
LEMMA StageKeeps ==
  ASSUME VInv, NEW stage \in {"host", "sandbox", "evidence", "quiet", "build", "boot"}, At(stage),
         UNCHANGED <<mode, pinned, built, source>>,
         Proceed \/ \E why : why \notin Passes /\ Stop(why)
  PROVE  VInv'
<1>1. agenda # <<>>
  BY AtHas
<1>2. mode = "validate" => Len(agenda) \notin {1, 2, 4, 9}
  <2>1. ASSUME mode = "validate" PROVE InOrder
    BY <2>1 DEF VInv
  <2>2. ASSUME mode = "validate" PROVE Len(agenda) \in {10, 8, 7, 6, 5, 3}
    BY <2>1, <2>2, LeftAt
  <2> QED
    BY <2>2
<1>3. CASE Proceed
  <2>1. agenda' = Tail(agenda) /\ outcome' = outcome
    BY <1>3 DEF Proceed
  <2> QED
    BY <1>1, <1>2, <2>1, MovesOn
<1>4. CASE \E why : why \notin Passes /\ Stop(why)
  <2>1. agenda' \in {<<>>, <<"stability">>} /\ outcome' \notin Passes
    BY <1>4 DEF Stop
  <2> QED
    BY <1>1, <2>1, MovesOn
<1> QED
  BY <1>3, <1>4

LEMMA HostKeeps == VInv /\ HostStage => VInv'
<1> SUFFICES ASSUME VInv, HostStage PROVE VInv'
  OBVIOUS
<1>1. At("host") /\ UNCHANGED <<mode, pinned, built, source>>
  BY DEF HostStage, kept, packageVars
<1>2. Proceed \/ \E why : why \notin Passes /\ Stop(why)
  <2>1. "FILESYSTEM_VIRTUALIZED" \notin Passes /\ "FAIL" \notin Passes
        /\ "HOST_CONTEXT_BLOCKED" \notin Passes
    BY DEF Passes
  <2>2. \/ Proceed
        \/ Stop("FILESYSTEM_VIRTUALIZED") \/ Stop("FAIL") \/ Stop("HOST_CONTEXT_BLOCKED")
    BY DEF HostStage, Pass
  <2> QED
    BY <2>1, <2>2
<1> QED
  BY <1>1, <1>2, StageKeeps

\* No error is reported as a pass.
LEMMA ErrorsAreNoPass == /\ Raised \cap Passes = {} /\ BuildErrors \cap Passes = {}
                         /\ {"TOOLCHAIN_BLOCKED", "BUSY", "PATCHED_SHELL_BLOCKED", "RENAME_BLOCKED"}
                              \cap Passes = {}
  BY DEF Raised, BuildErrors, Passes

LEMMA SandboxKeeps == VInv /\ SandboxStage => VInv'
<1> SUFFICES ASSUME VInv, SandboxStage PROVE VInv'
  OBVIOUS
<1>1. /\ At("sandbox") /\ UNCHANGED <<mode, pinned, built, source>>
      /\ Proceed \/ \E why : why \notin Passes /\ Stop(why)
  BY ErrorsAreNoPass DEF SandboxStage, packageVars
<1> QED
  BY <1>1, StageKeeps

LEMMA EvidenceKeeps == VInv /\ EvidenceStage => VInv'
<1> SUFFICES ASSUME VInv, EvidenceStage PROVE VInv'
  OBVIOUS
<1>1. At("evidence") /\ UNCHANGED <<mode, pinned, built, source>>
  BY DEF EvidenceStage, packageVars
<1>2. Proceed \/ \E why : why \notin Passes /\ Stop(why)
  <2>1. PICK a, b, c \in Verdicts, granted \in BOOLEAN, root \in {"removed", "left", "virtual"} :
          Pass(source # 0 /\ MayBuildShell(a, b, c, granted, root),
               IF source = 0 THEN "FAIL" ELSE SandboxStatus(a, b, c, granted, root))
    BY DEF EvidenceStage
  <2>2. "FAIL" \notin Passes
    BY DEF Passes
  <2>3. SandboxStatus(a, b, c, granted, root) \notin Passes \/ MayBuildShell(a, b, c, granted, root)
    BY DEF Passes, SandboxStatus, MayBuildShell, EvidenceUsable, AclStrategy
  <2> QED
    BY <2>1, <2>2, <2>3 DEF Pass
<1> QED
  BY <1>1, <1>2, StageKeeps

LEMMA QuietKeeps == VInv /\ (QuietRefused \/ QuietEnds) => VInv'
<1> SUFFICES ASSUME VInv, QuietRefused \/ QuietEnds PROVE VInv'
  OBVIOUS
<1>1. At("quiet") /\ UNCHANGED <<mode, pinned, built, source>>
  BY DEF QuietRefused, QuietEnds, kept, packageVars
<1>2. Proceed \/ \E why : why \notin Passes /\ Stop(why)
  BY ErrorsAreNoPass DEF QuietRefused, QuietEnds
<1> QED
  BY <1>1, <1>2, StageKeeps

LEMMA BuildKeeps == VInv /\ BuildGate => VInv'
<1> SUFFICES ASSUME VInv, BuildGate PROVE VInv'
  OBVIOUS
<1>1. At("build") /\ UNCHANGED <<mode, pinned, built, source>>
  BY DEF BuildGate, kept, packageVars
<1>2. Proceed \/ \E why : why \notin Passes /\ Stop(why)
  BY ErrorsAreNoPass DEF BuildGate
<1> QED
  BY <1>1, <1>2, StageKeeps

LEMMA BootKeeps == VInv /\ BootBegins => VInv'
<1> SUFFICES ASSUME VInv, BootBegins PROVE VInv'
  OBVIOUS
<1>1. At("boot") /\ UNCHANGED <<mode, pinned, built, source>> /\ Proceed
  BY DEF BootBegins, packageVars
<1> QED
  BY <1>1, StageKeeps

\* The review reads the identity: it is of a version that is installed now.
LEMMA ReviewKeeps == VInv /\ Review => VInv'
<1> SUFFICES ASSUME VInv, Review PROVE VInv'
  OBVIOUS
<1>1. /\ At("review") /\ agenda # <<>> /\ pinned' = source
      /\ UNCHANGED <<mode, built, source>>
  BY AtHas DEF Review, kept, packageVars
<1>2. \/ Proceed /\ source # 0 /\ source \in Reviewed
      \/ agenda' \in {<<>>, <<"stability">>} /\ outcome' \notin Passes
  BY HostAssumption DEF Review, Passes
<1>3. agenda' \in {Tail(agenda), <<>>, <<"stability">>}
  BY <1>2 DEF Proceed
<1>4. mode' = mode /\ (outcome' = outcome \/ outcome' \notin Passes)
  BY <1>1, <1>2 DEF Proceed
<1>5. Reporting'
  BY <1>1, <1>3, <1>4, AgendaMoves DEF VInv, Reporting
<1>6. ASSUME mode = "prepare" PROVE VInv'
  BY <1>4, <1>5, <1>6 DEF VInv, Reporting, PassIsReviewed, Passes
<1>7. ASSUME mode = "validate" PROVE VInv'
  <2>1. InOrder /\ Ground /\ Growing
    BY <1>7 DEF VInv
  <2>2. Len(agenda) = 9
    BY <1>1, <2>1, LeftAt
  <2>3. /\ InOrder' /\ Len(agenda') \in Nat
        /\ agenda' = Tail(agenda) => Len(agenda') = 8
        /\ agenda' # Tail(agenda) => Len(agenda') =< 1
    <3>1. /\ InOrder' /\ Len(agenda') \in Nat
          /\ agenda' = Tail(agenda) => Len(agenda') = Len(agenda) - 1
          /\ agenda' # Tail(agenda) => Len(agenda') =< 1
      BY <1>1, <1>3, <1>7, AgendaMoves
    <3> QED
      BY <2>2, <3>1
  <2>4. built = 0 /\ outcome \notin Passes
    BY <2>1, <2>2 DEF Ground
  <2>5. outcome' \notin Passes /\ built' = 0
    BY <1>1, <1>4, <2>4
  <2>6. Len(agenda') \in 2..8 => pinned' \in Reviewed
    <3>1. CASE Proceed /\ source # 0 /\ source \in Reviewed
      BY <1>1, <3>1
    <3>2. CASE agenda' \in {<<>>, <<"stability">>} /\ outcome' \notin Passes
      BY <3>2, EndInOrder, Few
    <3> QED
      BY <1>2, <3>1, <3>2
  <2>7. Len(agenda') \notin 2..3
    <3>1. 8 \notin 2..3
      OBVIOUS
    <3>2. CASE agenda' = Tail(agenda)
      BY <2>3, <3>1, <3>2, Zenon
    <3>3. CASE agenda' # Tail(agenda)
      BY <2>3, <3>3, Few
    <3> QED
      BY <3>2, <3>3
  <2>8. Ground' /\ PassIsReviewed'
    BY <2>5, <2>6, <2>7 DEF Ground, PassIsReviewed, Passes
  <2>9. Growing'
    BY <1>1, <2>1, <2>5, HostAssumption DEF Growing
  <2> QED
    BY <1>5, <2>3, <2>8, <2>9 DEF VInv
<1> QED
  BY <1>6, <1>7 DEF VInv, Reporting

\* The shell is built from the version that is installed now, which is the
\* reviewed one or a later one.
LEMMA InstallKeeps == VInv /\ Install => VInv'
<1> SUFFICES ASSUME VInv, Install PROVE VInv'
  OBVIOUS
<1>1. /\ At("install") /\ agenda # <<>> /\ UNCHANGED <<mode, pinned, source>>
  BY AtHas DEF Install, packageVars
<1>2. \/ Proceed /\ source # 0 /\ built' = source
      \/ agenda' \in {<<>>, <<"stability">>} /\ outcome' \notin Passes /\ built' = built
      \/ mode = "prepare" /\ agenda' = <<>> /\ outcome' \notin Passes
  BY ErrorsAreNoPass DEF Install, Stop
<1>3. CASE agenda' \in {<<>>, <<"stability">>} /\ outcome' \notin Passes /\ built' = built
  BY <1>1, <1>3, MovesOn
<1>4. CASE Proceed /\ source # 0 /\ built' = source
  <2>1. agenda' = Tail(agenda) /\ outcome' = outcome
    BY <1>4 DEF Proceed
  <2>2. Reporting'
    BY <1>1, <2>1, AgendaMoves DEF VInv, Reporting
  <2>3. ASSUME mode = "prepare" PROVE VInv'
    BY <1>1, <2>2, <2>3 DEF VInv, Reporting, PassIsReviewed, Passes
  <2>4. ASSUME mode = "validate" PROVE VInv'
    <3>1. InOrder /\ Ground /\ Growing
      BY <2>4 DEF VInv
    <3>2. Len(agenda) = 4
      BY <1>1, <3>1, LeftAt
    <3>3. InOrder' /\ Len(agenda') = 3
      <4>1. InOrder' /\ Len(agenda') = Len(agenda) - 1
        BY <1>1, <2>1, <2>4, AgendaMoves
      <4> QED
        BY <3>2, <4>1
    <3>4. pinned' \in Reviewed /\ outcome' \notin Passes /\ built' # 0
      BY <1>1, <1>4, <2>1, <3>1, <3>2 DEF Ground
    <3>5. Ground' /\ PassIsReviewed'
      BY <3>3, <3>4 DEF Ground, PassIsReviewed, Passes
    <3>6. Growing'
      BY <1>1, <1>4, <3>1, <3>4, HostAssumption DEF Growing
    <3> QED
      BY <2>2, <3>3, <3>5, <3>6 DEF VInv
  <2> QED
    BY <2>3, <2>4 DEF VInv, Reporting
<1>5. CASE mode = "prepare" /\ agenda' = <<>> /\ outcome' \notin Passes
  <2>1. Reporting'
    BY <1>1, <1>5, AgendaMoves DEF VInv, Reporting
  <2> QED
    BY <1>1, <1>5, <2>1 DEF VInv, Reporting, PassIsReviewed, Passes
<1> QED
  BY <1>2, <1>3, <1>4, <1>5

\* Only "prepare" judges a boot, and its results are no passes.
LEMMA JudgeKeeps == VInv /\ JudgeBoot => VInv'
<1> SUFFICES ASSUME VInv, JudgeBoot PROVE VInv'
  OBVIOUS
<1>1. /\ At("judge") /\ agenda # <<>> /\ UNCHANGED <<mode, pinned, built, source>>
  BY AtHas DEF JudgeBoot, packageVars
<1>2. mode = "prepare"
  BY <1>1, LeftAt DEF VInv, Reporting
<1>3. agenda' \in {Tail(agenda), <<>>, <<"stability">>}
  BY DEF JudgeBoot, Stop, Proceed
<1>4. outcome' = outcome \/ outcome' \in {"PATCHED_SHELL_BLOCKED", "DESKTOP_AUTH_PREPARED"}
      \/ outcome' = LoginStatus
  BY DEF JudgeBoot, Stop, Proceed
<1>5. outcome' \notin Passes
  BY <1>2, <1>4 DEF LoginStatus, Passes, VInv, Reporting
<1>6. Reporting'
  BY <1>1, <1>2, <1>3, <1>5, AgendaMoves DEF VInv, Reporting
<1> QED
  BY <1>1, <1>2, <1>6 DEF VInv, Reporting, PassIsReviewed, Passes

\* The report passes a shell only once one was built for a reviewed identity.
LEMMA ReportKeeps == VInv /\ Report => VInv'
<1> SUFFICES ASSUME VInv, Report PROVE VInv'
  OBVIOUS
<1>1. /\ At("report") /\ agenda # <<>> /\ agenda' = Tail(agenda)
      /\ UNCHANGED <<mode, pinned, built, source>>
  BY AtHas DEF Report, packageVars
<1>2. mode = "validate"
  <2>1. ASSUME mode = "prepare" PROVE FALSE
    <3>1. agenda \in Seq(Stages) /\ \A i \in 1..Len(agenda) : agenda[i] # "report"
      BY <2>1 DEF VInv, Reporting
    <3>2. 1 \in 1..Len(agenda) /\ Head(agenda) = agenda[1]
      BY <1>1, <3>1
    <3> QED
      BY <1>1, <3>1, <3>2 DEF At
  <2> QED
    BY <2>1 DEF VInv, Reporting
<1>3. InOrder /\ Ground /\ Growing
  BY <1>2 DEF VInv
<1>4. Len(agenda) = 2
  BY <1>1, <1>3, LeftAt
<1>5. InOrder' /\ Len(agenda') = 1
  <2>1. InOrder' /\ Len(agenda') = Len(agenda) - 1
    BY <1>1, <1>2, AgendaMoves
  <2> QED
    BY <1>4, <2>1
<1>6. pinned' \in Reviewed /\ built' # 0
  BY <1>1, <1>3, <1>4 DEF Ground
<1>7. Ground' /\ Growing'
  <2>1. Ground'
    BY <1>5, <1>6 DEF Ground
  <2>2. Growing'
    BY <1>1, <1>3 DEF Growing
  <2> QED
    BY <2>1, <2>2
<1>8. PassIsReviewed'
  BY <1>5 DEF PassIsReviewed
<1> QED
  BY <1>1, <1>2, <1>5, <1>7, <1>8 DEF VInv, Reporting

\* Versions only grow, so a source that is pinned's now was so all along.
LEMMA StabilityKeeps == VInv /\ Stability => VInv'
<1> SUFFICES ASSUME VInv, Stability PROVE VInv'
  OBVIOUS
<1>1. /\ At("stability") /\ agenda # <<>> /\ agenda' = <<>>
      /\ UNCHANGED <<mode, pinned, built, source>>
      /\ outcome' \in Passes => outcome \in Passes /\ source = pinned
  BY AtHas DEF Stability, kept, packageVars, Passes
<1>2. Reporting'
  BY <1>1, AgendaMoves DEF VInv, Reporting
<1>3. ASSUME mode = "prepare" PROVE VInv'
  BY <1>1, <1>2, <1>3 DEF VInv, Reporting, PassIsReviewed, Passes
<1>4. ASSUME mode = "validate" PROVE VInv'
  <2>1. InOrder /\ Ground /\ Growing
    BY <1>4 DEF VInv
  <2>2. InOrder' /\ Len(agenda') = 0
    BY <1>1, EndInOrder
  <2>3. outcome' \in Passes => built' = pinned' /\ pinned' \in Reviewed /\ built' # 0
    BY <1>1, <2>1, HostAssumption DEF Ground, Growing
  <2>4. Ground' /\ Growing' /\ PassIsReviewed'
    BY <1>1, <2>1, <2>2, <2>3 DEF Ground, Growing, PassIsReviewed, Passes
  <2> QED
    BY <1>2, <2>2, <2>4 DEF VInv
<1> QED
  BY <1>3, <1>4 DEF VInv, Reporting

LEMMA UpdateKeeps == VInv /\ Update => VInv'
<1> SUFFICES ASSUME VInv, Update PROVE VInv'
  OBVIOUS
<1>1. /\ UNCHANGED <<mode, agenda, pinned, built, outcome>>
      /\ source # 0 /\ source' \in {v \in Version : v > source} \cup {0}
  BY DEF Update, flowVars
<1>2. Growing => Growing'
  BY <1>1, HostAssumption DEF Growing
<1> QED
  BY <1>1, <1>2 DEF VInv, Reporting, InOrder, Ground, PassIsReviewed

LEMMA ToolKeeps == VInv /\ Tool => VInv'
<1> SUFFICES ASSUME VInv, Tool PROVE VInv'
  OBVIOUS
<1>1. CASE QuietBegins \/ QuietLoop \/ Booting
  BY <1>1, LookersKeep DEF QuietBegins, QuietLoop, Booting
<1> QED
  BY <1>1, HostKeeps, ReviewKeeps, SandboxKeeps, EvidenceKeeps, QuietKeeps, BuildKeeps,
     InstallKeeps, BootKeeps, JudgeKeeps, ReportKeeps, StabilityKeeps DEF Tool

LEMMA Starts == Init => VInv
<1> SUFFICES ASSUME Init PROVE VInv
  OBVIOUS
<1>1. /\ mode \in Modes /\ agenda = Agenda[mode] /\ outcome = "running"
      /\ source \in Version /\ built = 0 /\ pinned = 0
  BY DEF Init
<1>2. mode \in {"validate", "prepare"}
  BY <1>1, HostAssumption
<1>3. outcome \notin Passes
  BY <1>1 DEF Passes
<1>4. ASSUME mode = "prepare" PROVE VInv
  <2>1. agenda = <<"host", "review", "build", "install", "boot", "judge", "boot", "judge",
                   "build", "install", "boot", "judge">>
    BY <1>1, <1>4 DEF Agenda
  <2>2. agenda \in Seq(Stages)
    BY <2>1 DEF Stages
  <2>3. \A i \in 1..Len(agenda) : agenda[i] # "report"
    BY <2>1
  <2> QED
    BY <1>2, <1>3, <1>4, <2>2, <2>3 DEF VInv, Reporting, PassIsReviewed, Passes
<1>5. ASSUME mode = "validate" PROVE VInv
  <2>1. agenda = Order
    BY <1>1, <1>5 DEF Order
  <2>2. InOrder /\ Len(agenda) = 10
    BY <2>1, Places DEF InOrder
  <2>3. Ground /\ Growing
    BY <1>1, <1>3, <2>2 DEF Ground, Growing
  <2> QED
    BY <1>2, <1>3, <1>5, <2>2, <2>3 DEF VInv, Reporting, PassIsReviewed, Passes
<1> QED
  BY <1>2, <1>4, <1>5

LEMMA VInvHolds == Spec => []VInv
<1>1. VInv /\ [Next]_vars => VInv'
  <2> SUFFICES ASSUME VInv, [Next]_vars PROVE VInv'
    OBVIOUS
  <2>1. CASE Tool
    BY <2>1, ToolKeeps
  <2>2. CASE Update
    BY <2>2, UpdateKeeps
  <2>3. CASE Beside
    BY <2>3, LookersKeep DEF Beside
  <2>4. CASE UNCHANGED vars
    BY <2>4, LookersKeep DEF vars
  <2> QED
    BY <2>1, <2>2, <2>3, <2>4 DEF Next
<1> QED
  BY Starts, <1>1, PTL DEF Spec

\* A pass is only ever claimed for a shell that was built from the reviewed
\* package, for every machine, registry of versions, desktop and layout.
THEOREM PassesAreReviewed == Spec => []PassIsReviewed
<1>1. VInv => PassIsReviewed
  BY DEF VInv
<1> QED
  BY <1>1, VInvHolds, PTL

-----------------------------------------------------------------------------
(* What a boot that passed leaves behind.  A process of the chain whose     *)
(* path can be read is the only one that the sweep can see: hence           *)
(* Live = {"shell"} below.                                                  *)

Passed == {"PASS", "BOOT_AUTHENTICATED"}

\* Nobody has looked yet when the loop is off; once a look found nothing,
\* nothing runs: only a running process starts another.
Emptied ==
  /\ qpc = "off" => seen = {NoPid}
  /\ seen = {} => Running(image) = {}
  /\ spc = "over" /\ status \in Passed => Running(image) = {}

EInv == QInv /\ Emptied

LEMMA Chain == /\ {Desktop, Mux, Codex} \subseteq Pid
               /\ \A p \in Pid \ {Desktop} : Parent[p] \in Pid
  BY SmokeAssumption

LEMMA SeenIsRunning == ASSUME Live = {"shell"}, QTypeOK PROVE Owned(image) = Running(image)
  BY DEF QTypeOK, Snapshot, Image, Owned, Running

\* The desktop, its user and its processes.
LEMMA AroundKeeps ==
  ASSUME Live = {"shell"}, EInv, Around
  PROVE  EInv'
<1>1. UNCHANGED <<starts, loopVars, spc, status>>
  BY DEF Around, Processes, Window, procVars, bootVars
<1>2. image' \in Snapshot /\ (Running(image) = {} => Running(image') = {})
  <2>1. image \in Snapshot
    BY DEF EInv, QInv, QTypeOK
  <2>2. CASE Window
    BY <2>1, <2>2 DEF Window, procVars
  <2>3. ASSUME NEW p \in Pid, Spawn(p) PROVE image' \in Snapshot /\ Running(image) # {}
    BY <2>1, <2>3, Chain DEF Spawn, Snapshot, Image, Running
  <2>4. ASSUME NEW p \in Pid, Leave(p)
        PROVE  image' \in Snapshot /\ (Running(image) = {} => Running(image') = {})
    BY <2>1, <2>4 DEF Leave, Snapshot, Image, Running
  <2> QED
    BY <2>2, <2>3, <2>4 DEF Around, Processes
<1>3. QInv'
  BY <1>1, <1>2 DEF EInv, QInv, QTypeOK, Bounded, Said, Grounded, loopVars
<1>4. Emptied'
  BY <1>1, <1>2 DEF EInv, Emptied, loopVars
<1> QED
  BY <1>3, <1>4 DEF EInv

\* One step of the loop, in the quiescence before a build and in the sweep.
LEMMA TurnKeeps ==
  ASSUME Live = {"shell"}, EInv, Loop, UNCHANGED <<spc, status>>
  PROVE  EInv'
<1>1. QInv'
  BY LoopKeeps DEF EInv
<1>2. Owned(image) = Running(image)
  BY SeenIsRunning DEF EInv, QInv
<1>3. qpc' # "off"
  BY DEF Loop, FirstRead, AskToQuit, Scan, Terminate, TurnOver, Inventory
<1>4. Running(image) = {} => Running(image') = {}
  <2>1. CASE Terminate
    <3>1. PICK p : image' = image \/ image' = [image EXCEPT ![p] = "none"]
      BY <2>1 DEF Terminate
    <3> QED
      BY <3>1 DEF EInv, QInv, QTypeOK, Snapshot, Running
  <2>2. CASE FirstRead \/ AskToQuit \/ Scan \/ TurnOver
    BY <2>2 DEF FirstRead, AskToQuit, Scan, TurnOver, procVars, Running
  <2> QED
    BY <2>1, <2>2 DEF Loop
<1>5. seen' = seen \/ (seen' = Owned(image) /\ image' = image)
  BY DEF Loop, FirstRead, AskToQuit, Scan, Terminate, TurnOver, Inventory, procVars
<1>6. Emptied'
  BY <1>2, <1>3, <1>4, <1>5 DEF EInv, Emptied
<1> QED
  BY <1>1, <1>6 DEF EInv

\* A call and its return start the locals afresh.
LEMMA FreshKeeps ==
  ASSUME QInv, NEW at \in {"off", "scan"}, LoopStarts(at), image' \in Snapshot,
         UNCHANGED <<starts, blind>>
  PROVE  QInv'
  BY MaxScansType, QuiesceAssumption
  DEF LoopStarts, QInv, QTypeOK, Bounded, Said, Grounded

LEMMA CleanUpKeeps ==
  ASSUME Live = {"shell"}, EInv, CleanUp
  PROVE  EInv'
<1>1. LoopStarts("scan") /\ UNCHANGED <<status, starts, blind>> /\ spc' = "sweep"
  BY DEF CleanUp
<1>2. image' \in Snapshot
  <2>1. image \in Snapshot
    BY DEF EInv, QInv, QTypeOK
  <2>2. PICK gone \in SUBSET Targets(NowTracked, image) :
          image' = [p \in Pid |-> IF p \in gone THEN "none" ELSE image[p]]
    BY DEF CleanUp
  <2> QED
    BY <2>1, <2>2 DEF Snapshot, Image
<1>3. QInv'
  BY <1>1, <1>2, FreshKeeps DEF EInv
<1>4. Emptied'
  BY <1>1 DEF Emptied, LoopStarts
<1> QED
  BY <1>3, <1>4 DEF EInv

LEMMA ConcludeKeeps ==
  ASSUME MaxBlind =< 1, EInv, Conclude
  PROVE  EInv'
<1>1. LoopStarts("off") /\ UNCHANGED <<image, starts, blind>>
  BY DEF Conclude, LoopReturns, procVars
<1>2. QInv'
  BY <1>1, FreshKeeps DEF EInv, QInv, QTypeOK
<1>3. status' \in Passed => Running(image) = {}
  <2>1. status' \in Passed => verdict = "QUIESCENT"
    BY DEF Conclude, Swept, Passed
  <2> QED
    BY <2>1, QuietIsSeen DEF EInv, Emptied, QuietWasSeen
<1>4. Emptied'
  BY <1>1, <1>3 DEF Emptied, LoopStarts
<1> QED
  BY <1>2, <1>4 DEF EInv

LEMMA LaunchKeeps ==
  ASSUME Live = {"shell"}, EInv, BootBegins
  PROVE  EInv'
<1>1. /\ qpc = "off" /\ UNCHANGED <<starts, loopVars>>
      /\ image' = image \/ image' = [image EXCEPT ![Desktop] = "shell"]
      /\ spc' = "over" => status' = "BLOCKED"
  BY DEF BootBegins, Launch
<1>2. image' \in Snapshot
  BY <1>1 DEF EInv, QInv, QTypeOK, Snapshot, Image
<1>3. QInv'
  BY <1>1, <1>2 DEF EInv, QInv, QTypeOK, Bounded, Said, Grounded, loopVars
<1>4. Emptied'
  BY <1>1 DEF EInv, Emptied, loopVars, Passed
<1> QED
  BY <1>3, <1>4 DEF EInv

\* Steps that leave the processes and the loop alone, and conclude no boot.
LEMMA RestKeeps ==
  ASSUME EInv, UNCHANGED quiesceVars, spc' # "over" \/ UNCHANGED <<spc, status>>
  PROVE  EInv'
<1>1. QInv'
  BY IdleKeeps DEF EInv
<1> QED
  BY <1>1 DEF EInv, Emptied, quiesceVars, procVars, loopVars

LEMMA BootStepKeeps ==
  ASSUME Live = {"shell"}, MaxBlind =< 1, EInv, Boot
  PROVE  EInv'
<1>1. CASE Poll \/ GiveUp \/ OpenMenu \/ AskDesktopToQuit \/ LookOn \/ Check
  <2>1. UNCHANGED quiesceVars /\ spc' # "over"
    BY <1>1 DEF Poll, GiveUp, OpenMenu, AskDesktopToQuit, LookOn, Check, InTurn
  <2> QED
    BY <2>1, RestKeeps
<1>2. CASE Sweep
  BY <1>2, TurnKeeps DEF Sweep, Loop, smokeVars, bootVars
<1> QED
  BY <1>1, <1>2, CleanUpKeeps, ConcludeKeeps DEF Boot

LEMMA WorkflowKeeps ==
  ASSUME Live = {"shell"}, MaxBlind =< 1, EInv, Next
  PROVE  EInv'
<1>1. CASE QuietBegins
  BY <1>1, CallKeeps DEF QuietBegins, Call, EInv, Emptied, procVars, smokeVars, bootVars
<1>2. CASE QuietLoop
  BY <1>2, TurnKeeps DEF QuietLoop, Loop, smokeVars, bootVars
<1>3. CASE QuietEnds
  <2>1. LoopStarts("off") /\ UNCHANGED <<image, starts, blind, spc, status>>
    BY <1>3 DEF QuietEnds, LoopReturns, procVars, kept, smokeVars, bootVars
  <2>2. QInv'
    BY <2>1, FreshKeeps DEF EInv, QInv, QTypeOK
  <2> QED
    BY <2>1, <2>2 DEF EInv, Emptied, LoopStarts
<1>4. CASE Booting
  BY <1>4, BootStepKeeps DEF Booting
<1>5. CASE Beside
  BY <1>5, AroundKeeps DEF Beside
<1>6. CASE JudgeBoot \/ Report
  BY <1>6, RestKeeps DEF JudgeBoot, Report, NextBoot
<1>7. CASE \/ HostStage \/ Review \/ SandboxStage \/ EvidenceStage \/ QuietRefused
           \/ BuildGate \/ Install \/ Stability \/ Update
  <2>1. UNCHANGED <<quiesceVars, smokeVars>>
    BY <1>7 DEF HostStage, Review, SandboxStage, EvidenceStage, QuietRefused, BuildGate, Install,
                Stability, Update, kept
  <2> QED
    BY <2>1, RestKeeps DEF smokeVars, bootVars
<1> QED
  BY <1>1, <1>2, <1>3, <1>4, <1>5, <1>6, <1>7, LaunchKeeps DEF Next, Tool

\* A boot that passed leaves no process of the shell behind, though children
\* start late or again, terminations fail and a snapshot is lost: where the
\* paths of the chain's processes can be read (post_cleanup_pass, smoke.py:2206).
THEOREM PassLeavesNothing ==
  ASSUME Live = {"shell"}, MaxBlind =< 1
  PROVE  Spec => []NothingLeftBehind
<1>1. Init => EInv
  BY QStarts DEF Init, SInit, QInit, EInv, Emptied, Passed
<1>2. EInv /\ [Next]_vars => EInv'
  BY WorkflowKeeps, RestKeeps DEF vars, smokeVars, bootVars
<1>3. EInv => NothingLeftBehind
  BY DEF EInv, Emptied, NothingLeftBehind, Passed, Holding, Running
<1> QED
  BY <1>1, <1>2, <1>3, PTL DEF Spec

-----------------------------------------------------------------------------
(* What a boot has seen of its window, and where the login is.              *)

LoggedIn == {"home", "open", "crash"}
Windows == {"blank", "login", "loginCrash"} \cup LoggedIn
Shown == LoggedIn \cup {"homeLoading", "openLoading"}
Readings == {"none", "failed", "loginLoading"} \cup Windows \cup Shown

\* While the loop runs, a window that shows a login has one, and keeps showing
\* it; an accepted quit leaves it on disk when the desktop is gone.
Looking ==
  /\ seenOf.ready \/ seenOf.state = "none"
  /\ ui \notin LoggedIn => session \in {"disk", "none"}
  /\ ui \in LoggedIn => login # "none" /\ (Up => session # "none")
  /\ seenOf.state \in Shown \/ seenOf.confirmed \/ seenOf.quit = "accepted" => ui \in LoggedIn
  /\ seenOf.quit # "exited"

Quitting == seenOf.quit = "accepted" => session # "none" /\ (~Up => session = "disk")

\* A boot that may not wait for its user ends with the reading that is graded
\* AUTH_REQUIRED.
StrictBoot ==
  login = "asked" => /\ seenOf.state \notin Shown /\ spc \notin {"poll", "check"}
                     /\ spc = "turn" => Menu = "AUTH_REQUIRED"

Imaged == DOMAIN image = Pid

BootInv ==
  /\ DOMAIN seenOf = DOMAIN Unseen
  /\ ui \in Windows /\ session \in {"none", "memory", "disk"} /\ login \in LoginWays
  /\ seenOf.state \in Readings
  /\ spc \in {"poll", "turn", "check"} => Looking
  /\ spc \in {"poll", "turn", "check", "end"} => Quitting
  /\ seenOf.state \in Shown => login # "none"
  /\ seenOf.quit = "exited" => session = "disk"
  /\ asked.strict => StrictBoot

LEMMA AuthIs ==
  ASSUME NEW s \in Readings
  PROVE  AuthOf(s) = "AUTHENTICATED" <=> s \in Shown
<1>1. DOMAIN Shows = {"blank", "login", "home", "open", "loginLoading", "homeLoading", "openLoading",
                      "loginCrash", "crash"}
  BY DEF Shows
<1>2. /\ Shows["blank"].auth = "UNKNOWN" /\ Unknown.auth = "UNKNOWN"
      /\ Shows["login"].auth = "AUTH_REQUIRED" /\ Shows["loginLoading"].auth = "AUTH_REQUIRED"
      /\ Shows["loginCrash"].auth = "AUTH_REQUIRED"
  BY DEF Shows, Pages, Page, Unknown
<1>3. /\ Shows["home"].auth = "AUTHENTICATED" /\ Shows["open"].auth = "AUTHENTICATED"
      /\ Shows["homeLoading"].auth = "AUTHENTICATED" /\ Shows["openLoading"].auth = "AUTHENTICATED"
      /\ Shows["crash"].auth = "AUTHENTICATED"
  BY DEF Shows, Pages, Page
<1>4. CASE s \in {"none", "failed", "blank", "login", "loginLoading", "loginCrash"}
  BY <1>1, <1>2, <1>4 DEF AuthOf, Evidence, Shown, LoggedIn
<1>5. CASE s \in Shown
  BY <1>1, <1>3, <1>5 DEF AuthOf, Evidence, Shown, LoggedIn
<1> QED
  BY <1>4, <1>5 DEF Readings, Windows, Shown, LoggedIn

\* Only a window that shows a login is read as one.
LEMMA ReadIs ==
  ASSUME NEW page \in Windows, NEW read \in ReadOf(page)
  PROVE  read \in Readings /\ (read \in Shown => page \in LoggedIn)
<1>1. read \in {"failed", page} \/ \E p \in {page} \cap DOMAIN Loading : read = Loading[p]
  BY DEF ReadOf
<1>2. CASE read \in {"failed", page}
  BY <1>2 DEF Readings, Windows, Shown, LoggedIn
<1>3. CASE page \in {"login", "home", "open"} /\ read = Loading[page]
  BY <1>3 DEF Loading, Readings, Shown, LoggedIn
<1> QED
  BY <1>1, <1>2, <1>3 DEF Loading

LEMMA AroundKeepsBoot ==
  ASSUME Imaged, BootInv, Around
  PROVE  BootInv'
<1>1. UNCHANGED bootVars
  BY DEF Around
<1>2. CASE Processes
  <2>1. UNCHANGED <<ui, login>> /\ \E p \in Pid : Spawn(p) \/ Leave(p)
    BY <1>2 DEF Processes
  <2>2. PICK p \in Pid : Spawn(p) \/ Leave(p)
    BY <2>1
  <2>3. CASE session' = session /\ Up' = Up
    BY <1>1, <2>1, <2>3 DEF BootInv, Looking, Quitting, StrictBoot, Menu, bootVars
  <2>4. CASE session' = LoginLeft /\ ~Up'
    <3>1. /\ session \in {"disk", "none"} => session' = session
          /\ session = "memory" /\ seenOf.quit = "accepted" => session' = "disk"
          /\ session' \in {"disk", "none"}
      BY <2>4 DEF LoginLeft, BootInv
    <3> QED
      BY <1>1, <2>1, <2>4, <3>1 DEF BootInv, Looking, Quitting, StrictBoot, Menu, bootVars
  <2>5. Desktop \in Pid
    BY Chain
  <2>6. CASE Spawn(p)
    BY <2>3, <2>5, <2>6 DEF Spawn, Up
  <2>7. CASE Leave(p) /\ p # Desktop
    BY <2>3, <2>5, <2>7 DEF Leave, Up
  <2>8. CASE Leave(p) /\ p = Desktop
    <3>1. session' = LoginLeft /\ ~Up'
      BY <2>5, <2>8 DEF Leave, Up, Imaged
    <3> QED
      BY <2>4, <3>1
  <2> QED
    BY <2>2, <2>6, <2>7, <2>8
<1>3. CASE Window
  <2>1. spc = "poll" /\ Up' = Up /\ Up
    BY <1>3 DEF Window, procVars, Up, Draw, LogIn, Break
  <2>2. CASE Draw
    <3>1. /\ ui = "blank" /\ UNCHANGED session
          /\ \/ ui' = "login" /\ session = "none" /\ login' = login
             \/ ui' = "home" /\ session = "disk" /\ login' = "disk"
      BY <2>1, <2>2 DEF Draw, BootInv, Looking, LoggedIn
    <3> QED
      BY <1>1, <2>1, <3>1
      DEF BootInv, Looking, Quitting, StrictBoot, Menu, bootVars, LoggedIn, Windows, LoginWays
  <2>3. CASE LogIn
    <3>1. /\ ui \in {"login", "loginCrash"} /\ ui' \in {"home", "crash"}
          /\ login' # "none" /\ login' \in LoginWays /\ (login' = "asked" => login = "asked")
          /\ session' \in {"memory", "disk"}
      BY <2>3 DEF LogIn, BootInv, LoginWays
    <3> QED
      BY <1>1, <2>1, <3>1
      DEF BootInv, Looking, Quitting, StrictBoot, Menu, bootVars, LoggedIn, Windows
  <2>4. CASE Break
    <3>1. /\ UNCHANGED <<session, login>>
          /\ \/ ui = "login" /\ ui' = "loginCrash"
             \/ ui \in {"home", "open"} /\ ui' = "crash"
      BY <2>4 DEF Break, Pages
    <3> QED
      BY <1>1, <2>1, <3>1
      DEF BootInv, Looking, Quitting, StrictBoot, Menu, bootVars, LoggedIn, Windows
  <2> QED
    BY <1>3, <2>2, <2>3, <2>4 DEF Window
<1> QED
  BY <1>2, <1>3 DEF Around

LEMMA LaunchKeepsBoot ==
  ASSUME BootInv, NEW prepare, NEW strict, Launch(prepare, strict)
  PROVE  BootInv'
<1>1. /\ seenOf' = Unseen
      /\ \/ /\ spc' = "poll" /\ ui' = "blank" /\ session' \in {"disk", "none"} /\ login' = "none"
         \/ spc' \in {"over", "end"} /\ UNCHANGED deskVars
  BY DEF Launch
<1>2. Unseen.state = "none" /\ Unseen.quit = "no" /\ ~Unseen.confirmed
  BY DEF Unseen
<1>3. CASE spc' = "poll" /\ ui' = "blank" /\ session' \in {"disk", "none"} /\ login' = "none"
  BY <1>1, <1>2, <1>3
  DEF BootInv, Looking, Quitting, StrictBoot, Readings, Shown, LoggedIn, Windows, LoginWays
<1>4. CASE spc' \in {"over", "end"} /\ UNCHANGED deskVars
  BY <1>1, <1>2, <1>4
  DEF BootInv, Looking, Quitting, StrictBoot, Readings, Shown, LoggedIn, Windows, deskVars
<1> QED
  BY <1>1, <1>3, <1>4

LEMMA PollKeepsBoot == BootInv /\ Poll => BootInv'
<1> SUFFICES ASSUME BootInv, Poll PROVE BootInv'
  OBVIOUS
<1>1. spc = "poll" /\ UNCHANGED <<asked, ui, session>> /\ Up' = Up
  BY DEF Poll, quiesceVars, procVars, Up
<1>2. CASE seenOf.polls = MaxPolls
  BY <1>1, <1>2 DEF Poll, BootInv, Looking, Quitting, StrictBoot
<1>3. CASE seenOf.polls # MaxPolls
  <2>1. PICK read \in IF Up THEN ReadOf(ui) ELSE {"failed"} :
          LET healthy == seenOf.healthy \/ image[Mux] # "none"
              ready == seenOf.ready \/ (healthy /\ Up)
          IN  seenOf' = [seenOf EXCEPT
                !.polls = @ + 1, !.ever = @ \/ Up, !.healthy = healthy, !.ready = ready,
                !.state = IF ready THEN read ELSE @,
                !.met = @ \cup (tracked' \cap Running(image) \cap {Mux, Codex})]
    BY <1>3 DEF Poll
  <2>2. DOMAIN seenOf = DOMAIN Unseen
        /\ {"ready", "state", "opened", "quit", "confirmed"} \subseteq DOMAIN Unseen
    BY DEF BootInv, Unseen
  <2>3. /\ DOMAIN seenOf' = DOMAIN Unseen
        /\ \/ seenOf'.ready /\ seenOf'.state = read
           \/ ~seenOf'.ready /\ ~seenOf.ready /\ seenOf'.state = seenOf.state
        /\ seenOf'.quit = seenOf.quit /\ seenOf'.confirmed = seenOf.confirmed
    BY <2>1, <2>2
  <2>4. read \in Readings /\ (read \in Shown => ui \in LoggedIn)
    <3>1. CASE Up
      BY <2>1, <3>1, ReadIs DEF BootInv
    <3>2. CASE ~Up
      BY <2>1, <3>2 DEF Readings, Shown, LoggedIn
    <3> QED
      BY <3>1, <3>2
  <2>5. seenOf'.state \in Readings /\ (seenOf'.state \in Shown => ui \in LoggedIn)
    BY <1>1, <2>3, <2>4 DEF BootInv, Looking, Shown, LoggedIn
  <2>6. spc' = "turn" /\ login' = Noted(seenOf')
    BY <1>3 DEF Poll
  <2>7. /\ login' \in LoginWays /\ (login' = "none" => login = "none")
        /\ login' = "asked" => login = "asked" \/ AuthOf(seenOf'.state) = "AUTH_REQUIRED"
        /\ login' = "asked" => login = "asked" \/ Menu' = "AUTH_REQUIRED"
    <3>1. /\ Noted(seenOf') \in LoginWays /\ (Noted(seenOf') = "none" => login = "none")
          /\ Noted(seenOf') = "asked" =>
               \/ login = "asked"
               \/ /\ AuthOf(seenOf'.state) = "AUTH_REQUIRED"
                  /\ MenuStatus(seenOf'.ready, seenOf'.state, seenOf'.opened) = "AUTH_REQUIRED"
      <4>1. Noted(seenOf') = login \/ Noted(seenOf') = "masked"
            \/ (Noted(seenOf') = "asked" /\ AuthOf(seenOf'.state) = "AUTH_REQUIRED"
                /\ (login = "asked" \/ MenuStatus(seenOf'.ready, seenOf'.state, seenOf'.opened)
                                         = "AUTH_REQUIRED"))
        BY Zenon DEF Noted
      <4> QED
        BY <4>1 DEF BootInv, LoginWays
    <3> QED
      BY <2>6, <3>1 DEF Menu
  <2>8. asked.strict => StrictBoot'
    <3>1. asked.strict => login # "asked"
      BY <1>1 DEF BootInv, StrictBoot
    <3>2. AuthOf(seenOf'.state) = "AUTH_REQUIRED" => seenOf'.state \notin Shown
      BY <2>5, AuthIs
    <3> QED
      BY <2>6, <2>7, <3>1, <3>2 DEF StrictBoot
  <2>9. Looking' /\ Quitting'
    BY <1>1, <2>3, <2>5, <2>7 DEF BootInv, Looking, Quitting
  <2>10. seenOf'.state \in Shown => login' # "none"
    BY <1>1, <2>5, <2>7 DEF BootInv, Looking
  <2> QED
    BY <1>1, <2>3, <2>5, <2>7, <2>8, <2>9, <2>10 DEF BootInv, Looking
<1> QED
  BY <1>2, <1>3

\* What one turn leaves of what was known at its reading.
LEMMA TurnLeaves ==
  ASSUME BootInv, spc = "turn", Looking', Quitting', spc' = "check",
         asked.strict => login # "asked", UNCHANGED <<asked, session, login>>,
         ui' \in Windows, DOMAIN seenOf' = DOMAIN Unseen, seenOf'.state \in Readings
  PROVE  BootInv'
  BY DEF BootInv, Looking, StrictBoot

LEMMA TurnKeepsBoot ==
  ASSUME BootInv, GiveUp \/ OpenMenu \/ AskDesktopToQuit \/ LookOn \/ Check
  PROVE  BootInv'
<1>1. {"state", "ready", "confirmed", "opened", "quit"} \subseteq DOMAIN seenOf
      /\ DOMAIN seenOf = DOMAIN Unseen
  BY DEF BootInv, Unseen
<1>2. UNCHANGED <<asked, session, login>> /\ Up' = Up
  BY DEF GiveUp, OpenMenu, AskDesktopToQuit, LookOn, Check, InTurn, deskVars, quiesceVars,
         procVars, Up
<1>3. CASE GiveUp
  BY <1>2, <1>3 DEF GiveUp, InTurn, BootInv, Looking, Quitting, StrictBoot
<1>4. spc = "turn" => Looking /\ Quitting
  BY DEF BootInv
<1>5. ASSUME spc = "turn", ~LoginWanted PROVE asked.strict => login # "asked"
  BY <1>5 DEF LoginWanted, BootInv, StrictBoot
<1>6. ASSUME spc = "turn", Confirmed PROVE ui \in LoggedIn
  BY <1>4, <1>6, AuthIs DEF Confirmed, Looking, BootInv
<1>7. CASE OpenMenu
  <2>1. /\ spc = "turn" /\ ~LoginWanted /\ spc' = "check" /\ DOMAIN seenOf' = DOMAIN Unseen
        /\ seenOf.ready /\ Confirmed /\ seenOf'.ready = seenOf.ready /\ seenOf'.quit = seenOf.quit
        /\ \/ ui = "home" /\ ui' = "open" /\ seenOf'.state = "open"
           \/ ui' = ui /\ seenOf'.state = seenOf.state
    BY <1>1, <1>7 DEF OpenMenu, InTurn, MayOpen
  <2>2. ui \in LoggedIn /\ ui' \in LoggedIn
    BY <1>6, <2>1 DEF LoggedIn
  <2>3. Looking' /\ Quitting'
    BY <1>2, <1>4, <2>1, <2>2 DEF Looking, Quitting
  <2>4. seenOf'.state \in Readings /\ ui' \in Windows
    BY <2>1, <2>2 DEF BootInv, Readings, Windows, Shown, LoggedIn
  <2> QED
    BY <1>2, <1>5, <2>1, <2>3, <2>4, TurnLeaves
<1>8. CASE AskDesktopToQuit
  <2>1. /\ spc = "turn" /\ ~LoginWanted /\ spc' = "check" /\ DOMAIN seenOf' = DOMAIN Unseen
        /\ seenOf.confirmed /\ ui' = ui /\ seenOf'.state = seenOf.state
        /\ seenOf'.ready = seenOf.ready /\ seenOf'.confirmed = seenOf.confirmed
        /\ seenOf'.quit = "refused" \/ (seenOf'.quit = "accepted" /\ Up)
    BY <1>1, <1>8 DEF AskDesktopToQuit, InTurn, MayQuit
  <2>2. Looking' /\ Quitting'
    BY <1>2, <1>4, <2>1 DEF Looking, Quitting
  <2> QED
    BY <1>2, <1>5, <2>1, <2>2, TurnLeaves DEF BootInv
<1>9. CASE LookOn
  <2>1. /\ spc = "turn" /\ ~LoginWanted /\ spc' = "check" /\ DOMAIN seenOf' = DOMAIN Unseen
        /\ ui' = ui /\ seenOf'.state = seenOf.state /\ seenOf'.ready = seenOf.ready
        /\ seenOf'.quit = seenOf.quit /\ seenOf'.confirmed = Confirmed
    BY <1>1, <1>9 DEF LookOn, InTurn
  <2>2. Looking' /\ Quitting'
    BY <1>2, <1>4, <1>6, <2>1 DEF Looking, Quitting
  <2> QED
    BY <1>2, <1>5, <2>1, <2>2, TurnLeaves DEF BootInv
<1>10. CASE Check
  <2>1. /\ spc = "check" /\ spc' \in {"poll", "end"} /\ DOMAIN seenOf' = DOMAIN Unseen
        /\ ui' = ui /\ seenOf'.state = seenOf.state /\ seenOf'.ready = seenOf.ready
        /\ seenOf'.confirmed = seenOf.confirmed
        /\ \/ seenOf'.quit = seenOf.quit
           \/ seenOf.quit = "accepted" /\ seenOf'.quit = "exited" /\ ~Up /\ spc' = "end"
    BY <1>1, <1>10 DEF Check, AfterExit, deskVars
  <2>2. Looking /\ Quitting /\ (asked.strict => login # "asked")
    BY <2>1 DEF BootInv, StrictBoot
  <2>3. Quitting' /\ (seenOf'.quit = "exited" => session' = "disk")
    BY <1>2, <2>1, <2>2 DEF Looking, Quitting
  <2>4. spc' = "poll" => Looking'
    BY <1>2, <2>1, <2>2 DEF Looking
  <2> QED
    BY <1>2, <2>1, <2>2, <2>3, <2>4 DEF BootInv, StrictBoot
<1> QED
  BY <1>3, <1>7, <1>8, <1>9, <1>10

LEMMA CleanUpKeepsBoot == BootInv /\ CleanUp => BootInv'
<1> SUFFICES ASSUME BootInv, CleanUp PROVE BootInv'
  OBVIOUS
<1>1. /\ spc = "end" /\ spc' = "sweep" /\ ui' = "blank" /\ UNCHANGED <<asked, login>>
      /\ DOMAIN seenOf' = DOMAIN Unseen /\ seenOf'.quit = AfterExit.quit
      /\ \/ seenOf'.state \in {"login", "failed"}
         \/ seenOf'.state = "home" /\ AuthOf(AfterExit.state) = "AUTHENTICATED"
      /\ session' = session \/ session' = LoginLeft
  BY DEF CleanUp, Unseen
<1>2. /\ AfterExit.state = seenOf.state
      /\ AfterExit.quit = seenOf.quit \/ (~Up /\ seenOf.quit = "accepted")
  BY DEF AfterExit, BootInv, Unseen
<1>3. seenOf'.state = "home" => seenOf.state \in Shown
  BY <1>1, <1>2, AuthIs DEF BootInv
<1>4. seenOf'.quit = "exited" => session = "disk"
  BY <1>1, <1>2 DEF BootInv, Quitting
<1>5. session' \in {"none", "memory", "disk"} /\ (session = "disk" => session' = "disk")
  BY <1>1 DEF LoginLeft, BootInv
<1> QED
  BY <1>1, <1>3, <1>4, <1>5 DEF BootInv, StrictBoot, Readings, Windows, Shown, LoggedIn

LEMMA BootKeepsBoot == BootInv /\ Boot => BootInv'
<1> SUFFICES ASSUME BootInv, Boot PROVE BootInv'
  OBVIOUS
<1>1. CASE Sweep
  BY <1>1 DEF Sweep, smokeVars, bootVars, deskVars, BootInv, StrictBoot
<1>2. CASE Conclude
  BY <1>2 DEF Conclude, deskVars, BootInv, StrictBoot
<1> QED
  BY <1>1, <1>2, PollKeepsBoot, TurnKeepsBoot, CleanUpKeepsBoot DEF Boot

LEMMA NextKeepsImaged ==
  ASSUME Imaged, [Next]_vars
  PROVE  Imaged'
<1>1. CASE UNCHANGED image
  BY <1>1 DEF Imaged
<1>2. CASE \E p \in Pid : Spawn(p) \/ Leave(p)
  BY <1>2 DEF Imaged, Spawn, Leave
<1>3. CASE BootBegins
  BY <1>3 DEF Imaged, BootBegins, Launch
<1>4. CASE CleanUp
  BY <1>4 DEF Imaged, CleanUp
<1>5. CASE Terminate
  BY <1>5 DEF Imaged, Terminate
<1>6. CASE Beside
  BY <1>1, <1>2, <1>6 DEF Beside, Around, Processes, Window, procVars
<1>7. CASE Booting
  <2>1. CASE Poll \/ GiveUp \/ OpenMenu \/ AskDesktopToQuit \/ LookOn \/ Check \/ Conclude
    <3>1. UNCHANGED image
      BY <2>1 DEF Poll, GiveUp, OpenMenu, AskDesktopToQuit, LookOn, Check, InTurn, Conclude,
                  quiesceVars, procVars
    <3> QED
      BY <1>1, <3>1
  <2>2. CASE Sweep
    BY <1>1, <1>5, <2>2 DEF Sweep, Scan, TurnOver, procVars
  <2> QED
    BY <1>4, <1>7, <2>1, <2>2 DEF Booting, Boot
<1>8. CASE QuietLoop
  BY <1>1, <1>5, <1>8 DEF QuietLoop, FirstRead, AskToQuit, Scan, TurnOver, procVars
<1>9. CASE QuietBegins \/ QuietEnds
  BY <1>1, <1>9 DEF QuietBegins, Call, QuietEnds, procVars
<1>10. CASE \/ HostStage \/ Review \/ SandboxStage \/ EvidenceStage \/ QuietRefused \/ BuildGate
            \/ Install \/ JudgeBoot \/ Report \/ Stability \/ Update \/ UNCHANGED vars
  <2>1. UNCHANGED quiesceVars
    BY <1>10 DEF HostStage, Review, SandboxStage, EvidenceStage, QuietRefused, BuildGate, Install,
                 JudgeBoot, Report, NextBoot, Stability, Update, vars
  <2> QED
    BY <1>1, <2>1 DEF quiesceVars, procVars
<1> QED
  BY <1>3, <1>6, <1>7, <1>8, <1>9, <1>10 DEF Next, Tool

LEMMA NextKeepsBoot ==
  ASSUME Imaged, BootInv, At("quiet") => spc = "off", [Next]_vars
  PROVE  BootInv'
<1>1. CASE UNCHANGED <<smokeVars, procVars>>
  BY <1>1 DEF smokeVars, bootVars, deskVars, procVars, BootInv, Looking, Quitting, StrictBoot, Menu, Up
<1>2. CASE BootBegins
  BY <1>2, LaunchKeepsBoot DEF BootBegins
<1>3. CASE Booting
  BY <1>3, BootKeepsBoot DEF Booting
<1>4. CASE JudgeBoot \/ Report
  <2>1. seenOf' = Unseen /\ ~asked'.strict /\ UNCHANGED <<ui, session>> /\ spc' = "off"
        /\ login' = "none"
    BY <1>4 DEF JudgeBoot, Report, NextBoot
  <2> QED
    BY <2>1 DEF BootInv, Unseen, Readings, Shown, LoggedIn, LoginWays
<1>5. CASE Beside
  BY <1>5, AroundKeepsBoot DEF Beside
<1>6. CASE QuietLoop
  <2>1. UNCHANGED smokeVars /\ spc = "off"
    BY <1>6 DEF QuietLoop
  <2> QED
    BY <2>1 DEF smokeVars, bootVars, deskVars, BootInv, Looking, Quitting, StrictBoot, Menu, Up
<1>7. CASE \/ HostStage \/ Review \/ SandboxStage \/ EvidenceStage \/ QuietRefused \/ QuietBegins
           \/ QuietEnds \/ BuildGate \/ Install \/ Stability \/ Update
  BY <1>1, <1>7 DEF HostStage, Review, SandboxStage, EvidenceStage, QuietRefused, QuietBegins, Call,
                    QuietEnds, BuildGate, Install, Stability, Update, kept, quiesceVars
<1> QED
  BY <1>1, <1>2, <1>3, <1>4, <1>5, <1>6, <1>7 DEF Next, Tool, vars, quiesceVars

-----------------------------------------------------------------------------
(* The three boots of "prepare".                                            *)

POrder == Agenda.prepare
Prepared == "DESKTOP_AUTH_PREPARED"

\* What is left of its agenda is always its end, or nothing after a stop.
PEnd ==
  /\ agenda \in Seq(Stages) /\ Len(agenda) =< 12
  /\ \A i \in 1..Len(agenda) : agenda[i] = POrder[12 - Len(agenda) + i]

\* What was done by then: the boots, the rebuild between the second and the
\* third, and how the second came by its login once it was judged.
Kept == {"disk", "hand", "masked"}
Counted(left, started, since, second, strict) ==
  /\ left \in 8..12 => started = 0
  /\ left \in 6..7 => started = 1
  /\ left \in 2..5 => started = 2
  /\ left = 1 => started = 3
  /\ left \in 1..2 => since = 2
  /\ left \in 1..4 => second \in Kept
  /\ left \in {1, 5} => strict

Done(left) == Counted(left, boots, rebuilt, logins[2], asked.strict)

DoneNext(left) == Counted(left, boots', rebuilt', logins'[2], asked'.strict)

PInv ==
  /\ agenda # <<>> => outcome # Prepared
  /\ mode = "validate" => outcome # Prepared
  /\ outcome = Prepared => spc = "off"
  /\ mode = "prepare" => PEnd /\ Done(Len(agenda)) /\ PreparedMeansPersisted

LEMMA PPlaces ==
  /\ POrder \in Seq(Stages) /\ Len(POrder) = 12
  /\ POrder[1] = "host" /\ POrder[2] = "review" /\ POrder[3] = "build" /\ POrder[4] = "install"
  /\ POrder[5] = "boot" /\ POrder[6] = "judge" /\ POrder[7] = "boot" /\ POrder[8] = "judge"
  /\ POrder[9] = "build" /\ POrder[10] = "install" /\ POrder[11] = "boot" /\ POrder[12] = "judge"
<1>1. POrder = <<"host", "review", "build", "install", "boot", "judge", "boot", "judge",
                 "build", "install", "boot", "judge">>
  BY DEF POrder, Agenda
<1>2. POrder \in Seq(Stages)
  BY <1>1 DEF Stages
<1> QED
  BY <1>1, <1>2

LEMMA PHeadIs ==
  ASSUME PEnd, agenda # <<>>
  PROVE  Len(agenda) \in 1..12 /\ Head(agenda) = POrder[13 - Len(agenda)]
<1>1. agenda \in Seq(Stages) /\ Len(agenda) =< 12
  BY DEF PEnd
<1>2. Len(agenda) \in Nat /\ Len(agenda) # 0 /\ Head(agenda) = agenda[1]
  BY <1>1
<1>3. Len(agenda) \in 1..12
  <2>1. \A n \in Nat : n # 0 /\ n =< 12 => n \in 1..12
    OBVIOUS
  <2> QED
    BY <1>1, <1>2, <2>1, Zenon
<1>4. 1 \in 1..Len(agenda) /\ 12 - Len(agenda) + 1 = 13 - Len(agenda)
  BY <1>3
<1>5. agenda[1] = POrder[12 - Len(agenda) + 1]
  BY <1>4 DEF PEnd
<1> QED
  BY <1>2, <1>3, <1>4, <1>5

\* The stage at hand tells how much is left.
LEMMA PLeftAt ==
  ASSUME PEnd, agenda # <<>>
  PROVE  /\ Len(agenda) \in 1..12
         /\ At("host") => Len(agenda) = 12
         /\ At("review") => Len(agenda) = 11
         /\ At("build") => Len(agenda) \in {10, 4}
         /\ At("install") => Len(agenda) \in {9, 3}
         /\ At("boot") => Len(agenda) \in {8, 6, 2}
         /\ At("judge") => Len(agenda) \in {7, 5, 1}
         /\ Head(agenda) \in {"host", "review", "build", "install", "boot", "judge"}
<1> DEFINE n == Len(agenda)
<1>1. n \in 1..12 /\ Head(agenda) = POrder[13 - n]
  BY PHeadIs
<1> HIDE DEF n
<1>2. /\ n = 12 => 13 - n = 1
      /\ n = 11 => 13 - n = 2
      /\ n = 10 => 13 - n = 3
      /\ n = 9 => 13 - n = 4
      /\ n = 8 => 13 - n = 5
      /\ n = 7 => 13 - n = 6
      /\ n = 6 => 13 - n = 7
      /\ n = 5 => 13 - n = 8
      /\ n = 4 => 13 - n = 9
      /\ n = 3 => 13 - n = 10
      /\ n = 2 => 13 - n = 11
      /\ n = 1 => 13 - n = 12
  OBVIOUS
<1>3. n \in {1, 2, 3, 4, 5, 6, 7, 8, 9, 10, 11, 12}
  BY <1>1
<1>4. /\ Head(agenda) \in {"host", "review", "build", "install", "boot", "judge"}
      /\ Head(agenda) = "host" => n = 12
      /\ Head(agenda) = "review" => n = 11
      /\ Head(agenda) = "build" => n \in {10, 4}
      /\ Head(agenda) = "install" => n \in {9, 3}
      /\ Head(agenda) = "boot" => n \in {8, 6, 2}
      /\ Head(agenda) = "judge" => n \in {7, 5, 1}
  <2>1. CASE n \in {12, 11, 10}
    BY <1>1, <1>2, <2>1, PPlaces
  <2>2. CASE n \in {9, 8, 7}
    BY <1>1, <1>2, <2>2, PPlaces
  <2>3. CASE n \in {6, 5, 4}
    BY <1>1, <1>2, <2>3, PPlaces
  <2>4. CASE n \in {3, 2, 1}
    BY <1>1, <1>2, <2>4, PPlaces
  <2> QED
    BY <1>3, <2>1, <2>2, <2>3, <2>4
<1> QED
  BY <1>1, <1>4 DEF n, At

LEMMA PTail ==
  ASSUME PEnd, agenda # <<>>, agenda' \in {Tail(agenda), <<>>}
  PROVE  /\ PEnd'
         /\ Len(agenda') = IF agenda' = <<>> THEN 0 ELSE Len(agenda) - 1
<1>1. CASE agenda' = <<>>
  BY <1>1 DEF PEnd
<1>2. CASE agenda' = Tail(agenda) /\ agenda' # <<>>
  <2>1. Len(agenda') = Len(agenda) - 1 /\ agenda' \in Seq(Stages) /\ Len(agenda) \in Nat
    BY <1>2 DEF PEnd
  <2>2. \A i \in 1..Len(agenda') : agenda'[i] = agenda[i + 1]
    BY <1>2 DEF PEnd
  <2> QED
    BY <1>2, <2>1, <2>2 DEF PEnd
<1> QED
  BY <1>1, <1>2

LEMMA EmptySeq ==
  ASSUME NEW S, NEW q \in Seq(S)
  PROVE  q = <<>> <=> Len(q) = 0
  OBVIOUS

LEMMA LastTail ==
  ASSUME PEnd, agenda # <<>>
  PROVE  Tail(agenda) = <<>> <=> Len(agenda) = 1
<1>1. agenda \in Seq(Stages)
  BY DEF PEnd
<1>2. Tail(agenda) \in Seq(Stages) /\ Len(Tail(agenda)) = Len(agenda) - 1 /\ Len(agenda) \in Nat
  BY <1>1
<1>3. Tail(agenda) = <<>> <=> Len(Tail(agenda)) = 0
  BY <1>2, EmptySeq
<1> QED
  BY <1>2, <1>3

\* A stage that stops, with another result.
LEMMA StopKeepsPInv ==
  ASSUME PInv, mode' = mode, mode \in {"validate", "prepare"}, agenda # <<>>,
         mode = "prepare" => agenda' = <<>>,
         outcome' # Prepared
  PROVE  PInv'
<1>1. ASSUME mode = "prepare" PROVE PEnd' /\ Len(agenda') = 0
  BY <1>1, PTail DEF PInv
<1>2. ASSUME mode = "prepare" PROVE Done(Len(agenda))'
  BY <1>1, <1>2 DEF Counted, Done, DoneNext
<1> QED
  BY <1>1, <1>2 DEF PInv, PreparedMeansPersisted, Prepared

\* A stage that goes on, to a place where no more is asked of what was done.
LEMMA ProceedKeepsPInv ==
  ASSUME PInv, mode' = mode, mode \in {"validate", "prepare"}, agenda # <<>>, Proceed,
         mode = "prepare" => Len(agenda) # 1 /\ DoneNext(Len(agenda) - 1)
  PROVE  PInv'
<1>1. agenda' = Tail(agenda) /\ outcome' = outcome /\ outcome' # Prepared
  BY DEF Proceed, PInv
<1>2. ASSUME mode = "prepare" PROVE PEnd' /\ Done(Len(agenda))'
  <2>1. PEnd' /\ Len(agenda') = Len(agenda) - 1
    BY <1>1, <1>2, PTail, LastTail DEF PInv
  <2> QED
    BY <1>2, <2>1 DEF Counted, Done, DoneNext
<1> QED
  BY <1>1, <1>2 DEF PInv, PreparedMeansPersisted, Prepared

LEMMA PlainKeepsPInv ==
  ASSUME PInv, UNCHANGED <<mode, agenda, outcome, boots, logins, rebuilt, asked>>,
         outcome = Prepared => UNCHANGED <<spc, session>>
  PROVE  PInv'
  BY DEF PInv, PEnd, Counted, Done, DoneNext, PreparedMeansPersisted, Prepared

\* Stages that count nothing.
LEMMA StageKeepsPInv ==
  ASSUME VInv, PInv, HostStage \/ Review \/ BuildGate
  PROVE  PInv'
<1>1. /\ agenda # <<>> /\ mode \in {"validate", "prepare"}
      /\ UNCHANGED <<mode, boots, logins, rebuilt, asked>>
      /\ mode = "prepare" => Len(agenda) \in {12, 11, 10, 4}
  <2>1. At("host") \/ At("review") \/ At("build")
    BY DEF HostStage, Review, BuildGate
  <2>2. agenda # <<>>
    BY <2>1 DEF At
  <2> QED
    BY <2>1, <2>2, PLeftAt
    DEF HostStage, Review, BuildGate, kept, smokeVars, bootVars, VInv, Reporting, PInv
<1>2. \/ Proceed
      \/ outcome' # Prepared /\ (mode = "prepare" => agenda' = <<>>)
  BY DEF HostStage, Review, BuildGate, Pass, Stop, BuildErrors, Raised, Prepared
<1>3. ASSUME mode = "prepare" PROVE Len(agenda) # 1 /\ DoneNext(Len(agenda) - 1)
  <2>1. Len(agenda) \in {12, 11, 10, 4} /\ Done(Len(agenda))
    BY <1>1, <1>3 DEF PInv
  <2>2. DoneNext(Len(agenda))
    BY <1>1, <2>1 DEF Done, DoneNext
  <2>3. CASE Len(agenda) \in {12, 11, 10}
    <3>1. boots' = 0
      BY <2>2, <2>3 DEF Counted, DoneNext
    <3>2. Len(agenda) - 1 \in {11, 10, 9}
      BY <2>3
    <3> QED
      BY <2>3, <3>1, <3>2 DEF Counted, DoneNext
  <2>4. CASE Len(agenda) = 4
    <3>1. boots' = 2 /\ logins'[2] \in Kept
      BY <2>2, <2>4 DEF Counted, DoneNext
    <3> QED
      BY <2>4, <3>1 DEF Counted, DoneNext
  <2> QED
    BY <2>1, <2>3, <2>4
<1> QED
  BY <1>1, <1>2, <1>3, StopKeepsPInv, ProceedKeepsPInv

\* The second installation comes after the second boot.
LEMMA InstallKeepsPInv ==
  ASSUME VInv, PInv, Install
  PROVE  PInv'
<1>1. /\ agenda # <<>> /\ mode \in {"validate", "prepare"}
      /\ UNCHANGED <<mode, boots, logins, asked>>
      /\ mode = "prepare" => Len(agenda) \in {9, 3}
  <2>1. At("install") /\ agenda # <<>>
    BY DEF Install, At
  <2> QED
    BY <2>1, PLeftAt DEF Install, smokeVars, bootVars, VInv, Reporting, PInv
<1>2. \/ Proceed /\ rebuilt' = boots
      \/ outcome' # Prepared /\ (mode = "prepare" => agenda' = <<>>)
  BY DEF Install, Stop, BuildErrors, Raised, Prepared
<1>3. ASSUME rebuilt' = boots, mode = "prepare"
      PROVE  Len(agenda) # 1 /\ DoneNext(Len(agenda) - 1)
  <2>1. Len(agenda) \in {9, 3} /\ Done(Len(agenda))
    BY <1>1, <1>3 DEF PInv
  <2>2. Counted(Len(agenda), boots', rebuilt, logins'[2], asked'.strict)
    BY <1>1, <2>1 DEF Done
  <2>3. CASE Len(agenda) = 9
    <3>1. boots' = 0
      BY <2>2, <2>3 DEF Counted
    <3> QED
      BY <2>3, <3>1 DEF Counted, DoneNext
  <2>4. CASE Len(agenda) = 3
    <3>1. boots' = 2 /\ logins'[2] \in Kept /\ rebuilt' = 2
      BY <1>1, <1>3, <2>2, <2>4 DEF Counted
    <3> QED
      BY <2>4, <3>1 DEF Counted, DoneNext
  <2> QED
    BY <2>1, <2>3, <2>4
<1> QED
  BY <1>1, <1>2, <1>3, StopKeepsPInv, ProceedKeepsPInv

\* Every boot but the first is strict.
LEMMA BootKeepsPInv ==
  ASSUME VInv, PInv, BootBegins
  PROVE  PInv'
<1>1. /\ agenda # <<>> /\ mode \in {"validate", "prepare"} /\ Proceed
      /\ UNCHANGED <<mode, logins, rebuilt>> /\ boots' = boots + 1
      /\ asked' = [prepare |-> mode = "prepare", strict |-> mode = "prepare" /\ boots > 0]
      /\ mode = "prepare" => Len(agenda) \in {8, 6, 2}
  <2>1. At("boot") /\ agenda # <<>>
    BY DEF BootBegins, At
  <2> QED
    BY <2>1, PLeftAt DEF BootBegins, Launch, VInv, Reporting, PInv
<1>2. ASSUME mode = "prepare" PROVE Len(agenda) # 1 /\ DoneNext(Len(agenda) - 1)
  <2>1. Len(agenda) \in {8, 6, 2} /\ Done(Len(agenda))
    BY <1>1, <1>2 DEF PInv
  <2>2. Counted(Len(agenda), boots, rebuilt', logins'[2], asked.strict)
    BY <1>1, <2>1 DEF Done
  <2>3. asked'.strict <=> boots > 0
    BY <1>1, <1>2
  <2>4. CASE Len(agenda) = 8
    <3>1. boots = 0 /\ boots' = 1
      BY <1>1, <2>2, <2>4 DEF Counted
    <3> QED
      BY <2>4, <3>1 DEF Counted, DoneNext
  <2>5. CASE Len(agenda) = 6
    <3>1. boots = 1 /\ boots' = 2
      BY <1>1, <2>2, <2>5 DEF Counted
    <3> QED
      BY <2>3, <2>5, <3>1 DEF Counted, DoneNext
  <2>6. CASE Len(agenda) = 2
    <3>1. boots = 2 /\ boots' = 3 /\ rebuilt' = 2 /\ logins'[2] \in Kept
      BY <1>1, <2>2, <2>6 DEF Counted
    <3> QED
      BY <2>3, <2>6, <3>1 DEF Counted, DoneNext
  <2> QED
    BY <2>1, <2>4, <2>5, <2>6
<1> QED
  BY <1>1, <1>2, ProceedKeepsPInv

\* A judged boot that showed a login and was strict, had found it on disk.
LEMMA JudgeKeepsPInv ==
  ASSUME VInv, PInv, BootInv, JudgeBoot
  PROVE  PInv'
<1>1. /\ At("judge") /\ agenda # <<>> /\ UNCHANGED <<mode, boots, rebuilt>>
      /\ logins' = [b \in 2..3 |-> IF b = boots THEN login ELSE logins[b]]
      /\ UNCHANGED session /\ spc' = "off"
  BY DEF JudgeBoot, NextBoot, At
<1>2. mode = "prepare"
  BY <1>1, LeftAt DEF VInv, Reporting
<1>3. Len(agenda) \in {7, 5, 1} /\ PEnd /\ Done(Len(agenda)) /\ outcome # Prepared
  BY <1>1, <1>2, PLeftAt DEF PInv
<1>4. PICK intact \in BOOLEAN :
        IF AuthOf(seenOf.state) # "AUTHENTICATED" THEN Stop(LoginStatus)
        ELSE IF seenOf.quit # "exited" \/ ~intact THEN Stop("PATCHED_SHELL_BLOCKED")
        ELSE IF Tail(agenda) = <<>> THEN Stop("DESKTOP_AUTH_PREPARED") ELSE Proceed
  BY DEF JudgeBoot
<1>5. asked.strict /\ AuthOf(seenOf.state) = "AUTHENTICATED" => login \in Kept
  BY AuthIs DEF BootInv, StrictBoot, LoginWays, Kept
<1>6. CASE Stop(LoginStatus) \/ Stop("PATCHED_SHELL_BLOCKED")
  <2>1. outcome' # Prepared /\ agenda' = <<>>
    BY <1>2, <1>6 DEF Stop, LoginStatus, Prepared
  <2> QED
    BY <1>1, <1>2, <2>1, StopKeepsPInv
<1>7. CASE Tail(agenda) # <<>> /\ Proceed /\ AuthOf(seenOf.state) = "AUTHENTICATED"
  <2>1. Len(agenda) \in {7, 5}
    BY <1>3, <1>7, LastTail
  <2>2. DoneNext(Len(agenda) - 1)
    <3>1. CASE Len(agenda) = 7
      BY <1>1, <1>3, <3>1 DEF Counted, Done, DoneNext
    <3>2. CASE Len(agenda) = 5
      <4>1. boots = 2 /\ asked.strict
        BY <1>3, <3>2 DEF Counted, Done, DoneNext
      <4> QED
        BY <1>1, <1>5, <1>7, <3>2, <4>1 DEF Counted, Done, DoneNext
    <3> QED
      BY <2>1, <3>1, <3>2
  <2> QED
    BY <1>1, <1>2, <1>7, <2>1, <2>2, ProceedKeepsPInv
<1>8. CASE /\ Tail(agenda) = <<>> /\ Stop("DESKTOP_AUTH_PREPARED")
           /\ AuthOf(seenOf.state) = "AUTHENTICATED" /\ seenOf.quit = "exited"
  <2>1. agenda' = <<>>
    BY <1>2, <1>8 DEF Stop
  <2>2. boots = 3 /\ rebuilt = 2 /\ logins[2] \in Kept /\ asked.strict
    <3>1. Len(agenda) = 1
      BY <1>1, <1>3, <1>8, LastTail
    <3> QED
      BY <1>3, <3>1 DEF Counted, Done, DoneNext
  <2>3. PreparedMeansPersisted'
    <3>1. session' = "disk" /\ rebuilt' = 2 /\ login \in Kept
      BY <1>1, <1>5, <1>8, <2>2 DEF BootInv
    <3>2. \A b \in 2..3 : logins'[b] \in Kept
      <4>1. \A b \in 2..3 : b = 2 \/ b = 3
        OBVIOUS
      <4>2. logins'[2] = logins[2] /\ logins'[3] = login
        BY <1>1, <2>2
      <4> QED
        BY <2>2, <3>1, <4>1, <4>2
    <3> QED
      BY <3>1, <3>2 DEF PreparedMeansPersisted, Kept
  <2>4. PEnd' /\ Len(agenda') = 0
    BY <1>1, <1>3, <2>1, PTail
  <2> QED
    BY <1>1, <1>2, <2>1, <2>3, <2>4 DEF PInv, Counted, Done, DoneNext
<1> QED
  BY <1>4, <1>6, <1>7, <1>8

\* The other stages are of "validate" alone, which promises none of it.
LEMMA ValidateKeepsPInv ==
  ASSUME VInv, PInv,
         SandboxStage \/ EvidenceStage \/ QuietRefused \/ QuietEnds \/ Report \/ Stability
  PROVE  PInv'
<1>1. agenda # <<>> /\ mode' = mode
      /\ (At("sandbox") \/ At("evidence") \/ At("quiet") \/ At("report") \/ At("stability"))
  BY DEF SandboxStage, EvidenceStage, QuietRefused, QuietEnds, Report, Stability, At, kept
<1>2. mode = "validate"
  <2>1. ASSUME mode = "prepare" PROVE FALSE
    BY <1>1, <2>1, PLeftAt DEF PInv, At
  <2> QED
    BY <2>1 DEF VInv, Reporting
<1>3. outcome' # Prepared
  <2>1. outcome # Prepared
    BY <1>2 DEF PInv
  <2>2. CASE SandboxStage
    BY <2>1, <2>2 DEF SandboxStage, Proceed, Stop, Raised, Prepared
  <2>3. CASE EvidenceStage
    <3>1. PICK a, b, c \in Verdicts, granted \in BOOLEAN, root \in {"removed", "left", "virtual"} :
            Pass(source # 0 /\ MayBuildShell(a, b, c, granted, root),
                 IF source = 0 THEN "FAIL" ELSE SandboxStatus(a, b, c, granted, root))
      BY <2>3 DEF EvidenceStage
    <3>2. SandboxStatus(a, b, c, granted, root) # Prepared /\ "FAIL" # Prepared
      BY DEF SandboxStatus, Prepared
    <3> QED
      BY <2>1, <3>1, <3>2 DEF Pass, Proceed, Stop
  <2>4. CASE QuietRefused \/ QuietEnds
    BY <2>1, <2>4 DEF QuietRefused, QuietEnds, BuildErrors, Raised, Proceed, Stop, Prepared
  <2>5. CASE Report
    BY <2>5 DEF Report, Prepared
  <2>6. CASE Stability
    BY <2>1, <2>6 DEF Stability, Prepared
  <2> QED
    BY <2>2, <2>3, <2>4, <2>5, <2>6
<1> QED
  BY <1>1, <1>2, <1>3 DEF PInv

LEMMA BootAsks == ASSUME Boot PROVE asked' = asked
  BY DEF Boot, Poll, GiveUp, OpenMenu, AskDesktopToQuit, LookOn, Check, InTurn, CleanUp, Sweep,
         Conclude, smokeVars, bootVars

LEMMA BootRuns == ASSUME Boot PROVE spc # "off"
  BY DEF Boot, Poll, GiveUp, OpenMenu, AskDesktopToQuit, LookOn, Check, InTurn, CleanUp, Sweep,
         Conclude

LEMMA NextKeepsPInv ==
  ASSUME VInv, PInv, BootInv, [Next]_vars
  PROVE  PInv'
<1>1. CASE QuietBegins \/ QuietLoop \/ Update \/ Beside \/ Booting \/ UNCHANGED vars
  <2>1. UNCHANGED <<flowVars, asked>>
    BY <1>1, BootAsks DEF QuietBegins, QuietLoop, Update, Beside, Around, Booting, vars,
                         smokeVars, bootVars
  <2>2. ASSUME outcome = Prepared PROVE UNCHANGED <<spc, session>>
    <3>1. agenda = <<>> /\ spc = "off"
      BY <2>2 DEF PInv
    <3>2. ~Beside /\ ~Booting
      BY <3>1, BootRuns DEF Beside, Booting, At
    <3> QED
      BY <1>1, <3>2 DEF QuietBegins, QuietLoop, Update, vars, smokeVars, bootVars, deskVars
  <2> QED
    BY <2>1, <2>2, PlainKeepsPInv DEF flowVars
<1> QED
  BY <1>1, StageKeepsPInv, InstallKeepsPInv, BootKeepsPInv, JudgeKeepsPInv, ValidateKeepsPInv
  DEF Next, Tool

\* "validate" boots no shell before it has built one.
NotYet == mode = "validate" /\ built = 0 => spc = "off"

LEMMA QuietIsEarly ==
  ASSUME VInv, PInv, NotYet, At("quiet")
  PROVE  spc = "off"
<1>1. CASE mode = "validate"
  <2>1. InOrder /\ Ground
    BY <1>1 DEF VInv
  <2>2. Len(agenda) = 6
    BY <2>1, LeftAt
  <2>3. built = 0
    BY <2>1, <2>2 DEF Ground
  <2> QED
    BY <1>1, <2>3 DEF NotYet
<1>2. CASE mode = "prepare"
  <2>1. agenda # <<>> /\ PEnd
    BY <1>2, AtHas DEF PInv
  <2> QED
    BY <2>1, PLeftAt DEF At
<1> QED
  BY <1>1, <1>2 DEF VInv, Reporting

LEMMA NextKeepsNotYet ==
  ASSUME VInv, NotYet, [Next]_vars
  PROVE  NotYet'
<1>1. CASE UNCHANGED <<mode, built, spc>>
  BY <1>1 DEF NotYet
<1>2. CASE BootBegins
  <2>1. At("boot") /\ UNCHANGED <<mode, built>>
    BY <1>2 DEF BootBegins
  <2>2. ASSUME mode = "validate" PROVE built # 0
    <3>1. InOrder /\ Ground
      BY <2>2 DEF VInv
    <3>2. Len(agenda) = 3
      BY <2>1, <3>1, LeftAt
    <3> QED
      BY <3>1, <3>2 DEF Ground
  <2> QED
    BY <2>1, <2>2 DEF NotYet
<1>3. CASE Booting
  BY <1>3, BootRuns DEF Booting, NotYet, flowVars
<1>4. CASE JudgeBoot \/ Report
  BY <1>4 DEF JudgeBoot, Report, NextBoot, NotYet
<1>5. CASE Install
  <2>1. UNCHANGED <<mode, spc>> /\ (built' = built \/ (built' = source /\ source # 0))
    <3>1. UNCHANGED <<mode, smokeVars>>
      BY <1>5 DEF Install
    <3>2. (built' = source /\ source # 0) \/ UNCHANGED <<built, rebuilt>>
      BY <1>5, Zenon DEF Install
    <3>3. spc' = spc /\ mode' = mode
      BY <3>1 DEF smokeVars, bootVars
    <3>4. ASSUME UNCHANGED <<built, rebuilt>> PROVE built' = built
      BY <3>4
    <3> QED
      BY <3>2, <3>3, <3>4, Zenon
  <2> QED
    BY <2>1 DEF NotYet
<1>6. CASE \/ HostStage \/ Review \/ SandboxStage \/ EvidenceStage \/ QuietRefused \/ QuietBegins
           \/ QuietLoop \/ QuietEnds \/ BuildGate \/ Stability \/ Update \/ Beside
           \/ UNCHANGED vars
  BY <1>1, <1>6
  DEF HostStage, Review, SandboxStage, EvidenceStage, QuietRefused, QuietBegins, QuietLoop,
      QuietEnds, BuildGate, Stability, Update, Beside, Around, kept, vars, flowVars, smokeVars,
      bootVars
<1> QED
  BY <1>2, <1>3, <1>4, <1>5, <1>6 DEF Next, Tool

LEMMA PStarts == Init => PInv /\ BootInv /\ NotYet /\ Imaged
<1> SUFFICES ASSUME Init PROVE PInv /\ BootInv /\ NotYet /\ Imaged
  OBVIOUS
<1>1. BootInv
  BY DEF Init, SInit, BootInv, Unseen, Readings, Windows, Shown, LoggedIn, LoginWays
<1>2. outcome # Prepared /\ boots = 0 /\ agenda = Agenda[mode]
  BY DEF Init, Prepared
<1>3. ASSUME mode = "prepare" PROVE PEnd /\ Done(Len(agenda))
  <2>1. agenda = POrder
    BY <1>2, <1>3 DEF POrder
  <2>2. PEnd /\ Len(agenda) = 12
    BY <2>1, PPlaces DEF PEnd
  <2> QED
    BY <1>2, <2>2 DEF Counted, Done, DoneNext
<1>4. NotYet
  BY DEF Init, SInit, NotYet
<1>5. image \in [Pid -> Image]
  BY DEF Init, SInit, QInit, Snapshot
<1>6. Imaged
  BY <1>5 DEF Imaged
<1> QED
  BY <1>1, <1>2, <1>3, <1>4, <1>6 DEF PInv, PreparedMeansPersisted, Prepared

\* A login is only called persistent when it is on disk and, in the two boots
\* after the first, the second of them in a rebuilt shell, it was found there or
\* was given at a page that no reading graded AUTH_REQUIRED: for every desktop,
\* user, layout, machine and bound (prepare_desktop_auth,
\* phase2a5_host_validation.py:1945-2011).
THEOREM PreparedIsPersisted == Spec => []PreparedMeansPersisted
<1>1. PInv /\ VInv => PreparedMeansPersisted
  BY DEF PInv, VInv, Reporting, PreparedMeansPersisted, Prepared
<1>2. VInv /\ PInv /\ BootInv /\ NotYet /\ Imaged /\ [Next]_vars
        => PInv' /\ BootInv' /\ NotYet' /\ Imaged'
  BY NextKeepsPInv, NextKeepsBoot, NextKeepsImaged, NextKeepsNotYet, QuietIsEarly
<1> QED
  BY PStarts, <1>1, <1>2, VInvHolds, PTL DEF Spec
=============================================================================
