-------------------------------- MODULE Smoke -------------------------------
(***************************************************************************)
(* One boot of the patched shell under observation (scripts/windows/       *)
(* smoke.py, run_patched_shell_smoke).  The launcher starts the desktop,   *)
(* the desktop the mux, the mux the real Codex.  A loop polls processes,   *)
(* the mux's health and the test bridge until everything was seen, the     *)
(* shell exited or the time is over; what was attributed to the boot is    *)
(* terminated and the root is swept (Quiesce).  The desktop is external:   *)
(* its window, its user and its session are modelled from what the loop    *)
(* reads of them.                                                          *)
(***************************************************************************)
EXTENDS Quiesce, Sandbox

CONSTANTS
  Desktop, Mux, Codex,  \* the three processes of a boot
  Layouts,              \* what a boot may find on disk
  Probes,               \* logs that the shell may write
  MaxPolls              \* bound: turns of the loop, for its deadline

ASSUME SmokeAssumption ==
  /\ Pid = {Desktop, Mux, Codex} /\ Cardinality(Pid) = 3
  /\ Parent[Mux] = Desktop /\ Parent[Codex] = Mux
  /\ MaxPolls \in Nat \ {0}

VARIABLES
  spc,        \* where the boot is
  asked,      \* what it is for: [prepare, strict]
  ui,         \* what the desktop's window shows
  session,    \* where the login is: nowhere, in memory, on disk
  baseline,   \* pids that ran when the shell was launched
  tracked,    \* pids attributed to the boot
  seenOf,     \* what the loop has seen
  status,     \* the boot's status
  login       \* history: how the boot came by its login (LoginWays)

bootVars == <<spc, asked, baseline, tracked, seenOf, status>>
deskVars == <<ui, session, login>>
smokeVars == <<bootVars, deskVars>>

\* Not yet, found on disk, given by the user before any reading said
\* AUTH_REQUIRED; or some reading said it, and the gate called it something
\* else ("masked") or AUTH_REQUIRED ("asked").
LoginWays == {"none", "disk", "hand", "masked", "asked"}

\* ever: the launcher ran; ready: health, the bridge's stage and its ping all
\* answered; state: the last reading of the window; met: the chain's
\* processes; opened, quit: how the activation and the shutdown went.
Unseen == [ever |-> FALSE, healthy |-> FALSE, ready |-> FALSE, state |-> "none", met |-> {},
           confirmed |-> FALSE, opened |-> "no", quit |-> "no", polls |-> 0,
           fit |-> FALSE, errors |-> FALSE]

SInit ==
  /\ QInit
  /\ spc = "off" /\ asked = [prepare |-> FALSE, strict |-> FALSE]
  /\ ui = "blank" /\ session \in {"none", "disk"} /\ login = "none"
  /\ baseline = {} /\ tracked = {} /\ seenOf = Unseen /\ status = "none"

Up == image[Desktop] # "none"

\* The locals of quiesce_processes_under_root go with the call.
LoopStarts(at) == qpc' = at /\ rows' = {} /\ todo' = {} /\ scans' = 0 /\ clean' = 0
                  /\ faults' = 0 /\ clock' = 0 /\ verdict' = "none" /\ seen' = {NoPid}
LoopReturns == LoopStarts("off")

-----------------------------------------------------------------------------
(* What the window shows and how the menu gate grades it.                   *)

Page(auth, controller, injected) ==
  [loaded |-> TRUE, errors |-> FALSE, settled |-> TRUE, auth |-> auth, controller |-> controller,
   injected |-> injected, mounted |-> injected, failed |-> FALSE, accounts |-> injected]
Unknown == [Page("UNKNOWN", FALSE, FALSE) EXCEPT !.loaded = FALSE]
Pages == [login |-> Page("AUTH_REQUIRED", FALSE, FALSE),
          home |-> Page("AUTHENTICATED", TRUE, FALSE),
          open |-> Page("AUTHENTICATED", TRUE, TRUE)]
Shows == [blank |-> Unknown,
          login |-> Pages.login, home |-> Pages.home, open |-> Pages.open,
          loginLoading |-> [Pages.login EXCEPT !.settled = FALSE],
          homeLoading |-> [Pages.home EXCEPT !.settled = FALSE],
          openLoading |-> [Pages.open EXCEPT !.settled = FALSE],
          loginCrash |-> [Pages.login EXCEPT !.errors = TRUE],
          crash |-> [Pages.home EXCEPT !.errors = TRUE]]

\* A page may be read while it is loading or lacks its root.
Loading == [login |-> "loginLoading", home |-> "homeLoading", open |-> "openLoading"]
ReadOf(page) == {"failed", page} \cup {Loading[p] : p \in {page} \cap DOMAIN Loading}

\* _router_account_menu_evidence: a reading that failed proves nothing.
Evidence(state) == IF state \in DOMAIN Shows THEN Shows[state] ELSE Unknown
AuthOf(state) == Evidence(state).auth

\* router_account_menu_gate: the first thing that is not as it should be.
MenuStatus(ready, state, opened) ==
  LET e == Evidence(state)
  IN  CASE ~ready -> "TRANSPORT"
        [] ready /\ state \notin DOMAIN Shows -> "STATE"
        [] OTHER ->
             IF ~e.loaded THEN "RENDERER_NOT_LOADED"
             ELSE IF e.errors THEN "RENDERER_ERROR"
             ELSE IF ~e.settled THEN "UI_NOT_READY"
             ELSE IF e.auth # "AUTHENTICATED" THEN e.auth
             ELSE IF ~e.controller THEN "CONTROLLER_NOT_READY"
             ELSE IF opened = "failed" THEN "ACTIVATION_FAILED"
             ELSE IF ~e.injected THEN "NOT_INJECTED"
             ELSE IF ~e.mounted THEN "NOT_MOUNTED"
             ELSE IF e.failed \/ ~e.accounts THEN "ACCOUNTS" ELSE "PASS"
Menu == MenuStatus(seenOf.ready, seenOf.state, seenOf.opened)

-----------------------------------------------------------------------------
(* The desktop and its user.                                                *)

\* What becomes of the login when the desktop is gone: one that is only in
\* memory is lost, unless the desktop quits as it was asked to.
LoginLeft == IF session = "memory"
             THEN (IF seenOf.quit = "accepted" THEN "disk" ELSE "none") ELSE session

\* A process of the chain starts another; one exits.
Spawn(p) ==
  /\ image[p] = "none" /\ p # Desktop /\ image[Parent[p]] # "none"
  /\ image' = [image EXCEPT ![p] = "shell"]
  /\ UNCHANGED session
Leave(p) ==
  /\ image[p] # "none"
  /\ image' = [image EXCEPT ![p] = "none"]
  /\ session' = IF p = Desktop THEN LoginLeft ELSE session
\* Nothing is read of them between the poll and what it decides.
Processes == spc # "turn" /\ (\E p \in Pid : Spawn(p) \/ Leave(p)) /\ UNCHANGED <<ui, login, starts>>

\* The window is drawn from the session on disk; the user logs in, and the
\* session is written or not; the page reports a renderer error.
Draw == /\ Up /\ ui = "blank"
        /\ ui' = IF session = "none" THEN "login" ELSE "home"
        /\ login' = IF session = "disk" THEN "disk" ELSE login
        /\ UNCHANGED session
LogIn == /\ Up /\ ui \in {"login", "loginCrash"}
         /\ ui' = [login |-> "home", loginCrash |-> "crash"][ui]
         /\ login' = IF login = "none" THEN "hand" ELSE login
         /\ session' \in {"memory", "disk"}
Break == /\ Up /\ ui \in DOMAIN Pages
         /\ ui' = [login |-> "loginCrash", home |-> "crash", open |-> "crash"][ui]
         /\ UNCHANGED <<session, login>>
\* The poll alone reads the window; what happens to it before counts from then.
Window == spc = "poll" /\ (Draw \/ LogIn \/ Break) /\ UNCHANGED procVars

Around == (Processes \/ Window) /\ UNCHANGED <<bootVars, loopVars>>

-----------------------------------------------------------------------------
(* The launch.                                                              *)

\* The refusals, the profile layout, the required paths and the control token.
Refused(l) == \/ l.store \/ l.linked \/ l.stateInside \/ ~l.complete
              \/ ~l.profileOwned \/ ~l.realValid \/ ~l.tokenValid

\* preflight_ui_bridge_port: a desktop that still runs holds the port.
PortFree == ~Up

\* What was only in memory is lost by now, what was on disk may have expired.
Launch(prepare, strict) ==
  /\ spc = "off"
  /\ asked' = [prepare |-> prepare, strict |-> strict]
  /\ seenOf' = Unseen /\ tracked' = {}
  /\ \E l \in Layouts, starting \in BOOLEAN :
       LET refused == Refused(l) \/ ~PortFree
       IN  /\ spc' = CASE refused -> "over" [] ~refused /\ starting -> "poll" [] OTHER -> "end"
           /\ status' = IF refused THEN "BLOCKED" ELSE "none"
           /\ baseline' = Running(image)
           /\ IF ~refused /\ starting
              THEN /\ image' = [image EXCEPT ![Desktop] = "shell"]
                   /\ ui' = "blank" /\ login' = "none"
                   /\ session' \in IF session = "disk" THEN {"disk", "none"} ELSE {"none"}
              ELSE UNCHANGED <<image, deskVars>>
  /\ UNCHANGED <<starts, loopVars>>

-----------------------------------------------------------------------------
(* The loop.                                                                *)

NowTracked == tracked \cup Attributed(Desktop, baseline, image, tracked)

\* How the login goes down in the history after one more reading.
Noted(shown) ==
  IF AuthOf(shown.state) # "AUTH_REQUIRED" THEN login
  ELSE IF MenuStatus(shown.ready, shown.state, shown.opened) = "AUTH_REQUIRED" \/ login = "asked"
       THEN "asked" ELSE "masked"

\* One turn's snapshot and readings.  Health and ping are asked until they
\* answered once, the state is read anew each time and may fail.
Poll ==
  /\ spc = "poll"
  /\ IF seenOf.polls = MaxPolls THEN spc' = "end" /\ UNCHANGED <<tracked, seenOf, login>>
     ELSE /\ spc' = "turn" /\ tracked' = NowTracked
          /\ \E read \in IF Up THEN ReadOf(ui) ELSE {"failed"} :
               LET healthy == seenOf.healthy \/ image[Mux] # "none"
                   ready == seenOf.ready \/ (healthy /\ Up)
               IN  seenOf' = [seenOf EXCEPT
                     !.polls = @ + 1, !.ever = @ \/ Up, !.healthy = healthy, !.ready = ready,
                     !.state = IF ready THEN read ELSE @,
                     !.met = @ \cup (tracked' \cap Running(image) \cap {Mux, Codex})]
          /\ login' = Noted(seenOf')
  /\ UNCHANGED <<asked, baseline, status, ui, session, quiesceVars>>

LoginWanted == asked.strict /\ Menu = "AUTH_REQUIRED"
Confirmed == seenOf.confirmed \/ (seenOf.ready /\ AuthOf(seenOf.state) = "AUTHENTICATED")
MayOpen == ~asked.prepare /\ Confirmed /\ Evidence(seenOf.state).controller
           /\ seenOf.opened = "no" /\ seenOf.ready
\* One turn stands for AUTH_PERSISTENCE_QUIESCENCE_SECONDS.
MayQuit == asked.prepare /\ seenOf.confirmed /\ seenOf.quit = "no" /\ seenOf.ready

InTurn == spc = "turn" /\ UNCHANGED <<asked, baseline, tracked, status, session, login, quiesceVars>>

\* fail_if_auth_required.
GiveUp == InTurn /\ LoginWanted /\ spc' = "end" /\ UNCHANGED <<seenOf, ui>>

\* action=profile-router-open, tried once; its answer replaces the reading.
OpenMenu ==
  /\ InTurn /\ ~LoginWanted /\ MayOpen /\ spc' = "check"
  /\ \/ /\ Up /\ ui = "home" /\ ui' = "open"
        /\ seenOf' = [seenOf EXCEPT !.confirmed = TRUE, !.opened = "ok", !.state = "open"]
     \/ /\ seenOf' = [seenOf EXCEPT !.confirmed = TRUE, !.opened = "failed"]
        /\ UNCHANGED ui

\* action=desktop-auth-graceful-quit, tried once; the desktop answers before it
\* quits.
AskDesktopToQuit ==
  /\ InTurn /\ ~LoginWanted /\ MayQuit /\ spc' = "check"
  /\ \E answer \in {"refused"} \cup (IF Up THEN {"accepted"} ELSE {}) :
       seenOf' = [seenOf EXCEPT !.quit = answer]
  /\ UNCHANGED ui

LookOn ==
  /\ InTurn /\ ~LoginWanted /\ ~MayOpen /\ ~MayQuit /\ spc' = "check"
  /\ seenOf' = [seenOf EXCEPT !.confirmed = Confirmed]
  /\ UNCHANGED ui

\* What ends the loop.
AllSeen == /\ seenOf.healthy /\ seenOf.state \in DOMAIN Shows /\ Menu = "PASS"
           /\ seenOf.met = {Mux, Codex}
           /\ asked.prepare => seenOf.quit = "exited"
AfterExit == IF ~Up /\ seenOf.quit = "accepted" THEN [seenOf EXCEPT !.quit = "exited"] ELSE seenOf

(* Seeded fault: the deadline is only looked at when the shell is gone. *)
CheckWithoutDeadline ==
  /\ spc = "check"
  /\ seenOf' = [AfterExit EXCEPT !.polls = 0]
  /\ spc' = IF ~Up \/ AllSeen THEN "end" ELSE "poll"
  /\ UNCHANGED <<asked, baseline, tracked, status, deskVars, quiesceVars>>

Check ==
  /\ spc = "check"
  /\ seenOf' = AfterExit
  /\ spc' = IF ~Up \/ AllSeen THEN "end" ELSE "poll"
  /\ UNCHANGED <<asked, baseline, tracked, status, deskVars, quiesceVars>>

-----------------------------------------------------------------------------
(* The end of the boot.                                                     *)

\* build_production_gate, less the sweep.
Gate(graded) == /\ seenOf.ever /\ graded = "PASS" /\ seenOf.healthy /\ seenOf.ready
               /\ Menu = "PASS" /\ {Mux, Codex} \subseteq seenOf.met \cup (NowTracked \cap Running(image))
\* What the shell's log and its windows may come to.
Graded == {Classified([probe EXCEPT !.running = Up, !.window = window]) :
             probe \in Probes, window \in BOOLEAN}

\* The last snapshot, terminate_attributed_processes and the launcher's own
\* termination: some targets stay, because a termination failed or because
\* the parent, which is visited later, started the process again.  Then
\* quiesce_processes_under_root is called, which has no bridge to ask.  Of
\* what was seen, only what the status and the caller read is kept.
CleanUp ==
  LET targets == Targets(NowTracked, image)
      end == AfterExit
  IN  /\ spc = "end" /\ qpc = "off" /\ spc' = "sweep"
      /\ \E gone \in SUBSET targets, failed \in BOOLEAN, graded \in Graded :
           /\ image' = [p \in Pid |-> IF p \in gone THEN "none" ELSE image[p]]
           /\ Desktop \in targets \ gone => failed
           /\ seenOf' = [Unseen EXCEPT
                !.state = IF AuthOf(end.state) = "AUTHENTICATED" THEN "home"
                          ELSE IF Menu = "AUTH_REQUIRED" THEN "login" ELSE "failed",
                !.quit = end.quit, !.errors = failed,
                !.fit = IF asked.prepare
                        THEN end.confirmed /\ end.quit = "exited" /\ ~failed
                        ELSE Gate(graded)]
      /\ session' = IF image'[Desktop] = "none" THEN LoginLeft ELSE session
      /\ ui' = "blank" /\ tracked' = {} /\ baseline' = {}
      /\ LoopStarts("scan")
      /\ UNCHANGED <<asked, status, login, starts, blind>>

Sweep == spc = "sweep" /\ (Scan \/ Terminate \/ TurnOver) /\ UNCHANGED smokeVars

(* Seeded fault: the report of the attributed clean-up stands for the sweep. *)
SweptAsReported == ~seenOf.errors

\* post_cleanup_pass.
Swept == verdict = "QUIESCENT"

\* The status, in the order of the return.
Conclude ==
  /\ spc = "sweep" /\ qpc = "done"
  /\ LET pass == seenOf.fit /\ Swept
     IN  status' = CASE pass -> IF asked.prepare THEN "BOOT_AUTHENTICATED" ELSE "PASS"
                     [] ~pass /\ seenOf.state = "login" -> "AUTH_REQUIRED"
                     [] OTHER -> IF Swept THEN "BLOCKED" ELSE "BUSY"
  /\ spc' = "over" /\ LoopReturns
  /\ UNCHANGED <<asked, baseline, tracked, seenOf, deskVars, procVars, blind>>

Boot == Poll \/ GiveUp \/ OpenMenu \/ AskDesktopToQuit \/ LookOn \/ Check
        \/ CleanUp \/ Sweep \/ Conclude

\* A boot that passed leaves no process of the shell behind: late and orphaned
\* children, failed terminations and lost snapshots included (smoke.py:2105-2116
\* and post_cleanup_pass, smoke.py:2206).
NothingLeftBehind ==
  spc = "over" /\ status \in {"PASS", "BOOT_AUTHENTICATED"} => Holding(image) = {}
=============================================================================
