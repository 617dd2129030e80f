# A verification project for the Codex subscription router

The repository puts a multiplexer (`codex-mux`, Go) between the Codex desktop
application and one official `codex app-server` process per ChatGPT
subscription, and carries the tooling (Python, PowerShell, JavaScript, a little
C) that builds, patches, installs and validates a desktop that starts it. This
directory models the program in TLA+, checks the models on small instances with
TLC, and proves what matters most for every instance with TLAPS. Paths below
are relative to the repository.

* `PROJECT.json` lists components, runs, seeded faults, the source lines behind
  every definition, the findings, the hazards and the theorems.
* `tlc -config X.cfg M` runs a model; `tlapm M.tla` checks the proofs of a module.

## 1. What the system is made of

| Component | State | Operations | Hard behaviours | What makes it correct |
|---|---|---|---|---|
| **Request router** `internal/mux/{mux,thread_list,scoped_request}.go` | `externalRoutes`, the thread owners (in the store), `initializeParams`, `initialized`, `serverRoutes` | dispatch of client messages, thread/start, turn/start with failover, thread/list fan-out, scoped plugin requests, replies, notices, handshake, server requests | one stdin loop, one inbound loop and a goroutine per start, turn retry, list and initialize share the tables; owners read before two awaited calls and used after; usage-limit retries; child exits | a turn reaches a child that can open its thread; one answer per request; owner moves follow the rollout; retries end; approvals reach whoever asked |
| **Account choice** `internal/mux/accounts.go`, `rate_limit_resets.go` | reset-credit cache (5 min), previews | snapshot every account, rank by reset urgency, pick | slow or dead children, stale cache, a comparator that treats near-equal scores as equal | a usable account is found if one is; the choice does not depend on listing order |
| **Account and thread store** `internal/state/store.go` | accounts, owners, `state.json`, isolated homes | Open, AddAccount, UpdateAccount, SetThreadOwner, reads | kill between two file operations, failing file operations, first run | the file is never torn and forgets nothing; readers see what is saved; homes exist before accounts |
| **Managed config** `internal/state/config.go` | one `config.toml` per account | merge of the root config, every 2 s | the child rewrites the same file | credentials stay isolated, project trust survives |
| **Child process** `internal/backend/child.go` | pending table, id counter, write lock, pipes, closed channel | Request, Send/SendRaw, readLoop, waitLoop, Close | deadlines racing replies, exits racing calls, full pipes, locks held over channel sends | a call gets its own reply or an error, returns, and leaves nothing behind |
| **JSON-RPC envelope** `internal/protocol` | none | encode, parse | none | the id of a message is kept |
| **Control server** `internal/control/server.go` | token, event subscribers | REST calls on accounts, event stream | slow subscribers, unsubscribe during publish | every call is authorised and bounded; a slow subscriber stops nobody |
| **Profile aggregation** `internal/mux/{profile,combined_profile}.go` | response cache | sum statistics, merge streaks | none | sums are right |
| **Mux executable** `cmd/codex-mux` | token file | wire everything, read stdin | a second instance on one state root | one loop serves stdin |
| **Launchers** `cmd/codex-router-launcher`, `native/launcher.c` | none | resolve paths, start the desktop | running twice | the right profile is used |
| **Windows installation** `scripts/patch_app_windows.py`, `scripts/windows/{mirror,integrity,acl,fuses,reviewed_sources}.py` | temporary tree, destination, backup or rollback, the mux home's token, free space | gate on the reviewed source, plan, weigh, mirror, patch, seal, install by two renames, restore | a crash or a failing rename between the two, late processes, a full disk, retries | some complete build always survives; a failure keeps the old one; what is installed starts and reaches its mux |
| **Process discovery and quiescence** `scripts/windows/{discovery,host_context}.py` | process snapshots, counters of the loop | attribute, terminate, wait for two clean scans; choose source, shell and real binary | processes that start or exit between scan and act, snapshots that fail, reused pids | quiet means quiet; the loop ends |
| **Smoke and host validation** `scripts/windows/{smoke,phase2a5_host_validation,bootstrap,compatibility}.py` | what a boot has seen, validation profile, report | review, sandbox probes, build, launch, poll, open the menu, graceful quit, clean up, sweep, judge | a desktop and a user that act between polls, a package that is updated, clean-up that fails half-way, three boots in a row | no pass without evidence, none with processes left behind, none of another package |
| **Bundle patching** `scripts/patch_app.py`, `patch_common.py`, `windows/renderer_26_901.py` | bundle text; on macOS two bundles, their backups and failed copies | select a contract, audit, patch in order; on macOS four renames and a handler | an anchor that matches never or twice, assets patched in turn, any of four renames failing | all patches or none; app and helper are replaced together or come back |
| **Injected UI** `ui/*.js` | badge and menu caches | poll, render, switch account | a stale response after a switch | what is shown belongs to what is selected |

How they interact: the desktop writes JSON lines to the mux's stdin. The
stdin loop hands each to the router, which asks the store for the owner of a
thread, makes awaited `Request`s of children (internal ids) or passes the
client's request on under its own id. Every child's `readLoop` gives replies to
awaited calls directly and pushes everything else into one channel, which the
inbound loop empties to the client. The control server calls the router and the
store from HTTP goroutines. A ticker merges configs. The Python tooling runs
before and after all that and touches files and processes only.

## 2. What is modelled, module by module

`Router` — `internal/mux` for client requests. A request's `pc` says what the
code that handles it does next: `check` is `routeTurnStart` having found the
owner, `choose`/`resume`/`own` are `failoverTurn` around its two awaited
calls, `forward` is `forwardWithExclusions`, `gather`/`merge` are
`aggregateThreadList`. Dispatch is guarded by `LoopFree`, because the stdin
loop executes `routeExistingRequest` itself, while starts, retries and lists run
in goroutines that interleave with everything. `owner` and `enabled` are the
store as the router sees it (a failed save leaves the table changed,
`TakeOwnership`), `route` is `externalRoutes`, `inbox`/`outbox`/`notices` the
pipes of all children together with `m.inbound`, unordered, as different children
are. The inbound loop takes two steps for whatever names a thread: it takes the
route out and pins the thread (`LearnThreadOwner`, `PinThread`), keeps what it is
about to write in `handed`, and only then writes to the client (`WriteReply`,
`WriteNotice`), while everything else runs on. The client may name threads of an
earlier run (`Remembered`) that the table has no owner for: those go to the
controller, as in `routeExistingRequest`, and `orphan` remembers which turns did.
Children are external: they answer `ok`, `limit` or `error`, can open the
threads in `holds`, and may exit, losing any part of what is in their pipes.
Account readings are abstracted to four views (`room`, `blind`, `spent`,
`silent`), which is what the choice distinguishes; the rank among accounts with
room is a free choice. Error texts, the numbers in rate limits, and titles are
left out.

`Switchboard` — what the router promises: requests move from unsent to
pending to answered once; copies of a thread only spread; a thread's home is an
account that has a copy. `Router!KeepsPromise` maps `pc` to the status, `owner`
to the home and `holds` to the copies.

`StateStore` — `internal/state/store.go`, file operation by file
operation. One operation at a time holds `s.mu` (`stage`, `job`); a save is
truncate, fill, rename. `SaveFails` may replace any of the three, `Crash` may
come anywhere, `tmp` and `file` survive. `seen` is memory as readers see it (the
mutex hides a save under way), `behind` whether a save has failed since the last
good one, `acked` what `SetThreadOwner` has accepted. Labels and creation times
are left out. Rename is atomic and what was written before it is there after it:
a kill is modelled, a power cut is not.

`Ledger` — what the store promises: every operation takes effect at one
instant on what readers see and, unless the disk failed it, on what a restart
finds; a restart brings back exactly the stable image.

`ChildRpc` — `internal/backend/child.go`, one process. `pc` follows
`Request` and `SendRaw`; `pending` is the table, keyed by ids drawn from
`sequence`; `chan` are the one-place channels; `writer` holds `writeMu`;
`waiter = "drain"` means that waitLoop holds `pendingMu`, the only critical
section longer than a step. `readLoop` holds one line at a time (`reader`), and
blocks on a full channel. Pipes and the inbound channel have capacities. A line
carries, besides its id, whose request it is: that is history, and is what
`OwnReply` compares. A line that is not JSON is skipped (`SkipLine`), and one the
scanner cannot hold, or the end of the pipe, ends readLoop for good (`ReadEnds`).
`WaitReturns` may cut the unread output of the child off,
as `Wait` closes the pipe.

`ChildPool` — the handshake in `mux.go`: `initialize` fanning out in its
own goroutine, `initialized` on the stdin loop, and `startChild` for added
accounts, with the order in which each joins the pool, reads the flags and
sends. `got` records what each app-server received. The client sends
`initialized` when it has the answer, as the protocol asks.

`ServerRequests` — the other direction, `forwardServerRequest` and
`handleServerRequestResponse`. App-servers number requests alike and reuse
numbers; the client may answer an id more than once; app-servers exit.

`Processes`, `Quiesce` — `windows/discovery.py`. A snapshot maps every pid to an
image: inside the Router's root with a readable path ("shell"), with a path that
cannot be read ("sealed"), or foreign. `Owned`, `Attributed`, `Targets` and
`Deepest` are the queries of the code; the transitive ones are least closed sets.
`Quiesce` is the loop of `quiesce_processes_under_root`, one action per part of
a turn (`FirstRead`, `AskToQuit`, `Scan`, `Terminate` for each pid, `TurnOver`),
with `Start` and `Exit` of processes between any two, snapshots that fail (an
empty list natively, an exception otherwise), terminations that fail or take time,
and the clock in intervals. `seen` is history: what the last scan that really
looked found.

`Discovery`, `SourceGate`, `Mirror`, `Payload`, `Bootstrap`, `Renderer` — the pure
decisions of the tooling: which source, shell and binary; whether a
package has one reviewed record; what is planned, weighed and verified; which
binaries get the new archive digest and when Electron then boots; what the
startup patch and audit count; which renderer contract fits, what its audit says
and in which order assets are patched. A package is a record of what those
functions read: counts of anchors (0, 1, more), roles and sizes of files, fuse and
resource of binaries. No text of a bundle appears.

`DesktopInstall` — `main`, `build_windows_desktop` and `_atomic_install`,
EXTENDing all of the above. `pc` is the stage; `stage` is the temporary directory,
which `Leave` removes and `Die` does not; `made` is what each attempt put
together; `dest`, `side`, `moved` are the destination, what lies under backup or
rollback names, and what this attempt moved there; `free` is the volume. A
persistent shell is quiesced first (`Begin`, `Look`, `Quiet`) and looked at once
more just before its rename (`AssertQuiet`); `MoveAside` is denied while a process
holds the root. Where the code copies over what is there it does so in steps with
space of their own: the repacked archive is packed (`Repack`) and then copied over the
mirrored one (`StageArchive`, a full disk there being a storage block), the mirrored unpacked
tree is deleted (`ClearUnpacked`) and the generated one copied (`CopyUnpacked`). `ToolFails` lets any stage fail, `Die` any step be the last, and
`Begin` starts the next attempt on what is left.

`MacInstall` — `patch_app` of `patch_app.py`: its checks and stages as
conditions, then the four renames one by one, and the handler step by step, from the
directory it makes first (`MakeFailed`) to its renames, any of which may fail.
`Installers` puts the two platforms in one specification, of which a behaviour runs
one, and states what both promise: `Replacement`, in which a build is
withdrawn, published, restored or discarded, and discarded only with another in
place.

`Sandbox`, `Smoke` — `windows/smoke.py`. `Sandbox` classifies launch probes.
`Smoke` is one boot: `Launch`, then `Poll` (process snapshot, health, bridge, the
window's state) and one of `GiveUp`, `OpenMenu`, `AskDesktopToQuit`, `LookOn`, then
`Check`, until everything was seen, the shell exited or the deadline
passed; `CleanUp` terminates what was attributed to the boot, `Sweep` is the
loop of `Quiesce`, `Conclude` the status. The desktop is external: three
processes that start each other and exit, a window that is blank, a login page,
home, open menu or one of these with a renderer error, and a session that is nowhere, in
memory or on disk. A reading of the window may fail or find the page still
loading, and the user may log in on any login page at any time, whatever was read
of it. `login` is history: whether the boot found its login on disk, or got
it by hand before any reading said AUTH_REQUIRED, or after one that the gate graded as
something else ("masked"), or as AUTH_REQUIRED ("asked").

`HostValidation` — `run_phase2a5_host_validation` and
`prepare_desktop_auth` as agendas of stages over `Smoke`, `Quiesce`, `Sandbox`
and `SourceGate`'s reviewed versions. `Modes` says which of the two may be
started. The official package may be updated or removed between stages. An error
that leaves a stage is reported by `_phase2a5_failure_status` (`Raised`); a build of
"validate" has a report of its own that tells fewer apart (`BuildErrors`). `Install` stands for `DesktopInstall`, by what is proved
of it: a build that fails changes no shell, one that succeeds replaced a shell
nothing held open.

`MC*.tla` instantiate the modules; the `*Proofs` modules hold the theorems.

The modules meet at these points. `Router` treats an awaited call as one step
that yields a reply or an error, never another call's reply: `ChildRpc!OwnReply`
and `EveryCallReturns` are what justify that. `Router` treats the store's
table as one variable that changes at once: `StateStore!KeepsLedger` justifies
it. `Router` drops replies with internal ids: `ChildRpc!NoReplyAstray` shows
that those are only the late ones. `DesktopInstall` and `Smoke` run the very actions of
`Quiesce`. The launcher and the mux that a boot starts are the programs above; the
tooling shares nothing else with them but the control token (`RendererMuxAgree`).

## 3. Runs, bounds and what they show

| Run | Instance | Question | Result |
|---|---|---|---|
| `router` | 3 accounts, 2 threads (one exists, one can be created), 2 requests: a turn against a turn, list, resume or start; the client knows a thread that may have no owner yet; 1 toggle or 1 exit | ownership, routing and failover are safe; `Switchboard` is implemented | holds |
| `router_live` | 2 accounts, 2 requests of all nine kinds, 1 exit | every request is answered, or waits on an exited child | holds |
| `router_marker` | 2 accounts, scoped requests, 1 toggle | is the private marker always removed? | **violated**, finding 1 |
| `router_sticky` | 2 accounts, a turn and a list | does a thread move only when its owner is depleted? | **violated**, finding 2 |
| `store` | 2 accounts, 2 threads, kills and failures unbounded | the file is whole, forgets nothing; homes come first; `Ledger` is implemented | holds |
| `store_retry` | the same | is an accepted owner always in the file? | **violated**, finding 3 |
| `rpc` | 2 calls, 1 client request, 1 notice; pipes and channel of one message | replies reach their callers; nobody blocks under a lock; calls return | holds |
| `pool` | 2 accounts at the start, 1 added at any time, exits unbounded | nobody misses the handshake; it is in order; the client is answered | holds |
| `asks` | 2 app-servers, ids 0 and 1 reused, 3 requests | answers reach the request they were given for | holds |
| `install` | 11 kinds of package, 3 requests, 2 attempts, 2 failures of the platform or deaths of the tool, 2 processes, volumes with and without room; 4 macOS apps, 4 sets of flags, 2 failures | no build is lost; failures keep the old one; only what is not weighed fills the disk; what is installed works; quiet was seen; attempts end | holds |
| `validation` | validate and prepare, 4 kinds of machine, 3 versions of which two are reviewed, 3 processes, 3 polls in each boot, 3 boots | a pass is of the reviewed package and leaves nothing behind; a login called persistent was never given on a page graded AUTH_REQUIRED; the workflows end | holds |
| `preparation_login` | prepare, the same machines and processes, 1 version that may be removed | is no boot with an AUTH_REQUIRED reading called persistent? | **violated**, finding 4 |

Why the bounds suffice. Three accounts are the least with which a failover's
target can itself turn the turn down and be excluded; two requests give every
pair of handlers; one thread is contested and one created; one exit or one
toggle can come at every point (`OneUpset`). Accounts other than the controller are
interchangeable in the code, hence the symmetry of `router` (the refinement is
preserved by permuting accounts). At first one thread exists, on one account, and the
client knows it if the table does (`MCInit`, a restriction of `Init` that keeps the runs
small; the theorems are about `Init`). In `store`, two accounts make "listed before set up"
possible and two threads "one owner saved, another not". In `rpc`, capacity one
makes every queue full and two calls suffice for one to get the other's reply; a
third adds nothing to any step. In `pool` nothing is counted except accounts. In
`asks`, three requests let one app-server reuse an id while the other uses the
same. The safety properties do not depend on
the bounds: they are proved (section 5).

In `install`, two attempts let a retry meet whatever the first left (an old build
aside, a token, a full volume, a lost build), two failures make the rename and its
restore fail in one attempt, and parent and child are the least with which the
order of terminations matters. The packages are one per reviewed contract, the
unreviewed build the tool may be told to accept, and one for each way out of the
pipeline: torn anchors, a full source, a block map that is missing, a hook
twice, a fuse without a resource, a generated shell offered as source. The archive of one
extracts to more than the preflight reckons with, that of another grows when it is
patched. In sizes, 19 units are exactly enough where there is nothing to replace and too few beside an old
build; 37 are enough for either.
In `validation` three processes are the whole chain of a boot; three polls suffice for
"seen, acted, seen again", and `prepare` has as many boots as the code makes. Any
version may replace a lower one before any stage that reads the package, or be
removed; 1 and 3 are reviewed. `prepare`, which compares no versions after its review,
starts on version 3 (`MCInit`).

What the two models assume. At most one process snapshot fails in a run
(`MaxBlind` = 1): with two in a row QUIESCENT can be said of a root nobody looked
at, which is what the two clean scans buy and no more. Pids are not reused. Nobody else
fills the volume. In
`validation` versions only move forward (`_source_stability` compares
fingerprints, so a package that changed and changed back is the same); an update
counts from the next stage that reads it and what happens to the window from the
next poll, which reorders steps nobody can tell apart; of what a boot saw, `CleanUp`
keeps what the status and the caller read. A desktop that accepted to quit writes a session it
had in memory: that is Electron's part, and without it no login could be said to persist.
Errors raised inside a boot are not modelled: they end the workflow without a pass.

Deadlock is not reported where a behaviour may end: when all of a bounded
set of requests or calls is done. `store` never ends and is checked for deadlock.

Fairness. `Router!Fairness`: every handler and the inbound loop run (Go
schedules all runnable goroutines, and every internal call has a deadline, so an
awaited step ends), and a child that runs answers a request it has read. A child
may exit, and `EventuallyAnswered` says so. `ChildRpc!Fairness` asks only that
callers and waitLoop run and that deadlines pass: no fairness for readLoop, for
the child or for the client, so a stalled desktop is included.
`Installers!Spec` and `HostValidation!Spec` ask only that the tool, once started,
takes its next step: it is one sequential program whose waits all have deadlines.
Nothing is asked of processes, desktop, user or package, so shells that never quit
and that start again are included.
`ChildPool!FairSpec` asks that the goroutine of `initialize` runs; its calls
end because they have deadlines.

**Seeded faults.** For every property of a passing run `PROJECT.json` names
an operator (commented "Seeded fault" in the modules) that changes one
definition as a plausible bug would: an entry not deleted, an id read twice, a
file written in place, exclusions forgotten, one clean scan taken for two, an
old build deleted where it should be renamed, a deadline that is not looked at. With it in place of the original, the
property fails under the same configuration. Faults are not part of any `Next`.

## 4. Findings

1. **A private marker can reach an app-server** (`router_marker`,
   `scoped_request.go:15`, `mux.go:248`). The marker `codexMuxAccountId` is removed
   only when the marked account exists and is enabled; disabled between the
   renderer's read and the request, the message goes to the controller's child with
   the marker in its params, which the "strict RPC schema must never see". The trace is
   just that: an account is disabled, a scoped request that names it is routed and forwarded.
2. **A listing moves threads** (`router_sticky`, `thread_list.go:33`).
   `README.md:28` promises that follow-ups return to the same subscription unless
   it is depleted. After one failover two accounts list the thread, and each
   `thread/list` pins it to whichever listing completed last.
3. **A retried save is not made** (`store_retry`, `store.go:233`).
   `SetThreadOwner` keeps the new owner in memory when its save fails; set again,
   it finds the owner equal and returns nil. The owner is persisted only if some
   other operation saves, contrary to `docs/ARCHITECTURE.md:25`.
4. **A login by hand in a later boot counts as persistent** (`preparation_login`,
   `smoke.py:1388-1395`, `1967-1973`). `docs/WINDOWS-PHASE2A5-HOST-VALIDATION.md:405-411`
   has Boots 2 and 3 run "without manual interaction", `AUTH_REQUIRED` ending them. The
   loop ends such a boot only if the gate graded the reading AUTH_REQUIRED, and the gate looks
   at renderer errors and at whether the page is ready first. A login page that is
   loading, or reports an error, is passed over; if the user logs in before the next
   reading, the boot is authenticated and the workflow reports DESKTOP_AUTH_PREPARED.
   What does hold is `PreparedMeansPersisted`: the login is on disk, and in neither
   boot did the gate itself say AUTH_REQUIRED.

Not contradicted by any document, but seen while modelling: a child that
has exited is never restarted and keeps its entries in `externalRoutes`; the write
to a child's stdin has no deadline (`EveryCallReturns` excepts it); an account
added while the handshake is under way may be initialized twice, and then
`AddAccount` reports an error although the account is stored and its child
runs; `Wait` runs beside `readLoop` and may cut off the child's last output; a
second mux on the same state root runs on and overwrites `state.json`. In the host
workflows: after the desktop accepted to quit, the next poll reads its window
again, usually fails, and the boot then reports authentication unknown although
its status says authenticated (`smoke.py:1928`, `phase2a5_host_validation.py:1694`); `_auth_boot_succeeded`
does not look at the boot's clean-up, so a boot that left processes by another (`PreparedMeansPersisted` allows for that and
holds); a user who logs in before the first reading of the window is not noticed by
any boot; `prepare` neither quiesces before it builds nor compares the source
at its end. On macOS, when the rename of the installed app or helper to its backup fails, the
handler takes the untouched bundle for a failed installation, moves it to `failed-install`
and finds no backup to restore (`patch_app.py:958-971`): no bundle is lost (`NeverLost`), but
none is in place. The storage preflight has no term for the runtime with its copy of
`codex.exe`, nor for growth of the patched archive (`mirror.py:765-772`).

## 5. What is proved

Every safety property that a passing run checks, and each refinement, is also a
theorem: it holds for any sets of accounts, threads, requests, packages and
processes and for any bounds, from the named assumptions of the modules:
distinctness of the null values from data, the controller being an account,
counters and sizes being naturals, packages having finitely many files. Three
of the theorems (`QuietVerdict`, `AttemptsAreQuiet`, `PassLeavesNothing`) have a hypothesis of their own, said below and in their
statements; the runs satisfy it.
Few of the properties are inductive; each proof has an invariant that is, checked
with TLC before it was proved, with a lemma per action.

**RouterProofs.** `IInv` = `TypeOK`, `RoutingInv`, `CopiesInv`, `NamesLearnt`,
`KnownInv`, `TurnsInv`. `RouteMatchesChild` and `OneAnswer` are not inductive: that
a reply cannot meet another attempt needs, for each `pc`, whether the request has
a route and a message (`RoutingInv`). `OwnerHolds` needs that whatever a reply, a
listing or a notice would teach the table is true of the child that sent it
(`CopiesInv`); `KnownThreadHasOwner` that names of threads get out only after
they were learnt (`NamesLearnt`, `KnownInv`); `TurnLandsOnHolder` that a turn's
source and target hold its thread while it is moved (`TurnsInv`). From `IInv`
follow `TypeCorrect`, `RoutingCorrect`, `AnsweredOnce`, `OwnershipCorrect`,
`ToldIsRecorded`, `TurnsLand` and `Implements` (step by step: an answer is `Advance`, learning
and resuming are `Settle`, all else stutters). `RetriesEnd` has an invariant of
its own, that exclusions, source and earlier targets cover `tried`.

**StoreProofs.** `SInv` = `TypeOK`, `ReadersSeeSaved`, `HomesFirst`,
`ProgressInv`, `MemoryInv`. `ProgressInv` says what each stage of a save has
done, above all that memory is one effect ahead of what readers saw and that the
temporary file equals memory before the rename; `MemoryInv` that memory
remembers all the file holds, which is what `StoreRemembers` needs at the
commit. `StoreTypes`, `StoreSafe` and `HomesComeFirst` follow. `StoreImplements` maps
what readers see, or the file while the process
is down, to `Ledger`'s live image: a commit or a failed save is one operation
(the first commit is `Bootstrap`), a kill is a restart, all else stutters.

**RpcProofs.** `RInv` follows a call through the places that know of it: calls have
ids of their own, drawn from the counter (`KeysInv`); an entry of the table is
under its call's id and its call's channel is empty (`TableInv`); there is one
line of a call at most, on its way there or back, and none once it is answered
(`LinesInv`, `OnceInv`); a call whose entry is gone has been told or is about to be
(`GoneInv`). A loop thus finds an empty channel whenever it has taken an entry, and
what it puts there is the call's own. `RpcTypes`, `RepliesReachTheirCallers`,
`LoopsNeverBlockOnCallers`, `RepliesStayOnCourse` and `PendingTableDrains` follow for
any number of calls and any capacities.

**PoolProofs.** `PInv` says where the three parties stand with each child: a
running child that `startChild` is through with without having asked it was in the
pool when the fan-out of `initialize` listed it, so it is yet to be visited or was
told (`AskedInv`), and likewise for `initialized` (`ToldInv`), whence
`NoChildIsMissed`; what a child has received at each stage (`OriginalInv`,
`SettledInv`) gives `HandshakesKeepOrder`. `PoolTypes` is the first part of `PInv`.

**AskProofs.** `QInv` adds to the two properties that requests are numbered
freshly, that an app-server has one open request per id, that the client sees
each request once under an id of its own, and that a route belongs to a request
shown and unanswered. `AnswersCorrect`, `AskTypes` and `AsksNeverStranded` follow.

**QuiesceProofs.** `QInv` adds to `QTypeOK` how many clean scans in a row can be
owed to failed snapshots: if `seen` still shows a process, `clean` is at most the
number of snapshots lost. Two clean scans with one lost snapshot then mean that one
scan looked. `QuietVerdict` assumes `MaxBlind` at most 1, and needs to. The lemmas
are about each action of the loop, so that the two tools which run it use them.

**InstallProofs.** `WInv` follows the destination through an attempt: up to the
first rename it is what it was, between the renames it is empty and what was there
is `moved` and under a backup or rollback name, whence `FailedAttemptKeepsShell`. `MInv` does the same for
the four macOS renames, stage by stage (`FailedPublishRestoresPair`).
`ReplacementImplemented` maps either
platform's renames to `Replacement`: `Finish` discards only with the new build in
place. `OnceThereAlwaysOne` draws the conclusion: once there is a build, there is one.
`AttemptsAreQuiet` is `QuietVerdict` for the whole tool, with its own look before
the rename, deaths and retries (`MaxBlind` at most 1 over all attempts).
`BInv` says what the temporary directory holds when each stage begins: what was
written and what the script has left together make the whole patch, the digests
follow the archive, the token is the one that is there; so what `StageRuntime`
records is whole (`InstalledIsWhole`) and carries the token (`TokensAgree`).
`SpaceInv` says that at each stage what is still to be written fits in `free`, or what
the preflight has no term for is more than what it weighs in excess;
`Weigh` establishes it and each write takes its own term off (`PreflightCovers`): sizes
are any naturals, so a runtime or a growth beyond the headroom is included. That a file's size can be taken
off a sum needs the recursion behind `FoldSet` to have exactly one solution: shown
by a least counterexample among the subsets of a finite set (`SumsUnique`,
`SumsExist`), since induction over an operator is not available to the provers.
`AuditedIsPatched` is a fact about `Bootstrap`.

**ValidationProofs.** `VInv`: the agenda is always an end of the workflow's, the last look
alone being the shortest (`InOrder`); the version in place never decreases and what was
pinned, fingerprinted and built came from it in this order (`Growing`, `Ground`). A
pass that survives `Stability` then has source = pinned, and built lies between
(`PassesAreReviewed`). `EInv` adds to `QInv` that nothing of the chain
runs once a scan that looked has found nothing, up to the end of the boot: a process
is started by its parent alone. `PassLeavesNothing` follows, for
`MaxBlind` at most 1 and `Live` = {"shell"}, for a process of the boot whose path
cannot be read is neither attributed nor swept. `BootInv` says that a strict boot
which goes on after a reading the gate graded AUTH_REQUIRED can no longer report an
authenticated desktop; `PInv` counts, for each place in the agenda of `prepare`, the
boots, the rebuild and how the boots so far came by their login. `PreparedIsPersisted`
follows without a further assumption about the desktop, its pages or its user.

Only model-checked: liveness (`EventuallyAnswered`, `EveryCallReturns`,
`InitializeAnswered`, `AttemptEnds`, `ValidationEnds`), which needs fairness and
ENABLED, out of the prover's reach. The four violations are
counterexamples and need no proof.

## 6. What is not modelled, and what would come next

Next, in this order:

1. Proofs about the operators the properties lean on: that `Deepest` terminates children
   before parents, that a contract which passes its audit fits its script, that
   planning from the block map plans what walking plans.
2. **RoutePolicy** — `chooseAccountExcluding`, `routeUrgencyScore`, reset credits
   and their cache, previews: is the chosen account independent of listing order?
3. **ConfigSync** — the merge against a child that rewrites its config.
4. **EventHub** and **ThreadBadge** — subscribers with bounded channels; the badge's
   polling and its guard against stale responses.

Parts of modelled files that are left out: in `smoke.py` and
`phase2a5_host_validation.py` the comparison of renderer contracts between two
sources (`compare_renderer_contract`), the redaction of reports for publication and
their wording; the older phase 2a4 campaign and the read-only diagnostic modes of
`patch_app_windows.py` (audits, dry run, launch matrix), which install nothing; in
`discovery.py` the PowerShell, CIM and Authenticode probes behind a snapshot or a candidate.

Left out for good: the JSON encoding, HTTP plumbing and headers, the texts
that are replaced in the minified bundle (how often each matches is modelled, what
they say is data), PE and ASAR layouts, the profile statistics shown to the
user, and the two launchers, which compute paths and start one process.
