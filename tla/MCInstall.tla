----------------------------- MODULE MCInstall -----------------------------
EXTENDS Installers, MCMac, TLC

MCParent == (1 :> 0) @@ (2 :> 1)

\* Extractions: what binding b spells, each anchor once.
Exact(b) == [s \in Spelling |-> [a \in Anchor |->
  IF s = b /\ a \in UNION {Values(b)[k] : k \in DOMAIN CommonAnchors} THEN 1 ELSE 0]]
Extraction(n) == [index |-> TRUE, csp |-> 1, initials |-> 1, profiles |-> 1,
                  known901 |-> FALSE, intact901 |-> FALSE, muxed |-> FALSE, n |-> n]
X820 == Extraction(Exact("820"))
X6671 == Extraction(Exact("6671"))
X901 == [Extraction(Exact("seen")) EXCEPT !.known901 = TRUE, !.intact901 = TRUE,
                                          !.n = [Exact("seen") EXCEPT !["seen"] = [a \in Anchor |-> 0]]]
\* A 6662 build that spells its mappings as the original did passes its audit
\* and stops its patch.
X6662 == Extraction([Exact("6662") EXCEPT !["6662"]["mapping"] = 0,
                                          !["original"]["mapping"] = 1])
Original == Extraction(Exact("original"))

Startup == [bundles |-> 1, mains |-> 1, exact |-> 1, generic |-> 0, updaters |-> 1,
            startups |-> 1, exports |-> 1, system |-> "commonjs", chain |-> TRUE,
            bridge |-> TRUE, cua |-> "optional"]

File(name, role, size) == [name |-> name, role |-> role, size |-> size, link |-> FALSE,
                           stat |-> "ok", known |-> role # "runtime"]
Files == {File("ChatGPT.exe", "shell", 2), File("app.asar", "asar", 3),
          File("native.node", "unpacked", 1), File("electron.dll", "other", 1),
          File("cua_node.exe", "runtime", 2)}
Source(fs, walk, map) == [files |-> fs, walk |-> walk, map |-> map]

Bin(name, host, fuse, res) == [name |-> name, host |-> host, fuse |-> fuse, res |-> res]
Bins == {Bin("ChatGPT.exe", TRUE, "none", "none"), Bin("electron.dll", FALSE, "on", "good")}

Acl == [owner |-> "user", aces |-> {"INHERITED"}, readable |-> TRUE]
Granted == [Acl EXCEPT !.aces = @ \cup Wanted]

Identity(v) == [f \in Field |-> v]
Record(v, c) == [id |-> Identity(v), complete |-> TRUE, status |-> "PATCHABLE",
                 contract |-> c, shell |-> "ChatGPT"]
MCRegistry == <<Record("v820", "windows-26.820"), Record("v825", "windows-26.825"),
                Record("v901", "windows-26.901")>>
MCReleases == ("windows-26.820" :> Identity("v820")) @@ ("windows-26.825" :> Identity("v825"))

Place(where, name, layout) == [place |-> where, name |-> name, layout |-> layout]
Machine(shells) == [told |-> {}, running |-> shells, packages |-> {}, conventional |-> {}]

Real == [store |-> FALSE, native |-> TRUE, valid |-> TRUE, openai |-> TRUE, time |-> 1]
Package(v, x) ==
  [id |-> Identity(v), x |-> x, src |-> Source(Files, "ok", "ok"), bins |-> Bins,
   extracted |-> 6, growth |-> 0,
   boot |-> Startup, acls |-> {}, acl |-> Acl, native |-> {"native.node"}, apart |-> TRUE,
   shells |-> [exact |-> FALSE, present |-> {"ChatGPT"}, declared |-> {"ChatGPT"}, own |-> "ChatGPT"],
   codex |-> {Real}, machine |-> Machine({Place("store", "ChatGPT", TRUE)})]
P820 == [Package("v820", X820) EXCEPT !.acls = {Acl, Granted}]
P825 == [Package("v825", X6671) EXCEPT !.src = Source(Files, "denied", "ok"), !.acls = {Granted}]
\* The extraction of 901 takes more than the preflight reckons with, and the
\* patched archive of the legacy package does.
P901 == [Package("v901", X901) EXCEPT !.acls = {Granted},
                                      !.extracted = 7,
                                      !.machine.told = {Place("other", "ChatGPT", TRUE)}]
PLegacy == [Package("vOld", Original) EXCEPT !.acls = {Granted}, !.growth = 2]
PMixed == [Package("vOld", X6662) EXCEPT !.acls = {Granted}]
PFull == [P820 EXCEPT !.src = Source({[f EXCEPT !.stat = "full"] : f \in Files}, "ok", "ok")]
PUnmapped == [P820 EXCEPT !.src = Source(Files, "denied", "none")]
PUnhooked == [P820 EXCEPT !.boot = [Startup EXCEPT !.updaters = 2]]
PTorn == [P820 EXCEPT !.x = X6671]
POwnShell == [P820 EXCEPT !.machine = Machine({Place("router", "ChatGPT", TRUE)})]
PRegistered == [P825 EXCEPT !.machine = [POwnShell.machine EXCEPT
                                           !.packages = {Place("store", "Codex", TRUE)}]]
PUnfused == [P820 EXCEPT !.bins = {Bin("ChatGPT.exe", TRUE, "on", "none")}]
MCPackages == [p820 |-> P820, p825 |-> PRegistered, p901 |-> P901, legacy |-> PLegacy,
               mixed |-> PMixed, torn |-> PTorn, full |-> PFull, unmapped |-> PUnmapped,
               unhooked |-> PUnhooked, unfused |-> PUnfused, ownShell |-> POwnShell]

Request(policy, force, untested, hooks) ==
  [policy |-> policy, force |-> force, untested |-> untested, hooks |-> hooks,
   acl |-> "APPCONTAINER_RX", launch |-> "none"]
MCRequests == <<Request("EPHEMERAL_ROLLBACK", TRUE, FALSE, {}),
               Request("RECOVERABLE_BACKUP", FALSE, FALSE, {"userData", "updater"}),
               Request("RECOVERABLE_BACKUP", TRUE, TRUE, {})>>

MCVolumes == {19, 37}
=============================================================================
