---------------------------- MODULE MCValidation ----------------------------
EXTENDS HostValidation, TLC

MCParent == (1 :> 0) @@ (2 :> 1) @@ (3 :> 2)

Sound == [store |-> FALSE, linked |-> FALSE, stateInside |-> FALSE, complete |-> TRUE,
          profileOwned |-> TRUE, realValid |-> TRUE, tokenValid |-> TRUE]
MCLayouts == {Sound, [Sound EXCEPT !.stateInside = TRUE]}

Log(lines, own) == [lines |-> lines, running |-> FALSE, window |-> FALSE, ownKill |-> own]
MCProbes == {Log({}, FALSE), Log({"chromium"}, FALSE)}

Host(packaged, virtual) == [packaged |-> packaged, virtual |-> virtual]
MCHosts == {Host("no", "no"), Host("yes", "no"), Host("no", "yes"), Host("unknown", "unknown")}

(* "prepare" starts on the last version, which can only be removed: after   *)
(* its review it compares no versions.                                      *)
MCInit == Init /\ (mode = "prepare" => source = 3)
MCSpec == MCInit /\ [][Next]_vars /\ WF_vars(Tool)
=============================================================================
