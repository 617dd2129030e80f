------------------------------- MODULE MCMac -------------------------------
EXTENDS MacInstall

MacApp == [bundle |-> TRUE, approved |-> TRUE, identity |-> "team", sameTeam |-> TRUE,
           asarReferences |-> "expected",
           hooks |-> [h \in {"bootstrap", "profile", "updater", "main", "service", "instruction"} |-> 1],
           renderer |-> TRUE, nativeUnpacked |-> TRUE, alreadyPatched |-> FALSE,
           helperReferences |-> "expected", teamChecks |-> "expected"]
MCMacSources == <<MacApp, [MacApp EXCEPT !.approved = FALSE],
                 [MacApp EXCEPT !.hooks["updater"] = 0],
                 [MacApp EXCEPT !.identity = "adhoc", !.sameTeam = FALSE]>>
MacFlags(force, untested, adhoc, change, running) ==
  [force |-> force, untested |-> untested, adhoc |-> adhoc, teamChange |-> change,
   running |-> running, inPlace |-> FALSE]
MCMacRequests == <<MacFlags(FALSE, FALSE, FALSE, FALSE, FALSE), MacFlags(TRUE, FALSE, FALSE, FALSE, FALSE),
                  MacFlags(TRUE, TRUE, TRUE, TRUE, FALSE), MacFlags(TRUE, FALSE, FALSE, FALSE, TRUE)>>
=============================================================================
