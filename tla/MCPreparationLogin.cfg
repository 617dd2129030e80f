SPECIFICATION Spec
CONSTANTS
  Pid = {1, 2, 3}
  NoPid = 0
  Parent <- MCParent
  Live = {"shell"}
  Desktop = 1
  Mux = 2
  Codex = 3
  Timeout = 1
  KillTime = 0
  MaxStarts = 0
  MaxBlind = 1
  Layouts <- MCLayouts
  Probes <- MCProbes
  MaxPolls = 3
  Modes = {"prepare"}
  Hosts <- MCHosts
  Version = {1}
  Reviewed = {1}
INVARIANT AuthRequiredNotPersisted
CHECK_DEADLOCK FALSE
