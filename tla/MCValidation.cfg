SPECIFICATION MCSpec
CONSTANTS
  Pid = {1, 2, 3}
  NoPid = 0
  Parent <- MCParent
  Live = {"shell"}
  Desktop = 1
  Mux = 2
  Codex = 3
  Timeout = 1
  KillTime = 0
  MaxStarts = 0
  MaxBlind = 1
  Layouts <- MCLayouts
  Probes <- MCProbes
  MaxPolls = 3
  Modes = {"validate", "prepare"}
  Hosts <- MCHosts
  Version = {1, 2, 3}
  Reviewed = {1, 3}
INVARIANT NothingLeftBehind
INVARIANT PassIsReviewed
INVARIANT PreparedMeansPersisted
PROPERTY ValidationEnds
CHECK_DEADLOCK FALSE
