SPECIFICATION Spec
CONSTANTS
  Pid = {1, 2}
  NoPid = 0
  Parent <- MCParent
  Live = {"shell", "sealed"}
  Timeout = 1
  KillTime = 1
  MaxStarts = 1
  MaxBlind = 1
  MinHeadroom = 2
  MaxHeadroom = 3
  Packages <- MCPackages
  Requests <- MCRequests
  Registry <- MCRegistry
  Releases <- MCReleases
  Volumes <- MCVolumes
  ShellBytes = 5
  RuntimeBytes = 2
  MaxAttempts = 2
  MaxTrouble = 2
  MacSources <- MCMacSources
  MacRequests <- MCMacRequests
  MacTrouble = 2
INVARIANT FailureKeepsShell
INVARIANT ExhaustedByUnweighed
INVARIANT InstalledShellWorks
INVARIANT RendererMuxAgree
INVARIANT QuietWasSeen
INVARIANT OldPairComesBack
PROPERTY NeverLost
PROPERTY AttemptEnds
CHECK_DEADLOCK FALSE
