\* Two accounts at the start, one added at any time.
SPECIFICATION FairSpec
CONSTANTS
  Accounts = {p, a1, a2}
  Original = {p, a1}
  None = None
INVARIANT TypeOK
INVARIANT NobodyMissed
INVARIANT HandshakeInOrder
PROPERTY InitializeAnswered
CHECK_DEADLOCK FALSE
