SPECIFICATION MCSpec
CONSTANTS
  a1 = a1  a2 = a2  a3 = a3
  t1 = t1  t2 = t2
  r1 = r1  r2 = r2
  None = None
  Accounts = {a1, a2, a3}
  Controller = a1
  Threads = {t1, t2}
  Remembered = {t1}
  Requests = {r1, r2}
  Offers <- OffersPair
  MaxToggles = 1
  MaxExits = 1
INVARIANTS
  TypeOK
  OwnerHolds
  KnownThreadHasOwner
  TurnLandsOnHolder
  RouteMatchesChild
  OneAnswer
  NoAccountTriedTwice
PROPERTIES
  KeepsPromise
CONSTRAINT OneUpset
SYMMETRY Others
CHECK_DEADLOCK FALSE
