SPECIFICATION MCFairSpec
CONSTANTS
  a1 = a1  a2 = a2  a3 = a3
  t1 = t1  t2 = t2
  r1 = r1  r2 = r2
  None = None
  Accounts = {a1, a2}
  Controller = a1
  Threads = {t1, t2}
  Remembered = {t1}
  Requests = {r1, r2}
  Offers <- OffersAll
  MaxToggles = 0
  MaxExits = 1
PROPERTIES
  EventuallyAnswered
CHECK_DEADLOCK FALSE
