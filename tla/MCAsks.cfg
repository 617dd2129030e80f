\* Two app-servers that both call their first two requests 0 and 1, and use
\* the ids again.
SPECIFICATION Spec
CONSTANTS
  Accounts = {p, a1}
  Originals = {0, 1}
  MaxAsks = 3
INVARIANT TypeOK
INVARIANT AnswerReachesAsker
INVARIANT NothingStranded
CHECK_DEADLOCK FALSE
