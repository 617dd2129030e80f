\* Two calls, one client request, one notice; every queue holds one message.
SPECIFICATION FairSpec
CONSTANTS
  Calls = {c1, c2}
  Sends = {s1}
  None = None
  Failed = Failed
  PipeSize = 1
  InboundSize = 1
  MaxId = 2
  MaxNotices = 1
INVARIANT TypeOK
INVARIANT OwnReply
INVARIANT NoBlockedSend
INVARIANT NoReplyAstray
INVARIANT NoLeak
PROPERTY EveryCallReturns
CHECK_DEADLOCK FALSE
