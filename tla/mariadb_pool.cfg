SPECIFICATION MdbLoopSpec
CONSTANTS
  Clients = {c1, c2, c3}
  NumConns = 1
  Timeouts = {"some"}
  Limits = {"idle"}
  MaxCalls = 2
INVARIANT LiveWaiterQueued
PROPERTIES CallAnswered LendsLikeConnPool
