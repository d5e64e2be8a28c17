SPECIFICATION LoopSpec
CONSTANTS
  Clients = {c1, c2, c3}
  NumConns = 1
  Timeouts = {"zero", "some", "long"}
  Limits = {"lifetime"}
  MaxCalls = 2
INVARIANTS TypeOK SlotAccounting
PROPERTIES CallAnswered Served LendsLikeConnPool
