SPECIFICATION LoopSpec
CONSTANTS
  Clients = {c1, c2, c3, c4}
  NumConns = 2
  Timeouts = {"zero", "some", "long"}
  Limits = {"idle", "lifetime"}
  MaxCalls = 1
INVARIANTS TypeOK SlotAccounting QueueExact NoLostWakeup
PROPERTIES ReturnAnnounced NotReplacedWhileBorrowed CallAnswered Served LendsLikeConnPool
