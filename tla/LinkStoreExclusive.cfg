\* Both processes, link changes never made through both at once.
CONSTANTS
  w1 = w1
  w2 = w2
  a1 = a1
  i1 = i1
  i2 = i2
  Procs = {"web", "admin"}
  Reqs = {w1, w2, a1}
  ProcOf <- TwoWebAndAdmin
  Ids = {i1, i2}
  Bodies = {"b1"}
  MaxTime = 0
  Kinds = {"create", "patch", "delete"}
  Faults = {"save"}
  Exclusive = TRUE
  NoId = NoId
  NoLink = NoLink
  NoReq = NoReq
  Gone = Gone
  Pending = Pending
  NoPromise = NoPromise
SPECIFICATION FairSpec
INVARIANTS NoDataLoss DeletedStaysDeleted
PROPERTY EveryRequestAnswered
