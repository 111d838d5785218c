\* Both processes, changes at the same time.
CONSTANTS
  w1 = w1
  w2 = w2
  a1 = a1
  i1 = i1
  i2 = i2
  Procs = {"web", "admin"}
  Reqs = {w1, a1}
  ProcOf <- WebAndAdmin
  Ids = {i1, i2}
  Bodies = {"b1"}
  MaxTime = 1
  Kinds = {"create", "patch", "delete", "view"}
  Faults = {}
  Exclusive = FALSE
  NoId = NoId
  NoLink = NoLink
  NoReq = NoReq
  Gone = Gone
  Pending = Pending
  NoPromise = NoPromise
SPECIFICATION Spec
INVARIANT NoDataLoss
