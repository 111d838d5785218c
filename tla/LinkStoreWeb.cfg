\* The file-sharing process alone: two requests at a time, every fault.
CONSTANTS
  w1 = w1
  w2 = w2
  a1 = a1
  i1 = i1
  i2 = i2
  Procs = {"web"}
  Reqs = {w1, w2}
  ProcOf <- WebOnly
  Ids = {i1, i2}
  Bodies = {"b1"}
  MaxTime = 2
  Kinds = {"create", "patch", "delete", "view"}
  Faults = {"save", "torn", "crash"}
  Exclusive = FALSE
  NoId = NoId
  NoLink = NoLink
  NoReq = NoReq
  Gone = Gone
  Pending = Pending
  NoPromise = NoPromise
SPECIFICATION Spec
SYMMETRY IdAndSlotSymmetry
INVARIANTS TypeOK NoDataLoss DeletedStaysDeleted FreshView
PROPERTY SaveTouchesOneLink
