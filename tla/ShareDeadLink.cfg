\* Two files, a download and a listing at a time, one change of the tree.
CONSTANTS
  r1 = r1
  r2 = r2
  l = List
  Walk <- MCWalk
  DirOf <- MCDirOf
  NameOf <- MCNameOf
  Contents = {"a", "b"}
  SizeOf <- MCSizeOf
  Mtimes = {0, 1}
  Configs <- MCConfigs
  Reqs = {r1, r2}
  Asks <- MCAsks
  Trees <- MCTrees
  MaxChanges = 1
  Faults = {}
  List = List
  Nothing = Nothing
  Mixed = Mixed
  Outside = Outside
  NoReq = NoReq
SPECIFICATION Spec
INVARIANTS NoDeadLinks
