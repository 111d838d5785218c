\* Two files, one download and one listing under way, two changes of the tree.
CONSTANTS
  r1 = r1
  r2 = r2
  l = List
  Walk <- MCWalk
  DirOf <- MCDirOf
  NameOf <- MCNameOf
  Contents = {"a", "b"}
  SizeOf <- MCSizeOf
  Mtimes = {0, 1}
  Configs <- MCConfigs
  Reqs = {r1, r2}
  Asks <- MCAsks
  Trees <- MCTrees
  MaxChanges = 2
  Faults = {"io"}
  List = List
  Nothing = Nothing
  Mixed = Mixed
  Outside = Outside
  NoReq = NoReq
SPECIFICATION Spec
INVARIANTS TypeOK CacheFresh OneConfiguration ListingRight DownloadRight
