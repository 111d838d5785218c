\* Versions never repeat; provisioning, writes and the container may fail.
CONSTANTS
  alice = alice
  bob = bob
  carol = carol
  ka = ka
  kb = kb
  kc = kc
  Names = {alice, bob}
  Keys = {ka, kb}
  BadKey = BadKey
  BadName = BadName
  Docs <- MixedDocs
  Successors <- AnyMixed
  Repeats = FALSE
  Faults = {"provision", "write", "crash"}
  MaxCrashes = 1
  MaxVersions = 3
  NoFile = NoFile
  Broken = Broken
  NoName = NoName
  Never = Never
SPECIFICATION FairSpec
INVARIANTS TypeOK RunMatches ExitZeroMatches KeyFileHasHome CaughtUp
PROPERTIES Converges
