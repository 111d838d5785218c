\* A user is switched and switched back while the script runs; no fault.
CONSTANTS
  alice = alice
  bob = bob
  carol = carol
  ka = ka
  kb = kb
  kc = kc
  Names = {alice}
  Keys = {ka, kb, kc}
  BadKey = BadKey
  BadName = BadName
  Docs <- ToggleDocs
  Successors <- Toggle
  Repeats = TRUE
  Faults = {}
  MaxCrashes = 0
  MaxVersions = 3
  NoFile = NoFile
  Broken = Broken
  NoName = NoName
  Never = Never
SPECIFICATION FairSpec
PROPERTY Converges
