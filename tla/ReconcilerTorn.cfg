\* A user is removed while the script runs; no fault.
CONSTANTS
  alice = alice
  bob = bob
  carol = carol
  ka = ka
  kb = kb
  kc = kc
  Names = {alice, bob, carol}
  Keys = {ka, kb, kc}
  BadKey = BadKey
  BadName = BadName
  Docs <- DeletionDocs
  Successors <- Deletion
  Repeats = FALSE
  Faults = {}
  MaxCrashes = 0
  MaxVersions = 2
  NoFile = NoFile
  Broken = Broken
  NoName = NoName
  Never = Never
SPECIFICATION Spec
INVARIANTS NoForeignKeys
