\* Two requests at a time, no fault.
CONSTANTS
  n1 = n1
  n2 = n2
  k1 = k1
  k2 = k2
  r1 = r1
  r2 = r2
  Names = {n1}
  Fps = {k1, k2}
  LegacyKeys <- LegacyPlain
  Reqs = {r1, r2}
  Faults = {}
  Invalid = Invalid
  NoUser = NoUser
  NoName = NoName
  NoFp = NoFp
SPECIFICATION Spec
INVARIANTS EnabledHasKey
