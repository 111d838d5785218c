\* Saves one after the other, an API client and a visitor, no fault.
CONSTANTS
  s1 = s1
  s2 = s2
  l1 = l1
  l2 = l2
  v1 = v1
  e = Empty
  a = Absent
  Fields <- MCFields
  Secrets <- MCSecrets
  Values = {"x", "y"}
  Empty = Empty
  Absent = Absent
  Env <- MCEnv
  Forms <- MCForms
  Saves = {s1, s2}
  Faults = {}
  NoFile = NoFile
  NoSave = NoSave
  NoForm = NoForm
  Logins = {l1, l2}
  IpOf <- MCIpOf
  MaxLoginAttempts = 2
  LoginWindow = 1
  Sids = {"i1"}
  SessionTTL = 1
  Visitors = {v1}
  LinkTTL = 1
  LinkPasswords = {"p"}
  MaxTime = 2
  Mixes <- TokenMix
  NoPassword = NoPassword
  NoSession = NoSession
  NoCookie = NoCookie
  NoCall = NoCall
SPECIFICATION Spec
PROPERTIES OldTokenRefused
