\* Two saves and a login; one save with two logins, a visitor or an API client; a
\* visitor with an API client and the clock.
CONSTANTS
  s1 = s1
  s2 = s2
  l1 = l1
  l2 = l2
  v1 = v1
  e = Empty
  a = Absent
  Fields <- MCFields
  Secrets <- MCSecrets
  Values = {"x", "y"}
  Empty = Empty
  Absent = Absent
  Env <- MCEnv
  Forms <- MCForms
  Saves = {s1, s2}
  Faults = {"save", "torn", "crash"}
  NoFile = NoFile
  NoSave = NoSave
  NoForm = NoForm
  Logins = {l1, l2}
  IpOf <- MCIpOf
  MaxLoginAttempts = 2
  LoginWindow = 1
  Sids = {"i1"}
  SessionTTL = 1
  Visitors = {v1}
  LinkTTL = 1
  LinkPasswords = {"p"}
  MaxTime = 2
  Mixes <- MCMixes
  NoPassword = NoPassword
  NoSession = NoSession
  NoCookie = NoCookie
  NoCall = NoCall
SPECIFICATION FairSpec
INVARIANTS TypeOK NoResurrection  WebInStep
PROPERTIES FormsAreTransactions WebCatchesUp RetiredSecretsRefused SessionsEnd
