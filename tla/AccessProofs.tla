---------------------------- MODULE AccessProofs ----------------------------
(***************************************************************************)
(* Proofs about Access, for any number of logins, visitors, saves and any  *)
(* limits.  Access is the settings with more to say about who may change   *)
(* them (AccessImplementsSettings), so what SettingsProofs proves holds    *)
(* here; with it, replaced secrets are refused.  The limit on failed       *)
(* logins counts finite sets: the failures in the window and the logins    *)
(* that were let in before these were counted.                             *)
(***************************************************************************)
EXTENDS Access, SettingsProofs, FiniteSetTheorems

(* What happens around the settings is a step of the settings or none. *)
LEMMA SettingsStep == [Next]_vars => [SettingsNext]_settingsVars
<1> SUFFICES ASSUME [Next]_vars PROVE [SettingsNext]_settingsVars
  OBVIOUS
<1>1. CASE StartAdmin \/ CrashAdmin \/ \E s \in Saves : PostSettings(s) \/ ProceedSettings(s)
  BY <1>1 DEF StartAdmin, CrashAdmin, PostSettings, ProceedSettings, SettingsNext
<1>2. CASE \E l \in Logins : BeginLogin(l) \/ Throttle(l) \/ ProceedLogin(l)
  BY <1>2 DEF BeginLogin, Throttle, ProceedLogin, CheckPassword, RecordFailure, RecordSuccess,
              CreateSession
<1>3. CASE (\E id \in Sids : EndSession(id)) \/ (\E v \in Visitors : Visit(v)) \/ RequireBearer \/ PatchLink \/ Tick
  BY <1>3 DEF EndSession, Visit, AuthLink, IssueCookie, OpenPage, ShowPage, Leave, RequireBearer, PatchLink, Tick
<1>4. CASE UNCHANGED vars
  BY <1>4 DEF vars
<1>5. QED
  BY <1>1, <1>2, <1>3, <1>4 DEF Next

(* Logins, sessions and links leave the settings as they are: every          *)
(* behaviour of the whole is one of Settings, and has its properties.        *)
THEOREM AccessImplementsSettings == Spec => SettingsSpec
<1>1. Init => SettingsInit
  BY DEF Init
<1>2. QED
  BY <1>1, SettingsStep, PTL DEF Spec, SettingsSpec

(* In the whole, too, no replaced value comes back into config.json. *)
THEOREM AccessNoResurrection == Spec => []NoResurrection
BY AccessImplementsSettings, ReplacedStaysReplaced, PTL

-----------------------------------------------------------------------------
LoginRecord == [pc : {"idle", "allowed", "good", "bad", "cleared"}, pw : Values \cup {Empty}]
VisitRecord == [pc : {"idle", "proved", "page", "shown"}, open : BOOLEAN]

(* A login is under way only while the admin runs. *)
LoginInv ==
  /\ login \in [Logins -> LoginRecord]
  /\ \A l \in Logins : login[l].pc # "idle" => admin = "up"

(* A cookie's end is a day after its issue. *)
CookieInv ==
  /\ now \in Nat
  /\ visit \in [Visitors -> VisitRecord]
  /\ DOMAIN cookie = Visitors
  /\ \A v \in Visitors : cookie[v] # NoCookie =>
       cookie[v].at \in Nat /\ cookie[v].exp = cookie[v].at + LinkTTL

AccessInv == LoginInv /\ CookieInv

(* No cookie and no login exist at first. *)
LEMMA AccessInit == Init => AccessInv
<1> SUFFICES ASSUME Init PROVE AccessInv
  OBVIOUS
<1>1. LoginInv
  BY DEF Init, LoginInv, NoLogin, LoginRecord
<1>2. CookieInv
  BY DEF Init, CookieInv, NoVisit, VisitRecord
<1>3. QED
  BY <1>1, <1>2 DEF AccessInv

(* The admin goes down only with its logins. *)
LEMMA LoginStep == SettingsTypeOK /\ LoginInv /\ [Next]_vars => LoginInv'
<1> SUFFICES ASSUME SettingsTypeOK, LoginInv, [Next]_vars PROVE LoginInv'
  OBVIOUS
<1> USE DEF LoginInv
<1>1. ASSUME NEW l \in Logins, NEW r \in LoginRecord, login' = [login EXCEPT ![l] = r],
             UNCHANGED admin, r.pc # "idle" => admin = "up"
      PROVE  LoginInv'
  BY <1>1
<1>2. NoLogin \in LoginRecord /\ NoLogin.pc = "idle"
  BY DEF NoLogin, LoginRecord
<1>3. CASE CrashAdmin
  BY <1>2, <1>3 DEF CrashAdmin, AdminCrash
<1>4. CASE StartAdmin
  <2>1. \A l \in Logins : login[l].pc = "idle"
    BY <1>4 DEF StartAdmin, Start, Boot, SeedRename, SeedChmod
  <2>2. UNCHANGED login
    BY <1>4 DEF StartAdmin, accessVars
  <2>3. QED
    BY <2>1, <2>2
<1>5. ASSUME NEW s \in Saves, PostSettings(s) \/ ProceedSettings(s) PROVE LoginInv'
  BY <1>5 DEF PostSettings, ProceedSettings, accessVars, Post, Proceed, Refuse, LoadShared,
              SaveFails, Rename, Chmod, ChmodFails, Report
<1>6. ASSUME NEW l \in Logins, BeginLogin(l) PROVE LoginInv'
  <2>1. PICK pw \in Values : login' = [login EXCEPT ![l] = [pc |-> "allowed", pw |-> pw]]
    BY <1>6 DEF BeginLogin
  <2>2. [pc |-> "allowed", pw |-> pw] \in LoginRecord
    BY DEF LoginRecord
  <2>3. QED
    BY <1>1, <1>6, <2>1, <2>2 DEF BeginLogin, settingsVars
<1>7. ASSUME NEW l \in Logins, CheckPassword(l) PROVE LoginInv'
  <2>1. login[l] \in LoginRecord /\ admin = "up"
    BY <1>7 DEF CheckPassword
  <2>2. [pc |-> IF PasswordMatches(login[l].pw) THEN "good" ELSE "bad", pw |-> login[l].pw]
          \in LoginRecord
    BY <2>1 DEF LoginRecord
  <2>3. QED
    BY <1>1, <1>7, <2>1, <2>2 DEF CheckPassword, settingsVars
<1>8. ASSUME NEW l \in Logins, RecordSuccess(l) PROVE LoginInv'
  <2>1. login[l] \in LoginRecord /\ admin = "up"
    BY <1>8 DEF RecordSuccess
  <2>2. [pc |-> "cleared", pw |-> login[l].pw] \in LoginRecord
    BY <2>1 DEF LoginRecord
  <2>3. QED
    BY <1>1, <1>8, <2>1, <2>2 DEF RecordSuccess, settingsVars
<1>9. ASSUME NEW l \in Logins, RecordFailure(l) \/ CreateSession(l) PROVE LoginInv'
  BY <1>1, <1>2, <1>9 DEF RecordFailure, CreateSession, settingsVars
<1>10. ASSUME UNCHANGED <<admin, login>> PROVE LoginInv'
  BY <1>10
<1>11. QED
  BY <1>3, <1>4, <1>5, <1>6, <1>7, <1>8, <1>9, <1>10
  DEF Next, vars, settingsVars, accessVars, Throttle, ProceedLogin, EndSession, Visit, AuthLink,
      IssueCookie, OpenPage, ShowPage, Leave, RequireBearer, PatchLink, Tick

(* Only IssueCookie makes cookies. *)
LEMMA CookieStep == CookieInv /\ [Next]_vars => CookieInv'
<1> SUFFICES ASSUME CookieInv, [Next]_vars PROVE CookieInv'
  OBVIOUS
<1> USE AccessAssumption DEF CookieInv
<1>1. ASSUME NEW v \in Visitors, NEW r \in VisitRecord, visit' = [visit EXCEPT ![v] = r],
             UNCHANGED <<now, cookie>>
      PROVE  CookieInv'
  BY <1>1
<1>2. NoVisit \in VisitRecord
  BY DEF NoVisit, VisitRecord
<1>3. CASE Tick
  BY <1>3 DEF Tick
<1>4. ASSUME NEW v \in Visitors, IssueCookie(v) PROVE CookieInv'
  BY <1>2, <1>4 DEF IssueCookie
<1>5. ASSUME NEW v \in Visitors, AuthLink(v) PROVE CookieInv'
  <2>1. [pc |-> "proved", open |-> TRUE] \in VisitRecord
    BY DEF VisitRecord
  <2>2. QED
    BY <1>1, <1>5, <2>1 DEF AuthLink
<1>6. ASSUME NEW v \in Visitors, OpenPage(v) PROVE CookieInv'
  <2>1. PICK given : visit' = [visit EXCEPT ![v] =
                       [pc |-> "page", open |-> linkPw \in {NoPassword, given}]]
    BY <1>6 DEF OpenPage
  <2>2. [pc |-> "page", open |-> linkPw \in {NoPassword, given}] \in VisitRecord
    BY DEF VisitRecord
  <2>3. QED
    BY <1>1, <1>6, <2>1, <2>2 DEF OpenPage
<1>7. ASSUME NEW v \in Visitors, ShowPage(v) PROVE CookieInv'
  <2>1. visit[v] \in VisitRecord
    OBVIOUS
  <2>2. [pc |-> "shown", open |-> visit[v].open] \in VisitRecord
    BY <2>1 DEF VisitRecord
  <2>3. (IF LinkSessionOK(v) THEN [pc |-> "shown", open |-> visit[v].open] ELSE NoVisit)
          \in VisitRecord
    BY <1>2, <2>2
  <2>4. QED
    BY <1>1, <1>7, <2>3 DEF ShowPage
<1>8. ASSUME NEW v \in Visitors, Leave(v) PROVE CookieInv'
  BY <1>1, <1>2, <1>8 DEF Leave
<1>9. ASSUME UNCHANGED <<now, visit, cookie>> PROVE CookieInv'
  BY <1>9
<1>10. QED
  BY <1>3, <1>4, <1>5, <1>6, <1>7, <1>8, <1>9
  DEF Next, vars, accessVars, StartAdmin, CrashAdmin, PostSettings, ProceedSettings, BeginLogin,
      Throttle, ProceedLogin, CheckPassword, RecordFailure, RecordSuccess, CreateSession,
      EndSession, Visit, RequireBearer, PatchLink

(* The invariants of both parts together. *)
LEMMA AccessInvHolds == Spec => [](SettingsInv /\ AccessInv)
<1>1. SettingsInv /\ AccessInv /\ [Next]_vars => AccessInv'
  BY LoginStep, CookieStep DEF SettingsInv, AccessInv
<1>2. Spec => []SettingsInv
  BY AccessImplementsSettings, InvHolds, PTL
<1>3. QED
  BY <1>1, <1>2, AccessInit, PTL DEF Spec

(* A login is found good only by CheckPassword, *)
LEMMA GoodLogin ==
  ASSUME LoginInv, [Next]_vars, NEW l \in Logins,
         login[l].pc = "allowed", login'[l].pc = "good"
  PROVE  CheckPassword(l)
<1>1. ASSUME NEW m \in Logins, NEW r, r.pc # "good", login' = [login EXCEPT ![m] = r] PROVE FALSE
  BY <1>1 DEF LoginInv
<1>2. ASSUME NEW m \in Logins, CheckPassword(m) PROVE CheckPassword(l)
  BY <1>2 DEF CheckPassword, LoginInv
<1>3. ASSUME NEW m \in Logins, BeginLogin(m) PROVE FALSE
  BY <1>1, <1>3 DEF BeginLogin
<1>4. ASSUME NEW m \in Logins, RecordFailure(m) \/ RecordSuccess(m) \/ CreateSession(m) PROVE FALSE
  BY <1>1, <1>4 DEF RecordFailure, RecordSuccess, CreateSession, NoLogin
<1>5. CASE CrashAdmin
  BY <1>5 DEF CrashAdmin, NoLogin
<1>6. login' # login
  OBVIOUS
<1>7. QED
  BY <1>2, <1>3, <1>4, <1>5, <1>6
  DEF Next, vars, accessVars, StartAdmin, PostSettings, ProceedSettings, Throttle, ProceedLogin,
      EndSession, Visit, AuthLink, IssueCookie, OpenPage, ShowPage, Leave, RequireBearer, PatchLink, Tick

(* and a page is shown only by ShowPage, as linkSessionOK says. *)
LEMMA ShownPage ==
  ASSUME CookieInv, [Next]_vars, NEW v \in Visitors,
         visit[v].pc = "page", visit'[v].pc = "shown"
  PROVE  LinkSessionOK(v)
<1>1. ASSUME NEW w \in Visitors, NEW r, r.pc # "shown", visit' = [visit EXCEPT ![w] = r]
      PROVE  FALSE
  BY <1>1 DEF CookieInv
<1>2. ASSUME NEW w \in Visitors, ShowPage(w) PROVE LinkSessionOK(v)
  BY <1>2 DEF ShowPage, NoVisit, CookieInv
<1>3. ASSUME NEW w \in Visitors, OpenPage(w) PROVE FALSE
  BY <1>1, <1>3 DEF OpenPage
<1>4. ASSUME NEW w \in Visitors, AuthLink(w) \/ IssueCookie(w) \/ Leave(w) PROVE FALSE
  BY <1>1, <1>4 DEF AuthLink, IssueCookie, Leave, NoVisit
<1>5. visit' # visit
  OBVIOUS
<1>6. QED
  BY <1>2, <1>3, <1>4, <1>5
  DEF Next, vars, accessVars, StartAdmin, CrashAdmin, PostSettings, ProceedSettings, BeginLogin,
      Throttle, ProceedLogin, CheckPassword, RecordFailure, RecordSuccess, CreateSession,
      EndSession, Visit, RequireBearer, PatchLink, Tick

(* An API call is let in only by requireBearer. *)
LEMMA LetIn ==
  ASSUME [Next]_vars, api = NoCall, api' # NoCall
  PROVE  api' = Effective[Token]
<1>1. CASE RequireBearer
  BY <1>1 DEF RequireBearer
<1>2. QED
  BY <1>1
  DEF Next, vars, accessVars, StartAdmin, CrashAdmin, PostSettings, ProceedSettings, BeginLogin,
      Throttle, ProceedLogin, CheckPassword, RecordFailure, RecordSuccess, CreateSession,
      EndSession, Visit, AuthLink, IssueCookie, OpenPage, ShowPage, Leave, PatchLink, Tick

(* The token in force is not a replaced one, but for the fallback. *)
LEMMA TokenInForce == SettingsInv => ~Stale(Effective[Token])
<1>1. SettingsInv /\ WebReads => file[Token] \notin retired[Token]
  BY AccessAssumption DEF WebReads, SettingsInv, NoResurrection
<1>2. QED
  BY <1>1 DEF Effective, Stale

(* No login passes with a replaced password, and no page is shown for a      *)
(* cookie and no API call let in under a replaced token, except one of the environment's while the  *)
(* web container cannot read config.json: for any interleaving of saves,     *)
(* logins, requests, failures and restarts.                                  *)
THEOREM ReplacedSecretsRefused == Spec => RetiredSecretsRefused
<1>1. ASSUME SettingsInv, AccessInv, [Next]_vars, NEW l \in Logins,
             login[l].pc = "allowed", login'[l].pc = "good"
      PROVE  login[l].pw \notin retired[Password]
  <2>1. CheckPassword(l)
    BY <1>1, GoodLogin DEF AccessInv
  <2>2. PasswordMatches(login[l].pw)
    BY <1>1, <2>1 DEF CheckPassword, AccessInv, LoginInv
  <2>3. admin = "up" /\ file # NoFile
    BY <1>1 DEF AccessInv, LoginInv, SettingsInv, SettingsTypeOK
  <2>4. QED
    BY <1>1, <2>2, <2>3, AccessAssumption DEF PasswordMatches, SettingsInv, NoResurrection
<1>2. ASSUME SettingsInv, AccessInv, [Next]_vars, NEW v \in Visitors,
             visit[v].pc = "page", visit'[v].pc = "shown"
      PROVE  visit[v].open \/ ~Stale(cookie[v].tok)
  <2>1. LinkSessionOK(v)
    BY <1>2, ShownPage DEF AccessInv
  <2>2. visit[v].open \/ cookie[v].tok = Effective[Token]
    BY <2>1 DEF LinkSessionOK, CookieValid
  <2>3. QED
    BY <1>2, <2>2, TokenInForce
<1>3. ASSUME SettingsInv, [Next]_vars, api = NoCall, api' # NoCall PROVE ~Stale(api')
  BY <1>3, LetIn, TokenInForce
<1>4. SettingsInv /\ AccessInv /\ [Next]_vars =>
        [/\ \A l \in Logins : login[l].pc = "allowed" /\ login'[l].pc = "good" =>
              login[l].pw \notin retired[Password]
         /\ \A v \in Visitors : visit[v].pc = "page" /\ visit'[v].pc = "shown" =>
              visit[v].open \/ ~Stale(cookie[v].tok)
         /\ api = NoCall /\ api' # NoCall => ~Stale(api')]_vars
  BY <1>1, <1>2, <1>3
<1>5. QED
  BY <1>4, AccessInvHolds, PTL DEF Spec, RetiredSecretsRefused

(* A cookie opens a protected page for a day at most. *)
THEOREM CookiesEnd == Spec => SessionsEnd
<1>1. ASSUME AccessInv, [Next]_vars, NEW v \in Visitors,
             visit[v].pc = "page", visit'[v].pc = "shown"
      PROVE  visit[v].open \/ (cookie[v] # NoCookie /\ now - cookie[v].at <= LinkTTL)
  <2>1. visit[v].open \/ CookieValid(cookie[v])
    BY <1>1, ShownPage DEF AccessInv, LinkSessionOK
  <2>2. QED
    BY <1>1, <2>1, AccessAssumption DEF CookieValid, AccessInv, CookieInv
<1>2. AccessInv /\ [Next]_vars =>
        [\A v \in Visitors : visit[v].pc = "page" /\ visit'[v].pc = "shown" =>
           \/ visit[v].open
           \/ cookie[v] # NoCookie /\ now - cookie[v].at <= LinkTTL]_vars
  BY <1>1
<1>3. QED
  BY <1>2, AccessInvHolds, PTL DEF Spec, SessionsEnd

-----------------------------------------------------------------------------
(* The types that LoginInv and CookieInv do not have. *)
RestTypes ==
  /\ now \in 0 .. MaxTime
  /\ mix \in Mixes
  /\ sessions \in [Sids -> 0 .. MaxTime + SessionTTL \cup {NoSession}]
  /\ linkPw \in LinkPasswords \cup {NoPassword}
  /\ api \in Values \cup {NoCall}
  /\ cookie \in [Visitors -> [tok : Values, exp : 0 .. MaxTime + LinkTTL, at : 0 .. MaxTime]
                               \cup {NoCookie}]

(* An address's failures are finitely many, and their numbers at one instant *)
(* are below how many there are, so that the next number is a new one.       *)
Numbered(F) ==
  /\ F \in SUBSET Failure
  /\ IsFiniteSet(F)
  /\ \A f \in F : f.nth < Cardinality({d \in F : d.at = f.at})
FailuresInv ==
  /\ failures \in [Ips -> SUBSET Failure]
  /\ \A ip \in Ips : Numbered(failures[ip])

(* The sum of FailuresBounded for one address. *)
Below(ip) ==
  Cardinality(Recent(ip)) + Cardinality(UnderWay(ip)) < MaxLoginAttempts + Cardinality(SlotsOf(ip))

(* The token in force is a value. *)
LEMMA TokenIsValue == SettingsTypeOK => Effective[Token] \in Values
BY SettingsAssumption, AccessAssumption DEF SettingsTypeOK, Effective, WebReads, SharedConfig

(* Clock, sessions, link, API call and cookies keep their types. *)
LEMMA RestStep == SettingsTypeOK /\ RestTypes /\ [Next]_vars => RestTypes'
<1> SUFFICES ASSUME SettingsTypeOK, RestTypes, [Next]_vars PROVE RestTypes'
  OBVIOUS
<1> USE AccessAssumption DEF RestTypes
<1>1. CASE Tick
  BY <1>1 DEF Tick
<1>2. CASE CrashAdmin
  BY <1>2 DEF CrashAdmin
<1>3. ASSUME NEW l \in Logins, CreateSession(l) PROVE RestTypes'
  <2>1. PICK id \in Sids : sessions' = [sessions EXCEPT ![id] = now + SessionTTL]
    BY <1>3 DEF CreateSession
  <2>2. now + SessionTTL \in 0 .. MaxTime + SessionTTL
    OBVIOUS
  <2>3. QED
    BY <1>3, <2>1, <2>2 DEF CreateSession
<1>4. ASSUME NEW id \in Sids, EndSession(id) PROVE RestTypes'
  BY <1>4 DEF EndSession
<1>5. CASE RequireBearer
  BY <1>5 DEF RequireBearer
<1>6. CASE PatchLink
  BY <1>6 DEF PatchLink
<1>7. ASSUME NEW v \in Visitors, IssueCookie(v) PROVE RestTypes'
  <2>1. [tok |-> Effective[Token], exp |-> now + LinkTTL, at |-> now]
          \in [tok : Values, exp : 0 .. MaxTime + LinkTTL, at : 0 .. MaxTime]
    BY TokenIsValue
  <2>2. QED
    BY <1>7, <2>1 DEF IssueCookie
<1>8. ASSUME UNCHANGED <<now, mix, sessions, linkPw, api, cookie>> PROVE RestTypes'
  BY <1>8
<1>9. QED
  BY <1>1, <1>2, <1>3, <1>4, <1>5, <1>6, <1>7, <1>8
  DEF Next, vars, accessVars, StartAdmin, PostSettings, ProceedSettings, BeginLogin, Throttle,
      ProceedLogin, CheckPassword, RecordFailure, RecordSuccess, Visit, AuthLink, OpenPage,
      ShowPage, Leave

(* Forgetting old failures keeps whole instants. *)
LEMMA PrunedNumbered ==
  ASSUME NEW F, Numbered(F), NEW c
  PROVE  Numbered({f \in F : f.at > c})
<1> DEFINE G == {f \in F : f.at > c}
<1>1. G \in SUBSET Failure /\ IsFiniteSet(G)
  BY FS_Subset DEF Numbered
<1>2. ASSUME NEW f \in G PROVE f.nth < Cardinality({d \in G : d.at = f.at})
  <2>1. {d \in G : d.at = f.at} = {d \in F : d.at = f.at}
    OBVIOUS
  <2>2. QED
    BY <2>1 DEF Numbered
<1>3. QED
  BY <1>1, <1>2 DEF Numbered

(* One more failure is one more entry, as append has it. *)
LEMMA AppendCounts ==
  ASSUME NEW F, Numbered(F), NEW t \in 0 .. MaxTime,
         NEW x, x = [at |-> t, nth |-> Cardinality({f \in F : f.at = t})]
  PROVE  Numbered(F \cup {x}) /\ Cardinality(F \cup {x}) = Cardinality(F) + 1
<1> DEFINE At(u) == {f \in F : f.at = u}
           G == F \cup {x}
<1>1. ASSUME NEW u PROVE IsFiniteSet(At(u)) /\ Cardinality(At(u)) \in Nat
  <2>1. At(u) \in SUBSET F /\ IsFiniteSet(F)
    BY DEF Numbered
  <2>2. IsFiniteSet(At(u))
    BY <2>1, FS_Subset
  <2>3. QED
    BY <2>2, FS_CardinalityType
<1>2. x.at = t /\ x.nth = Cardinality(At(t)) /\ x \in Failure
  BY <1>1 DEF Failure
<1>3. x \notin F
  BY <1>1, <1>2 DEF Numbered, Failure
<1>4. IsFiniteSet(G) /\ Cardinality(G) = Cardinality(F) + 1
  BY <1>3, FS_AddElement DEF Numbered
<1>5. {d \in G : d.at = t} = At(t) \cup {x}
  BY <1>2
<1>6. Cardinality({d \in G : d.at = t}) = Cardinality(At(t)) + 1
  <2>1. IsFiniteSet(At(t)) /\ x \notin At(t)
    BY <1>1, <1>3
  <2> HIDE DEF At, G
  <2>2. Cardinality(At(t) \cup {x}) = Cardinality(At(t)) + 1
    BY <2>1, FS_AddElement
  <2>3. QED
    BY <1>5, <2>2
<1>7. ASSUME NEW f \in G PROVE f.nth < Cardinality({d \in G : d.at = f.at})
  <2>1. CASE f.at = t
    BY <1>1, <1>2, <1>6, <2>1 DEF Numbered, Failure
  <2>2. CASE f.at # t
    <3>1. {d \in G : d.at = f.at} = At(f.at) /\ f \in F
      BY <1>2, <2>2
    <3>2. QED
      BY <3>1 DEF Numbered
  <2>3. QED
    BY <2>1, <2>2
<1>8. G \in SUBSET Failure
  BY <1>2 DEF Numbered
<1>9. QED
  BY <1>4, <1>7, <1>8 DEF Numbered

(* What a step does to the failures of the addresses: nothing, or one        *)
(* address's become its recent ones, these and one more, or none.            *)
LEMMA FailuresStep ==
  now \in 0 .. MaxTime /\ FailuresInv /\ [Next]_vars => FailuresInv'
<1> SUFFICES ASSUME now \in 0 .. MaxTime, FailuresInv, [Next]_vars PROVE FailuresInv'
  OBVIOUS
<1>1. ASSUME NEW l \in Logins, NEW F, Numbered(F), failures' = [failures EXCEPT ![IpOf[l]] = F]
      PROVE  FailuresInv'
  BY <1>1 DEF FailuresInv, Ips, Numbered
<1>2. \A l \in Logins : Numbered(Recent(IpOf[l]))
  BY PrunedNumbered DEF FailuresInv, Recent, Ips
<1>3. Numbered({})
  BY FS_EmptySet DEF Numbered
<1>4. ASSUME NEW l \in Logins, BeginLogin(l) \/ Throttle(l) PROVE FailuresInv'
  BY <1>1, <1>2, <1>4 DEF BeginLogin, Throttle
<1>5. ASSUME NEW l \in Logins, RecordFailure(l) PROVE FailuresInv'
  <2>1. Numbered(OneMore(IpOf[l]))
    BY <1>2, AppendCounts DEF OneMore
  <2>2. QED
    BY <1>1, <1>5, <2>1 DEF RecordFailure
<1>6. ASSUME NEW l \in Logins, RecordSuccess(l) PROVE FailuresInv'
  BY <1>1, <1>3, <1>6 DEF RecordSuccess
<1>7. CASE CrashAdmin
  BY <1>3, <1>7 DEF CrashAdmin, FailuresInv
<1>8. ASSUME UNCHANGED failures PROVE FailuresInv'
  BY <1>8 DEF FailuresInv
<1>9. QED
  BY <1>4, <1>5, <1>6, <1>7, <1>8
  DEF Next, vars, accessVars, StartAdmin, PostSettings, ProceedSettings, ProceedLogin,
      CheckPassword, CreateSession, EndSession, Visit, AuthLink, IssueCookie, OpenPage, ShowPage,
      Leave, RequireBearer, PatchLink, Tick

(* No login has failed at first. *)
LEMMA FailuresInit == Init => RestTypes /\ FailuresInv
<1> SUFFICES ASSUME Init PROVE RestTypes /\ FailuresInv
  OBVIOUS
<1>1. RestTypes
  BY AccessAssumption DEF Init, RestTypes
<1>2. Numbered({})
  BY FS_EmptySet DEF Numbered
<1>3. QED
  BY <1>1, <1>2 DEF Init, FailuresInv

(* Every variable of the composed system keeps its type: settings, logins,   *)
(* sessions, failures, link, API and cookies, whatever happens between them. *)
THEOREM AccessTypes == Spec => []TypeOK
<1>1. SettingsInv /\ RestTypes /\ FailuresInv /\ [Next]_vars => (RestTypes /\ FailuresInv)'
  BY RestStep, FailuresStep DEF RestTypes, SettingsInv
<1>2. SettingsInv /\ AccessInv /\ RestTypes /\ FailuresInv => TypeOK
  <2> SUFFICES ASSUME SettingsInv, AccessInv, RestTypes, FailuresInv PROVE TypeOK
    OBVIOUS
  <2> QED
    BY DEF FailuresInv, TypeOK, SettingsInv, AccessInv, LoginInv, CookieInv, RestTypes, LoginRecord, VisitRecord
<1>3. QED
  BY <1>1, <1>2, FailuresInit, AccessInvHolds, PTL DEF Spec

-----------------------------------------------------------------------------
(* The sets that are counted are finite. *)
LEMMA Counts ==
  ASSUME FailuresInv, NEW ip \in Ips
  PROVE  /\ IsFiniteSet(Recent(ip)) /\ Cardinality(Recent(ip)) \in Nat
         /\ IsFiniteSet(UnderWay(ip)) /\ Cardinality(UnderWay(ip)) \in Nat
         /\ IsFiniteSet(SlotsOf(ip)) /\ Cardinality(SlotsOf(ip)) \in Nat
<1>1. IsFiniteSet(failures[ip]) /\ Recent(ip) \in SUBSET failures[ip]
  BY DEF FailuresInv, Numbered, Recent
<1>2. IsFiniteSet(Logins) /\ SlotsOf(ip) \in SUBSET Logins /\ UnderWay(ip) \in SUBSET Logins
  BY AccessAssumption DEF SlotsOf, UnderWay
<1>3. IsFiniteSet(Recent(ip))
  BY <1>1, FS_Subset
<1>4. IsFiniteSet(SlotsOf(ip)) /\ IsFiniteSet(UnderWay(ip))
  BY <1>2, FS_Subset
<1>5. QED
  BY <1>3, <1>4, FS_CardinalityType

(* Fewer failures in the window and fewer logins under way keep the bound. *)
LEMMA Shrinks ==
  ASSUME FailuresInv, NEW ip \in Ips, Below(ip),
         Recent(ip)' \subseteq Recent(ip), UnderWay(ip)' \subseteq UnderWay(ip)
  PROVE  Below(ip)'
<1>1. PICK R, U, R2, U2 : R = Recent(ip) /\ U = UnderWay(ip) /\ R2 = Recent(ip)' /\ U2 = UnderWay(ip)'
  OBVIOUS
<1>2. Cardinality(R2) <= Cardinality(R) /\ Cardinality(R2) \in Nat
  BY <1>1, Counts, FS_Subset, FS_CardinalityType
<1>3. Cardinality(U2) <= Cardinality(U) /\ Cardinality(U2) \in Nat
  BY <1>1, Counts, FS_Subset, FS_CardinalityType
<1>4. SlotsOf(ip)' = SlotsOf(ip)
  BY DEF SlotsOf
<1>5. QED
  BY <1>1, <1>2, <1>3, <1>4, Counts, AccessAssumption DEF Below

(* An address without failures or logins is below its bound. *)
LEMMA NothingIsBelow ==
  ASSUME NEW ip \in Ips, FailuresInv
  PROVE  /\ Recent(ip) = {} /\ UnderWay(ip) = {} => Below(ip)
         /\ Cardinality(SlotsOf(ip)) \in Nat
BY Counts, FS_EmptySet, AccessAssumption DEF Below

(* A login is let in only below the limit, and its slot was free. *)
LEMMA BeginBelow ==
  ASSUME LoginInv, FailuresInv, NEW l \in Logins, BeginLogin(l), NEW ip \in Ips, Below(ip)
  PROVE  Below(ip)'
<1>1. Recent(ip)' = Recent(ip)
  BY DEF BeginLogin, Recent, FailuresInv
<1>2. CASE IpOf[l] # ip
  <2>1. UnderWay(ip)' = UnderWay(ip)
    BY <1>2 DEF BeginLogin, UnderWay, SlotsOf, LoginInv
  <2>2. QED
    BY <1>1, <2>1, Shrinks
<1>3. CASE IpOf[l] = ip
  <2>1. PICK R, U, S : R = Recent(ip) /\ U = UnderWay(ip) /\ S = SlotsOf(ip)
    OBVIOUS
  <2>2. l \in S /\ l \notin U /\ U \cup {l} \in SUBSET S
    BY <1>3, <2>1 DEF BeginLogin, UnderWay, SlotsOf
  <2>3. UnderWay(ip)' = U \cup {l}
    BY <1>3, <2>1 DEF BeginLogin, UnderWay, SlotsOf, LoginInv
  <2>4. IsFiniteSet(S) /\ Cardinality(S) \in Nat /\ Cardinality(R) \in Nat
    BY <2>1, Counts
  <2>5. Cardinality(U \cup {l}) <= Cardinality(S)
    BY <2>2, <2>4, FS_Subset
  <2>6. IsFiniteSet(U \cup {l})
    BY <2>2, <2>4, FS_Subset
  <2>7. Cardinality(U \cup {l}) \in Nat
    BY <2>6, FS_CardinalityType
  <2>8. Cardinality(R) < MaxLoginAttempts
    BY <1>3, <2>1 DEF BeginLogin, LoginAllowed
  <2>9. SlotsOf(ip)' = S
    BY <2>1 DEF SlotsOf
  <2>10. QED
    BY <1>1, <2>1, <2>3, <2>4, <2>5, <2>7, <2>8, <2>9, AccessAssumption DEF Below
<1>4. QED
  BY <1>2, <1>3

(* A failure that is counted is a login that is no longer under way. *)
LEMMA FailureBelow ==
  ASSUME LoginInv, FailuresInv, NEW l \in Logins, RecordFailure(l), NEW ip \in Ips, Below(ip)
  PROVE  Below(ip)'
<1>1. CASE IpOf[l] # ip
  <2>1. Recent(ip)' = Recent(ip)
    BY <1>1 DEF RecordFailure, Recent, FailuresInv
  <2>2. UnderWay(ip)' = UnderWay(ip)
    BY <1>1 DEF RecordFailure, UnderWay, SlotsOf, LoginInv
  <2>3. QED
    BY <2>1, <2>2, Shrinks
<1>2. CASE IpOf[l] = ip
  <2>1. PICK R, U, R2, x : /\ R = Recent(ip) /\ U = UnderWay(ip) /\ R2 = Recent(ip)'
                           /\ OneMore(ip) = R \cup {x}
    BY DEF OneMore
  <2>2. R2 \in SUBSET (R \cup {x})
    <3>1. failures'[ip] = R \cup {x}
      BY <1>2, <2>1 DEF RecordFailure, FailuresInv
    <3>2. QED
      BY <2>1, <3>1 DEF Recent
  <2>3. l \in U
    BY <1>2, <2>1 DEF RecordFailure, UnderWay, SlotsOf
  <2>4. UnderWay(ip)' = U \ {l}
    BY <1>2, <2>1 DEF RecordFailure, UnderWay, SlotsOf, LoginInv, NoLogin
  <2>5. /\ IsFiniteSet(R) /\ Cardinality(R) \in Nat /\ IsFiniteSet(U) /\ Cardinality(U) \in Nat
        /\ Cardinality(SlotsOf(ip)) \in Nat
    BY <2>1, Counts
  <2>6. IsFiniteSet(R \cup {x}) /\ Cardinality(R \cup {x}) <= Cardinality(R) + 1
    BY <2>5, FS_AddElement
  <2>7. IsFiniteSet(R2) /\ Cardinality(R2) <= Cardinality(R \cup {x})
    BY <2>2, <2>6, FS_Subset
  <2>8. Cardinality(U \ {l}) = Cardinality(U) - 1
    BY <2>3, <2>5, FS_RemoveElement
  <2>9. Cardinality(R2) \in Nat /\ Cardinality(R \cup {x}) \in Nat
    BY <2>6, <2>7, FS_CardinalityType
  <2>10. SlotsOf(ip)' = SlotsOf(ip)
    BY DEF SlotsOf
  <2>11. QED
    BY <2>1, <2>4, <2>5, <2>6, <2>7, <2>8, <2>9, <2>10, AccessAssumption DEF Below
<1>3. QED
  BY <1>1, <1>2

(* No step takes an address over its bound. *)
LEMMA BelowStep ==
  ASSUME LoginInv, FailuresInv, FailuresInv', now \in 0 .. MaxTime, [Next]_vars,
         NEW ip \in Ips, Below(ip)
  PROVE  Below(ip)'
<1>1. ASSUME NEW l \in Logins, BeginLogin(l) PROVE Below(ip)'
  BY <1>1, BeginBelow
<1>2. ASSUME NEW l \in Logins, RecordFailure(l) PROVE Below(ip)'
  BY <1>2, FailureBelow
<1>3. ASSUME NEW l \in Logins, Throttle(l) PROVE Below(ip)'
  <2>1. Recent(ip)' = Recent(ip)
    BY <1>3 DEF Throttle, Recent, FailuresInv
  <2>2. UnderWay(ip)' = UnderWay(ip)
    BY <1>3 DEF Throttle, UnderWay, SlotsOf
  <2>3. QED
    BY <2>1, <2>2, Shrinks
<1>4. ASSUME NEW l \in Logins, CheckPassword(l) \/ CreateSession(l) PROVE Below(ip)'
  <2>1. Recent(ip)' = Recent(ip)
    BY <1>4 DEF CheckPassword, CreateSession, Recent
  <2>2. UnderWay(ip)' \subseteq UnderWay(ip)
    BY <1>4 DEF CheckPassword, CreateSession, UnderWay, SlotsOf, LoginInv, NoLogin
  <2>3. QED
    BY <2>1, <2>2, Shrinks
<1>5. ASSUME NEW l \in Logins, RecordSuccess(l) PROVE Below(ip)'
  <2>1. Recent(ip)' \subseteq Recent(ip)
    BY <1>5 DEF RecordSuccess, Recent, FailuresInv
  <2>2. UnderWay(ip)' \subseteq UnderWay(ip)
    BY <1>5 DEF RecordSuccess, UnderWay, SlotsOf, LoginInv
  <2>3. QED
    BY <2>1, <2>2, Shrinks
<1>6. CASE CrashAdmin
  <2>1. Recent(ip)' \subseteq Recent(ip)
    BY <1>6 DEF CrashAdmin, Recent
  <2>2. UnderWay(ip)' \subseteq UnderWay(ip)
    BY <1>6 DEF CrashAdmin, UnderWay, SlotsOf, NoLogin
  <2>3. QED
    BY <2>1, <2>2, Shrinks
<1>7. CASE Tick
  <2>1. Recent(ip)' \subseteq Recent(ip)
    <3>1. \A f \in failures[ip] : f.at \in Nat
      BY DEF FailuresInv, Failure
    <3>2. QED
      BY <1>7, <3>1, AccessAssumption DEF Tick, Recent
  <2>2. UnderWay(ip)' = UnderWay(ip)
    BY <1>7 DEF Tick, UnderWay, SlotsOf
  <2>3. QED
    BY <2>1, <2>2, Shrinks
<1>8. ASSUME UNCHANGED <<now, failures, login>> PROVE Below(ip)'
  <2>1. Recent(ip)' = Recent(ip)
    BY <1>8 DEF Recent
  <2>2. UnderWay(ip)' = UnderWay(ip)
    BY <1>8 DEF UnderWay, SlotsOf
  <2>3. QED
    BY <2>1, <2>2, Shrinks
<1>9. QED
  BY <1>1, <1>2, <1>3, <1>4, <1>5, <1>6, <1>7, <1>8
  DEF Next, vars, accessVars, StartAdmin, PostSettings, ProceedSettings, ProceedLogin,
      EndSession, Visit, AuthLink, IssueCookie, OpenPage, ShowPage, Leave, RequireBearer, PatchLink

(* The limit of session.go for any number of addresses and of logins in      *)
(* parallel, any limit and any window: an address's failures within a window *)
(* pass it only by the logins that were let in before they were counted.     *)
THEOREM LoginLimitHolds == Spec => []FailuresBounded
<1>1. Init => RestTypes /\ FailuresInv /\ FailuresBounded
  <2> SUFFICES ASSUME Init PROVE RestTypes /\ FailuresInv /\ FailuresBounded
    OBVIOUS
  <2>1. RestTypes /\ FailuresInv
    BY FailuresInit
  <2>2. \A ip \in Ips : Recent(ip) = {} /\ UnderWay(ip) = {}
    BY DEF Init, Recent, UnderWay, SlotsOf, NoLogin
  <2>3. QED
    BY <2>1, <2>2, NothingIsBelow DEF FailuresBounded, Below
<1>2. ASSUME SettingsInv, AccessInv, RestTypes, FailuresInv, FailuresBounded, [Next]_vars
      PROVE  (RestTypes /\ FailuresInv /\ FailuresBounded)'
  <2>1. RestTypes' /\ FailuresInv'
    BY <1>2, RestStep, FailuresStep DEF RestTypes, SettingsInv
  <2>2. \A ip \in Ips : Below(ip)
    BY <1>2 DEF FailuresBounded, Below
  <2>3. \A ip \in Ips : Below(ip)'
    BY <1>2, <2>1, <2>2, BelowStep DEF AccessInv, RestTypes
  <2>4. FailuresBounded'
    BY <2>3 DEF FailuresBounded, Below, Ips
  <2>5. QED
    BY <2>1, <2>4
<1>3. QED
  BY <1>1, <1>2, AccessInvHolds, PTL DEF Spec
=============================================================================
