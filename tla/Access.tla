------------------------------- MODULE Access -------------------------------
(***************************************************************************)
(* Who gets in: the admin's login with its limit on failures and its       *)
(* sessions (sftpadmin/session.go), and the web container's protected      *)
(* share links, their API and their signed cookies (server/links.go), both *)
(* on top of the settings, which hold the password and the token and are   *)
(* changed by whoever has an admin session.                                *)
(*                                                                         *)
(* One link stands for all: its id is part of the cookie's name and of     *)
(* what is signed.  Cookies and sessions cannot be guessed.                *)
(*                                                                         *)
(* CountedBefore, StartUpPasswordToo and SignatureOnly are the definitions *)
(* after them as a plausible bug would have them.                          *)
(***************************************************************************)
EXTENDS Settings, Integers, FiniteSets

CONSTANTS
  Logins,            \* slots for logins under way
  IpOf,              \* the address each of them comes from
  MaxLoginAttempts,  \* five in the code
  LoginWindow,       \* a minute in the code
  Sids,              \* session ids that createSession draws
  SessionTTL,        \* half an hour in the code
  Visitors,          \* browsers on the link's page
  LinkTTL,           \* a day in the code
  LinkPasswords,     \* passwords the link may have
  MaxTime,           \* the clock stops here
  Mixes,             \* which slots, "api" and "clock" take part in a behaviour
  NoPassword, NoSession, NoCookie, NoCall

Ips == {IpOf[l] : l \in Logins}
Password == "SFTP_ADMIN_PASSWORD"
Token == "ADMIN_TOKEN"

ASSUME AccessAssumption ==
  /\ Password \in Fields /\ Token \in Fields
  /\ {Password, Token} \subseteq Secrets
  /\ MaxLoginAttempts \in Nat \ {0}
  /\ LoginWindow \in Nat /\ SessionTTL \in Nat /\ LinkTTL \in Nat /\ MaxTime \in Nat
  /\ NoPassword \notin LinkPasswords
  /\ IsFiniteSet(Logins)

VARIABLES
  now,       \* the clock
  mix,       \* the slots that take part: one of Mixes, for good
  failures,  \* authState.failures: failed logins by address, each at its time
  login,     \* what each login is doing
  sessions,  \* authState.sessions: when each ends
  linkPw,    \* the link's password
  api,       \* the token of the API call that was let in
  cookie,    \* each visitor's cookie for the link, with ghosts
  visit      \* what each visitor's request is doing

accessVars == <<now, mix, failures, login, sessions, linkPw, api, cookie, visit>>
vars == <<settingsVars, accessVars>>

NoLogin == [pc |-> "idle", pw |-> Empty]
NoVisit == [pc |-> "idle", open |-> FALSE]

(* A slice of times whose order is of no use: the entries of one instant are *)
(* told apart by their number.                                               *)
Failure == [at : 0 .. MaxTime, nth : Nat]

(* recentFailuresLocked: entries at the window's edge have left it. *)
Recent(ip) == {f \in failures[ip] : f.at > now - LoginWindow}

(* recordFailure appends to the recent ones. *)
OneMore(ip) ==
  Recent(ip) \cup {[at |-> now, nth |-> Cardinality({f \in Recent(ip) : f.at = now})]}

(* loginAllowed. *)
CountedBefore(ip) == Cardinality(Recent(ip)) <= MaxLoginAttempts
LoginAllowed(ip) == Cardinality(Recent(ip)) < MaxLoginAttempts

(* checkLoginPassword: the file's password, which the admin reads as root; *)
(* the environment's only without a file.                                  *)
StartUpPasswordToo(pw) == pw \in {file[Password], Env[Password]}
PasswordMatches(pw) == pw = IF file # NoFile THEN file[Password] ELSE Env[Password]

(* lookup: a session is good up to and including its last instant. *)
Live(id) == sessions[id] # NoSession /\ now <= sessions[id]

(* verifyLinkSession with the token in force. *)
SignatureOnly(c) == c # NoCookie /\ c.tok = Effective[Token]
CookieValid(c) == c # NoCookie /\ now <= c.exp /\ c.tok = Effective[Token]

-----------------------------------------------------------------------------
Init ==
  /\ SettingsInit
  /\ now = 0
  /\ mix \in Mixes
  /\ failures = [ip \in Ips |-> {}]
  /\ login = [l \in Logins |-> NoLogin]
  /\ sessions = [id \in Sids |-> NoSession]
  /\ linkPw \in LinkPasswords
  /\ api = NoCall
  /\ cookie = [v \in Visitors |-> NoCookie]
  /\ visit = [v \in Visitors |-> NoVisit]

(* handleSettingsSave needs a session; the other steps of a save do not ask *)
(* again.                                                                   *)
PostSettings(s) ==
  /\ s \in mix
  /\ \E id \in Sids : Live(id)
  /\ Post(s)
  /\ UNCHANGED accessVars

ProceedSettings(s) == Proceed(s) /\ UNCHANGED accessVars
StartAdmin == Start /\ UNCHANGED accessVars

(* Sessions, failures and logins live in the admin's memory. *)
CrashAdmin ==
  /\ AdminCrash
  /\ failures' = [ip \in Ips |-> {}]
  /\ login' = [l \in Logins |-> NoLogin]
  /\ sessions' = [id \in Sids |-> NoSession]
  /\ UNCHANGED <<now, mix, linkPw, api, cookie, visit>>

(* handleLogin: loginAllowed, which also forgets old failures. *)
BeginLogin(l) ==
  /\ l \in mix /\ admin = "up" /\ login[l].pc = "idle"
  /\ failures' = [failures EXCEPT ![IpOf[l]] = Recent(IpOf[l])]
  /\ LoginAllowed(IpOf[l])
  /\ \E pw \in Values : login' = [login EXCEPT ![l] = [pc |-> "allowed", pw |-> pw]]
  /\ UNCHANGED <<settingsVars, now, mix, sessions, linkPw, api, cookie, visit>>

(* Answered 429. *)
Throttle(l) ==
  /\ l \in mix /\ admin = "up" /\ login[l].pc = "idle"
  /\ failures' = [failures EXCEPT ![IpOf[l]] = Recent(IpOf[l])]
  /\ ~LoginAllowed(IpOf[l])
  /\ UNCHANGED <<settingsVars, now, mix, login, sessions, linkPw, api, cookie, visit>>

CheckPassword(l) ==
  /\ login[l].pc = "allowed"
  /\ login' = [login EXCEPT ![l] =
       [pc |-> IF PasswordMatches(login[l].pw) THEN "good" ELSE "bad", pw |-> login[l].pw]]
  /\ UNCHANGED <<settingsVars, now, mix, failures, sessions, linkPw, api, cookie, visit>>

RecordFailure(l) ==
  /\ login[l].pc = "bad"
  /\ failures' = [failures EXCEPT ![IpOf[l]] = OneMore(IpOf[l])]
  /\ login' = [login EXCEPT ![l] = NoLogin]
  /\ UNCHANGED <<settingsVars, now, mix, sessions, linkPw, api, cookie, visit>>

RecordSuccess(l) ==
  /\ login[l].pc = "good"
  /\ failures' = [failures EXCEPT ![IpOf[l]] = {}]
  /\ login' = [login EXCEPT ![l] = [pc |-> "cleared", pw |-> login[l].pw]]
  /\ UNCHANGED <<settingsVars, now, mix, sessions, linkPw, api, cookie, visit>>

CreateSession(l) ==
  /\ login[l].pc = "cleared"
  /\ \E id \in Sids :
       /\ sessions[id] = NoSession
       /\ sessions' = [sessions EXCEPT ![id] = now + SessionTTL]
  /\ login' = [login EXCEPT ![l] = NoLogin]
  /\ UNCHANGED <<settingsVars, now, mix, failures, linkPw, api, cookie, visit>>

(* Logout, or any request with a session that has ended: lookup drops it. *)
EndSession(id) ==
  /\ admin = "up"
  /\ sessions[id] # NoSession
  /\ sessions' = [sessions EXCEPT ![id] = NoSession]
  /\ UNCHANGED <<settingsVars, now, mix, failures, login, linkPw, api, cookie, visit>>

(* requireBearer: a call of the link API has the token in force; *)
RequireBearer ==
  /\ "api" \in mix /\ api = NoCall
  /\ \E tok \in Values : tok = Effective[Token] /\ api' = tok
  /\ UNCHANGED <<settingsVars, now, mix, failures, login, sessions, linkPw, cookie, visit>>

(* then the rest of handleLinkPatch changes, sets, removes or keeps the *)
(* link's password.                                                     *)
PatchLink ==
  /\ api # NoCall
  /\ linkPw' \in LinkPasswords \cup {NoPassword}
  /\ api' = NoCall
  /\ UNCHANGED <<settingsVars, now, mix, failures, login, sessions, cookie, visit>>

(* handleLinkAuth: the link is read and its password given (an open link or *)
(* a wrong password only gets an answer);                                   *)
AuthLink(v) ==
  /\ v \in mix /\ visit[v].pc = "idle"
  /\ linkPw # NoPassword
  /\ visit' = [visit EXCEPT ![v] = [pc |-> "proved", open |-> TRUE]]
  /\ UNCHANGED <<settingsVars, now, mix, failures, login, sessions, linkPw, api, cookie>>

(* then the cookie is signed with the token of that moment. *)
IssueCookie(v) ==
  /\ visit[v].pc = "proved"
  /\ cookie' = [cookie EXCEPT ![v] =
       [tok |-> Effective[Token], exp |-> now + LinkTTL, at |-> now]]
  /\ visit' = [visit EXCEPT ![v] = NoVisit]
  /\ UNCHANGED <<settingsVars, now, mix, failures, login, sessions, linkPw, api>>

(* handleLinkPage, handleLinkFiles: the link is read.  It is open to the    *)
(* request without a password, or with the one in its query;                *)
OpenPage(v) ==
  /\ v \in mix /\ visit[v].pc = "idle"
  /\ \E given \in LinkPasswords \cup {NoPassword} :
       visit' = [visit EXCEPT ![v] = [pc |-> "page", open |-> linkPw \in {NoPassword, given}]]
  /\ UNCHANGED <<settingsVars, now, mix, failures, login, sessions, linkPw, api, cookie>>

(* else, with the configuration of that moment, the cookie decides. *)
LinkSessionOK(v) == visit[v].open \/ CookieValid(cookie[v])
ShowPage(v) ==
  /\ visit[v].pc = "page"
  /\ visit' = [visit EXCEPT ![v] =
       IF LinkSessionOK(v) THEN [pc |-> "shown", open |-> visit[v].open] ELSE NoVisit]
  /\ UNCHANGED <<settingsVars, now, mix, failures, login, sessions, linkPw, api, cookie>>

Leave(v) ==
  /\ visit[v].pc = "shown"
  /\ visit' = [visit EXCEPT ![v] = NoVisit]
  /\ UNCHANGED <<settingsVars, now, mix, failures, login, sessions, linkPw, api, cookie>>

Tick ==
  /\ "clock" \in mix
  /\ now < MaxTime
  /\ now' = now + 1
  /\ UNCHANGED <<settingsVars, mix, failures, login, sessions, linkPw, api, cookie, visit>>

ProceedLogin(l) == CheckPassword(l) \/ RecordFailure(l) \/ RecordSuccess(l) \/ CreateSession(l)
Visit(v) == AuthLink(v) \/ IssueCookie(v) \/ OpenPage(v) \/ ShowPage(v) \/ Leave(v)

Next ==
  \/ StartAdmin \/ CrashAdmin
  \/ \E s \in Saves : PostSettings(s) \/ ProceedSettings(s)
  \/ \E l \in Logins : BeginLogin(l) \/ Throttle(l) \/ ProceedLogin(l)
  \/ \E id \in Sids : EndSession(id)
  \/ \E v \in Visitors : Visit(v)
  \/ RequireBearer \/ PatchLink \/ Tick

Spec == Init /\ [][Next]_vars

(* The container runtime restarts the admin, and a save that holds the lock *)
(* goes on; nothing is promised of clients, faults and time.                *)
FairSpec == Spec /\ WF_vars(StartAdmin) /\ \A s \in Saves : WF_vars(ProceedSettings(s))

-----------------------------------------------------------------------------
(* Every variable keeps its type. *)
TypeOK ==
  /\ SettingsTypeOK
  /\ now \in 0 .. MaxTime
  /\ mix \in Mixes
  /\ failures \in [Ips -> SUBSET Failure]
  /\ login \in [Logins -> [pc : {"idle", "allowed", "good", "bad", "cleared"},
                           pw : Values \cup {Empty}]]
  /\ sessions \in [Sids -> 0 .. MaxTime + SessionTTL \cup {NoSession}]
  /\ linkPw \in LinkPasswords \cup {NoPassword}
  /\ api \in Values \cup {NoCall}
  /\ cookie \in [Visitors -> [tok : Values, exp : 0 .. MaxTime + LinkTTL, at : 0 .. MaxTime]
                               \cup {NoCookie}]
  /\ visit \in [Visitors -> [pc : {"idle", "proved", "page", "shown"}, open : BOOLEAN]]

(* The limit of session.go with logins in parallel: an address has at most  *)
(* MaxLoginAttempts failures within a window, plus one for each further     *)
(* login that was let in before they were counted.  (session.go:20-21 says  *)
(* at most MaxLoginAttempts; that holds of logins one after the other only.)*)
SlotsOf(ip) == {l \in Logins : IpOf[l] = ip}
UnderWay(ip) == {l \in SlotsOf(ip) : login[l].pc \in {"allowed", "bad"}}
FailuresBounded ==
  \A ip \in Ips : Cardinality(Recent(ip)) + Cardinality(UnderWay(ip))
                    < MaxLoginAttempts + Cardinality(SlotsOf(ip))

(* A replaced secret opens nothing: no login passes with a password, no API *)
(* call with a token and no page is shown for a cookie signed with a token  *)
(* that a form has replaced and none has submitted since.  What the code    *)
(* does not keep is left out here and stated by OldTokenRefused: while the  *)
(* web container cannot read the file it takes its start-up token.          *)
Stale(tok) == tok \in retired[Token] /\ ~(~WebReads /\ tok = Env[Token])
RetiredSecretsRefused ==
  [][/\ \A l \in Logins : login[l].pc = "allowed" /\ login'[l].pc = "good" =>
          login[l].pw \notin retired[Password]
     /\ \A v \in Visitors : visit[v].pc = "page" /\ visit'[v].pc = "shown" =>
          visit[v].open \/ ~Stale(cookie[v].tok)
     /\ api = NoCall /\ api' # NoCall => ~Stale(api')]_vars

(* A token is refused, and so is a cookie signed with it, from when the save *)
(* that replaced it has been answered until a form submits it again.  (The   *)
(* code takes the start-up token again whenever a later save is between      *)
(* rename and chmod, or stopped there.)                                      *)
Replacing(tok) == \E s \in Saves : save[s].pc = "renamed" /\ save[s].base[Token] = tok
OldTokenRefused ==
  [][/\ \A v \in Visitors : visit[v].pc = "page" /\ visit'[v].pc = "shown" =>
          \/ visit[v].open
          \/ cookie[v].tok \in retired[Token] => Replacing(cookie[v].tok)
     /\ api = NoCall /\ api' # NoCall => (api' \in retired[Token] => Replacing(api'))]_vars

(* A protected page is shown to who gave its password in this request, or to *)
(* a visitor whose cookie was issued within a day, whatever password the     *)
(* link has had since.                                                       *)
SessionsEnd ==
  [][\A v \in Visitors : visit[v].pc = "page" /\ visit'[v].pc = "shown" =>
       \/ visit[v].open
       \/ cookie[v] # NoCookie /\ now - cookie[v].at <= LinkTTL]_vars
=============================================================================
