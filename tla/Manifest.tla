------------------------------ MODULE Manifest ------------------------------
(***************************************************************************)
(* The SFTP user manifest and its admin handlers: internal/sftpadmin       *)
(* store.go (users.json and the sidecar key-notes.json behind one mutex)   *)
(* and the user and key handlers of server.go.                             *)
(*                                                                         *)
(* Only this process writes the two files, one rename per write, so every  *)
(* Store method is one atomic step.  A handler is several: most look a     *)
(* user or key up with Load and act on the answer in a later Update, and   *)
(* clean up the notes in steps after that.  A request whose look-up or     *)
(* form check fails is answered at once and changes nothing.               *)
(*                                                                         *)
(* A key list is the set of its entries: which of two entries with one     *)
(* fingerprint comes first is left open.  The definitions whose comment    *)
(* says "mutant" are the next definition with a plausible bug; no          *)
(* specification uses them.                                                *)
(***************************************************************************)
EXTENDS Integers

CONSTANTS
  Names,       \* usernames that pass ValidateUsername
  Fps,         \* fingerprints of public keys
  LegacyKeys,  \* entries a manifest written elsewhere may hold at start-up
  Reqs,        \* request slots: what the process serves at the same time
  Faults,      \* which of "write", "note", "token", "crash" can happen
  Invalid,     \* an entry that fails ValidatePublicKey
  NoUser, NoName, NoFp

(* ValidatePublicKey accepts a comment but returns the canonical text      *)
(* without it, and both texts have the same fingerprint.  Mutant: the text *)
(* is stored as pasted.                                                    *)
Entry == [fp : Fps, form : {"canonical", "commented"}] \cup {Invalid}
AsPasted(fp) == [fp |-> fp, form |-> "pasted"]
Canonical(fp) == [fp |-> fp, form |-> "canonical"]
User == [enabled : BOOLEAN, keys : SUBSET Entry]
Manifests == [Names -> User \cup {NoUser}]
NoteIds == Names \X Fps

ASSUME ConstantsAssumption ==
  /\ LegacyKeys \subseteq Entry
  /\ Invalid \notin [fp : Fps, form : {"canonical", "commented"}]
  /\ NoUser \notin User

VARIABLES
  users,    \* users.json
  notes,    \* key-notes.json: the keys that have a note
  pending,  \* Server.pending by key: generated private keys to download
  made,     \* fingerprints of the key pairs generated so far
  served,   \* ghost: how often each private key was downloaded
  req,      \* what each request is doing
  missed    \* ghost: keys that came or went since a request last looked

vars == <<users, notes, pending, made, served, req, missed>>

Idle == [pc |-> "idle", op |-> "none", user |-> NoName, fp |-> NoFp, keep |-> {}]

Request ==
  [pc : {"idle", "checked", "offer", "note", "cleanup", "prune"},
   op : {"none", "create", "generate", "deleteKey", "note", "enable", "delete", "repair"},
   user : Names \cup {NoName}, fp : Fps \cup {NoFp}, keep : SUBSET NoteIds]

Usable(keys) == keys \ {Invalid}
Fingerprints(keys) == {k.fp : k \in Usable(keys)}
LiveKeys(m) == {n \in NoteIds : m[n[1]] # NoUser /\ n[2] \in Fingerprints(m[n[1]].keys)}

(* deleteKey: one entry with the fingerprint goes; a user left without a *)
(* usable key is disabled and its list emptied.  Mutant: the switch stays. *)
WithoutKeyStaysEnabled(user, fp) ==
  {[user EXCEPT !.keys = @ \ {k}] : k \in {e \in Usable(user.keys) : e.fp = fp}}
WithoutKey(user, fp) ==
  {LET kept == user.keys \ {k} IN
     IF user.enabled /\ Usable(kept) = {}
       THEN [enabled |-> FALSE, keys |-> {}]
       ELSE [user EXCEPT !.keys = kept]
   : k \in {e \in Usable(user.keys) : e.fp = fp}}

(* RemoveInvalidKeys on one user. *)
Repaired(user) ==
  IF Usable(user.keys) = user.keys THEN user
  ELSE [enabled |-> user.enabled /\ Usable(user.keys) # {}, keys |-> Usable(user.keys)]

(* What the Update callbacks make of user u: the possible new values, none *)
(* when the callback returns an error.  handleDelete looks at the switch   *)
(* again in its callback.  Mutants: a new key replaces the list instead of *)
(* joining it; handleDelete relies on its look-up.                         *)
Created(u, fp) ==
  IF users[u] = NoUser THEN {[enabled |-> TRUE, keys |-> {Canonical(fp)}]} ELSE {}
KeyReplaced(u, fp) ==
  IF users[u] = NoUser THEN {} ELSE {[users[u] EXCEPT !.keys = {Canonical(fp)}]}
KeyAdded(u, fp) ==
  IF users[u] = NoUser THEN {} ELSE {[users[u] EXCEPT !.keys = @ \cup {Canonical(fp)}]}
KeyDeleted(u, fp) ==
  IF users[u] = NoUser THEN {} ELSE WithoutKey(users[u], fp)
Switched(u, enabled) ==
  IF users[u] = NoUser THEN {} ELSE {[users[u] EXCEPT !.enabled = enabled]}
DeletedUnchecked(u) ==
  IF users[u] = NoUser THEN {} ELSE {NoUser}
Deleted(u) ==
  IF users[u] = NoUser \/ users[u].enabled THEN {} ELSE {NoUser}

(* Store.Update: load, edit, validate every entry of every user, write. *)
Strict(m) == \A u \in Names : m[u] # NoUser => Invalid \notin m[u].keys
Update(u, edits) ==
  \E v \in edits :
    /\ Strict([users EXCEPT ![u] = v])
    /\ users' = [users EXCEPT ![u] = v]
Refused(u, edits) ==
  "write" \in Faults \/ \A v \in edits : ~Strict([users EXCEPT ![u] = v])

(* Key generation never draws a key anyone has used before. *)
Fresh == {fp \in Fps \ made : \A u \in Names : users[u] # NoUser =>
                                 fp \notin Fingerprints(users[u].keys)}

At(r, pc, op) == req[r].pc = pc /\ req[r].op = op
Goto(r, pc, op, u, fp) ==
  req' = [req EXCEPT ![r] = [pc |-> pc, op |-> op, user |-> u, fp |-> fp, keep |-> {}]]
Finish(r) == req' = [req EXCEPT ![r] = Idle]

-----------------------------------------------------------------------------
(* No manifest, a seeded one, or one from elsewhere in which no enabled user *)
(* has an empty list (the reconciler takes that as access revoked); then no  *)
(* notes.                                                                    *)
LegacyUser ==
  {v \in [enabled : BOOLEAN, keys : SUBSET LegacyKeys] : v.enabled => v.keys # {}}

Init ==
  /\ users \in [Names -> LegacyUser \cup {NoUser}]
  /\ notes = {}
  /\ pending = [fp \in Fps |-> "none"]
  /\ made = {}
  /\ served = [fp \in Fps |-> 0]
  /\ req = [r \in Reqs |-> Idle]
  /\ missed = [r \in Reqs |-> {}]

(* handleCreate with a pasted key, handleAddKey and handleStatus disabling: *)
(* one Update, without a look-up before it.                                 *)
Create(r) ==
  /\ req[r].pc = "idle"
  /\ \E u \in Names, fp \in Fps : Update(u, Created(u, fp))
  /\ UNCHANGED <<notes, pending, made, served, req>>

AddKey(r) ==
  /\ req[r].pc = "idle"
  /\ \E u \in Names, fp \in Fps : Update(u, KeyAdded(u, fp))
  /\ UNCHANGED <<notes, pending, made, served, req>>

Disable(r) ==
  /\ req[r].pc = "idle"
  /\ \E u \in Names : Update(u, Switched(u, FALSE))
  /\ UNCHANGED <<notes, pending, made, served, req>>

(* handleCreate without a key: the pair is generated before the Update, *)
(* its private half put up for download after it.                       *)
CreateGenerated(r) ==
  /\ req[r].pc = "idle"
  /\ \E u \in Names, fp \in Fresh :
       /\ Update(u, Created(u, fp))
       /\ made' = made \cup {fp}
       /\ Goto(r, "offer", "create", u, fp)
  /\ UNCHANGED <<notes, pending, served>>

(* The look-ups: handleGenerateKey wants the user, handleDeleteKey and  *)
(* handleKeyNote the key, handleStatus enabling a usable key,           *)
(* handleDelete a disabled user.  Mutant: the keys are not counted.     *)
CheckGenerate(r) ==
  /\ req[r].pc = "idle"
  /\ \E u \in Names, fp \in Fresh :
       /\ users[u] # NoUser
       /\ made' = made \cup {fp}
       /\ Goto(r, "checked", "generate", u, fp)
  /\ UNCHANGED <<users, notes, pending, served>>

CheckKey(r, op) ==
  /\ req[r].pc = "idle"
  /\ \E n \in LiveKeys(users) : Goto(r, "checked", op, n[1], n[2])
  /\ UNCHANGED <<users, notes, pending, made, served>>

CheckUser(r) ==
  /\ req[r].pc = "idle"
  /\ \E u \in Names :
       /\ users[u] # NoUser
       /\ Goto(r, "checked", "enable", u, NoFp)
  /\ UNCHANGED <<users, notes, pending, made, served>>

CheckEnable(r) ==
  /\ req[r].pc = "idle"
  /\ \E u \in Names :
       /\ users[u] # NoUser /\ Usable(users[u].keys) # {}
       /\ Goto(r, "checked", "enable", u, NoFp)
  /\ UNCHANGED <<users, notes, pending, made, served>>

CheckDelete(r) ==
  /\ req[r].pc = "idle"
  /\ \E u \in Names :
       /\ users[u] # NoUser /\ ~users[u].enabled
       /\ Goto(r, "checked", "delete", u, NoFp)
  /\ UNCHANGED <<users, notes, pending, made, served>>

(* The Update after the look-up: its callback decides again. *)
Generate(r) ==
  /\ At(r, "checked", "generate")
  /\ Update(req[r].user, KeyAdded(req[r].user, req[r].fp))
  /\ Goto(r, "offer", "generate", req[r].user, req[r].fp)
  /\ UNCHANGED <<notes, pending, made, served>>

DeleteKey(r) ==
  /\ At(r, "checked", "deleteKey")
  /\ Update(req[r].user, KeyDeleted(req[r].user, req[r].fp))
  /\ Goto(r, "note", "deleteKey", req[r].user, req[r].fp)
  /\ UNCHANGED <<notes, pending, made, served>>

Enable(r) ==
  /\ At(r, "checked", "enable")
  /\ Update(req[r].user, Switched(req[r].user, TRUE))
  /\ Finish(r)
  /\ UNCHANGED <<notes, pending, made, served>>

Delete(r) ==
  /\ At(r, "checked", "delete")
  /\ Update(req[r].user, Deleted(req[r].user))
  /\ Goto(r, "cleanup", "delete", req[r].user, NoFp)
  /\ UNCHANGED <<notes, pending, made, served>>

(* 404, 409 or 500: nothing was written. *)
Refuse(r) ==
  LET u == req[r].user IN
  /\ \/ At(r, "checked", "generate") /\ Refused(u, KeyAdded(u, req[r].fp))
     \/ At(r, "checked", "deleteKey") /\ Refused(u, KeyDeleted(u, req[r].fp))
     \/ At(r, "checked", "enable") /\ Refused(u, Switched(u, TRUE))
     \/ At(r, "checked", "delete") /\ Refused(u, Deleted(u))
  /\ Finish(r)
  /\ UNCHANGED <<users, notes, pending, made, served>>

(* handleRemoveInvalidKeys; nothing is written when nothing is invalid. *)
Repair(r) ==
  /\ req[r].pc = "idle"
  /\ users' = [u \in Names |-> IF users[u] = NoUser THEN NoUser ELSE Repaired(users[u])]
  /\ Goto(r, "cleanup", "repair", NoName, NoFp)
  /\ UNCHANGED <<notes, pending, made, served>>

(* handleKeyNote: an empty note clears the entry. *)
SetNote(r) ==
  LET n == <<req[r].user, req[r].fp>> IN
  /\ At(r, "checked", "note")
  /\ \/ notes' \in {notes \cup {n}, notes \ {n}}
     \/ "note" \in Faults /\ notes' = notes
  /\ Finish(r)
  /\ UNCHANGED <<users, pending, made, served>>

(* handleDeleteKey ends with DeleteNote, whose error it ignores. *)
DeleteNote(r) ==
  /\ req[r].pc = "note"
  /\ \/ notes' = notes \ {<<req[r].user, req[r].fp>>}
     \/ "note" \in Faults /\ notes' = notes
  /\ Finish(r)
  /\ UNCHANGED <<users, pending, made, served>>

(* handleDelete and handleRemoveInvalidKeys end by loading the manifest for *)
(* the keys to keep and pruning the other notes, again ignoring errors.     *)
(* Mutant: the keys to keep are those of enabled users.                     *)
KeepOfEnabled(r) == {n \in LiveKeys(users) : users[n[1]].enabled}
Keep(r) == LiveKeys(users)

LoadKeep(r) ==
  /\ req[r].pc = "cleanup"
  /\ req' = [req EXCEPT ![r] = [@ EXCEPT !.pc = "prune", !.keep = Keep(r)]]
  /\ UNCHANGED <<users, notes, pending, made, served>>

PruneNotes(r) ==
  /\ req[r].pc = "prune"
  /\ \/ notes' = notes \cap req[r].keep
     \/ "note" \in Faults /\ notes' = notes
  /\ Finish(r)
  /\ UNCHANGED <<users, pending, made, served>>

(* The private key is put up under a fresh token, unless none can be made. *)
Offer(r) ==
  /\ req[r].pc = "offer"
  /\ \/ pending' = [pending EXCEPT ![req[r].fp] = "live"]
     \/ "token" \in Faults /\ pending' = pending
  /\ Finish(r)
  /\ UNCHANGED <<users, notes, made, served>>

(* handleDownload takes the entry out before it looks at the expiry.  *)
(* Mutant: a live entry stays.                                        *)
TakenUnlessLive(fp) == [pending EXCEPT ![fp] = IF @ = "live" THEN @ ELSE "none"]
Taken(fp) == [pending EXCEPT ![fp] = "none"]

Download(fp) ==
  /\ pending[fp] # "none"
  /\ pending' = Taken(fp)
  /\ served' = [served EXCEPT ![fp] = IF pending[fp] = "live" THEN @ + 1 ELSE @]
  /\ UNCHANGED <<users, notes, made, req>>

(* pendingKeyTTL passes. *)
Expire(fp) ==
  /\ pending[fp] = "live"
  /\ pending' = [pending EXCEPT ![fp] = "expired"]
  /\ UNCHANGED <<users, notes, made, served, req>>

(* The process dies and comes back: only the two files survive. *)
Crash ==
  /\ "crash" \in Faults
  /\ pending' = [fp \in Fps |-> "none"]
  /\ req' = [r \in Reqs |-> Idle]
  /\ UNCHANGED <<users, notes, made, served>>

Step(r) ==
  \/ Create(r) \/ AddKey(r) \/ Disable(r) \/ CreateGenerated(r)
  \/ CheckGenerate(r) \/ CheckKey(r, "deleteKey") \/ CheckKey(r, "note")
  \/ CheckEnable(r) \/ CheckDelete(r)
  \/ Generate(r) \/ DeleteKey(r) \/ Enable(r) \/ Delete(r) \/ Refuse(r)
  \/ Repair(r) \/ SetNote(r) \/ DeleteNote(r) \/ LoadKeep(r) \/ PruneNotes(r)
  \/ Offer(r)

(* What a request that is past its look-up, or has loaded the keys to keep, *)
(* does not know of.                                                        *)
Watch ==
  LET moved == (LiveKeys(users) \ LiveKeys(users')) \cup (LiveKeys(users') \ LiveKeys(users)) IN
  missed' = [r \in Reqs |->
    IF req'[r].pc \notin {"checked", "prune"} THEN {}
    ELSE IF req'[r].pc = req[r].pc THEN missed[r] \cup moved ELSE {}]

Next ==
  /\ \/ \E r \in Reqs : Step(r)
     \/ \E fp \in Fps : Download(fp) \/ Expire(fp)
     \/ Crash
  /\ Watch

Spec == Init /\ [][Next]_vars

-----------------------------------------------------------------------------
(* Every variable keeps its type; a request past its look-up knows the user *)
(* it is about, and the key where there is one.                             *)
Located(q) ==
  /\ q.pc = "checked" =>
       q.user \in Names /\ q.op \in {"generate", "deleteKey", "note", "enable", "delete"}
  /\ q.pc = "checked" /\ q.op \in {"generate", "deleteKey", "note"} => q.fp \in Fps
  /\ q.pc \in {"offer", "note"} => q.user \in Names /\ q.fp \in Fps

TypeOK ==
  /\ users \in Manifests
  /\ notes \in SUBSET NoteIds
  /\ pending \in [Fps -> {"none", "live", "expired"}]
  /\ made \in SUBSET Fps
  /\ served \in [Fps -> Nat]
  /\ req \in [Reqs -> Request]
  /\ \A r \in Reqs : Located(req[r])
  /\ missed \in [Reqs -> SUBSET NoteIds]

(* An enabled user has a key in the manifest: handleStatus enables nobody   *)
(* without a usable key, and removing the last key disables.  (An entry     *)
(* that is Invalid was there at start-up and waits for the repair.)         *)
Keyless(v) == v # NoUser /\ v.enabled /\ v.keys = {}
EnabledHasKey == \A u \in Names : ~Keyless(users[u])

(* A user becomes enabled without a key in one way only, however requests    *)
(* interleave: by a handleStatus during which a key of that user left.  No   *)
(* other handler, and no enabling that misses nothing, can bring it about.   *)
KeylessOnlyByRace ==
  [][\A u \in Names : Keyless(users'[u]) /\ ~Keyless(users[u]) =>
       \E r \in Reqs : /\ At(r, "checked", "enable") /\ req'[r].pc = "idle"
                      /\ req[r].user = u /\ \E n \in missed[r] : n[1] = u]_users

(* Only a disabled user is ever removed, though another request may enable *)
(* it between handleDelete's look-up and its Update.                       *)
OnlyDisabledRemoved ==
  [][\A u \in Names : users[u] # NoUser /\ users'[u] = NoUser => ~users[u].enabled]_users

(* The write that takes an enabled user's last usable key, be it a key       *)
(* removal or a repair, also disables the user: the reconciler never sees    *)
(* one without the other.                                                    *)
LastKeyDisables ==
  [][\A u \in Names :
       users[u] # NoUser /\ users'[u] # NoUser /\ users[u] # users'[u]
         /\ users[u].keys # {} /\ Usable(users'[u].keys) = {}
         => ~users'[u].enabled]_users

(* Of a user that stays, a write drops usable entries of one fingerprint     *)
(* only, the one a removal has named: no other removal, repair, status       *)
(* change or addition, however interleaved, loses or replaces a key.  (Not   *)
(* all entries of that fingerprint need go: deleteKey drops the first.)      *)
OnlyNamedKeyLeaves ==
  [][\A u \in Names : users[u] # NoUser /\ users'[u] # NoUser =>
       LET gone == Usable(users[u].keys) \ users'[u].keys IN
         gone # {} =>
           \E r \in Reqs : /\ At(r, "checked", "deleteKey") /\ req'[r].pc = "note"
                          /\ req[r].user = u /\ {req[r].fp} = Fingerprints(gone)]_users

(* A generated private key is downloaded at most once. *)
ServedOnce == \A fp \in Fps : served[fp] <= 1

(* When no request is under way, every note belongs to a key of the        *)
(* manifest: key removal, user deletion and repair leave no orphan.  (That *)
(* is so for one request at a time while nothing fails.)                   *)
NoOrphanNotes ==
  (\A r \in Reqs : req[r].pc = "idle") => notes \subseteq LiveKeys(users)

(* A note leaves only with its key, or by a removal or a note request that  *)
(* names that key: pruning keeps the notes of surviving keys.  The one      *)
(* exception is a key that was added after the clean-up loaded the keys to  *)
(* keep and before it prunes.                                               *)
NotesSurvive ==
  [][\A n \in notes \ notes' :
       \/ n \notin LiveKeys(users)
       \/ \E r \in Reqs : /\ req[r].pc \in {"checked", "note"} /\ req'[r].pc = "idle"
                          /\ n = <<req[r].user, req[r].fp>>
       \/ \E r \in Reqs : /\ req[r].pc = "prune" /\ req'[r].pc = "idle"
                          /\ n \in missed[r]]_notes
=============================================================================
