--------------------------- MODULE ManifestProofs ---------------------------
(***************************************************************************)
(* Proofs about Manifest for every set of names, keys, requests and        *)
(* faults.  The lemma Edits settles what the Update callbacks make of a    *)
(* user, RepairedFacts what the repair does; UsersStep says that a step    *)
(* changes users.json only by one of them.  Then: where a generated key    *)
(* pair is (OnceInv), which keys a write drops (KeysLeave), what a request *)
(* still knows of the keys it looked at (KnowsInv), and, for one request   *)
(* at a time, which notes a handler leaves (NotesInv).                     *)
(***************************************************************************)
EXTENDS Manifest, TLAPS

(* The Update callbacks return users, and what they do to switch and keys. *)
LEMMA Edits ==
  ASSUME users \in Manifests, NEW u \in Names, NEW v
  PROVE  /\ users[u] \in User \cup {NoUser} /\ NoUser \notin User
         /\ \A fp \in Fps : v \in Created(u, fp) =>
              users[u] = NoUser /\ v \in User /\ Usable(v.keys) # {}
         /\ \A fp \in Fps : v \in KeyAdded(u, fp) =>
              users[u] \in User /\ v \in User /\ Usable(v.keys) # {}
                /\ v.enabled = users[u].enabled
         /\ \A fp \in Fps : v \in KeyDeleted(u, fp) =>
              users[u] \in User /\ v \in User /\ (v.enabled => Usable(v.keys) # {})
         /\ \A b \in BOOLEAN : v \in Switched(u, b) =>
              users[u] \in User /\ v \in User /\ v.enabled = b /\ v.keys = users[u].keys
         /\ v \in Deleted(u) =>
              users[u] \in User /\ ~users[u].enabled /\ v = NoUser
<1>1. users[u] \in User \cup {NoUser} /\ NoUser \notin User
  BY ConstantsAssumption DEF Manifests
<1>2. ASSUME NEW fp \in Fps
      PROVE  Canonical(fp) \in Entry /\ Canonical(fp) # Invalid
  BY ConstantsAssumption DEF Canonical, Entry
<1>3. ASSUME NEW fp \in Fps, v \in Created(u, fp)
      PROVE  users[u] = NoUser /\ v \in User /\ Usable(v.keys) # {}
  <2>1. users[u] = NoUser /\ v = [enabled |-> TRUE, keys |-> {Canonical(fp)}]
    BY <1>3 DEF Created
  <2>2. {Canonical(fp)} \in SUBSET Entry /\ Canonical(fp) \in Usable({Canonical(fp)})
    BY <1>2 DEF Usable
  <2>3. v \in User /\ v.keys = {Canonical(fp)}
    BY <2>1, <2>2 DEF User
  <2> QED BY <2>1, <2>2, <2>3
<1>4. ASSUME NEW fp \in Fps, v \in KeyAdded(u, fp)
      PROVE  users[u] \in User /\ v \in User /\ Usable(v.keys) # {}
               /\ v.enabled = users[u].enabled
  BY <1>1, <1>2, <1>4 DEF KeyAdded, User, Usable
<1>5. ASSUME NEW fp \in Fps, v \in KeyDeleted(u, fp)
      PROVE  users[u] \in User /\ v \in User /\ (v.enabled => Usable(v.keys) # {})
  <2>1. users[u] \in User
    BY <1>1, <1>5 DEF KeyDeleted
  <2>2. PICK k \in Usable(users[u].keys) :
          v = IF users[u].enabled /\ Usable(users[u].keys \ {k}) = {}
                THEN [enabled |-> FALSE, keys |-> {}]
                ELSE [users[u] EXCEPT !.keys = users[u].keys \ {k}]
    BY <1>5, <2>1 DEF KeyDeleted, WithoutKey
  <2> DEFINE kept == users[u].keys \ {k}
  <2>3. CASE users[u].enabled /\ Usable(kept) = {}
    BY <2>1, <2>2, <2>3 DEF User
  <2>4. CASE ~(users[u].enabled /\ Usable(kept) = {})
    <3>1. v = [users[u] EXCEPT !.keys = kept]
      BY <2>2, <2>4
    <3> HIDE DEF kept
    <3>2. kept \in SUBSET Entry
      BY <2>1 DEF kept, User
    <3> QED BY <2>1, <2>4, <3>1, <3>2 DEF User
  <2> QED BY <2>3, <2>4
<1>6. ASSUME NEW b \in BOOLEAN, v \in Switched(u, b)
      PROVE  users[u] \in User /\ v \in User /\ v.enabled = b /\ v.keys = users[u].keys
  BY <1>1, <1>6 DEF Switched, User
<1>7. ASSUME v \in Deleted(u)
      PROVE  users[u] \in User /\ ~users[u].enabled /\ v = NoUser
  BY <1>1, <1>7 DEF Deleted
<1> QED BY <1>1, <1>3, <1>4, <1>5, <1>6, <1>7

(* The repair keeps users, leaves only valid entries and disables whom it *)
(* leaves without any.                                                    *)
LEMMA RepairedFacts ==
  ASSUME NEW user \in User
  PROVE  /\ Repaired(user) \in User
         /\ Repaired(user) = user \/ (Repaired(user).enabled => Usable(Repaired(user).keys) # {})
         /\ user.enabled /\ user.keys # {} /\ Repaired(user).enabled =>
              Repaired(user).keys # {}
  BY DEF Repaired, User, Usable

(* What no write may do to a user: remove it while enabled, or take its last *)
(* usable key and leave it enabled.                                          *)
SafeChange(old, new) ==
  /\ old # NoUser /\ new = NoUser => ~old.enabled
  /\ old # NoUser /\ new # NoUser /\ old # new /\ old.keys # {} /\ Usable(new.keys) = {}
       => ~new.enabled

UsersSafe == users' \in Manifests /\ \A w \in Names : SafeChange(users[w], users'[w])

(* An Update is safe when each of its strictly valid results is. *)
LEMMA UpdateSafe ==
  ASSUME users \in Manifests, NEW u \in Names, NEW S, Update(u, S),
         \A v \in S : (v # NoUser => Invalid \notin v.keys) =>
            v \in User \cup {NoUser} /\ SafeChange(users[u], v)
  PROVE  UsersSafe
<1>1. PICK v \in S : Strict([users EXCEPT ![u] = v]) /\ users' = [users EXCEPT ![u] = v]
  BY DEF Update
<1>2. v # NoUser => Invalid \notin v.keys
  BY <1>1 DEF Strict, Manifests
<1>3. v \in User \cup {NoUser} /\ SafeChange(users[u], v)
  BY <1>2
<1>4. \A w \in Names : users'[w] = IF w = u THEN v ELSE users[w]
  BY <1>1 DEF Manifests
<1>5. users' \in Manifests
  BY <1>1, <1>3 DEF Manifests
<1>6. ASSUME NEW w \in Names PROVE SafeChange(users[w], users'[w])
  <2>1. CASE w = u
    BY <1>3, <1>4, <2>1
  <2>2. CASE w # u
    BY <1>4, <2>2 DEF SafeChange
  <2> QED BY <2>1, <2>2
<1> QED BY <1>5, <1>6 DEF UsersSafe

(* Leaving users.json alone is safe. *)
LEMMA UnchangedSafe ==
  ASSUME users \in Manifests, UNCHANGED users
  PROVE  UsersSafe
  BY DEF UsersSafe, SafeChange

(* Each kind of Update is safe. *)
LEMMA EditsSafe ==
  ASSUME users \in Manifests, NEW u \in Names
  PROVE  /\ \A fp \in Fps : Update(u, Created(u, fp)) => UsersSafe
         /\ \A fp \in Fps : Update(u, KeyAdded(u, fp)) => UsersSafe
         /\ \A fp \in Fps : Update(u, KeyDeleted(u, fp)) => UsersSafe
         /\ \A b \in BOOLEAN : Update(u, Switched(u, b)) => UsersSafe
         /\ Update(u, Deleted(u)) => UsersSafe
<1>1. ASSUME NEW fp \in Fps, Update(u, Created(u, fp)) PROVE UsersSafe
  <2>1. ASSUME NEW v \in Created(u, fp)
        PROVE  v \in User \cup {NoUser} /\ SafeChange(users[u], v)
    BY Edits DEF SafeChange
  <2> QED BY <1>1, <2>1, UpdateSafe
<1>2. ASSUME NEW fp \in Fps, Update(u, KeyAdded(u, fp)) PROVE UsersSafe
  <2>1. ASSUME NEW v \in KeyAdded(u, fp)
        PROVE  v \in User \cup {NoUser} /\ SafeChange(users[u], v)
    BY Edits DEF SafeChange
  <2> QED BY <1>2, <2>1, UpdateSafe
<1>3. ASSUME NEW fp \in Fps, Update(u, KeyDeleted(u, fp)) PROVE UsersSafe
  <2>1. ASSUME NEW v \in KeyDeleted(u, fp)
        PROVE  v \in User \cup {NoUser} /\ SafeChange(users[u], v)
    BY Edits DEF SafeChange
  <2> QED BY <1>3, <2>1, UpdateSafe
<1>4. ASSUME NEW b \in BOOLEAN, Update(u, Switched(u, b)) PROVE UsersSafe
  <2>1. ASSUME NEW v \in Switched(u, b), v # NoUser => Invalid \notin v.keys
        PROVE  v \in User \cup {NoUser} /\ SafeChange(users[u], v)
    <3>1. users[u] \in User /\ v \in User /\ v.keys = users[u].keys /\ v # NoUser
      BY <2>1, Edits
    <3>2. Usable(v.keys) = v.keys
      BY <2>1, <3>1 DEF Usable
    <3> QED BY <3>1, <3>2 DEF SafeChange
  <2> QED BY <1>4, <2>1, UpdateSafe
<1>5. ASSUME Update(u, Deleted(u)) PROVE UsersSafe
  <2>1. ASSUME NEW v \in Deleted(u)
        PROVE  v \in User \cup {NoUser} /\ SafeChange(users[u], v)
    BY Edits DEF SafeChange
  <2> QED BY <1>5, <2>1, UpdateSafe
<1> QED BY <1>1, <1>2, <1>3, <1>4, <1>5

(* So is the repair. *)
LEMMA RepairSafe ==
  ASSUME users \in Manifests,
         users' = [u \in Names |-> IF users[u] = NoUser THEN NoUser ELSE Repaired(users[u])]
  PROVE  UsersSafe
<1>1. ASSUME NEW u \in Names
      PROVE  users'[u] \in User \cup {NoUser} /\ SafeChange(users[u], users'[u])
  <2>1. users[u] \in User \cup {NoUser} /\ NoUser \notin User
    BY ConstantsAssumption DEF Manifests
  <2>2. CASE users[u] = NoUser
    BY <2>2 DEF SafeChange
  <2>3. CASE users[u] \in User
    BY <2>1, <2>3, RepairedFacts DEF SafeChange
  <2> QED BY <2>1, <2>2, <2>3
<1> QED BY <1>1 DEF UsersSafe, Manifests

-----------------------------------------------------------------------------
(* The request records the actions build. *)
LEMMA IdleRecord ==
  Idle \in Request /\ Located(Idle) /\ Idle.pc = "idle"
  BY DEF Idle, Request, Located

(* The record of a request that goes on to prune notes. *)
LEMMA PruneRecord ==
  ASSUME NEW q \in Request, NEW keep \in SUBSET NoteIds
  PROVE  LET p == [q EXCEPT !.pc = "prune", !.keep = keep] IN p \in Request /\ Located(p)
  BY DEF Request, Located

ReqsOK == req \in [Reqs -> Request] /\ \A r \in Reqs : Located(req[r])

(* Changing one slot keeps the type of all slots. *)
LEMMA ReqStep ==
  ASSUME ReqsOK, NEW r \in Reqs, NEW q \in Request, Located(q),
         req' = [req EXCEPT ![r] = q]
  PROVE  ReqsOK'
  BY DEF ReqsOK

(* A finished slot has its type. *)
LEMMA FinishStep ==
  ASSUME ReqsOK, NEW r \in Reqs, Finish(r)
  PROVE  ReqsOK'
  BY IdleRecord, ReqStep DEF Finish

(* A slot that moves on keeps its type. *)
LEMMA GotoStep ==
  ASSUME ReqsOK, NEW r \in Reqs, NEW u \in Names \cup {NoName}, NEW fp \in Fps \cup {NoFp},
         NEW pc \in {"checked", "offer", "note", "cleanup"},
         NEW op \in {"create", "generate", "deleteKey", "note", "enable", "delete", "repair"},
         Goto(r, pc, op, u, fp),
         pc = "checked" => op \notin {"create", "repair"} /\ u \in Names,
         pc = "checked" /\ op \in {"generate", "deleteKey", "note"} => fp \in Fps,
         pc \in {"offer", "note"} => u \in Names /\ fp \in Fps
  PROVE  ReqsOK'
<1> DEFINE q == [pc |-> pc, op |-> op, user |-> u, fp |-> fp, keep |-> {}]
<1>1. q \in Request /\ q.pc = pc /\ q.op = op /\ q.user = u /\ q.fp = fp
  BY DEF Request
<1>2. req' = [req EXCEPT ![r] = q]
  BY DEF Goto
<1> HIDE DEF q
<1>3. Located(q)
  BY <1>1 DEF Located
<1> QED BY <1>1, <1>2, <1>3, ReqStep

(* Every step keeps the types and changes users.json safely. *)
LEMMA TypeAndUsersStep ==
  ASSUME TypeOK, [Next]_vars
  PROVE  TypeOK' /\ UsersSafe
<1> SUFFICES ASSUME Next PROVE TypeOK' /\ UsersSafe
  BY UnchangedSafe DEF TypeOK, vars, Manifests, Located
<1> DEFINE Rest == /\ notes \in SUBSET NoteIds
                   /\ pending \in [Fps -> {"none", "live", "expired"}]
                   /\ made \in SUBSET Fps
                   /\ served \in [Fps -> Nat]
<1>t. users \in Manifests /\ Rest /\ ReqsOK
  BY DEF TypeOK, ReqsOK
<1>w. missed' \in [Reqs -> SUBSET NoteIds]
  BY DEF TypeOK, Next, Watch, LiveKeys
<1>f. ASSUME UsersSafe, Rest', ReqsOK' PROVE TypeOK' /\ UsersSafe
  BY <1>f, <1>w DEF TypeOK, ReqsOK, UsersSafe
<1>q. ASSUME NEW r \in Reqs
      PROVE  /\ req[r] \in Request /\ Located(req[r])
             /\ req[r].user \in Names \cup {NoName} /\ req[r].fp \in Fps \cup {NoFp}
             /\ req[r].keep \in SUBSET NoteIds
  BY <1>t DEF ReqsOK, Request
<1>n. \A u \in Names, fp \in Fps : <<u, fp>> \in NoteIds
  BY DEF NoteIds
<1>l. LiveKeys(users) \in SUBSET NoteIds
  BY DEF LiveKeys
<1>u. Fresh \subseteq Fps
  BY DEF Fresh
<1> USE <1>t
<1>1. ASSUME NEW r \in Reqs, Create(r) \/ AddKey(r) \/ Disable(r) PROVE TypeOK' /\ UsersSafe
  <2>1. UsersSafe
    BY <1>1, EditsSafe DEF Create, AddKey, Disable
  <2>2. Rest' /\ ReqsOK'
    BY <1>1 DEF Create, AddKey, Disable, ReqsOK
  <2> QED BY <1>f, <2>1, <2>2
<1>2. ASSUME NEW r \in Reqs, CreateGenerated(r) PROVE TypeOK' /\ UsersSafe
  <2>1. PICK u \in Names, fp \in Fresh :
          Update(u, Created(u, fp)) /\ made' = made \cup {fp} /\ Goto(r, "offer", "create", u, fp)
    BY <1>2 DEF CreateGenerated
  <2>2. UsersSafe
    BY <2>1, <1>u, EditsSafe
  <2>3. Rest'
    BY <1>2, <1>u, <2>1 DEF CreateGenerated
  <2>4. ReqsOK'
    BY <2>1, <1>u, GotoStep
  <2> QED BY <1>f, <2>2, <2>3, <2>4
<1>3. ASSUME NEW r \in Reqs, CheckGenerate(r) PROVE TypeOK' /\ UsersSafe
  <2>1. PICK u \in Names, fp \in Fresh :
          made' = made \cup {fp} /\ Goto(r, "checked", "generate", u, fp)
    BY <1>3 DEF CheckGenerate
  <2>2. UsersSafe
    BY <1>3, UnchangedSafe DEF CheckGenerate
  <2>3. Rest'
    BY <1>3, <1>u, <2>1 DEF CheckGenerate
  <2>4. ReqsOK'
    BY <2>1, <1>u, GotoStep
  <2> QED BY <1>f, <2>2, <2>3, <2>4
<1>4. ASSUME NEW r \in Reqs, NEW op \in {"deleteKey", "note"}, CheckKey(r, op)
      PROVE  TypeOK' /\ UsersSafe
  <2>1. PICK n \in LiveKeys(users) : Goto(r, "checked", op, n[1], n[2])
    BY <1>4 DEF CheckKey
  <2>2. n[1] \in Names /\ n[2] \in Fps
    BY <1>l DEF NoteIds
  <2>3. UsersSafe
    BY <1>4, UnchangedSafe DEF CheckKey
  <2>4. Rest'
    BY <1>4 DEF CheckKey
  <2>5. ReqsOK'
    BY <2>1, <2>2, GotoStep
  <2> QED BY <1>f, <2>3, <2>4, <2>5
<1>5. ASSUME NEW r \in Reqs, CheckEnable(r) \/ CheckDelete(r) PROVE TypeOK' /\ UsersSafe
  <2>1. UsersSafe
    BY <1>5, UnchangedSafe DEF CheckEnable, CheckDelete
  <2>2. Rest'
    BY <1>5 DEF CheckEnable, CheckDelete
  <2>3. PICK u \in Names, op \in {"enable", "delete"} : Goto(r, "checked", op, u, NoFp)
    BY <1>5 DEF CheckEnable, CheckDelete
  <2>4. ReqsOK'
    BY <2>3, GotoStep
  <2> QED BY <1>f, <2>1, <2>2, <2>4
<1>6. ASSUME NEW r \in Reqs, Generate(r) PROVE TypeOK' /\ UsersSafe
  <2>1. req[r].user \in Names /\ req[r].fp \in Fps
    BY <1>6, <1>q DEF Generate, At, Located
  <2>2. UsersSafe
    BY <1>6, <2>1, EditsSafe DEF Generate
  <2>3. Rest'
    BY <1>6 DEF Generate
  <2>4. ReqsOK'
    BY <1>6, <2>1, GotoStep DEF Generate
  <2> QED BY <1>f, <2>2, <2>3, <2>4
<1>7. ASSUME NEW r \in Reqs, DeleteKey(r) PROVE TypeOK' /\ UsersSafe
  <2>1. req[r].user \in Names /\ req[r].fp \in Fps
    BY <1>7, <1>q DEF DeleteKey, At, Located
  <2>2. UsersSafe
    BY <1>7, <2>1, EditsSafe DEF DeleteKey
  <2>3. Rest'
    BY <1>7 DEF DeleteKey
  <2>4. ReqsOK'
    BY <1>7, <2>1, GotoStep DEF DeleteKey
  <2> QED BY <1>f, <2>2, <2>3, <2>4
<1>8. ASSUME NEW r \in Reqs, Enable(r) PROVE TypeOK' /\ UsersSafe
  <2>1. req[r].user \in Names
    BY <1>8, <1>q DEF Enable, At, Located
  <2>2. UsersSafe
    BY <1>8, <2>1, EditsSafe DEF Enable
  <2>3. Rest'
    BY <1>8 DEF Enable
  <2>4. ReqsOK'
    BY <1>8, FinishStep DEF Enable
  <2> QED BY <1>f, <2>2, <2>3, <2>4
<1>9. ASSUME NEW r \in Reqs, Delete(r) PROVE TypeOK' /\ UsersSafe
  <2>1. req[r].user \in Names
    BY <1>9, <1>q DEF Delete, At, Located
  <2>2. UsersSafe
    BY <1>9, <2>1, EditsSafe DEF Delete
  <2>3. Rest'
    BY <1>9 DEF Delete
  <2>4. ReqsOK'
    BY <1>9, <2>1, GotoStep DEF Delete
  <2> QED BY <1>f, <2>2, <2>3, <2>4
<1>10. ASSUME NEW r \in Reqs, Refuse(r) PROVE TypeOK' /\ UsersSafe
  <2>1. UsersSafe
    BY <1>10, UnchangedSafe DEF Refuse
  <2>2. Rest'
    BY <1>10 DEF Refuse
  <2>3. ReqsOK'
    BY <1>10, FinishStep DEF Refuse
  <2> QED BY <1>f, <2>1, <2>2, <2>3
<1>11. ASSUME NEW r \in Reqs, Repair(r) PROVE TypeOK' /\ UsersSafe
  <2>1. UsersSafe
    BY <1>11, RepairSafe DEF Repair
  <2>2. Rest'
    BY <1>11 DEF Repair
  <2>3. ReqsOK'
    BY <1>11, GotoStep DEF Repair
  <2> QED BY <1>f, <2>1, <2>2, <2>3
<1>12. ASSUME NEW r \in Reqs, SetNote(r) \/ DeleteNote(r) \/ PruneNotes(r)
       PROVE  TypeOK' /\ UsersSafe
  <2>1. UsersSafe
    BY <1>12, UnchangedSafe DEF SetNote, DeleteNote, PruneNotes
  <2>2. (SetNote(r) \/ DeleteNote(r)) => <<req[r].user, req[r].fp>> \in NoteIds
    BY <1>q, <1>n DEF SetNote, DeleteNote, At, Located
  <2>3. Rest'
    BY <1>12, <1>q, <2>2 DEF SetNote, DeleteNote, PruneNotes
  <2>4. ReqsOK'
    BY <1>12, FinishStep DEF SetNote, DeleteNote, PruneNotes
  <2> QED BY <1>f, <2>1, <2>3, <2>4
<1>13. ASSUME NEW r \in Reqs, LoadKeep(r) PROVE TypeOK' /\ UsersSafe
  <2>1. UsersSafe
    BY <1>13, UnchangedSafe DEF LoadKeep
  <2>2. Rest'
    BY <1>13 DEF LoadKeep
  <2> DEFINE q == [req[r] EXCEPT !.pc = "prune", !.keep = Keep(r)]
  <2>3. q \in Request /\ Located(q)
    BY <1>q, <1>l, PruneRecord DEF Keep
  <2>4. req' = [req EXCEPT ![r] = q]
    BY <1>13 DEF LoadKeep
  <2> HIDE DEF q
  <2>5. ReqsOK'
    BY <2>3, <2>4, ReqStep
  <2> QED BY <1>f, <2>1, <2>2, <2>5
<1>14. ASSUME NEW r \in Reqs, Offer(r) PROVE TypeOK' /\ UsersSafe
  <2>1. UsersSafe
    BY <1>14, UnchangedSafe DEF Offer
  <2>2. Rest'
    BY <1>14 DEF Offer
  <2>3. ReqsOK'
    BY <1>14, FinishStep DEF Offer
  <2> QED BY <1>f, <2>1, <2>2, <2>3
<1>15. ASSUME NEW fp \in Fps, Download(fp) \/ Expire(fp) PROVE TypeOK' /\ UsersSafe
  <2>1. UsersSafe
    BY <1>15, UnchangedSafe DEF Download, Expire
  <2>2. Rest' /\ ReqsOK'
    BY <1>15 DEF Download, Expire, Taken, ReqsOK
  <2> QED BY <1>f, <2>1, <2>2
<1>16. ASSUME Crash PROVE TypeOK' /\ UsersSafe
  <2>1. UsersSafe
    BY <1>16, UnchangedSafe DEF Crash
  <2>2. Rest'
    BY <1>16 DEF Crash
  <2>3. ReqsOK'
    BY <1>16, IdleRecord DEF Crash, ReqsOK
  <2> QED BY <1>f, <2>1, <2>2, <2>3
<1> QED BY <1>1, <1>2, <1>3, <1>4, <1>5, <1>6, <1>7, <1>8, <1>9, <1>10, <1>11, <1>12,
           <1>13, <1>14, <1>15, <1>16 DEF Next, Step

-----------------------------------------------------------------------------
(* The initial manifest, seeded or from elsewhere, has its type. *)
LEMMA InitType == Init => TypeOK
<1> SUFFICES ASSUME Init PROVE TypeOK
  OBVIOUS
<1>1. users \in Manifests
  BY ConstantsAssumption DEF Init, LegacyUser, Manifests, User
<1>2. /\ notes \in SUBSET NoteIds /\ made \in SUBSET Fps
      /\ pending \in [Fps -> {"none", "live", "expired"}]
      /\ served \in [Fps -> Nat]
  BY DEF Init
<1>3. ReqsOK
  BY IdleRecord DEF Init, ReqsOK
<1>4. missed \in [Reqs -> SUBSET NoteIds]
  BY DEF Init
<1> QED BY <1>1, <1>2, <1>3, <1>4 DEF TypeOK, ReqsOK

(* users.json, the notes and every request keep their types, and a handler *)
(* past its look-up always knows its user and key.                         *)
THEOREM TypeCorrect == Spec => []TypeOK
<1>1. Init => TypeOK
  BY InitType
<1>2. TypeOK /\ [Next]_vars => TypeOK'
  BY TypeAndUsersStep
<1> QED BY <1>1, <1>2, PTL DEF Spec

(* However requests interleave and whatever fails, handleDelete removes only *)
(* a user that is disabled at that very write.                               *)
THEOREM DeletionNeedsDisabled == Spec => OnlyDisabledRemoved
<1>1. TypeOK /\ [Next]_vars =>
        [\A u \in Names : users[u] # NoUser /\ users'[u] = NoUser => ~users[u].enabled]_users
  BY TypeAndUsersStep DEF UsersSafe, SafeChange
<1> QED BY <1>1, TypeCorrect, PTL DEF Spec, OnlyDisabledRemoved

(* However requests interleave and whatever fails, no write takes an enabled *)
(* user's last usable key and leaves the user enabled.                       *)
THEOREM KeylessMeansDisabled == Spec => LastKeyDisables
<1>1. TypeOK /\ [Next]_vars =>
        [\A u \in Names :
           users[u] # NoUser /\ users'[u] # NoUser /\ users[u] # users'[u]
             /\ users[u].keys # {} /\ Usable(users'[u].keys) = {}
             => ~users'[u].enabled]_users
  BY TypeAndUsersStep DEF UsersSafe, SafeChange
<1> QED BY <1>1, TypeCorrect, PTL DEF Spec, LastKeyDisables

-----------------------------------------------------------------------------
(* One request at a time. *)
OneRequest == \A q, r \in Reqs : q = r

(* Nobody becomes enabled without a key by an Update that does not bring it *)
(* about itself.                                                            *)
NoNewKeyless == \A w \in Names : Keyless(users'[w]) => Keyless(users[w])

LEMMA UpdateKeyed ==
  ASSUME users \in Manifests, NEW u \in Names, NEW S, Update(u, S),
         \A v \in S : Keyless(v) => Keyless(users[u])
  PROVE  NoNewKeyless
<1>1. PICK v \in S : users' = [users EXCEPT ![u] = v]
  BY DEF Update
<1>2. \A w \in Names : users'[w] = IF w = u THEN v ELSE users[w]
  BY <1>1 DEF Manifests
<1> QED BY <1>2 DEF NoNewKeyless

(* Only enabling a user that has no keys does.  *)
LEMMA EditsKeyed ==
  ASSUME users \in Manifests, NEW u \in Names
  PROVE  /\ \A fp \in Fps : Update(u, Created(u, fp)) => NoNewKeyless
         /\ \A fp \in Fps : Update(u, KeyAdded(u, fp)) => NoNewKeyless
         /\ \A fp \in Fps : Update(u, KeyDeleted(u, fp)) => NoNewKeyless
         /\ Update(u, Switched(u, FALSE)) => NoNewKeyless
         /\ Update(u, Deleted(u)) => NoNewKeyless
<1>k. \A keys : Usable(keys) # {} => keys # {}
  BY DEF Usable
<1>1. ASSUME NEW fp \in Fps, Update(u, Created(u, fp)) PROVE NoNewKeyless
  <2>1. \A v \in Created(u, fp) : ~Keyless(v)
    BY <1>k, Edits DEF Keyless
  <2> QED BY <1>1, <2>1, UpdateKeyed
<1>2. ASSUME NEW fp \in Fps, Update(u, KeyAdded(u, fp)) PROVE NoNewKeyless
  <2>1. \A v \in KeyAdded(u, fp) : ~Keyless(v)
    BY <1>k, Edits DEF Keyless
  <2> QED BY <1>2, <2>1, UpdateKeyed
<1>3. ASSUME NEW fp \in Fps, Update(u, KeyDeleted(u, fp)) PROVE NoNewKeyless
  <2>1. \A v \in KeyDeleted(u, fp) : ~Keyless(v)
    BY <1>k, Edits DEF Keyless
  <2> QED BY <1>3, <2>1, UpdateKeyed
<1>4. ASSUME Update(u, Switched(u, FALSE)) PROVE NoNewKeyless
  <2>1. \A v \in Switched(u, FALSE) : ~Keyless(v)
    BY Edits DEF Keyless
  <2> QED BY <1>4, <2>1, UpdateKeyed
<1>5. ASSUME Update(u, Deleted(u)) PROVE NoNewKeyless
  <2>1. \A v \in Deleted(u) : ~Keyless(v)
    BY Edits DEF Keyless
  <2> QED BY <1>5, <2>1, UpdateKeyed
<1> QED BY <1>1, <1>2, <1>3, <1>4, <1>5

(* A repair disables whom it leaves without keys. *)
LEMMA RepairKeyed ==
  ASSUME users \in Manifests, NEW r \in Reqs, Repair(r)
  PROVE  NoNewKeyless
<1> SUFFICES ASSUME NEW w \in Names, Keyless(users'[w]) PROVE Keyless(users[w])
  BY DEF NoNewKeyless
<1>1. users[w] \in User /\ users'[w] = Repaired(users[w])
  BY DEF Repair, Manifests, Keyless
<1>2. Repaired(users[w]).enabled /\ Usable(Repaired(users[w]).keys) = {}
  BY <1>1 DEF Keyless, Usable
<1> QED BY <1>1, <1>2, RepairedFacts

(* What a step writes leaves nobody enabled without a key who was not, but *)
(* for handleStatus enabling the user.                                     *)
LEMMA KeylessStep ==
  ASSUME TypeOK, [Next]_vars, NEW w \in Names, Keyless(users'[w]), ~Keyless(users[w])
  PROVE  \E r \in Reqs : Enable(r) /\ req[r].user = w /\ users[w].keys = {}
<1>t. users \in Manifests /\ \A r \in Reqs : Located(req[r])
  BY DEF TypeOK
<1>n. ~NoNewKeyless
  BY DEF NoNewKeyless
<1>u. users' # users
  BY <1>t
<1>f. Fresh \subseteq Fps
  BY DEF Fresh
<1>1. \A r \in Reqs : ~(Create(r) \/ AddKey(r) \/ Disable(r) \/ CreateGenerated(r))
  BY <1>t, <1>n, <1>f, EditsKeyed DEF Create, AddKey, Disable, CreateGenerated
<1>2. \A r \in Reqs : ~(Generate(r) \/ DeleteKey(r) \/ Delete(r))
  BY <1>t, <1>n, EditsKeyed DEF Generate, DeleteKey, Delete, At, Located
<1>3. \A r \in Reqs : ~Repair(r)
  BY <1>t, <1>n, RepairKeyed
<1>4. \E r \in Reqs : Enable(r)
  BY <1>u, <1>1, <1>2, <1>3
     DEF Next, Step, vars, CheckGenerate, CheckKey, CheckEnable, CheckDelete, Refuse, SetNote,
         DeleteNote, LoadKeep, PruneNotes, Offer, Download, Expire, Crash
<1>5. PICK r \in Reqs : Enable(r)
  BY <1>4
<1> DEFINE u == req[r].user
<1>6. u \in Names
  BY <1>5, <1>t DEF Enable, At, Located
<1>7. PICK v \in Switched(u, TRUE) : users' = [users EXCEPT ![u] = v]
  BY <1>5 DEF Enable, Update
<1>8. users'[w] = IF w = u THEN v ELSE users[w]
  BY <1>t, <1>6, <1>7 DEF Manifests
<1>9. w = u /\ v.keys = users[u].keys
  BY <1>t, <1>6, <1>7, <1>8, Edits
<1> QED BY <1>5, <1>8, <1>9 DEF Keyless

-----------------------------------------------------------------------------
(* A generated key pair is in one place at a time: with the request that     *)
(* generated it, up for download, or served.                                 *)
Owns(r, fp) == req[r].fp = fp /\ (At(r, "checked", "generate") \/ req[r].pc = "offer")

OneHolder(fp) == \A q, r \in Reqs : Owns(q, fp) /\ Owns(r, fp) => q = r

OnceInv ==
  \A fp \in Fps :
    /\ served[fp] \in {0, 1}
    /\ OneHolder(fp)
    /\ fp \notin made => served[fp] = 0 /\ pending[fp] = "none"
    /\ pending[fp] # "none" => served[fp] = 0
    /\ \A r \in Reqs : Owns(r, fp) =>
         fp \in made /\ served[fp] = 0 /\ pending[fp] = "none"

(* A request that moves on without a key pair of its own, or with the one it *)
(* had, disturbs nothing.                                                    *)
LEMMA OnceQuiet ==
  ASSUME TypeOK, OnceInv, NEW r \in Reqs, UNCHANGED <<pending, made, served>>,
         \A q \in Reqs : q # r => req'[q] = req[q],
         \A fp \in Fps : Owns(r, fp)' => Owns(r, fp)
  PROVE  OnceInv'
<1>1. \A q \in Reqs, fp \in Fps : Owns(q, fp)' => Owns(q, fp)
  BY DEF Owns, At
<1> QED BY <1>1 DEF OnceInv, OneHolder

(* Where a request is after each way of moving on. *)
LEMMA Moves ==
  ASSUME TypeOK, NEW r \in Reqs
  PROVE  /\ Finish(r) => req'[r] = Idle /\ \A q \in Reqs : q # r => req'[q] = req[q]
         /\ \A pc, op, u, fp : Goto(r, pc, op, u, fp) =>
              /\ req'[r].pc = pc /\ req'[r].op = op /\ req'[r].user = u /\ req'[r].fp = fp
              /\ \A q \in Reqs : q # r => req'[q] = req[q]
         /\ LoadKeep(r) =>
              /\ req'[r].pc = "prune" /\ req'[r].keep = LiveKeys(users)
              /\ \A q \in Reqs : q # r => req'[q] = req[q]
<1>1. req \in [Reqs -> Request] /\ req[r] \in Request
  BY DEF TypeOK
<1>2. ASSUME Finish(r)
      PROVE  req'[r] = Idle /\ \A q \in Reqs : q # r => req'[q] = req[q]
  BY <1>1, <1>2 DEF Finish
<1>3. ASSUME NEW pc, NEW op, NEW u, NEW fp, Goto(r, pc, op, u, fp)
      PROVE  /\ req'[r].pc = pc /\ req'[r].op = op /\ req'[r].user = u /\ req'[r].fp = fp
             /\ \A q \in Reqs : q # r => req'[q] = req[q]
  BY <1>1, <1>3 DEF Goto
<1>4. ASSUME LoadKeep(r)
      PROVE  /\ req'[r].pc = "prune" /\ req'[r].keep = LiveKeys(users)
             /\ \A q \in Reqs : q # r => req'[q] = req[q]
  <2>1. /\ req'[r] = [req[r] EXCEPT !.pc = "prune", !.keep = LiveKeys(users)]
        /\ \A q \in Reqs : q # r => req'[q] = req[q]
    BY <1>1, <1>4 DEF LoadKeep, Keep
  <2> QED BY <1>1, <2>1 DEF Request
<1> QED BY <1>2, <1>3, <1>4

(* A new key pair, which is not one that was made before, goes to the request *)
(* that generated it.                                                         *)
LEMMA OnceDrawn ==
  ASSUME TypeOK, OnceInv, NEW r \in Reqs, NEW fp \in Fps \ made,
         UNCHANGED <<pending, served>>, made' = made \cup {fp},
         req'[r].fp = fp, \A q \in Reqs : q # r => req'[q] = req[q]
  PROVE  OnceInv'
<1>1. \A q \in Reqs, x \in Fps : Owns(q, x)' => Owns(q, x) \/ (q = r /\ x = fp)
  BY DEF Owns, At
<1>2. \A q \in Reqs : ~Owns(q, fp)
  BY DEF OnceInv
<1>3. served[fp] = 0 /\ pending[fp] = "none"
  BY DEF OnceInv
<1> SUFFICES ASSUME NEW x \in Fps
             PROVE  /\ served[x] \in {0, 1}
                    /\ OneHolder(x)'
                    /\ x \notin made' => served[x] = 0 /\ pending[x] = "none"
                    /\ pending[x] # "none" => served[x] = 0
                    /\ \A q \in Reqs : Owns(q, x)' =>
                         x \in made' /\ served[x] = 0 /\ pending[x] = "none"
  BY DEF OnceInv
<1>4. CASE x = fp
  BY <1>1, <1>2, <1>3, <1>4 DEF OneHolder
<1>5. CASE x # fp
  BY <1>1, <1>5 DEF OnceInv, OneHolder
<1> QED BY <1>4, <1>5

(* Every step keeps each key pair in one place. *)
LEMMA OnceStep ==
  ASSUME TypeOK, OnceInv, [Next]_vars
  PROVE  OnceInv'
<1>f. Fresh \subseteq Fps \ made
  BY DEF Fresh
<1>i. ASSUME NEW r \in Reqs, Finish(r), UNCHANGED <<pending, made, served>>
      PROVE  OnceInv'
  <2>1. \A fp \in Fps : ~Owns(r, fp)'
    BY <1>i, Moves, IdleRecord DEF Owns, At
  <2> QED BY <1>i, <2>1, Moves, OnceQuiet
<1>g. ASSUME NEW r \in Reqs, NEW pc, NEW op, NEW u, NEW fp, Goto(r, pc, op, u, fp),
             pc # "offer" /\ ~(pc = "checked" /\ op = "generate"),
             UNCHANGED <<pending, made, served>>
      PROVE  OnceInv'
  <2>1. \A x \in Fps : ~Owns(r, x)'
    BY <1>g, Moves DEF Owns, At
  <2>2. \A q \in Reqs : q # r => req'[q] = req[q]
    BY <1>g, Moves
  <2> QED BY <1>g, <2>1, <2>2, OnceQuiet
<1>1. ASSUME NEW r \in Reqs, Create(r) \/ AddKey(r) \/ Disable(r) PROVE OnceInv'
  BY <1>1, OnceQuiet DEF Create, AddKey, Disable, Owns, At
<1>2. ASSUME NEW r \in Reqs, CreateGenerated(r) PROVE OnceInv'
  <2>1. PICK u \in Names, fp \in Fresh : made' = made \cup {fp} /\ Goto(r, "offer", "create", u, fp)
    BY <1>2 DEF CreateGenerated
  <2>2. req'[r].fp = fp /\ \A q \in Reqs : q # r => req'[q] = req[q]
    BY <2>1, Moves
  <2> QED BY <1>2, <1>f, <2>1, <2>2, OnceDrawn DEF CreateGenerated
<1>3. ASSUME NEW r \in Reqs, CheckGenerate(r) PROVE OnceInv'
  <2>1. PICK u \in Names, fp \in Fresh : made' = made \cup {fp} /\ Goto(r, "checked", "generate", u, fp)
    BY <1>3 DEF CheckGenerate
  <2>2. req'[r].fp = fp /\ \A q \in Reqs : q # r => req'[q] = req[q]
    BY <2>1, Moves
  <2> QED BY <1>3, <1>f, <2>1, <2>2, OnceDrawn DEF CheckGenerate
<1>4. ASSUME NEW r \in Reqs, CheckKey(r, "deleteKey") \/ CheckKey(r, "note")
                               \/ CheckEnable(r) \/ CheckDelete(r)
      PROVE  OnceInv'
  <2>1. \E op \in {"deleteKey", "note", "enable", "delete"} : \E u, fp : Goto(r, "checked", op, u, fp)
    BY <1>4 DEF CheckKey, CheckEnable, CheckDelete
  <2>2. UNCHANGED <<pending, made, served>>
    BY <1>4 DEF CheckKey, CheckEnable, CheckDelete
  <2> QED BY <1>g, <2>1, <2>2
<1>5. ASSUME NEW r \in Reqs, Generate(r) PROVE OnceInv'
  <2>1. req'[r].fp = req[r].fp /\ \A q \in Reqs : q # r => req'[q] = req[q]
    BY <1>5, Moves DEF Generate
  <2>2. \A fp \in Fps : Owns(r, fp)' => Owns(r, fp)
    BY <1>5, <2>1 DEF Generate, Owns, At
  <2> QED BY <1>5, <2>1, <2>2, OnceQuiet DEF Generate
<1>6. ASSUME NEW r \in Reqs, DeleteKey(r) \/ Delete(r) \/ Repair(r) PROVE OnceInv'
  <2>1. \E pc \in {"note", "cleanup"} : \E op, u, fp : Goto(r, pc, op, u, fp)
    BY <1>6 DEF DeleteKey, Delete, Repair
  <2>2. UNCHANGED <<pending, made, served>>
    BY <1>6 DEF DeleteKey, Delete, Repair
  <2> QED BY <1>g, <2>1, <2>2
<1>7. ASSUME NEW r \in Reqs, Enable(r) \/ Refuse(r) \/ SetNote(r) \/ DeleteNote(r) \/ PruneNotes(r)
      PROVE  OnceInv'
  BY <1>7, <1>i DEF Enable, Refuse, SetNote, DeleteNote, PruneNotes
<1>8. ASSUME NEW r \in Reqs, LoadKeep(r) PROVE OnceInv'
  <2>1. \A fp \in Fps : ~Owns(r, fp)'
    BY <1>8, Moves DEF Owns, At
  <2> QED BY <1>8, <2>1, Moves, OnceQuiet DEF LoadKeep
<1>9. ASSUME NEW r \in Reqs, Offer(r) PROVE OnceInv'
  <2>0. CASE pending' = pending
    BY <1>9, <1>i, <2>0 DEF Offer
  <2>1. CASE pending' = [pending EXCEPT ![req[r].fp] = "live"]
    <3>1. PICK fp \in Fps : fp = req[r].fp /\ Owns(r, fp)
      BY <1>9 DEF Offer, Owns, TypeOK, Located
    <3>2. /\ \A q \in Reqs, x \in Fps : Owns(q, x)' => Owns(q, x) /\ q # r
          /\ UNCHANGED <<made, served>>
      BY <1>9, Moves, IdleRecord DEF Offer, Owns, At
    <3>3. \A q \in Reqs : ~Owns(q, fp)'
      BY <3>1, <3>2 DEF OnceInv, OneHolder
    <3>4. /\ pending'[fp] = "live" /\ served[fp] = 0 /\ fp \in made
          /\ \A x \in Fps : x # fp => pending'[x] = pending[x]
      BY <2>1, <3>1 DEF OnceInv, TypeOK
    <3> QED BY <3>2, <3>3, <3>4 DEF OnceInv, OneHolder
  <2> QED BY <1>9, <2>0, <2>1 DEF Offer
<1>10. ASSUME NEW fp \in Fps, Download(fp) PROVE OnceInv'
  <2>1. \A q \in Reqs, x \in Fps : Owns(q, x)' <=> Owns(q, x)
    BY <1>10 DEF Download, Owns, At
  <2>2. pending[fp] # "none" /\ served[fp] = 0 /\ fp \in made /\ made' = made
    BY <1>10 DEF Download, OnceInv
  <2>3. /\ pending'[fp] = "none" /\ served'[fp] \in {0, 1}
        /\ \A x \in Fps : x # fp => pending'[x] = pending[x] /\ served'[x] = served[x]
    <3>1. served' = [served EXCEPT ![fp] = IF pending[fp] = "live" THEN served[fp] + 1
                                                                   ELSE served[fp]]
      BY <1>10 DEF Download
    <3>2. served'[fp] \in {0, 1}
      BY <2>2, <3>1 DEF TypeOK
    <3> QED BY <1>10, <3>1, <3>2 DEF Download, Taken, TypeOK
  <2>4. \A q \in Reqs : ~Owns(q, fp)
    BY <2>2 DEF OnceInv
  <2> QED BY <2>1, <2>2, <2>3, <2>4 DEF OnceInv, OneHolder
<1>11. ASSUME NEW fp \in Fps, Expire(fp) PROVE OnceInv'
  <2>1. \A q \in Reqs, x \in Fps : Owns(q, x)' <=> Owns(q, x)
    BY <1>11 DEF Expire, Owns, At
  <2>2. /\ \A x \in Fps : pending'[x] = "none" <=> pending[x] = "none"
        /\ UNCHANGED <<made, served>>
    BY <1>11 DEF Expire, TypeOK
  <2> QED BY <2>1, <2>2 DEF OnceInv, OneHolder
<1>12. ASSUME Crash PROVE OnceInv'
  <2>1. \A q \in Reqs, x \in Fps : ~Owns(q, x)'
    BY <1>12, IdleRecord DEF Crash, Owns, At
  <2> QED BY <1>12, <2>1 DEF Crash, OnceInv, OneHolder
<1>13. ASSUME UNCHANGED vars PROVE OnceInv'
  BY <1>13 DEF vars, OnceInv, OneHolder, Owns, At
<1> QED BY <1>1, <1>2, <1>3, <1>4, <1>5, <1>6, <1>7, <1>8, <1>9, <1>10, <1>11, <1>12, <1>13
        DEF Next, Step

(* However requests interleave and whatever fails, handleDownload hands out  *)
(* each generated private key at most once: the entry is taken before it is  *)
(* looked at, and no two requests put the same key up.                       *)
THEOREM KeysServedOnce == Spec => []ServedOnce
<1>1. Init => OnceInv
  BY IdleRecord DEF Init, OnceInv, OneHolder, Owns, At
<1>2. TypeOK /\ OnceInv /\ [Next]_vars => OnceInv'
  BY OnceStep
<1>3. OnceInv => ServedOnce
  BY DEF OnceInv, ServedOnce
<1> QED BY <1>1, <1>2, <1>3, TypeCorrect, PTL DEF Spec

-----------------------------------------------------------------------------
(* What the callbacks that keep a user make of its list of keys: an addition *)
(* only adds, a removal takes one usable entry with the fingerprint and,     *)
(* when it empties the list, nothing usable besides.                         *)
LEMMA EditKeys ==
  ASSUME users \in Manifests, NEW u \in Names, NEW v
  PROVE  /\ \A fp \in Fps : v \in KeyAdded(u, fp) => users[u].keys \subseteq v.keys
         /\ \A fp \in Fps : v \in KeyDeleted(u, fp) =>
              \E k \in Usable(users[u].keys) :
                /\ k.fp = fp
                /\ Usable(users[u].keys) \ {k} \subseteq v.keys
                /\ k \notin v.keys
<1>1. ASSUME NEW fp \in Fps, v \in KeyAdded(u, fp) PROVE users[u].keys \subseteq v.keys
  <2>1. users[u] \in User
    BY <1>1, Edits
  <2> QED BY <1>1, <2>1 DEF KeyAdded, User
<1>2. ASSUME NEW fp \in Fps, v \in KeyDeleted(u, fp)
      PROVE  \E k \in Usable(users[u].keys) :
               /\ k.fp = fp
               /\ Usable(users[u].keys) \ {k} \subseteq v.keys
               /\ k \notin v.keys
  <2>1. users[u] \in User
    BY <1>2, Edits
  <2>2. PICK k \in Usable(users[u].keys) :
          /\ k.fp = fp
          /\ v = IF users[u].enabled /\ Usable(users[u].keys \ {k}) = {}
                   THEN [enabled |-> FALSE, keys |-> {}]
                   ELSE [users[u] EXCEPT !.keys = users[u].keys \ {k}]
    BY <1>2, <2>1 DEF KeyDeleted, WithoutKey
  <2>3. \/ v.keys = {} /\ Usable(users[u].keys \ {k}) = {}
        \/ v.keys = users[u].keys \ {k}
    BY <2>1, <2>2 DEF User
  <2>4. /\ Usable(users[u].keys) \ {k} = Usable(users[u].keys \ {k})
        /\ Usable(users[u].keys) \ {k} \subseteq users[u].keys \ {k}
    BY DEF Usable
  <2> QED BY <2>2, <2>3, <2>4
<1> QED BY <1>1, <1>2

(* The keys of u that a write drops. *)
Dropped(u) == Usable(users[u].keys) \ users'[u].keys

KeysLeave(u) ==
  users[u] # NoUser /\ users'[u] # NoUser /\ Dropped(u) # {} =>
    \E r \in Reqs : /\ At(r, "checked", "deleteKey") /\ req'[r].pc = "note"
                    /\ req[r].user = u /\ {req[r].fp} = Fingerprints(Dropped(u))

(* An Update drops no key of a user when each of its results keeps them. *)
LEMMA UpdateKeepsKeys ==
  ASSUME users \in Manifests, NEW u \in Names, NEW S, Update(u, S),
         \A v \in S : users[u] # NoUser /\ v # NoUser => Usable(users[u].keys) \subseteq v.keys
  PROVE  \A w \in Names : KeysLeave(w)
<1>1. PICK v \in S : users' = [users EXCEPT ![u] = v]
  BY DEF Update
<1>2. \A w \in Names : users'[w] = IF w = u THEN v ELSE users[w]
  BY <1>1 DEF Manifests
<1>3. ASSUME NEW w \in Names, users[w] # NoUser, users'[w] # NoUser PROVE Dropped(w) = {}
  <2>1. CASE w = u
    BY <1>2, <1>3, <2>1 DEF Dropped
  <2>2. CASE w # u
    BY <1>2, <2>2 DEF Dropped, Usable
  <2> QED BY <2>1, <2>2
<1> QED BY <1>3 DEF KeysLeave

(* Every write but handleDeleteKey's keeps all usable keys of the users it *)
(* keeps; that one drops the one it names.                                 *)
LEMMA KeysLeaveStep ==
  ASSUME TypeOK, [Next]_vars
  PROVE  \A u \in Names : KeysLeave(u)
<1>t. users \in Manifests /\ \A r \in Reqs : Located(req[r])
  BY DEF TypeOK
<1>u. ASSUME UNCHANGED users PROVE \A u \in Names : KeysLeave(u)
  BY <1>u DEF KeysLeave, Dropped, Usable
<1>a. ASSUME NEW u \in Names, NEW fp \in Fps, Update(u, KeyAdded(u, fp))
      PROVE  \A w \in Names : KeysLeave(w)
  <2>1. \A v \in KeyAdded(u, fp) : Usable(users[u].keys) \subseteq v.keys
    BY <1>t, EditKeys DEF Usable
  <2> QED BY <1>a, <1>t, <2>1, UpdateKeepsKeys
<1>c. ASSUME NEW u \in Names, NEW fp \in Fps, Update(u, Created(u, fp))
      PROVE  \A w \in Names : KeysLeave(w)
  <2>1. \A v \in Created(u, fp) : users[u] = NoUser
    BY <1>t, Edits
  <2> QED BY <1>c, <1>t, <2>1, UpdateKeepsKeys
<1>s. ASSUME NEW u \in Names, NEW b \in BOOLEAN, Update(u, Switched(u, b))
      PROVE  \A w \in Names : KeysLeave(w)
  <2>1. \A v \in Switched(u, b) : Usable(users[u].keys) \subseteq v.keys
    BY <1>t, Edits DEF Usable
  <2> QED BY <1>s, <1>t, <2>1, UpdateKeepsKeys
<1>d. ASSUME NEW u \in Names, Update(u, Deleted(u)) PROVE \A w \in Names : KeysLeave(w)
  <2>1. \A v \in Deleted(u) : v = NoUser
    BY <1>t, Edits
  <2> QED BY <1>d, <1>t, <2>1, UpdateKeepsKeys
<1>f. Fresh \subseteq Fps
  BY DEF Fresh
<1>1. ASSUME NEW r \in Reqs, Create(r) \/ CreateGenerated(r) PROVE \A u \in Names : KeysLeave(u)
  BY <1>1, <1>c, <1>f DEF Create, CreateGenerated
<1>2. ASSUME NEW r \in Reqs, AddKey(r) \/ Generate(r) PROVE \A u \in Names : KeysLeave(u)
  BY <1>2, <1>a, <1>t DEF AddKey, Generate, At, Located
<1>3. ASSUME NEW r \in Reqs, Disable(r) \/ Enable(r) PROVE \A u \in Names : KeysLeave(u)
  BY <1>3, <1>s, <1>t DEF Disable, Enable, At, Located
<1>4. ASSUME NEW r \in Reqs, Delete(r) PROVE \A u \in Names : KeysLeave(u)
  BY <1>4, <1>d, <1>t DEF Delete, At, Located
<1>5. ASSUME NEW r \in Reqs, DeleteKey(r), NEW w \in Names PROVE KeysLeave(w)
  <2> DEFINE u == req[r].user
             fp == req[r].fp
  <2>1. u \in Names /\ fp \in Fps /\ At(r, "checked", "deleteKey")
    BY <1>5, <1>t DEF DeleteKey, At, Located
  <2>2. PICK v \in KeyDeleted(u, fp) : users' = [users EXCEPT ![u] = v]
    BY <1>5 DEF DeleteKey, Update
  <2>3. \A x \in Names : users'[x] = IF x = u THEN v ELSE users[x]
    BY <1>t, <2>2 DEF Manifests
  <2>4. CASE w # u
    BY <2>3, <2>4 DEF KeysLeave, Dropped, Usable
  <2>5. CASE w = u
    <3>1. PICK k \in Usable(users[u].keys) :
            /\ k.fp = fp
            /\ Usable(users[u].keys) \ {k} \subseteq v.keys
            /\ k \notin v.keys
      BY <1>t, <2>1, <2>2, EditKeys
    <3>2. Dropped(w) = {k}
      BY <2>3, <2>5, <3>1 DEF Dropped
    <3>3. Fingerprints(Dropped(w)) = {fp}
      BY <3>1, <3>2 DEF Fingerprints, Usable
    <3>4. req'[r].pc = "note"
      BY <1>5, Moves DEF DeleteKey
    <3> QED BY <2>1, <2>5, <3>3, <3>4 DEF KeysLeave
  <2> QED BY <2>4, <2>5
<1>6. ASSUME NEW r \in Reqs, Repair(r), NEW w \in Names PROVE KeysLeave(w)
  <2>1. CASE users[w] = NoUser
    BY <2>1 DEF KeysLeave
  <2>2. CASE users[w] # NoUser
    <3>1. users[w] \in User /\ users'[w] = Repaired(users[w])
      BY <1>6, <1>t, <2>2 DEF Repair, Manifests
    <3>2. Usable(users[w].keys) \subseteq Repaired(users[w]).keys
      BY <3>1 DEF Repaired, Usable, User
    <3> QED BY <3>1, <3>2 DEF KeysLeave, Dropped
  <2> QED BY <2>1, <2>2
<1>7. ASSUME NEW r \in Reqs,
             CheckGenerate(r) \/ CheckKey(r, "deleteKey") \/ CheckKey(r, "note")
               \/ CheckEnable(r) \/ CheckDelete(r) \/ Refuse(r) \/ SetNote(r)
               \/ DeleteNote(r) \/ LoadKeep(r) \/ PruneNotes(r) \/ Offer(r)
      PROVE  \A u \in Names : KeysLeave(u)
  BY <1>7, <1>u DEF CheckGenerate, CheckKey, CheckEnable, CheckDelete, Refuse, SetNote,
       DeleteNote, LoadKeep, PruneNotes, Offer
<1>8. ASSUME (\E fp \in Fps : Download(fp) \/ Expire(fp)) \/ Crash \/ UNCHANGED vars
      PROVE  \A u \in Names : KeysLeave(u)
  BY <1>8, <1>u DEF Download, Expire, Crash, vars
<1> QED BY <1>1, <1>2, <1>3, <1>4, <1>5, <1>6, <1>7, <1>8 DEF Next, Step

(* However requests interleave and whatever fails, of a user that stays a   *)
(* write drops no key but the one handleDeleteKey was asked to remove:      *)
(* handlers that looked the user up earlier overwrite nobody's key.         *)
THEOREM KeysLeaveByName == Spec => OnlyNamedKeyLeaves
<1>1. TypeOK /\ [Next]_vars => \A u \in Names : KeysLeave(u)
  BY KeysLeaveStep
<1>2. (\A u \in Names : KeysLeave(u)) =>
        [\A u \in Names : users[u] # NoUser /\ users'[u] # NoUser =>
           LET gone == Usable(users[u].keys) \ users'[u].keys IN
             gone # {} =>
               \E r \in Reqs : /\ At(r, "checked", "deleteKey") /\ req'[r].pc = "note"
                              /\ req[r].user = u /\ {req[r].fp} = Fingerprints(gone)]_users
  BY DEF KeysLeave, Dropped
<1> QED BY <1>1, <1>2, TypeCorrect, PTL DEF Spec, OnlyNamedKeyLeaves

-----------------------------------------------------------------------------
(* With one request at a time, the keys to keep that a clean-up has loaded  *)
(* are those of the manifest it prunes for.                                 *)
KeepInv == \A r \in Reqs : req[r].pc = "prune" => req[r].keep = LiveKeys(users)

(* Only the request that loads the keys to keep goes on to prune. *)
LEMMA KeepStep ==
  ASSUME OneRequest, TypeOK, KeepInv, [Next]_vars
  PROVE  KeepInv'
<1>s. ASSUME NEW r \in Reqs, req'[r].pc # "prune" PROVE KeepInv'
  BY <1>s DEF OneRequest, KeepInv
<1>f. ASSUME NEW r \in Reqs, Finish(r) PROVE KeepInv'
  BY <1>f, <1>s, Moves, IdleRecord
<1>g. ASSUME NEW r \in Reqs, NEW pc, NEW op, NEW u, NEW fp, Goto(r, pc, op, u, fp), pc # "prune"
      PROVE  KeepInv'
  BY <1>g, <1>s, Moves
<1>1. ASSUME NEW r \in Reqs, Create(r) \/ AddKey(r) \/ Disable(r) PROVE KeepInv'
  BY <1>1, <1>s DEF Create, AddKey, Disable
<1>2. ASSUME NEW r \in Reqs,
             CreateGenerated(r) \/ CheckGenerate(r) \/ CheckKey(r, "deleteKey")
               \/ CheckKey(r, "note") \/ CheckEnable(r) \/ CheckDelete(r) \/ Generate(r)
               \/ DeleteKey(r) \/ Delete(r) \/ Repair(r)
      PROVE  KeepInv'
  <2>1. \E pc \in {"checked", "offer", "note", "cleanup"} : \E op, u, fp : Goto(r, pc, op, u, fp)
    BY <1>2 DEF CreateGenerated, CheckGenerate, CheckKey, CheckEnable, CheckDelete,
         Generate, DeleteKey, Delete, Repair
  <2> QED BY <1>g, <2>1
<1>3. ASSUME NEW r \in Reqs,
             Enable(r) \/ Refuse(r) \/ SetNote(r) \/ DeleteNote(r) \/ PruneNotes(r) \/ Offer(r)
      PROVE  KeepInv'
  BY <1>3, <1>f DEF Enable, Refuse, SetNote, DeleteNote, PruneNotes, Offer
<1>4. ASSUME NEW r \in Reqs, LoadKeep(r) PROVE KeepInv'
  <2>1. req'[r].keep = LiveKeys(users) /\ users' = users
    BY <1>4, Moves DEF LoadKeep
  <2> QED BY <2>1 DEF KeepInv, OneRequest
<1>5. ASSUME (\E fp \in Fps : Download(fp) \/ Expire(fp)) \/ UNCHANGED vars PROVE KeepInv'
  BY <1>5 DEF Download, Expire, vars, KeepInv
<1>6. ASSUME Crash PROVE KeepInv'
  BY <1>6, IdleRecord DEF Crash, KeepInv
<1> QED BY <1>1, <1>2, <1>3, <1>4, <1>5, <1>6 DEF Next, Step

(* What an enabling request found, and what a clean-up has loaded, is true  *)
(* but for the keys that came or went since.                                *)
HasLive(u) == \E n \in LiveKeys(users) : n[1] = u

KnowsInv ==
  \A r \in Reqs :
    /\ At(r, "checked", "enable") => HasLive(req[r].user) \/ \E n \in missed[r] : n[1] = req[r].user
    /\ req[r].pc = "prune" => LiveKeys(users) \subseteq req[r].keep \cup missed[r]

(* A request comes to either place only by its look. *)
LEMMA ComesByLooking ==
  ASSUME TypeOK, [Next]_vars, NEW r \in Reqs, req'[r] # req[r]
  PROVE  /\ req'[r].pc = "checked" /\ req'[r].op = "enable" => CheckEnable(r)
         /\ req'[r].pc = "prune" => LoadKeep(r)
<1>f. ASSUME NEW q \in Reqs, Finish(q)
      PROVE  req'[r].pc # "checked" /\ req'[r].pc # "prune"
  BY <1>f, Moves, IdleRecord
<1>g. ASSUME NEW q \in Reqs, NEW pc, NEW op, NEW u, NEW fp, Goto(q, pc, op, u, fp)
      PROVE  q = r /\ req'[r].pc = pc /\ req'[r].op = op
  BY <1>g, Moves
<1>1. ASSUME NEW q \in Reqs, Create(q) \/ AddKey(q) \/ Disable(q) PROVE FALSE
  BY <1>1 DEF Create, AddKey, Disable
<1>2. ASSUME NEW q \in Reqs,
             CreateGenerated(q) \/ CheckGenerate(q) \/ CheckKey(q, "deleteKey")
               \/ CheckKey(q, "note") \/ CheckDelete(q) \/ Generate(q)
               \/ DeleteKey(q) \/ Delete(q) \/ Repair(q)
      PROVE  /\ ~(req'[r].pc = "checked" /\ req'[r].op = "enable")
             /\ req'[r].pc # "prune"
  <2>1. \/ \E op \in {"generate", "deleteKey", "note", "delete"} : \E u, fp : Goto(q, "checked", op, u, fp)
        \/ \E pc \in {"offer", "note", "cleanup"} : \E op, u, fp : Goto(q, pc, op, u, fp)
    BY <1>2 DEF CreateGenerated, CheckGenerate, CheckKey, CheckDelete, Generate, DeleteKey,
         Delete, Repair
  <2> QED BY <1>g, <2>1
<1>3. ASSUME NEW q \in Reqs, CheckEnable(q) PROVE q = r /\ req'[r].pc = "checked"
  BY <1>3, <1>g DEF CheckEnable
<1>4. ASSUME NEW q \in Reqs, LoadKeep(q) PROVE q = r /\ req'[r].pc = "prune"
  BY <1>4, Moves
<1>5. ASSUME NEW q \in Reqs,
             Enable(q) \/ Refuse(q) \/ SetNote(q) \/ DeleteNote(q) \/ PruneNotes(q) \/ Offer(q)
      PROVE  req'[r].pc # "checked" /\ req'[r].pc # "prune"
  BY <1>5, <1>f DEF Enable, Refuse, SetNote, DeleteNote, PruneNotes, Offer
<1>6. ASSUME (\E fp \in Fps : Download(fp) \/ Expire(fp)) \/ UNCHANGED vars PROVE FALSE
  BY <1>6 DEF Download, Expire, vars
<1>7. ASSUME Crash PROVE req'[r].pc # "checked" /\ req'[r].pc # "prune"
  BY <1>7, IdleRecord DEF Crash
<1> QED BY <1>1, <1>2, <1>3, <1>4, <1>5, <1>6, <1>7 DEF Next, Step

(* The ghost collects exactly what a request does not know. *)
LEMMA KnowsStep ==
  ASSUME TypeOK, KnowsInv, [Next]_vars
  PROVE  KnowsInv'
<1>1. CASE UNCHANGED vars
  BY <1>1 DEF vars, KnowsInv, HasLive, LiveKeys, At
<1>2. CASE Next
  <2> SUFFICES ASSUME NEW r \in Reqs
               PROVE  /\ At(r, "checked", "enable")' =>
                           HasLive(req[r].user)' \/ \E n \in missed'[r] : n[1] = req'[r].user
                      /\ req'[r].pc = "prune" => LiveKeys(users)' \subseteq req'[r].keep \cup missed'[r]
    BY DEF KnowsInv
  <2>l. LiveKeys(users)' = LiveKeys(users')
    BY DEF LiveKeys
  <2>1. CASE req'[r] = req[r]
    <3> SUFFICES ASSUME req[r].pc \in {"checked", "prune"}
                 PROVE  /\ At(r, "checked", "enable") =>
                             HasLive(req[r].user)' \/ \E n \in missed'[r] : n[1] = req[r].user
                        /\ req[r].pc = "prune" =>
                             LiveKeys(users)' \subseteq req[r].keep \cup missed'[r]
      BY <2>1 DEF At
    <3>1. /\ missed[r] \subseteq missed'[r]
          /\ LiveKeys(users) \ LiveKeys(users') \subseteq missed'[r]
          /\ LiveKeys(users') \ LiveKeys(users) \subseteq missed'[r]
      BY <1>2, <2>1 DEF Next, Watch
    <3>2. ASSUME At(r, "checked", "enable")
          PROVE  HasLive(req[r].user)' \/ \E n \in missed'[r] : n[1] = req[r].user
      <4>1. CASE \E n \in missed[r] : n[1] = req[r].user
        BY <3>1, <4>1
      <4>2. CASE \E n \in LiveKeys(users) : n[1] = req[r].user
        <5>1. PICK n \in LiveKeys(users) : n[1] = req[r].user
          BY <4>2
        <5>2. n \in LiveKeys(users') \/ n \in missed'[r]
          BY <3>1, <5>1
        <5> QED BY <2>1, <2>l, <5>1, <5>2 DEF HasLive
      <4> QED BY <3>2, <4>1, <4>2 DEF KnowsInv, HasLive
    <3>3. ASSUME req[r].pc = "prune"
          PROVE  LiveKeys(users)' \subseteq req[r].keep \cup missed'[r]
      <4>1. LiveKeys(users) \subseteq req[r].keep \cup missed[r]
        BY <3>3 DEF KnowsInv
      <4> QED BY <2>l, <3>1, <4>1
    <3> QED BY <3>2, <3>3
  <2>2. CASE req'[r] # req[r]
    <3>1. ASSUME At(r, "checked", "enable")'
          PROVE  HasLive(req[r].user)'
      <4>1. CheckEnable(r)
        BY <2>2, <3>1, ComesByLooking DEF At
      <4>2. PICK u \in Names : users[u] # NoUser /\ Usable(users[u].keys) # {}
                                 /\ Goto(r, "checked", "enable", u, NoFp)
        BY <4>1 DEF CheckEnable
      <4>3. req'[r].user = u /\ users' = users
        BY <4>1, <4>2, Moves DEF CheckEnable
      <4>4. users[u] \in User
        BY <4>2 DEF TypeOK, Manifests
      <4>5. PICK k \in Usable(users[u].keys) : TRUE
        BY <4>2
      <4>6. k.fp \in Fps /\ k.fp \in Fingerprints(users[u].keys)
        BY <4>4, <4>5 DEF User, Entry, Usable, Fingerprints
      <4>7. <<u, k.fp>> \in LiveKeys(users)
        BY <4>2, <4>6 DEF LiveKeys, NoteIds
      <4> QED BY <2>l, <4>3, <4>7 DEF HasLive
    <3>2. ASSUME req'[r].pc = "prune" PROVE LiveKeys(users)' \subseteq req'[r].keep
      <4>1. LoadKeep(r)
        BY <2>2, <3>2, ComesByLooking
      <4> QED BY <2>l, <4>1, Moves DEF LoadKeep
    <3> QED BY <3>1, <3>2
  <2> QED BY <2>1, <2>2
<1> QED BY <1>1, <1>2

(* It holds of every behaviour. *)
LEMMA Knows == Spec => [](TypeOK /\ KnowsInv)
<1>1. Init => KnowsInv
  BY IdleRecord DEF Init, KnowsInv, At
<1>2. TypeOK /\ KnowsInv /\ [Next]_vars => KnowsInv'
  BY KnowsStep
<1> QED BY <1>1, <1>2, TypeCorrect, PTL DEF Spec

(* For any number of requests, whatever fails and wherever the process dies, *)
(* the only way to an enabled user without a key is a handleStatus during    *)
(* which that user's keys changed.  With ManifestEnableRace: there is one.   *)
THEOREM KeylessNeedsRace == Spec => KeylessOnlyByRace
<1> DEFINE A == \A u \in Names : Keyless(users'[u]) /\ ~Keyless(users[u]) =>
       \E r \in Reqs : /\ At(r, "checked", "enable") /\ req'[r].pc = "idle"
                      /\ req[r].user = u /\ \E n \in missed[r] : n[1] = u
<1>1. ASSUME TypeOK, KnowsInv, [Next]_vars PROVE A
  <2> SUFFICES ASSUME NEW u \in Names, Keyless(users'[u]), ~Keyless(users[u])
               PROVE  \E r \in Reqs : /\ At(r, "checked", "enable") /\ req'[r].pc = "idle"
                                      /\ req[r].user = u /\ \E n \in missed[r] : n[1] = u
    OBVIOUS
  <2>1. PICK r \in Reqs : Enable(r) /\ req[r].user = u /\ users[u].keys = {}
    BY <1>1, KeylessStep
  <2>2. At(r, "checked", "enable") /\ req'[r].pc = "idle"
    BY <1>1, <2>1, Moves, IdleRecord DEF Enable
  <2>3. ~HasLive(u)
    BY <2>1 DEF HasLive, LiveKeys, Fingerprints, Usable
  <2>4. \E n \in missed[r] : n[1] = u
    BY <1>1, <2>1, <2>2, <2>3 DEF KnowsInv
  <2> QED BY <2>1, <2>2, <2>4
<1>2. TypeOK /\ KnowsInv /\ [Next]_vars => [A]_users
  BY <1>1
<1> QED BY <1>2, Knows, PTL DEF Spec, KeylessOnlyByRace

(* For any number of requests and whatever fails, a note goes only with its  *)
(* key, by asking for it, or in a clean-up that had loaded the keys to keep  *)
(* before the key was added.                                                 *)
THEOREM NotesOutliveCleanUps == Spec => NotesSurvive
<1> DEFINE A == \A n \in notes \ notes' :
       \/ n \notin LiveKeys(users)
       \/ \E r \in Reqs : /\ req[r].pc \in {"checked", "note"} /\ req'[r].pc = "idle"
                          /\ n = <<req[r].user, req[r].fp>>
       \/ \E r \in Reqs : /\ req[r].pc = "prune" /\ req'[r].pc = "idle"
                          /\ n \in missed[r]
<1>1. ASSUME TypeOK, KnowsInv, [Next]_vars PROVE [A]_notes
  <2>1. ASSUME NEW r \in Reqs, SetNote(r) \/ DeleteNote(r) PROVE A
    <3>1. req[r].pc \in {"checked", "note"} /\ req'[r].pc = "idle"
      BY <2>1, <1>1, Moves, IdleRecord DEF SetNote, DeleteNote, At
    <3>2. \A n \in notes \ notes' : n = <<req[r].user, req[r].fp>>
      BY <2>1 DEF SetNote, DeleteNote
    <3> QED BY <3>1, <3>2
  <2>2. ASSUME NEW r \in Reqs, PruneNotes(r) PROVE A
    <3>1. \A n \in notes \ notes' : n \notin req[r].keep
      BY <2>2 DEF PruneNotes
    <3>2. LiveKeys(users) \subseteq req[r].keep \cup missed[r]
      BY <2>2, <1>1 DEF PruneNotes, KnowsInv
    <3>3. req[r].pc = "prune" /\ req'[r].pc = "idle"
      BY <2>2, <1>1, Moves, IdleRecord DEF PruneNotes
    <3> QED BY <3>1, <3>2, <3>3
  <2>3. CASE UNCHANGED notes
    BY <2>3
  <2> QED
    BY <1>1, <2>1, <2>2, <2>3 DEF Next, Step, vars, Create, AddKey, Disable,
       CreateGenerated, CheckGenerate, CheckKey, CheckEnable, CheckDelete, Generate,
       DeleteKey, Enable, Delete, Refuse, Repair, LoadKeep, Offer, Download, Expire, Crash
<1> QED BY <1>1, Knows, PTL DEF Spec, NotesSurvive

-----------------------------------------------------------------------------
(* The notes are clean except while a handler that has taken keys away has  *)
(* not yet come to the notes; a key removal leaves at most its own.         *)
NotesClean == notes \subseteq LiveKeys(users)

NotesInv ==
  /\ KeepInv
  /\ \A r \in Reqs : At(r, "checked", "note") =>
       <<req[r].user, req[r].fp>> \in LiveKeys(users)
  /\ \A r \in Reqs : req[r].pc = "note" =>
       notes \ {<<req[r].user, req[r].fp>>} \subseteq LiveKeys(users)
  /\ (\A r \in Reqs : req[r].pc \notin {"note", "cleanup", "prune"}) => NotesClean

(* A key stays live through a write that keeps its user and an entry with *)
(* its fingerprint.                                                       *)
LEMMA StaysLive ==
  ASSUME users \in Manifests, NEW u \in Names, NEW v, users' = [users EXCEPT ![u] = v],
         NEW n \in LiveKeys(users),
         n[1] = u => v # NoUser /\ n[2] \in Fingerprints(v.keys)
  PROVE  n \in LiveKeys(users')
<1>1. n \in NoteIds /\ n[1] \in Names /\ users[n[1]] # NoUser
        /\ n[2] \in Fingerprints(users[n[1]].keys)
  BY DEF LiveKeys, NoteIds
<1>2. users'[n[1]] = IF n[1] = u THEN v ELSE users[n[1]]
  BY <1>1 DEF Manifests
<1> QED BY <1>1, <1>2 DEF LiveKeys

(* Creating, adding a key and switching keep every live key live, and a *)
(* removal every other one.                                             *)
LEMMA EditsLive ==
  ASSUME users \in Manifests, NEW u \in Names
  PROVE  /\ \A fp \in Fps : Update(u, Created(u, fp)) => LiveKeys(users) \subseteq LiveKeys(users')
         /\ \A fp \in Fps : Update(u, KeyAdded(u, fp)) => LiveKeys(users) \subseteq LiveKeys(users')
         /\ \A b \in BOOLEAN : Update(u, Switched(u, b)) => LiveKeys(users) \subseteq LiveKeys(users')
         /\ \A fp \in Fps : Update(u, KeyDeleted(u, fp)) =>
              LiveKeys(users) \ {<<u, fp>>} \subseteq LiveKeys(users')
<1>n. \A n \in LiveKeys(users) : /\ n \in NoteIds /\ n = <<n[1], n[2]>> /\ users[n[1]] # NoUser
                                 /\ n[2] \in Fingerprints(users[n[1]].keys)
  BY DEF LiveKeys, NoteIds
<1>s. \A a, b : a \subseteq b => Fingerprints(a) \subseteq Fingerprints(b)
  BY DEF Fingerprints, Usable
<1>1. ASSUME NEW fp \in Fps, Update(u, Created(u, fp)), NEW n \in LiveKeys(users)
      PROVE  n \in LiveKeys(users')
  <2>1. PICK v \in Created(u, fp) : users' = [users EXCEPT ![u] = v]
    BY <1>1 DEF Update
  <2>2. users[u] = NoUser
    BY <2>1, Edits
  <2> QED BY <1>n, <2>1, <2>2, StaysLive
<1>2. ASSUME NEW fp \in Fps, Update(u, KeyAdded(u, fp)), NEW n \in LiveKeys(users)
      PROVE  n \in LiveKeys(users')
  <2>1. PICK v \in KeyAdded(u, fp) : users' = [users EXCEPT ![u] = v]
    BY <1>2 DEF Update
  <2>2. v # NoUser /\ users[u].keys \subseteq v.keys
    BY <2>1, Edits, EditKeys
  <2>3. n[1] = u => n[2] \in Fingerprints(v.keys)
    BY <1>n, <1>s, <2>2
  <2> QED BY <2>1, <2>2, <2>3, StaysLive
<1>3. ASSUME NEW b \in BOOLEAN, Update(u, Switched(u, b)), NEW n \in LiveKeys(users)
      PROVE  n \in LiveKeys(users')
  <2>1. PICK v \in Switched(u, b) : users' = [users EXCEPT ![u] = v]
    BY <1>3 DEF Update
  <2>2. v # NoUser /\ users[u].keys = v.keys
    BY <2>1, Edits
  <2> QED BY <1>n, <2>1, <2>2, StaysLive
<1>4. ASSUME NEW fp \in Fps, Update(u, KeyDeleted(u, fp)), NEW n \in LiveKeys(users),
             n # <<u, fp>>
      PROVE  n \in LiveKeys(users')
  <2>1. PICK v \in KeyDeleted(u, fp) : users' = [users EXCEPT ![u] = v]
    BY <1>4 DEF Update
  <2>2. v # NoUser
    BY <2>1, Edits
  <2>3. PICK k \in Usable(users[u].keys) :
          k.fp = fp /\ Usable(users[u].keys) \ {k} \subseteq v.keys
    BY <2>1, EditKeys
  <2>4. ASSUME n[1] = u PROVE n[2] \in Fingerprints(v.keys)
    <3>1. PICK e \in Usable(users[u].keys) : e.fp = n[2]
      BY <1>n, <2>4 DEF Fingerprints
    <3>2. e # k
      BY <1>n, <1>4, <2>3, <2>4, <3>1
    <3>3. e \in Usable(v.keys)
      BY <2>3, <3>1, <3>2 DEF Usable
    <3> QED BY <3>1, <3>3 DEF Fingerprints
  <2> QED BY <2>1, <2>2, <2>4, StaysLive
<1> QED BY <1>1, <1>2, <1>3, <1>4

(* With one slot, every step keeps the notes in order while writing them    *)
(* succeeds and the process lives.                                          *)
LEMMA NotesStep ==
  ASSUME OneRequest, "note" \notin Faults, "crash" \notin Faults,
         TypeOK, NotesInv, [Next]_vars
  PROVE  NotesInv'
<1>t. users \in Manifests /\ \A r \in Reqs : Located(req[r])
  BY DEF TypeOK
<1>k. KeepInv'
  BY KeepStep DEF NotesInv
<1>c. ASSUME NEW r \in Reqs, req[r].pc \notin {"note", "cleanup", "prune"} PROVE NotesClean
  BY <1>c DEF NotesInv, OneRequest
<1>s. ASSUME NEW r \in Reqs, NotesClean', req'[r].pc # "note",
             ~(req'[r].pc = "checked" /\ req'[r].op = "note")
      PROVE  NotesInv'
  BY <1>s, <1>k DEF NotesInv, OneRequest, At
<1>f. Fresh \subseteq Fps
  BY DEF Fresh
<1>m. ASSUME LiveKeys(users) \subseteq LiveKeys(users'), notes' = notes, NotesClean
      PROVE  NotesClean'
  <2>1. LiveKeys(users)' = LiveKeys(users')
    BY DEF LiveKeys
  <2> QED BY <1>m, <2>1 DEF NotesClean
<1>u. ASSUME users' = users PROVE LiveKeys(users)' = LiveKeys(users)
  BY <1>u DEF LiveKeys
<1>1. ASSUME NEW r \in Reqs, Create(r) \/ AddKey(r) \/ Disable(r) PROVE NotesInv'
  <2>1. LiveKeys(users) \subseteq LiveKeys(users')
    BY <1>1, <1>t, EditsLive DEF Create, AddKey, Disable
  <2>2. /\ NotesClean /\ notes' = notes
        /\ req'[r].pc # "note" /\ req'[r].pc # "checked"
    BY <1>1, <1>c DEF Create, AddKey, Disable
  <2> QED BY <1>m, <1>s, <2>1, <2>2
<1>2. ASSUME NEW r \in Reqs, CreateGenerated(r) \/ Generate(r) PROVE NotesInv'
  <2>1. LiveKeys(users) \subseteq LiveKeys(users')
    BY <1>2, <1>t, <1>f, EditsLive DEF CreateGenerated, Generate, At, Located
  <2>2. NotesClean /\ notes' = notes
    BY <1>2, <1>c DEF CreateGenerated, Generate, At
  <2>3. req'[r].pc = "offer"
    BY <1>2, Moves DEF CreateGenerated, Generate
  <2> QED BY <1>m, <1>s, <2>1, <2>2, <2>3
<1>3. ASSUME NEW r \in Reqs, CheckGenerate(r) \/ CheckKey(r, "deleteKey")
                               \/ CheckEnable(r) \/ CheckDelete(r)
      PROVE  NotesInv'
  <2>1. NotesClean /\ UNCHANGED <<users, notes>>
    BY <1>3, <1>c DEF CheckGenerate, CheckKey, CheckEnable, CheckDelete
  <2>2. NotesClean'
    BY <1>m, <2>1
  <2>3. \E op \in {"generate", "deleteKey", "enable", "delete"} : \E u, fp :
          Goto(r, "checked", op, u, fp)
    BY <1>3 DEF CheckGenerate, CheckKey, CheckEnable, CheckDelete
  <2>4. req'[r].pc = "checked" /\ req'[r].op # "note"
    BY <2>3, Moves
  <2> QED BY <1>s, <2>2, <2>4
<1>4. ASSUME NEW r \in Reqs, CheckKey(r, "note") PROVE NotesInv'
  <2>1. NotesClean /\ UNCHANGED <<users, notes>>
    BY <1>4, <1>c DEF CheckKey
  <2>2. NotesClean'
    BY <1>m, <2>1
  <2>3. PICK n \in LiveKeys(users) : Goto(r, "checked", "note", n[1], n[2])
    BY <1>4 DEF CheckKey
  <2>4. req'[r].pc = "checked" /\ <<req'[r].user, req'[r].fp>> = n
    BY <2>3, Moves DEF LiveKeys, NoteIds
  <2> QED BY <1>k, <1>u, <2>1, <2>2, <2>3, <2>4 DEF NotesInv, OneRequest
<1>5. ASSUME NEW r \in Reqs, DeleteKey(r) PROVE NotesInv'
  <2>1. /\ NotesClean /\ notes' = notes
        /\ req[r].user \in Names /\ req[r].fp \in Fps
    BY <1>5, <1>c, <1>t DEF DeleteKey, At, Located
  <2>2. LiveKeys(users) \ {<<req[r].user, req[r].fp>>} \subseteq LiveKeys(users')
    BY <1>5, <1>t, <2>1, EditsLive DEF DeleteKey
  <2>3. req'[r].pc = "note" /\ req'[r].user = req[r].user /\ req'[r].fp = req[r].fp
    BY <1>5, Moves DEF DeleteKey
  <2>4. notes' \ {<<req'[r].user, req'[r].fp>>} \subseteq LiveKeys(users')
    BY <2>1, <2>2, <2>3 DEF NotesClean
  <2>5. LiveKeys(users)' = LiveKeys(users')
    BY DEF LiveKeys
  <2> QED BY <1>k, <2>3, <2>4, <2>5 DEF NotesInv, OneRequest, At
<1>6. ASSUME NEW r \in Reqs, Enable(r) PROVE NotesInv'
  <2>1. NotesClean /\ notes' = notes /\ req[r].user \in Names
    BY <1>6, <1>c, <1>t DEF Enable, At, Located
  <2>2. LiveKeys(users) \subseteq LiveKeys(users')
    BY <1>6, <1>t, <2>1, EditsLive DEF Enable
  <2>3. req'[r].pc = "idle"
    BY <1>6, Moves, IdleRecord DEF Enable
  <2> QED BY <1>m, <1>s, <2>1, <2>2, <2>3
<1>7. ASSUME NEW r \in Reqs, Delete(r) \/ Repair(r) \/ LoadKeep(r) PROVE NotesInv'
  <2>1. req'[r].pc \in {"cleanup", "prune"}
    BY <1>7, Moves DEF Delete, Repair
  <2> QED BY <1>k, <2>1 DEF NotesInv, OneRequest, At
<1>8. ASSUME NEW r \in Reqs, Refuse(r) \/ Offer(r) PROVE NotesInv'
  <2>1. NotesClean /\ UNCHANGED <<users, notes>>
    BY <1>8, <1>c DEF Refuse, Offer, At
  <2>2. req'[r].pc = "idle"
    BY <1>8, Moves, IdleRecord DEF Refuse, Offer
  <2> QED BY <1>m, <1>s, <2>1, <2>2
<1>9. ASSUME NEW r \in Reqs, SetNote(r) PROVE NotesInv'
  <2>1. /\ NotesClean /\ <<req[r].user, req[r].fp>> \in LiveKeys(users)
        /\ users' = users /\ notes' \subseteq notes \cup {<<req[r].user, req[r].fp>>}
    BY <1>9, <1>c DEF SetNote, At, NotesInv
  <2>2. NotesClean'
    BY <1>u, <2>1 DEF NotesClean
  <2>3. req'[r].pc = "idle"
    BY <1>9, Moves, IdleRecord DEF SetNote
  <2> QED BY <1>s, <2>2, <2>3
<1>10. ASSUME NEW r \in Reqs, DeleteNote(r) \/ PruneNotes(r) PROVE NotesInv'
  <2>1. notes' \subseteq LiveKeys(users) /\ users' = users
    BY <1>10 DEF DeleteNote, PruneNotes, NotesInv, KeepInv
  <2>2. NotesClean'
    BY <1>u, <2>1 DEF NotesClean
  <2>3. req'[r].pc = "idle"
    BY <1>10, Moves, IdleRecord DEF DeleteNote, PruneNotes
  <2> QED BY <1>s, <2>2, <2>3
<1>11. ASSUME (\E fp \in Fps : Download(fp) \/ Expire(fp)) \/ UNCHANGED vars PROVE NotesInv'
  <2>1. UNCHANGED <<users, notes, req>>
    BY <1>11 DEF Download, Expire, vars
  <2> QED BY <1>k, <1>u, <2>1 DEF NotesInv, NotesClean, At
<1>12. ~Crash
  BY DEF Crash
<1> QED BY <1>1, <1>2, <1>3, <1>4, <1>5, <1>6, <1>7, <1>8, <1>9, <1>10, <1>11, <1>12
        DEF Next, Step

(* When an operator makes one request at a time, the notes file can be       *)
(* written and the process does not die in mid-request, then between         *)
(* requests no note outlives its key: removals, deletions and repairs clean  *)
(* up after themselves, also when users.json could not be written.           *)
THEOREM OneAtATimeNoOrphans ==
  ASSUME OneRequest, "note" \notin Faults, "crash" \notin Faults
  PROVE  Spec => []NoOrphanNotes
<1>1. Init => NotesInv
  BY IdleRecord DEF Init, NotesInv, KeepInv, NotesClean, At
<1>2. TypeOK /\ NotesInv /\ [Next]_vars => NotesInv'
  BY NotesStep
<1>3. NotesInv => NoOrphanNotes
  BY DEF NotesInv, NotesClean, NoOrphanNotes
<1> QED BY <1>1, <1>2, <1>3, TypeCorrect, PTL DEF Spec
=============================================================================
