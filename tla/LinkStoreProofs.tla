--------------------------- MODULE LinkStoreProofs ---------------------------
(***************************************************************************)
(* Theorems about LinkStore, for every set of requests, ids and bodies,    *)
(* every clock bound and every combination of faults.  What the file keeps *)
(* needs serial saves (Serial); what pages show needs one process          *)
(* (OneProcess), whose memory then keeps every promise too (MemFresh).     *)
(***************************************************************************)
EXTENDS LinkStore, TLAPS

(* Purging a map leaves a map. *)
LEMMA PurgeType ==
  ASSUME NEW m \in [Ids -> Slot]
  PROVE  Purge(m) \in [Ids -> Slot]
BY DEF Purge, Slot

(* Rewriting the fields of a request the way the actions do leaves a request. *)
LEMMA RequestFields ==
  ASSUME NEW q \in Request
  PROVE  /\ \A pc \in {"renamed", "reread"} : [q EXCEPT !.pc = pc] \in Request
         /\ \A l \in Slot : [q EXCEPT !.pc = "valid", !.link = l] \in Request
         /\ \A n \in 0 .. MaxTries - 1 : [q EXCEPT !.tries = n] \in Request
         /\ \A i \in Ids \cup {NoId}, l \in Slot :
              [q EXCEPT !.pc = "saving", !.id = i, !.link = l] \in Request
         /\ \A l \in Slot, x \in Promise :
              /\ [q EXCEPT !.pc = "viewed", !.link = l, !.expect = x] \in Request
              /\ [q EXCEPT !.pc = "viewed", !.link = l, !.expect = x].id = q.id
         /\ q.id \in Ids \cup {NoId} /\ q.link \in Slot /\ q.expect \in Promise
         /\ q.tries \in 0 .. MaxTries - 1
BY DEF Request

(* The change that Create, Update and Delete make before they save is well *)
(* typed.                                                                  *)
LEMMA BeginSaveType ==
  ASSUME TypeOK, NEW r \in Reqs, NEW i \in Ids, NEW l \in Slot,
         BeginSave(r, i, l)
  PROVE  TypeOK'
<1> USE ConstantsAssumption DEF TypeOK
<1> DEFINE p == ProcOf[r]
           new == [req[r] EXCEPT !.pc = "saving", !.id = i, !.link = l]
<1>1. p \in Procs
  OBVIOUS
<1>2. mem' \in [Procs -> [Ids -> Slot]]
  <2>1. [mem[p] EXCEPT ![i] = l] \in [Ids -> Slot]
    BY <1>1
  <2> QED BY <1>1, <2>1, PurgeType DEF BeginSave
<1>3. req' \in [Reqs -> Request]
  <2>1. new \in Request
    BY RequestFields
  <2>2. req' = [req EXCEPT ![r] = new]
    BY DEF BeginSave
  <2> HIDE DEF new
  <2> QED BY <2>1, <2>2
<1>5. \A q \in Reqs : req'[q].id = NoId =>
        req'[q].op \in {"none", "create"} /\ req'[q].pc \in {"idle", "loaded", "valid"}
  BY DEF BeginSave, Request
<1>4. promised' \in [Ids -> Promise]
  BY DEF BeginSave, Promise
<1> QED BY <1>1, <1>2, <1>3, <1>4, <1>5 DEF BeginSave

(* Every step of the store keeps every variable in its type. *)
LEMMA TypeStep ==
  ASSUME TypeOK, [Next]_vars
  PROVE  TypeOK'
<1> USE ConstantsAssumption DEF TypeOK
<1> DEFINE Targets(f) == \A q \in Reqs : f[q].id = NoId =>
             f[q].op \in {"none", "create"} /\ f[q].pc \in {"idle", "loaded", "valid"}
           ReqOK(f) == f \in [Reqs -> Request] /\ Targets(f)
<1>i. Idle \in Request
  BY DEF Idle, Request, Slot, Promise, MaxTries
<1>f. ASSUME NEW r \in Reqs, Finish(r) PROVE ReqOK(req')
  BY <1>f, <1>i DEF Finish, Idle
<1>s. ASSUME NEW r \in Reqs, NEW new \in Request, req' = [req EXCEPT ![r] = new],
             new.id = NoId => /\ new.op \in {"none", "create"}
                              /\ new.pc \in {"idle", "loaded", "valid"}
      PROVE  ReqOK(req')
  BY <1>s
<1>g. ASSUME NEW r \in Reqs, NEW pc \in {"renamed", "reread"}, Goto(r, pc),
             req[r].id # NoId
      PROVE  ReqOK(req')
  <2>1. [req[r] EXCEPT !.pc = pc] \in Request
    BY RequestFields
  <2>2. [req[r] EXCEPT !.pc = pc].id = req[r].id
    BY DEF Request
  <2> QED BY <1>g, <1>s, <2>1, <2>2 DEF Goto
<1>1. ASSUME NEW r \in Reqs, Reload(r) PROVE TypeOK'
  <2>1. PICK op \in Ops(ProcOf[r]), i \in Ids \cup {NoId} :
          /\ req' = [req EXCEPT ![r] =
                   [Idle EXCEPT !.pc = "loaded", !.op = op, !.id = i,
                     !.expect = IF op = "view" THEN promised[i] ELSE NoPromise]]
          /\ op # "create" => i \in Ids
    BY <1>1 DEF Reload
  <2> DEFINE new == [Idle EXCEPT !.pc = "loaded", !.op = op, !.id = i,
                       !.expect = IF op = "view" THEN promised[i] ELSE NoPromise]
  <2>2. op \in {"create", "patch", "delete", "view"}
    BY DEF Ops
  <2>3. new \in Request
    BY <1>i, <2>1, <2>2 DEF Idle, Request, Promise
  <2>4. new.id = NoId => new.op = "create" /\ new.pc = "loaded"
    BY <2>1, <2>2 DEF Idle
  <2>5. ReqOK(req')
    <3> HIDE DEF new, ReqOK
    <3> QED BY <1>s, <2>1, <2>3, <2>4 DEF new
  <2> QED BY <1>1, <2>5 DEF Reload, Load
<1>2. ASSUME NEW r \in Reqs, Reject(r) PROVE TypeOK'
  BY <1>2, <1>f DEF Reject
<1>3. ASSUME NEW r \in Reqs, Validate(r) PROVE TypeOK'
  <2>1. PICK l \in Link :
          req' = [req EXCEPT ![r] = [@ EXCEPT !.pc = "valid", !.link = l]]
    BY <1>3 DEF Validate
  <2>2. [req[r] EXCEPT !.pc = "valid", !.link = l] \in Request
    BY RequestFields DEF Slot
  <2>3. /\ [req[r] EXCEPT !.pc = "valid", !.link = l].pc = "valid"
        /\ [req[r] EXCEPT !.pc = "valid", !.link = l].op = "create"
    BY <1>3 DEF Validate, Request
  <2>4. ReqOK(req')
    BY <1>s, <2>1, <2>2, <2>3
  <2> QED BY <1>3, <2>4 DEF Validate
<1>4. ASSUME NEW r \in Reqs, Create(r) PROVE TypeOK'
  <2>1. req[r].link \in Slot
    BY RequestFields
  <2> QED BY <1>4, <2>1, BeginSaveType DEF Create
<1>5. ASSUME NEW r \in Reqs, CreateCollides(r) PROVE TypeOK'
  <2>1. CASE req' = [req EXCEPT ![r].tries = @ + 1] /\ DrawsLeft(r)
    <3> DEFINE n == req[r].tries
    <3>0. n \in 0 .. MaxTries - 1 /\ n + 1 < MaxTries
      BY <2>1, RequestFields DEF DrawsLeft
    <3>1. n + 1 \in 0 .. MaxTries - 1
      <4> HIDE DEF n, TypeOK
      <4> QED BY <3>0 DEF MaxTries
    <3>2. [req[r] EXCEPT !.tries = req[r].tries + 1] \in Request
      BY <3>1, RequestFields
    <3>3. /\ [req[r] EXCEPT !.tries = req[r].tries + 1].op = "create"
          /\ [req[r] EXCEPT !.tries = req[r].tries + 1].pc = "valid"
      BY <1>5 DEF CreateCollides, Request
    <3>4. ReqOK(req')
      BY <1>s, <2>1, <3>2, <3>3
    <3> QED BY <1>5, <3>4 DEF CreateCollides
  <2>2. CASE Finish(r)
    BY <1>5, <1>f, <2>2 DEF CreateCollides
  <2> QED BY <1>5, <2>1, <2>2 DEF CreateCollides
<1>6. ASSUME NEW r \in Reqs, Patch(r) PROVE TypeOK'
  <2>1. PICK l \in Link : BeginSave(r, req[r].id, l)
    BY <1>6 DEF Patch
  <2>2. req[r].id \in Ids
    BY <1>6, RequestFields DEF Patch
  <2> QED BY <2>1, <2>2, BeginSaveType DEF Slot
<1>7. ASSUME NEW r \in Reqs, PatchMissing(r) PROVE TypeOK'
  BY <1>7, <1>f DEF PatchMissing
<1>8. ASSUME NEW r \in Reqs, Delete(r) PROVE TypeOK'
  <2>1. req[r].id \in Ids
    BY <1>8, RequestFields DEF Delete
  <2> QED BY <1>8, <2>1, BeginSaveType DEF Delete, Slot
<1>9. ASSUME NEW r \in Reqs, SaveFails(r) PROVE TypeOK'
  <2>1. req[r].id \in Ids
    BY <1>9, RequestFields DEF SaveFails
  <2> QED BY <1>9, <1>f, <2>1 DEF SaveFails, Unlock
<1>10. ASSUME NEW r \in Reqs, Rename(r) PROVE TypeOK'
  <2>1. ReqOK(req')
    BY <1>10, <1>g DEF Rename
  <2> QED BY <1>10, <2>1 DEF Rename, Marshalled
<1>11. ASSUME NEW r \in Reqs, Chmod(r) PROVE TypeOK'
  <2>1. req[r].link \in Slot /\ req[r].id # NoId
    BY <1>11, RequestFields DEF Chmod
  <2>2. promised' \in [Ids -> Promise]
    BY <1>11, <2>1 DEF Chmod, Promise, Slot
  <2>3. ReqOK(req')
    BY <1>11, <1>f, <1>g, <2>1 DEF Chmod
  <2> QED BY <1>11, <2>2, <2>3 DEF Chmod, Unlock
<1>12. ASSUME NEW r \in Reqs, ChmodFails(r) PROVE TypeOK'
  BY <1>12, <1>f DEF ChmodFails, Unlock
<1>13. ASSUME NEW r \in Reqs, Reread(r) PROVE TypeOK'
  BY <1>13, <1>f DEF Reread
<1>14. ASSUME NEW r \in Reqs, View(r) PROVE TypeOK'
  <2> DEFINE l == mem[ProcOf[r]][req[r].id]
             seen == IF l # NoLink /\ Expired(l) THEN NoLink ELSE l
             x == IF promised[req[r].id] = req[r].expect THEN req[r].expect
                                                        ELSE NoPromise
             new == [req[r] EXCEPT !.pc = "viewed", !.link = seen, !.expect = x]
  <2>1. req[r].id \in Ids
    BY <1>14, RequestFields DEF View
  <2>2. seen \in Slot
    <3>1. l \in Slot
      <4>1. mem[ProcOf[r]] \in [Ids -> Slot]
        OBVIOUS
      <4> QED BY <2>1, <4>1
    <3>2. NoLink \in Slot
      BY DEF Slot
    <3> QED BY <3>1, <3>2
  <2>3. x \in Promise
    <3>1. req[r].expect \in Promise
      BY RequestFields
    <3>2. NoPromise \in Promise
      BY DEF Promise
    <3> QED BY <3>1, <3>2
  <2>4. new \in Request
    <3> HIDE DEF seen, x
    <3> QED BY <2>2, <2>3, RequestFields
  <2>5. new.id = req[r].id
    <3> HIDE DEF seen, x
    <3>1. req[r] \in Request
      OBVIOUS
    <3> HIDE DEF TypeOK
    <3> QED BY <2>2, <2>3, <3>1, RequestFields
  <2>6. req' = [req EXCEPT ![r] = new]
    BY <1>14 DEF View
  <2>7. ReqOK(req')
    <3> HIDE DEF new
    <3> QED BY <1>s, <2>1, <2>4, <2>5, <2>6
  <2> QED BY <1>14, <2>7 DEF View
<1>15. ASSUME NEW r \in Reqs, ViewAnswered(r) PROVE TypeOK'
  BY <1>15, <1>f DEF ViewAnswered
<1>16. ASSUME NEW p \in Procs, Crash(p) PROVE TypeOK'
  <2>1. Empty \in [Ids -> Slot]
    BY DEF Empty, Slot
  <2>2. ReqOK(req')
    BY <1>16, <1>i DEF Crash, Idle
  <2> QED BY <1>16, <2>1, <2>2 DEF Crash
<1>17. ASSUME NEW p \in Procs, Restart(p) PROVE TypeOK'
  BY <1>17 DEF Restart, Load
<1>18. ASSUME Tick PROVE TypeOK'
  BY <1>18 DEF Tick
<1>19. ASSUME UNCHANGED vars PROVE TypeOK'
  BY <1>19 DEF vars
<1> QED
  BY <1>1, <1>2, <1>3, <1>4, <1>5, <1>6, <1>7, <1>8, <1>9, <1>10, <1>11, <1>12,
     <1>13, <1>14, <1>15, <1>16, <1>17, <1>18, <1>19 DEF Next, Lock, Proceed

(* The types hold in every reachable state, whatever the faults and whether *)
(* or not the two processes save at the same time.                          *)
THEOREM TypeCorrect == Spec => []TypeOK
<1>1. Init => TypeOK
  BY ConstantsAssumption
     DEF Init, TypeOK, Empty, Idle, Request, Slot, Promise, MaxTries
<1> QED BY <1>1, TypeStep, PTL DEF Spec

-----------------------------------------------------------------------------
(* When saves cannot interleave across processes: one process only, or     *)
(* operators who change links through one at a time while no save is cut   *)
(* short between its rename and its chmod.                                 *)
OneProcess == \A p, q \in Procs : p = q
Serial == OneProcess \/ (Exclusive /\ "torn" \notin Faults)

Holding(r) == req[r].pc \in {"saving", "renamed"}

(* The mutex is held exactly by the request that saves, in a live process. *)
MutexInv ==
  \A r \in Reqs : /\ Holding(r) <=> mu[ProcOf[r]] = r
                  /\ req[r].pc # "idle" => up[ProcOf[r]]
                  /\ Holding(r) \/ req[r].pc = "valid" => req[r].op \in Mutators

(* Requests that change links run in one process at a time. *)
OneSide == \A r, q \in Reqs : Mutating(r) /\ Mutating(q) => ProcOf[r] = ProcOf[q]

(* The file is closed to the other process only while its writer is between *)
(* the rename and the chmod.                                                *)
WindowInv ==
  /\ mode = "0600" => OneProcess \/ \E r \in Reqs : req[r].pc = "renamed"
  /\ \A r \in Reqs : req[r].pc = "renamed" => owner = ProcOf[r]

(* a is b, or what the purge has made of b. *)
Covers(a, b) == a = b \/ (a = NoLink /\ Expired(b))

(* The memory a change will be saved from agrees with the file, except for *)
(* links with a failed save and for the link being saved now.              *)
Agree ==
  \A r \in Reqs : Mutating(r) => \A i \in Ids :
    \/ i \in unsaved[ProcOf[r]]
    \/ \E q \in Reqs : req[q].pc = "saving" /\ req[q].id = i
    \/ Covers(mem[ProcOf[r]][i], file[i])

(* The link a request asked for reaches the memory, then the file. *)
Written ==
  \A r \in Reqs :
    /\ req[r].pc = "saving" => Covers(mem[ProcOf[r]][req[r].id], req[r].link)
    /\ req[r].pc = "renamed" => /\ Covers(file[req[r].id], req[r].link)
                                /\ unsaved[ProcOf[r]] = {}

(* Nobody is about to write over a promise. *)
Undisturbed ==
  \A i \in Ids : promised[i] \in Link \cup {Gone} =>
    \A r \in Reqs : /\ Mutating(r) => i \notin unsaved[ProcOf[r]]
                    /\ Holding(r) => req[r].id # i

Inv == /\ TypeOK /\ MutexInv /\ OneSide /\ WindowInv /\ Agree /\ Written
       /\ Undisturbed /\ NoDataLoss /\ DeletedStaysDeleted

(* Facts about a request that holds the mutex. *)
LEMMA Holder ==
  ASSUME Inv, NEW r \in Reqs, Holding(r)
  PROVE  /\ Mutating(r) /\ req[r].id \in Ids /\ req[r].link \in Slot
         /\ ProcOf[r] \in Procs /\ mu[ProcOf[r]] = r
         /\ \A q \in Reqs : Holding(q) => q = r
<1>1. /\ req[r] \in Request /\ ProcOf[r] \in Procs /\ req[r].id # NoId
  BY ConstantsAssumption DEF Inv, TypeOK, Holding
<1>2. Mutating(r) /\ mu[ProcOf[r]] = r
  BY DEF Inv, MutexInv, Holding, Mutating
<1>3. ASSUME NEW q \in Reqs, Holding(q) PROVE q = r
  <2>1. Mutating(q) /\ mu[ProcOf[q]] = q
    BY <1>3 DEF Inv, MutexInv, Holding, Mutating
  <2>2. ProcOf[q] = ProcOf[r]
    BY <1>2, <2>1 DEF Inv, OneSide
  <2> QED BY <1>2, <2>1, <2>2
<1> QED BY <1>1, <1>2, <1>3, RequestFields

(* A step that only moves one request, and neither into nor out of the *)
(* critical section, disturbs nothing.                                  *)
LEMMA QuietStep ==
  ASSUME Inv, TypeOK', NEW r \in Reqs, NEW new \in Request,
         req' = [req EXCEPT ![r] = new],
         UNCHANGED <<now, up, mem, mu, file, mode, owner, unsaved, promised>>,
         ~Holding(r), new.pc \notin {"saving", "renamed"},
         new.pc # "idle" => req[r].pc # "idle" /\ new.op = req[r].op,
         new.pc = "valid" => new.op \in Mutators
  PROVE  Inv'
<1> USE DEF Inv
<1>1. \A q \in Reqs : /\ Holding(q)' <=> Holding(q)
                      /\ Mutating(q)' => Mutating(q)
                      /\ Holding(q) => req'[q] = req[q]
                      /\ req'[q].pc = "renamed" <=> req[q].pc = "renamed"
                      /\ req'[q].pc = "saving" <=> req[q].pc = "saving"
  BY DEF TypeOK, Holding, Mutating
<1>2. \A x : Expired(x)' <=> Expired(x)
  BY DEF Expired
<1>3. MutexInv'
  BY <1>1 DEF MutexInv, TypeOK, Holding
<1>4. OneSide'
  BY <1>1 DEF OneSide
<1>5. WindowInv'
  BY <1>1 DEF WindowInv
<1>6. Agree'
  <2>1. \A q \in Reqs, i \in Ids :
          req[q].pc = "saving" /\ req[q].id = i => req'[q].pc = "saving" /\ req'[q].id = i
    BY <1>1 DEF Holding
  <2> QED BY <1>1, <1>2, <2>1 DEF Agree, Covers
<1>7. Written'
  BY <1>1, <1>2 DEF Written, Covers, Holding
<1>8. Undisturbed'
  BY <1>1 DEF Undisturbed
<1>9. NoDataLoss' /\ DeletedStaysDeleted'
  BY <1>2 DEF NoDataLoss, DeletedStaysDeleted
<1> QED BY <1>3, <1>4, <1>5, <1>6, <1>7, <1>8, <1>9

(* Time passes: what has expired stays expired. *)
LEMMA TickStep ==
  ASSUME Inv, TypeOK', Tick
  PROVE  Inv'
<1> USE DEF Inv
<1>1. ASSUME NEW x \in Link, Expired(x) PROVE Expired(x)'
  BY <1>1, ConstantsAssumption DEF Expired, Tick, TypeOK, Link, NoExpiry
<1>2. ASSUME NEW x \in Slot, NEW y, Covers(y, x) PROVE Covers(y, x)'
  BY <1>1, <1>2 DEF Covers, Slot
<1>3. UNCHANGED <<up, mem, mu, file, mode, owner, req, unsaved, promised>>
  BY DEF Tick
<1>4. \A q \in Reqs : (Holding(q)' <=> Holding(q)) /\ (Mutating(q)' <=> Mutating(q))
  BY <1>3 DEF Holding, Mutating
<1>5. MutexInv' /\ OneSide' /\ WindowInv' /\ Undisturbed' /\ DeletedStaysDeleted'
  BY <1>3, <1>4
     DEF MutexInv, OneSide, WindowInv, Undisturbed, DeletedStaysDeleted
<1>6. Agree'
  <2>1. \A i \in Ids : file[i] \in Slot
    BY DEF TypeOK
  <2> QED BY <1>2, <1>3, <1>4, <2>1 DEF Agree
<1>7. Written'
  <2>1. \A q \in Reqs : req[q].link \in Slot
    BY RequestFields DEF TypeOK
  <2> QED BY <1>2, <1>3, <2>1 DEF Written
<1>8. NoDataLoss'
  BY <1>1, <1>3 DEF NoDataLoss
<1> QED BY <1>5, <1>6, <1>7, <1>8

(* Taking the mutex and changing the memory. *)
LEMMA BeginSaveStep ==
  ASSUME Inv, TypeOK', NEW r \in Reqs, NEW i \in Ids, NEW l \in Slot,
         req[r].pc \in {"loaded", "valid"}, req[r].op \in Mutators, Free(r),
         BeginSave(r, i, l)
  PROVE  Inv'
<1> DEFINE p == ProcOf[r]
<1> USE DEF Inv
<1>1. p \in Procs /\ Mutating(r) /\ mu[p] = NoReq /\ up[p]
  BY ConstantsAssumption DEF Mutating, Free
<1>2. \A q \in Reqs : ~Holding(q)
  <2> SUFFICES ASSUME NEW q \in Reqs, Holding(q) PROVE FALSE
    OBVIOUS
  <2>1. ProcOf[q] = p /\ mu[p] = q
    BY <1>1, Holder DEF OneSide
  <2> QED BY <1>1, <2>1, ConstantsAssumption
<1>3. /\ UNCHANGED <<now, up, file, mode, owner, unsaved>>
      /\ mu' = [mu EXCEPT ![p] = r]
      /\ promised' = [promised EXCEPT ![i] = promised'[i]]
      /\ promised'[i] \in {NoPromise, Pending}
  BY DEF BeginSave, TypeOK
<1>4. /\ req'[r].pc = "saving" /\ req'[r].id = i /\ req'[r].link = l
      /\ req'[r].op = req[r].op
      /\ \A q \in Reqs : q # r => req'[q] = req[q]
  BY DEF BeginSave, TypeOK, Request
<1>5. /\ \A q \in Reqs : Mutating(q)' <=> Mutating(q)
      /\ \A q \in Reqs : Holding(q)' <=> q = r
      /\ \A q \in Reqs : req[q].pc # "renamed" /\ req'[q].pc # "renamed"
  BY <1>1, <1>2, <1>4 DEF Mutating, Holding
<1>6. \A x : Expired(x)' <=> Expired(x)
  BY <1>3 DEF Expired
<1>7. /\ \A j \in Ids : j # i => Covers(mem'[p][j], mem[p][j])
      /\ Covers(mem'[p][i], l)
  <2>1. mem'[p] = Purge([mem[p] EXCEPT ![i] = l])
    BY <1>1 DEF BeginSave, TypeOK
  <2>2. mem[p] \in [Ids -> Slot]
    BY <1>1 DEF TypeOK
  <2> QED BY <2>1, <2>2 DEF Purge, Covers
<1>8. MutexInv'
  <2> SUFFICES ASSUME NEW q \in Reqs
               PROVE  /\ Holding(q)' <=> mu'[ProcOf[q]] = q
                      /\ req'[q].pc # "idle" => up'[ProcOf[q]]
                      /\ Holding(q)' \/ req'[q].pc = "valid" => req'[q].op \in Mutators
    BY DEF MutexInv
  <2>1. CASE q = r
    BY <1>1, <1>3, <1>4, <1>5, <2>1 DEF TypeOK
  <2>2. CASE q # r
    <3>1. mu'[ProcOf[q]] # q
      BY <1>1, <1>2, <1>3, <2>2, ConstantsAssumption DEF MutexInv, TypeOK
    <3> QED BY <1>2, <1>3, <1>4, <1>5, <2>2, <3>1 DEF MutexInv
  <2> QED BY <2>1, <2>2
<1>9. OneSide'
  BY <1>5 DEF OneSide
<1>10. WindowInv'
  BY <1>3, <1>5 DEF WindowInv
<1>11. Agree'
  <2> SUFFICES ASSUME NEW q \in Reqs, Mutating(q), NEW j \in Ids, j # i
               PROVE  j \in unsaved[ProcOf[q]] \/ Covers(mem'[ProcOf[q]][j], file[j])
    BY <1>3, <1>4, <1>5, <1>6 DEF Agree, Covers
  <2>1. ProcOf[q] = p
    BY <1>1 DEF OneSide
  <2>2. j \in unsaved[p] \/ Covers(mem[p][j], file[j])
    BY <1>1, <1>2 DEF Agree, Holding
  <2> QED BY <1>7, <2>1, <2>2 DEF Covers
<1>12. Written'
  BY <1>2, <1>4, <1>5, <1>6, <1>7 DEF Written, Covers, Holding
<1>13. \A j \in Ids : promised'[j] \in Link \cup {Gone} =>
         j # i /\ promised'[j] = promised[j]
  BY <1>3, ConstantsAssumption DEF TypeOK
<1>14. Undisturbed'
  BY <1>3, <1>4, <1>5, <1>13 DEF Undisturbed
<1>15. NoDataLoss' /\ DeletedStaysDeleted'
  BY <1>3, <1>6, <1>13 DEF NoDataLoss, DeletedStaysDeleted
<1> QED BY <1>8, <1>9, <1>10, <1>11, <1>12, <1>14, <1>15

(* A save that fails before its rename. *)
LEMMA SaveFailsStep ==
  ASSUME Inv, TypeOK', NEW r \in Reqs, SaveFails(r)
  PROVE  Inv'
<1> DEFINE p == ProcOf[r]
           i == req[r].id
<1> USE DEF Inv
<1>1. /\ Holding(r) /\ req[r].pc = "saving"
      /\ UNCHANGED <<now, up, mem, file, mode, owner, promised>>
  BY DEF SaveFails, Holding
<1>2. /\ Mutating(r) /\ i \in Ids /\ p \in Procs /\ mu[p] = r
      /\ \A q \in Reqs : Holding(q) => q = r
  BY <1>1, Holder
<1>3. /\ mu' = [mu EXCEPT ![p] = NoReq]
      /\ unsaved' = [unsaved EXCEPT ![p] = @ \cup {i}]
      /\ req'[r] = Idle
      /\ \A q \in Reqs : q # r => req'[q] = req[q]
  BY DEF SaveFails, Unlock, Finish, TypeOK
<1>4. /\ \A q \in Reqs : Mutating(q)' => Mutating(q) /\ q # r
      /\ \A q \in Reqs : ~Holding(q)'
  BY <1>2, <1>3 DEF Mutating, Holding, Idle
<1>5. \A x : Expired(x)' <=> Expired(x)
  BY <1>1 DEF Expired
<1>6. MutexInv'
  <2> SUFFICES ASSUME NEW q \in Reqs
               PROVE  /\ mu'[ProcOf[q]] # q
                      /\ req'[q].pc # "idle" => up'[ProcOf[q]]
                      /\ req'[q].pc = "valid" => req'[q].op \in Mutators
    BY <1>4 DEF MutexInv
  <2>1. mu'[ProcOf[q]] # q
    BY <1>2, <1>3, ConstantsAssumption DEF MutexInv, TypeOK
  <2> QED BY <1>1, <1>3, <2>1 DEF MutexInv, Idle
<1>7. OneSide'
  BY <1>4 DEF OneSide
<1>8. WindowInv'
  BY <1>1, <1>2, <1>4 DEF WindowInv, Holding
<1>9. Agree'
  <2> SUFFICES ASSUME NEW q \in Reqs, Mutating(q), q # r, NEW j \in Ids
               PROVE  j \in unsaved'[ProcOf[q]] \/ Covers(mem[ProcOf[q]][j], file[j])
    BY <1>1, <1>4, <1>5 DEF Agree, Covers
  <2>1. ProcOf[q] = p
    BY <1>2 DEF OneSide
  <2>2. unsaved'[p] = unsaved[p] \cup {i}
    BY <1>2, <1>3 DEF TypeOK
  <2>3. \A x \in Reqs : req[x].pc = "saving" => x = r
    BY <1>2 DEF Holding
  <2> QED BY <2>1, <2>2, <2>3 DEF Agree
<1>10. Written'
  BY <1>4 DEF Written, Holding
<1>11. Undisturbed'
  <2> SUFFICES ASSUME NEW j \in Ids, promised[j] \in Link \cup {Gone},
                      NEW q \in Reqs, Mutating(q), q # r
               PROVE  j \notin unsaved'[ProcOf[q]]
    BY <1>1, <1>4 DEF Undisturbed
  <2>1. unsaved'[p] = unsaved[p] \cup {i}
    BY <1>2, <1>3 DEF TypeOK
  <2>2. ProcOf[q] = p /\ j # i /\ j \notin unsaved[p]
    BY <1>1, <1>2 DEF OneSide, Undisturbed
  <2> QED BY <2>1, <2>2
<1>12. NoDataLoss' /\ DeletedStaysDeleted'
  BY <1>1, <1>5 DEF NoDataLoss, DeletedStaysDeleted
<1> QED BY <1>6, <1>7, <1>8, <1>9, <1>10, <1>11, <1>12

(* The rename: the file becomes the memory, which agrees with what the file *)
(* held for every promised link.                                            *)
LEMMA RenameStep ==
  ASSUME Inv, TypeOK', NEW r \in Reqs, Rename(r)
  PROVE  Inv'
<1> DEFINE p == ProcOf[r]
           i == req[r].id
<1> USE DEF Inv
<1>1. /\ Holding(r) /\ req[r].pc = "saving"
      /\ UNCHANGED <<now, up, mem, mu, promised>>
      /\ file' = mem[p] /\ owner' = p
  BY DEF Rename, Marshalled, Holding
<1>2. /\ Mutating(r) /\ i \in Ids /\ p \in Procs /\ mu[p] = r
      /\ \A q \in Reqs : Holding(q) => q = r
  BY <1>1, Holder
<1>3. /\ unsaved' = [unsaved EXCEPT ![p] = {}]
      /\ req'[r] = [req[r] EXCEPT !.pc = "renamed"]
      /\ \A q \in Reqs : q # r => req'[q] = req[q]
  BY DEF Rename, Goto, TypeOK
<1>4. /\ req'[r].pc = "renamed" /\ req'[r].id = i /\ req'[r].op = req[r].op
      /\ req'[r].link = req[r].link
  BY <1>3 DEF TypeOK, Request
<1>5. /\ \A q \in Reqs : Mutating(q)' <=> Mutating(q)
      /\ \A q \in Reqs : Holding(q)' <=> q = r
      /\ \A q \in Reqs : req'[q].pc # "saving"
  BY <1>1, <1>2, <1>3, <1>4 DEF Mutating, Holding
<1>6. \A x : Expired(x)' <=> Expired(x)
  BY <1>1 DEF Expired
<1>7. MutexInv'
  <2> SUFFICES ASSUME NEW q \in Reqs
               PROVE  /\ Holding(q)' <=> mu[ProcOf[q]] = q
                      /\ req'[q].pc # "idle" => up[ProcOf[q]]
                      /\ Holding(q)' \/ req'[q].pc = "valid" => req'[q].op \in Mutators
    BY <1>1 DEF MutexInv
  <2>1. Holding(q)' <=> mu[ProcOf[q]] = q
    BY <1>1, <1>2, <1>5 DEF MutexInv
  <2>2. CASE q = r
    BY <1>1, <1>4, <2>1, <2>2 DEF MutexInv
  <2>3. CASE q # r
    BY <1>3, <1>5, <2>1, <2>3 DEF MutexInv
  <2> QED BY <2>2, <2>3
<1>8. OneSide'
  BY <1>5 DEF OneSide
<1>9. WindowInv'
  BY <1>1, <1>4, <1>5 DEF WindowInv, Holding
<1>10. Agree'
  <2> SUFFICES ASSUME NEW q \in Reqs, Mutating(q), NEW j \in Ids
               PROVE  mem'[ProcOf[q]][j] = file'[j]
    BY <1>5 DEF Agree, Covers
  <2>1. ProcOf[q] = p
    BY <1>2 DEF OneSide
  <2> QED BY <1>1, <2>1
<1>11. Written'
  <2>1. Covers(mem[p][i], req[r].link)
    BY <1>1 DEF Written
  <2>2. unsaved'[p] = {} /\ file'[i] = mem[p][i]
    BY <1>1, <1>2, <1>3 DEF TypeOK
  <2>3. \A q \in Reqs : req'[q].pc = "renamed" => q = r
    BY <1>5 DEF Holding
  <2> QED BY <1>4, <1>5, <1>6, <2>1, <2>2, <2>3 DEF Written, Covers
<1>12. \A j \in Ids : promised[j] \in Link \cup {Gone} =>
         j # i /\ Covers(file'[j], file[j])
  <2> SUFFICES ASSUME NEW j \in Ids, promised[j] \in Link \cup {Gone}
               PROVE  j # i /\ Covers(file'[j], file[j])
    OBVIOUS
  <2>1. j # i /\ j \notin unsaved[p]
    BY <1>1, <1>2 DEF Undisturbed
  <2>2. \A q \in Reqs : req[q].pc = "saving" => req[q].id = i
    BY <1>2 DEF Holding
  <2> QED BY <1>1, <1>2, <2>1, <2>2 DEF Agree
<1>13. Undisturbed'
  <2> SUFFICES ASSUME NEW j \in Ids, promised[j] \in Link \cup {Gone},
                      NEW q \in Reqs
               PROVE  /\ Mutating(q) => j \notin unsaved'[ProcOf[q]]
                      /\ q = r => req'[q].id # j
    BY <1>1, <1>5 DEF Undisturbed
  <2>1. Mutating(q) => ProcOf[q] = p
    BY <1>2 DEF OneSide
  <2> QED BY <1>2, <1>3, <1>4, <1>12, <2>1 DEF TypeOK
<1>14. NoDataLoss'
  BY <1>1, <1>6, <1>12 DEF NoDataLoss, Covers
<1>15. DeletedStaysDeleted'
  BY <1>1, <1>12 DEF DeletedStaysDeleted, Covers
<1> QED BY <1>7, <1>8, <1>9, <1>10, <1>11, <1>13, <1>14, <1>15

(* The chmod, with which the request is answered and its promise made. *)
LEMMA ChmodStep ==
  ASSUME Inv, TypeOK', NEW r \in Reqs, Chmod(r)
  PROVE  Inv'
<1> DEFINE p == ProcOf[r]
           i == req[r].id
<1> USE DEF Inv
<1>1. /\ Holding(r) /\ req[r].pc = "renamed"
      /\ UNCHANGED <<now, up, mem, file, owner, unsaved>>
      /\ mode' = "0640"
  BY DEF Chmod, Holding
<1>2. /\ Mutating(r) /\ i \in Ids /\ p \in Procs /\ mu[p] = r
      /\ req[r].link \in Slot
      /\ \A q \in Reqs : Holding(q) => q = r
  BY <1>1, Holder
<1>3. /\ mu' = [mu EXCEPT ![p] = NoReq]
      /\ \A q \in Reqs : q # r => req'[q] = req[q]
      /\ \A j \in Ids : j # i => promised'[j] = promised[j]
      /\ promised'[i] \in {NoPromise, IF req[r].link = NoLink THEN Gone ELSE req[r].link}
  BY <1>2 DEF Chmod, Unlock, Finish, Goto, TypeOK
<1>4. req'[r].pc \in {"idle", "reread"}
  BY DEF Chmod, Finish, Goto, TypeOK, Idle, Request
<1>5. /\ \A q \in Reqs : Mutating(q)' => Mutating(q)
      /\ \A q \in Reqs : ~Holding(q)'
  BY <1>2, <1>3, <1>4 DEF Mutating, Holding
<1>6. \A x : Expired(x)' <=> Expired(x)
  BY <1>1 DEF Expired
<1>7. MutexInv'
  <2> SUFFICES ASSUME NEW q \in Reqs
               PROVE  /\ mu'[ProcOf[q]] # q
                      /\ req'[q].pc # "idle" => up'[ProcOf[q]]
                      /\ req'[q].pc = "valid" => req'[q].op \in Mutators
    BY <1>5 DEF MutexInv
  <2>1. mu'[ProcOf[q]] # q
    BY <1>2, <1>3, ConstantsAssumption DEF MutexInv, TypeOK
  <2>2. CASE q = r
    BY <1>1, <1>4, <2>1, <2>2 DEF MutexInv
  <2>3. CASE q # r
    BY <1>1, <1>3, <2>1, <2>3 DEF MutexInv
  <2> QED BY <2>2, <2>3
<1>8. OneSide'
  BY <1>5 DEF OneSide
<1>9. WindowInv'
  BY <1>1, <1>5 DEF WindowInv, Holding
<1>10. Agree'
  <2>1. \A q \in Reqs : req[q].pc # "saving"
    BY <1>1, <1>2 DEF Holding
  <2> QED BY <1>1, <1>5, <1>6, <2>1 DEF Agree, Covers
<1>11. Written'
  BY <1>5 DEF Written, Holding
<1>12. Covers(file[i], req[r].link) /\ unsaved[p] = {}
  BY <1>1 DEF Written
<1>13. Undisturbed'
  <2> SUFFICES ASSUME NEW j \in Ids, promised'[j] \in Link \cup {Gone},
                      NEW q \in Reqs, Mutating(q)
               PROVE  j \notin unsaved[ProcOf[q]]
    BY <1>1, <1>5 DEF Undisturbed
  <2>1. ProcOf[q] = p
    BY <1>2 DEF OneSide
  <2> QED BY <1>12, <2>1
<1>14. NoDataLoss'
  <2> SUFFICES ASSUME NEW j \in Ids, promised'[j] \in Link
               PROVE  file[j] = promised'[j] \/ Expired(promised'[j])
    BY <1>1, <1>6 DEF NoDataLoss
  <2>1. CASE j # i
    BY <1>3, <2>1 DEF NoDataLoss
  <2>2. CASE j = i
    <3>1. promised'[i] = req[r].link
      BY <1>3, <2>2, ConstantsAssumption
    <3> QED BY <1>12, <2>2, <3>1 DEF Covers
  <2> QED BY <2>1, <2>2
<1>15. DeletedStaysDeleted'
  <2> SUFFICES ASSUME NEW j \in Ids, promised'[j] = Gone PROVE file[j] = NoLink
    BY <1>1 DEF DeletedStaysDeleted
  <2>1. CASE j # i
    BY <1>3, <2>1 DEF DeletedStaysDeleted
  <2>2. CASE j = i
    <3>1. req[r].link = NoLink
      BY <1>2, <1>3, <2>2, ConstantsAssumption DEF Slot
    <3> QED BY <1>12, <2>2, <3>1 DEF Covers
  <2> QED BY <2>1, <2>2
<1> QED BY <1>7, <1>8, <1>9, <1>10, <1>11, <1>13, <1>14, <1>15

(* A chmod that fails: only where there is a single process, which can read *)
(* its own file in any mode.                                                *)
LEMMA ChmodFailsStep ==
  ASSUME Serial, Inv, TypeOK', NEW r \in Reqs, ChmodFails(r)
  PROVE  Inv'
<1> DEFINE p == ProcOf[r]
<1> USE DEF Inv
<1>1. /\ Holding(r) /\ req[r].pc = "renamed"
      /\ UNCHANGED <<now, up, mem, file, mode, owner, unsaved, promised>>
  BY DEF ChmodFails, Holding
<1>2. /\ Mutating(r) /\ p \in Procs /\ mu[p] = r
      /\ \A q \in Reqs : Holding(q) => q = r
  BY <1>1, Holder
<1>3. /\ mu' = [mu EXCEPT ![p] = NoReq]
      /\ \A q \in Reqs : q # r => req'[q] = req[q]
      /\ req'[r] = Idle
  BY DEF ChmodFails, Unlock, Finish, TypeOK
<1>4. OneProcess
  BY <1>1 DEF ChmodFails, MayChmod, WindowInv, Serial
<1>5. /\ \A q \in Reqs : Mutating(q)' => Mutating(q)
      /\ \A q \in Reqs : ~Holding(q)'
  BY <1>2, <1>3 DEF Mutating, Holding, Idle
<1>6. \A x : Expired(x)' <=> Expired(x)
  BY <1>1 DEF Expired
<1>7. MutexInv'
  <2> SUFFICES ASSUME NEW q \in Reqs
               PROVE  /\ mu'[ProcOf[q]] # q
                      /\ req'[q].pc # "idle" => up'[ProcOf[q]]
                      /\ req'[q].pc = "valid" => req'[q].op \in Mutators
    BY <1>5 DEF MutexInv
  <2>1. mu'[ProcOf[q]] # q
    BY <1>2, <1>3, ConstantsAssumption DEF MutexInv, TypeOK
  <2> QED BY <1>1, <1>3, <2>1 DEF MutexInv, Idle
<1>8. OneSide'
  BY <1>5 DEF OneSide
<1>9. WindowInv'
  BY <1>4, <1>5 DEF WindowInv, Holding
<1>10. Agree'
  <2>1. \A q \in Reqs : req[q].pc # "saving"
    BY <1>1, <1>2 DEF Holding
  <2> QED BY <1>1, <1>5, <1>6, <2>1 DEF Agree, Covers
<1>11. Written' /\ Undisturbed'
  BY <1>1, <1>5 DEF Written, Undisturbed, Holding
<1>12. NoDataLoss' /\ DeletedStaysDeleted'
  BY <1>1, <1>6 DEF NoDataLoss, DeletedStaysDeleted
<1> QED BY <1>7, <1>8, <1>9, <1>10, <1>11, <1>12

(* The reload with which every request starts: a request that will change *)
(* links finds the file readable and starts from exactly what it holds.   *)
LEMMA ReloadStep ==
  ASSUME Serial, Inv, TypeOK', NEW r \in Reqs, Reload(r)
  PROVE  Inv'
<1> DEFINE p == ProcOf[r]
<1> USE DEF Inv
<1>1. /\ p \in Procs /\ req[r].pc = "idle" /\ mu[p] = NoReq /\ up[p]
      /\ UNCHANGED <<now, up, mu, file, mode, owner, promised>>
      /\ mem' = IF CanRead(p) THEN [mem EXCEPT ![p] = file] ELSE mem
      /\ unsaved' = IF CanRead(p) THEN [unsaved EXCEPT ![p] = {}] ELSE unsaved
  BY ConstantsAssumption DEF Reload, Load, Free
<1>2. /\ req'[r].pc = "loaded"
      /\ \A q \in Reqs : q # r => req'[q] = req[q]
      /\ Exclusive /\ req'[r].op \in Mutators =>
           \A q \in Reqs : ProcOf[q] # p => ~Mutating(q)
  BY DEF Reload, TypeOK, Idle
<1>3. \A q \in Reqs : ProcOf[q] = p => ~Holding(q)
  BY <1>1, ConstantsAssumption DEF MutexInv
<1>4. /\ \A q \in Reqs : q # r => (Mutating(q)' <=> Mutating(q))
      /\ \A q \in Reqs : Holding(q)' <=> Holding(q)
      /\ \A q \in Reqs : Holding(q) => req'[q] = req[q]
      /\ Mutating(r)' <=> req'[r].op \in Mutators
  BY <1>1, <1>2 DEF Mutating, Holding
<1>5. Mutating(r)' => \A q \in Reqs : Mutating(q) => ProcOf[q] = p
  BY <1>1, <1>2, <1>4, ConstantsAssumption DEF Serial, OneProcess
<1>6. Mutating(r)' => CanRead(p)
  <2> SUFFICES ASSUME Mutating(r)', ~OneProcess, mode = "0600" PROVE FALSE
    BY <1>1 DEF CanRead, TypeOK, OneProcess
  <2>1. PICK q \in Reqs : req[q].pc = "renamed"
    BY DEF WindowInv
  <2>2. Mutating(q) /\ ProcOf[q] # p
    BY <1>3, <2>1, Holder DEF Holding
  <2> QED BY <1>5, <2>2
<1>7. \A x : Expired(x)' <=> Expired(x)
  BY <1>1 DEF Expired
<1>8. MutexInv'
  <2> SUFFICES ASSUME NEW q \in Reqs
               PROVE  /\ Holding(q)' <=> mu[ProcOf[q]] = q
                      /\ req'[q].pc # "idle" => up[ProcOf[q]]
                      /\ Holding(q)' \/ req'[q].pc = "valid" => req'[q].op \in Mutators
    BY <1>1 DEF MutexInv
  <2>1. CASE q = r
    BY <1>1, <1>2, <1>3, <1>4, <2>1, ConstantsAssumption DEF MutexInv
  <2>2. CASE q # r
    BY <1>2, <1>4, <2>2 DEF MutexInv
  <2> QED BY <2>1, <2>2
<1>9. OneSide'
  BY <1>4, <1>5 DEF OneSide
<1>10. WindowInv'
  <2>1. \A q \in Reqs : req'[q].pc = "renamed" <=> req[q].pc = "renamed"
    BY <1>1, <1>2
  <2> QED BY <1>1, <2>1 DEF WindowInv
<1>11. Agree'
  <2> SUFFICES ASSUME NEW q \in Reqs, Mutating(q)', NEW j \in Ids
               PROVE  \/ j \in unsaved'[ProcOf[q]]
                      \/ \E x \in Reqs : req'[x].pc = "saving" /\ req'[x].id = j
                      \/ Covers(mem'[ProcOf[q]][j], file[j])
    BY <1>1, <1>7 DEF Agree, Covers
  <2>1. CASE ProcOf[q] = p /\ CanRead(p)
    BY <1>1, <2>1 DEF Covers, TypeOK
  <2>2. CASE ~(ProcOf[q] = p /\ CanRead(p))
    <3>1. q # r
      BY <1>6, <2>2
    <3>2. mem'[ProcOf[q]] = mem[ProcOf[q]] /\ unsaved'[ProcOf[q]] = unsaved[ProcOf[q]]
      BY <1>1, <2>2, ConstantsAssumption DEF TypeOK
    <3>3. \A x \in Reqs : req[x].pc = "saving" => req'[x] = req[x]
      BY <1>4 DEF Holding
    <3> QED BY <1>4, <3>1, <3>2, <3>3 DEF Agree
  <2> QED BY <2>1, <2>2
<1>12. Written'
  <2> SUFFICES ASSUME NEW q \in Reqs, Holding(q)
               PROVE  /\ req'[q] = req[q]
                      /\ mem'[ProcOf[q]] = mem[ProcOf[q]]
                      /\ unsaved'[ProcOf[q]] = unsaved[ProcOf[q]]
    BY <1>1, <1>4, <1>7 DEF Written, Covers, Holding
  <2> QED BY <1>1, <1>3, <1>4, ConstantsAssumption DEF TypeOK
<1>13. Undisturbed'
  <2> SUFFICES ASSUME NEW j \in Ids, promised[j] \in Link \cup {Gone}, NEW q \in Reqs
               PROVE  /\ Mutating(q)' => j \notin unsaved'[ProcOf[q]]
                      /\ Holding(q) => req'[q].id # j
    BY <1>1, <1>4 DEF Undisturbed
  <2>1. Mutating(q)' => j \notin unsaved'[ProcOf[q]]
    <3>1. CASE ProcOf[q] = p /\ CanRead(p)
      BY <1>1, <3>1 DEF TypeOK
    <3>2. CASE ~(ProcOf[q] = p /\ CanRead(p))
      <4>1. Mutating(q)' => Mutating(q)
        BY <1>4, <1>6, <3>2
      <4>2. unsaved'[ProcOf[q]] = unsaved[ProcOf[q]]
        BY <1>1, <3>2, ConstantsAssumption DEF TypeOK
      <4> QED BY <4>1, <4>2 DEF Undisturbed
    <3> QED BY <3>1, <3>2
  <2> QED BY <1>4, <2>1 DEF Undisturbed
<1>14. NoDataLoss' /\ DeletedStaysDeleted'
  BY <1>1, <1>7 DEF NoDataLoss, DeletedStaysDeleted
<1> QED BY <1>8, <1>9, <1>10, <1>11, <1>12, <1>13, <1>14

(* A crash and a restart: the requests of the process are gone, the file *)
(* stays.                                                                 *)
LEMMA CrashStep ==
  ASSUME Serial, Inv, TypeOK', NEW p \in Procs, Crash(p)
  PROVE  Inv'
<1> USE DEF Inv
<1>1. /\ UNCHANGED <<now, file, mode, owner, promised>>
      /\ \A q \in Reqs : ProcOf[q] = p => req'[q] = Idle
      /\ \A q \in Reqs : ProcOf[q] # p => req'[q] = req[q]
  BY DEF Crash
<1>2. \A q \in Procs : q # p =>
        up'[q] = up[q] /\ mem'[q] = mem[q] /\ mu'[q] = mu[q] /\ unsaved'[q] = unsaved[q]
  BY DEF Crash, TypeOK
<1>3. \A q \in Reqs : ProcOf[q] \in Procs
  BY ConstantsAssumption
<1>4. /\ \A q \in Reqs : Mutating(q)' => Mutating(q) /\ ProcOf[q] # p
      /\ \A q \in Reqs : Holding(q)' <=> Holding(q) /\ ProcOf[q] # p
  BY <1>1 DEF Mutating, Holding, Idle
<1>5. \A x : Expired(x)' <=> Expired(x)
  BY <1>1 DEF Expired
<1>6. MutexInv'
  <2> SUFFICES ASSUME NEW q \in Reqs
               PROVE  /\ Holding(q)' <=> mu'[ProcOf[q]] = q
                      /\ req'[q].pc # "idle" => up'[ProcOf[q]]
                      /\ Holding(q)' \/ req'[q].pc = "valid" => req'[q].op \in Mutators
    BY DEF MutexInv
  <2>1. CASE ProcOf[q] = p
    <3>1. mu'[p] = NoReq
      BY DEF Crash, TypeOK
    <3> QED BY <1>1, <1>4, <2>1, <3>1, ConstantsAssumption DEF Idle
  <2>2. CASE ProcOf[q] # p
    BY <1>1, <1>2, <1>3, <1>4, <2>2 DEF MutexInv
  <2> QED BY <2>1, <2>2
<1>7. OneSide'
  BY <1>4 DEF OneSide
<1>8. WindowInv'
  <2>1. \A q \in Reqs : req[q].pc = "renamed" /\ ~OneProcess => req'[q] = req[q]
    BY <1>1 DEF Crash, Serial
  <2>2. \A q \in Reqs : req'[q].pc = "renamed" => req[q].pc = "renamed"
    BY <1>1 DEF Idle
  <2> QED BY <1>1, <2>1, <2>2 DEF WindowInv
<1>9. Agree'
  <2> SUFFICES ASSUME NEW q \in Reqs, Mutating(q), ProcOf[q] # p, NEW j \in Ids
               PROVE  \/ j \in unsaved'[ProcOf[q]]
                      \/ \E x \in Reqs : req'[x].pc = "saving" /\ req'[x].id = j
                      \/ Covers(mem'[ProcOf[q]][j], file[j])
    BY <1>1, <1>4, <1>5 DEF Agree, Covers
  <2>1. \A x \in Reqs : req[x].pc = "saving" => req'[x] = req[x]
    <3> SUFFICES ASSUME NEW x \in Reqs, req[x].pc = "saving" PROVE ProcOf[x] # p
      BY <1>1
    <3> QED BY Holder DEF Holding, OneSide
  <2> QED BY <1>2, <1>3, <2>1 DEF Agree
<1>10. Written'
  BY <1>1, <1>2, <1>3, <1>4, <1>5 DEF Written, Covers, Holding
<1>11. Undisturbed'
  BY <1>1, <1>2, <1>3, <1>4 DEF Undisturbed
<1>12. NoDataLoss' /\ DeletedStaysDeleted'
  BY <1>1, <1>5 DEF NoDataLoss, DeletedStaysDeleted
<1> QED BY <1>6, <1>7, <1>8, <1>9, <1>10, <1>11, <1>12

(* A restarted process loads the file and has no request under way. *)
LEMMA RestartStep ==
  ASSUME Inv, TypeOK', NEW p \in Procs, Restart(p)
  PROVE  Inv'
<1> USE DEF Inv
<1>1. UNCHANGED <<now, mu, file, mode, owner, req, promised>>
  BY DEF Restart
<1>2. /\ \A q \in Reqs : req[q].pc # "idle" => ProcOf[q] # p
      /\ \A q \in Procs : q # p => /\ up'[q] = up[q] /\ mem'[q] = mem[q]
                                   /\ unsaved'[q] = unsaved[q]
      /\ \A q \in Reqs : ProcOf[q] \in Procs
  BY ConstantsAssumption DEF Restart, Load, MutexInv, TypeOK
<1>3. /\ \A q \in Reqs : (Mutating(q)' <=> Mutating(q)) /\ (Mutating(q) => ProcOf[q] # p)
      /\ \A q \in Reqs : (Holding(q)' <=> Holding(q)) /\ (Holding(q) => ProcOf[q] # p)
  BY <1>1, <1>2 DEF Mutating, Holding
<1>4. \A x : Expired(x)' <=> Expired(x)
  BY <1>1 DEF Expired
<1>5. MutexInv'
  BY <1>1, <1>2, <1>3 DEF MutexInv
<1>6. OneSide' /\ WindowInv' /\ Undisturbed'
  BY <1>1, <1>2, <1>3 DEF OneSide, WindowInv, Undisturbed
<1>7. Agree'
  BY <1>1, <1>2, <1>3, <1>4 DEF Agree, Covers
<1>8. Written'
  BY <1>1, <1>2, <1>3, <1>4 DEF Written, Covers, Holding
<1>9. NoDataLoss' /\ DeletedStaysDeleted'
  BY <1>1, <1>4 DEF NoDataLoss, DeletedStaysDeleted
<1> QED BY <1>5, <1>6, <1>7, <1>8, <1>9

(* Every step preserves the inductive invariant. *)
LEMMA InvStep ==
  ASSUME Serial, Inv, [Next]_vars
  PROVE  Inv'
<1>t. TypeOK'
  BY TypeStep DEF Inv
<1>i. Idle \in Request
  BY DEF Idle, Request, Slot, Promise, MaxTries
<1>r. \A r \in Reqs : req[r] \in Request
  BY DEF Inv, TypeOK
<1>f. ASSUME NEW r \in Reqs, Finish(r), ~Holding(r),
             UNCHANGED <<now, up, mem, mu, file, mode, owner, unsaved, promised>>
      PROVE  Inv'
  <2>1. req' = [req EXCEPT ![r] = Idle] /\ Idle.pc = "idle"
    BY <1>f DEF Finish, Idle
  <2> HIDE DEF Idle
  <2> QED BY <1>f, <1>t, <1>i, <2>1, QuietStep
<1>1. ASSUME NEW r \in Reqs, Reload(r) PROVE Inv'
  BY <1>1, <1>t, ReloadStep
<1>2. ASSUME NEW r \in Reqs, Reject(r) PROVE Inv'
  BY <1>2, <1>f DEF Reject, Holding
<1>3. ASSUME NEW r \in Reqs, Validate(r) PROVE Inv'
  <2>1. PICK l \in Link :
          req' = [req EXCEPT ![r] = [req[r] EXCEPT !.pc = "valid", !.link = l]]
    BY <1>3 DEF Validate
  <2> DEFINE new == [req[r] EXCEPT !.pc = "valid", !.link = l]
  <2>2. new \in Request
    BY <1>r, RequestFields DEF Slot
  <2>3. new.pc = "valid" /\ new.op = "create" /\ req[r].op = "create"
    BY <1>3, <1>r DEF Validate, Request
  <2>4. ~Holding(r) /\ req[r].pc # "idle"
    BY <1>3 DEF Validate, Holding
  <2>5. UNCHANGED <<now, up, mem, mu, file, mode, owner, unsaved, promised>>
    BY <1>3 DEF Validate
  <2> HIDE DEF new
  <2> QED BY <1>t, <2>1, <2>2, <2>3, <2>4, <2>5, QuietStep DEF new, Mutators
<1>4. ASSUME NEW r \in Reqs, Create(r) PROVE Inv'
  <2>1. PICK i \in Ids : BeginSave(r, i, req[r].link)
    BY <1>4 DEF Create
  <2>2. req[r].link \in Slot
    BY <1>r, RequestFields
  <2> QED BY <1>4, <1>t, <2>1, <2>2, BeginSaveStep DEF Create, Mutators
<1>5. ASSUME NEW r \in Reqs, CreateCollides(r) PROVE Inv'
  <2>0. /\ ~Holding(r) /\ req[r].pc = "valid" /\ req[r].op = "create"
        /\ UNCHANGED <<now, up, mem, mu, file, mode, owner, unsaved, promised>>
    BY <1>5 DEF CreateCollides, Holding
  <2>1. CASE req' = [req EXCEPT ![r].tries = @ + 1]
    <3> DEFINE new == [req[r] EXCEPT !.tries = @ + 1]
    <3>1. req' = [req EXCEPT ![r] = new]
      BY <2>1
    <3>2. new \in Request
      BY <1>t, <3>1 DEF TypeOK, Inv
    <3>3. new.pc = "valid" /\ new.op = "create"
      BY <1>r, <2>0 DEF Request
    <3> HIDE DEF new
    <3> QED BY <1>t, <2>0, <3>1, <3>2, <3>3, QuietStep DEF Mutators
  <2>2. CASE Finish(r)
    BY <1>f, <2>0, <2>2
  <2> QED BY <1>5, <2>1, <2>2 DEF CreateCollides
<1>6. ASSUME NEW r \in Reqs, Patch(r) PROVE Inv'
  <2>1. PICK l \in Link : BeginSave(r, req[r].id, l)
    BY <1>6 DEF Patch
  <2>2. req[r].id \in Ids /\ l \in Slot
    BY <1>6, <1>r, RequestFields DEF Patch, Inv, TypeOK, Slot
  <2> QED BY <1>6, <1>t, <2>1, <2>2, BeginSaveStep DEF Patch, Mutators
<1>7. ASSUME NEW r \in Reqs, PatchMissing(r) PROVE Inv'
  BY <1>7, <1>f DEF PatchMissing, Holding
<1>8. ASSUME NEW r \in Reqs, Delete(r) PROVE Inv'
  <2>1. req[r].id \in Ids /\ NoLink \in Slot
    BY <1>8, <1>r, RequestFields DEF Delete, Inv, TypeOK, Slot
  <2> QED BY <1>8, <1>t, <2>1, BeginSaveStep DEF Delete, Mutators
<1>9. ASSUME NEW r \in Reqs, SaveFails(r) PROVE Inv'
  BY <1>9, <1>t, SaveFailsStep
<1>10. ASSUME NEW r \in Reqs, Rename(r) PROVE Inv'
  BY <1>10, <1>t, RenameStep
<1>11. ASSUME NEW r \in Reqs, Chmod(r) PROVE Inv'
  BY <1>11, <1>t, ChmodStep
<1>12. ASSUME NEW r \in Reqs, ChmodFails(r) PROVE Inv'
  BY <1>12, <1>t, ChmodFailsStep
<1>13. ASSUME NEW r \in Reqs, Reread(r) PROVE Inv'
  BY <1>13, <1>f DEF Reread, Holding
<1>14. ASSUME NEW r \in Reqs, View(r) PROVE Inv'
  <2>0. /\ ~Holding(r) /\ req[r].pc = "loaded" /\ req[r].op = "view"
        /\ UNCHANGED <<now, up, mem, mu, file, mode, owner, unsaved, promised>>
    BY <1>14 DEF View, Holding
  <2>1. req' = [req EXCEPT ![r] = req'[r]] /\ req'[r] \in Request
    BY <1>14, <1>t DEF View, Inv, TypeOK
  <2>2. req'[r].pc = "viewed" /\ req'[r].op = req[r].op
    BY <1>14, <1>r DEF View, Inv, TypeOK, Request
  <2> QED BY <1>t, <2>0, <2>1, <2>2, QuietStep
<1>15. ASSUME NEW r \in Reqs, ViewAnswered(r) PROVE Inv'
  BY <1>15, <1>f DEF ViewAnswered, Holding
<1>16. ASSUME NEW p \in Procs, Crash(p) PROVE Inv'
  BY <1>16, <1>t, CrashStep
<1>17. ASSUME NEW p \in Procs, Restart(p) PROVE Inv'
  BY <1>17, <1>t, RestartStep
<1>18. ASSUME Tick PROVE Inv'
  BY <1>18, <1>t, TickStep
<1>19. ASSUME UNCHANGED vars PROVE Inv'
  BY <1>19
     DEF vars, Inv, TypeOK, MutexInv, OneSide, WindowInv, Agree, Written, Undisturbed,
         NoDataLoss, DeletedStaysDeleted, Holding, Mutating, Covers, Expired
<1> QED
  BY <1>1, <1>2, <1>3, <1>4, <1>5, <1>6, <1>7, <1>8, <1>9, <1>10, <1>11, <1>12,
     <1>13, <1>14, <1>15, <1>16, <1>17, <1>18, <1>19 DEF Next, Lock, Proceed

(* The inductive invariant holds at first. *)
LEMMA InitInv ==
  Init => Inv
BY ConstantsAssumption
   DEF Init, Inv, TypeOK, MutexInv, OneSide, WindowInv, Agree, Written, Undisturbed,
       NoDataLoss, DeletedStaysDeleted, Holding, Mutating, Empty, Idle, Request, Slot,
       Promise, MaxTries

(* While saves are serial, an answered create or change stays in links.json *)
(* and an answered delete stays out of it: the read-modify-write of the     *)
(* whole file loses nothing, through failed saves, crashes and restarts.    *)
THEOREM SerialSavesLoseNothing ==
  ASSUME Serial
  PROVE  Spec => [](NoDataLoss /\ DeletedStaysDeleted)
<1>1. Inv /\ [Next]_vars => Inv'
  BY InvStep
<1>2. Inv => NoDataLoss /\ DeletedStaysDeleted
  BY DEF Inv
<1> QED BY <1>1, <1>2, InitInv, PTL DEF Spec

(* While saves are serial, a save that rewrites the whole file changes only *)
(* the link it was asked to change, drops expired ones, and completes       *)
(* changes whose own save had failed.                                       *)
THEOREM SerialSaveTouchesOneLink ==
  ASSUME Serial
  PROVE  Spec => SaveTouchesOneLink
<1> DEFINE A == \A i \in Ids : file'[i] # file[i] =>
       \/ file[i] # NoLink /\ Expired(file[i]) /\ file'[i] = NoLink
       \/ \E r \in Reqs : /\ req[r].pc = "saving" /\ req'[r].pc = "renamed"
                          /\ i = req[r].id \/ i \in unsaved[ProcOf[r]]
<1>1. ASSUME Inv, [Next]_vars PROVE [A]_file
  <2> SUFFICES ASSUME NEW r \in Reqs, Rename(r) PROVE A
    BY <1>1 DEF Next, Lock, Proceed, Reload, Reject, Create, CreateCollides, Patch,
         PatchMissing, Delete, BeginSave, Reread, View, Validate, SaveFails, Chmod,
         ChmodFails, ViewAnswered, Crash, Restart, Tick, vars
  <2>1. Holding(r) /\ req[r].pc = "saving" /\ req'[r].pc = "renamed"
    BY <1>1 DEF Rename, Goto, Holding, Inv, TypeOK, Request
  <2>2. /\ Mutating(r) /\ file' = mem[ProcOf[r]]
        /\ \A q \in Reqs : req[q].pc = "saving" => q = r
    BY <1>1, <2>1, Holder DEF Rename, Marshalled, Holding
  <2>3. ASSUME NEW i \in Ids, i # req[r].id, i \notin unsaved[ProcOf[r]]
        PROVE  Covers(file'[i], file[i])
    BY <1>1, <2>2, <2>3 DEF Inv, Agree
  <2> QED BY <2>1, <2>3 DEF Covers
<1>2. Inv /\ [Next]_vars => Inv'
  BY InvStep
<1> QED BY <1>1, <1>2, InitInv, PTL DEF Spec, SaveTouchesOneLink

(* While saves are serial, an answered delete stays out of links.json until *)
(* its id is drawn again: no save of another link, failed save or restart   *)
(* brings a deleted share back.                                             *)
THEOREM SerialDeletesStay ==
  ASSUME Serial
  PROVE  Spec => []DeletedStaysDeleted
BY SerialSavesLoseNothing, PTL

-----------------------------------------------------------------------------
(* With one process nothing hides the file from it: its memory keeps every *)
(* promise too, between reloads as well as after them.                     *)
MemFresh ==
  \A p \in Procs, i \in Ids : up[p] =>
    /\ promised[i] \in Link => mem[p][i] = promised[i] \/ Expired(promised[i])
    /\ promised[i] = Gone => mem[p][i] = NoLink

(* The memory holds the requested link until the critical section ends. *)
MemWritten ==
  \A r \in Reqs : Holding(r) => Covers(mem[ProcOf[r]][req[r].id], req[r].link)

FreshInv == MemFresh /\ MemWritten /\ FreshView

(* Moving one request, while memory, promises and clock stay, keeps all three *)
(* unless the request starts to save or to show a page.                       *)
LEMMA FreshQuiet ==
  ASSUME Inv, FreshInv, NEW r \in Reqs,
         \A q \in Reqs : q # r => req'[q] = req[q],
         UNCHANGED <<now, mem, promised>>,
         \A p \in Procs : up'[p] => up[p],
         \/ req'[r].pc \notin {"saving", "renamed", "viewed"}
         \/ /\ Holding(r) /\ req'[r].pc = "renamed"
            /\ req'[r].id = req[r].id /\ req'[r].link = req[r].link
  PROVE  FreshInv'
<1>1. \A x : Expired(x)' <=> Expired(x)
  BY DEF Expired
<1>2. MemFresh'
  BY <1>1 DEF FreshInv, MemFresh
<1>3. MemWritten'
  <2> SUFFICES ASSUME NEW q \in Reqs, Holding(q)'
               PROVE  Covers(mem[ProcOf[q]][req'[q].id], req'[q].link)
    BY <1>1 DEF MemWritten, Covers
  <2>1. Holding(q) /\ req'[q].id = req[q].id /\ req'[q].link = req[q].link
    BY DEF Holding
  <2> QED BY <2>1 DEF FreshInv, MemWritten
<1>4. FreshView'
  <2> SUFFICES ASSUME NEW q \in Reqs, req'[q].pc = "viewed"
               PROVE  req[q].pc = "viewed" /\ req'[q] = req[q]
    BY <1>1 DEF FreshInv, FreshView
  <2> QED OBVIOUS
<1> QED BY <1>2, <1>3, <1>4 DEF FreshInv

(* Loading the file into the only process keeps every promise, for the file *)
(* keeps them.                                                              *)
LEMMA LoadFresh ==
  ASSUME OneProcess, Inv, TypeOK', NEW p \in Procs, Load(p),
         UNCHANGED <<now, promised>>
  PROVE  MemFresh'
<1>1. mem'[p] = file
  <2>1. CanRead(p)
    BY DEF CanRead, OneProcess, Inv, TypeOK
  <2> QED BY <2>1 DEF Load, Inv, TypeOK
<1>2. \A x : Expired(x)' <=> Expired(x)
  BY DEF Expired
<1>3. \A q \in Procs : q = p
  BY DEF OneProcess
<1> QED BY <1>1, <1>2, <1>3 DEF MemFresh, Inv, NoDataLoss, DeletedStaysDeleted

(* Starting to save a link withdraws its promise and purges only what has *)
(* expired.                                                               *)
LEMMA BeginSaveFresh ==
  ASSUME Inv, Inv', FreshInv, NEW r \in Reqs, NEW i \in Ids, NEW l \in Slot,
         ~Holding(r), mu[ProcOf[r]] = NoReq, OneProcess, BeginSave(r, i, l)
  PROVE  FreshInv'
<1> DEFINE p == ProcOf[r]
<1>t. TypeOK /\ TypeOK' /\ p \in Procs
  BY ConstantsAssumption DEF Inv, TypeOK
<1>1. \A x : Expired(x)' <=> Expired(x)
  BY DEF Expired, BeginSave
<1>2. /\ mem'[p] = Purge([mem[p] EXCEPT ![i] = l])
      /\ \A q \in Reqs : q # r => req'[q] = req[q]
      /\ req'[r].pc = "saving" /\ req'[r].id = i /\ req'[r].link = l
  <2>1. mem'[p] = Purge([mem[p] EXCEPT ![i] = l])
    BY <1>t DEF BeginSave, TypeOK
  <2>2. \A q \in Reqs : q # r => req'[q] = req[q]
    BY <1>t DEF BeginSave, TypeOK
  <2>3. req'[r].pc = "saving" /\ req'[r].id = i /\ req'[r].link = l
    BY <1>t DEF BeginSave, TypeOK, Request
  <2> QED BY <2>1, <2>2, <2>3
<1>3. \A j \in Ids : j # i => Covers(mem'[p][j], mem[p][j])
  BY <1>t, <1>2 DEF Purge, Covers, TypeOK
<1>4. Covers(mem'[p][i], l)
  BY <1>t, <1>2 DEF Purge, Covers, TypeOK
<1>5. /\ promised'[i] \in {Pending, NoPromise}
      /\ \A j \in Ids : j # i => promised'[j] = promised[j]
      /\ up' = up
  BY <1>t DEF BeginSave, TypeOK
<1>6. MemFresh'
  <2> SUFFICES ASSUME NEW q \in Procs, NEW j \in Ids, up[q]
               PROVE  /\ promised'[j] \in Link =>
                            mem'[q][j] = promised'[j] \/ Expired(promised'[j])
                      /\ promised'[j] = Gone => mem'[q][j] = NoLink
    BY <1>1, <1>5 DEF MemFresh
  <2>0. q = p
    BY <1>t DEF OneProcess
  <2>1. CASE j = i
    BY <1>5, <2>1, ConstantsAssumption
  <2>2. CASE j # i
    BY <1>t, <1>3, <1>5, <2>0, <2>2 DEF FreshInv, MemFresh, Covers
  <2> QED BY <2>1, <2>2
<1>7. MemWritten'
  <2> SUFFICES ASSUME NEW q \in Reqs, Holding(q)'
               PROVE  Covers(mem'[ProcOf[q]][req'[q].id], req'[q].link)
    BY <1>1 DEF MemWritten, Covers
  <2>1. q = r
    <3>1. ProcOf[q] = p
      BY <1>t, ConstantsAssumption DEF OneProcess
    <3>2. q # r => Holding(q)
      BY <1>2 DEF Holding
    <3>3. Holding(q) => mu[p] = q
      BY <3>1 DEF Inv, MutexInv
    <3> QED BY <3>2, <3>3, ConstantsAssumption
  <2> QED BY <1>2, <1>4, <2>1
<1>8. FreshView'
  <2> SUFFICES ASSUME NEW q \in Reqs, req'[q].pc = "viewed"
               PROVE  req[q].pc = "viewed" /\ req'[q] = req[q]
    BY <1>1 DEF FreshInv, FreshView
  <2> QED BY <1>2
<1> QED BY <1>6, <1>7, <1>8 DEF FreshInv

(* Every step of the only process keeps its memory and its pages fresh. *)
LEMMA FreshStep ==
  ASSUME OneProcess, Inv, Inv', FreshInv, [Next]_vars
  PROVE  FreshInv'
<1>t. /\ TypeOK /\ TypeOK'
      /\ \A r \in Reqs : req[r] \in Request /\ ProcOf[r] \in Procs
  BY ConstantsAssumption DEF Inv, TypeOK
<1>f. ASSUME NEW r \in Reqs, Finish(r), UNCHANGED <<now, up, mem, promised>>
      PROVE  FreshInv'
  <2>1. req'[r].pc = "idle" /\ \A q \in Reqs : q # r => req'[q] = req[q]
    BY <1>f, <1>t DEF Finish, Idle, TypeOK
  <2> QED BY <1>f, <2>1, FreshQuiet
<1>1. ASSUME NEW r \in Reqs, Reload(r) PROVE FreshInv'
  <2>1. /\ req[r].pc = "idle" /\ Load(ProcOf[r]) /\ mu[ProcOf[r]] = NoReq
        /\ UNCHANGED <<now, promised>>
        /\ req'[r].pc = "loaded" /\ \A q \in Reqs : q # r => req'[q] = req[q]
    BY <1>1, <1>t DEF Reload, Free, TypeOK, Idle
  <2>2. MemFresh'
    BY <1>t, <2>1, LoadFresh
  <2>3. \A q \in Reqs : ~Holding(q) /\ ~Holding(q)'
    <3> SUFFICES ASSUME NEW q \in Reqs PROVE ~Holding(q)
      BY <2>1 DEF Holding
    <3>1. ProcOf[q] = ProcOf[r]
      BY <1>t DEF OneProcess
    <3> QED BY <2>1, <3>1, ConstantsAssumption DEF Inv, MutexInv
  <2>4. MemWritten'
    BY <2>3 DEF MemWritten
  <2>5. \A x : Expired(x)' <=> Expired(x)
    BY <2>1 DEF Expired
  <2>6. FreshView'
    BY <2>1, <2>5 DEF FreshInv, FreshView
  <2> QED BY <2>2, <2>4, <2>6 DEF FreshInv
<1>2. ASSUME NEW r \in Reqs, Reject(r) PROVE FreshInv'
  BY <1>2, <1>f DEF Reject
<1>3. ASSUME NEW r \in Reqs, Validate(r) PROVE FreshInv'
  <2>1. /\ UNCHANGED <<now, up, mem, promised>>
        /\ req'[r].pc = "valid" /\ \A q \in Reqs : q # r => req'[q] = req[q]
    BY <1>3, <1>t DEF Validate, TypeOK, Request
  <2> QED BY <2>1, FreshQuiet
<1>4. ASSUME NEW r \in Reqs, Create(r) PROVE FreshInv'
  <2>1. PICK i \in Ids : BeginSave(r, i, req[r].link)
    BY <1>4 DEF Create
  <2>2. req[r].link \in Slot /\ ~Holding(r) /\ mu[ProcOf[r]] = NoReq
    BY <1>4, <1>t, RequestFields DEF Create, Holding, Free
  <2> QED BY <2>1, <2>2, BeginSaveFresh
<1>5. ASSUME NEW r \in Reqs, CreateCollides(r) PROVE FreshInv'
  <2>1. CASE req' = [req EXCEPT ![r].tries = @ + 1]
    <3>1. /\ UNCHANGED <<now, up, mem, promised>>
          /\ req'[r].pc = "valid" /\ \A q \in Reqs : q # r => req'[q] = req[q]
      BY <1>5, <2>1, <1>t DEF CreateCollides, TypeOK, Request
    <3> QED BY <3>1, FreshQuiet
  <2>2. CASE Finish(r)
    BY <1>5, <1>f, <2>2 DEF CreateCollides
  <2> QED BY <1>5, <2>1, <2>2 DEF CreateCollides
<1>6. ASSUME NEW r \in Reqs, Patch(r) PROVE FreshInv'
  <2>1. PICK l \in Link : BeginSave(r, req[r].id, l)
    BY <1>6 DEF Patch
  <2>2. /\ req[r].id \in Ids /\ l \in Slot /\ ~Holding(r)
        /\ mu[ProcOf[r]] = NoReq
    BY <1>6, <1>t, RequestFields DEF Patch, TypeOK, Slot, Holding, Free
  <2> QED BY <2>1, <2>2, BeginSaveFresh
<1>7. ASSUME NEW r \in Reqs, PatchMissing(r) PROVE FreshInv'
  BY <1>7, <1>f DEF PatchMissing
<1>8. ASSUME NEW r \in Reqs, Delete(r) PROVE FreshInv'
  <2>1. /\ req[r].id \in Ids /\ NoLink \in Slot /\ ~Holding(r)
        /\ mu[ProcOf[r]] = NoReq
    BY <1>8, <1>t, RequestFields DEF Delete, TypeOK, Slot, Holding, Free
  <2> QED BY <1>8, <2>1, BeginSaveFresh DEF Delete
<1>9. ASSUME NEW r \in Reqs, SaveFails(r) PROVE FreshInv'
  BY <1>9, <1>f DEF SaveFails
<1>10. ASSUME NEW r \in Reqs, Rename(r) PROVE FreshInv'
  <2>1. /\ UNCHANGED <<now, up, mem, promised>> /\ Holding(r)
        /\ \A q \in Reqs : q # r => req'[q] = req[q]
    BY <1>10, <1>t DEF Rename, Goto, TypeOK, Holding
  <2>2. /\ req'[r].pc = "renamed"
        /\ req'[r].id = req[r].id /\ req'[r].link = req[r].link
    BY <1>10, <1>t DEF Rename, Goto, TypeOK, Request
  <2> QED BY <2>1, <2>2, FreshQuiet
<1>11. ASSUME NEW r \in Reqs, Chmod(r) PROVE FreshInv'
  <2> DEFINE i == req[r].id
  <2>1. /\ UNCHANGED <<now, up, mem>> /\ Holding(r)
        /\ req'[r].pc \in {"idle", "reread"}
        /\ \A q \in Reqs : q # r => req'[q] = req[q]
    BY <1>11, <1>t DEF Chmod, Goto, Finish, TypeOK, Holding, Request, Idle
  <2>2. i \in Ids /\ req[r].link \in Slot /\ \A q \in Reqs : Holding(q) => q = r
    BY <2>1, Holder
  <2>3. /\ promised'[i] \in {NoPromise, Gone, req[r].link}
        /\ promised'[i] = Gone => req[r].link = NoLink
        /\ \A j \in Ids : j # i => promised'[j] = promised[j]
    BY <1>11, <1>t, <2>2, ConstantsAssumption DEF Chmod, TypeOK, Slot
  <2>4. Covers(mem[ProcOf[r]][i], req[r].link)
    BY <2>1 DEF FreshInv, MemWritten
  <2>5. \A x : Expired(x)' <=> Expired(x)
    BY <2>1 DEF Expired
  <2>6. MemFresh'
    <3> SUFFICES ASSUME NEW q \in Procs, NEW j \in Ids, up[q]
                 PROVE  /\ promised'[j] \in Link =>
                              mem[q][j] = promised'[j] \/ Expired(promised'[j])
                        /\ promised'[j] = Gone => mem[q][j] = NoLink
      BY <2>1, <2>5 DEF MemFresh
    <3>1. CASE j = i
      <4>1. q = ProcOf[r]
        BY <1>t DEF OneProcess
      <4> QED BY <2>3, <2>4, <3>1, <4>1, ConstantsAssumption DEF Covers
    <3>2. CASE j # i
      BY <2>3, <3>2 DEF FreshInv, MemFresh
    <3> QED BY <3>1, <3>2
  <2>7. MemWritten'
    BY <2>1, <2>2 DEF MemWritten, Holding
  <2>8. FreshView'
    BY <2>1, <2>5 DEF FreshInv, FreshView
  <2> QED BY <2>6, <2>7, <2>8 DEF FreshInv
<1>12. ASSUME NEW r \in Reqs, ChmodFails(r) PROVE FreshInv'
  BY <1>12, <1>f DEF ChmodFails
<1>13. ASSUME NEW r \in Reqs, Reread(r) PROVE FreshInv'
  BY <1>13, <1>f DEF Reread
<1>14. ASSUME NEW r \in Reqs, View(r) PROVE FreshInv'
  <2> DEFINE p == ProcOf[r]
             i == req[r].id
             l == mem[p][i]
             x == promised[i]
  <2>1. /\ UNCHANGED <<now, up, mem, promised>> /\ up[p] /\ p \in Procs /\ i \in Ids
        /\ \A q \in Reqs : q # r => req'[q] = req[q]
    BY <1>14, <1>t, RequestFields DEF View, Free, TypeOK
  <2>2. /\ req'[r].pc = "viewed"
        /\ req'[r].link = IF l # NoLink /\ Expired(l) THEN NoLink ELSE l
        /\ req'[r].expect \in {x, NoPromise}
    <3> DEFINE seen == IF l # NoLink /\ Expired(l) THEN NoLink ELSE l
               e == IF x = req[r].expect THEN req[r].expect ELSE NoPromise
    <3>1. req'[r] = [req[r] EXCEPT !.pc = "viewed", !.link = seen, !.expect = e]
      BY <1>14, <1>t DEF View, TypeOK
    <3>2. e \in {x, NoPromise}
      OBVIOUS
    <3>3. req[r] \in Request
      BY <1>t
    <3> HIDE DEF seen, e
    <3>4. req'[r].pc = "viewed" /\ req'[r].link = seen /\ req'[r].expect = e
      BY <3>1, <3>3 DEF Request
    <3> QED BY <3>2, <3>4 DEF seen
  <2>3. /\ x \in Link => l = x \/ Expired(x)
        /\ x = Gone => l = NoLink
    BY <2>1 DEF FreshInv, MemFresh
  <2>4. \A y : Expired(y)' <=> Expired(y)
    BY <2>1 DEF Expired
  <2>5. /\ req'[r].expect = Gone => req'[r].link = NoLink
        /\ req'[r].expect \in Link =>
             req'[r].link = req'[r].expect \/ Expired(req'[r].expect)
    <3> HIDE DEF l, x
    <3> QED BY <2>2, <2>3, ConstantsAssumption
  <2>6. FreshView'
    <3> SUFFICES ASSUME NEW q \in Reqs, req'[q].pc = "viewed"
                 PROVE  /\ req'[q].expect = Gone => req'[q].link = NoLink
                        /\ req'[q].expect \in Link =>
                             req'[q].link = req'[q].expect \/ Expired(req'[q].expect)
      BY <2>4 DEF FreshView
    <3>1. CASE q = r
      BY <2>5, <3>1
    <3>2. CASE q # r
      BY <2>1, <3>2 DEF FreshInv, FreshView
    <3> QED BY <3>1, <3>2
  <2>7. MemFresh'
    BY <2>1, <2>4 DEF FreshInv, MemFresh
  <2>8. MemWritten'
    BY <2>1, <2>2, <2>4 DEF FreshInv, MemWritten, Holding, Covers
  <2> QED BY <2>6, <2>7, <2>8 DEF FreshInv
<1>15. ASSUME NEW r \in Reqs, ViewAnswered(r) PROVE FreshInv'
  BY <1>15, <1>f DEF ViewAnswered
<1>16. ASSUME NEW p \in Procs, Crash(p) PROVE FreshInv'
  <2>1. /\ \A q \in Procs : ~up'[q]
        /\ \A q \in Reqs : req'[q].pc = "idle"
    BY <1>16, <1>t DEF Crash, TypeOK, OneProcess, Idle
  <2> QED BY <2>1 DEF FreshInv, MemFresh, MemWritten, FreshView, Holding
<1>17. ASSUME NEW p \in Procs, Restart(p) PROVE FreshInv'
  <2>1. MemFresh'
    BY <1>17, <1>t, LoadFresh DEF Restart
  <2>2. \A q \in Reqs : req'[q].pc = "idle"
    BY <1>17, <1>t DEF Restart, Inv, MutexInv, OneProcess
  <2> QED BY <2>1, <2>2 DEF FreshInv, MemWritten, FreshView, Holding
<1>18. ASSUME Tick PROVE FreshInv'
  <2>1. ASSUME NEW x \in Link, Expired(x) PROVE Expired(x)'
    BY <1>18, <1>t, <2>1, ConstantsAssumption DEF Expired, Tick, TypeOK, Link, NoExpiry
  <2>2. UNCHANGED <<up, mem, req, promised>>
    BY <1>18 DEF Tick
  <2>3. MemFresh' /\ FreshView'
    BY <2>1, <2>2 DEF FreshInv, MemFresh, FreshView
  <2>4. MemWritten'
    <3> SUFFICES ASSUME NEW q \in Reqs, Holding(q)
                 PROVE  Covers(mem[ProcOf[q]][req[q].id], req[q].link)'
      BY <2>2 DEF MemWritten, Holding
    <3>1. Covers(mem[ProcOf[q]][req[q].id], req[q].link) /\ req[q].link \in Slot
      BY Holder DEF FreshInv, MemWritten
    <3> QED BY <2>1, <2>2, <3>1 DEF Covers, Slot
  <2> QED BY <2>3, <2>4 DEF FreshInv
<1>19. ASSUME UNCHANGED vars PROVE FreshInv'
  BY <1>19
     DEF vars, FreshInv, MemFresh, MemWritten, FreshView, Holding, Covers, Expired
<1> QED
  BY <1>1, <1>2, <1>3, <1>4, <1>5, <1>6, <1>7, <1>8, <1>9, <1>10, <1>11, <1>12,
     <1>13, <1>14, <1>15, <1>16, <1>17, <1>18, <1>19 DEF Next, Lock, Proceed

(* While one process uses the store, a page shows what was promised about    *)
(* its link before the request arrived: a created or changed link as it was  *)
(* answered, a deleted one as not found, through failed saves and restarts.  *)
(* With two it is false: see the window between rename and chmod, WindowInv. *)
THEOREM OneProcessViewsAreFresh ==
  ASSUME OneProcess
  PROVE  Spec => []FreshView
<1>1. Init => FreshInv
  BY ConstantsAssumption
     DEF Init, FreshInv, MemFresh, MemWritten, FreshView, Holding, Idle, Empty
<1>2. Inv /\ [Next]_vars => Inv'
  BY InvStep DEF Serial
<1>3. Inv /\ Inv' /\ FreshInv /\ [Next]_vars => FreshInv'
  BY FreshStep
<1>4. FreshInv => FreshView
  BY DEF FreshInv
<1> QED BY <1>1, <1>2, <1>3, <1>4, InitInv, PTL DEF Spec
=============================================================================
