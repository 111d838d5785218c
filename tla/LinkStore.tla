------------------------------ MODULE LinkStore ------------------------------
(***************************************************************************)
(* The share-link store (internal/links/links.go) as the two containers    *)
(* use it: file-sharing ("web", internal/server/links.go) and sftp-admin   *)
(* ("admin", internal/sftpadmin/server.go).  Each process keeps a          *)
(* mutex-guarded map in memory; both persist the whole map to the one file *)
(* links.json on a shared volume.  Every handler first reloads the map,    *)
(* then, in a second critical section, changes and saves it.               *)
(*                                                                         *)
(* A save is visible to the other process in two steps, the rename and the *)
(* chmod after it, so those are actions of their own; everything before    *)
(* the rename touches only memory and a private temp file.                 *)
(*                                                                         *)
(* PurgeBeforeExpiry, LoadKeepsSnapshot, MarshalledBeforeChange,           *)
(* MarshalledMerged, UnlockUnlessFailed and DrawsLeftOffByOne are the      *)
(* definitions after them as a plausible bug would have them; no           *)
(* specification uses them.                                                *)
(***************************************************************************)
EXTENDS Integers, FiniteSets

CONSTANTS
  Procs,      \* the processes that open the store: "web", "admin" or both
  Reqs,       \* request slots: what one process serves at the same time
  ProcOf,     \* the process a slot belongs to
  Ids,        \* link ids NewID can draw
  Bodies,     \* values of what PATCH may rewrite: password hash, description
  MaxTime,    \* the clock stops here
  Kinds,      \* the kinds of request that clients make
  Faults,     \* which of "save", "torn", "crash" the environment produces
  Exclusive,  \* TRUE: operators never change links through both at once
  NoId, NoLink, NoReq, Gone, Pending, NoPromise

NoExpiry == 0
Link == [body : Bodies, exp : {NoExpiry} \cup 1 .. MaxTime]
Slot == Link \cup {NoLink}
Promise == Link \cup {Gone, Pending, NoPromise}
MaxTries == 3
Mutators == {"create", "patch", "delete"}

ASSUME ConstantsAssumption ==
  /\ Procs \subseteq {"web", "admin"}
  /\ ProcOf \in [Reqs -> Procs]
  /\ MaxTime \in Nat
  /\ Exclusive \in BOOLEAN
  /\ NoReq \notin Reqs
  /\ NoId \notin Ids
  /\ Gone # NoPromise /\ Gone # Pending /\ Pending # NoPromise
  /\ \A v \in {NoLink, Gone, Pending, NoPromise} : v \notin Link

VARIABLES
  now,       \* the wall clock
  up,        \* the process is running
  mem,       \* Store.links of each process
  mu,        \* Store.mu: the request that holds it, or NoReq
  file,      \* the published links.json; a missing file reads as empty
  mode,      \* its permission bits
  owner,     \* the process whose rename published it
  req,       \* what each request is doing
  unsaved,   \* ghost: ids whose change is in memory though its save failed
  promised   \* ghost: what the last successful answer about an id implies

vars == <<now, up, mem, mu, file, mode, owner, req, unsaved, promised>>

Idle == [pc |-> "idle", op |-> "none", id |-> NoId, link |-> NoLink,
         tries |-> 0, expect |-> NoPromise]

Request ==
  [pc : {"idle", "loaded", "valid", "saving", "renamed", "reread", "viewed"},
   op : {"none", "create", "patch", "delete", "view"},
   id : Ids \cup {NoId}, link : Slot, tries : 0 .. MaxTries - 1,
   expect : Promise]

Empty == [i \in Ids |-> NoLink]

(* links.Link.Expired: not before the expiry, so a link dies at that instant. *)
Expired(l) == l.exp # NoExpiry /\ now >= l.exp

(* What saveLocked leaves of a map: it drops the expired entries first. *)
PurgeBeforeExpiry(m) == [i \in Ids |-> IF m[i] # NoLink /\ m[i].exp # NoExpiry
                                         THEN NoLink ELSE m[i]]
Purge(m) == [i \in Ids |-> IF m[i] # NoLink /\ Expired(m[i]) THEN NoLink ELSE m[i]]

(* A 0600 file is readable by its owner and by root, which admin runs as; *)
(* 0640 adds the group, which is web's.                                   *)
CanRead(p) == p = "admin" \/ owner = p \/ mode = "0640"
MayChmod(p) == p = "admin" \/ owner = p

(* Store.Load: the memory becomes what the file holds; a file that cannot *)
(* be read leaves the memory as it is.                                    *)
LoadKeepsSnapshot(p) == UNCHANGED <<mem, unsaved>>
Load(p) ==
  /\ mem' = IF CanRead(p) THEN [mem EXCEPT ![p] = file] ELSE mem
  /\ unsaved' = IF CanRead(p) THEN [unsaved EXCEPT ![p] = {}] ELSE unsaved

(* The bytes saveLocked writes, marshalled after the change was made. *)
MarshalledBeforeChange(p) == Purge(file)
MarshalledMerged(p) == [i \in Ids |-> IF mem[p][i] = NoLink THEN file[i] ELSE mem[p][i]]
Marshalled(p) == mem[p]

Ops(p) == IF p = "web" THEN {"create", "patch", "delete", "view"}
                       ELSE {"create", "delete", "view"}

Mutating(r) == req[r].pc # "idle" /\ req[r].op \in Mutators
Free(r) == up[ProcOf[r]] /\ mu[ProcOf[r]] = NoReq
Goto(r, pc) == req' = [req EXCEPT ![r].pc = pc]
Finish(r) == req' = [req EXCEPT ![r] = Idle]
UnlockUnlessFailed(r) == mu' = [mu EXCEPT ![ProcOf[r]] =
                                  IF req[r].pc = "saving" THEN @ ELSE NoReq]
Unlock(r) == mu' = [mu EXCEPT ![ProcOf[r]] = NoReq]

-----------------------------------------------------------------------------
Init ==
  /\ now = 0
  /\ up = [p \in Procs |-> TRUE]
  /\ mem = [p \in Procs |-> Empty]
  /\ mu = [p \in Procs |-> NoReq]
  /\ file = Empty
  /\ mode = "0640"
  /\ owner \in Procs
  /\ req = [r \in Reqs |-> Idle]
  /\ unsaved = [p \in Procs |-> {}]
  /\ promised = [i \in Ids |-> NoPromise]

(* The first thing every handler does, before it even authenticates: *)
(* reloadLinks, which ignores the error of Load.                      *)
Reload(r) ==
  LET p == ProcOf[r] IN
  /\ req[r].pc = "idle"
  /\ Free(r)
  /\ \E op \in Ops(p) \cap Kinds :
       /\ op \in Mutators /\ Exclusive =>
            \A q \in Reqs : ProcOf[q] # p => ~Mutating(q)
       /\ \E i \in IF op = "create" THEN {NoId} ELSE Ids :
            req' = [req EXCEPT ![r] =
                      [Idle EXCEPT !.pc = "loaded", !.op = op, !.id = i,
                                   !.expect = IF op = "view" THEN promised[i]
                                                             ELSE NoPromise]]
  /\ Load(p)
  /\ UNCHANGED <<now, up, mu, file, mode, owner, promised>>

(* Every early return that changes nothing: no bearer token or session, a *)
(* bad body, scope, expiry or password, a failed NewID or HashPassword,   *)
(* the mutate callback of Update refusing its input.                      *)
Reject(r) ==
  /\ req[r].pc \in {"loaded", "valid"}
  /\ up[ProcOf[r]]
  /\ Finish(r)
  /\ UNCHANGED <<now, up, mem, mu, file, mode, owner, unsaved, promised>>

(* The link a create request asks for.  The API insists on a future expiry, *)
(* the admin form takes any; hashing the password comes after this check.   *)
Validate(r) ==
  /\ req[r].pc = "loaded" /\ req[r].op = "create"
  /\ up[ProcOf[r]]
  /\ \E l \in Link :
       /\ ProcOf[r] = "web" => l.exp = NoExpiry \/ l.exp > now
       /\ req' = [req EXCEPT ![r] = [@ EXCEPT !.pc = "valid", !.link = l]]
  /\ UNCHANGED <<now, up, mem, mu, file, mode, owner, unsaved, promised>>

(* The part of Create, Update and Delete before the rename: the map is *)
(* changed and purged under the mutex, which stays held for the save.   *)
(* The answer will promise something about the link only if no save of  *)
(* the same link by the other process overlaps this one.                *)
BeginSave(r, i, l) ==
  LET p == ProcOf[r] IN
  /\ mem' = [mem EXCEPT ![p] = Purge([mem[p] EXCEPT ![i] = l])]
  /\ mu' = [mu EXCEPT ![p] = r]
  /\ req' = [req EXCEPT ![r] = [@ EXCEPT !.pc = "saving", !.id = i, !.link = l]]
  /\ promised' = [promised EXCEPT ![i] =
       IF \E q \in Reqs : req[q].pc \in {"saving", "renamed"} /\ req[q].id = i
         THEN NoPromise ELSE Pending]
  /\ UNCHANGED <<now, up, file, mode, owner, unsaved>>

Create(r) ==
  /\ req[r].pc = "valid" /\ req[r].op = "create"
  /\ Free(r)
  /\ \E i \in Ids :
       /\ mem[ProcOf[r]][i] = NoLink
       /\ BeginSave(r, i, req[r].link)

DrawsLeftOffByOne(r) == req[r].tries < MaxTries
DrawsLeft(r) == req[r].tries + 1 < MaxTries

(* ErrExists: the API draws another id, three draws in all; the admin form *)
(* gives up at the first.                                                  *)
CreateCollides(r) ==
  /\ req[r].pc = "valid" /\ req[r].op = "create"
  /\ Free(r)
  /\ \E i \in Ids : mem[ProcOf[r]][i] # NoLink
  /\ IF ProcOf[r] = "web" /\ DrawsLeft(r)
       THEN req' = [req EXCEPT ![r].tries = @ + 1]
       ELSE Finish(r)
  /\ UNCHANGED <<now, up, mem, mu, file, mode, owner, unsaved, promised>>

(* PATCH: any of password, description and expiry; a new expiry is either *)
(* none or in the future, an absent one keeps the old.                    *)
Patch(r) ==
  LET old == mem[ProcOf[r]][req[r].id] IN
  /\ req[r].pc = "loaded" /\ req[r].op = "patch"
  /\ Free(r)
  /\ old # NoLink
  /\ \E l \in Link :
       /\ l.exp \in {old.exp, NoExpiry} \/ l.exp > now
       /\ BeginSave(r, req[r].id, l)

PatchMissing(r) ==
  /\ req[r].pc = "loaded" /\ req[r].op = "patch"
  /\ Free(r)
  /\ mem[ProcOf[r]][req[r].id] = NoLink
  /\ Finish(r)
  /\ UNCHANGED <<now, up, mem, mu, file, mode, owner, unsaved, promised>>

Delete(r) ==
  /\ req[r].pc = "loaded" /\ req[r].op = "delete"
  /\ Free(r)
  /\ BeginSave(r, req[r].id, NoLink)

(* Creating, writing, syncing or renaming the temp file fails: the request *)
(* is answered 500 and the memory keeps the change.                        *)
SaveFails(r) ==
  /\ "save" \in Faults
  /\ req[r].pc = "saving" /\ up[ProcOf[r]]
  /\ unsaved' = [unsaved EXCEPT ![ProcOf[r]] = @ \cup {req[r].id}]
  /\ Unlock(r)
  /\ Finish(r)
  /\ UNCHANGED <<now, up, mem, file, mode, owner, promised>>

(* os.Rename publishes the whole map, still with the temp file's 0600. *)
Rename(r) ==
  /\ req[r].pc = "saving" /\ up[ProcOf[r]]
  /\ file' = Marshalled(ProcOf[r])
  /\ mode' = "0600"
  /\ owner' = ProcOf[r]
  /\ unsaved' = [unsaved EXCEPT ![ProcOf[r]] = {}]
  /\ Goto(r, "renamed")
  /\ UNCHANGED <<now, up, mem, mu, promised>>

(* The chmod after the rename, and with it the end of the critical section: *)
(* create and delete answer success now, patch re-reads the link first.     *)
Chmod(r) ==
  /\ req[r].pc = "renamed" /\ up[ProcOf[r]]
  /\ MayChmod(ProcOf[r])
  /\ mode' = "0640"
  /\ Unlock(r)
  /\ promised' = [promised EXCEPT ![req[r].id] =
       IF @ # Pending THEN NoPromise
       ELSE IF req[r].link = NoLink THEN Gone ELSE req[r].link]
  /\ IF req[r].op = "patch" THEN Goto(r, "reread") ELSE Finish(r)
  /\ UNCHANGED <<now, up, mem, file, owner, unsaved>>

(* It fails when the other process has replaced the file by one this      *)
(* process does not own, or by an I/O error: answered 500 though published. *)
ChmodFails(r) ==
  /\ req[r].pc = "renamed" /\ up[ProcOf[r]]
  /\ ~MayChmod(ProcOf[r]) \/ "torn" \in Faults
  /\ Unlock(r)
  /\ Finish(r)
  /\ UNCHANGED <<now, up, mem, file, mode, owner, unsaved, promised>>

(* handleLinkPatch's closing Get, answered 200 or 404. *)
Reread(r) ==
  /\ req[r].pc = "reread"
  /\ Free(r)
  /\ Finish(r)
  /\ UNCHANGED <<now, up, mem, mu, file, mode, owner, unsaved, promised>>

(* The public page, its file list and its password form: an expired link *)
(* is not found.  expect keeps the promise that stood from the reload on. *)
View(r) ==
  LET l == mem[ProcOf[r]][req[r].id] IN
  /\ req[r].pc = "loaded" /\ req[r].op = "view"
  /\ Free(r)
  /\ req' = [req EXCEPT ![r] =
       [@ EXCEPT !.pc = "viewed",
                 !.link = IF l # NoLink /\ Expired(l) THEN NoLink ELSE l,
                 !.expect = IF promised[req[r].id] = req[r].expect
                              THEN req[r].expect ELSE NoPromise]]
  /\ UNCHANGED <<now, up, mem, mu, file, mode, owner, unsaved, promised>>

ViewAnswered(r) ==
  /\ req[r].pc = "viewed" /\ up[ProcOf[r]]
  /\ Finish(r)
  /\ UNCHANGED <<now, up, mem, mu, file, mode, owner, unsaved, promised>>

(* The process dies with the requests it was serving. *)
Crash(p) ==
  /\ up[p]
  /\ "crash" \in Faults
  /\ (\E r \in Reqs : ProcOf[r] = p /\ req[r].pc = "renamed") => "torn" \in Faults
  /\ up' = [up EXCEPT ![p] = FALSE]
  /\ mem' = [mem EXCEPT ![p] = Empty]
  /\ mu' = [mu EXCEPT ![p] = NoReq]
  /\ unsaved' = [unsaved EXCEPT ![p] = {}]
  /\ req' = [r \in Reqs |-> IF ProcOf[r] = p THEN Idle ELSE req[r]]
  /\ UNCHANGED <<now, file, mode, owner, promised>>

(* Start-up loads the file.  web exits when it cannot and is restarted by *)
(* the container runtime until it can; admin, as root, always can.        *)
Restart(p) ==
  /\ ~up[p]
  /\ CanRead(p)
  /\ up' = [up EXCEPT ![p] = TRUE]
  /\ Load(p)
  /\ UNCHANGED <<now, mu, file, mode, owner, req, promised>>

Tick ==
  /\ now < MaxTime
  /\ now' = now + 1
  /\ UNCHANGED <<up, mem, mu, file, mode, owner, req, unsaved, promised>>

(* What a request that has started does next. *)
Lock(r) == Create(r) \/ CreateCollides(r) \/ Patch(r) \/ PatchMissing(r)
             \/ Delete(r) \/ Reread(r) \/ View(r)
Proceed(r) == Validate(r) \/ SaveFails(r) \/ Rename(r) \/ Chmod(r)
                \/ ChmodFails(r) \/ ViewAnswered(r)

Next ==
  \/ \E r \in Reqs : Reload(r) \/ Reject(r) \/ Lock(r) \/ Proceed(r)
  \/ \E p \in Procs : Crash(p) \/ Restart(p)
  \/ Tick

Spec == Init /\ [][Next]_vars

(* A started request keeps running, and Go's mutex hands itself to a waiter *)
(* that has waited long enough; requests, faults and time are not promised. *)
Fairness == \A r \in Reqs : WF_vars(Proceed(r)) /\ SF_vars(Lock(r))

FairSpec == Spec /\ Fairness

-----------------------------------------------------------------------------
(* Every variable keeps its type: the retry count of handleLinksCreate stays *)
(* below its three draws, and only a create without an id yet targets none.  *)
TypeOK ==
  /\ now \in 0 .. MaxTime
  /\ up \in [Procs -> BOOLEAN]
  /\ mem \in [Procs -> [Ids -> Slot]]
  /\ mu \in [Procs -> Reqs \cup {NoReq}]
  /\ file \in [Ids -> Slot]
  /\ mode \in {"0600", "0640"}
  /\ owner \in Procs
  /\ req \in [Reqs -> Request]
  /\ \A r \in Reqs : req[r].id = NoId =>
       req[r].op \in {"none", "create"} /\ req[r].pc \in {"idle", "loaded", "valid"}
  /\ unsaved \in [Procs -> SUBSET Ids]
  /\ promised \in [Ids -> Promise]

(* A link whose creation or change was answered with success stays in       *)
(* links.json as answered until a later request changes it or it expires,   *)
(* whatever saves of other links, failed saves and crashes come in between. *)
NoDataLoss ==
  \A i \in Ids : promised[i] \in Link =>
    file[i] = promised[i] \/ Expired(promised[i])

(* A link whose deletion was answered with success does not come back into *)
(* links.json unless its id is drawn again by a later create.              *)
DeletedStaysDeleted ==
  \A i \in Ids : promised[i] = Gone => file[i] = NoLink

(* A save writes the whole map, yet changes only the requested link: others *)
(* may only leave because they expired, or catch up with a change whose own *)
(* save had failed before.                                                  *)
SaveTouchesOneLink ==
  [][\A i \in Ids : file'[i] # file[i] =>
       \/ file[i] # NoLink /\ Expired(file[i]) /\ file'[i] = NoLink
       \/ \E r \in Reqs : /\ req[r].pc = "saving" /\ req'[r].pc = "renamed"
                          /\ i = req[r].id \/ i \in unsaved[ProcOf[r]]]_file

(* A page request shows what was promised about its link before it arrived  *)
(* and is still promised when it reads: a created link as created, a deleted *)
(* one as 404.                                                               *)
FreshView ==
  \A r \in Reqs : req[r].pc = "viewed" =>
    /\ req[r].expect = Gone => req[r].link = NoLink
    /\ req[r].expect \in Link =>
         req[r].link = req[r].expect \/ Expired(req[r].expect)

(* The store's mutex is released on every path, so every request that has *)
(* started is eventually answered.                                        *)
EveryRequestAnswered ==
  \A r \in Reqs : req[r].pc # "idle" ~> req[r].pc = "idle"
=============================================================================
