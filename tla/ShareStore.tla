----------------------------- MODULE ShareStore -----------------------------
(***************************************************************************)
(* The web container's store (internal/store/store.go) and the download    *)
(* handler on top of it (internal/server/server.go): a request scans the   *)
(* shared tree under mu with the configuration it read before, hashes each *)
(* file through a cache keyed by size and modification time, and either    *)
(* lists what it found or resolves one URL and opens that path after the   *)
(* lock is released.  Meanwhile SFTP users change the tree.                *)
(*                                                                         *)
(* A content stands for its hash: hashes do not collide, and their length  *)
(* tells the algorithm.  A symbolic link leads outside all namespaces.     *)
(* What is read while a file is being rewritten is Mixed.                  *)
(*                                                                         *)
(* HashOfPath, CachedBySize, FirstMatch, ReadLocked and StampAfter are the *)
(* definitions after them as a plausible bug would have them.              *)
(***************************************************************************)
EXTENDS Integers, Sequences, FiniteSets

CONSTANTS
  Walk,        \* the eligible paths in the order WalkDir visits them
  DirOf,       \* the logical directory of each path
  NameOf,      \* the last component of each path
  Contents,    \* what files hold
  SizeOf,      \* the size of each content
  Mtimes,      \* modification times
  Configs,     \* effective configurations: [algo, target]
  Reqs,        \* slots for requests under way
  Asks,        \* Asks[r]: what r may ask, List or a URL [algo, dir, of], and
               \* the configuration in force then: [conf, ask]
  Trees,       \* what the tree holds at first
  MaxChanges,  \* how often the tree changes
  Faults,      \* {"io"} when a scan can fail
  List, Nothing, Mixed, Outside, NoReq

Paths == {Walk[i] : i \in DOMAIN Walk}
Reads == Contents \cup {Mixed, Outside, Nothing}
Hashed == Reads \cup {NameOf[p] : p \in Paths}
Node == [kind : {"absent", "link", "file", "hidden"}, content : Reads, mtime : Mtimes]
Algos == {c.algo : c \in Configs}
Hash == [algo : Algos, of : Hashed]
Url == [algo : Algos, dir : {DirOf[p] : p \in Paths}, of : Hashed]

ASSUME StoreAssumption ==
  /\ Walk \in Seq(Paths)
  /\ \A i, j \in DOMAIN Walk : Walk[i] = Walk[j] => i = j
  /\ SizeOf \in [Contents -> Nat]
  /\ Configs \subseteq [algo : Algos, target : {"file", "filename"}]
  /\ \A r \in Reqs : Asks[r] \subseteq [conf : Configs, ask : Url \cup {List}]
  /\ List \notin Url /\ NoReq \notin Reqs
  /\ Nothing \notin Contents /\ Mixed \notin Contents /\ Outside \notin Contents
  /\ 0 \in Mtimes /\ MaxChanges \in Nat

VARIABLES
  tree,     \* what is at each path
  seen,     \* ghost: the times and sizes that files at a path have had
  blurred,  \* ghost: paths whose file has the time and size of an earlier one
  changes,  \* how often the tree has changed
  cfg,      \* Store.cfg
  cache,    \* Store.cache
  mu,       \* Store.mu
  pc,       \* where each request is; the last value is the answer
  conf,     \* the configuration it read
  ask,      \* what it asks
  pos,      \* how far its scan is
  info,     \* the stat of the file that it hashes
  found,    \* its entries: [path, hash]
  goal,     \* the path it resolved
  got,      \* what it served
  steady    \* ghost: the paths that have not changed since it came in

treeVars == <<tree, seen, blurred, changes>>
storeVars == <<cfg, cache, mu>>
scanVars == <<pos, info, found>>
reqVars == <<pc, conf, ask, scanVars, goal, got, steady>>
vars == <<treeVars, storeVars, reqVars>>

Answers == {"listed", "served", "400", "404", "409", "500"}

Regular(n) == n.kind \in {"file", "hidden"}
Absent == [kind |-> "absent", content |-> Nothing, mtime |-> 0]
Link == [kind |-> "link", content |-> Outside, mtime |-> 0]
File(c, t) == [kind |-> "file", content |-> c, mtime |-> t]
Stamp(n) == <<n.mtime, SizeOf[n.content]>>

ASSUME TreesAssumption ==
  Trees \subseteq [Paths -> {Absent} \cup {File(c, 0) : c \in Contents}]

(* hash.Filename, hash.Reader. *)
HashOfPath(c, p, content) ==
  [algo |-> c.algo, of |-> IF c.target = "filename" THEN p ELSE content]
HashOf(c, p, content) ==
  [algo |-> c.algo, of |-> IF c.target = "filename" THEN NameOf[p] ELSE content]

(* contentHash finds the file's stat in the cache, under this configuration. *)
CachedBySize(p) ==
  cache[p] # Nothing /\ cache[p].key = cfg /\ cache[p].stamp[2] = Stamp(tree[p])[2]
Cached(p) == cache[p] # Nothing /\ cache[p].key = cfg /\ cache[p].stamp = Stamp(tree[p])

(* The file the scan is at, and the entry it makes for it. *)
Here(r) == Walk[pos[r]]
Entry(r, h) == [path |-> Here(r), hash |-> h]

(* The entries that resolveLocked matches with the URL. *)
FirstMatch(r) ==
  LET fits == {e \in found[r] : e.hash.of = ask[r].of} IN
  IF fits = {} THEN {} ELSE {CHOOSE e \in fits : TRUE}
Matches(r) ==
  {e \in found[r] : /\ DirOf[e.path] = ask[r].dir
                    /\ e.hash = [algo |-> ask[r].algo, of |-> ask[r].of]}

(* Store.mu is a read-write lock that all requests take for writing. *)
ReadLocked == TRUE
Unlocked == mu = NoReq

Goto(r, where) == pc' = [pc EXCEPT ![r] = where]

(* The scan and what it found are gone; the lock is released. *)
EndScan(r) ==
  /\ mu' = NoReq
  /\ pos' = [pos EXCEPT ![r] = 1]
  /\ info' = [info EXCEPT ![r] = Absent]
  /\ found' = [found EXCEPT ![r] = {}]

-----------------------------------------------------------------------------
Init ==
  /\ tree \in Trees
  /\ seen = [p \in Paths |-> IF Regular(tree[p]) THEN {Stamp(tree[p])} ELSE {}]
  /\ blurred = {}
  /\ changes = 0
  /\ cfg \in Configs
  /\ cache = [p \in Paths |-> Nothing]
  /\ mu = NoReq
  /\ pc = [r \in Reqs |-> "idle"]
  /\ conf = [r \in Reqs |-> Nothing]
  /\ ask = [r \in Reqs |-> List]
  /\ pos = [r \in Reqs |-> 1]
  /\ info = [r \in Reqs |-> Absent]
  /\ found = [r \in Reqs |-> {}]
  /\ goal = [r \in Reqs |-> Nothing]
  /\ got = [r \in Reqs |-> Nothing]
  /\ steady = [r \in Reqs |-> {}]

(* SFTP users: a path changes, and no request may count on it any more. *)
Change(p, n) ==
  /\ changes < MaxChanges
  /\ changes' = changes + 1
  /\ tree' = [tree EXCEPT ![p] = n]
  /\ steady' = [r \in Reqs |-> steady[r] \ {p}]
  /\ UNCHANGED <<storeVars, pc, conf, ask, scanVars, goal, got>>

(* An upload, or a file moved here with the time it had. *)
Put(p, c, t) ==
  /\ Change(p, File(c, t))
  /\ seen' = [seen EXCEPT ![p] = seen[p] \cup {Stamp(File(c, t))}]
  /\ blurred' = IF Stamp(File(c, t)) \in seen[p] THEN blurred \cup {p} ELSE blurred \ {p}

Remove(p) ==
  /\ tree[p].kind # "absent"
  /\ Change(p, Absent)
  /\ UNCHANGED <<seen, blurred>>

Symlink(p) ==
  /\ tree[p].kind # "link"
  /\ Change(p, Link)
  /\ UNCHANGED <<seen, blurred>>

(* The web container may or may no longer read the file; its time stays. *)
Chmod(p) ==
  /\ Regular(tree[p])
  /\ Change(p, [kind |-> IF tree[p].kind = "file" THEN "hidden" ELSE "file",
                content |-> tree[p].content, mtime |-> tree[p].mtime])
  /\ UNCHANGED <<seen, blurred>>

(* A request reads effectiveConfig, which the admin changes at any time. *)
Arrive(r) ==
  /\ pc[r] = "idle"
  /\ \E a \in Asks[r] :
       conf' = [conf EXCEPT ![r] = a.conf] /\ ask' = [ask EXCEPT ![r] = a.ask]
  /\ steady' = [steady EXCEPT ![r] = Paths]
  /\ Goto(r, "arrived")
  /\ UNCHANGED <<treeVars, storeVars, scanVars, goal, got>>

(* ListWith, ResolveWith: setConfigLocked under the lock. *)
CacheCleared(r) == IF cfg = conf[r] THEN cache ELSE [p \in Paths |-> Nothing]
SetConfig(r) ==
  /\ pc[r] = "arrived"
  /\ Unlocked
  /\ cfg' = conf[r]
  /\ cache' = CacheCleared(r)

(* hash.ValidHex: a URL for another algorithm; ErrInvalid. *)
ForeignUrl(r) == ask[r] # List /\ ask[r].algo # conf[r].algo
Invalid(r) ==
  /\ SetConfig(r)
  /\ ForeignUrl(r)
  /\ Goto(r, "400")
  /\ UNCHANGED <<treeVars, mu, conf, ask, scanVars, goal, got, steady>>

StartScan(r) ==
  /\ SetConfig(r)
  /\ ~ForeignUrl(r)
  /\ mu' = r
  /\ Goto(r, "scan")
  /\ UNCHANGED <<treeVars, conf, ask, scanVars, goal, got, steady>>

(* scanNamespace at one path, with the file's stat. *)
Looks(r) == pc[r] = "scan" /\ pos[r] \in DOMAIN Walk
Forward(r) == pos' = [pos EXCEPT ![r] = pos[r] + 1]
Append1(r, h) == found' = [found EXCEPT ![r] = found[r] \cup {Entry(r, h)}]

(* Nothing, a link, or a path that changed after its directory was read. *)
Skip(r) ==
  /\ Looks(r)
  /\ Regular(tree[Here(r)]) => Here(r) \notin steady[r]
  /\ Forward(r)
  /\ UNCHANGED <<treeVars, storeVars, pc, conf, ask, info, found, goal, got, steady>>

HashName(r) ==
  /\ Looks(r)
  /\ Regular(tree[Here(r)])
  /\ cfg.target = "filename"
  /\ Append1(r, HashOf(cfg, Here(r), Nothing))
  /\ Forward(r)
  /\ UNCHANGED <<treeVars, storeVars, pc, conf, ask, info, goal, got, steady>>

CacheHit(r) ==
  /\ Looks(r)
  /\ Regular(tree[Here(r)])
  /\ cfg.target = "file"
  /\ Cached(Here(r))
  /\ Append1(r, cache[Here(r)].hash)
  /\ Forward(r)
  /\ UNCHANGED <<treeVars, storeVars, pc, conf, ask, info, goal, got, steady>>

CacheMiss(r) ==
  /\ Looks(r)
  /\ Regular(tree[Here(r)])
  /\ cfg.target = "file"
  /\ ~Cached(Here(r))
  /\ info' = [info EXCEPT ![r] = tree[Here(r)]]
  /\ Goto(r, "hash")
  /\ UNCHANGED <<treeVars, storeVars, conf, ask, pos, found, goal, got, steady>>

(* contentHash opens the path afterwards: gone or unreadable, *)
Omit(r) ==
  /\ pc[r] = "hash"
  /\ tree[Here(r)].kind \in {"absent", "hidden"}
  /\ Goto(r, "scan")
  /\ Forward(r)
  /\ UNCHANGED <<treeVars, storeVars, conf, ask, info, found, goal, got, steady>>

(* or read, whatever is there now; the hash is kept under the earlier stat. *)
Rewritten(r) ==
  \/ tree[Here(r)].content # info[r].content
  \/ tree[Here(r)].mtime # info[r].mtime
StampAfter(r) == IF Regular(tree[Here(r)]) THEN Stamp(tree[Here(r)]) ELSE Stamp(info[r])
StampStored(r) == Stamp(info[r])
HashContent(r) ==
  /\ pc[r] = "hash"
  /\ tree[Here(r)].kind \in {"file", "link"}
  /\ \E c \in {tree[Here(r)].content} \cup (IF Rewritten(r) THEN {Mixed} ELSE {}) :
       /\ Append1(r, HashOf(cfg, Here(r), c))
       /\ cache' = [cache EXCEPT ![Here(r)] =
            [key |-> cfg, stamp |-> StampStored(r), hash |-> HashOf(cfg, Here(r), c)]]
  /\ Goto(r, "scan")
  /\ Forward(r)
  /\ UNCHANGED <<treeVars, cfg, mu, conf, ask, info, goal, got, steady>>

(* Any other error ends the scan. *)
ScanFails(r) ==
  /\ "io" \in Faults
  /\ pc[r] \in {"scan", "hash"}
  /\ Goto(r, "500")
  /\ EndScan(r)
  /\ UNCHANGED <<treeVars, cfg, cache, conf, ask, goal, got, steady>>

Scanned(r) == pc[r] = "scan" /\ pos[r] \notin DOMAIN Walk

ListDone(r) ==
  /\ Scanned(r)
  /\ ask[r] = List
  /\ Goto(r, "listed")
  /\ mu' = NoReq
  /\ UNCHANGED <<treeVars, cfg, cache, conf, ask, scanVars, goal, got, steady>>

(* resolveLocked: ErrNotFound, ErrConflict, or openPath looks again. *)
NoMatch(r) ==
  /\ Scanned(r)
  /\ ask[r] # List
  /\ Matches(r) = {}
  /\ Goto(r, "404")
  /\ EndScan(r)
  /\ UNCHANGED <<treeVars, cfg, cache, conf, ask, goal, got, steady>>

Conflict(r) ==
  /\ Scanned(r)
  /\ ask[r] # List
  /\ \E d, e \in Matches(r) : d # e
  /\ Goto(r, "409")
  /\ EndScan(r)
  /\ UNCHANGED <<treeVars, cfg, cache, conf, ask, goal, got, steady>>

OpenPath(r) ==
  /\ Scanned(r)
  /\ ask[r] # List
  /\ \E e \in Matches(r) :
       /\ Matches(r) = {e}
       /\ Goto(r, IF Regular(tree[e.path]) THEN "resolved" ELSE "404")
       /\ goal' = [goal EXCEPT ![r] = e.path]
  /\ EndScan(r)
  /\ UNCHANGED <<treeVars, cfg, cache, conf, ask, got, steady>>

(* handleDownload opens the path without the lock and follows a link. *)
Opened(n) ==
  IF n.kind = "absent" THEN "404" ELSE IF n.kind = "hidden" THEN "500" ELSE "served"
Download(r) ==
  /\ pc[r] = "resolved"
  /\ Goto(r, Opened(tree[goal[r]]))
  /\ got' = [got EXCEPT ![r] = tree[goal[r]].content]
  /\ UNCHANGED <<treeVars, storeVars, conf, ask, scanVars, goal, steady>>

(* The answer is out; the slot is free. *)
Leave(r) ==
  /\ pc[r] \in Answers
  /\ Goto(r, "idle")
  /\ conf' = [conf EXCEPT ![r] = Nothing]
  /\ ask' = [ask EXCEPT ![r] = List]
  /\ pos' = [pos EXCEPT ![r] = 1]
  /\ info' = [info EXCEPT ![r] = Absent]
  /\ found' = [found EXCEPT ![r] = {}]
  /\ goal' = [goal EXCEPT ![r] = Nothing]
  /\ got' = [got EXCEPT ![r] = Nothing]
  /\ steady' = [steady EXCEPT ![r] = {}]
  /\ UNCHANGED <<treeVars, storeVars>>

Users ==
  \E p \in Paths :
    \/ \E c \in Contents, t \in Mtimes : Put(p, c, t)
    \/ Remove(p) \/ Symlink(p) \/ Chmod(p)

Scan(r) ==
  \/ Skip(r) \/ HashName(r) \/ CacheHit(r) \/ CacheMiss(r) \/ Omit(r) \/ HashContent(r)
  \/ ScanFails(r)

Request(r) ==
  \/ Arrive(r) \/ Invalid(r) \/ StartScan(r)
  \/ Scan(r)
  \/ ListDone(r) \/ NoMatch(r) \/ Conflict(r) \/ OpenPath(r)
  \/ Download(r) \/ Leave(r)

Next == Users \/ \E r \in Reqs : Request(r)

Spec == Init /\ [][Next]_vars

-----------------------------------------------------------------------------
(* Every variable keeps its type. *)
TypeOK ==
  /\ tree \in [Paths -> Node]
  /\ seen \in [Paths -> SUBSET (Mtimes \X Nat)]
  /\ blurred \subseteq Paths
  /\ changes \in 0 .. MaxChanges
  /\ cfg \in Configs
  /\ cache \in [Paths -> [key : Configs, stamp : Mtimes \X Nat, hash : Hash] \cup {Nothing}]
  /\ mu \in Reqs \cup {NoReq}
  /\ pc \in [Reqs -> {"idle", "arrived", "scan", "hash", "resolved"} \cup Answers]
  /\ conf \in [Reqs -> Configs \cup {Nothing}]
  /\ ask \in [Reqs -> Url \cup {List}]
  /\ pos \in [Reqs -> 1 .. Len(Walk) + 1]
  /\ info \in [Reqs -> Node]
  /\ found \in [Reqs -> SUBSET [path : Paths, hash : Hash]]
  /\ goal \in [Reqs -> Paths \cup {Nothing}]
  /\ got \in [Reqs -> Reads]
  /\ steady \in [Reqs -> SUBSET Paths]

(* contentHash trusts a time and a size.  What it finds is the hash of what *)
(* the file holds now, unless the file was replaced by one with a time and  *)
(* a size that some earlier file at this path had: also when it changed     *)
(* between its stat and the read whose hash was kept.                       *)
CacheFresh ==
  \A p \in Paths \ blurred : Regular(tree[p]) /\ Cached(p) =>
    cache[p].hash = HashOf(cfg, p, tree[p].content)

(* One scan never mixes two configurations, though requests with others are *)
(* waiting and the store's configuration is theirs in turn: every entry is  *)
(* hashed as the request's own configuration says, with its algorithm and   *)
(* over the name or over something that was read.                           *)
HashedUnder(c, p, h) == \E content \in Reads : h = HashOf(c, p, content)
OneConfiguration ==
  \A r \in Reqs : \A e \in found[r] : HashedUnder(conf[r], e.path, e.hash)

(* The entry a path should have. *)
Right(r, p) == [path |-> p, hash |-> HashOf(conf[r], p, tree[p].content)]

(* A listing has what is there: a path that has not changed since the       *)
(* request came is listed if it can be read, only if it is a regular file,  *)
(* and with the right hash, whatever happens to other paths.  (Whether a    *)
(* file that cannot be read is listed is NoDeadLinks.)                      *)
ListingRight ==
  \A r \in Reqs : pc[r] = "listed" => \A p \in steady[r] \ blurred :
    /\ tree[p].kind = "file" => Right(r, p) \in found[r]
    /\ \A e \in found[r] : e.path = p => Regular(tree[p]) /\ e = Right(r, p)

(* Unreadable files are omitted from a listing by contents: a file that     *)
(* could not be read ever since the request came has no entry.  (One whose  *)
(* hash is in the cache has.)                                               *)
NoDeadLinks ==
  \A r \in Reqs : pc[r] = "listed" /\ conf[r].target = "file" =>
    \A e \in found[r] : e.path \in steady[r] => tree[e.path].kind # "hidden"

(* Whether the URL names a path that has not changed since the request came *)
(* and can be read.                                                         *)
Named(r, p) ==
  /\ Right(r, p).hash = [algo |-> ask[r].algo, of |-> ask[r].of]
  /\ DirOf[p] = ask[r].dir
Sure(r) == {p \in steady[r] \ blurred : tree[p].kind = "file" /\ Named(r, p)}

(* A download is what its URL names.  The path may change between the scan  *)
(* and the opening; if it did not, what is served has the URL's hash, and   *)
(* no other unchanged file has it.  A file that is there all along and      *)
(* alone in having the hash is not denied.  Of a path that did change       *)
(* nothing is said: one that became a link after openPath had looked is     *)
(* followed by os.Open, and got is then Outside.                            *)
DownloadRight ==
  \A r \in Reqs :
    /\ pc[r] = "served" /\ goal[r] \in steady[r] \ blurred =>
         got[r] = tree[goal[r]].content /\ Sure(r) = {goal[r]}
    /\ pc[r] = "404" => Sure(r) = {}
    /\ pc[r] = "409" /\ steady[r] \ blurred = Paths =>
         \E p, q \in Paths : p # q /\ Named(r, p) /\ Named(r, q)
=============================================================================
