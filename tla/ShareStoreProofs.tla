-------------------------- MODULE ShareStoreProofs --------------------------
(***************************************************************************)
(* Proofs about ShareStore, for any tree, configurations and any number of *)
(* requests and changes.  The cache is right because an entry is kept      *)
(* under the stat taken before the read: a time and a size that the path   *)
(* has once had, and has again only when it is blurred.                    *)
(***************************************************************************)
EXTENDS ShareStore, TLAPS

TreeOK ==
  /\ tree \in [Paths -> Node]
  /\ seen \in [Paths -> SUBSET (Mtimes \X Nat)]
  /\ blurred \subseteq Paths
  /\ changes \in 0 .. MaxChanges

(* Regular files hold contents, and the ghost knows their stamps. *)
FilesOK ==
  \A p \in Paths : Regular(tree[p]) => tree[p].content \in Contents /\ Stamp(tree[p]) \in seen[p]

StoreOK ==
  /\ cfg \in Configs
  /\ cache \in [Paths -> [key : Configs, stamp : Mtimes \X Nat, hash : Hash] \cup {Nothing}]
  /\ mu \in Reqs \cup {NoReq}

ReqOK ==
  /\ pc \in [Reqs -> {"idle", "arrived", "scan", "hash", "resolved"} \cup Answers]
  /\ conf \in [Reqs -> Configs \cup {Nothing}]
  /\ ask \in [Reqs -> Url \cup {List}]
  /\ pos \in [Reqs -> 1 .. Len(Walk) + 1]
  /\ info \in [Reqs -> Node]
  /\ found \in [Reqs -> SUBSET [path : Paths, hash : Hash]]
  /\ goal \in [Reqs -> Paths \cup {Nothing}]
  /\ got \in [Reqs -> Reads]
  /\ steady \in [Reqs -> SUBSET Paths]

(* TypeOK in three parts. *)
LEMMA TypeParts == TypeOK <=> TreeOK /\ StoreOK /\ ReqOK
BY DEF TypeOK, TreeOK, StoreOK, ReqOK

(* What a request in each place relies on: the lock and the configuration *)
(* are its own while it scans, and its stat is one that the path has had. *)
PlaceOK(r) ==
  /\ pc[r] \notin {"idle"} => conf[r] \in Configs
  /\ pc[r] \in {"scan", "hash"} => mu = r /\ cfg = conf[r]
  /\ pc[r] \in {"idle", "arrived"} => pos[r] = 1 /\ found[r] = {}
  /\ pc[r] = "resolved" => goal[r] \in Paths
  /\ pc[r] = "hash" =>
       /\ pos[r] \in DOMAIN Walk
       /\ cfg.target = "file"
       /\ Regular(info[r]) /\ info[r].content \in Contents
       /\ Stamp(info[r]) \in seen[Here(r)]

TypeInv == TreeOK /\ StoreOK /\ ReqOK /\ FilesOK /\ \A r \in Reqs : PlaceOK(r)

-----------------------------------------------------------------------------
(* A position of the walk is a path. *)
LEMMA WalkFacts ==
  /\ DOMAIN Walk = 1 .. Len(Walk) /\ Len(Walk) \in Nat
  /\ \A i \in DOMAIN Walk : Walk[i] \in Paths
  /\ \A p \in Paths : \E i \in DOMAIN Walk : p = Walk[i]
BY StoreAssumption DEF Paths

(* The nodes that users make. *)
LEMMA NodeTypes ==
  /\ Absent \in Node /\ Link \in Node
  /\ ~Regular(Absent) /\ ~Regular(Link)
  /\ \A c \in Contents, t \in Mtimes :
       File(c, t) \in Node /\ Regular(File(c, t)) /\ File(c, t).content = c
         /\ Stamp(File(c, t)) \in Mtimes \X Nat
BY StoreAssumption DEF Absent, Link, File, Node, Reads, Regular, Stamp

(* The stat of a regular file. *)
LEMMA StampType ==
  ASSUME NEW n \in Node, n.content \in Contents
  PROVE  Stamp(n) \in Mtimes \X Nat
BY StoreAssumption DEF Stamp, Node

(* hash.Filename and hash.Reader yield hashes. *)
LEMMA HashType ==
  ASSUME NEW c \in Configs, NEW p \in Paths, NEW x \in Reads
  PROVE  HashOf(c, p, x) \in Hash
<1>1. c.algo \in Algos
  BY DEF Algos
<1>2. NameOf[p] \in Hashed /\ x \in Hashed
  BY DEF Hashed
<1>3. QED
  BY <1>1, <1>2 DEF HashOf, Hash

(* A request leaves the tree and the other requests alone. *)
LEMMA OthersUnchanged ==
  ASSUME ReqOK, NEW r \in Reqs, Request(r), NEW q \in Reqs \ {r}
  PROVE  /\ UNCHANGED treeVars
         /\ pc'[q] = pc[q] /\ conf'[q] = conf[q] /\ ask'[q] = ask[q] /\ pos'[q] = pos[q]
         /\ info'[q] = info[q] /\ found'[q] = found[q] /\ goal'[q] = goal[q]
         /\ got'[q] = got[q] /\ steady'[q] = steady[q]
<1> USE DEF ReqOK, Goto, scanVars
<1>1. CASE Arrive(r) \/ Invalid(r) \/ StartScan(r)
  BY <1>1 DEF Arrive, Invalid, StartScan
<1>2. CASE Skip(r) \/ HashName(r) \/ CacheHit(r) \/ CacheMiss(r)
  BY <1>2 DEF Skip, HashName, CacheHit, CacheMiss, Append1, Forward
<1>3. CASE Omit(r) \/ HashContent(r) \/ ScanFails(r)
  BY <1>3 DEF Omit, HashContent, ScanFails, Append1, Forward, EndScan
<1>4. CASE ListDone(r) \/ NoMatch(r) \/ Conflict(r) \/ OpenPath(r)
  BY <1>4 DEF ListDone, NoMatch, Conflict, OpenPath, EndScan
<1>5. CASE Download(r) \/ Leave(r)
  BY <1>5 DEF Download, Leave
<1>6. QED
  BY <1>1, <1>2, <1>3, <1>4, <1>5 DEF Request, Scan

(* What users do to the tree: one path gets another node, and a file with a *)
(* stamp that is new to the path or marks it blurred, or the same file with *)
(* other permissions.                                                       *)
TreeStep(p, n) ==
  /\ tree' = [tree EXCEPT ![p] = n]
  /\ changes' \in 0 .. MaxChanges
  /\ steady' = [r \in Reqs |-> steady[r] \ {p}]
  /\ \A q \in Paths \ {p} : seen'[q] = seen[q] /\ (q \in blurred' <=> q \in blurred)
  /\ seen' \in [Paths -> SUBSET (Mtimes \X Nat)] /\ blurred' \subseteq Paths
  /\ seen[p] \subseteq seen'[p]
  /\ UNCHANGED <<storeVars, pc, conf, ask, scanVars, goal, got>>
  /\ Regular(n) => n.content \in Contents /\ Stamp(n) \in seen'[p]
  /\ Regular(n) /\ p \notin blurred' =>
       \/ Stamp(n) \notin seen[p]
       \/ /\ Regular(tree[p]) /\ p \notin blurred
          /\ n.content = tree[p].content /\ n.mtime = tree[p].mtime

(* What any change by a user does to the tree and its ghosts. *)
LEMMA UsersStep ==
  ASSUME TreeOK, FilesOK, Users
  PROVE  \E p \in Paths, n \in Node : TreeStep(p, n)
<1> USE DEF TreeOK
<1>1. PICK p \in Paths : (\E c \in Contents, t \in Mtimes : Put(p, c, t))
                           \/ Remove(p) \/ Symlink(p) \/ Chmod(p)
  BY DEF Users
<1>2. ASSUME NEW n, Change(p, n) PROVE changes' \in 0 .. MaxChanges
  BY <1>2, StoreAssumption DEF Change
<1>3. ASSUME NEW c \in Contents, NEW t \in Mtimes, Put(p, c, t)
      PROVE  TreeStep(p, File(c, t)) /\ File(c, t) \in Node
  <2>1. File(c, t) \in Node /\ File(c, t).content = c /\ Stamp(File(c, t)) \in Mtimes \X Nat
    BY NodeTypes
  <2>2. seen' \in [Paths -> SUBSET (Mtimes \X Nat)] /\ Stamp(File(c, t)) \in seen'[p]
    BY <1>3, <2>1 DEF Put
  <2>3. Stamp(File(c, t)) \notin seen[p] \/ p \in blurred'
    BY <1>3 DEF Put
  <2>4. \A q \in Paths \ {p} : seen'[q] = seen[q] /\ (q \in blurred' <=> q \in blurred)
    BY <1>3 DEF Put
  <2>5. blurred' \subseteq Paths /\ seen[p] \subseteq seen'[p]
    BY <1>3 DEF Put
  <2>6. Change(p, File(c, t)) /\ changes' \in 0 .. MaxChanges
    BY <1>2, <1>3 DEF Put
  <2>7. QED
    BY <2>1, <2>2, <2>3, <2>4, <2>5, <2>6 DEF TreeStep, Change
<1>4. CASE Remove(p)
  BY <1>2, <1>4, NodeTypes DEF Remove, TreeStep, Change
<1>5. CASE Symlink(p)
  BY <1>2, <1>5, NodeTypes DEF Symlink, TreeStep, Change
<1>6. ASSUME Chmod(p) PROVE \E n \in Node : TreeStep(p, n)
  <2> DEFINE k == IF tree[p].kind = "file" THEN "hidden" ELSE "file"
  <2> DEFINE n == [kind |-> k, content |-> tree[p].content, mtime |-> tree[p].mtime]
  <2>1. Regular(tree[p]) /\ Change(p, n) /\ UNCHANGED <<seen, blurred>>
    BY <1>6 DEF Chmod
  <2>2. tree[p] \in Node /\ k \in {"file", "hidden"}
    OBVIOUS
  <2>3. n \in Node /\ n.content = tree[p].content /\ n.mtime = tree[p].mtime
    BY <2>2 DEF Node
  <2>4. Stamp(n) = Stamp(tree[p])
    BY <2>3 DEF Stamp
  <2>5. tree[p].content \in Contents /\ Stamp(tree[p]) \in seen[p]
    BY <2>1 DEF FilesOK
  <2>6. changes' \in 0 .. MaxChanges
    BY <1>2, <2>1
  <2> HIDE DEF n
  <2>7. p \notin blurred' => p \notin blurred
    BY <2>1
  <2>8. TreeStep(p, n)
    BY <2>1, <2>3, <2>4, <2>5, <2>6, <2>7 DEF TreeStep, Change
  <2>9. QED
    BY <2>3, <2>8
<1>7. QED
  BY <1>1, <1>3, <1>4, <1>5, <1>6, NodeTypes

(* What a request still counts on after a change, it counted on before, and *)
(* it is as it was.                                                         *)
LEMMA SteadyStep ==
  ASSUME TreeOK, ReqOK, NEW p \in Paths, NEW n \in Node, TreeStep(p, n),
         NEW r \in Reqs, NEW q \in steady'[r]
  PROVE  /\ q \in steady[r] /\ tree'[q] = tree[q]
         /\ q \in blurred' <=> q \in blurred
BY DEF TreeOK, ReqOK, TreeStep

-----------------------------------------------------------------------------
(* TypeInv holds at first. *)
LEMMA TypeInit == Init => TypeInv
<1> SUFFICES ASSUME Init PROVE TypeInv
  OBVIOUS
<1>0. \A p \in Paths : tree[p] \in Node /\ (Regular(tree[p]) => tree[p].content \in Contents)
  <2> SUFFICES ASSUME NEW p \in Paths
               PROVE  tree[p] \in Node /\ (Regular(tree[p]) => tree[p].content \in Contents)
    OBVIOUS
  <2>1. tree[p] \in {Absent} \cup {File(c, 0) : c \in Contents}
    BY TreesAssumption DEF Init
  <2>2. QED
    BY <2>1, NodeTypes, StoreAssumption
<1>1. tree \in [Paths -> Node]
  BY <1>0, TreesAssumption DEF Init
<1>2. \A p \in Paths : Regular(tree[p]) => Stamp(tree[p]) \in Mtimes \X Nat
  BY <1>0, StampType
<1>3. TreeOK
  BY <1>1, <1>2, StoreAssumption DEF Init, TreeOK
<1>4. FilesOK
  BY <1>0 DEF Init, FilesOK
<1>5. StoreOK
  BY DEF Init, StoreOK
<1>6. ReqOK
  BY NodeTypes, WalkFacts DEF Init, ReqOK, Reads
<1>7. \A r \in Reqs : PlaceOK(r)
  BY DEF Init, PlaceOK
<1>8. QED
  BY <1>3, <1>4, <1>5, <1>6, <1>7 DEF TypeInv

(* Users keep TypeInv. *)
LEMMA TypeUsers == TypeInv /\ Users => TypeInv'
<1> SUFFICES ASSUME TypeInv, Users PROVE TypeInv'
  OBVIOUS
<1> USE DEF TypeInv
<1>1. PICK p \in Paths, n \in Node : TreeStep(p, n)
  BY UsersStep
<1>2. TreeOK'
  BY <1>1 DEF TreeStep, TreeOK
<1>3. FilesOK'
  BY <1>1 DEF TreeStep, TreeOK, FilesOK
<1>4. StoreOK' /\ ReqOK'
  BY <1>1 DEF TreeStep, StoreOK, ReqOK, storeVars, scanVars
<1>5. ASSUME NEW r \in Reqs PROVE PlaceOK(r)'
  <2>1. UNCHANGED <<pc, conf, mu, cfg, pos, found, goal, info>>
    BY <1>1 DEF TreeStep, storeVars, scanVars
  <2>2. PlaceOK(r) /\ (pc[r] = "hash" => Here(r) \in Paths)
    BY WalkFacts DEF PlaceOK, Here
  <2>3. \A q \in Paths : seen[q] \subseteq seen'[q]
    BY <1>1 DEF TreeStep
  <2>4. QED
    BY <2>1, <2>2, <2>3 DEF PlaceOK, Here
<1>6. QED
  BY <1>2, <1>3, <1>4, <1>5

(* The path a scan is at, while it looks at it or hashes it. *)
LEMMA HereType ==
  ASSUME TypeInv, NEW r \in Reqs, Looks(r) \/ pc[r] = "hash"
  PROVE  /\ pos[r] \in DOMAIN Walk /\ Here(r) \in Paths
         /\ pos[r] + 1 \in 1 .. Len(Walk) + 1
         /\ tree[Here(r)] \in Node
BY WalkFacts DEF TypeInv, Looks, PlaceOK, Here, TreeOK, ReqOK

(* The next position of a walk. *)
LEMMA ForwardType ==
  ASSUME TypeInv, NEW r \in Reqs, Looks(r) \/ pc[r] = "hash", Forward(r)
  PROVE  pos' \in [Reqs -> 1 .. Len(Walk) + 1]
BY HereType DEF Forward, TypeInv, ReqOK

(* An entry more. *)
LEMMA AppendType ==
  ASSUME TypeInv, NEW r \in Reqs, Looks(r) \/ pc[r] = "hash", NEW h \in Hash, Append1(r, h)
  PROVE  found' \in [Reqs -> SUBSET [path : Paths, hash : Hash]]
<1>1. Entry(r, h) \in [path : Paths, hash : Hash]
  BY HereType DEF Entry
<1>2. QED
  BY <1>1 DEF Append1, TypeInv, ReqOK

(* A cache entry that is found has a hash. *)
LEMMA CachedType ==
  ASSUME StoreOK, NEW p \in Paths, Cached(p)
  PROVE  cache[p] \in [key : Configs, stamp : Mtimes \X Nat, hash : Hash]
BY DEF StoreOK, Cached

(* The steps of a scan keep TypeInv. *)
LEMMA TypeScan ==
  ASSUME TypeInv, NEW r \in Reqs, Scan(r)
  PROVE  StoreOK' /\ ReqOK' /\ PlaceOK(r)'
<1> USE DEF Goto, storeVars, treeVars
<1>0. /\ TreeOK /\ StoreOK /\ ReqOK /\ FilesOK /\ PlaceOK(r)
      /\ \A p \in Paths : tree[p] \in Node
  BY DEF TypeInv, TreeOK
<1>1. CASE Skip(r)
  <2>1. pos' \in [Reqs -> 1 .. Len(Walk) + 1]
    BY <1>1, ForwardType DEF Skip
  <2>2. StoreOK' /\ ReqOK'
    BY <1>0, <1>1, <2>1 DEF Skip, StoreOK, ReqOK
  <2>3. PlaceOK(r)'
    BY <1>0, <1>1 DEF Skip, PlaceOK, Looks
  <2>4. QED
    BY <2>2, <2>3
<1>2. CASE HashName(r)
  <2>1. pos' \in [Reqs -> 1 .. Len(Walk) + 1] /\ Here(r) \in Paths
    BY <1>2, ForwardType, HereType DEF HashName
  <2>2. HashOf(cfg, Here(r), Nothing) \in Hash
    BY <1>0, <2>1, HashType DEF StoreOK, Reads
  <2>3. found' \in [Reqs -> SUBSET [path : Paths, hash : Hash]]
    BY <1>2, <2>2, AppendType DEF HashName
  <2>4. StoreOK' /\ ReqOK'
    BY <1>0, <1>2, <2>1, <2>3 DEF HashName, StoreOK, ReqOK
  <2>5. PlaceOK(r)'
    BY <1>0, <1>2 DEF HashName, PlaceOK, Looks
  <2>6. QED
    BY <2>4, <2>5
<1>3. CASE CacheHit(r)
  <2>1. pos' \in [Reqs -> 1 .. Len(Walk) + 1] /\ Here(r) \in Paths
    BY <1>3, ForwardType, HereType DEF CacheHit
  <2>2. cache[Here(r)].hash \in Hash
    BY <1>0, <1>3, <2>1, CachedType DEF CacheHit
  <2>3. found' \in [Reqs -> SUBSET [path : Paths, hash : Hash]]
    BY <1>3, <2>2, AppendType DEF CacheHit
  <2>4. StoreOK' /\ ReqOK'
    BY <1>0, <1>3, <2>1, <2>3 DEF CacheHit, StoreOK, ReqOK
  <2>5. PlaceOK(r)'
    BY <1>0, <1>3 DEF CacheHit, PlaceOK, Looks
  <2>6. QED
    BY <2>4, <2>5
<1>4. CASE CacheMiss(r)
  <2>1. Here(r) \in Paths /\ pos[r] \in DOMAIN Walk
    BY <1>4, HereType DEF CacheMiss
  <2>2. info' \in [Reqs -> Node] /\ info'[r] = tree[Here(r)]
    BY <1>0, <1>4, <2>1 DEF CacheMiss, ReqOK
  <2>3. StoreOK' /\ ReqOK'
    BY <1>0, <1>4, <2>2 DEF CacheMiss, StoreOK, ReqOK
  <2>4. Regular(info'[r]) /\ info'[r].content \in Contents /\ Stamp(info'[r]) \in seen[Here(r)]
    BY <1>0, <1>4, <2>1, <2>2 DEF CacheMiss, FilesOK
  <2>5. pc'[r] = "hash" /\ pc[r] = "scan"
    BY <1>0, <1>4 DEF CacheMiss, Looks, ReqOK
  <2>6. cfg.target = "file" /\ UNCHANGED <<conf, mu, cfg, pos, found, goal, seen>>
    BY <1>4 DEF CacheMiss
  <2>7. PlaceOK(r)'
    BY <1>0, <2>1, <2>4, <2>5, <2>6 DEF PlaceOK, Here
  <2>8. QED
    BY <2>3, <2>7
<1>5. CASE Omit(r)
  <2>1. pos' \in [Reqs -> 1 .. Len(Walk) + 1]
    BY <1>5, ForwardType DEF Omit
  <2>2. StoreOK' /\ ReqOK'
    BY <1>0, <1>5, <2>1 DEF Omit, StoreOK, ReqOK
  <2>3. pc'[r] = "scan" /\ pc[r] = "hash" /\ UNCHANGED <<conf, mu, cfg>>
    BY <1>0, <1>5 DEF Omit, ReqOK
  <2>4. PlaceOK(r)'
    BY <1>0, <2>3 DEF PlaceOK
  <2>5. QED
    BY <2>2, <2>4
<1>6. CASE HashContent(r)
  <2>0. pc[r] = "hash"
    BY <1>6 DEF HashContent
  <2>1. pos' \in [Reqs -> 1 .. Len(Walk) + 1] /\ Here(r) \in Paths /\ tree[Here(r)].content \in Reads
    BY <1>0, <1>6, ForwardType, HereType DEF HashContent, Node
  <2>2. PICK c \in Reads :
          /\ Append1(r, HashOf(cfg, Here(r), c))
          /\ cache' = [cache EXCEPT ![Here(r)] =
               [key |-> cfg, stamp |-> StampStored(r), hash |-> HashOf(cfg, Here(r), c)]]
    BY <1>6, <2>1 DEF HashContent, Reads
  <2>3. HashOf(cfg, Here(r), c) \in Hash
    BY <1>0, <2>1, HashType DEF StoreOK
  <2>4. found' \in [Reqs -> SUBSET [path : Paths, hash : Hash]]
    BY <2>0, <2>2, <2>3, AppendType
  <2>5. StampStored(r) \in Mtimes \X Nat
    BY <1>0, <2>0, StampType DEF StampStored, PlaceOK, ReqOK
  <2>6. [key |-> cfg, stamp |-> StampStored(r), hash |-> HashOf(cfg, Here(r), c)]
          \in [key : Configs, stamp : Mtimes \X Nat, hash : Hash]
    BY <1>0, <2>3, <2>5 DEF StoreOK
  <2>7. StoreOK'
    BY <1>0, <1>6, <2>2, <2>6 DEF HashContent, StoreOK
  <2>8. ReqOK'
    BY <1>0, <1>6, <2>1, <2>4 DEF HashContent, ReqOK
  <2>9. pc'[r] = "scan" /\ UNCHANGED <<conf, mu, cfg>>
    BY <1>0, <1>6 DEF HashContent, ReqOK
  <2>10. PlaceOK(r)'
    BY <1>0, <2>0, <2>9 DEF PlaceOK
  <2>11. QED
    BY <2>7, <2>8, <2>10
<1>7. CASE ScanFails(r)
  <2>1. StoreOK' /\ ReqOK'
    BY <1>0, <1>7, NodeTypes, WalkFacts DEF ScanFails, EndScan, StoreOK, ReqOK, Answers
  <2>2. pc'[r] = "500" /\ conf'[r] = conf[r] /\ pc[r] \in {"scan", "hash"}
    BY <1>0, <1>7 DEF ScanFails, ReqOK
  <2>3. PlaceOK(r)'
    BY <1>0, <2>2 DEF PlaceOK
  <2>4. QED
    BY <2>1, <2>3
<1>8. QED
  BY <1>1, <1>2, <1>3, <1>4, <1>5, <1>6, <1>7 DEF Scan

(* The rest of a request: its arrival, its configuration and its answer. *)
LEMMA TypeRequest ==
  ASSUME TypeInv, NEW r \in Reqs, Request(r)
  PROVE  StoreOK' /\ ReqOK' /\ PlaceOK(r)'
<1> USE DEF Goto, storeVars, treeVars, scanVars
<1>0. TreeOK /\ StoreOK /\ ReqOK /\ PlaceOK(r)
  BY DEF TypeInv
<1>1. CASE Arrive(r)
  <2>1. PICK a \in Asks[r] :
          conf' = [conf EXCEPT ![r] = a.conf] /\ ask' = [ask EXCEPT ![r] = a.ask]
    BY <1>1 DEF Arrive
  <2>2. a.conf \in Configs /\ a.ask \in Url \cup {List}
    BY StoreAssumption
  <2>3. StoreOK' /\ ReqOK'
    BY <1>0, <1>1, <2>1, <2>2 DEF Arrive, StoreOK, ReqOK
  <2>4. pc[r] = "idle" /\ pc'[r] = "arrived" /\ conf'[r] \in Configs /\ UNCHANGED <<pos, found>>
    BY <1>0, <1>1, <2>1, <2>2 DEF Arrive, ReqOK
  <2>5. PlaceOK(r)'
    BY <1>0, <2>4 DEF PlaceOK
  <2>6. QED
    BY <2>3, <2>5
<1>2. CASE Invalid(r) \/ StartScan(r)
  <2>1. pc[r] = "arrived" /\ cfg' = conf[r] /\ cache' = CacheCleared(r)
    BY <1>2 DEF Invalid, StartScan, SetConfig
  <2>2. conf[r] \in Configs
    BY <1>0, <2>1 DEF PlaceOK
  <2>3. StoreOK'
    BY <1>0, <1>2, <2>1, <2>2 DEF Invalid, StartScan, StoreOK, CacheCleared
  <2>4. ReqOK'
    BY <1>0, <1>2 DEF Invalid, StartScan, ReqOK, Answers
  <2>5. pc'[r] = "400" \/ (pc'[r] = "scan" /\ mu' = r)
    BY <1>0, <1>2 DEF Invalid, StartScan, ReqOK
  <2>6. conf' = conf
    BY <1>2 DEF Invalid, StartScan
  <2>7. PlaceOK(r)'
    BY <2>1, <2>2, <2>5, <2>6 DEF PlaceOK
  <2>8. QED
    BY <2>3, <2>4, <2>7
<1>3. CASE Scan(r)
  BY <1>3, TypeScan
<1>4. CASE ListDone(r) \/ NoMatch(r) \/ Conflict(r)
  <2>0. StoreOK' /\ ReqOK'
    <3>1. CASE ListDone(r)
      BY <1>0, <3>1 DEF ListDone, StoreOK, ReqOK, Answers
    <3>2. CASE NoMatch(r)
      BY <1>0, <3>2, NodeTypes, WalkFacts DEF NoMatch, EndScan, StoreOK, ReqOK, Answers
    <3>3. CASE Conflict(r)
      BY <1>0, <3>3, NodeTypes, WalkFacts DEF Conflict, EndScan, StoreOK, ReqOK, Answers
    <3>4. QED
      BY <1>4, <3>1, <3>2, <3>3
  <2>2. pc'[r] \in {"listed", "404", "409"} /\ conf'[r] = conf[r] /\ pc[r] = "scan"
    BY <1>0, <1>4 DEF ListDone, NoMatch, Conflict, Scanned, ReqOK
  <2>3. PlaceOK(r)'
    BY <1>0, <2>2 DEF PlaceOK
  <2>4. QED
    BY <2>0, <2>3
<1>5. CASE OpenPath(r)
  <2>1. PICK e \in Matches(r) :
          /\ pc' = [pc EXCEPT ![r] = IF Regular(tree[e.path]) THEN "resolved" ELSE "404"]
          /\ goal' = [goal EXCEPT ![r] = e.path]
    BY <1>5 DEF OpenPath
  <2>2. e.path \in Paths
    BY <1>0 DEF Matches, ReqOK
  <2>3. StoreOK' /\ ReqOK'
    <3>1. pc' \in [Reqs -> {"idle", "arrived", "scan", "hash", "resolved"} \cup Answers]
      BY <1>0, <2>1 DEF ReqOK, Answers
    <3>2. goal' \in [Reqs -> Paths \cup {Nothing}]
      BY <1>0, <2>1, <2>2 DEF ReqOK
    <3>3. QED
      BY <1>0, <1>5, <3>1, <3>2, NodeTypes, WalkFacts DEF OpenPath, EndScan, StoreOK, ReqOK
  <2>4. /\ pc'[r] \in {"resolved", "404"} /\ conf'[r] = conf[r] /\ pc[r] = "scan"
        /\ goal'[r] \in Paths
    BY <1>0, <1>5, <2>1, <2>2 DEF OpenPath, Scanned, ReqOK
  <2>5. PlaceOK(r)'
    BY <1>0, <2>4 DEF PlaceOK
  <2>6. QED
    BY <2>3, <2>5
<1>6. CASE Download(r)
  <2>1. goal[r] \in Paths /\ pc[r] = "resolved"
    BY <1>0, <1>6 DEF Download, PlaceOK
  <2>2. tree[goal[r]] \in Node /\ tree[goal[r]].content \in Reads
    BY <1>0, <2>1 DEF TreeOK, Node
  <2>3. Opened(tree[goal[r]]) \in {"404", "500", "served"}
    BY DEF Opened
  <2>4. StoreOK' /\ ReqOK'
    BY <1>0, <1>6, <2>2, <2>3 DEF Download, StoreOK, ReqOK, Answers
  <2>5. pc'[r] \in {"404", "500", "served"} /\ conf'[r] = conf[r]
    BY <1>0, <1>6, <2>3 DEF Download, ReqOK
  <2>6. PlaceOK(r)'
    BY <1>0, <2>1, <2>5 DEF PlaceOK
  <2>7. QED
    BY <2>4, <2>6
<1>7. CASE Leave(r)
  <2>1. StoreOK' /\ ReqOK'
    BY <1>0, <1>7, NodeTypes, WalkFacts DEF Leave, StoreOK, ReqOK, Reads
  <2>2. pc'[r] = "idle" /\ pos'[r] = 1 /\ found'[r] = {}
    BY <1>0, <1>7 DEF Leave, ReqOK
  <2>3. PlaceOK(r)'
    BY <2>2 DEF PlaceOK
  <2>4. QED
    BY <2>1, <2>3
<1>8. QED
  BY <1>1, <1>2, <1>3, <1>4, <1>5, <1>6, <1>7 DEF Request

(* Only who holds the lock, or finds it free, touches the store. *)
LEMMA StoreMine ==
  ASSUME TypeInv, NEW r \in Reqs, Request(r), NEW q \in Reqs \ {r}, mu = q
  PROVE  UNCHANGED storeVars
<1>1. pc[r] \notin {"scan", "hash"} /\ mu # NoReq
  BY StoreAssumption DEF TypeInv, PlaceOK
<1>2. QED
  BY <1>1
  DEF Request, Scan, Arrive, Invalid, StartScan, SetConfig, Unlocked, Skip, HashName, CacheHit,
      CacheMiss, Looks, Omit, HashContent, ScanFails, ListDone, NoMatch, Conflict, OpenPath,
      Scanned, Download, Leave, storeVars

(* The other steps of a request keep TypeInv. *)
LEMMA TypeOthers ==
  ASSUME TypeInv, NEW r \in Reqs, Request(r), NEW q \in Reqs \ {r}
  PROVE  PlaceOK(q)'
<1>1. PlaceOK(q) /\ ReqOK
  BY DEF TypeInv
<1>2. /\ UNCHANGED treeVars
      /\ pc'[q] = pc[q] /\ conf'[q] = conf[q] /\ pos'[q] = pos[q] /\ info'[q] = info[q]
      /\ found'[q] = found[q] /\ goal'[q] = goal[q]
  BY <1>1, OthersUnchanged
<1>3. pc[q] \in {"scan", "hash"} => UNCHANGED storeVars
  BY <1>1, StoreMine DEF PlaceOK
<1>4. QED
  BY <1>1, <1>2, <1>3 DEF PlaceOK, Here, treeVars, storeVars

(* Every step keeps TypeInv. *)
LEMMA TypeStep == TypeInv /\ [Next]_vars => TypeInv'
<1> SUFFICES ASSUME TypeInv, [Next]_vars PROVE TypeInv'
  OBVIOUS
<1>1. CASE Users
  BY <1>1, TypeUsers
<1>2. ASSUME NEW r \in Reqs, Request(r) PROVE TypeInv'
  <2>1. StoreOK' /\ ReqOK' /\ PlaceOK(r)'
    BY <1>2, TypeRequest
  <2>2. \A q \in Reqs : PlaceOK(q)'
    BY <1>2, <2>1, TypeOthers
  <2>3. UNCHANGED treeVars
    BY <1>2
    DEF Request, Scan, Arrive, Invalid, StartScan, Skip, HashName, CacheHit, CacheMiss, Omit,
        HashContent, ScanFails, ListDone, NoMatch, Conflict, OpenPath, Download, Leave
  <2>4. TreeOK' /\ FilesOK'
    BY <2>3 DEF TypeInv, treeVars, TreeOK, FilesOK
  <2>5. QED
    BY <2>1, <2>2, <2>4 DEF TypeInv
<1>3. CASE UNCHANGED vars
  BY <1>3 DEF TypeInv, vars, treeVars, storeVars, reqVars, scanVars, TreeOK, FilesOK, StoreOK,
              ReqOK, PlaceOK, Here
<1>4. QED
  BY <1>1, <1>2, <1>3 DEF Next

(* Every variable keeps its type. *)
THEOREM StoreTypes == Spec => []TypeOK
<1>1. TypeInv => TypeOK
  BY TypeParts DEF TypeInv
<1>2. QED
  BY <1>1, TypeInit, TypeStep, PTL DEF Spec

-----------------------------------------------------------------------------
(* A cache entry has a stamp that its path has had, and is right while the *)
(* file has that stamp and is not blurred.                                 *)
CacheOK ==
  \A p \in Paths : cache[p] # Nothing =>
    /\ cache[p].stamp \in seen[p]
    /\ cache[p].key.target = "file" /\ HashedUnder(cache[p].key, p, cache[p].hash)
    /\ p \notin blurred /\ Regular(tree[p]) /\ cache[p].stamp = Stamp(tree[p]) =>
         cache[p].hash = HashOf(cache[p].key, p, tree[p].content)

(* A file that still has the stamp of its stat is the same file. *)
InfoOK(r) ==
  pc[r] = "hash" =>
    /\ /\ Here(r) \notin blurred /\ Regular(tree[Here(r)])
       /\ Stamp(tree[Here(r)]) = Stamp(info[r])
       => tree[Here(r)].content = info[r].content /\ tree[Here(r)].mtime = info[r].mtime
    /\ Here(r) \in steady[r] => tree[Here(r)] = info[r]

CacheInv == CacheOK /\ \A r \in Reqs : InfoOK(r)

(* Users keep CacheInv: a new stat is not in the cache unless the path is blurred. *)
LEMMA CacheUsers == TypeInv /\ CacheInv /\ Users => CacheInv'
<1> SUFFICES ASSUME TypeInv, CacheInv, Users PROVE CacheInv'
  OBVIOUS
<1>0. TreeOK /\ FilesOK /\ ReqOK /\ StoreOK
  BY DEF TypeInv
<1>1. PICK p \in Paths, n \in Node : TreeStep(p, n)
  BY <1>0, UsersStep
<1>2. /\ tree'[p] = n /\ \A q \in Paths \ {p} : tree'[q] = tree[q]
      /\ \A q \in Paths : seen[q] \subseteq seen'[q]
      /\ \A q \in Paths \ {p} : q \in blurred' <=> q \in blurred
      /\ UNCHANGED <<cache, pc, pos, info>>
  BY <1>0, <1>1 DEF TreeStep, TreeOK, storeVars, scanVars
<1>3. Regular(n) /\ p \notin blurred' =>
        \/ Stamp(n) \notin seen[p]
        \/ /\ Regular(tree[p]) /\ p \notin blurred
           /\ n.content = tree[p].content /\ n.mtime = tree[p].mtime /\ Stamp(n) = Stamp(tree[p])
  BY <1>1 DEF TreeStep, Stamp
<1>4. CacheOK'
  <2> SUFFICES ASSUME NEW q \in Paths, cache[q] # Nothing
               PROVE  /\ cache[q].stamp \in seen'[q]
                      /\ cache[q].key.target = "file" /\ HashedUnder(cache[q].key, q, cache[q].hash)
                      /\ q \notin blurred' /\ Regular(tree'[q]) /\ cache[q].stamp = Stamp(tree'[q]) =>
                           cache[q].hash = HashOf(cache[q].key, q, tree'[q].content)
    BY <1>2 DEF CacheOK, HashedUnder, HashOf, Regular, Stamp
  <2>1. /\ cache[q].stamp \in seen[q]
        /\ cache[q].key.target = "file" /\ HashedUnder(cache[q].key, q, cache[q].hash)
        /\ q \notin blurred /\ Regular(tree[q]) /\ cache[q].stamp = Stamp(tree[q]) =>
             cache[q].hash = HashOf(cache[q].key, q, tree[q].content)
    BY DEF CacheInv, CacheOK
  <2>2. CASE q # p
    BY <1>2, <2>1, <2>2
  <2>3. CASE q = p
    BY <1>2, <1>3, <2>1, <2>3
  <2>4. QED
    BY <2>2, <2>3
<1>5. ASSUME NEW r \in Reqs, pc[r] = "hash" PROVE InfoOK(r)'
  <2>1. InfoOK(r) /\ Here(r) \in Paths /\ Stamp(info[r]) \in seen[Here(r)]
    BY <1>5, WalkFacts DEF CacheInv, TypeInv, PlaceOK, Here
  <2>2. Here(r)' = Here(r)
    BY <1>2 DEF Here
  <2>3. Here(r) \in steady'[r] => Here(r) \in steady[r] /\ tree'[Here(r)] = tree[Here(r)]
    BY <1>0, <1>1, SteadyStep
  <2>4. Here(r) \in steady'[r] => tree'[Here(r)] = info[r]
    BY <1>5, <2>1, <2>3 DEF InfoOK
  <2>5. Here(r) \notin blurred' /\ Regular(tree'[Here(r)]) /\ Stamp(tree'[Here(r)]) = Stamp(info[r])
          => tree'[Here(r)].content = info[r].content /\ tree'[Here(r)].mtime = info[r].mtime
    <3>1. CASE Here(r) # p
      BY <1>2, <1>5, <2>1, <3>1 DEF InfoOK
    <3>2. CASE Here(r) = p
      BY <1>2, <1>3, <1>5, <2>1, <3>2 DEF InfoOK
    <3>3. QED
      BY <3>1, <3>2
  <2>6. QED
    BY <1>2, <2>2, <2>4, <2>5 DEF InfoOK, Regular, Stamp
<1>6. \A r \in Reqs : InfoOK(r)'
  BY <1>2, <1>5 DEF InfoOK
<1>7. QED
  BY <1>4, <1>6 DEF CacheInv

(* The read whose hash is kept: of the file as its stat saw it, unless the *)
(* file has another stamp by now or is blurred.                            *)
LEMMA CacheHashed ==
  ASSUME TypeInv, CacheInv, NEW r \in Reqs, HashContent(r)
  PROVE  CacheOK'
<1>0. pc[r] = "hash" /\ Here(r) \in Paths /\ StoreOK
  BY HereType DEF HashContent, TypeInv
<1>1. PICK c \in {tree[Here(r)].content} \cup (IF Rewritten(r) THEN {Mixed} ELSE {}) :
        cache' = [cache EXCEPT ![Here(r)] =
          [key |-> cfg, stamp |-> Stamp(info[r]), hash |-> HashOf(cfg, Here(r), c)]]
  BY DEF HashContent, StampStored
<1>2. /\ cache'[Here(r)] = [key |-> cfg, stamp |-> Stamp(info[r]), hash |-> HashOf(cfg, Here(r), c)]
      /\ \A q \in Paths \ {Here(r)} : cache'[q] = cache[q]
  BY <1>0, <1>1 DEF StoreOK
<1>3. UNCHANGED <<tree, seen, blurred>>
  BY DEF HashContent, treeVars
<1>4. Stamp(info[r]) \in seen[Here(r)] /\ cfg.target = "file"
  BY <1>0 DEF TypeInv, PlaceOK
<1>5. HashedUnder(cfg, Here(r), HashOf(cfg, Here(r), c))
  <2>1. tree[Here(r)].content \in Reads
    BY <1>0 DEF TypeInv, TreeOK, Node
  <2>2. c \in Reads
    BY <2>1 DEF Reads
  <2>3. QED
    BY <2>2 DEF HashedUnder
<1>6. Here(r) \notin blurred /\ Regular(tree[Here(r)]) /\ Stamp(info[r]) = Stamp(tree[Here(r)]) =>
        c = tree[Here(r)].content
  BY <1>0 DEF CacheInv, InfoOK, Rewritten
<1>7. \A q \in Paths \ {Here(r)} : cache'[q] # Nothing =>
        /\ cache'[q].stamp \in seen[q]
        /\ cache'[q].key.target = "file" /\ HashedUnder(cache'[q].key, q, cache'[q].hash)
        /\ q \notin blurred /\ Regular(tree[q]) /\ cache'[q].stamp = Stamp(tree[q]) =>
             cache'[q].hash = HashOf(cache'[q].key, q, tree[q].content)
  BY <1>2 DEF CacheInv, CacheOK
<1>8. /\ cache'[Here(r)].stamp \in seen[Here(r)]
      /\ cache'[Here(r)].key.target = "file"
      /\ HashedUnder(cache'[Here(r)].key, Here(r), cache'[Here(r)].hash)
      /\ Here(r) \notin blurred /\ Regular(tree[Here(r)])
           /\ cache'[Here(r)].stamp = Stamp(tree[Here(r)]) =>
           cache'[Here(r)].hash = HashOf(cache'[Here(r)].key, Here(r), tree[Here(r)].content)
  BY <1>2, <1>4, <1>5, <1>6
<1>9. QED
  BY <1>0, <1>3, <1>7, <1>8 DEF CacheOK, Regular, Stamp, HashedUnder, HashOf

(* Requests keep CacheInv. *)
LEMMA CacheRequest ==
  ASSUME TypeInv, CacheInv, NEW r \in Reqs, Request(r)
  PROVE  CacheInv'
<1>0. ReqOK /\ StoreOK /\ TreeOK /\ CacheOK /\ InfoOK(r)
  BY DEF TypeInv, CacheInv
<1>1. UNCHANGED treeVars
  BY DEF Request, Scan, Arrive, Invalid, StartScan, Skip, HashName, CacheHit, CacheMiss, Omit,
         HashContent, ScanFails, ListDone, NoMatch, Conflict, OpenPath, Download, Leave
<1>2. CacheOK'
  <2>1. CASE UNCHANGED cache
    BY <1>0, <1>1, <2>1 DEF CacheOK, treeVars, Regular, Stamp, HashedUnder, HashOf
  <2>2. CASE cache' = [p \in Paths |-> Nothing]
    BY <2>2 DEF CacheOK
  <2>3. CASE HashContent(r)
    BY <2>3, CacheHashed
  <2>4. QED
    BY <2>1, <2>2, <2>3
    DEF Request, Scan, Arrive, Invalid, StartScan, SetConfig, CacheCleared, Skip, HashName,
        CacheHit, CacheMiss, Omit, ScanFails, ListDone, NoMatch, Conflict, OpenPath, Download,
        Leave, storeVars
<1>3. ASSUME NEW q \in Reqs \ {r} PROVE InfoOK(q)'
  <2>1. pc'[q] = pc[q] /\ pos'[q] = pos[q] /\ info'[q] = info[q] /\ steady'[q] = steady[q]
    BY <1>0, OthersUnchanged
  <2>2. InfoOK(q)
    BY DEF CacheInv
  <2>3. QED
    BY <1>1, <2>1, <2>2 DEF InfoOK, treeVars, Here, Regular, Stamp
<1>4. InfoOK(r)'
  <2>1. CASE CacheMiss(r)
    <3>1. info'[r] = tree[Here(r)] /\ UNCHANGED <<pos, tree>>
      BY <1>0, <2>1 DEF CacheMiss, ReqOK, treeVars
    <3>2. QED
      BY <3>1 DEF InfoOK, Here
  <2>2. CASE ~CacheMiss(r)
    <3>1. pc'[r] # "hash"
      BY <1>0, <2>2
      DEF Request, Scan, Arrive, Invalid, StartScan, Skip, HashName, CacheHit, Looks, Omit,
          HashContent, ScanFails, ListDone, NoMatch, Conflict, OpenPath, Download, Opened, Leave,
          Goto, ReqOK
    <3>2. QED
      BY <3>1 DEF InfoOK
  <2>3. QED
    BY <2>1, <2>2
<1>5. QED
  BY <1>2, <1>3, <1>4 DEF CacheInv

(* The cache is empty at first. *)
LEMMA CacheInit == Init => CacheInv
BY DEF Init, CacheInv, CacheOK, InfoOK

(* Every step keeps CacheInv. *)
LEMMA CacheStep == TypeInv /\ CacheInv /\ [Next]_vars => CacheInv'
<1> SUFFICES ASSUME TypeInv, CacheInv, [Next]_vars PROVE CacheInv'
  OBVIOUS
<1>1. CASE UNCHANGED vars
  BY <1>1 DEF vars, treeVars, storeVars, reqVars, scanVars, CacheInv, CacheOK, InfoOK, Here,
              Regular, Stamp, HashOf
<1>2. QED
  BY <1>1, CacheUsers, CacheRequest DEF Next

(* Both invariants always hold. *)
LEMMA CacheInvHolds == Spec => [](TypeInv /\ CacheInv)
BY TypeInit, TypeStep, CacheInit, CacheStep, PTL DEF Spec

(* contentHash never takes a stale hash from the cache, except for a file    *)
(* that came with the time and size of an earlier one at its path: for any   *)
(* changes between the stat, the read and later scans, by any requests.      *)
THEOREM CacheIsFresh == Spec => []CacheFresh
<1>1. CacheInv => CacheFresh
  BY DEF CacheInv, CacheOK, CacheFresh, Cached
<1>2. QED
  BY <1>1, CacheInvHolds, PTL

-----------------------------------------------------------------------------
(* What a scan has found so far: hashed by the request's configuration, and *)
(* right and complete for the paths that have not changed.                  *)
OwnConfig(r, e) == HashedUnder(conf[r], e.path, e.hash)
EntryOK(r, e) ==
  e.path \in steady[r] \ blurred => Regular(tree[e.path]) /\ e = Right(r, e.path)
Complete(r) ==
  \A i \in DOMAIN Walk :
    i < pos[r] /\ Walk[i] \in steady[r] \ blurred /\ tree[Walk[i]].kind = "file" =>
      Right(r, Walk[i]) \in found[r]

FoundOK(r) ==
  /\ \A e \in found[r] : OwnConfig(r, e) /\ EntryOK(r, e)
  /\ pc[r] \in {"scan", "hash", "listed"} => Complete(r)
  /\ pc[r] = "listed" => pos[r] \notin DOMAIN Walk

(* A request that resolved a path: no other unchanged file is named. *)
GoalOK(r) ==
  pc[r] = "resolved" =>
    /\ goal[r] \in steady[r] \ blurred => Named(r, goal[r]) /\ Regular(tree[goal[r]])
    /\ Sure(r) \subseteq {goal[r]}
AnswerOK(r) ==
  /\ pc[r] = "served" /\ goal[r] \in steady[r] \ blurred =>
       got[r] = tree[goal[r]].content /\ Sure(r) = {goal[r]}
  /\ pc[r] = "404" => Sure(r) = {}
  /\ pc[r] = "409" /\ steady[r] \ blurred = Paths =>
       \E p, q \in Paths : p # q /\ Named(r, p) /\ Named(r, q)

ScanInv == \A r \in Reqs : FoundOK(r) /\ GoalOK(r) /\ AnswerOK(r)

(* No scan is under way at first. *)
LEMMA ScanInit == Init => ScanInv
BY DEF Init, ScanInv, FoundOK, GoalOK, AnswerOK, Complete, Answers

(* Where a request's own variables and the paths it counts on stay as they *)
(* are, or it counts on fewer, its invariant stays.                        *)
Kept(r) ==
  /\ pc'[r] = pc[r] /\ conf'[r] = conf[r] /\ ask'[r] = ask[r] /\ pos'[r] = pos[r]
  /\ found'[r] = found[r] /\ goal'[r] = goal[r] /\ got'[r] = got[r]
  /\ \A q \in steady'[r] \ blurred' : q \in steady[r] \ blurred /\ tree'[q] = tree[q]

(* Steps of users and of other requests leave a scan in order. *)
LEMMA ScanKept ==
  ASSUME TypeInv, TypeInv', NEW r \in Reqs, Kept(r), FoundOK(r), GoalOK(r), AnswerOK(r)
  PROVE  (FoundOK(r) /\ GoalOK(r) /\ AnswerOK(r))'
<1> USE DEF Kept
<1>0. steady[r] \subseteq Paths /\ steady'[r] \subseteq Paths
  BY DEF TypeInv, ReqOK
<1>1. \A q \in steady'[r] \ blurred' :
        /\ Right(r, q)' = Right(r, q) /\ (Named(r, q)' <=> Named(r, q))
        /\ Regular(tree'[q]) <=> Regular(tree[q])
  BY DEF Right, Named, HashOf, Regular
<1>2. FoundOK(r)'
  <2>1. \A e \in found[r] : OwnConfig(r, e)' /\ EntryOK(r, e)'
    BY <1>1 DEF FoundOK, OwnConfig, EntryOK, HashedUnder, HashOf
  <2>2. Complete(r) => Complete(r)'
    BY <1>1 DEF Complete
  <2>3. QED
    BY <2>1, <2>2 DEF FoundOK
<1>3. Sure(r)' \subseteq Sure(r)
  BY <1>1 DEF Sure
<1>4. GoalOK(r)'
  BY <1>1, <1>3 DEF GoalOK
<1>5. AnswerOK(r)'
  <2>1. pc[r] = "served" /\ goal[r] \in steady'[r] \ blurred' =>
          got[r] = tree'[goal[r]].content /\ Sure(r)' = {goal[r]}
    <3> SUFFICES ASSUME pc[r] = "served", goal[r] \in steady'[r] \ blurred'
                 PROVE  got[r] = tree'[goal[r]].content /\ Sure(r)' = {goal[r]}
      OBVIOUS
    <3>1. got[r] = tree[goal[r]].content /\ Sure(r) = {goal[r]}
      BY DEF AnswerOK
    <3>2. goal[r] \in Sure(r)'
      BY <1>1, <3>1 DEF Sure
    <3>3. QED
      BY <1>3, <3>1, <3>2
  <2>2. pc[r] = "404" => Sure(r)' = {}
    BY <1>3 DEF AnswerOK
  <2>3. pc[r] = "409" /\ steady'[r] \ blurred' = Paths =>
          \E p, q \in Paths : p # q /\ Named(r, p)' /\ Named(r, q)'
    BY <1>0, <1>1 DEF AnswerOK
  <2>4. QED
    BY <2>1, <2>2, <2>3 DEF AnswerOK
<1>6. QED
  BY <1>2, <1>4, <1>5

(* One path further, with an entry for it or without. *)
LEMMA OneFurther ==
  ASSUME TypeInv, NEW r \in Reqs, pc[r] \in {"scan", "hash"}, pos[r] \in DOMAIN Walk, FoundOK(r),
         pc'[r] = "scan", pos'[r] = pos[r] + 1,
         conf'[r] = conf[r], steady'[r] = steady[r], UNCHANGED <<tree, blurred>>,
         found[r] \subseteq found'[r],
         \A e \in found'[r] : e \in found[r] \/ (OwnConfig(r, e) /\ EntryOK(r, e)),
         Here(r) \in steady[r] \ blurred /\ tree[Here(r)].kind = "file" =>
           Right(r, Here(r)) \in found'[r]
  PROVE  (FoundOK(r) /\ GoalOK(r) /\ AnswerOK(r))'
<1>1. \A q : Right(r, q)' = Right(r, q)
  BY DEF Right, HashOf
<1>2. \A e \in found'[r] : OwnConfig(r, e)' /\ EntryOK(r, e)'
  BY <1>1 DEF FoundOK, OwnConfig, EntryOK, HashedUnder, HashOf, Regular
<1>3. pos[r] \in Nat /\ DOMAIN Walk \subseteq Nat
  BY WalkFacts
<1>4. Complete(r)'
  <2> SUFFICES ASSUME NEW i \in DOMAIN Walk, i < pos[r] + 1,
                      Walk[i] \in steady[r] \ blurred, tree[Walk[i]].kind = "file"
               PROVE  Right(r, Walk[i]) \in found'[r]
    BY <1>1 DEF Complete
  <2>1. CASE i < pos[r]
    BY <2>1 DEF FoundOK, Complete
  <2>2. CASE i = pos[r]
    BY <2>2 DEF Here
  <2>3. QED
    BY <1>3, <2>1, <2>2
<1>5. QED
  BY <1>2, <1>4 DEF FoundOK, GoalOK, AnswerOK

(* An entry for this path with the hash it should have. *)
LEMMA RightEntry ==
  ASSUME NEW r \in Reqs, NEW h, h = HashOf(conf[r], Here(r), tree[Here(r)].content)
  PROVE  Entry(r, h) = Right(r, Here(r))
BY DEF Entry, Right

(* The steps of a scan keep it in order. *)
LEMMA ScanOwn ==
  ASSUME TypeInv, CacheInv, ScanInv, NEW r \in Reqs, Scan(r)
  PROVE  (FoundOK(r) /\ GoalOK(r) /\ AnswerOK(r))'
<1> USE DEF Goto, treeVars, storeVars
<1>0. /\ ReqOK /\ StoreOK /\ TreeOK /\ FoundOK(r)
      /\ pc[r] \in {"scan", "hash"} => cfg = conf[r]
  BY DEF TypeInv, PlaceOK, ScanInv
<1>1. CASE Skip(r)
  <2>1. /\ pc[r] = "scan" /\ pos[r] \in DOMAIN Walk
        /\ pc'[r] = "scan" /\ pos'[r] = pos[r] + 1 /\ conf'[r] = conf[r] /\ steady'[r] = steady[r]
        /\ UNCHANGED <<tree, blurred>> /\ found'[r] = found[r]
    BY <1>0, <1>1 DEF Skip, Looks, Forward, ReqOK
  <2>2. ~(Here(r) \in steady[r] \ blurred /\ tree[Here(r)].kind = "file")
    BY <1>1 DEF Skip, Regular
  <2>3. QED
    BY <1>0, <2>1, <2>2, OneFurther
<1>2. CASE HashName(r)
  <2> DEFINE h == HashOf(cfg, Here(r), Nothing)
  <2>1. /\ pc[r] = "scan" /\ pos[r] \in DOMAIN Walk
        /\ pc'[r] = "scan" /\ pos'[r] = pos[r] + 1 /\ conf'[r] = conf[r] /\ steady'[r] = steady[r]
        /\ UNCHANGED <<tree, blurred>> /\ found'[r] = found[r] \cup {Entry(r, h)}
        /\ Regular(tree[Here(r)]) /\ cfg.target = "filename"
    BY <1>0, <1>2 DEF HashName, Looks, Forward, Append1, ReqOK
  <2>2. h = HashOf(conf[r], Here(r), tree[Here(r)].content)
    BY <1>0, <2>1 DEF HashOf
  <2>3. HashedUnder(conf[r], Here(r), h)
    BY <1>0, <2>1 DEF HashedUnder, Reads
  <2> HIDE DEF h
  <2>4. Entry(r, h) = Right(r, Here(r)) /\ Entry(r, h).hash = h /\ Entry(r, h).path = Here(r)
    BY <2>2, RightEntry DEF Entry
  <2>5. OwnConfig(r, Entry(r, h)) /\ EntryOK(r, Entry(r, h))
    BY <2>1, <2>2, <2>3, <2>4 DEF OwnConfig, EntryOK
  <2>6. QED
    BY <1>0, <2>1, <2>4, <2>5, OneFurther
<1>3. CASE CacheHit(r)
  <2> DEFINE h == cache[Here(r)].hash
  <2>1. /\ pc[r] = "scan" /\ pos[r] \in DOMAIN Walk
        /\ pc'[r] = "scan" /\ pos'[r] = pos[r] + 1 /\ conf'[r] = conf[r] /\ steady'[r] = steady[r]
        /\ UNCHANGED <<tree, blurred>> /\ found'[r] = found[r] \cup {Entry(r, h)}
        /\ Regular(tree[Here(r)]) /\ cfg.target = "file" /\ Cached(Here(r))
    BY <1>0, <1>3 DEF CacheHit, Looks, Forward, Append1, ReqOK
  <2>2. Here(r) \in Paths
    BY <2>1, WalkFacts DEF Here
  <2>3. HashedUnder(conf[r], Here(r), h)
    BY <1>0, <2>1, <2>2 DEF CacheInv, CacheOK, Cached
  <2>4. Here(r) \notin blurred => h = HashOf(conf[r], Here(r), tree[Here(r)].content)
    BY <1>0, <2>1, <2>2 DEF CacheInv, CacheOK, Cached
  <2> HIDE DEF h
  <2>5. Entry(r, h).hash = h /\ Entry(r, h).path = Here(r)
    BY DEF Entry
  <2>6. Here(r) \notin blurred => Entry(r, h) = Right(r, Here(r))
    BY <2>4, RightEntry
  <2>7. OwnConfig(r, Entry(r, h)) /\ EntryOK(r, Entry(r, h))
    BY <1>0, <2>1, <2>3, <2>5, <2>6 DEF OwnConfig, EntryOK
  <2>8. QED
    BY <1>0, <2>1, <2>6, <2>7, OneFurther
<1>4. CASE CacheMiss(r)
  <2>1. /\ pc'[r] = "hash" /\ pc[r] = "scan" /\ conf'[r] = conf[r] /\ steady'[r] = steady[r]
        /\ pos'[r] = pos[r] /\ found'[r] = found[r] /\ UNCHANGED <<tree, blurred>>
    BY <1>0, <1>4 DEF CacheMiss, Looks, ReqOK
  <2>2. FoundOK(r)'
    BY <1>0, <2>1 DEF FoundOK, OwnConfig, EntryOK, Complete, Right, HashedUnder, HashOf, Regular
  <2>3. QED
    BY <2>1, <2>2 DEF GoalOK, AnswerOK
<1>5. CASE Omit(r)
  <2>1. /\ pc[r] = "hash" /\ pos[r] \in DOMAIN Walk
        /\ pc'[r] = "scan" /\ pos'[r] = pos[r] + 1 /\ conf'[r] = conf[r] /\ steady'[r] = steady[r]
        /\ UNCHANGED <<tree, blurred>> /\ found'[r] = found[r]
    BY <1>0, <1>5 DEF Omit, Forward, ReqOK, TypeInv, PlaceOK
  <2>2. tree[Here(r)].kind # "file"
    BY <1>5 DEF Omit
  <2>3. QED
    BY <1>0, <2>1, <2>2, OneFurther
<1>6. CASE HashContent(r)
  <2>1. /\ pc[r] = "hash" /\ pos[r] \in DOMAIN Walk /\ cfg.target = "file"
        /\ pc'[r] = "scan" /\ pos'[r] = pos[r] + 1 /\ conf'[r] = conf[r] /\ steady'[r] = steady[r]
        /\ UNCHANGED <<tree, blurred>>
    BY <1>0, <1>6 DEF HashContent, Forward, ReqOK, TypeInv, PlaceOK
  <2>2. PICK c \in {tree[Here(r)].content} \cup (IF Rewritten(r) THEN {Mixed} ELSE {}) :
          Append1(r, HashOf(cfg, Here(r), c))
    BY <1>6 DEF HashContent
  <2> DEFINE h == HashOf(cfg, Here(r), c)
  <2>3. found'[r] = found[r] \cup {Entry(r, h)}
    BY <1>0, <2>2 DEF Append1, ReqOK
  <2>4. HashedUnder(conf[r], Here(r), h)
    <3>1. Here(r) \in Paths
      BY <2>1, WalkFacts DEF Here
    <3>2. tree[Here(r)].content \in Reads
      BY <3>1 DEF TypeInv, TreeOK, Node
    <3>3. c \in Reads
      BY <3>2 DEF Reads
    <3>4. QED
      BY <1>0, <2>1, <3>3 DEF HashedUnder
  <2>5. Here(r) \in steady[r] => tree[Here(r)] = info[r] /\ Regular(info[r])
    BY <2>1 DEF CacheInv, InfoOK, TypeInv, PlaceOK
  <2>6. Here(r) \in steady[r] => h = HashOf(conf[r], Here(r), tree[Here(r)].content)
    BY <1>0, <2>1, <2>2, <2>5 DEF Rewritten
  <2> HIDE DEF h
  <2>7. Entry(r, h).hash = h /\ Entry(r, h).path = Here(r)
    BY DEF Entry
  <2>8. Here(r) \in steady[r] => Entry(r, h) = Right(r, Here(r))
    BY <2>6, RightEntry
  <2>9. OwnConfig(r, Entry(r, h)) /\ EntryOK(r, Entry(r, h))
    BY <1>0, <2>1, <2>4, <2>5, <2>7, <2>8 DEF OwnConfig, EntryOK
  <2>10. QED
    BY <1>0, <2>1, <2>3, <2>8, <2>9, OneFurther
<1>7. CASE ScanFails(r)
  <2>1. pc'[r] = "500" /\ found'[r] = {}
    BY <1>0, <1>7 DEF ScanFails, EndScan, ReqOK
  <2>2. QED
    BY <2>1 DEF FoundOK, GoalOK, AnswerOK
<1>8. QED
  BY <1>1, <1>2, <1>3, <1>4, <1>5, <1>6, <1>7 DEF Scan

(* After the scan every unchanged file that the URL names is among the      *)
(* matches, and an unchanged match is named by it.                          *)
LEMMA MatchesRight ==
  ASSUME TypeInv, NEW r \in Reqs, FoundOK(r), Scanned(r)
  PROVE  /\ \A p \in Sure(r) : Right(r, p) \in Matches(r) /\ Right(r, p).path = p
         /\ \A e \in Matches(r) : e.path \in steady[r] \ blurred =>
              Named(r, e.path) /\ Regular(tree[e.path]) /\ e = Right(r, e.path)
<1>0. pos[r] \in 1 .. Len(Walk) + 1 /\ steady[r] \subseteq Paths /\ pc[r] = "scan"
  BY DEF TypeInv, ReqOK, Scanned
<1>1. \A i \in DOMAIN Walk : i < pos[r]
  BY <1>0, WalkFacts DEF Scanned
<1>2. ASSUME NEW p \in Sure(r) PROVE Right(r, p) \in Matches(r) /\ Right(r, p).path = p
  <2>1. p \in steady[r] \ blurred /\ tree[p].kind = "file" /\ Named(r, p)
    BY DEF Sure
  <2>2. PICK i \in DOMAIN Walk : p = Walk[i]
    BY <1>0, <2>1, WalkFacts
  <2>3. Right(r, p) \in found[r]
    BY <1>0, <1>1, <2>1, <2>2 DEF FoundOK, Complete
  <2>4. Right(r, p).path = p
    BY DEF Right
  <2>5. QED
    BY <2>1, <2>3, <2>4 DEF Named, Matches
<1>3. ASSUME NEW e \in Matches(r), e.path \in steady[r] \ blurred
      PROVE  Named(r, e.path) /\ Regular(tree[e.path]) /\ e = Right(r, e.path)
  <2>1. /\ e \in found[r] /\ DirOf[e.path] = ask[r].dir
        /\ e.hash = [algo |-> ask[r].algo, of |-> ask[r].of]
    BY DEF Matches
  <2>2. Regular(tree[e.path]) /\ e = Right(r, e.path)
    BY <1>3, <2>1 DEF FoundOK, EntryOK
  <2>3. Right(r, e.path).hash = e.hash
    BY <2>2
  <2>4. QED
    BY <2>1, <2>2, <2>3 DEF Named
<1>4. QED
  BY <1>2, <1>3

(* The other steps of the request keep its scan and its answer in order. *)
LEMMA AnswerOwn ==
  ASSUME TypeInv, CacheInv, ScanInv, NEW r \in Reqs, Request(r)
  PROVE  (FoundOK(r) /\ GoalOK(r) /\ AnswerOK(r))'
<1> USE DEF Goto, treeVars, storeVars, scanVars
<1>0. ReqOK /\ TreeOK /\ FilesOK /\ PlaceOK(r) /\ FoundOK(r) /\ GoalOK(r)
  BY DEF TypeInv, ScanInv
<1>1. ASSUME pc'[r] \in {"idle", "arrived", "400"}, found'[r] = {}
      PROVE  (FoundOK(r) /\ GoalOK(r) /\ AnswerOK(r))'
  BY <1>1 DEF FoundOK, GoalOK, AnswerOK
<1>2. CASE Arrive(r)
  BY <1>0, <1>1, <1>2 DEF Arrive, ReqOK, PlaceOK
<1>3. CASE Invalid(r)
  BY <1>0, <1>1, <1>3 DEF Invalid, SetConfig, ReqOK, PlaceOK
<1>4. CASE Leave(r)
  BY <1>0, <1>1, <1>4 DEF Leave, ReqOK
<1>5. CASE StartScan(r)
  <2>1. pc'[r] = "scan" /\ found'[r] = {} /\ pos'[r] = 1
    BY <1>0, <1>5 DEF StartScan, SetConfig, ReqOK, PlaceOK
  <2>2. \A i \in DOMAIN Walk : ~(i < pos'[r])
    BY <2>1, WalkFacts
  <2>3. QED
    BY <2>1, <2>2 DEF FoundOK, Complete, GoalOK, AnswerOK
<1>6. CASE Scan(r)
  BY <1>6, ScanOwn
<1>7. CASE ListDone(r)
  <2>1. /\ pc'[r] = "listed" /\ pc[r] = "scan" /\ pos[r] \notin DOMAIN Walk
        /\ UNCHANGED <<conf, steady, pos, found, tree, blurred>>
    BY <1>0, <1>7 DEF ListDone, Scanned, ReqOK
  <2>2. FoundOK(r)'
    BY <1>0, <2>1 DEF FoundOK, OwnConfig, EntryOK, Complete, Right, HashedUnder, HashOf, Regular
  <2>3. QED
    BY <2>1, <2>2 DEF GoalOK, AnswerOK
<1>8. ASSUME UNCHANGED <<conf, ask, steady, tree, blurred>>
      PROVE  Sure(r)' = Sure(r) /\ \A p : Named(r, p)' <=> Named(r, p)
  BY <1>8 DEF Sure, Named, Right, HashOf
<1>9. CASE NoMatch(r)
  <2>1. /\ pc'[r] = "404" /\ found'[r] = {} /\ Matches(r) = {} /\ Scanned(r)
        /\ UNCHANGED <<conf, ask, steady, tree, blurred>>
    BY <1>0, <1>9 DEF NoMatch, EndScan, ReqOK
  <2>2. Sure(r) = {}
    BY <1>0, <2>1, MatchesRight
  <2>3. QED
    BY <1>8, <2>1, <2>2 DEF FoundOK, GoalOK, AnswerOK
<1>10. CASE Conflict(r)
  <2>1. /\ pc'[r] = "409" /\ found'[r] = {} /\ Scanned(r)
        /\ UNCHANGED <<conf, ask, steady, tree, blurred>>
    BY <1>0, <1>10 DEF Conflict, EndScan, ReqOK
  <2>2. PICK d, e \in Matches(r) : d # e
    BY <1>10 DEF Conflict
  <2>3. d.path \in Paths /\ e.path \in Paths
    BY <1>0 DEF Matches, ReqOK
  <2>4. steady[r] \ blurred = Paths =>
          /\ Named(r, d.path) /\ Named(r, e.path)
          /\ d = Right(r, d.path) /\ e = Right(r, e.path)
    BY <1>0, <2>1, <2>3, MatchesRight
  <2>5. steady[r] \ blurred = Paths => d.path # e.path
    BY <2>2, <2>4
  <2>6. steady[r] \ blurred = Paths => \E p, q \in Paths : p # q /\ Named(r, p) /\ Named(r, q)
    BY <2>3, <2>4, <2>5
  <2>7. QED
    BY <1>8, <2>1, <2>6 DEF FoundOK, GoalOK, AnswerOK
<1>11. CASE OpenPath(r)
  <2>1. PICK e \in Matches(r) :
          /\ Matches(r) = {e}
          /\ pc' = [pc EXCEPT ![r] = IF Regular(tree[e.path]) THEN "resolved" ELSE "404"]
          /\ goal' = [goal EXCEPT ![r] = e.path]
    BY <1>11 DEF OpenPath
  <2>2. /\ found'[r] = {} /\ Scanned(r) /\ goal'[r] = e.path
        /\ pc'[r] = IF Regular(tree[e.path]) THEN "resolved" ELSE "404"
        /\ UNCHANGED <<conf, ask, steady, tree, blurred>>
    BY <1>0, <1>11, <2>1 DEF OpenPath, EndScan, ReqOK
  <2>3. \A p \in Sure(r) : p = e.path
    BY <1>0, <2>1, <2>2, MatchesRight
  <2>4. Sure(r) \subseteq {e.path}
    BY <2>3
  <2>5. e.path \in steady[r] \ blurred => Named(r, e.path) /\ Regular(tree[e.path])
    BY <1>0, <2>2, MatchesRight
  <2>6. CASE Regular(tree[e.path])
    BY <1>8, <2>2, <2>4, <2>5, <2>6 DEF FoundOK, GoalOK, AnswerOK
  <2>7. CASE ~Regular(tree[e.path])
    <3>1. Sure(r) = {}
      BY <2>4, <2>7 DEF Sure, Regular
    <3>2. QED
      BY <1>8, <2>2, <2>7, <3>1 DEF FoundOK, GoalOK, AnswerOK
  <2>8. QED
    BY <2>6, <2>7
<1>12. CASE Download(r)
  <2>1. /\ pc[r] = "resolved" /\ pc'[r] = Opened(tree[goal[r]]) /\ got'[r] = tree[goal[r]].content
        /\ UNCHANGED <<conf, ask, steady, tree, blurred, found, goal>>
    BY <1>0, <1>12 DEF Download, ReqOK
  <2>2. /\ goal[r] \in steady[r] \ blurred => Named(r, goal[r]) /\ Regular(tree[goal[r]])
        /\ Sure(r) \subseteq {goal[r]}
    BY <1>0, <2>1 DEF GoalOK
  <2>3. pc'[r] = "404" => Sure(r) = {}
    BY <2>1, <2>2 DEF Opened, Sure
  <2>4. pc'[r] = "served" /\ goal[r] \in steady[r] \ blurred => Sure(r) = {goal[r]}
    BY <2>1, <2>2 DEF Opened, Sure, Regular
  <2>5. pc'[r] \in {"404", "500", "served"}
    BY <2>1 DEF Opened
  <2>6. FoundOK(r)'
    BY <1>0, <2>1, <2>5 DEF FoundOK, OwnConfig, EntryOK, Right, HashedUnder, HashOf, Regular
  <2>7. QED
    BY <1>8, <2>1, <2>3, <2>4, <2>5, <2>6 DEF GoalOK, AnswerOK
<1>13. QED
  BY <1>2, <1>3, <1>4, <1>5, <1>6, <1>7, <1>9, <1>10, <1>11, <1>12 DEF Request

(* Every step keeps ScanInv. *)
LEMMA ScanStep == TypeInv /\ CacheInv /\ ScanInv /\ [Next]_vars => ScanInv'
<1> SUFFICES ASSUME TypeInv, CacheInv, ScanInv, [Next]_vars, NEW r \in Reqs
             PROVE  (FoundOK(r) /\ GoalOK(r) /\ AnswerOK(r))'
  BY DEF ScanInv
<1>0. TypeInv' /\ ReqOK /\ TreeOK /\ FilesOK /\ FoundOK(r) /\ GoalOK(r) /\ AnswerOK(r)
  BY TypeStep DEF TypeInv, ScanInv
<1>1. CASE Users
  <2>1. PICK p \in Paths, n \in Node : TreeStep(p, n)
    BY <1>0, <1>1, UsersStep
  <2>2. \A q \in steady'[r] \ blurred' : q \in steady[r] \ blurred /\ tree'[q] = tree[q]
    BY <1>0, <2>1, SteadyStep
  <2>3. Kept(r)
    BY <2>1, <2>2 DEF TreeStep, Kept, scanVars
  <2>4. QED
    BY <1>0, <2>3, ScanKept
<1>2. ASSUME NEW q \in Reqs \ {r}, Request(q) PROVE (FoundOK(r) /\ GoalOK(r) /\ AnswerOK(r))'
  <2>1. Kept(r)
    BY <1>0, <1>2, OthersUnchanged DEF Kept, treeVars
  <2>2. QED
    BY <1>0, <2>1, ScanKept
<1>3. CASE Request(r)
  BY <1>3, AnswerOwn
<1>4. CASE UNCHANGED vars
  <2>1. Kept(r)
    BY <1>4 DEF vars, treeVars, reqVars, scanVars, Kept
  <2>2. QED
    BY <1>0, <2>1, ScanKept
<1>5. QED
  BY <1>1, <1>2, <1>3, <1>4 DEF Next

(* ScanInv always holds. *)
LEMMA ScanInvHolds == Spec => []ScanInv
BY CacheInvHolds, ScanInit, ScanStep, PTL DEF Spec

(* A scan is hashed with the configuration of its own request throughout. *)
THEOREM ScansDoNotMix == Spec => []OneConfiguration
<1>1. ScanInv => OneConfiguration
  BY DEF ScanInv, FoundOK, OwnConfig, OneConfiguration
<1>2. QED
  BY <1>1, ScanInvHolds, PTL

(* A listing is right and complete for every path that did not change while *)
(* the request was under way, whatever changed beside it.                   *)
THEOREM ListingsAreRight == Spec => []ListingRight
<1>1. TypeInv /\ ScanInv => ListingRight
  <2> SUFFICES ASSUME TypeInv, ScanInv, NEW r \in Reqs, pc[r] = "listed",
                      NEW p \in steady[r] \ blurred
               PROVE  /\ tree[p].kind = "file" => Right(r, p) \in found[r]
                      /\ \A e \in found[r] : e.path = p => Regular(tree[p]) /\ e = Right(r, p)
    BY DEF ListingRight
  <2>0. FoundOK(r) /\ pos[r] \in 1 .. Len(Walk) + 1 /\ p \in Paths /\ pos[r] \notin DOMAIN Walk
    BY DEF TypeInv, ScanInv, ReqOK, FoundOK
  <2>1. PICK i \in DOMAIN Walk : p = Walk[i]
    BY <2>0, WalkFacts
  <2>2. i < pos[r]
    BY <2>0, <2>1, WalkFacts
  <2>3. tree[p].kind = "file" => Right(r, p) \in found[r]
    BY <2>0, <2>1, <2>2 DEF FoundOK, Complete
  <2>4. QED
    BY <2>0, <2>3 DEF FoundOK, EntryOK
<1>2. QED
  BY <1>1, CacheInvHolds, ScanInvHolds, PTL

(* A download that was not overtaken by a change serves what its URL names  *)
(* and nothing else; it is denied, or called ambiguous, only rightly.       *)
THEOREM DownloadsAreRight == Spec => []DownloadRight
<1>1. ScanInv => DownloadRight
  BY DEF ScanInv, AnswerOK, DownloadRight
<1>2. QED
  BY <1>1, ScanInvHolds, PTL
=============================================================================
