-------------------------- MODULE ReconcilerProofs --------------------------
(***************************************************************************)
(* Proofs about Reconciler, for every set of users, keys and versions, any *)
(* number of publications and restarts and every fault.  The last part is  *)
(* the correctness of the script itself: RunInv has the loop's invariant   *)
(* for runs that no publication disturbs.                                  *)
(***************************************************************************)
EXTENDS Reconciler, TLAPS

ShellType ==
  [i : Nat, count : Nat, user : Names \cup {BadName, NoName},
   keys : SUBSET Keys, keep : SUBSET Names, failures : BOOLEAN]

(* The part of the type invariant that is about the script's variables. *)
ShellOK ==
  /\ sh \in ShellType
  /\ sh.i <= sh.count
  /\ pc \in {"shape", "strings", "length", "keys", "account", "home", "write"} =>
       sh.user \in Names
  /\ pc \in {"user", "enabled", "shape", "strings", "length", "keys", "account", "home",
             "write"} => sh.i < sh.count
  /\ pc \in {"asleep", "check", "count"} => sh.i = 0

(* The loop's variables. *)
LoopOK ==
  /\ cur \in Docs \cup {NoFile, Never}
  /\ last \in Docs \cup {NoFile, Never}
  /\ status \in {"none", "ok", "failed", "aborted"}
  /\ pc \in {"asleep", "check", "count", "user", "enabled", "shape", "strings",
             "length", "keys", "account", "home", "write", "cleanup"}

(* The manifest and the effective state. *)
StateOK ==
  /\ file \in Docs \cup {NoFile}
  /\ versions \in 1 .. MaxVersions
  /\ seen \in SUBSET (Docs \cup {NoFile})
  /\ accounts \in SUBSET Names
  /\ homes \in SUBSET Names
  /\ eff \in [Names -> SUBSET Keys]
  /\ crashes \in 0 .. MaxCrashes
  /\ before \in [Names -> SUBSET Keys]
  /\ touched \in BOOLEAN /\ faulted \in BOOLEAN
  /\ failed \in SUBSET Names

TypeInv == ShellOK /\ LoopOK /\ StateOK

(* The inductive invariant gives the type invariant. *)
LEMMA TypeInvImpliesTypeOK == TypeInv => TypeOK
  BY DEF TypeInv, ShellOK, LoopOK, StateOK, TypeOK, ShellType

(* One jq yields an entry or null. *)
LEMMA ItemType ==
  ASSUME StateOK, ShellOK
  PROVE  /\ Item \in Entry \/ Item = Null
         /\ Item.name \in Names \cup {BadName, NoName}
         /\ AllValid(Item) => Item.keys \in SUBSET Keys
<1>1. ASSUME Readable, sh.i < Len(file) PROVE file[sh.i + 1] \in Entry
  <2>1. file \in Seq(Entry)
    BY <1>1, ConstantsAssumption DEF Readable, StateOK
  <2>2. sh.i \in Nat
    BY DEF ShellOK, ShellType
  <2> QED BY <1>1, <2>1, <2>2
<1>2. Item \in Entry \/ Item = Null
  BY <1>1 DEF Item
<1>3. Item.name \in Names \cup {BadName, NoName}
  BY <1>2 DEF Entry, Null
<1> QED BY <1>2, <1>3 DEF AllValid

(* A script that ends leaves its variables reset. *)
LEMMA EndType ==
  ASSUME LoopOK, StateOK, NEW how \in {"ok", "failed", "aborted"}, End(how)
  PROVE  ShellOK' /\ LoopOK'
  BY DEF End, Remembered, LoopOK, ShellOK, ShellType, Shell

(* The shell records the actions build. *)
LEMMA AdvanceRecord ==
  ASSUME NEW s \in ShellType, NEW keep \in SUBSET Names, NEW f \in BOOLEAN
  PROVE  [i |-> s.i + 1, count |-> s.count, user |-> NoName, keys |-> {},
          keep |-> keep, failures |-> f] \in ShellType
  BY DEF ShellType

(* The fields of the shell record have their types. *)
LEMMA FieldRecords ==
  ASSUME NEW s \in ShellType
  PROVE  /\ s.i \in Nat /\ s.count \in Nat /\ s.user \in Names \cup {BadName, NoName}
         /\ s.keys \in SUBSET Keys /\ s.keep \in SUBSET Names /\ s.failures \in BOOLEAN
         /\ \A n \in Nat : [s EXCEPT !.count = n] \in ShellType
         /\ \A u \in Names \cup {BadName, NoName} : [s EXCEPT !.user = u] \in ShellType
         /\ \A k \in SUBSET Keys : [s EXCEPT !.keys = k] \in ShellType
         /\ \A k \in SUBSET Names : [s EXCEPT !.keep = k] \in ShellType
  BY DEF ShellType

(* The step to the next user or to the cleanup. *)
LEMMA AdvanceType ==
  ASSUME ShellOK, LoopOK, sh.i < sh.count, NEW keep \in SUBSET Names, NEW f \in BOOLEAN,
         Advance(keep, f)
  PROVE  ShellOK' /\ LoopOK'
<1>1. sh' = [sh EXCEPT !.i = sh.i + 1, !.user = NoName, !.keys = {},
                       !.keep = keep, !.failures = f]
  BY DEF Advance
<1>s. sh \in ShellType
  BY DEF ShellOK
<1>n. sh.i \in Nat /\ sh.count \in Nat
  BY <1>s DEF ShellType
<1>r. sh' = [i |-> sh.i + 1, count |-> sh.count, user |-> NoName, keys |-> {},
             keep |-> keep, failures |-> f]
  BY <1>1, <1>s DEF ShellType
<1>2. sh' \in ShellType /\ sh'.i = sh.i + 1 /\ sh'.count = sh.count
  BY <1>r, <1>s, AdvanceRecord
<1>3. pc' = (IF sh.i + 1 < sh.count THEN "user" ELSE "cleanup")
  BY DEF Advance, HasNext
<1>4. ShellOK'
  BY <1>2, <1>3, <1>n DEF ShellOK
<1> QED BY <1>3, <1>4 DEF Advance, LoopOK, loopVars

(* Installing or dropping one user's keys keeps the key files well typed. *)
LEMMA EffType ==
  ASSUME StateOK, NEW u \in Names, NEW k \in SUBSET Keys, eff' = [eff EXCEPT ![u] = k]
  PROVE  eff' \in [Names -> SUBSET Keys]
  BY DEF StateOK

(* Every step keeps the types. *)
LEMMA TypeStep ==
  ASSUME TypeInv, [Next]_vars
  PROVE  TypeInv'
<1> USE DEF TypeInv
<1> SUFFICES ASSUME Next PROVE TypeInv'
  BY DEF vars, loopVars, ghosts, ShellOK, LoopOK, StateOK
<1>s. /\ sh \in ShellType /\ sh.i \in Nat /\ sh.count \in Nat
      /\ sh.keep \in SUBSET Names /\ sh.failures \in BOOLEAN /\ sh.keys \in SUBSET Keys
  BY FieldRecords DEF ShellOK
<1>k. sh.user \in Names => Kept \in SUBSET Names
  BY <1>s DEF Kept
<1>i. Item.name \in Names \cup {BadName, NoName} /\ (AllValid(Item) => Item.keys \in SUBSET Keys)
  BY ItemType
<1>1. CASE Publish
  <2>1. StateOK'
    BY <1>1, ConstantsAssumption DEF Publish, StateOK, ghosts
  <2>2. ShellOK' /\ LoopOK'
    BY <1>1 DEF Publish, ShellOK, LoopOK, loopVars
  <2> QED BY <2>1, <2>2
<1>2. CASE Poll \/ PollUnchanged
  BY <1>2 DEF Poll, PollUnchanged, vars, loopVars, ghosts, ShellOK, LoopOK, StateOK
<1>3. CASE Check
  <2>1. StateOK'
    BY <1>3 DEF Check, StateOK
  <2>2. ShellOK' /\ LoopOK'
    BY <1>3, EndType DEF Check, ShellOK, LoopOK, loopVars
  <2> QED BY <2>1, <2>2
<1>4. CASE Count
  <2>1. StateOK'
    BY <1>4 DEF Count, StateOK, ghosts
  <2>2. CASE ~Readable
    BY <1>4, <2>1, <2>2, EndType DEF Count
  <2>3. CASE Readable
    <3>1. Len(file) \in Nat /\ (file # <<>> => 0 < Len(file))
      BY <2>3, ConstantsAssumption DEF Readable, StateOK
    <3>2. sh' = [sh EXCEPT !.count = Len(file)] /\ pc' = (IF file = <<>> THEN "cleanup" ELSE "user")
          /\ UNCHANGED loopVars
      BY <1>4, <2>3 DEF Count
    <3>3. sh' \in ShellType /\ sh'.i = sh.i /\ sh'.count = Len(file)
      BY <1>s, <3>1, <3>2, FieldRecords DEF ShellType
    <3>4. sh.i = 0
      BY <1>4 DEF Count, ShellOK
    <3> QED BY <2>1, <3>1, <3>2, <3>3, <3>4 DEF ShellOK, LoopOK, loopVars
  <2> QED BY <2>2, <2>3
<1>5. CASE ReadUser
  <2>1. StateOK'
    BY <1>5 DEF ReadUser, StateOK, ghosts
  <2>2. CASE ~Readable
    BY <1>5, <2>1, <2>2, EndType DEF ReadUser
  <2>3. CASE Readable
    <3>1. /\ sh' = [sh EXCEPT !.user = Item.name] /\ pc' = "enabled" /\ pc = "user"
          /\ UNCHANGED loopVars
      BY <1>5, <2>3 DEF ReadUser
    <3>2. sh' \in ShellType /\ sh'.i = sh.i /\ sh'.count = sh.count
      BY <1>s, <1>i, <3>1, FieldRecords DEF ShellType
    <3> QED BY <2>1, <3>1, <3>2 DEF ShellOK, LoopOK, loopVars
  <2> QED BY <2>2, <2>3
<1>6. CASE ReadEnabled
  <2>0. sh.i < sh.count
    BY <1>6 DEF ReadEnabled, ShellOK
  <2>1. ASSUME eff' \in [Names -> SUBSET Keys] PROVE StateOK'
    BY <1>6, <2>1 DEF ReadEnabled, StateOK, ghosts
  <2>2. CASE ~Readable
    <3>1. End("aborted") /\ UNCHANGED eff
      BY <1>6, <2>2 DEF ReadEnabled
    <3> QED BY <2>1, <3>1, EndType DEF StateOK
  <2>3. CASE Readable /\ sh.user \notin Names
    <3>1. Advance(sh.keep, TRUE) /\ UNCHANGED eff
      BY <1>6, <2>3 DEF ReadEnabled
    <3> QED BY <1>s, <2>0, <2>1, <3>1, AdvanceType DEF StateOK
  <2>4. CASE Readable /\ sh.user \in Names /\ ~Item.enabled
    <3>1. Advance(sh.keep, sh.failures) /\ eff' = [eff EXCEPT ![sh.user] = {}]
      BY <1>6, <2>4 DEF ReadEnabled, DropKeys
    <3>2. eff' \in [Names -> SUBSET Keys]
      BY <2>4, <3>1, EffType
    <3> QED BY <1>s, <2>0, <2>1, <3>1, <3>2, AdvanceType
  <2>5. CASE Readable /\ sh.user \in Names /\ Item.enabled
    <3>1. pc' = "shape" /\ UNCHANGED <<eff, sh, loopVars>>
      BY <1>6, <2>5 DEF ReadEnabled
    <3> QED BY <2>0, <2>1, <2>5, <3>1 DEF ShellOK, LoopOK, StateOK, loopVars
  <2> QED BY <2>2, <2>3, <2>4, <2>5
<1>7. CASE CheckShape \/ CheckStrings
  <2>0. sh.i < sh.count /\ sh.user \in Names
    BY <1>7 DEF CheckShape, CheckStrings, ShellOK
  <2>1. StateOK'
    BY <1>7 DEF CheckShape, CheckStrings, StateOK, ghosts
  <2>2. CASE Advance(Kept, TRUE)
    BY <1>k, <2>0, <2>1, <2>2, AdvanceType
  <2>3. CASE pc' \in {"strings", "length"} /\ UNCHANGED <<sh, loopVars>>
    BY <2>0, <2>1, <2>3 DEF ShellOK, LoopOK, loopVars
  <2> QED BY <1>7, <2>2, <2>3 DEF CheckShape, CheckStrings
<1>8. CASE CheckLength
  <2>0. sh.i < sh.count /\ sh.user \in Names
    BY <1>8 DEF CheckLength, ShellOK
  <2>1. ASSUME eff' \in [Names -> SUBSET Keys] PROVE StateOK'
    BY <1>8, <2>1 DEF CheckLength, StateOK, ghosts
  <2>2. CASE DropKeys(sh.user) /\ Advance(sh.keep, sh.failures)
    <3>1. eff' \in [Names -> SUBSET Keys]
      BY <2>0, <2>2, EffType DEF DropKeys
    <3> QED BY <1>s, <2>0, <2>1, <2>2, <3>1, AdvanceType
  <2>3. CASE pc' = "keys" /\ sh' = [sh EXCEPT !.keep = Kept] /\ UNCHANGED <<eff, loopVars>>
    <3>1. /\ sh' \in ShellType
          /\ sh'.i = sh.i /\ sh'.count = sh.count /\ sh'.user = sh.user
      BY <1>s, <1>k, <2>0, <2>3, FieldRecords DEF ShellType
    <3> QED BY <2>0, <2>1, <2>3, <3>1 DEF ShellOK, LoopOK, StateOK, loopVars
  <2> QED BY <1>8, <2>2, <2>3 DEF CheckLength
<1>9. CASE ReadKeys
  <2>0. sh.i < sh.count /\ sh.user \in Names
    BY <1>9 DEF ReadKeys, ShellOK
  <2>1. StateOK'
    BY <1>9 DEF ReadKeys, StateOK, ghosts
  <2>2. CASE End("aborted")
    BY <2>1, <2>2, EndType
  <2>3. CASE Advance(sh.keep, TRUE)
    BY <1>s, <2>0, <2>1, <2>3, AdvanceType
  <2>4. CASE AllValid(Item) /\ sh' = [sh EXCEPT !.keys = Item.keys] /\ pc' = "account"
             /\ UNCHANGED loopVars
    <3>1. /\ sh' \in ShellType
          /\ sh'.i = sh.i /\ sh'.count = sh.count /\ sh'.user = sh.user
      BY <1>s, <1>i, <2>4, FieldRecords DEF ShellType
    <3> QED BY <2>0, <2>1, <2>4, <3>1 DEF ShellOK, LoopOK, loopVars
  <2> QED BY <1>9, <2>2, <2>3, <2>4 DEF ReadKeys
<1>10. CASE EnsureAccount
  <2>0. sh.i < sh.count /\ sh.user \in Names
    BY <1>10 DEF EnsureAccount, ShellOK
  <2>1. StateOK'
    BY <1>10, <2>0 DEF EnsureAccount, ProvisionFails, StateOK, ghosts
  <2>2. CASE Advance(sh.keep, TRUE)
    BY <1>s, <2>0, <2>1, <2>2, AdvanceType
  <2>3. CASE pc' = "home" /\ UNCHANGED <<sh, loopVars>>
    BY <2>0, <2>1, <2>3 DEF ShellOK, LoopOK, loopVars
  <2> QED BY <1>10, <2>2, <2>3 DEF EnsureAccount, ProvisionFails
<1>11. CASE EnsureUserDir
  <2>0. sh.i < sh.count /\ sh.user \in Names
    BY <1>11 DEF EnsureUserDir, ShellOK
  <2>1. StateOK'
    BY <1>11, <2>0 DEF EnsureUserDir, ProvisionFails, StateOK, ghosts
  <2>2. CASE Advance(sh.keep, TRUE)
    BY <1>s, <2>0, <2>1, <2>2, AdvanceType
  <2>3. CASE pc' = "write" /\ UNCHANGED <<sh, loopVars>>
    BY <2>0, <2>1, <2>3 DEF ShellOK, LoopOK, loopVars
  <2> QED BY <1>11, <2>2, <2>3 DEF EnsureUserDir, ProvisionFails
<1>12. CASE WriteKeys
  <2>0. sh.i < sh.count /\ sh.user \in Names
    BY <1>12 DEF WriteKeys, ShellOK
  <2>1. ASSUME eff' \in [Names -> SUBSET Keys] PROVE StateOK'
    BY <1>12, <2>1 DEF WriteKeys, StateOK, ghosts
  <2>2. CASE eff' = [eff EXCEPT ![sh.user] = sh.keys] /\ Advance(sh.keep, sh.failures)
    <3>1. eff' \in [Names -> SUBSET Keys]
      BY <1>s, <2>0, <2>2, EffType
    <3> QED BY <1>s, <2>0, <2>1, <2>2, <3>1, AdvanceType
  <2>3. CASE End("aborted") /\ UNCHANGED eff
    BY <2>1, <2>3, EndType DEF StateOK
  <2> QED BY <1>12, <2>2, <2>3 DEF WriteKeys
<1>13. CASE Cleanup
  <2>1. eff' \in [Names -> SUBSET Keys]
    BY <1>13 DEF Cleanup, StateOK
  <2>2. StateOK'
    BY <1>13, <2>1 DEF Cleanup, StateOK, ghosts
  <2>3. ExitStatus \in {"ok", "failed", "aborted"} /\ End(ExitStatus)
    BY <1>13 DEF Cleanup, ExitStatus
  <2> QED BY <2>2, <2>3, EndType
<1>14. CASE Crash
  <2>1. StateOK'
    BY <1>14, ConstantsAssumption DEF Crash, StateOK, ghosts
  <2>2. ShellOK' /\ LoopOK'
    BY <1>14 DEF Crash, ShellOK, ShellType, Shell, LoopOK
  <2> QED BY <2>1, <2>2
<1> QED
  BY <1>1, <1>2, <1>3, <1>4, <1>5, <1>6, <1>7, <1>8, <1>9, <1>10, <1>11, <1>12, <1>13, <1>14
  DEF Next, Script

(* The inductive invariant holds at first. *)
LEMMA TypeInit == Init => TypeInv
<1> SUFFICES ASSUME Init PROVE TypeInv
  OBVIOUS
<1>1. ShellOK
  BY DEF Init, ShellOK, ShellType, Shell
<1>2. LoopOK
  BY DEF Init, LoopOK
<1>3. StateOK
  <2>1. eff \in [Names -> SUBSET Keys] /\ before \in [Names -> SUBSET Keys]
    BY DEF Init
  <2>2. versions \in 1 .. MaxVersions /\ crashes \in 0 .. MaxCrashes
    BY ConstantsAssumption DEF Init
  <2>3. seen \in SUBSET (Docs \cup {NoFile}) /\ touched \in BOOLEAN /\ faulted \in BOOLEAN
    BY DEF Init
  <2> QED BY <2>1, <2>2, <2>3 DEF Init, StateOK
<1> QED BY <1>1, <1>2, <1>3 DEF TypeInv

(* The inductive invariant always holds. *)
LEMMA TypeInvariant == Spec => []TypeInv
  BY TypeInit, TypeStep, PTL DEF Spec

(* Whatever is published while the script runs, every variable keeps its type: *)
(* the index stays within the count that was read, a user past the name check  *)
(* has a valid name, and no key file holds anything but valid keys.            *)
THEOREM TypeCorrect == Spec => []TypeOK
  BY TypeInvariant, TypeInvImpliesTypeOK, PTL

-----------------------------------------------------------------------------
(* KeyFileHasHome is not inductive: a run about to write needs to know that *)
(* it has provisioned this very user.                                       *)
HomeInv ==
  /\ KeyFileHasHome
  /\ pc \in {"home", "write"} => sh.user \in accounts
  /\ pc = "write" => sh.user \in homes

(* A step that only drops keys and leaves the script elsewhere keeps it. *)
LEMMA HomeUnlessWriting ==
  ASSUME HomeInv, accounts \subseteq accounts', homes \subseteq homes',
         \A u \in Names : eff'[u] = eff[u] \/ eff'[u] = {},
         pc' \notin {"home", "write"}
  PROVE  HomeInv'
  BY DEF HomeInv, KeyFileHasHome

(* drop_keys only takes key files away. *)
LEMMA DroppedKeys ==
  ASSUME StateOK, NEW v \in Names, DropKeys(v)
  PROVE  \A u \in Names : eff'[u] = eff[u] \/ eff'[u] = {}
  BY DEF StateOK, DropKeys

(* Ending the script or going to the next entry leads to no step that writes. *)
LEMMA Elsewhere ==
  /\ \A how : End(how) => pc' \notin {"home", "write"}
  /\ \A keep, f : Advance(keep, f) => pc' \notin {"home", "write"}
  BY DEF End, Advance

(* Every step keeps HomeInv. *)
LEMMA HomeStep ==
  ASSUME TypeInv, HomeInv, [Next]_vars
  PROVE  HomeInv'
<1> USE DEF TypeInv
<1>1. CASE Publish \/ PollUnchanged \/ UNCHANGED vars
  BY <1>1 DEF Publish, PollUnchanged, vars, HomeInv, KeyFileHasHome
<1>2. CASE Poll \/ Crash \/ Check \/ Count \/ ReadUser \/ CheckShape \/ CheckStrings \/ ReadKeys
  <2>1. UNCHANGED <<accounts, homes, eff>>
    BY <1>2 DEF Poll, Crash, Check, Count, ReadUser, CheckShape, CheckStrings, ReadKeys
  <2>2. pc' \notin {"home", "write"}
    BY <1>2, Elsewhere
    DEF Poll, Crash, Check, Count, ReadUser, CheckShape, CheckStrings, ReadKeys
  <2> QED BY <2>1, <2>2, HomeUnlessWriting
<1>3. CASE ReadEnabled \/ CheckLength
  <2>1. UNCHANGED <<accounts, homes>> /\ pc' \notin {"home", "write"}
    BY <1>3, Elsewhere DEF ReadEnabled, CheckLength
  <2>2. UNCHANGED eff \/ (sh.user \in Names /\ DropKeys(sh.user))
    BY <1>3 DEF ReadEnabled, CheckLength, ShellOK
  <2>3. \A u \in Names : eff'[u] = eff[u] \/ eff'[u] = {}
    BY <2>2, DroppedKeys
  <2> QED BY <2>1, <2>3, HomeUnlessWriting
<1>4. CASE EnsureAccount
  <2>1. /\ accounts \subseteq accounts' /\ homes' = homes /\ eff' = eff
        /\ pc' # "write"
        /\ pc' = "home" => sh' = sh /\ sh.user \in accounts'
    BY <1>4, Elsewhere DEF EnsureAccount, ProvisionFails
  <2> QED BY <2>1 DEF HomeInv, KeyFileHasHome
<1>5. CASE EnsureUserDir
  <2>1. /\ homes \subseteq homes' /\ accounts' = accounts /\ eff' = eff
        /\ pc' # "home"
        /\ pc' = "write" => sh' = sh /\ sh.user \in homes'
        /\ sh.user \in accounts
    BY <1>5, Elsewhere DEF EnsureUserDir, ProvisionFails, HomeInv
  <2> QED BY <2>1 DEF HomeInv, KeyFileHasHome
<1>6. CASE WriteKeys
  <2>1. sh.user \in Names /\ sh.user \in accounts /\ sh.user \in homes
    BY <1>6 DEF WriteKeys, HomeInv, ShellOK
  <2>2. \A u \in Names : u # sh.user => eff'[u] = eff[u]
    BY <1>6 DEF WriteKeys, StateOK
  <2>3. UNCHANGED <<accounts, homes>> /\ pc' \notin {"home", "write"}
    BY <1>6, Elsewhere DEF WriteKeys
  <2> QED BY <2>1, <2>2, <2>3 DEF HomeInv, KeyFileHasHome
<1>7. CASE Cleanup
  <2>1. \A u \in Names : eff'[u] = eff[u] \/ eff'[u] = {}
    BY <1>7 DEF Cleanup
  <2>2. UNCHANGED <<accounts, homes>> /\ pc' \notin {"home", "write"}
    BY <1>7, Elsewhere DEF Cleanup
  <2> QED BY <2>1, <2>2, HomeUnlessWriting
<1> QED BY <1>1, <1>2, <1>3, <1>4, <1>5, <1>6, <1>7 DEF Next, Script

(* Whoever can log in has an account and a directory in the share, for every   *)
(* manifest, interleaving, crash and provisioning failure: write_keys is only  *)
(* reached behind ensure_account and ensure_user_dir of the same user.         *)
THEOREM LoginNeedsHome == Spec => []KeyFileHasHome
<1>1. Init => HomeInv
  BY DEF Init, HomeInv, KeyFileHasHome
<1>2. HomeInv => KeyFileHasHome
  BY DEF HomeInv
<1> QED BY <1>1, <1>2, TypeInvariant, HomeStep, PTL DEF Spec

-----------------------------------------------------------------------------
(* What the script makes of an entry: it revokes, refuses or installs. *)
Revoking(e) == ~e.enabled \/ (e.shape = "strings" /\ e.keys = {})
Refusing(e) == ~Revoking(e) /\ ~AllValid(e)

Keeping == {"keys", "account", "home", "write"}
Looping == {"user", "enabled", "shape", "strings", "length"} \cup Keeping

(* A user whose entry e has been dealt with: revoked and off the keep list; *)
(* or on it, with its old keys and a failure counted, or with its new ones. *)
Done(u, e) ==
  /\ Revoking(e) => eff[u] = {} /\ u \notin sh.keep /\ u \notin failed
  /\ ~Revoking(e) => u \in sh.keep
  /\ Refusing(e) => eff[u] = before[u] /\ sh.failures /\ u \notin failed
  /\ ~Revoking(e) /\ ~Refusing(e) =>
       \/ u \in failed /\ eff[u] = before[u] /\ sh.failures
       \/ u \notin failed /\ eff[u] = e.keys

(* A user the loop has not finished with. *)
Untouched(u) ==
  /\ eff[u] = before[u] /\ u \notin failed
  /\ u \in sh.keep => pc \in Keeping /\ u = Item.name

(* The loop has dealt with the entries before its index, and only with them. *)
LoopInv ==
  /\ Readable /\ sh.count = Len(file)
  /\ \A j \in 1 .. sh.i : file[j].name \in Names => Done(file[j].name, file[j])
  /\ \A u \in Names : (\A j \in 1 .. sh.i : file[j].name # u) => Untouched(u)

(* What the jqs that have been run say about the entry at the index. *)
EntryInv ==
  /\ pc \in Looping \ {"user"} => sh.user = Item.name
  /\ pc \in {"shape", "strings", "length"} \cup Keeping => Item.enabled
  /\ pc \in {"strings", "length"} \cup Keeping => Item.shape # "missing"
  /\ pc \in {"length"} \cup Keeping => Item.shape = "strings"
  /\ pc \in Keeping => Item.keys # {} /\ Item.name \in sh.keep
  /\ pc \in Keeping \ {"keys"} => AllValid(Item) /\ sh.keys = Item.keys

(* In a run during which nothing was published the loop invariant holds, and *)
(* the run has its result when it ends.                                      *)
RunInv ==
  ~touched =>
    /\ pc = "count" => Readable /\ eff = before /\ failed = {} /\ sh = Shell
    /\ pc \in Looping \cup {"cleanup"} => LoopInv /\ EntryInv
    /\ pc = "cleanup" => sh.i = sh.count
    /\ RunMatches /\ ExitZeroMatches

(* The entry at the index: its user, if it has one, is not the user of an   *)
(* earlier entry, and has not been touched.                                 *)
LEMMA Current ==
  ASSUME TypeInv, LoopInv, sh.i < sh.count
  PROVE  /\ sh.i \in Nat /\ sh.i + 1 \in 1 .. Len(file)
         /\ Item = file[sh.i + 1] /\ Item \in Entry
         /\ \A j \in 1 .. sh.i : file[j].name \in Names => file[j].name # Item.name
         /\ Item.name \in Names => Untouched(Item.name)
<1>1. file \in Docs \ {Broken} /\ file \in Seq(Entry)
  BY ConstantsAssumption DEF TypeInv, StateOK, LoopInv, Readable
<1>2. sh.i \in Nat /\ sh.count \in Nat /\ sh.i < Len(file) /\ Len(file) \in Nat
  BY <1>1, FieldRecords DEF TypeInv, ShellOK, LoopInv
<1>3. sh.i + 1 \in 1 .. Len(file) /\ DOMAIN file = 1 .. Len(file)
  BY <1>1, <1>2
<1>4. Item = file[sh.i + 1] /\ Item \in Entry
  BY <1>1, <1>2, <1>3 DEF Item, LoopInv
<1>5. ASSUME NEW j \in 1 .. sh.i, file[j].name \in Names PROVE file[j].name # Item.name
  <2>1. j \in DOMAIN file /\ sh.i + 1 \in DOMAIN file /\ j # sh.i + 1
    BY <1>2, <1>3
  <2>2. file[j].name # BadName
    BY <1>5, ConstantsAssumption
  <2>3. ASSUME NEW a \in DOMAIN file, NEW b \in DOMAIN file,
               file[a].name = file[b].name, file[a].name # BadName
        PROVE  a = b
    BY <1>1, <2>3, ConstantsAssumption
  <2> QED BY <1>4, <2>1, <2>2, <2>3
<1>6. ASSUME Item.name \in Names PROVE Untouched(Item.name)
  BY <1>5, <1>6 DEF LoopInv
<1> QED BY <1>2, <1>3, <1>4, <1>5, <1>6

(* The fields that going to the next user sets. *)
LEMMA AdvanceFields ==
  ASSUME TypeInv, NEW keep, NEW f, Advance(keep, f)
  PROVE  /\ sh'.i = sh.i + 1 /\ sh'.count = sh.count /\ sh'.keep = keep
         /\ sh'.failures = f
         /\ pc' = IF sh.i + 1 < sh.count THEN "user" ELSE "cleanup"
  BY DEF Advance, HasNext, TypeInv, ShellOK, ShellType

(* Going on to the next user once this one has been dealt with. *)
LEMMA AdvanceRun ==
  ASSUME TypeInv, LoopInv, sh.i < sh.count, NEW keep, NEW f \in BOOLEAN, Advance(keep, f),
         UNCHANGED <<file, before>>, sh.failures => f,
         \A u \in Names : u # Item.name =>
           eff'[u] = eff[u] /\ (u \in failed' <=> u \in failed) /\ (u \in keep <=> u \in sh.keep),
         \A u \in Names, e \in Entry : u = Item.name /\ e = Item => Done(u, e)'
  PROVE  RunInv'
<1> DEFINE v == Item.name
<1>c. /\ sh.i \in Nat /\ sh.i + 1 \in 1 .. Len(file) /\ Item = file[sh.i + 1]
      /\ \A j \in 1 .. sh.i : file[j].name \in Names => file[j].name # v
  BY Current
<1>a. /\ sh'.i = sh.i + 1 /\ sh'.count = sh.count /\ sh'.keep = keep
      /\ sh'.failures = f
      /\ pc' = IF sh.i + 1 < sh.count THEN "user" ELSE "cleanup"
  BY AdvanceFields
<1>n. sh.count \in Nat
  BY FieldRecords DEF TypeInv, ShellOK
<1>1. Readable' /\ sh'.count = Len(file')
  BY <1>a DEF LoopInv, Readable
<1>2. ASSUME NEW j \in 1 .. sh'.i, file[j].name \in Names
      PROVE  Done(file[j].name, file[j])'
  <2>1. CASE j = sh.i + 1
    <3>1. PICK u \in Names, e \in Entry : u = Item.name /\ e = Item
      BY <1>2, <1>c, <2>1, Current
    <3>2. Done(u, e)' /\ file'[j] = e /\ file'[j].name = u
      BY <1>c, <2>1, <3>1
    <3> QED BY <3>2 DEF Done
  <2>2. CASE j # sh.i + 1
    <3>1. j \in 1 .. sh.i /\ file[j].name # v
      BY <1>2, <1>a, <1>c, <2>2
    <3>2. Done(file[j].name, file[j])
      BY <1>2, <3>1 DEF LoopInv
    <3>3. PICK u \in Names : u = file[j].name /\ u # v /\ file'[j] = file[j]
      BY <1>2, <3>1
    <3>4. /\ eff'[u] = eff[u] /\ (u \in failed' <=> u \in failed)
          /\ u \in sh'.keep <=> u \in sh.keep
          /\ before'[u] = before[u] /\ (sh.failures => sh'.failures)
      BY <1>a, <3>3
    <3> QED BY <3>2, <3>3, <3>4 DEF Done, Revoking, Refusing, AllValid
  <2> QED BY <2>1, <2>2
<1>3. ASSUME NEW u \in Names, \A j \in 1 .. sh'.i : file[j].name # u
      PROVE  Untouched(u)'
  <2>1. u # v /\ \A j \in 1 .. sh.i : file[j].name # u
    BY <1>3, <1>a, <1>c
  <2>2. Untouched(u)
    BY <2>1 DEF LoopInv
  <2>3. u \notin keep
    BY <2>1, <2>2 DEF Untouched
  <2> QED BY <1>a, <2>1, <2>2, <2>3 DEF Untouched
<1>4. LoopInv'
  BY <1>1, <1>2, <1>3 DEF LoopInv
<1>5. EntryInv'
  BY <1>a DEF EntryInv, Looping, Keeping
<1>6. pc' = "cleanup" => sh'.i = sh'.count
  BY <1>a, <1>c, <1>n
<1> QED BY <1>4, <1>5, <1>6, <1>a DEF RunInv, RunMatches, ExitZeroMatches

(* Learning more about the user at the index touches no user. *)
LEMMA LearnRun ==
  ASSUME TypeInv, LoopInv, sh.i < sh.count, UNCHANGED <<file, eff, before, failed>>,
         sh'.i = sh.i, sh'.count = sh.count, sh'.failures = sh.failures,
         \A u \in Names : u # Item.name => (u \in sh'.keep <=> u \in sh.keep),
         Item.name \in sh'.keep => pc' \in Keeping,
         pc' \in Looping
  PROVE  LoopInv' /\ Item' = Item
<1> DEFINE v == Item.name
<1>c. /\ sh.i \in Nat /\ sh.i + 1 \in 1 .. Len(file) /\ Item = file[sh.i + 1]
      /\ \A j \in 1 .. sh.i : file[j].name \in Names => file[j].name # v
  BY Current
<1>0. Item' = Item
  BY DEF Item, Readable
<1>1. Readable' /\ sh'.count = Len(file')
  BY DEF LoopInv, Readable
<1>2. ASSUME NEW j \in 1 .. sh.i, file[j].name \in Names
      PROVE  Done(file[j].name, file[j])'
  <2>1. file[j].name # v /\ Done(file[j].name, file[j])
    BY <1>2, <1>c DEF LoopInv
  <2>2. PICK u \in Names : u = file[j].name /\ u # v /\ file'[j] = file[j]
    BY <1>2, <2>1
  <2>3. /\ eff'[u] = eff[u] /\ (u \in failed' <=> u \in failed)
        /\ u \in sh'.keep <=> u \in sh.keep
        /\ before'[u] = before[u]
    BY <2>2
  <2> QED BY <2>1, <2>2, <2>3 DEF Done, Revoking, Refusing, AllValid
<1>3. ASSUME NEW u \in Names, \A j \in 1 .. sh.i : file[j].name # u
      PROVE  Untouched(u)'
  <2>1. Untouched(u)
    BY <1>3 DEF LoopInv
  <2>2. CASE u = v
    BY <1>0, <2>1, <2>2 DEF Untouched
  <2>3. CASE u # v
    BY <1>0, <2>1, <2>3 DEF Untouched
  <2> QED BY <2>2, <2>3
<1> QED BY <1>0, <1>1, <1>2, <1>3 DEF LoopInv

(* A user whose entry the loop has dealt with has what the version says; who *)
(* is off the keep list has nothing, and failures are counted.               *)
LEMMA DoneMatches ==
  ASSUME TypeInv, LoopInv, NEW u \in Names, \E j \in 1 .. sh.i : file[j].name = u
  PROVE  /\ eff[u] = Result(u)
         /\ u \notin sh.keep => eff[u] = {}
         /\ u \in failed \/ Malformed(file, u) => sh.failures
<1>1. file \in Docs \ {Broken} /\ file \in Seq(Entry) /\ file \notin {NoFile, Broken}
  BY ConstantsAssumption DEF TypeInv, StateOK, LoopInv, Readable
<1>2. 1 .. sh.i \subseteq DOMAIN file
  BY <1>1, FieldRecords DEF TypeInv, ShellOK, LoopInv
<1>3. PICK j \in 1 .. sh.i : file[j].name = u
  OBVIOUS
<1> DEFINE e == file[j]
<1>4. Done(u, e) /\ e \in Entry
  BY <1>1, <1>2, <1>3 DEF LoopInv
<1>5. EntriesOf(file, u) = {e}
  <2>1. ASSUME NEW k \in DOMAIN file, file[k].name = u PROVE k = j
    <3>1. file[k].name = file[j].name /\ file[k].name # BadName /\ j \in DOMAIN file
      BY <1>1, <1>2, <1>3, <2>1, ConstantsAssumption
    <3> QED BY <1>1, <3>1, ConstantsAssumption
  <2>2. {k \in DOMAIN file : file[k].name = u} = {j}
    BY <1>2, <1>3, <2>1
  <2> QED BY <2>2 DEF EntriesOf
<1> HIDE DEF e
<1>6. Granted(file, u) = IF e.enabled THEN e.keys ELSE {}
  <2>1. {x \in EntriesOf(file, u) : x.enabled} = IF e.enabled THEN {e} ELSE {}
    BY <1>5
  <2>2. CASE e.enabled
    BY <2>1, <2>2 DEF Granted
  <2>3. CASE ~e.enabled
    BY <2>1, <2>3 DEF Granted
  <2> QED BY <2>2, <2>3
<1>7. Malformed(file, u) <=> Refusing(e)
  <2>1. Malformed(file, u) <=> /\ e.enabled /\ ~AllValid(e)
                               /\ e.shape = "strings" => e.keys # {}
    BY <1>5 DEF Malformed
  <2> QED BY <2>1 DEF Refusing, Revoking
<1>8. CASE Revoking(e)
  <2>1. Granted(file, u) = {}
    BY <1>6, <1>8 DEF Revoking
  <2> QED BY <1>1, <1>4, <1>7, <1>8, <2>1 DEF Done, Refusing, Result
<1>9. CASE Refusing(e)
  BY <1>1, <1>4, <1>7, <1>9 DEF Done, Refusing, Result
<1>10. CASE ~Revoking(e) /\ ~Refusing(e)
  <2>1. Granted(file, u) = e.keys
    BY <1>6, <1>10 DEF Revoking
  <2> QED BY <1>1, <1>4, <1>7, <1>10, <2>1 DEF Done, Result
<1> QED BY <1>8, <1>9, <1>10

(* The result of a user depends on the version and on the ghosts only. *)
LEMMA SameResult ==
  ASSUME UNCHANGED <<file, before, failed>>, NEW u \in Names
  PROVE  Result(u)' = Result(u)
  BY DEF Result, Malformed, Granted, EntriesOf, AllValid

(* A script cut short while the loop invariant held has done with the users  *)
(* before its index and touched no other.                                    *)
LEMMA AbortedRun ==
  ASSUME TypeInv, LoopInv, sh.i < sh.count, End("aborted"), UNCHANGED <<file, eff, before, failed>>
  PROVE  RunInv'
<1>1. file \in Docs \ {Broken} /\ file \in Seq(Entry) /\ Readable
  BY ConstantsAssumption DEF TypeInv, StateOK, LoopInv, Readable
<1>2. /\ sh.i \in Nat /\ sh.i + 1 \in DOMAIN file /\ (sh.i + 1) - 1 = sh.i
  BY <1>1, FieldRecords DEF TypeInv, ShellOK, LoopInv
<1>3. ASSUME NEW u \in Names
      PROVE  eff'[u] = IF \E j \in 1 .. (sh.i + 1) - 1 : file'[j].name = u
                         THEN Result(u)' ELSE before'[u]
  <2>1. CASE \E j \in 1 .. sh.i : file[j].name = u
    <3>1. eff[u] = Result(u)
      BY <2>1, DoneMatches
    <3> QED BY <1>2, <2>1, <3>1, SameResult
  <2>2. CASE \A j \in 1 .. sh.i : file[j].name # u
    <3>1. eff[u] = before[u]
      BY <2>2 DEF LoopInv, Untouched
    <3> QED BY <1>2, <2>2, <3>1
  <2> QED BY <2>1, <2>2
<1>4. pc' = "asleep" /\ status' = "aborted" /\ Readable'
  BY <1>1 DEF End, Readable
<1>5. sh.i + 1 \in DOMAIN file'
  BY <1>2
<1>6. RunMatches'
  BY <1>3, <1>4, <1>5 DEF RunMatches
<1> QED BY <1>4, <1>6 DEF RunInv, ExitZeroMatches, Looping, Keeping

(* What the run has made of u when the loop is over is what the version says. *)
LEMMA CleanupRun ==
  ASSUME TypeInv, LoopInv, EntryInv, sh.i = sh.count, pc = "cleanup", Cleanup, NEW u \in Names
  PROVE  /\ eff'[u] = Result(u)
         /\ u \in failed \/ Malformed(file, u) => sh.failures
<1>1. file \in Docs \ {Broken} /\ file \in Seq(Entry) /\ DOMAIN file = 1 .. sh.i
  BY ConstantsAssumption DEF TypeInv, StateOK, LoopInv, Readable
<1>2. eff'[u] = IF u \in sh.keep THEN eff[u] ELSE {}
  BY DEF Cleanup
<1>3. CASE \A j \in 1 .. sh.i : file[j].name # u
  <2>1. EntriesOf(file, u) = {}
    BY <1>1, <1>3 DEF EntriesOf
  <2>2. ~Malformed(file, u) /\ Granted(file, u) = {}
    BY <2>1 DEF Malformed, Granted
  <2>3. u \notin failed /\ u \notin sh.keep
    BY <1>3 DEF LoopInv, Untouched, Keeping
  <2> QED BY <1>1, <1>2, <2>2, <2>3 DEF Result, LoopInv, Readable
<1>4. CASE \E j \in 1 .. sh.i : file[j].name = u
  BY <1>2, <1>4, DoneMatches
<1> QED BY <1>3, <1>4

(* Between runs the script's variables do not exist: a run starts from none. *)
ShellReset == pc \in {"asleep", "check"} => sh = Shell

(* A run ends by End and begins as it was left, or by Crash. *)
LEMMA ShellResetStep ==
  ASSUME ShellReset, [Next]_vars
  PROVE  ShellReset'
<1>1. ASSUME NEW how, End(how) PROVE ShellReset'
  BY <1>1 DEF End, ShellReset
<1>2. ASSUME NEW keep, NEW f, Advance(keep, f) PROVE ShellReset'
  BY <1>2 DEF Advance, ShellReset
<1>3. CASE Publish \/ Poll \/ PollUnchanged \/ Crash \/ UNCHANGED vars
  BY <1>3 DEF Publish, Poll, PollUnchanged, Crash, vars, ShellReset
<1>4. CASE Script
  BY <1>1, <1>2, <1>4 DEF Script, Check, Count, ReadUser, ReadEnabled, CheckShape, CheckStrings,
     CheckLength, ReadKeys, EnsureAccount, EnsureUserDir, ProvisionFails, WriteKeys, Cleanup,
     ShellReset
<1> QED BY <1>3, <1>4 DEF Next

(* Every step of a run keeps its invariant, and the last one establishes the *)
(* result.                                                                   *)
LEMMA RunStep ==
  ASSUME TypeInv, TypeInv', ShellReset, RunInv, [Next]_vars
  PROVE  RunInv'
<1>0. touched' => RunInv'
  BY DEF RunInv
<1>s. /\ sh \in ShellType /\ sh.i \in Nat /\ sh.count \in Nat /\ sh.failures \in BOOLEAN
  BY FieldRecords DEF TypeInv, ShellOK
<1>l. ASSUME ~touched, pc \in Looping
      PROVE  /\ LoopInv /\ EntryInv /\ sh.i < sh.count /\ Readable
             /\ Item \in Entry /\ Item.name \in Names \cup {BadName}
             /\ Item.name \in Names => Untouched(Item.name)
  <2>1. LoopInv /\ EntryInv /\ sh.i < sh.count
    BY <1>l DEF RunInv, TypeInv, ShellOK, Looping, Keeping
  <2>2. Item \in Entry /\ (Item.name \in Names => Untouched(Item.name))
    BY <2>1, Current
  <2> QED BY <2>1, <2>2 DEF LoopInv, Entry
<1>e. ASSUME NEW x \in Looping, pc' = x, ~touched, LoopInv', EntryInv' PROVE RunInv'
  BY <1>e DEF RunInv, RunMatches, ExitZeroMatches, Looping, Keeping
<1>1. CASE Publish
  BY <1>0, <1>1 DEF Publish
<1>2. CASE PollUnchanged \/ UNCHANGED vars
  <2>1. UNCHANGED vars
    BY <1>2 DEF PollUnchanged
  <2>2. UNCHANGED <<file, eff, pc, sh, touched, status, before, failed>>
    BY <2>1 DEF vars, loopVars, ghosts
  <2>3. Item' = Item /\ (Readable' <=> Readable)
    BY <2>2 DEF Item, Readable
  <2>4. LoopInv => LoopInv'
    BY <2>2, <2>3 DEF LoopInv, Done, Untouched, Revoking, Refusing, AllValid
  <2>5. EntryInv => EntryInv'
    BY <2>2, <2>3 DEF EntryInv, AllValid
  <2>6. RunMatches /\ ExitZeroMatches => RunMatches' /\ ExitZeroMatches'
    <3>1. \A u \in Names : (Malformed(file, u)' <=> Malformed(file, u))
                           /\ Granted(file, u)' = Granted(file, u)
      BY <2>2 DEF Malformed, Granted, EntriesOf, AllValid
    <3>2. \A u \in Names : Result(u)' = Result(u)
      BY <2>2, SameResult
    <3> QED BY <2>2, <2>3, <3>1, <3>2 DEF RunMatches, ExitZeroMatches
  <2> QED BY <2>2, <2>3, <2>4, <2>5, <2>6 DEF RunInv
<1>3. CASE Poll \/ Crash
  BY <1>3 DEF Poll, Crash, RunInv, RunMatches, ExitZeroMatches, Looping, Keeping
<1>4. CASE Check
  <2>1. CASE file = NoFile
    <3>1. pc' = "asleep" /\ status' = "ok" /\ UNCHANGED <<file, eff>> /\ before' = eff
      BY <1>4, <2>1 DEF Check, End
    <3> QED BY <2>1, <3>1 DEF RunInv, RunMatches, Result, ExitZeroMatches, Looping, Keeping
  <2>2. CASE file = Broken
    <3>1. pc' = "asleep" /\ status' = "failed" /\ UNCHANGED <<file, eff>> /\ before' = eff
      BY <1>4, <2>2, ConstantsAssumption DEF Check, End
    <3> QED BY <2>2, <3>1 DEF RunInv, RunMatches, Result, ExitZeroMatches, Looping, Keeping
  <2>3. CASE file \notin {NoFile, Broken}
    <3>1. pc' = "count" /\ UNCHANGED <<file, eff, sh>> /\ before' = eff /\ failed' = {}
      BY <1>4, <2>3 DEF Check
    <3>2. sh = Shell
      BY <1>4 DEF Check, ShellReset
    <3> QED BY <2>3, <3>1, <3>2 DEF RunInv, RunMatches, ExitZeroMatches, Readable, Looping, Keeping
  <2> QED BY <2>1, <2>2, <2>3
<1>5. CASE Count /\ ~touched
  <2>1. /\ Readable /\ eff = before /\ failed = {} /\ sh = Shell
        /\ UNCHANGED <<file, eff, before, failed, touched>>
    BY <1>5 DEF Count, RunInv, ghosts
  <2>2. /\ sh' = [sh EXCEPT !.count = Len(file)]
        /\ pc' = IF file = <<>> THEN "cleanup" ELSE "user"
    BY <1>5, <2>1 DEF Count
  <2>3. sh'.i = 0 /\ sh'.count = Len(file) /\ sh'.keep = {}
    BY <2>1, <2>2 DEF Shell
  <2>4. LoopInv'
    <3>1. 1 .. sh'.i = {}
      BY <2>3
    <3>2. \A u \in Names : Untouched(u)'
      BY <2>1, <2>3 DEF Untouched
    <3> QED BY <2>1, <2>3, <3>1, <3>2 DEF LoopInv, Readable
  <2>5. EntryInv'
    BY <2>2 DEF EntryInv, Looping, Keeping
  <2>6. file = <<>> => Len(file) = 0
    OBVIOUS
  <2> QED BY <2>2, <2>3, <2>4, <2>5, <2>6 DEF RunInv, RunMatches, ExitZeroMatches
<1>6. CASE ReadUser /\ ~touched
  <2>1. pc \in Looping
    BY <1>6 DEF ReadUser, Looping
  <2>2. /\ LoopInv /\ EntryInv /\ sh.i < sh.count /\ Readable
        /\ Item.name \in Names => Untouched(Item.name)
    BY <1>l, <1>6, <2>1
  <2>3. /\ pc = "user" /\ pc' = "enabled" /\ sh' = [sh EXCEPT !.user = Item.name]
        /\ UNCHANGED <<file, eff, before, failed, touched>>
    BY <1>6, <2>2 DEF ReadUser, ghosts
  <2>4. /\ sh'.i = sh.i /\ sh'.count = sh.count /\ sh'.failures = sh.failures
        /\ sh'.keep = sh.keep /\ sh'.user = Item.name
    BY <1>s, <2>3 DEF ShellType
  <2>5. Item.name \notin sh.keep
    <3>1. Item.name \in sh.keep => Item.name \in Names
      BY <1>s DEF ShellType
    <3> QED BY <2>2, <2>3, <3>1 DEF Untouched, Keeping
  <2>6. pc' \in Looping
    BY <2>3 DEF Looping
  <2>7. LoopInv' /\ Item' = Item
    BY <2>2, <2>3, <2>4, <2>5, <2>6, LearnRun
  <2>8. EntryInv'
    BY <2>3, <2>4, <2>7 DEF EntryInv, Looping, Keeping
  <2> QED BY <1>e, <1>6, <2>3, <2>6, <2>7, <2>8
<1>7. CASE ReadEnabled /\ ~touched
  <2>1. pc = "enabled" /\ pc \in Looping
    BY <1>7 DEF ReadEnabled, Looping
  <2>2. /\ LoopInv /\ EntryInv /\ sh.i < sh.count /\ Readable
        /\ Item.name \in Names => Untouched(Item.name)
    BY <1>l, <1>7, <2>1
  <2>3. UNCHANGED <<file, before, failed, touched>> /\ sh.user = Item.name
    BY <1>7, <2>1, <2>2 DEF ReadEnabled, ghosts, EntryInv, Looping
  <2>4. CASE sh.user \notin Names
    <3>1. Advance(sh.keep, TRUE) /\ UNCHANGED eff
      BY <1>7, <2>2, <2>4 DEF ReadEnabled
    <3> QED BY <2>2, <2>3, <2>4, <3>1, AdvanceRun
  <2>5. CASE sh.user \in Names /\ ~Item.enabled
    <3>1. Advance(sh.keep, sh.failures) /\ eff' = [eff EXCEPT ![sh.user] = {}]
      BY <1>7, <2>2, <2>5 DEF ReadEnabled, DropKeys
    <3>2. /\ \A u \in Names : u # Item.name => eff'[u] = eff[u]
          /\ eff'[Item.name] = {}
      BY <2>3, <2>5, <3>1 DEF TypeInv, StateOK
    <3>3. sh'.keep = sh.keep
      BY <3>1, AdvanceFields
    <3>4. Item.name \notin sh.keep /\ Item.name \notin failed
      BY <2>1, <2>2, <2>3, <2>5 DEF Untouched, Keeping
    <3>5. \A u \in Names, e \in Entry : u = Item.name /\ e = Item => Done(u, e)'
      BY <2>3, <2>5, <3>2, <3>3, <3>4 DEF Done, Revoking, Refusing
    <3> QED BY <1>s, <2>2, <2>3, <3>1, <3>2, <3>5, AdvanceRun
  <2>6. CASE sh.user \in Names /\ Item.enabled
    <3>1. pc' = "shape" /\ UNCHANGED <<eff, sh>>
      BY <1>7, <2>2, <2>6 DEF ReadEnabled
    <3>2. Item.name \notin sh.keep
      BY <2>1, <2>2, <2>3, <2>6 DEF Untouched, Keeping
    <3>3. pc' \in Looping
      BY <3>1 DEF Looping
    <3>4. LoopInv' /\ Item' = Item
      BY <2>2, <2>3, <3>1, <3>2, <3>3, LearnRun
    <3>5. EntryInv'
      BY <2>3, <2>6, <3>1, <3>4 DEF EntryInv, Looping, Keeping
    <3> QED BY <1>e, <1>7, <3>3, <3>4, <3>5
  <2> QED BY <2>4, <2>5, <2>6
<1>8. CASE (CheckShape \/ CheckStrings) /\ ~touched
  <2>1. pc \in {"shape", "strings"} /\ pc \in Looping
    BY <1>8 DEF CheckShape, CheckStrings, Looping
  <2>2. /\ LoopInv /\ EntryInv /\ sh.i < sh.count
        /\ Item.name \in Names => Untouched(Item.name)
    BY <1>l, <1>8, <2>1
  <2>3. /\ UNCHANGED <<file, eff, before, failed, touched>>
        /\ sh.user = Item.name /\ Item.enabled /\ Item.name \in Names
    BY <1>8, <2>1, <2>2 DEF CheckShape, CheckStrings, ghosts, EntryInv, Looping, TypeInv, ShellOK
  <2>4. Item.name \notin sh.keep /\ Item.name \notin failed /\ eff[Item.name] = before[Item.name]
    BY <2>1, <2>2, <2>3 DEF Untouched, Keeping
  <2>5. CASE Advance(Kept, TRUE) /\ Item.shape # "strings"
    <3>1. sh'.keep = sh.keep \cup {Item.name} /\ sh'.failures
      BY <2>3, <2>5, AdvanceFields DEF Kept
    <3>2. \A u \in Names, e \in Entry : u = Item.name /\ e = Item => Done(u, e)'
      BY <2>3, <2>4, <2>5, <3>1 DEF Done, Revoking, Refusing, AllValid
    <3>3. \A u \in Names : u # Item.name => (u \in Kept <=> u \in sh.keep)
      BY <2>3 DEF Kept
    <3> QED BY <2>2, <2>3, <2>5, <3>2, <3>3, AdvanceRun
  <2>6. CASE pc' \in {"strings", "length"} /\ UNCHANGED sh
             /\ (pc' = "strings" => Item.shape # "missing")
             /\ (pc' = "length" => Item.shape = "strings")
    <3>1. pc' \in Looping
      BY <2>6 DEF Looping
    <3>2. LoopInv' /\ Item' = Item
      BY <2>2, <2>3, <2>4, <2>6, <3>1, LearnRun
    <3>3. EntryInv'
      BY <2>3, <2>6, <3>2 DEF EntryInv, Looping, Keeping
    <3> QED BY <1>e, <1>8, <3>1, <3>2, <3>3
  <2> QED BY <1>8, <2>5, <2>6 DEF CheckShape, CheckStrings
<1>9. CASE CheckLength /\ ~touched
  <2>1. pc = "length" /\ pc \in Looping
    BY <1>9 DEF CheckLength, Looping
  <2>2. /\ LoopInv /\ EntryInv /\ sh.i < sh.count /\ Readable
        /\ Item.name \in Names => Untouched(Item.name)
    BY <1>l, <1>9, <2>1
  <2>3. /\ UNCHANGED <<file, before, failed, touched>>
        /\ sh.user = Item.name /\ Item.enabled /\ Item.name \in Names /\ Item.shape = "strings"
    BY <1>9, <2>1, <2>2 DEF CheckLength, ghosts, EntryInv, Looping, TypeInv, ShellOK
  <2>4. Item.name \notin sh.keep /\ Item.name \notin failed
    BY <2>1, <2>2, <2>3 DEF Untouched, Keeping
  <2>5. CASE Item.keys = {}
    <3>1. Advance(sh.keep, sh.failures) /\ eff' = [eff EXCEPT ![sh.user] = {}]
      BY <1>9, <2>2, <2>3, <2>5 DEF CheckLength, DropKeys
    <3>2. /\ \A u \in Names : u # Item.name => eff'[u] = eff[u]
          /\ eff'[Item.name] = {}
      BY <2>3, <3>1 DEF TypeInv, StateOK
    <3>3. sh'.keep = sh.keep
      BY <3>1, AdvanceFields
    <3>4. \A u \in Names, e \in Entry : u = Item.name /\ e = Item => Done(u, e)'
      BY <2>3, <2>4, <2>5, <3>2, <3>3 DEF Done, Revoking, Refusing
    <3> QED BY <1>s, <2>2, <2>3, <3>1, <3>2, <3>4, AdvanceRun
  <2>6. CASE Item.keys # {}
    <3>1. pc' = "keys" /\ sh' = [sh EXCEPT !.keep = Kept] /\ UNCHANGED eff
      BY <1>9, <2>6 DEF CheckLength
    <3>2. /\ sh'.i = sh.i /\ sh'.count = sh.count /\ sh'.failures = sh.failures
          /\ sh'.keep = sh.keep \cup {Item.name} /\ sh'.user = sh.user
      BY <1>s, <2>3, <3>1 DEF ShellType, Kept
    <3>3. pc' \in Looping /\ pc' \in Keeping
      BY <3>1 DEF Looping, Keeping
    <3>4. LoopInv' /\ Item' = Item
      BY <2>2, <2>3, <3>1, <3>2, <3>3, LearnRun
    <3>5. EntryInv'
      BY <2>3, <2>6, <3>1, <3>2, <3>4 DEF EntryInv, Looping, Keeping
    <3> QED BY <1>e, <1>9, <3>3, <3>4, <3>5
  <2> QED BY <2>5, <2>6
<1>k. ASSUME ~touched, pc \in Keeping
      PROVE  /\ LoopInv /\ EntryInv /\ sh.i < sh.count
             /\ sh.user = Item.name /\ Item.enabled /\ Item.name \in Names
             /\ Item.shape = "strings" /\ Item.keys # {} /\ Item.name \in sh.keep
             /\ ~Revoking(Item)
             /\ Item.name \notin failed /\ eff[Item.name] = before[Item.name]
  <2>1. pc \in Looping /\ pc \in Looping \ {"user"}
    BY <1>k DEF Looping, Keeping
  <2>2. /\ LoopInv /\ EntryInv /\ sh.i < sh.count
        /\ Item.name \in Names => Untouched(Item.name)
    BY <1>k, <1>l, <2>1
  <2>3. /\ sh.user = Item.name /\ Item.enabled
        /\ Item.shape = "strings" /\ Item.keys # {} /\ Item.name \in sh.keep
    BY <1>k, <2>1, <2>2 DEF EntryInv
  <2>4. Item.name \in Names
    BY <1>k, <2>3 DEF Keeping, TypeInv, ShellOK
  <2> QED BY <2>2, <2>3, <2>4 DEF Untouched, Revoking
<1>10. CASE ReadKeys /\ ~touched
  <2>1. pc = "keys" /\ pc \in Keeping
    BY <1>10 DEF ReadKeys, Keeping
  <2>2. /\ LoopInv /\ EntryInv /\ sh.i < sh.count
        /\ sh.user = Item.name /\ Item.enabled /\ Item.name \in Names
        /\ Item.shape = "strings" /\ Item.keys # {} /\ Item.name \in sh.keep
        /\ ~Revoking(Item)
        /\ Item.name \notin failed /\ eff[Item.name] = before[Item.name]
    BY <1>k, <1>10, <2>1
  <2>3. UNCHANGED <<file, eff, before, failed, touched>>
    BY <1>10 DEF ReadKeys, ghosts
  <2>4. CASE ~AllValid(Item)
    <3>1. Advance(sh.keep, TRUE)
      BY <1>10, <2>2, <2>4 DEF ReadKeys
    <3>2. sh'.keep = sh.keep /\ sh'.failures
      BY <3>1, AdvanceFields
    <3>3. \A u \in Names, e \in Entry : u = Item.name /\ e = Item => Done(u, e)'
      BY <2>2, <2>3, <2>4, <3>2 DEF Done, Refusing
    <3> QED BY <2>2, <2>3, <3>1, <3>3, AdvanceRun
  <2>5. CASE AllValid(Item)
    <3>1. sh' = [sh EXCEPT !.keys = Item.keys] /\ pc' = "account"
      BY <1>10, <2>2, <2>5 DEF ReadKeys
    <3>2. /\ sh'.i = sh.i /\ sh'.count = sh.count /\ sh'.failures = sh.failures
          /\ sh'.keep = sh.keep /\ sh'.user = sh.user /\ sh'.keys = Item.keys
      BY <1>s, <3>1 DEF ShellType
    <3>3. pc' \in Looping /\ pc' \in Keeping
      BY <3>1 DEF Looping, Keeping
    <3>4. LoopInv' /\ Item' = Item
      BY <2>2, <2>3, <3>2, <3>3, LearnRun
    <3>5. AllValid(Item)'
      BY <2>5, <3>4 DEF AllValid
    <3>6. EntryInv'
      BY <2>2, <3>1, <3>2, <3>4, <3>5 DEF EntryInv, Looping, Keeping
    <3> QED BY <1>e, <1>10, <3>3, <3>4, <3>6
  <2> QED BY <2>4, <2>5
<1>11. CASE (EnsureAccount \/ EnsureUserDir) /\ ~touched
  <2>1. pc \in {"account", "home"} /\ pc \in Keeping /\ pc \in Keeping \ {"keys"}
    BY <1>11 DEF EnsureAccount, EnsureUserDir, Keeping
  <2>2. /\ LoopInv /\ EntryInv /\ sh.i < sh.count
        /\ sh.user = Item.name /\ Item.enabled /\ Item.name \in Names
        /\ Item.shape = "strings" /\ Item.keys # {} /\ Item.name \in sh.keep
        /\ ~Revoking(Item)
        /\ Item.name \notin failed /\ eff[Item.name] = before[Item.name]
    BY <1>k, <1>11, <2>1
  <2>3. AllValid(Item) /\ sh.keys = Item.keys
    BY <2>1, <2>2 DEF EntryInv
  <2>4. UNCHANGED <<file, eff, before, touched>>
    BY <1>11 DEF EnsureAccount, EnsureUserDir, ProvisionFails, ghosts
  <2>5. CASE Advance(sh.keep, TRUE) /\ failed' = failed \cup {sh.user}
    <3>1. sh'.keep = sh.keep /\ sh'.failures
      BY <2>5, AdvanceFields
    <3>2. \A u \in Names, e \in Entry : u = Item.name /\ e = Item => Done(u, e)'
      BY <2>2, <2>3, <2>4, <2>5, <3>1 DEF Done, Refusing
    <3>3. \A u \in Names : u # Item.name => (u \in failed' <=> u \in failed)
      BY <2>2, <2>5
    <3> QED BY <2>2, <2>4, <2>5, <3>2, <3>3, AdvanceRun
  <2>6. CASE pc' \in {"home", "write"} /\ UNCHANGED <<sh, failed>>
    <3>1. pc' \in Looping /\ pc' \in Keeping
      BY <2>6 DEF Looping, Keeping
    <3>2. LoopInv' /\ Item' = Item
      BY <2>2, <2>4, <2>6, <3>1, LearnRun
    <3>3. AllValid(Item)'
      BY <2>3, <3>2 DEF AllValid
    <3>4. EntryInv'
      BY <2>2, <2>3, <2>6, <3>2, <3>3 DEF EntryInv, Looping, Keeping
    <3> QED BY <1>e, <1>11, <3>1, <3>2, <3>4
  <2> QED BY <1>11, <2>5, <2>6 DEF EnsureAccount, EnsureUserDir, ProvisionFails, ghosts
<1>12. CASE WriteKeys /\ ~touched
  <2>1. pc = "write" /\ pc \in Keeping /\ pc \in Keeping \ {"keys"}
    BY <1>12 DEF WriteKeys, Keeping
  <2>2. /\ LoopInv /\ EntryInv /\ sh.i < sh.count
        /\ sh.user = Item.name /\ Item.enabled /\ Item.name \in Names
        /\ Item.name \in sh.keep /\ ~Revoking(Item) /\ Item.name \notin failed
    BY <1>k, <1>12, <2>1
  <2>3. AllValid(Item) /\ sh.keys = Item.keys
    BY <2>1, <2>2 DEF EntryInv
  <2>4. CASE eff' = [eff EXCEPT ![sh.user] = sh.keys] /\ Advance(sh.keep, sh.failures)
             /\ UNCHANGED ghosts
    <3>1. UNCHANGED <<file, before, failed>>
      BY <1>12, <2>4 DEF WriteKeys, ghosts
    <3>2. /\ \A u \in Names : u # Item.name => eff'[u] = eff[u]
          /\ eff'[Item.name] = Item.keys
      BY <2>2, <2>3, <2>4 DEF TypeInv, StateOK
    <3>3. sh'.keep = sh.keep
      BY <2>4, AdvanceFields
    <3>4. \A u \in Names, e \in Entry : u = Item.name /\ e = Item => Done(u, e)'
      BY <2>2, <2>3, <3>1, <3>2, <3>3 DEF Done, Refusing
    <3> QED BY <1>s, <2>2, <2>4, <3>1, <3>2, <3>4, AdvanceRun
  <2>5. CASE End("aborted") /\ UNCHANGED <<eff, before, failed>>
    <3>1. UNCHANGED file
      BY <1>12 DEF WriteKeys
    <3> QED BY <2>2, <2>5, <3>1, AbortedRun
  <2> QED BY <1>12, <2>4, <2>5 DEF WriteKeys
<1>13. CASE Cleanup /\ ~touched
  <2>1. LoopInv /\ EntryInv /\ sh.i = sh.count /\ pc = "cleanup" /\ Readable
    BY <1>13 DEF Cleanup, RunInv, LoopInv
  <2>2. /\ UNCHANGED <<file, before, failed>> /\ pc' = "asleep"
        /\ status' = IF sh.failures THEN "failed" ELSE "ok"
    BY <1>13 DEF Cleanup, End, ExitStatus, ghosts
  <2>3. \A u \in Names :
          /\ eff'[u] = Result(u)
          /\ u \in failed \/ Malformed(file, u) => sh.failures
    BY <1>13, <2>1, CleanupRun
  <2>4. \A u \in Names : (Malformed(file, u)' <=> Malformed(file, u))
                         /\ Granted(file, u)' = Granted(file, u)
    BY <2>2 DEF Malformed, Granted, EntriesOf, AllValid
  <2>5. RunMatches' /\ ExitZeroMatches'
    <3>1. \A u \in Names : eff'[u] = Result(u)'
      BY <2>2, <2>3, SameResult
    <3>2. RunMatches'
      BY <2>2, <3>1 DEF RunMatches
    <3>3. ExitZeroMatches'
      BY <2>1, <2>2, <2>3, <2>4 DEF ExitZeroMatches, Result, Readable
    <3> QED BY <3>2, <3>3
  <2> QED BY <2>2, <2>5 DEF RunInv, Looping, Keeping
<1>14. CASE Script /\ touched /\ ~Check
  BY <1>0, <1>14 DEF Script, Count, ReadUser, ReadEnabled, CheckShape, CheckStrings,
     CheckLength, ReadKeys, EnsureAccount, EnsureUserDir, WriteKeys, Cleanup
<1>t. touched \in BOOLEAN
  BY DEF TypeInv, StateOK
<1> QED
  BY <1>1, <1>2, <1>3, <1>4, <1>5, <1>6, <1>7, <1>8, <1>9, <1>10, <1>11, <1>12, <1>13, <1>14,
     <1>t DEF Next, Script

(* The run invariant always holds. *)
LEMMA RunInvariant == Spec => []RunInv
<1>1. Init => RunInv
  BY DEF Init, RunInv, RunMatches, ExitZeroMatches, Looping, Keeping
<1>2. Init => ShellReset
  BY DEF Init, ShellReset
<1> QED BY <1>1, <1>2, TypeInvariant, ShellResetStep, RunStep, PTL DEF Spec

(* reconcile.sh, run to its end while users.json stays as it is, does to each *)
(* user what the manifest says, for every manifest with distinct names: it    *)
(* installs the keys of enabled users, revokes those of disabled, absent and  *)
(* keyless ones, and leaves alone whose entry is malformed or could not be    *)
(* provisioned; an invalid or missing manifest changes nobody.  Cut short by  *)
(* a failing write, it has done so to the users before the one it was writing *)
(* for and has touched nobody else.                                           *)
THEOREM UndisturbedRunMatches == Spec => []RunMatches
<1>1. TypeInv /\ RunInv => RunMatches
  BY DEF RunInv, RunMatches
<1> QED BY <1>1, TypeInvariant, RunInvariant, PTL

(* Exit status 0 of a run that no publication disturbed means that the key    *)
(* files are exactly those of the manifest and none of its entries was        *)
(* malformed: the failure counter misses nothing.                             *)
THEOREM ExitZeroIsExact == Spec => []ExitZeroMatches
<1>1. TypeInv /\ RunInv => ExitZeroMatches
  BY DEF RunInv, ExitZeroMatches
<1> QED BY <1>1, TypeInvariant, RunInvariant, PTL

-----------------------------------------------------------------------------
(* When no version comes twice, a hash tells which publications a run has    *)
(* missed: if the loop has hashed what the file is now, nothing was          *)
(* published since the run began.                                            *)
HashInv ==
  /\ file \in seen
  /\ cur \in seen \cup {Never} /\ last \in seen \cup {Never}
  /\ pc = "asleep" /\ file = last => ~touched
  /\ pc \notin {"asleep", "check"} /\ file = cur => ~touched

(* What the end of a run says about its faults. *)
EndInv ==
  /\ ~faulted => failed = {}
  /\ pc = "asleep" => status # "none"
  /\ pc = "asleep" /\ status = "aborted" /\ ~touched => faulted

(* A published version has a new hash, and a run remembers the hash it began *)
(* with.                                                                     *)
LEMMA HashStep ==
  ASSUME ~Repeats, TypeInv, HashInv, [Next]_vars
  PROVE  HashInv'
<1> USE DEF HashInv
<1>n. Never \notin Docs \cup {NoFile, Broken}
  BY ConstantsAssumption
<1>t. touched \in BOOLEAN /\ file \in Docs \cup {NoFile}
  BY DEF TypeInv, StateOK
<1>1. CASE Publish
  <2>1. PICK d \in Successors[file] : d \notin seen /\ file' = d /\ seen' = seen \cup {d}
    BY <1>1 DEF Publish
  <2>2. d \in Docs
    BY <1>t, <2>1, ConstantsAssumption
  <2>3. UNCHANGED <<pc, cur, last>>
    BY <1>1 DEF Publish, loopVars
  <2> QED BY <1>n, <2>1, <2>2, <2>3
<1>2. CASE Poll \/ Crash
  BY <1>2 DEF Poll, Crash
<1>3. CASE PollUnchanged \/ UNCHANGED vars
  BY <1>3 DEF PollUnchanged, vars, loopVars
<1>4. CASE Check
  BY <1>4 DEF Check, End, Remembered, loopVars
<1>5. ASSUME UNCHANGED <<file, seen, touched>>, pc \notin {"asleep", "check"},
             \/ \E how : End(how)
             \/ pc' \notin {"asleep", "check"} /\ UNCHANGED loopVars
      PROVE  HashInv'
  BY <1>5 DEF End, Remembered, loopVars
<1>6. ASSUME NEW keep, NEW f, Advance(keep, f)
      PROVE  pc' \notin {"asleep", "check"} /\ UNCHANGED loopVars
  BY <1>6 DEF Advance
<1>7. CASE Count
  BY <1>5, <1>7 DEF Count
<1>8. CASE ReadUser
  BY <1>5, <1>8 DEF ReadUser
<1>9. CASE ReadEnabled
  <2>1. \/ \E how : End(how)
        \/ pc' \notin {"asleep", "check"} /\ UNCHANGED loopVars
    BY <1>6, <1>9 DEF ReadEnabled
  <2> QED BY <1>5, <1>9, <2>1 DEF ReadEnabled
<1>10. CASE CheckShape \/ CheckStrings
  <2>1. pc' \notin {"asleep", "check"} /\ UNCHANGED loopVars
    BY <1>6, <1>10 DEF CheckShape, CheckStrings
  <2> QED BY <1>5, <1>10, <2>1 DEF CheckShape, CheckStrings
<1>11. CASE CheckLength
  <2>1. pc' \notin {"asleep", "check"} /\ UNCHANGED loopVars
    BY <1>6, <1>11 DEF CheckLength
  <2> QED BY <1>5, <1>11, <2>1 DEF CheckLength
<1>12. CASE ReadKeys
  <2>1. \/ \E how : End(how)
        \/ pc' \notin {"asleep", "check"} /\ UNCHANGED loopVars
    BY <1>6, <1>12 DEF ReadKeys
  <2> QED BY <1>5, <1>12, <2>1 DEF ReadKeys
<1>13. CASE EnsureAccount \/ EnsureUserDir
  <2>1. pc' \notin {"asleep", "check"} /\ UNCHANGED loopVars
    BY <1>6, <1>13 DEF EnsureAccount, EnsureUserDir, ProvisionFails
  <2> QED BY <1>5, <1>13, <2>1 DEF EnsureAccount, EnsureUserDir
<1>14. CASE WriteKeys
  <2>1. \/ \E how : End(how)
        \/ pc' \notin {"asleep", "check"} /\ UNCHANGED loopVars
    BY <1>6, <1>14 DEF WriteKeys
  <2> QED BY <1>5, <1>14, <2>1 DEF WriteKeys
<1>15. CASE Cleanup
  BY <1>5, <1>15 DEF Cleanup
<1> QED
  BY <1>1, <1>2, <1>3, <1>4, <1>7, <1>8, <1>9, <1>10, <1>11, <1>12, <1>13, <1>14, <1>15
  DEF Next, Script

(* set -e ends an undisturbed run only where a write fails: the jqs it hangs *)
(* on answer as long as the file stays what it was.                          *)
LEMMA EndStep ==
  ASSUME TypeInv, RunInv, EndInv, [Next]_vars
  PROVE  EndInv'
<1> USE DEF EndInv
<1>t. touched \in BOOLEAN /\ faulted \in BOOLEAN
  BY DEF TypeInv, StateOK
<1>l. ASSUME ~touched, pc \in Looping PROVE Readable /\ EntryInv
  BY <1>l DEF RunInv, LoopInv
<1>1. CASE Publish \/ Poll \/ PollUnchanged \/ Crash \/ UNCHANGED vars
  BY <1>1 DEF Publish, Poll, PollUnchanged, Crash, vars, loopVars, ghosts
<1>2. CASE Check
  BY <1>2 DEF Check, End
<1>3. ASSUME UNCHANGED <<failed, faulted, touched>>,
             pc' # "asleep" \/ (\E how \in {"ok", "failed"} : End(how)) \/ (touched /\ End("aborted"))
      PROVE  EndInv'
  BY <1>3 DEF End
<1>4. ASSUME NEW keep, NEW f, Advance(keep, f) PROVE pc' # "asleep"
  BY <1>4 DEF Advance
<1>5. CASE Count
  BY <1>3, <1>5 DEF Count, ghosts
<1>6. CASE ReadUser
  <2>1. ~Readable => touched
    BY <1>l, <1>6 DEF ReadUser, Looping
  <2> QED BY <1>3, <1>6, <2>1 DEF ReadUser, ghosts
<1>7. CASE ReadEnabled
  <2>1. ~Readable => touched
    BY <1>l, <1>7 DEF ReadEnabled, Looping
  <2>2. pc' # "asleep" \/ (touched /\ End("aborted"))
    BY <1>4, <1>7, <2>1 DEF ReadEnabled
  <2> QED BY <1>3, <1>7, <2>2 DEF ReadEnabled, ghosts
<1>8. CASE CheckShape \/ CheckStrings \/ CheckLength
  <2>1. pc' # "asleep"
    BY <1>4, <1>8 DEF CheckShape, CheckStrings, CheckLength
  <2> QED BY <1>3, <1>8, <2>1 DEF CheckShape, CheckStrings, CheckLength, ghosts
<1>9. CASE ReadKeys
  <2>1. Item.shape = "missing" => touched
    BY <1>l, <1>9 DEF ReadKeys, Looping, Keeping, EntryInv
  <2>2. pc' # "asleep" \/ (touched /\ End("aborted"))
    BY <1>4, <1>9, <2>1 DEF ReadKeys
  <2> QED BY <1>3, <1>9, <2>2 DEF ReadKeys, ghosts
<1>10. CASE EnsureAccount \/ EnsureUserDir
  <2>1. pc' # "asleep" /\ (faulted' \/ UNCHANGED ghosts)
    BY <1>4, <1>10 DEF EnsureAccount, EnsureUserDir, ProvisionFails
  <2> QED BY <2>1 DEF ghosts
<1>11. CASE WriteKeys
  <2>1. (faulted' /\ End("aborted")) \/ (pc' # "asleep" /\ UNCHANGED ghosts)
    BY <1>4, <1>11 DEF WriteKeys
  <2> QED BY <2>1 DEF ghosts, End
<1>12. CASE Cleanup
  <2>1. ExitStatus \in {"ok", "failed"}
    BY DEF ExitStatus
  <2> QED BY <1>3, <1>12, <2>1 DEF Cleanup, ghosts
<1> QED
  BY <1>1, <1>2, <1>5, <1>6, <1>7, <1>8, <1>9, <1>10, <1>11, <1>12 DEF Next, Script

(* As long as no version is published twice, a loop that has nothing to do   *)
(* leaves key files that are what users.json says, unless provisioning or a  *)
(* write failed in the last run: no version is missed however publications   *)
(* and runs overlap, and after any restart.  With versions that come back    *)
(* this is false, as the run reconcile_toggle shows.                         *)
THEOREM NoVersionMissed ==
  ASSUME ~Repeats
  PROVE  Spec => []CaughtUp
<1>1. Init => HashInv /\ EndInv
  BY ConstantsAssumption DEF Init, HashInv, EndInv
<1>2. ASSUME TypeInv, RunInv, HashInv, EndInv PROVE CaughtUp
  <2> SUFFICES ASSUME pc = "asleep", file = last, ~faulted, file \notin {NoFile, Broken},
                      NEW u \in Names, ~Malformed(file, u)
               PROVE  eff[u] = Granted(file, u)
    BY <1>2 DEF CaughtUp, Settled, TypeInv, StateOK
  <2>1. ~touched /\ status \in {"ok", "failed"} /\ failed = {}
    BY <1>2 DEF HashInv, EndInv, TypeInv, LoopOK
  <2>2. RunMatches
    BY <1>2, <2>1 DEF RunInv
  <2> QED BY <2>1, <2>2 DEF RunMatches, Result
<1>3. TypeInv /\ HashInv /\ [Next]_vars => HashInv'
  BY HashStep
<1>4. TypeInv /\ RunInv /\ EndInv /\ [Next]_vars => EndInv'
  BY EndStep
<1> QED BY <1>1, <1>2, <1>3, <1>4, TypeInvariant, RunInvariant, PTL DEF Spec
=============================================================================
