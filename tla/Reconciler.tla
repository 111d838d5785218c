----------------------------- MODULE Reconciler -----------------------------
(***************************************************************************)
(* The sftp container: sftp/reconcile.sh, which turns users.json into      *)
(* accounts, home directories and authorized-key files, and the polling    *)
(* loop of sftp/entrypoint.sh that runs it.                                *)
(*                                                                         *)
(* The admin replaces users.json by a rename, so one read sees one         *)
(* complete version.  But the script reads the file anew, by index, with   *)
(* one jq per field: each read is an action here, and a version may be     *)
(* published between any two of them.  "set -e" ends the script at a jq    *)
(* that fails outside a condition.                                         *)
(*                                                                         *)
(* The definitions whose comment says "mutant" are the next definition     *)
(* with a plausible bug; no specification uses them.                       *)
(***************************************************************************)
EXTENDS Integers, Sequences, FiniteSets

CONSTANTS
  Names,       \* usernames that pass valid_username and are not reserved
  Keys,        \* lines that pass valid_key
  BadKey,      \* a line that does not
  BadName,     \* a username that is refused
  Docs,        \* versions users.json may have: sequences of entries
  Successors,  \* the versions that may replace each of them
  Repeats,     \* TRUE: a version may be published again, byte for byte
  Faults,      \* which of "provision", "write", "crash" can happen
  MaxCrashes,  \* the container restarts at most so often
  MaxVersions, \* users.json is replaced while it has had fewer versions
  NoFile, Broken,        \* no users.json; one that jq cannot parse
  NoName, Never

(* An entry of .users, whose names the admin keeps distinct: authorized_keys *)
(* is missing, or an array of strings, or one with something else in it.     *)
(* The script asks whether .enabled is exactly true; a field that is missing *)
(* or of another type is FALSE here, as it is to the script.                 *)
Shapes == {"missing", "strings", "mixed"}
Entry == [name : Names \cup {BadName}, enabled : BOOLEAN, shape : Shapes,
          keys : SUBSET (Keys \cup {BadKey})]

ASSUME ConstantsAssumption ==
  /\ \A d \in Docs \ {Broken} :
       /\ \A j \in DOMAIN d : d[j].shape = "missing" => d[j].keys = {}
       /\ d \in Seq(Entry)
       /\ \A j, k \in DOMAIN d : d[j].name = d[k].name /\ d[j].name # BadName => j = k
  /\ Successors \in [Docs \cup {NoFile} -> SUBSET Docs]
  /\ NoFile \notin Docs /\ NoFile # Broken
  /\ Never \notin Docs \cup {NoFile, Broken}
  /\ MaxCrashes \in Nat /\ MaxVersions \in Nat \ {0}
  /\ BadName \notin Names /\ NoName \notin Names /\ NoName # BadName
  /\ BadKey \notin Keys

VARIABLES
  file,      \* the current users.json
  versions,  \* how many versions it has had
  seen,      \* ghost: every version published so far
  accounts,  \* users with a local account
  homes,     \* users with a directory under the share
  eff,       \* the key files: eff[u] is what u can log in with
  pc,        \* where script and loop are
  cur,       \* the loop's variables: what it hashed before this run
  last,      \*   and before the previous one
  sh,        \* the script's variables
  status,    \* how the last run ended
  crashes,
  before,    \* ghost: eff when this run began
  touched,   \* ghost: a version was published since this run began
  failed,    \* ghost: users whose provisioning failed in this run
  faulted    \* ghost: some provisioning or write of this run has failed

loopVars == <<cur, last, status>>
ghosts == <<before, failed, faulted>>
vars == <<file, versions, seen, accounts, homes, eff, pc, sh, crashes, touched, loopVars, ghosts>>

Shell == [i |-> 0, count |-> 0, user |-> NoName, keys |-> {}, keep |-> {}, failures |-> FALSE]

(* What one jq sees: null, an entry without fields, beyond the end of .users; *)
(* Readable is FALSE when it fails on the file.                               *)
Null == [name |-> NoName, enabled |-> FALSE, shape |-> "missing", keys |-> {}]
Readable == file \notin {NoFile, Broken}
Item == IF Readable /\ sh.i < Len(file) THEN file[sh.i + 1] ELSE Null

(* The end of the script, by exit or by set -e.  Mutant: the loop remembers *)
(* the hash the file has after the run.                                     *)
RememberedAfterRun == file
Remembered == cur
End(how) ==
  /\ pc' = "asleep"
  /\ last' = Remembered
  /\ status' = how
  /\ cur' = Never
  /\ sh' = Shell

(* On to the next user, or to the cleanup after the last.  Mutant: the loop *)
(* counts to the length inclusive.                                          *)
HasNextInclusive == sh.i + 1 <= sh.count
HasNext == sh.i + 1 < sh.count
Advance(keep, failures) ==
  /\ pc' = IF HasNext THEN "user" ELSE "cleanup"
  /\ sh' = [sh EXCEPT !.i = @ + 1, !.user = NoName, !.keys = {},
                      !.keep = keep, !.failures = failures]
  /\ UNCHANGED loopVars

(* A user whose entry is malformed fails, but keeps its key file.  Mutant: *)
(* it is left off the keep list.                                           *)
KeptUnlessFailed == sh.keep
Kept == sh.keep \cup {sh.user}
AllValid(e) == e.shape = "strings" /\ e.keys # {} /\ e.keys \subseteq Keys
DropKeys(u) == eff' = [eff EXCEPT ![u] = {}]

-----------------------------------------------------------------------------
Init ==
  /\ file \in Docs \cup {NoFile}
  /\ seen = {file} /\ versions = 1
  /\ accounts = {} /\ homes = {}
  /\ eff = [u \in Names |-> {}]
  /\ pc = "check"
  /\ cur = Never /\ last = Never
  /\ sh = Shell
  /\ status = "none"
  /\ crashes = 0
  /\ before = eff /\ touched = FALSE /\ failed = {} /\ faulted = FALSE

(* The admin, or a hand edit, replaces the manifest. *)
Publish ==
  /\ versions < MaxVersions
  /\ versions' = versions + 1
  /\ \E d \in Successors[file] :
       /\ Repeats \/ d \notin seen
       /\ file' = d
       /\ seen' = seen \cup {d}
  /\ touched' = TRUE
  /\ UNCHANGED <<accounts, homes, eff, pc, sh, crashes, loopVars, ghosts>>

(* reconcile_loop: run the script when the hash is not the one before the *)
(* previous run.                                                          *)
Poll ==
  /\ pc = "asleep"
  /\ file # last
  /\ cur' = file
  /\ pc' = "check"
  /\ UNCHANGED <<file, versions, seen, accounts, homes, eff, sh, crashes, touched, last, status, ghosts>>

PollUnchanged ==
  /\ pc = "asleep"
  /\ file = last
  /\ UNCHANGED vars

(* The script begins: is there a manifest, and a valid one? *)
Check ==
  /\ pc = "check"
  /\ before' = eff /\ touched' = FALSE /\ failed' = {} /\ faulted' = FALSE
  /\ IF file = NoFile THEN End("ok")
     ELSE IF file = Broken THEN End("failed")
     ELSE pc' = "count" /\ UNCHANGED <<sh, loopVars>>
  /\ UNCHANGED <<file, versions, seen, accounts, homes, eff, crashes>>

Count ==
  /\ pc = "count"
  /\ IF ~Readable THEN End("failed")
     ELSE /\ sh' = [sh EXCEPT !.count = Len(file)]
          /\ pc' = IF file = <<>> THEN "cleanup" ELSE "user"
          /\ UNCHANGED loopVars
  /\ UNCHANGED <<file, versions, seen, accounts, homes, eff, crashes, touched, ghosts>>

ReadUser ==
  /\ pc = "user"
  /\ IF ~Readable THEN End("aborted")
     ELSE /\ sh' = [sh EXCEPT !.user = Item.name]
          /\ pc' = "enabled"
          /\ UNCHANGED loopVars
  /\ UNCHANGED <<file, versions, seen, accounts, homes, eff, crashes, touched, ghosts>>

(* A refused name fails; a disabled user loses its keys. *)
ReadEnabled ==
  /\ pc = "enabled"
  /\ \/ /\ ~Readable
        /\ End("aborted")
        /\ UNCHANGED eff
     \/ /\ Readable /\ sh.user \notin Names
        /\ Advance(sh.keep, TRUE)
        /\ UNCHANGED eff
     \/ /\ Readable /\ sh.user \in Names /\ ~Item.enabled
        /\ DropKeys(sh.user)
        /\ Advance(sh.keep, sh.failures)
     \/ /\ Readable /\ sh.user \in Names /\ Item.enabled
        /\ pc' = "shape"
        /\ UNCHANGED <<eff, sh, loopVars>>
  /\ UNCHANGED <<file, versions, seen, accounts, homes, crashes, touched, ghosts>>

(* Is authorized_keys an array, and of strings? A jq that fails says no. *)
CheckShape ==
  /\ pc = "shape"
  /\ IF Item.shape # "missing"
       THEN pc' = "strings" /\ UNCHANGED <<sh, loopVars>>
       ELSE Advance(Kept, TRUE)
  /\ UNCHANGED <<file, versions, seen, accounts, homes, eff, crashes, touched, ghosts>>

CheckStrings ==
  /\ pc = "strings"
  /\ IF Item.shape = "strings"
       THEN pc' = "length" /\ UNCHANGED <<sh, loopVars>>
       ELSE Advance(Kept, TRUE)
  /\ UNCHANGED <<file, versions, seen, accounts, homes, eff, crashes, touched, ghosts>>

(* An empty list revokes; jq's length of null is 0 as well. *)
CheckLength ==
  /\ pc = "length"
  /\ IF Readable /\ Item.shape # "mixed" /\ Item.keys = {}
       THEN DropKeys(sh.user) /\ Advance(sh.keep, sh.failures)
       ELSE /\ pc' = "keys"
            /\ sh' = [sh EXCEPT !.keep = Kept]
            /\ UNCHANGED <<eff, loopVars>>
  /\ UNCHANGED <<file, versions, seen, accounts, homes, crashes, touched, ghosts>>

(* An empty answer is one empty line, which valid_key refuses too. *)
ReadKeys ==
  /\ pc = "keys"
  /\ \/ /\ Item.shape = "missing"
        /\ End("aborted")
     \/ /\ Item.shape # "missing" /\ ~AllValid(Item)
        /\ Advance(sh.keep, TRUE)
     \/ /\ AllValid(Item)
        /\ sh' = [sh EXCEPT !.keys = Item.keys]
        /\ pc' = "account"
        /\ UNCHANGED loopVars
  /\ UNCHANGED <<file, versions, seen, accounts, homes, eff, crashes, touched, ghosts>>

(* ensure_account and ensure_user_dir are idempotent; when one fails, so    *)
(* does the user.  A directory may be left behind though its chown failed.  *)
(* Mutant: the failure is counted but the user is not skipped.              *)
ProvisionFailsOn ==
  /\ "provision" \in Faults
  /\ failed' = failed \cup {sh.user}
  /\ faulted' = TRUE
  /\ pc' = IF pc = "account" THEN "home" ELSE "write"
  /\ sh' = [sh EXCEPT !.failures = TRUE]
  /\ UNCHANGED <<accounts, before, loopVars>>
ProvisionFails ==
  /\ "provision" \in Faults
  /\ failed' = failed \cup {sh.user}
  /\ faulted' = TRUE
  /\ Advance(sh.keep, TRUE)
  /\ UNCHANGED <<accounts, before>>

EnsureAccount ==
  /\ pc = "account"
  /\ \/ /\ accounts' = accounts \cup {sh.user}
        /\ pc' = "home"
        /\ UNCHANGED <<sh, loopVars, ghosts>>
     \/ ProvisionFails
  /\ UNCHANGED <<file, versions, seen, homes, eff, crashes, touched>>

EnsureUserDir ==
  /\ pc = "home"
  /\ \/ /\ homes' = homes \cup {sh.user}
        /\ pc' = "write"
        /\ UNCHANGED <<accounts, sh, loopVars, ghosts>>
     \/ /\ sh.user \notin homes
        /\ homes' \in {homes, homes \cup {sh.user}}
        /\ ProvisionFails
  /\ UNCHANGED <<file, versions, seen, eff, crashes, touched>>

(* write_keys, a rename; its failure ends the script. *)
WriteKeys ==
  /\ pc = "write"
  /\ \/ /\ eff' = [eff EXCEPT ![sh.user] = sh.keys]
        /\ Advance(sh.keep, sh.failures)
        /\ UNCHANGED ghosts
     \/ /\ "write" \in Faults
        /\ faulted' = TRUE
        /\ End("aborted")
        /\ UNCHANGED <<eff, before, failed>>
  /\ UNCHANGED <<file, versions, seen, accounts, homes, crashes, touched>>

(* Whoever is not on the keep list loses its key file.  The exit status is *)
(* the number of failures.  Mutant: it is that of the cleanup.             *)
ExitOfCleanup == "ok"
ExitStatus == IF sh.failures THEN "failed" ELSE "ok"
Cleanup ==
  /\ pc = "cleanup"
  /\ eff' = [u \in Names |-> IF u \in sh.keep THEN eff[u] ELSE {}]
  /\ End(ExitStatus)
  /\ UNCHANGED <<file, versions, seen, accounts, homes, crashes, touched, ghosts>>

(* The container dies and is restarted with its files; the entrypoint runs *)
(* the script once before the loop, which then starts with no hash.        *)
Crash ==
  /\ "crash" \in Faults
  /\ crashes < MaxCrashes
  /\ crashes' = crashes + 1
  /\ pc' = "check"
  /\ cur' = Never /\ last' = Never /\ status' = "none"
  /\ sh' = Shell
  /\ UNCHANGED <<file, versions, seen, accounts, homes, eff, touched, ghosts>>

Script ==
  \/ Check \/ Count \/ ReadUser \/ ReadEnabled \/ CheckShape \/ CheckStrings
  \/ CheckLength \/ ReadKeys \/ EnsureAccount \/ EnsureUserDir \/ WriteKeys
  \/ Cleanup

Next == Publish \/ Poll \/ PollUnchanged \/ Script \/ Crash

Spec == Init /\ [][Next]_vars

(* The loop never stops and every command of the script returns. *)
FairSpec == Spec /\ WF_vars(Poll) /\ WF_vars(Script)

-----------------------------------------------------------------------------
(* Every variable keeps its type: the index stays within the count that was *)
(* read, whatever is published meanwhile.                                   *)
TypeOK ==
  /\ file \in Docs \cup {NoFile}
  /\ versions \in 1 .. MaxVersions
  /\ seen \in SUBSET (Docs \cup {NoFile})
  /\ accounts \in SUBSET Names
  /\ homes \in SUBSET Names
  /\ eff \in [Names -> SUBSET Keys]
  /\ pc \in {"asleep", "check", "count", "user", "enabled", "shape", "strings",
             "length", "keys", "account", "home", "write", "cleanup"}
  /\ cur \in Docs \cup {NoFile, Never}
  /\ last \in Docs \cup {NoFile, Never}
  /\ sh \in [i : Nat, count : Nat, user : Names \cup {BadName, NoName},
             keys : SUBSET Keys, keep : SUBSET Names, failures : BOOLEAN]
  /\ sh.i <= sh.count
  /\ pc \in {"shape", "strings", "length", "keys", "account", "home", "write"} =>
       sh.user \in Names
  /\ status \in {"none", "ok", "failed", "aborted"}
  /\ crashes \in 0 .. MaxCrashes
  /\ before \in [Names -> SUBSET Keys]
  /\ touched \in BOOLEAN /\ faulted \in BOOLEAN
  /\ failed \in SUBSET Names

(* What a version says about a user: nothing; keys; or something malformed, *)
(* which must neither revoke nor broaden.                                   *)
EntriesOf(d, u) == {d[j] : j \in {k \in DOMAIN d : d[k].name = u}}
Malformed(d, u) == \E e \in EntriesOf(d, u) :
                      /\ e.enabled /\ ~AllValid(e)
                      /\ e.shape = "strings" => e.keys # {}
Granted(d, u) == UNION {e.keys : e \in {x \in EntriesOf(d, u) : x.enabled}}

(* A run that reached its end, with no version published meanwhile, did to   *)
(* each user what the version says: its keys installed, or removed when it   *)
(* is disabled, absent or has none; and left alone whose entry is malformed  *)
(* or whose provisioning failed.  An invalid manifest changed nobody.  When  *)
(* a failing write ended the run, that is so of the users with an entry      *)
(* before the one it was writing for, and nobody else was touched.           *)
Result(u) ==
  IF file \in {NoFile, Broken} THEN before[u]
  ELSE IF u \in failed \/ Malformed(file, u) THEN before[u]
  ELSE Granted(file, u)
RunMatches ==
  pc = "asleep" /\ ~touched =>
    /\ status \in {"ok", "failed"} => \A u \in Names : eff[u] = Result(u)
    /\ status = "aborted" => Readable /\ \E n \in DOMAIN file : \A u \in Names :
         eff[u] = IF \E j \in 1 .. n - 1 : file[j].name = u THEN Result(u) ELSE before[u]

(* Exit status 0 means that the key files are exactly what the manifest says. *)
ExitZeroMatches ==
  pc = "asleep" /\ ~touched /\ status = "ok" /\ file # NoFile =>
    file # Broken /\ \A u \in Names : ~Malformed(file, u) /\ eff[u] = Granted(file, u)

(* Who can log in has an account and a directory, wherever a run failed, was *)
(* cut short or read two versions.                                           *)
KeyFileHasHome ==
  \A u \in Names : eff[u] # {} => u \in accounts /\ u \in homes

(* Nobody can log in with a key that no version ever listed under its name. *)
NoForeignKeys ==
  \A u \in Names : eff[u] \subseteq
    UNION {UNION {e.keys : e \in {x \in EntriesOf(d, u) : AllValid(x)}} :
             d \in seen \ {NoFile, Broken}}

(* The key files agree with the manifest in the end, unless provisioning or  *)
(* a write failed in the very last run, which the loop does not repeat: an   *)
(* update that arrives while the script runs is not missed, and the next one *)
(* makes good what failed before.                                            *)
Settled ==
  file \notin {NoFile, Broken} =>
    \A u \in Names : Malformed(file, u) \/ eff[u] = Granted(file, u)
Converges == <>[](faulted \/ Settled)

(* When the loop finds nothing to do, there is nothing to do: if the hash it *)
(* remembers is that of users.json, then the key files are what users.json   *)
(* says, unless provisioning or a write failed in the last run.  The hash    *)
(* was taken before a run that may have read another version.                *)
CaughtUp == pc = "asleep" /\ file = last => faulted \/ Settled
=============================================================================
