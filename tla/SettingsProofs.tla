--------------------------- MODULE SettingsProofs ---------------------------
(***************************************************************************)
(* Proofs about Settings, for any fields, values, forms and any number of  *)
(* saves and faults.  Whoever has loaded holds settingsMu, so the file is  *)
(* still what was loaded when it is renamed over: from this follow that no *)
(* replaced value comes back and that the file changes by whole forms      *)
(* (the refinement of AtomicSettings).                                     *)
(***************************************************************************)
EXTENDS Settings, TLAPS

(* Who is past the load holds the lock, loaded what the file still holds, *)
(* and has a form without an invalid field.                               *)
HolderInv ==
  \A s \in Saves :
    /\ save[s].pc \in {"loaded", "renamed"} => mu = s
    /\ save[s].pc # "idle" => save[s].form \in Forms /\ admin = "up"
    /\ save[s].pc = "loaded" => save[s].base = file /\ Errors(save[s].form) = {}

(* Nothing was replaced before there was a file. *)
NothingRetired == file = NoFile => retired = [k \in Fields |-> {}]

SettingsInv == SettingsTypeOK /\ HolderInv /\ NothingRetired /\ NoResurrection

(* What a save applies is a configuration again. *)
LEMMA AppliedType ==
  ASSUME NEW c \in SharedConfig, NEW f
  PROVE  Applied(c, f) \in SharedConfig
BY DEF Applied, SharedConfig

(* The record of a free slot. *)
LEMMA IdleType == Idle \in Save
BY DEF Idle, Save

(* A record made of typed fields. *)
LEMMA RecordType ==
  ASSUME NEW pc \in {"idle", "posted", "loaded", "renamed", "report"},
         NEW f \in Forms \cup {NoForm},
         NEW o \in SharedConfig \cup {NoFile}, NEW b \in SharedConfig \cup {NoFile}
  PROVE  [pc |-> pc, form |-> f, old |-> o, base |-> b] \in Save
BY DEF Save

(* The fields of a slot have their types. *)
LEMMA FieldTypes ==
  ASSUME NEW r \in Save
  PROVE  /\ r.pc \in {"idle", "posted", "loaded", "renamed", "report"}
         /\ r.form \in Forms \cup {NoForm}
         /\ r.old \in SharedConfig \cup {NoFile}
         /\ r.base \in SharedConfig \cup {NoFile}
BY DEF Save

(* Start-up has a configuration and replaces nothing. *)
LEMMA InitInv == SettingsInit => SettingsInv
<1> SUFFICES ASSUME SettingsInit PROVE SettingsInv
  OBVIOUS
<1>1. SettingsTypeOK
  BY IdleType DEF SettingsInit, SettingsTypeOK
<1>2. HolderInv
  BY DEF SettingsInit, HolderInv, Idle
<1>3. NothingRetired /\ NoResurrection
  BY DEF SettingsInit, NothingRetired, NoResurrection
<1>4. QED
  BY <1>1, <1>2, <1>3 DEF SettingsInv

(* The type invariant is inductive. *)
LEMMA TypeStep == SettingsTypeOK /\ HolderInv /\ [SettingsNext]_settingsVars => SettingsTypeOK'
<1> SUFFICES ASSUME SettingsTypeOK, HolderInv, [SettingsNext]_settingsVars PROVE SettingsTypeOK'
  OBVIOUS
<1> USE SettingsAssumption, IdleType DEF SettingsTypeOK
<1>1. CASE UNCHANGED settingsVars
  BY <1>1 DEF settingsVars
<1>2. CASE Boot \/ SeedRename \/ SeedChmod
  BY <1>2 DEF Boot, SeedRename, SeedChmod, Permissions
<1>3. ASSUME NEW s \in Saves, Post(s) PROVE SettingsTypeOK'
  <2>1. PICK f \in Forms :
          save' = [save EXCEPT ![s] = [pc |-> "posted", form |-> f, old |-> file, base |-> NoFile]]
    BY <1>3 DEF Post
  <2>2. [pc |-> "posted", form |-> f, old |-> file, base |-> NoFile] \in Save
    BY RecordType
  <2>3. save' \in [Saves -> Save]
    BY <2>1, <2>2
  <2>4. QED
    BY <1>3, <2>3 DEF Post
<1>4. ASSUME NEW s \in Saves, NEW pc \in {"report", "renamed"}, Goto(s, pc)
      PROVE  save' \in [Saves -> Save]
  <2>1. save[s] \in Save
    OBVIOUS
  <2>2. [pc |-> pc, form |-> save[s].form, old |-> save[s].old, base |-> save[s].base] \in Save
    BY <2>1, FieldTypes, RecordType
  <2>3. QED
    BY <1>4, <2>2 DEF Goto
<1>5. ASSUME NEW s \in Saves, Refuse(s) PROVE SettingsTypeOK'
  BY <1>4, <1>5 DEF Refuse
<1>6. ASSUME NEW s \in Saves, LoadShared(s) PROVE SettingsTypeOK'
  <2>1. save[s].form \in Forms \cup {NoForm}
    BY FieldTypes
  <2>2. [pc |-> "loaded", form |-> save[s].form, old |-> NoFile, base |-> file] \in Save
    BY <2>1, RecordType
  <2>3. save' \in [Saves -> Save]
    BY <1>6, <2>2 DEF LoadShared, Loaded
  <2>4. QED
    BY <1>6, <2>3 DEF LoadShared
<1>7. ASSUME NEW s \in Saves, Rename(s) PROVE SettingsTypeOK'
  <2>1. save[s] \in Save /\ save[s].pc = "loaded" /\ admin = "up" /\ file \in SharedConfig
    BY <1>7 DEF Rename, HolderInv
  <2>2. save[s].base = file
    BY <2>1 DEF HolderInv
  <2>3. file' \in SharedConfig
    BY <1>7, <2>1, <2>2, AppliedType DEF Rename
  <2>4. retired' \in [Fields -> SUBSET Values]
    BY <1>7, <2>1 DEF Rename, SharedConfig
  <2>5. save' \in [Saves -> Save]
    BY <1>4, <1>7 DEF Rename
  <2>6. QED
    BY <1>7, <2>1, <2>3, <2>4, <2>5 DEF Rename
<1>8. ASSUME NEW s \in Saves, SaveFails(s) \/ Chmod(s) \/ ChmodFails(s) \/ Report(s)
      PROVE  SettingsTypeOK'
  <2>1. CASE Chmod(s)
    BY <1>4, <2>1 DEF Chmod
  <2>2. CASE SaveFails(s) \/ ChmodFails(s) \/ Report(s)
    BY <2>2 DEF SaveFails, ChmodFails, Report, Finish
  <2>3. QED
    BY <1>8, <2>1, <2>2
<1>9. CASE AdminCrash
  BY <1>9 DEF AdminCrash
<1>10. QED
  BY <1>1, <1>2, <1>3, <1>5, <1>6, <1>7, <1>8, <1>9 DEF SettingsNext, Start, Proceed

(* Only who waits for the lock gets it, and only the holder renames. *)
LEMMA HolderStep == SettingsTypeOK /\ HolderInv /\ [SettingsNext]_settingsVars => HolderInv'
<1> SUFFICES ASSUME SettingsTypeOK, HolderInv, [SettingsNext]_settingsVars PROVE HolderInv'
  OBVIOUS
<1> USE SettingsAssumption DEF SettingsTypeOK
<1>1. CASE UNCHANGED settingsVars
  BY <1>1 DEF settingsVars, HolderInv, Errors
<1>2. CASE Boot \/ SeedRename \/ SeedChmod
  <2>1. \A s \in Saves : save[s].pc = "idle"
    BY <1>2 DEF Boot, SeedRename, SeedChmod, HolderInv
  <2>2. UNCHANGED save
    BY <1>2 DEF Boot, SeedRename, SeedChmod
  <2>3. QED
    BY <2>1, <2>2 DEF HolderInv
<1>3. ASSUME NEW s \in Saves, Post(s) PROVE HolderInv'
  <2>1. PICK f \in Forms :
          save' = [save EXCEPT ![s] = [pc |-> "posted", form |-> f, old |-> file, base |-> NoFile]]
    BY <1>3 DEF Post
  <2>2. save'[s].pc = "posted" /\ save'[s].form \in Forms /\ admin' = "up"
    BY <1>3, <2>1 DEF Post
  <2>3. \A t \in Saves \ {s} : save'[t] = save[t]
    BY <2>1
  <2>4. UNCHANGED <<file, mu, admin>>
    BY <1>3 DEF Post
  <2>5. QED
    BY <2>2, <2>3, <2>4 DEF HolderInv
<1>4. ASSUME NEW s \in Saves, Refuse(s) PROVE HolderInv'
  <2>1. save'[s].pc = "report" /\ save'[s].form = save[s].form /\ save[s].pc = "posted"
    BY <1>4 DEF Refuse, Goto
  <2>2. (\A t \in Saves \ {s} : save'[t] = save[t]) /\ UNCHANGED <<file, mu, admin>>
    BY <1>4 DEF Refuse, Goto
  <2>3. QED
    BY <2>1, <2>2 DEF HolderInv
<1>5. ASSUME NEW s \in Saves, LoadShared(s) PROVE HolderInv'
  <2>1. /\ save'[s].pc = "loaded" /\ save'[s].form = save[s].form /\ save'[s].base = file
        /\ save[s].pc = "posted" /\ Errors(save[s].form) = {} /\ mu' = s
    BY <1>5 DEF LoadShared, Loaded
  <2>2. (\A t \in Saves \ {s} : save'[t] = save[t]) /\ UNCHANGED <<file, admin>>
    BY <1>5 DEF LoadShared
  <2>3. \A t \in Saves : save[t].pc \notin {"loaded", "renamed"}
    BY <1>5 DEF LoadShared, HolderInv
  <2>4. QED
    BY <2>1, <2>2, <2>3 DEF HolderInv
<1>6. ASSUME NEW s \in Saves, Rename(s) PROVE HolderInv'
  <2>1. /\ save'[s].pc = "renamed" /\ save'[s].form = save[s].form
        /\ save[s].pc = "loaded" /\ mu = s
    BY <1>6 DEF Rename, Goto, HolderInv
  <2>2. (\A t \in Saves \ {s} : save'[t] = save[t]) /\ UNCHANGED <<mu, admin>>
    BY <1>6 DEF Rename, Goto
  <2>3. \A t \in Saves \ {s} : save[t].pc # "loaded"
    BY <2>1 DEF HolderInv
  <2>4. QED
    BY <2>1, <2>2, <2>3 DEF HolderInv
<1>7. ASSUME NEW s \in Saves, SaveFails(s) \/ Chmod(s) \/ ChmodFails(s) PROVE HolderInv'
  <2>1. /\ save'[s].pc \in {"idle", "report"}
        /\ save'[s].pc = "report" => save'[s].form = save[s].form
        /\ save[s].pc \in {"loaded", "renamed"} /\ mu = s
    BY <1>7 DEF SaveFails, Chmod, ChmodFails, Goto, Finish, Idle, HolderInv
  <2>2. (\A t \in Saves \ {s} : save'[t] = save[t]) /\ UNCHANGED <<file, admin>>
    BY <1>7 DEF SaveFails, Chmod, ChmodFails, Goto, Finish
  <2>3. \A t \in Saves \ {s} : save[t].pc \notin {"loaded", "renamed"}
    BY <2>1 DEF HolderInv
  <2>4. QED
    BY <2>1, <2>2, <2>3 DEF HolderInv
<1>8. ASSUME NEW s \in Saves, Report(s) PROVE HolderInv'
  <2>1. save'[s].pc = "idle"
    BY <1>8 DEF Report, Finish, Idle
  <2>2. (\A t \in Saves \ {s} : save'[t] = save[t]) /\ UNCHANGED <<file, mu, admin>>
    BY <1>8 DEF Report, Finish
  <2>3. QED
    BY <2>1, <2>2 DEF HolderInv
<1>9. CASE AdminCrash
  BY <1>9 DEF AdminCrash, HolderInv, Idle
<1>10. QED
  BY <1>1, <1>2, <1>3, <1>4, <1>5, <1>6, <1>7, <1>8, <1>9 DEF SettingsNext, Start, Proceed

(* Only a rename replaces values, and it writes none that it does not submit. *)
LEMMA RetiredStep ==
  SettingsInv /\ [SettingsNext]_settingsVars => (NothingRetired /\ NoResurrection)'
<1> SUFFICES ASSUME SettingsInv, [SettingsNext]_settingsVars
             PROVE  (NothingRetired /\ NoResurrection)'
  OBVIOUS
<1> USE SettingsAssumption DEF SettingsInv, NothingRetired, NoResurrection
<1>1. CASE UNCHANGED <<file, retired>>
  BY <1>1
<1>2. CASE SeedRename
  <2>1. retired' = [k \in Fields |-> {}] /\ file' # NoFile
    BY <1>2 DEF SeedRename
  <2>2. QED
    BY <2>1
<1>3. ASSUME NEW s \in Saves, Rename(s) PROVE (NothingRetired /\ NoResurrection)'
  <2>1. save[s].base = file /\ file \in SharedConfig
    BY <1>3 DEF Rename, HolderInv, SettingsTypeOK
  <2>2. file' \in SharedConfig /\ file' # NoFile
    BY <1>3, <2>1, AppliedType DEF Rename
  <2>3. ASSUME NEW k \in Fields PROVE file'[k] \notin retired'[k]
    <3>1. CASE save[s].form[k] \in Values
      BY <1>3, <3>1 DEF Rename, Applied
    <3>2. CASE save[s].form[k] \notin Values
      BY <1>3, <2>1, <3>2 DEF Rename, Applied
    <3>3. QED
      BY <3>1, <3>2
  <2>4. QED
    BY <2>2, <2>3
<1>4. QED
  BY <1>1, <1>2, <1>3
  DEF SettingsNext, settingsVars, Start, Proceed, Boot, SeedChmod, Post, Refuse, LoadShared,
      SaveFails, Chmod, ChmodFails, Report, AdminCrash

(* All parts of the invariant, for every step. *)
LEMMA InvStep == SettingsInv /\ [SettingsNext]_settingsVars => SettingsInv'
BY TypeStep, HolderStep, RetiredStep DEF SettingsInv

(* The invariant holds throughout. *)
LEMMA InvHolds == SettingsSpec => []SettingsInv
BY InitInv, InvStep, PTL DEF SettingsSpec

(* Every variable keeps its type, and the admin never runs without a file. *)
THEOREM SettingsTypes == SettingsSpec => []SettingsTypeOK
<1>1. SettingsInv => SettingsTypeOK
  BY DEF SettingsInv
<1>2. QED
  BY <1>1, InvHolds, PTL

(* A value that a form replaced is not in config.json again before a form   *)
(* submits it: not through a save that loaded it earlier, nor by a crash,   *)
(* a failed save or the seeding at start-up.                                *)
THEOREM ReplacedStaysReplaced == SettingsSpec => []NoResurrection
<1>1. SettingsInv => NoResurrection
  BY DEF SettingsInv
<1>2. QED
  BY <1>1, InvHolds, PTL

-----------------------------------------------------------------------------
(* While the admin runs, the file is closed to the web container only until *)
(* the chmod of the save that has renamed it, or because that chmod failed. *)
ChmodPending ==
  admin = "up" /\ mode = "0600" /\ ~torn =>
    \E s \in Saves : mu = s /\ save[s].pc = "renamed"

(* Start-up repairs the mode; a save closes the file only while it holds the *)
(* mutex, and gives the mutex back only by opening the file or by failing    *)
(* to.                                                                       *)
LEMMA ChmodPendingStep ==
  ASSUME SettingsInv, ChmodPending, [SettingsNext]_settingsVars
  PROVE  ChmodPending'
<1> USE SettingsAssumption DEF SettingsInv, SettingsTypeOK, ChmodPending
<1>1. ASSUME NEW s \in Saves, NEW q, save' = [save EXCEPT ![s] = q], save[s].pc # "renamed",
             UNCHANGED <<mode, admin, mu, torn>>
      PROVE  ChmodPending'
  BY <1>1
<1>2. CASE Start
  BY <1>2 DEF Start, Boot, SeedRename, SeedChmod, Permissions
<1>3. CASE AdminCrash
  BY <1>3 DEF AdminCrash
<1>4. ASSUME NEW s \in Saves, Post(s) PROVE ChmodPending'
  <2>1. PICK q : save' = [save EXCEPT ![s] = q]
    BY <1>4 DEF Post
  <2>2. QED
    BY <1>1, <1>4, <2>1 DEF Post
<1>5. ASSUME NEW s \in Saves, Refuse(s) \/ Report(s) PROVE ChmodPending'
  BY <1>1, <1>5 DEF Refuse, Report, Goto, Finish
<1>6. ASSUME NEW s \in Saves, LoadShared(s) \/ SaveFails(s) PROVE ChmodPending'
  <2>1. ~(admin = "up" /\ mode = "0600" /\ ~torn)
    BY <1>6 DEF LoadShared, SaveFails, HolderInv
  <2>2. QED
    BY <1>6, <2>1 DEF LoadShared, SaveFails
<1>7. ASSUME NEW s \in Saves, Rename(s) PROVE ChmodPending'
  <2>1. mu' = s
    BY <1>7 DEF Rename, HolderInv
  <2>2. save'[s].pc = "renamed"
    BY <1>7 DEF Rename, Goto
  <2>3. QED
    BY <2>1, <2>2
<1>8. ASSUME NEW s \in Saves, Chmod(s) \/ ChmodFails(s) PROVE ChmodPending'
  BY <1>8 DEF Chmod, ChmodFails
<1>9. CASE UNCHANGED settingsVars
  BY <1>9 DEF settingsVars
<1>10. QED
  BY <1>2, <1>3, <1>4, <1>5, <1>6, <1>7, <1>8, <1>9 DEF SettingsNext, Proceed

(* Between saves a running admin and the web container have the same         *)
(* settings, unless a chmod failed: no order of saves, failures and restarts *)
(* leaves the web container with the values of its environment.              *)
THEOREM WebStaysInStep == SettingsSpec => []WebInStep
<1>1. SettingsInit => ChmodPending
  BY DEF SettingsInit, ChmodPending
<1>2. ASSUME SettingsInv, ChmodPending PROVE WebInStep
  BY <1>2, SettingsAssumption
  DEF SettingsInv, SettingsTypeOK, ChmodPending, WebInStep, Effective, WebReads
<1>3. QED
  BY <1>1, <1>2, ChmodPendingStep, InvHolds, PTL DEF SettingsSpec

-----------------------------------------------------------------------------
(* A submission enters, leaves and commits in the abstract specification as *)
(* its record passes "posted", leaves "loaded", and renames.                *)
LEMMA PendingOf ==
  ASSUME NEW s \in Saves
  PROVE  Pending[s] = IF save[s].pc \in {"posted", "loaded"} THEN save[s].form ELSE NoForm
BY DEF Pending

(* At first the abstract configuration is the environment and no form is pending. *)
LEMMA RefinesInit == SettingsInit => Atomic!Init
BY SettingsAssumption
DEF SettingsInit, Atomic!Init, Configuration, Pending, Idle, SharedConfig

(* Every step is a step of the abstract specification or leaves it alone. *)
LEMMA RefinesStep ==
  SettingsInv /\ [SettingsNext]_settingsVars => [Atomic!Next]_(Atomic!vars)
<1> SUFFICES ASSUME SettingsInv, [SettingsNext]_settingsVars
             PROVE  [Atomic!Next]_(Atomic!vars)
  OBVIOUS
<1> USE SettingsAssumption
<1>0. save \in [Saves -> Save]
  BY DEF SettingsInv, SettingsTypeOK
<1>1. ASSUME UNCHANGED Configuration, UNCHANGED Pending PROVE [Atomic!Next]_(Atomic!vars)
  BY <1>1 DEF Atomic!vars
<1>2. ASSUME NEW S \in SUBSET Saves, UNCHANGED Configuration,
             Pending' = [s \in Saves |-> IF s \in S THEN NoForm ELSE Pending[s]]
      PROVE  [Atomic!Next]_(Atomic!vars)
  BY <1>2 DEF Atomic!Next, Atomic!Drop
<1>3. ASSUME UNCHANGED <<file, save>> PROVE [Atomic!Next]_(Atomic!vars)
  BY <1>1, <1>3 DEF Configuration, Pending
<1>4. CASE SeedRename
  BY <1>1, <1>4 DEF SeedRename, Configuration, Pending
<1>5. ASSUME NEW s \in Saves, Post(s) PROVE [Atomic!Next]_(Atomic!vars)
  <2>1. PICK f \in Forms :
          save' = [save EXCEPT ![s] = [pc |-> "posted", form |-> f, old |-> file, base |-> NoFile]]
    BY <1>5 DEF Post
  <2>2. save[s].pc = "idle" /\ UNCHANGED file
    BY <1>5 DEF Post
  <2>3. Pending[s] = NoForm /\ Pending'[s] = f /\ UNCHANGED Configuration
    BY <1>0, <2>1, <2>2 DEF Pending, Configuration
  <2>4. Pending' = [Pending EXCEPT ![s] = Pending'[s]]
    BY <1>0, <2>1, <2>3 DEF Pending
  <2>5. f \in Atomic!Form
    BY DEF Form, Atomic!Form
  <2>6. Atomic!Submit(s)
    BY <2>3, <2>4, <2>5 DEF Atomic!Submit
  <2>7. QED
    BY <2>6 DEF Atomic!Next
<1>6. ASSUME NEW s \in Saves, LoadShared(s) PROVE [Atomic!Next]_(Atomic!vars)
  <2>1. UNCHANGED Pending
    BY <1>0, <1>6 DEF LoadShared, Pending
  <2>2. UNCHANGED Configuration
    BY <1>6 DEF LoadShared, Configuration
  <2>3. QED
    BY <1>1, <2>1, <2>2
<1>7. ASSUME NEW s \in Saves, Refuse(s) \/ SaveFails(s) \/ Chmod(s) \/ ChmodFails(s) \/ Report(s)
      PROVE  [Atomic!Next]_(Atomic!vars)
  <2>1. UNCHANGED Configuration
    BY <1>7 DEF Refuse, SaveFails, Chmod, ChmodFails, Report, Configuration
  <2>2. save'[s].pc \in {"idle", "report"} /\ \A t \in Saves \ {s} : save'[t] = save[t]
    BY <1>0, <1>7 DEF Refuse, SaveFails, Chmod, ChmodFails, Report, Goto, Finish, Idle
  <2>3. Pending' = [t \in Saves |-> IF t \in {s} THEN NoForm ELSE Pending[t]]
    BY <2>2 DEF Pending
  <2>4. QED
    BY <1>2, <2>1, <2>3
<1>8. ASSUME NEW s \in Saves, Rename(s) PROVE [Atomic!Next]_(Atomic!vars)
  <2>1. /\ save[s].pc = "loaded" /\ save[s].form \in Forms /\ save[s].base = file
        /\ Errors(save[s].form) = {} /\ admin = "up"
    BY <1>8 DEF Rename, SettingsInv, HolderInv
  <2>2. file \in SharedConfig
    BY <2>1 DEF SettingsInv, SettingsTypeOK
  <2>3. file' = Applied(file, save[s].form) /\ file' \in SharedConfig
    BY <1>8, <2>1, <2>2, AppliedType DEF Rename
  <2>4. Pending[s] = save[s].form /\ Pending[s] # NoForm
    BY <2>1 DEF Pending
  <2>5. Atomic!Acceptable(Pending[s])
    BY <2>1, <2>4 DEF Atomic!Acceptable, Errors
  <2>6. save'[s].pc = "renamed" /\ \A t \in Saves \ {s} : save'[t] = save[t]
    BY <1>0, <1>8 DEF Rename, Goto
  <2>7. Pending' = [Pending EXCEPT ![s] = NoForm]
    BY <2>6 DEF Pending
  <2>8. Configuration' = [k \in Fields |->
          IF Pending[s][k] \in Values THEN Pending[s][k] ELSE Configuration[k]]
    BY <2>2, <2>3, <2>4 DEF Configuration, Applied
  <2>9. Atomic!Commit(s)
    BY <2>4, <2>5, <2>7, <2>8 DEF Atomic!Commit
  <2>10. QED
    BY <2>9 DEF Atomic!Next
<1>9. CASE AdminCrash
  <2>1. UNCHANGED Configuration
    BY <1>9 DEF AdminCrash, Configuration
  <2>2. Pending' = [t \in Saves |-> IF t \in Saves THEN NoForm ELSE Pending[t]]
    BY <1>9 DEF AdminCrash, Pending, Idle
  <2>3. QED
    BY <1>2, <2>1, <2>2
<1>10. QED
  BY <1>3, <1>4, <1>5, <1>6, <1>7, <1>8, <1>9
  DEF SettingsNext, settingsVars, Start, Proceed, Boot, SeedChmod

(* The settings page implements AtomicSettings: config.json changes by whole *)
(* valid forms only, each applied at most once to what the file held at that *)
(* moment, whatever fails or crashes between the steps of a save.            *)
THEOREM SettingsRefine == SettingsSpec => FormsAreTransactions
<1>1. Atomic!Spec <=> Atomic!Init /\ [][Atomic!Next]_(Atomic!vars)
  BY DEF Atomic!Spec
<1>2. QED
  BY <1>1, InvHolds, RefinesInit, RefinesStep, PTL DEF SettingsSpec, FormsAreTransactions
=============================================================================
