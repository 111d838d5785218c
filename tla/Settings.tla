------------------------------ MODULE Settings ------------------------------
(***************************************************************************)
(* The shared configuration file config.json (internal/config/shared.go):  *)
(* the admin container seeds it at start-up (sftpadmin/config.go) and      *)
(* changes it from its settings page (sftpadmin/settings.go and            *)
(* handleSettingsSave); the web container reads it on every request and    *)
(* falls back to the values of its environment when it cannot              *)
(* (effectiveConfig).                                                      *)
(*                                                                         *)
(* A save is visible in two steps, the rename, which leaves the file 0600, *)
(* and the chmod to 0640 that lets the web container read it.              *)
(*                                                                         *)
(* ErrorsIgnored, AppliedBlanks, LoadedBefore and PermissionsKept are the  *)
(* definitions after them as a plausible bug would have them; no           *)
(* specification uses them.                                                *)
(***************************************************************************)
CONSTANTS
  Fields,   \* the settings of SettingsRegistry
  Secrets,  \* the ones with IsSecret
  Values,   \* values that SharedConfig.Validate accepts
  Empty,    \* one that it refuses: the empty string, an unknown hash name
  Absent,   \* the form does not have the field
  Env,      \* the values in both containers' environment
  Forms,    \* the forms that browsers submit
  Saves,    \* slots for submissions under way
  Faults,   \* which of "save", "torn", "crash" can happen
  NoFile, NoSave, NoForm

SharedConfig == [Fields -> Values]
Form == [Fields -> Values \cup {Empty, Absent}]

ASSUME SettingsAssumption ==
  /\ Env \in SharedConfig
  /\ Forms \subseteq Form
  /\ Empty \notin Values /\ Absent \notin Values /\ Empty # Absent
  /\ NoFile \notin SharedConfig /\ NoForm \notin Form /\ NoSave \notin Saves

VARIABLES
  file,     \* config.json
  mode,     \* its permission bits
  admin,    \* the admin container: "down", "seeding" the file, or "up"
  mu,       \* settingsMu
  save,     \* what each submission is doing
  torn,     \* ghost: the last chmod failed
  retired   \* ghost: for each field the values that forms have replaced

settingsVars == <<file, mode, admin, mu, save, torn, retired>>

Idle == [pc |-> "idle", form |-> NoForm, old |-> NoFile, base |-> NoFile]
Save ==
  [pc : {"idle", "posted", "loaded", "renamed", "report"},
   form : Forms \cup {NoForm},
   old : SharedConfig \cup {NoFile}, base : SharedConfig \cup {NoFile}]

(* effectiveConfig of the web container, which is in the file's group. *)
WebReads == file # NoFile /\ mode = "0640"
Effective == IF WebReads THEN file ELSE Env

(* The errors of ApplySettings.  It validates field by field on top of a    *)
(* valid configuration, so a field fails by its own value, in any order; an *)
(* empty secret is skipped.                                                 *)
ErrorsIgnored(f) == {}
Errors(f) == {k \in Fields \ Secrets : f[k] = Empty}
AppliedBlanks(c, f) == [k \in Fields |-> IF f[k] # Absent THEN f[k] ELSE c[k]]
Applied(c, f) == [k \in Fields |-> IF f[k] \in Values THEN f[k] ELSE c[k]]

(* What ApplySettings starts from: the file as it is under the lock. *)
LoadedBefore(s) == save[s].old
Loaded(s) == file

Goto(s, pc) ==
  save' = [save EXCEPT ![s] = [pc |-> pc, form |-> save[s].form,
                               old |-> save[s].old, base |-> save[s].base]]
Finish(s) == save' = [save EXCEPT ![s] = Idle]

-----------------------------------------------------------------------------
SettingsInit ==
  /\ file = NoFile
  /\ mode = "0640"
  /\ admin = "down"
  /\ mu = NoSave
  /\ save = [s \in Saves |-> Idle]
  /\ torn = FALSE
  /\ retired = [k \in Fields |-> {}]

(* Start-up with a file: prepareSharedPermissions repairs its mode, and *)
(* SeedSharedConfig leaves its contents alone.                          *)
PermissionsKept == UNCHANGED <<mode, torn>>
Permissions == mode' = "0640" /\ torn' = FALSE
Boot ==
  /\ admin = "down"
  /\ file # NoFile
  /\ Permissions
  /\ admin' = "up"
  /\ UNCHANGED <<file, mu, save, retired>>

(* First start: SeedSharedConfig saves the environment's values. *)
SeedRename ==
  /\ admin = "down"
  /\ file = NoFile
  /\ file' = Env
  /\ mode' = "0600"
  /\ admin' = "seeding"
  /\ UNCHANGED <<mu, save, torn, retired>>

SeedChmod ==
  /\ admin = "seeding"
  /\ Permissions
  /\ admin' = "up"
  /\ UNCHANGED <<file, mu, save, retired>>

(* handleSettingsSave up to ApplySettings; what it reads before is for the *)
(* log only.                                                               *)
Post(s) ==
  /\ admin = "up"
  /\ save[s].pc = "idle"
  /\ \E f \in Forms :
       save' = [save EXCEPT ![s] = [pc |-> "posted", form |-> f, old |-> file, base |-> NoFile]]
  /\ UNCHANGED <<file, mode, admin, mu, torn, retired>>

(* ApplySettings: load under the lock; an invalid field aborts it all. *)
Refuse(s) ==
  /\ save[s].pc = "posted"
  /\ mu = NoSave
  /\ Errors(save[s].form) # {}
  /\ Goto(s, "report")
  /\ UNCHANGED <<file, mode, admin, mu, torn, retired>>

LoadShared(s) ==
  /\ save[s].pc = "posted"
  /\ mu = NoSave
  /\ Errors(save[s].form) = {}
  /\ mu' = s
  /\ save' = [save EXCEPT ![s] = [pc |-> "loaded", form |-> save[s].form,
                                  old |-> NoFile, base |-> Loaded(s)]]
  /\ UNCHANGED <<file, mode, admin, torn, retired>>

(* SharedConfig.Save: an error before or in the rename. *)
SaveFails(s) ==
  /\ "save" \in Faults
  /\ save[s].pc = "loaded"
  /\ mu' = NoSave
  /\ Finish(s)
  /\ UNCHANGED <<file, mode, admin, torn, retired>>

Rename(s) ==
  /\ save[s].pc = "loaded"
  /\ file' = Applied(save[s].base, save[s].form)
  /\ mode' = "0600"
  /\ retired' = [k \in Fields |->
       LET v == save[s].form[k] IN
       IF v \in Values THEN (retired[k] \cup {file[k]}) \ {v} ELSE retired[k]]
  /\ Goto(s, "renamed")
  /\ UNCHANGED <<admin, mu, torn>>

Chmod(s) ==
  /\ save[s].pc = "renamed"
  /\ mode' = "0640" /\ torn' = FALSE
  /\ mu' = NoSave
  /\ Goto(s, "report")
  /\ UNCHANGED <<file, admin, retired>>

(* Answered 500 though published. *)
ChmodFails(s) ==
  /\ "torn" \in Faults
  /\ save[s].pc = "renamed"
  /\ torn' = TRUE
  /\ mu' = NoSave
  /\ Finish(s)
  /\ UNCHANGED <<file, mode, admin, retired>>

(* The rest of the handler logs, reads the settings again and renders. *)
Report(s) ==
  /\ save[s].pc = "report"
  /\ Finish(s)
  /\ UNCHANGED <<file, mode, admin, mu, torn, retired>>

(* The process ends with its requests, or start-up fails; the container *)
(* runtime starts it again.                                             *)
AdminCrash ==
  /\ "crash" \in Faults
  /\ admin # "down"
  /\ admin' = "down"
  /\ mu' = NoSave
  /\ save' = [s \in Saves |-> Idle]
  /\ UNCHANGED <<file, mode, torn, retired>>

Start == Boot \/ SeedRename \/ SeedChmod
Proceed(s) == Refuse(s) \/ LoadShared(s) \/ SaveFails(s) \/ Rename(s)
                \/ Chmod(s) \/ ChmodFails(s) \/ Report(s)
SettingsNext ==
  \/ Start
  \/ \E s \in Saves : Post(s) \/ Proceed(s)
  \/ AdminCrash

SettingsSpec == SettingsInit /\ [][SettingsNext]_settingsVars

-----------------------------------------------------------------------------
(* Every variable keeps its type, and a running admin has a file to read. *)
SettingsTypeOK ==
  /\ file \in SharedConfig \cup {NoFile}
  /\ mode \in {"0600", "0640"}
  /\ admin \in {"down", "seeding", "up"}
  /\ mu \in Saves \cup {NoSave}
  /\ save \in [Saves -> Save]
  /\ torn \in BOOLEAN
  /\ retired \in [Fields -> SUBSET Values]
  /\ file = NoFile => admin = "down"

(* A value that a form has replaced, a token or a password above all, is not *)
(* in the file again unless a later form submits it: no other save that is   *)
(* under way, failed save or restart brings it back.                         *)
NoResurrection ==
  file # NoFile => \A k \in Fields : file[k] \notin retired[k]

(* The file changes by whole forms only, each applied once to what the file *)
(* held at that moment: ApplySettings loads and saves once, under           *)
(* settingsMu, and aborts on any invalid field.                             *)
Configuration == IF file = NoFile THEN Env ELSE file
Pending == [s \in Saves |->
  IF save[s].pc \in {"posted", "loaded"} THEN save[s].form ELSE NoForm]
Atomic == INSTANCE AtomicSettings WITH cfg <- Configuration, tx <- Pending, NoTx <- NoForm
FormsAreTransactions == Atomic!Spec

(* The web container comes to see what is in the file, also when the admin *)
(* dies between rename and chmod; only a chmod that fails may prevent it.  *)
WebCatchesUp == file # NoFile ~> Effective = file \/ torn

(* While the admin runs and no save is between load and chmod, what the web  *)
(* container takes is what is in the file, unless the last chmod failed.     *)
WebInStep == admin = "up" /\ mu = NoSave => Effective = file \/ torn
=============================================================================
