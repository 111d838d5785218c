--------------------------- MODULE AtomicSettings ---------------------------
(***************************************************************************)
(* What the settings page promises: every submitted form is one            *)
(* transaction on one configuration.  It is applied to the configuration   *)
(* as it is at that moment, entirely or not at all, and at most once; a    *)
(* field it does not name keeps its value.  Nothing is said of locks,      *)
(* files, modes, failures or restarts: Settings implements this.           *)
(***************************************************************************)
CONSTANTS
  Fields,   \* the editable settings
  Secrets,  \* those of them that an empty input leaves as they are
  Values,   \* acceptable values
  Empty,    \* what the input validation refuses
  Absent,   \* the form does not have the field
  Saves,    \* submissions that may be under way at the same time
  NoTx

VARIABLES
  cfg,  \* the configuration
  tx    \* tx[s]: the form submission s still has to apply, or NoTx

vars == <<cfg, tx>>

Form == [Fields -> Values \cup {Empty, Absent}]

Acceptable(f) == \A k \in Fields : f[k] = Empty => k \in Secrets

Init ==
  /\ cfg \in [Fields -> Values]
  /\ tx = [s \in Saves |-> NoTx]

Submit(s) ==
  /\ tx[s] = NoTx
  /\ tx'[s] \in Form
  /\ tx' = [tx EXCEPT ![s] = tx'[s]]
  /\ UNCHANGED cfg

Commit(s) ==
  /\ tx[s] # NoTx
  /\ Acceptable(tx[s])
  /\ cfg' = [k \in Fields |-> IF tx[s][k] \in Values THEN tx[s][k] ELSE cfg[k]]
  /\ tx' = [tx EXCEPT ![s] = NoTx]

(* Refused, failed, or lost with the process. *)
Drop(S) ==
  /\ tx' = [s \in Saves |-> IF s \in S THEN NoTx ELSE tx[s]]
  /\ UNCHANGED cfg

Next ==
  \/ \E s \in Saves : Submit(s) \/ Commit(s)
  \/ \E S \in SUBSET Saves : Drop(S)

Spec == Init /\ [][Next]_vars
=============================================================================
