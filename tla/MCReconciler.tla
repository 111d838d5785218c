---------------------------- MODULE MCReconciler ----------------------------
(* Instances of Reconciler for TLC. *)
EXTENDS Reconciler

CONSTANTS alice, bob, carol, ka, kb, kc

On(u, keys) == [name |-> u, enabled |-> TRUE, shape |-> "strings", keys |-> keys]
Off(u, keys) == [On(u, keys) EXCEPT !.enabled = FALSE]
OfShape(u, shape) == [On(u, {}) EXCEPT !.shape = shape]

(* Users that come, go, are disabled, revoked by an empty list, change     *)
(* index and keys, and every kind of malformed entry.                      *)
MixedDocs ==
  {<<On(alice, {ka, kb}), On(bob, {kb})>>,
   <<On(bob, {}), Off(alice, {ka})>>,
   <<OfShape(alice, "mixed"), On(bob, {BadKey, kb})>>,
   <<On(BadName, {kb}), On(bob, {ka}), OfShape(alice, "missing")>>,
   Broken}

AnyMixed == [d \in MixedDocs \cup {NoFile} |-> MixedDocs \ {d}]

(* handleDelete removes a disabled user; the others move up one index. *)
WithAlice == <<Off(alice, {ka}), On(bob, {kb}), On(carol, {kc})>>
DeletionDocs == {WithAlice, Tail(WithAlice)}
Deletion == [d \in DeletionDocs \cup {NoFile} |->
               IF d = WithAlice THEN {Tail(WithAlice)} ELSE {}]

(* handleStatus enables a user and disables it again, or the reverse. *)
ToggleDocs == {<<On(alice, {ka})>>, <<Off(alice, {ka})>>}
Toggle == [d \in ToggleDocs \cup {NoFile} |-> ToggleDocs \ {d}]
=============================================================================
