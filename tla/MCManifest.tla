----------------------------- MODULE MCManifest -----------------------------
(* Instances of Manifest for TLC. *)
EXTENDS Manifest, TLC

CONSTANTS n1, n2, k1, k2, r1, r2

(* One legacy key in both forms, so that fingerprints can be doubled. *)
LegacyMixed == [fp : {k1}, form : {"canonical", "commented"}] \cup {Invalid}
LegacyPlain == [fp : {k1}, form : {"canonical"}] \cup {Invalid}
=============================================================================
