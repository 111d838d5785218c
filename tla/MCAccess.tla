------------------------------ MODULE MCAccess ------------------------------
(* Instances of Access for TLC. *)
EXTENDS Access

CONSTANTS s1, s2, l1, l2, v1, e, a

MCFields == {"HASH_ALGORITHM", "ADMIN_TOKEN", "SFTP_ADMIN_PASSWORD"}
MCSecrets == {"ADMIN_TOKEN", "SFTP_ADMIN_PASSWORD"}
MCForm(algo, tok, pw) ==
  [k \in MCFields |-> IF k = "HASH_ALGORITHM" THEN algo
                      ELSE IF k = "ADMIN_TOKEN" THEN tok ELSE pw]
MCEnv == MCForm("x", "x", "x")

(* A new token, the old token again with a new password, and one good field *)
(* with a bad one.                                                          *)
MCForms == {MCForm("x", "y", e), MCForm(a, "x", "y"), MCForm(e, "y", a)}
MCIpOf == [l \in {l1, l2} |-> "ip"]
MCMixes ==
  {{s1, s2, l1}, {s1, l1, l2, "clock"}, {s1, l1, v1}, {s1, l1, "api"}, {v1, "api", "clock"}}
TokenMix == {{s1, l1, v1, "api"}}
=============================================================================
