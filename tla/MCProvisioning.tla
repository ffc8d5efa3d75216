--------------------------- MODULE MCProvisioning ---------------------------
(* Small instances of Provisioning: one text the renderer accepts and one  *)
(* it rejects.                                                             *)
EXTENDS Provisioning

CONSTANTS good, bad

MCBody    == {good, bad}
MCBadBody == {bad}
=============================================================================
