--------------------------- MODULE MCSystemdUnits ---------------------------
(* Small instances of SystemdUnits: configurations by name. *)
EXTENDS SystemdUnits

CONSTANTS w1, w2, w3, l1, l2, c1, c2
=============================================================================
