---------------------------- MODULE MCBootUnlock ----------------------------
(* Small instances of BootUnlock: operators and the service by name. *)
EXTENDS BootUnlock

CONSTANTS op1, op2, service
=============================================================================
