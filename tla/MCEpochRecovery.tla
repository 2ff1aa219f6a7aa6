--------------------------- MODULE MCEpochRecovery ---------------------------
(***************************************************************************)
(* Small instances of EpochRecovery for TLC.                               *)
(***************************************************************************)
EXTENDS EpochRecovery

CONSTANT c1
=============================================================================
