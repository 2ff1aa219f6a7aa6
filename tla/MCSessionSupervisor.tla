------------------------- MODULE MCSessionSupervisor -------------------------
(***************************************************************************)
(* Small instances of SessionSupervisor for TLC.                           *)
(***************************************************************************)
EXTENDS SessionSupervisor, TLC

CONSTANTS s1, s2

\* Sessions differ only by name.
Alike == Permutations(Session)
=============================================================================
