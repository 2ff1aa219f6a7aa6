-------------------------- MODULE MCSecretRestore --------------------------
(***************************************************************************)
(* SecretRestore with two restores (the second one meets what the first    *)
(* one left) and one installation.                                         *)
(***************************************************************************)
EXTENDS SecretRestore

CONSTANTS gateway, worker, r1, r2

MCUnit == {gateway, worker}
MCRun  == {r1, r2}
=============================================================================
