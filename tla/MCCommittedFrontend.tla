------------------------ MODULE MCCommittedFrontend ------------------------
(***************************************************************************)
(* CommittedFrontend with two connections, the least that can be in two    *)
(* places of the accept path at once.                                      *)
(***************************************************************************)
EXTENDS CommittedFrontend, TLC

CONSTANTS c1, c2

MCClient == {c1, c2}

\* The connections differ in nothing.
Alike == Permutations(MCClient)
=============================================================================
