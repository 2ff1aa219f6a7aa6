--------------------------- MODULE GenerationGate ---------------------------
(***************************************************************************)
(* What the committed frontend promises to whoever drives it: a gate that  *)
(* is open for one generation or shut, that is shut between two            *)
(* generations, and that never goes back to an earlier one.                *)
(***************************************************************************)
EXTENDS Naturals

VARIABLES
    open,   \* the generation whose gate is open, or 0
    last    \* the last generation it was opened for

gateVars == <<open, last>>

GateInit == open = 0 /\ last = 0

\* A gate is opened for a later generation, or again for the last one.
Open ==
    /\ open = 0 /\ open' \in Nat \ {0}
    /\ open' >= last /\ last' = open'

Shut == open # 0 /\ open' = 0 /\ UNCHANGED last

GateNext == Open \/ Shut

GateSpec == GateInit /\ [][GateNext]_gateVars
=============================================================================
