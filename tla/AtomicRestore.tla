--------------------------- MODULE AtomicRestore ---------------------------
(***************************************************************************)
(* What a restore promises the owner of the destination tree, with no      *)
(* journal, backup or crash in sight.                                      *)
(*                                                                         *)
(* value[p] is the content that file p has once whatever is pending has    *)
(* been recovered.  A restore opens with a set of planned paths and a      *)
(* target for each of them.  From then on the planned files that nobody    *)
(* else has touched keep their value or move to their targets together, in *)
(* one step.  Files that some other program has written since the restore  *)
(* opened carry no promise: the restore may refuse because of them, or may *)
(* lose a race with the write.  Files outside the plan never change.       *)
(***************************************************************************)
CONSTANTS Path,    \* the files of the destination tree
          File     \* what a file can hold, its absence included

VARIABLES value,   \* [Path -> File], what recovery leaves in each file
          plan,    \* the paths the current restore covers
          target,  \* [Path -> File], what it installs
          touched  \* the paths another program wrote since it opened

vars == <<value, plan, target, touched>>

TypeOK ==
    /\ value \in [Path -> File]
    /\ plan \subseteq Path
    /\ target \in [Path -> File]
    /\ touched \subseteq Path

Init ==
    /\ value \in [Path -> File]
    /\ plan = {}
    /\ target = value
    /\ touched = {}

\* A restore opens: it fixes its plan and its targets, and changes nothing.
Open ==
    /\ plan' \in SUBSET Path
    /\ target' \in [Path -> File]
    /\ touched' = {}
    /\ UNCHANGED value

\* The planned files nobody else has touched keep their value or reach their
\* target, all of them alike; files outside the plan keep theirs; the touched
\* ones may take any value.
Move ==
    /\ value' \in [Path -> File]
    /\ \A p \in Path \ (plan \cup touched') : value'[p] = value[p]
    /\ \/ \A p \in plan \ touched' : value'[p] = value[p]
       \/ \A p \in plan \ touched' : value'[p] = target[p]
    /\ UNCHANGED <<plan, target>>

\* The restore takes effect, or it collides with what others do to a file.
Proceed == touched' = touched /\ Move

\* Another program writes, creates or removes one file.
External(p) == touched' = touched \cup {p} /\ Move

Next ==
    \/ Open
    \/ Proceed
    \/ \E p \in Path : External(p)

Spec == Init /\ [][Next]_vars
=============================================================================
