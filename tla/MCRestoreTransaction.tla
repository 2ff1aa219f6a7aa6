------------------------ MODULE MCRestoreTransaction ------------------------
(***************************************************************************)
(* RestoreTransaction on a destination with one file in the root and one   *)
(* in a directory below it, which may or may not exist. old and relabelled *)
(* have the same bytes under different permission bits; other programs     *)
(* write any of the three contents. One request replaces and creates with  *)
(* full authority, the other deletes the file below, which it may, and     *)
(* creates the one in the root, which it may not replace.                  *)
(***************************************************************************)
EXTENDS RestoreTransaction, TLC

CONSTANTS top, sub, dir, old, new, relabelled

MCPath    == {top, sub}
MCDir     == {dir}
MCBytes   == (old :> 1) @@ (relabelled :> 1) @@ (new :> 2)
MCParent  == (top :> Root) @@ (sub :> dir)

Want(t, s) == (top :> t) @@ (sub :> s)

MCRequests ==
    { [paths |-> MCPath, target |-> Want(new, new), replace |-> MCPath],
      [paths |-> MCPath, target |-> Want(old, Absent), replace |-> {sub}] }
=============================================================================
