------------------------------ MODULE MCManage ------------------------------
(* A small instance of Manage for TLC. *)
EXTENDS Manage

CONSTANTS d1, d2, n1, n2
MCDirs == {d1, d2}
MCNames == {n1, n2}

\* One path of each folder is safe from other programs.
MCForeign == MCDirs \X {n2}
=============================================================================
