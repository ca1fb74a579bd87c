------------------------------- MODULE MCTui --------------------------------
(* Small instances of Tui for TLC. *)
EXTENDS Tui, TLC
Symmetry == Permutations(Peers)

\* Bound: states with more rows are checked but not followed.  Rows decide
\* something in the window of a quick send only.
FewRows == Cardinality(DOMAIN rows) <= IF quitAfterSend THEN 2 ELSE 0
=============================================================================
