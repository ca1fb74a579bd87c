----------------------------- MODULE MCSettings -----------------------------
(* A small instance of Settings for TLC. *)
EXTENDS Settings, TLC

\* A file of a version before the identity, and one a hand left broken.
MCBefore == {defaults, Torn}

MCSymmetry == Permutations(Progs)
=============================================================================
