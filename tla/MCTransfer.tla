----------------------------- MODULE MCTransfer -----------------------------
(* A small instance of Transfer for TLC. *)
EXTENDS Transfer, TLC

MCSymmetry == Permutations(Commands) \cup Permutations(Files)
=============================================================================
