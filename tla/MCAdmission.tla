----------------------------- MODULE MCAdmission -----------------------------
(* Small instances of Admission for TLC. *)
EXTENDS Admission, TLC

CONSTANTS r1, r2, r3, p1, p2

RequestSymmetry == Permutations(Reqs)
=============================================================================
