------------------------------ MODULE MCUploads ------------------------------
(* Small instances of Uploads for TLC. *)
EXTENDS Uploads, TLC

CONSTANTS s1, s2, f1, f2, f3, u1, u2, u3, x, y

\* Three files in two sessions; the names "x" and "x (1)" may meet.
ThreeFiles  == (s1 :> {f1, f2}) @@ (s2 :> {f3})
Counted     == (f1 :> [stem |-> x, ctr |-> <<>>, part |-> 0])
            @@ (f2 :> [stem |-> y, ctr |-> <<>>, part |-> 0])
            @@ (f3 :> [stem |-> x, ctr |-> <<1>>, part |-> 0])
\* One session; "x" and "x (1)" again.
OneSession  == s1 :> {f1, f3}
\* Two sessions of the same two files, the files' names apart.
TwoFiles    == [s \in Sessions |-> {f1, f2}]
Plain       == (f1 :> [stem |-> x, ctr |-> <<>>, part |-> 0])
            @@ (f2 :> [stem |-> y, ctr |-> <<>>, part |-> 0])
\* The folder holds a file "x" and a leftover "x (1).part".
Leftovers   == {[stem |-> x, ctr |-> <<>>, part |-> 0], [stem |-> x, ctr |-> <<1>>, part |-> 1]}
EmptyFolder == {}
TakenName   == {[stem |-> x, ctr |-> <<>>, part |-> 0]}

UploadSymmetry == Permutations(Uploads)
=============================================================================
