----------------------------- MODULE MC_Upload -----------------------------
(* Instances of UploadIngest for TLC. *)
EXTENDS UploadIngest, TLC

CONSTANTS good, other, u1, u2, c1, c2, w1, w2

\* Two contents of different lengths, so that sizes as well as digests can be wrong.
TwoSizes == good :> 1 @@ other :> 2

\* What is asked for: the content itself, and its digest with the wrong size.
HonestOrWrongSize == {[digest |-> good, size |-> 1], [digest |-> good, size |-> 2]}
HonestOnly == {[digest |-> good, size |-> 1]}

ClientSymmetry == Permutations(Client)
=============================================================================
