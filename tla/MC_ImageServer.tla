--------------------------- MODULE MC_ImageServer ---------------------------
(* Instances of ImageServer for TLC. *)
EXTENDS ImageServer, TLC

CONSTANTS good, other, u1, c1, w1, v1, a1, e1

TwoSizes == good :> 1 @@ other :> 2

\* Two contents, each announced with its size.
OneOfEach == {[digest |-> good, size |-> 1], [digest |-> other, size |-> 2]}
=============================================================================
