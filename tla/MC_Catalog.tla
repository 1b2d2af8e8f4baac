------------------------------ MODULE MC_Catalog ------------------------------
(* Instances of PublishedCatalog for TLC. *)
EXTENDS PublishedCatalog, TLC

CONSTANTS v1, v2, x1, x2, i1, i2, n1, n2, latest, standard

OneImage == v1 :> i1 @@ v2 :> i1
Numbered == v1 :> n1 @@ v2 :> n2

\* Two architectures, or one architecture under two names.
TwoArchitectures == x1 :> "x86_64" @@ x2 :> "aarch64"
OneArchitecture == x1 :> "x86_64" @@ x2 :> "amd64"
Standard == [a \in {x1, x2} |-> standard]

Sizes == 0 .. 5
Numbers == -1 .. 6
Times == 0 .. 1
=============================================================================
