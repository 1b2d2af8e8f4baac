----------------------------- MODULE MC_Publish -----------------------------
(* Instances of PublishFlow for TLC. *)
EXTENDS PublishFlow, TLC

CONSTANTS v1, a1, a2, b1, b2, b3, w1, w2, e1

\* b3 is the digest of b1 with another size.
TwoDigests == [b \in Blob |-> IF b = b3 THEN b1 ELSE b]

WorkersAndArtifacts == Permutations(Worker) \cup Permutations(Artifact)
=============================================================================
