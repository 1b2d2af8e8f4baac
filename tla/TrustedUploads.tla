--------------------------- MODULE TrustedUploads ---------------------------
(***************************************************************************)
(* What the upload API promises, without storage, calls or workers.        *)
(*                                                                         *)
(* An upload announces a digest and a size.  The client may withdraw it    *)
(* until the service fixes its bytes and promises a decision; the decision *)
(* is a function of those bytes and the announcement alone.  What is       *)
(* trusted stays trusted, and serves later uploads of the digest at once.  *)
(***************************************************************************)
EXTENDS UploadData

VARIABLES phase,     \* where each upload stands
          claim,     \* what it announced
          bytes,     \* its bytes, between promise and decision
          trusted    \* announcements whose bytes the service serves

avars == <<phase, claim, bytes, trusted>>

Phase == {"absent", "open", "promised", "trusted", "rejected", "withdrawn"}

AInit ==
    /\ phase = [u \in Upload |-> "absent"]
    /\ claim = [u \in Upload |-> None]
    /\ bytes = [u \in Upload |-> None]
    /\ trusted = {}

Open(u, e) ==
    /\ phase[u] = "absent"
    /\ phase' = [phase EXCEPT ![u] = "open"]
    /\ claim' = [claim EXCEPT ![u] = e]
    /\ UNCHANGED <<bytes, trusted>>

Reuse(u, e) ==
    /\ phase[u] = "absent"
    /\ e \in trusted
    /\ phase' = [phase EXCEPT ![u] = "trusted"]
    /\ claim' = [claim EXCEPT ![u] = e]
    /\ UNCHANGED <<bytes, trusted>>

Withdraw(u) ==
    /\ phase[u] = "open"
    /\ phase' = [phase EXCEPT ![u] = "withdrawn"]
    /\ UNCHANGED <<claim, bytes, trusted>>

Promise(u, b) ==
    /\ phase[u] = "open"
    /\ phase' = [phase EXCEPT ![u] = "promised"]
    /\ bytes' = [bytes EXCEPT ![u] = b]
    /\ UNCHANGED <<claim, trusted>>

Decide(u) ==
    LET genuine == Meets(bytes[u], claim[u]) IN
    /\ phase[u] = "promised"
    /\ phase' = [phase EXCEPT ![u] = IF genuine THEN "trusted" ELSE "rejected"]
    /\ trusted' = IF genuine THEN trusted \cup {claim[u]} ELSE trusted
    /\ bytes' = [bytes EXCEPT ![u] = None]
    /\ UNCHANGED claim

ANext == \E u \in Upload :
    \/ \E e \in Expectation : Open(u, e) \/ Reuse(u, e)
    \/ \E b \in Content : Promise(u, b)
    \/ Withdraw(u) \/ Decide(u)

ASpec == AInit /\ [][ANext]_avars

\* A promised upload is decided.
AFairSpec == ASpec /\ \A u \in Upload : WF_avars(Decide(u))
=============================================================================
