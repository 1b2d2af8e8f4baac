------------------------------ MODULE MC_Access ------------------------------
(* An instance of AccessControl for TLC. *)
EXTENDS AccessControl, TLC

CONSTANTS p1, p2, p3, t1, t2, i1, i2, subject, a1, a2, r1, q1, q2, s1, s2

\* Two identities of one subject, each with its own audience.
OneSubject == [i \in {i1, i2} |-> subject]
TwoAudiences == i1 :> a1 @@ i2 :> a2

\* The requests that are sent: policy is changed, grants are made and withdrawn.
Operations ==
    {[do |-> "write"],
     [do |-> "create_principal", rule |-> None, identity |-> None],
     [do |-> "create_principal", rule |-> r1, identity |-> i1],
     [do |-> "assign", p |-> p2, role |-> AuthManager],
     [do |-> "assign", p |-> p2, role |-> ContentWriter],
     [do |-> "unassign", p |-> p1, role |-> AuthManager],
     [do |-> "issue_token", p |-> p2],
     [do |-> "revoke_token", t |-> t1],
     [do |-> "create_rule", r |-> r1, aud |-> a1, enabled |-> TRUE],
     [do |-> "update_rule", r |-> r1, aud |-> a2, enabled |-> TRUE],
     [do |-> "delete_rule", r |-> r1],
     [do |-> "reconcile", r |-> r1]}

AccessSymmetry == Permutations({q1, q2}) \cup Permutations({s1, s2})
=============================================================================
