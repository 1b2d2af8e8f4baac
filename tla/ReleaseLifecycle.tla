-------------------------- MODULE ReleaseLifecycle --------------------------
(***************************************************************************)
(* What publishing promises, without jobs, steps, leases or workers.       *)
(*                                                                         *)
(* The content of a version may change until it is frozen; it is frozen    *)
(* only when everything it cites is verified; and publishing it makes      *)
(* exactly the rows its content defines visible, for ever.                 *)
(***************************************************************************)
EXTENDS Naturals

CONSTANTS Version, Artifact, Blob, None

VARIABLES state,     \* draft, publishing or published
          content,   \* the blobs each artifact of a version cites
          verified,  \* the blobs whose bytes are trusted
          served     \* the rows clients are served, with their versions

rvars == <<state, content, verified, served>>

Cited == [Artifact -> Blob \cup {None}]
Manifests == [disk : Cited, meta : Cited]

RInit ==
    /\ state = [v \in Version |-> "draft"]
    /\ content = [v \in Version |-> [disk |-> [a \in Artifact |-> None],
                                     meta |-> [a \in Artifact |-> None]]]
    /\ verified = {}
    /\ served = {}

Verify(b) ==
    /\ verified' = verified \cup {b}
    /\ UNCHANGED <<state, content, served>>

Revise(v) ==
    /\ state[v] = "draft"
    /\ \E c \in Manifests : content' = [content EXCEPT ![v] = c]
    /\ UNCHANGED <<state, verified, served>>

Freeze(v) ==
    /\ state[v] = "draft"
    /\ \E a \in Artifact : content[v].disk[a] # None
    /\ \A a \in Artifact :
          {content[v].disk[a], content[v].meta[a]} \subseteq verified \cup {None}
    /\ state' = [state EXCEPT ![v] = "publishing"]
    /\ UNCHANGED <<content, verified, served>>

\* The rows a content defines: artifacts with a disk and its metadata.
RowsOf(c) ==
    {[artifact |-> a, disk |-> c.disk[a], meta |-> c.meta[a]] :
        a \in {x \in Artifact : c.disk[x] # None /\ c.meta[x] # None}}

Release(v) ==
    /\ state[v] = "publishing"
    /\ state' = [state EXCEPT ![v] = "published"]
    /\ served' = served \cup ({v} \X RowsOf(content[v]))
    /\ UNCHANGED <<content, verified>>

RNext ==
    \/ \E b \in Blob : Verify(b)
    \/ \E v \in Version : Revise(v) \/ Freeze(v) \/ Release(v)

RSpec == RInit /\ [][RNext]_rvars
=============================================================================
