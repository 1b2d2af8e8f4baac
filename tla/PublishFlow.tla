----------------------------- MODULE PublishFlow -----------------------------
(***************************************************************************)
(* Editors of draft manifests, publish and retry requests, and the publish *)
(* workers of internal/jobs/publishflow, over the rows of ReleaseTables.   *)
(*                                                                         *)
(* A manifest write checks in a trigger that its version is a draft, and   *)
(* commits later: nothing locks the version row for the trigger, so the    *)
(* version may be enqueued in between.  LateWrites = FALSE assumes that    *)
(* does not happen.                                                        *)
(***************************************************************************)
EXTENDS ReleaseTables

CONSTANTS
    Editor,      \* concurrent manifest writes
    LateWrites,  \* TRUE: a write may commit after its version left draft
    Faults       \* TRUE: workers may stop, and their requests may fail

ASSUME PublishFlagAssumption == LateWrites \in BOOLEAN /\ Faults \in BOOLEAN

VARIABLES
    edit,    \* the manifest write each editor has checked but not committed
    answer,  \* what the last publish request for a version was told
    work     \* the claimed step of each worker, and how far it is

vars == <<rows, edit, answer, work>>

EditOp == {"add_artifact", "add_attachment", "delete_artifact", "delete_attachment"}
NoEdit == [op |-> "none", v |-> None, a |-> None, b |-> None]
WorkAt == {"idle", "run", "store", "fail"}
NoWork == [at |-> "idle", v |-> None, s |-> 0, n |-> 0, rows |-> {}]

TypeOK ==
    /\ RowsTypeOK
    /\ edit \in [Editor -> {NoEdit} \cup [op : EditOp, v : Version, a : Artifact, b : Blob]]
    /\ answer \in [Version -> {"none", "queued", "refused"}]
    /\ work \in [Worker -> {NoWork} \cup [at : WorkAt \ {"idle"}, v : Version, s : Step, n : Nat,
                                          rows : SUBSET ProjectionRow]]

Init ==
    /\ RowsInit
    /\ edit = [e \in Editor |-> NoEdit]
    /\ answer = [v \in Version |-> "none"]
    /\ work = [w \in Worker |-> NoWork]

-----------------------------------------------------------------------------
(* Manifest writes.                                                         *)

(* The BEFORE trigger: imgsrv_require_version_draft.                        *)
CheckDraft(e, op, v, a, b) ==
    /\ edit[e] = NoEdit
    /\ version[v] = "draft"
    /\ edit' = [edit EXCEPT ![e] = [op |-> op, v |-> v, a |-> a, b |-> b]]
    /\ UNCHANGED <<rows, answer, work>>

\* The rest of the statement, or its constraint violation.
CommitEdit(e) ==
    LET x == edit[e] IN
    /\ x # NoEdit
    /\ \/ x.op = "add_artifact" /\ AddArtifact(x.v, x.a, x.b)
       \/ x.op = "add_attachment" /\ AddAttachment(x.v, x.a, x.b)
       \/ x.op = "delete_artifact" /\ DeleteArtifact(x.v, x.a)
       \/ x.op = "delete_attachment" /\ DeleteAttachment(x.v, x.a)
       \/ UNCHANGED rows
    /\ edit' = [edit EXCEPT ![e] = NoEdit]
    /\ UNCHANGED <<answer, work>>

(* A CAS ingest commits the blob (CasIngest models how): ON CONFLICT        *)
(* (digest) DO NOTHING.                                                     *)
TrustBlob(b) ==
    /\ \A c \in trusted : DigestOf[c] # DigestOf[b]
    /\ trusted' = trusted \cup {b}
    /\ UNCHANGED <<version, manifest, progress, projection, edit, answer, work>>

-----------------------------------------------------------------------------
(* Requests.                                                                *)

Unedited(v) == \A e \in Editor : edit[e] # NoEdit => edit[e].v # v

PublishVersion(v) ==
    /\ LateWrites \/ Unedited(v)
    /\ \/ EnqueueVersion(v) /\ answer' = [answer EXCEPT ![v] = "queued"]
       \/ /\ version[v] # "draft" \/ ~Publishable(v)
          /\ answer' = [answer EXCEPT ![v] = "refused"]
          /\ UNCHANGED rows
    /\ UNCHANGED <<edit, work>>

\* Bound: a job is retried only while each of its steps may still be claimed.
RetryPublishJob(v) ==
    /\ \A s \in Step : attempt[v][s] < MaxAttempts
    /\ RetryJob(v)
    /\ UNCHANGED <<edit, answer, work>>

-----------------------------------------------------------------------------
(* RunOnce.                                                                 *)

\* Wrong on purpose: the finished step is still remembered.
Return_KeepsStep(w) == work' = [work EXCEPT ![w].at = "idle"]

Goto(w, at) == work' = [work EXCEPT ![w].at = at]
Return(w) == work' = [work EXCEPT ![w] = NoWork]
Holds(w) == HoldsLease(work[w].v, work[w].s, w, work[w].n)

Claim(w, v, s) ==
    /\ work[w] = NoWork
    /\ ClaimStep(v, s, w)
    /\ work' = [work EXCEPT ![w] =
                   [at |-> "run", v |-> v, s |-> s, n |-> attempt[v][s] + 1, rows |-> {}]]
    /\ UNCHANGED <<edit, answer>>

\* Every blob a row is computed from can be opened: by its digest, whatever its size.
Readable(new) ==
    \A r \in new : \A b \in {r.disk, r.meta} : \E c \in trusted : DigestOf[c] = DigestOf[b]

\* Wrong on purpose: the rows of the first reading are kept when blobs are missing.
IndexVersion_Partial(w) ==
    /\ work[w].at = "run" /\ work[w].s = IncusIndex
    /\ work' = [work EXCEPT ![w].at = "store", ![w].rows = {}]
    /\ UNCHANGED <<rows, edit, answer>>

(* IndexVersion reads the manifest and the blobs it declares, outside any   *)
(* transaction and without the lease.                                       *)
IndexVersion(w) ==
    /\ work[w].at = "run" /\ work[w].s = IncusIndex
    /\ \/ /\ Readable(IncusRows(work[w].v))
          /\ work' = [work EXCEPT ![w].at = "store", ![w].rows = IncusRows(work[w].v)]
       \/ (~Readable(IncusRows(work[w].v)) \/ Faults) /\ Goto(w, "fail")
    /\ UNCHANGED <<rows, edit, answer>>

\* What the claimed step records when it succeeds.
Succeeds(w) ==
    LET v == work[w].v IN
    /\ Holds(w)
    /\ \/ work[w].at = "run" /\ work[w].s = ValidateCatalog /\ ValidateSucceeds(v)
       \/ work[w].at = "store" /\ IndexSucceeds(v, work[w].rows)
       \/ work[w].at = "run" /\ work[w].s = FinalizePublish /\ FinalizeSucceeds(v)

\* Its transaction is refused: a precondition no longer holds.
Refused(w) ==
    LET v == work[w].v IN
    /\ Holds(w)
    /\ \/ work[w].at = "run" /\ work[w].s = ValidateCatalog /\ ~Publishable(v)
       \/ work[w].at = "store" /\ ~RowsExist(v, work[w].rows)
       \/ /\ work[w].at = "run" /\ work[w].s = FinalizePublish
          /\ \/ ~PreviousSucceeded(v, FinalizePublish)
             \/ version[v] # "publishing"
             \/ job[v] # "running"
    /\ UNCHANGED rows

\* The step's last transaction is next.
Ending(w) == work[w].at = "store" \/ (work[w].at = "run" /\ work[w].s # IncusIndex)

(* A lost lease ends the run quietly; an error leads to FailStep, also when *)
(* the transaction had an effect and only its answer was lost.              *)
SucceedStep(w) ==
    /\ Ending(w)
    /\ \/ Succeeds(w) /\ Return(w)
       \/ ~Holds(w) /\ UNCHANGED rows /\ Return(w)
       \/ Refused(w) /\ Goto(w, "fail")
       \/ Faults /\ (Succeeds(w) \/ UNCHANGED rows) /\ Goto(w, "fail")
    /\ UNCHANGED <<edit, answer>>

FailClaimedStep(w) ==
    /\ work[w].at = "fail"
    /\ \/ Holds(w) /\ FailStep(work[w].v, work[w].s)
       \/ ~(Holds(w) /\ job[work[w].v] \in {"queued", "running"}) /\ UNCHANGED rows
    /\ Return(w)
    /\ UNCHANGED <<edit, answer>>

\* Bound: the last attempt of a step is not interrupted.
Abandon(w) ==
    /\ Faults
    /\ work[w] # NoWork
    /\ work[w].n < MaxAttempts
    /\ Return(w)
    /\ UNCHANGED <<rows, edit, answer>>

(* StaleStepTimeout passes, whether the worker is alive or not.             *)
LeaseExpires(v, s) ==
    /\ step[v][s] = "running"
    /\ ~stale[v][s]
    /\ stale' = [stale EXCEPT ![v][s] = TRUE]
    /\ UNCHANGED <<version, manifest, trusted, job, step, attempt, lockedBy, projection,
                   edit, answer, work>>

-----------------------------------------------------------------------------
WorkStepOf(w) ==
    \/ \E v \in Version, s \in Step : Claim(w, v, s)
    \/ IndexVersion(w) \/ SucceedStep(w) \/ FailClaimedStep(w)

Next ==
    \/ \E e \in Editor, op \in EditOp, v \in Version, a \in Artifact, b \in Blob :
          CheckDraft(e, op, v, a, b)
    \/ \E e \in Editor : CommitEdit(e)
    \/ \E b \in Blob : TrustBlob(b)
    \/ \E v \in Version : PublishVersion(v) \/ RetryPublishJob(v)
    \/ \E w \in Worker : WorkStepOf(w) \/ Abandon(w)
    \/ \E v \in Version, s \in Step : LeaseExpires(v, s)

Spec == Init /\ [][Next]_vars

(* Workers keep polling, a claimed step runs to its end unless it is        *)
(* abandoned, and time passes.                                              *)
Fairness ==
    /\ \A w \in Worker : WF_vars(WorkStepOf(w))
    /\ \A v \in Version, s \in Step : WF_vars(LeaseExpires(v, s))

FairSpec == Spec /\ Fairness

-----------------------------------------------------------------------------
(* Properties that hold whatever manifest writes do.                        *)

\* The three state machines of a publish agree at every commit, through failures
\* (markStepFailed, markJobFailed), retries and stale leases: only a publishing
\* version has an unfinished job, and a failed job is one with a failed step.
JobTracksVersion ==
    \A v \in Version :
        /\ version[v] = "draft" <=> job[v] = "none"
        /\ version[v] = "published" <=> job[v] = "succeeded"
        /\ job[v] = "failed" <=> \E s \in Step : step[v][s] = "failed"

\* A step leaves the queue only after every earlier step succeeded, and no two
\* steps of a version run at the same time (claimStep).
StepsRunInOrder ==
    \A v \in Version, p, s \in Step :
        p < s /\ step[v][s] \in {"running", "succeeded", "failed"} => step[v][p] = "succeeded"

\* The result of a claimed step is recorded only by the worker that holds its latest
\* attempt: a worker whose lease went stale and was claimed by another changes nothing
\* when it finishes or fails late (lockRunningStep, ErrLeaseLost).
LeasesAreFenced ==
    [][\A v \in Version, s \in Step :
        step[v][s] = "running" /\ step'[v][s] \in {"succeeded", "failed"} =>
            \E w \in Worker : /\ work[w].v = v /\ work[w].s = s
                               /\ work[w].n = attempt[v][s]
                               /\ work'[w] # work[w]]_vars

\* What a retry has already done is not done again: a succeeded step keeps its state
\* (requeueStepsForRetry), so a published version is never indexed anew.
SucceededStepsStay ==
    [][\A v \in Version, s \in Step :
        step[v][s] = "succeeded" => step'[v][s] = "succeeded"]_vars

\* Every projection row names an artifact and a metadata attachment the catalog still
\* declares with the same blobs, even when a manifest write commits while the version
\* is indexed (the foreign keys of incus_projection_items and their cascades).
ProjectionRowsExist ==
    \A v \in Version : \A r \in projection[v] :
        disk[v][r.artifact] = r.disk /\ meta[v][r.artifact] = r.meta

\* ... and was computed from bytes: of each blob a row names, the digest is trusted,
\* although the manifest may have changed since publishability was checked (indexer.go).
ProjectionIsReadable == \A v \in Version : Readable(projection[v])

-----------------------------------------------------------------------------
(* Properties that need manifest writes to commit while their version is   *)
(* still a draft (LateWrites = FALSE).                                      *)

\* A published version has artifacts, and cites nothing but verified blobs
\* (requirePublishableVersion, image_versions_guard_write).
PublishedIsVerified ==
    \A v \in Version : version[v] = "published" =>
        /\ \E a \in Artifact : disk[v][a] # None
        /\ \A a \in Artifact : {disk[v][a], meta[v][a]} \subseteq trusted \cup {None}

\* The index of a published version is the one its manifest defines: no artifact with
\* metadata is missing, although the rows were computed outside the transaction that
\* stores them, perhaps by a worker that was slow (IndexVersion, replaceIncusRows).
ProjectionMatchesManifest ==
    \A v \in Version : version[v] = "published" => projection[v] = IncusRows(v)

Lifecycle == INSTANCE ReleaseLifecycle WITH
    state <- version,
    content <- [v \in Version |-> [disk |-> disk[v], meta |-> meta[v]]],
    verified <- trusted,
    served <- ListProjectionRows

\* Rows, requests and workers together implement ReleaseLifecycle: what clients are
\* served changes only when a version is published, and then by all its rows at once.
KeepsReleasePromise == Lifecycle!RSpec

-----------------------------------------------------------------------------
\* An enqueued job ends, succeeded or failed, although workers stop between any two
\* steps: a running step whose lease is stale is claimed again (ClaimStep).
PublishJobsEnd ==
    \A v \in Version : job[v] \in {"queued", "running"} ~> job[v] \in {"succeeded", "failed"}

-----------------------------------------------------------------------------
(* Why the safety properties hold: an inductive strengthening of them.      *)

\* A version has all its steps or none, and a job succeeds with its last step.
StepsAgree ==
    /\ JobTracksVersion
    /\ StepsRunInOrder
    /\ \A v \in Version, s \in Step :
          /\ step[v][s] = "none" <=> job[v] = "none"
          /\ job[v] = "succeeded" => step[v][s] = "succeeded"

\* An attachment has its artifact (artifact_attachments' foreign key and cascade).
AttachmentsExist ==
    \A v \in Version, a \in Artifact : meta[v][a] # None => disk[v][a] # None

\* A worker works for a version that has a job, and stores only an index.
WorkersKnow ==
    \A w \in Worker : work[w].at # "idle" =>
        /\ job[work[w].v] # "none"
        /\ work[w].at = "store" => work[w].s = IncusIndex

\* What holds of manifests as long as no write commits late.
ManifestsStand ==
    /\ \A e \in Editor : edit[e] # NoEdit => version[edit[e].v] = "draft"
    /\ \A v \in Version : version[v] # "draft" =>
          /\ \E a \in Artifact : disk[v][a] # None
          /\ \A a \in Artifact : {disk[v][a], meta[v][a]} \subseteq trusted \cup {None}
    /\ \A v \in Version : step[v][IncusIndex] = "succeeded" => projection[v] = IncusRows(v)
    /\ \A w \in Worker : work[w].at = "store" => work[w].rows = IncusRows(work[w].v)

Inductive ==
    /\ TypeOK
    /\ StepsAgree
    /\ ProjectionRowsExist
    /\ AttachmentsExist
    /\ WorkersKnow
    /\ LateWrites \/ ManifestsStand

=============================================================================
