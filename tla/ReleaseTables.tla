---------------------------- MODULE ReleaseTables ----------------------------
(***************************************************************************)
(* The Postgres rows of the catalog and of publishing, and the             *)
(* transactions of internal/store/postgres/catalog and .../publish that    *)
(* change them, with the triggers and foreign keys they rely on.           *)
(*                                                                         *)
(* An artifact of a version declares one disk blob and may have one Incus  *)
(* metadata attachment; a blob stands for the digest and size a row        *)
(* declares.  Artifact and attachment ids are identified with what the row *)
(* declares.                                                               *)
(***************************************************************************)
EXTENDS Naturals, FiniteSets

CONSTANTS
    Version,      \* image versions, created as drafts
    Artifact,     \* artifact declarations a version may hold
    Blob,         \* declared digest and size pairs
    DigestOf,     \* the digest of each: the key of cas_blobs
    Worker,       \* publish workers
    MaxAttempts,  \* bound on publish_job_steps.attempt_count
    None          \* absence of a value

ASSUME AttemptsAssumption == MaxAttempts \in Nat
ASSUME AbsenceAssumption == None \notin Blob /\ None \notin Worker

VARIABLES
    version,     \* image_versions.state
    disk,        \* release_artifacts.primary_blob of each artifact (None: no row)
    meta,        \* artifact_attachments.blob of its incus metadata (None: no row)
    trusted,     \* the cas_blobs rows
    job,         \* publish_jobs.state ("none": no row)
    step,        \* publish_job_steps.state, by sequence
    attempt,     \* publish_job_steps.attempt_count
    lockedBy,    \* publish_job_steps.locked_by
    stale,       \* publish_job_steps.locked_at is older than StaleStepTimeout
    projection   \* incus_projection_items of each version

manifest == <<disk, meta>>
progress == <<job, step, attempt, lockedBy, stale>>
rows == <<version, manifest, trusted, progress, projection>>

ValidateCatalog == 1
IncusIndex == 2
FinalizePublish == 3
Step == {ValidateCatalog, IncusIndex, FinalizePublish}

VersionState == {"draft", "publishing", "published"}
JobState == {"none", "queued", "running", "succeeded", "failed"}
StepState == {"none", "queued", "running", "succeeded", "failed"}
ProjectionRow == [artifact : Artifact, disk : Blob, meta : Blob]

RowsTypeOK ==
    /\ version \in [Version -> VersionState]
    /\ disk \in [Version -> [Artifact -> Blob \cup {None}]]
    /\ meta \in [Version -> [Artifact -> Blob \cup {None}]]
    /\ trusted \subseteq Blob
    /\ job \in [Version -> JobState]
    /\ step \in [Version -> [Step -> StepState]]
    /\ attempt \in [Version -> [Step -> Nat]]
    /\ lockedBy \in [Version -> [Step -> Worker \cup {None}]]
    /\ stale \in [Version -> [Step -> BOOLEAN]]
    /\ projection \in [Version -> SUBSET ProjectionRow]

RowsInit ==
    /\ version = [v \in Version |-> "draft"]
    /\ disk = [v \in Version |-> [a \in Artifact |-> None]]
    /\ meta = [v \in Version |-> [a \in Artifact |-> None]]
    /\ trusted = {}
    /\ job = [v \in Version |-> "none"]
    /\ step = [v \in Version |-> [s \in Step |-> "none"]]
    /\ attempt = [v \in Version |-> [s \in Step |-> 0]]
    /\ lockedBy = [v \in Version |-> [s \in Step |-> None]]
    /\ stale = [v \in Version |-> [s \in Step |-> FALSE]]
    /\ projection = [v \in Version |-> {}]

-----------------------------------------------------------------------------
(* Manifest rows.  The draft check of the trigger ran earlier, in the same  *)
(* statement; what is left is the effect, with unique index, foreign keys   *)
(* and cascades.                                                            *)

AddArtifact(v, a, b) ==
    /\ disk[v][a] = None
    /\ disk' = [disk EXCEPT ![v][a] = b]
    /\ UNCHANGED <<version, meta, trusted, progress, projection>>

AddAttachment(v, a, b) ==
    /\ disk[v][a] # None
    /\ meta[v][a] = None
    /\ meta' = [meta EXCEPT ![v][a] = b]
    /\ UNCHANGED <<version, disk, trusted, progress, projection>>

ProjectionWithout(v, a) ==
    [projection EXCEPT ![v] = {r \in @ : r.artifact # a}]

DeleteArtifact(v, a) ==
    /\ disk[v][a] # None
    /\ disk' = [disk EXCEPT ![v][a] = None]
    /\ meta' = [meta EXCEPT ![v][a] = None]
    /\ projection' = ProjectionWithout(v, a)
    /\ UNCHANGED <<version, trusted, progress>>

DeleteAttachment(v, a) ==
    /\ meta[v][a] # None
    /\ meta' = [meta EXCEPT ![v][a] = None]
    /\ projection' = ProjectionWithout(v, a)
    /\ UNCHANGED <<version, disk, trusted, progress>>

-----------------------------------------------------------------------------
Declared(v) == {a \in Artifact : disk[v][a] # None}

\* Wrong on purpose (see README, "Mutants"): only attachments are looked up.
Publishable_AttachmentsOnly(v) ==
    /\ Declared(v) # {}
    /\ \A a \in Declared(v) : meta[v][a] \in trusted \cup {None}

\* requirePublishableVersion, and image_versions_guard_write on the same rows.
Publishable(v) ==
    /\ Declared(v) # {}
    /\ \A a \in Declared(v) : disk[v][a] \in trusted /\ meta[v][a] \in trusted \cup {None}

(* EnqueueVersion locks the version row, requires a publishable draft and   *)
(* inserts the job with its three steps.                                    *)
EnqueueVersion(v) ==
    /\ version[v] = "draft"
    /\ Publishable(v)
    /\ version' = [version EXCEPT ![v] = "publishing"]
    /\ job' = [job EXCEPT ![v] = "queued"]
    /\ step' = [step EXCEPT ![v] = [s \in Step |-> "queued"]]
    /\ UNCHANGED <<manifest, trusted, attempt, lockedBy, stale, projection>>

PreviousSucceeded(v, s) == \A p \in Step : p < s => step[v][p] = "succeeded"

\* Wrong on purpose: a running step is never reclaimed.
Claimable_QueuedOnly(v, s) ==
    /\ job[v] \in {"queued", "running"}
    /\ step[v][s] = "queued"
    /\ PreviousSucceeded(v, s)

\* The WHERE clause of claimStep.
Claimable(v, s) ==
    /\ job[v] \in {"queued", "running"}
    /\ step[v][s] = "queued" \/ (step[v][s] = "running" /\ stale[v][s])
    /\ PreviousSucceeded(v, s)

ClaimStep(v, s, w) ==
    /\ Claimable(v, s)
    /\ attempt[v][s] < MaxAttempts
    /\ step' = [step EXCEPT ![v][s] = "running"]
    /\ attempt' = [attempt EXCEPT ![v][s] = @ + 1]
    /\ lockedBy' = [lockedBy EXCEPT ![v][s] = w]
    /\ stale' = [stale EXCEPT ![v][s] = FALSE]
    /\ job' = [job EXCEPT ![v] = "running"]
    /\ UNCHANGED <<version, manifest, trusted, projection>>

\* Wrong on purpose: whoever runs the step may end it.
HoldsLease_AnyAttempt(v, s, w, n) == step[v][s] = "running"

\* lockRunningStep.
HoldsLease(v, s, w, n) ==
    /\ step[v][s] = "running"
    /\ lockedBy[v][s] = w
    /\ attempt[v][s] = n

\* markStepSucceeded and markStepFailed.
EndStep(v, s, outcome) ==
    /\ step' = [step EXCEPT ![v][s] = outcome]
    /\ lockedBy' = [lockedBy EXCEPT ![v][s] = None]
    /\ stale' = [stale EXCEPT ![v][s] = FALSE]
    /\ UNCHANGED attempt

\* SucceedValidateCatalogStep.
ValidateSucceeds(v) ==
    /\ Publishable(v)
    /\ EndStep(v, ValidateCatalog, "succeeded")
    /\ UNCHANGED <<version, manifest, trusted, job, projection>>

\* The rows of the manifest the Incus projection is computed from.
IncusRows(v) ==
    {[artifact |-> a, disk |-> disk[v][a], meta |-> meta[v][a]] :
        a \in {x \in Artifact : disk[v][x] # None /\ meta[v][x] # None}}

\* The foreign keys of incus_projection_items.
RowsExist(v, new) == new \subseteq IncusRows(v)

\* SucceedIncusIndexStep.
IndexSucceeds(v, new) ==
    /\ RowsExist(v, new)
    /\ projection' = [projection EXCEPT ![v] = new]
    /\ EndStep(v, IncusIndex, "succeeded")
    /\ UNCHANGED <<version, manifest, trusted, job>>

\* FinalizePublishStep.
FinalizeSucceeds(v) ==
    /\ PreviousSucceeded(v, FinalizePublish)
    /\ version[v] = "publishing"
    /\ job[v] = "running"
    /\ version' = [version EXCEPT ![v] = "published"]
    /\ job' = [job EXCEPT ![v] = "succeeded"]
    /\ EndStep(v, FinalizePublish, "succeeded")
    /\ UNCHANGED <<manifest, trusted, projection>>

\* Wrong on purpose: the job is left running.
FailStep_StepOnly(v, s) ==
    /\ EndStep(v, s, "failed")
    /\ UNCHANGED <<version, manifest, trusted, job, projection>>

FailStep(v, s) ==
    /\ job[v] \in {"queued", "running"}
    /\ job' = [job EXCEPT ![v] = "failed"]
    /\ EndStep(v, s, "failed")
    /\ UNCHANGED <<version, manifest, trusted, projection>>

\* requeueStepsForRetry.
Requeued(v, s, failed) ==
    IF s >= failed /\ step[v][s] # "succeeded" THEN "queued" ELSE step[v][s]

(* RetryJob: a failed job is queued again from its first failed step.       *)
RetryJob(v) ==
    /\ job[v] = "failed"
    /\ version[v] = "publishing"
    /\ \E first \in Step :
        /\ step[v][first] = "failed"
        /\ \A s \in Step : step[v][s] = "failed" => first <= s
        /\ step' = [step EXCEPT ![v] = [s \in Step |-> Requeued(v, s, first)]]
        /\ LET waits(s) == Requeued(v, s, first) = "queued" IN
           /\ lockedBy' = [lockedBy EXCEPT ![v] =
                              [s \in Step |-> IF waits(s) THEN None ELSE @[s]]]
           /\ stale' = [stale EXCEPT ![v] = [s \in Step |-> ~waits(s) /\ @[s]]]
    /\ job' = [job EXCEPT ![v] = "queued"]
    /\ UNCHANGED <<version, manifest, trusted, attempt, projection>>

\* Wrong on purpose: the index does not look at the state of the version.
ListProjectionRows_AnyState == UNION {{v} \X projection[v] : v \in Version}

\* ListProjectionRows: what the Simple Streams index is built from.
ListProjectionRows ==
    UNION {{v} \X projection[v] : v \in {x \in Version : version[x] = "published"}}
=============================================================================
