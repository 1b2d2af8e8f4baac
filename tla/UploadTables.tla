---------------------------- MODULE UploadTables ----------------------------
(***************************************************************************)
(* The Postgres rows of the upload API and the transactions of             *)
(* internal/store/postgres/uploads that change them.  A transaction locks  *)
(* the session or job row it tests, so each is one atomic operator.        *)
(***************************************************************************)
EXTENDS UploadData

VARIABLES
    session,   \* upload_sessions.state ("none": no row yet)
    want,      \* expected digest and size of the upload id, set when it is drawn
    expired,   \* expires_at has passed
    partRow,   \* upload_parts.etag of part 1
    job,       \* cas_ingest_jobs.state of the session's job ("none": no row)
    lockedBy,  \* cas_ingest_jobs.locked_by
    blob       \* cas_blobs.size_bytes by digest (None: no row)

tables == <<session, want, expired, partRow, job, lockedBy, blob>>

SessionState == {"created", "uploading", "completed", "ingesting", "ready", "failed", "aborted"}
JobState == {"queued", "running", "succeeded", "failed"}

\* States in which parts, completion and abort are accepted.
Mutable == {"created", "uploading"}

TablesTypeOK ==
    /\ session \in [Upload -> SessionState \cup {"none"}]
    /\ want \in [Upload -> Expectation \cup {None}]
    /\ expired \in [Upload -> BOOLEAN]
    /\ partRow \in [Upload -> Content \cup {None}]
    /\ job \in [Upload -> JobState \cup {"none"}]
    /\ lockedBy \in [Upload -> Worker \cup {None}]
    /\ blob \in [Content -> Nat \cup {None}]

TablesInit ==
    /\ session = [u \in Upload |-> "none"]
    /\ want = [u \in Upload |-> None]
    /\ expired = [u \in Upload |-> FALSE]
    /\ partRow = [u \in Upload |-> None]
    /\ job = [u \in Upload |-> "none"]
    /\ lockedBy = [u \in Upload |-> None]
    /\ blob = [d \in Content |-> None]

-----------------------------------------------------------------------------
(* GetTrustedBlob: the cas_blobs row a new upload would duplicate. *)
TrustedSize(e) == blob[e.digest]

(* CreateSession and CreateReadySession insert the row; the table checks    *)
(* expires_at > created_at, so an id that expired meanwhile is refused.     *)
InsertSession(u, state) ==
    /\ ~expired[u]
    /\ session' = [session EXCEPT ![u] = state]
    /\ UNCHANGED <<want, expired, partRow, job, lockedBy, blob>>

(* PutPart: the first part moves a created session to uploading. *)
RecordPartRow(u, b) ==
    /\ session[u] \in Mutable
    /\ session' = [session EXCEPT ![u] = "uploading"]
    /\ partRow' = [partRow EXCEPT ![u] = b]
    /\ UNCHANGED <<want, expired, job, lockedBy, blob>>

\* Wrong on purpose: no job is queued.
CompleteRow_NoJob(u) ==
    /\ session[u] \in Mutable
    /\ session' = [session EXCEPT ![u] = "completed"]
    /\ UNCHANGED <<want, expired, partRow, job, lockedBy, blob>>

(* CompleteSession: completed and one queued job, or nothing.               *)
CompleteRow(u) ==
    /\ session[u] \in Mutable
    /\ session' = [session EXCEPT ![u] = "completed"]
    /\ job' = [job EXCEPT ![u] = IF @ = "none" THEN "queued" ELSE @]
    /\ UNCHANGED <<want, expired, partRow, lockedBy, blob>>

(* AbortSession. *)
AbortRow(u) ==
    /\ session[u] \in Mutable
    /\ session' = [session EXCEPT ![u] = "aborted"]
    /\ UNCHANGED <<want, expired, partRow, job, lockedBy, blob>>

(* The transaction tx on session u, or the rollback and error (or, for      *)
(* CompleteSession, the unchanged session) of one that is past Mutable.     *)
OrRefused(u, tx) ==
    \/ tx
    \/ session[u] \notin Mutable /\ UNCHANGED tables

\* Wrong on purpose: a running job may be claimed again.
ClaimJobRow_Reclaims(u, w) ==
    /\ job[u] \in {"queued", "running"}
    /\ job' = [job EXCEPT ![u] = "running"]
    /\ lockedBy' = [lockedBy EXCEPT ![u] = w]
    /\ session' = [session EXCEPT ![u] = "ingesting"]
    /\ UNCHANGED <<want, expired, partRow, blob>>

\* Wrong on purpose: an expired session is no longer claimed.
ClaimJobRow_SkipsExpired(u, w) ==
    /\ job[u] = "queued" /\ session[u] = "completed" /\ ~expired[u]
    /\ job' = [job EXCEPT ![u] = "running"]
    /\ lockedBy' = [lockedBy EXCEPT ![u] = w]
    /\ session' = [session EXCEPT ![u] = "ingesting"]
    /\ UNCHANGED <<want, expired, partRow, blob>>

(* ClaimIngestJob: a queued job is handed to exactly one worker (FOR UPDATE *)
(* SKIP LOCKED) and its session starts ingesting, or the claim rolls back.  *)
ClaimJobRow(u, w) ==
    /\ job[u] = "queued"
    /\ session[u] = "completed"
    /\ job' = [job EXCEPT ![u] = "running"]
    /\ lockedBy' = [lockedBy EXCEPT ![u] = w]
    /\ session' = [session EXCEPT ![u] = "ingesting"]
    /\ UNCHANGED <<want, expired, partRow, blob>>

(* SucceedIngestJob: lock a running job, insert the blob row if its digest  *)
(* is new, and make the session ready only against a row of its own size.   *)
StoredSize(e) == IF blob[e.digest] = None THEN e.size ELSE blob[e.digest]

JobIsRunning(u) == job[u] = "running" /\ session[u] = "ingesting"
MayBecomeReady(u) == JobIsRunning(u) /\ StoredSize(want[u]) = want[u].size

SucceedJobRow(u) ==
    /\ MayBecomeReady(u)
    /\ blob' = [blob EXCEPT ![want[u].digest] = StoredSize(want[u])]
    /\ session' = [session EXCEPT ![u] = "ready"]
    /\ job' = [job EXCEPT ![u] = "succeeded"]
    /\ lockedBy' = [lockedBy EXCEPT ![u] = None]
    /\ UNCHANGED <<want, expired, partRow>>

(* FailIngestJob. *)
FailJobRow(u) ==
    /\ JobIsRunning(u)
    /\ session' = [session EXCEPT ![u] = "failed"]
    /\ job' = [job EXCEPT ![u] = "failed"]
    /\ lockedBy' = [lockedBy EXCEPT ![u] = None]
    /\ UNCHANGED <<want, expired, partRow, blob>>
=============================================================================
