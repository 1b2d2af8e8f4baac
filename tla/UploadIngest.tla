---------------------------- MODULE UploadIngest ----------------------------
(***************************************************************************)
(* The upload service and the CAS ingest workers over one database and one *)
(* bucket: the whole path of client bytes from BeginUpload to a trusted    *)
(* blob.                                                                   *)
(***************************************************************************)
EXTENDS UploadService, CasIngest

vars == <<tables, bucket, call, work>>

Init == TablesInit /\ BucketInit /\ CallsInit /\ WorkInit

CallNext(c) == NewCall(c) \/ CallStepOf(c) \/ Interrupt(c)

WorkNext(w) == WorkStepOf(w) \/ WorkerError(w)

Next ==
    \/ (\E c \in Client : CallNext(c)) /\ UNCHANGED work
    \/ (\E u \in Upload : Expire(u)) /\ UNCHANGED work
    \/ (\E w \in Worker : WorkNext(w)) /\ UNCHANGED call

Spec == Init /\ [][Next]_vars

(* A request handler runs to its end unless it is interrupted, and a        *)
(* promotion worker keeps polling: runner.Run returns only on shutdown.     *)
(* Clients need not send anything, and the clock need not pass.             *)
Fairness ==
    /\ \A c \in Client : WF_vars(CallStepOf(c) /\ UNCHANGED work)
    /\ \A w \in Worker : WF_vars(WorkStepOf(w) /\ UNCHANGED call)

FairSpec == Spec /\ Fairness

-----------------------------------------------------------------------------
\* Every variable has its type; in particular no two rows share a session.
TypeOK == TablesTypeOK /\ BucketTypeOK /\ CallsTypeOK /\ WorkTypeOK

\* A session and its ingest job move together: whatever interrupts a call or a
\* worker, no session waits for a job that does not exist (CompleteSession and
\* the three ingest transactions each change both rows).
JobFollowsSession ==
    \A u \in Upload :
        /\ job[u] = "queued" <=> session[u] = "completed"
        /\ job[u] = "running" <=> session[u] = "ingesting"
        /\ job[u] = "failed" <=> session[u] = "failed"
        /\ job[u] = "succeeded" => session[u] = "ready"

\* What a blob row promises is in the bucket: OpenBlob finds an object with the
\* digest and the size of the row, for every digest any worker has committed.
BlobRowsAreBacked ==
    \A d \in Content : blob[d] # None => cas[d] = d /\ blob[d] = Size[d]

\* A ready session names bytes a client can download: the trusted row exists, has
\* the size the session expected, and is backed (BeginReady and SucceedIngestJob).
ReadySessionsAreServed ==
    \A u \in Upload :
        session[u] = "ready" => /\ Size[want[u].digest] = want[u].size
                                /\ blob[want[u].digest] = want[u].size
                                /\ cas[want[u].digest] = want[u].digest

\* From the moment completion is promised until its job is decided, the staged
\* bytes are in the bucket: "staged object is missing" (cas.verifyStagedUpload)
\* never happens, although abort, expiry and cleanup race with completion.
PromisedBytesAreStaged ==
    \A u \in Upload :
        session[u] \in {"completed", "ingesting"} => staged[u] # None

\* An aborted session leaves nothing behind: no open multipart upload, no staged
\* object and no ingest job (AbortUpload orders object store before row).
AbortedLeavesNothing ==
    \A u \in Upload :
        session[u] = "aborted" =>
            /\ mp[u] = "aborted"
            /\ staged[u] = None
            /\ job[u] = "none"

\* A running job belongs to at most one worker: no second worker copies or deletes
\* the staged object of a job another one is committing (claimIngestJob).
OneWorkerPerJob ==
    \A v, w \in Worker :
        v # w /\ work[v].at # "idle" /\ work[w].at # "idle" => work[v].upload # work[w].upload

-----------------------------------------------------------------------------
Progress == [none |-> 0, created |-> 1, uploading |-> 2, completed |-> 3, ingesting |-> 4,
             ready |-> 5, failed |-> 5, aborted |-> 5]

\* A session only moves forward, and a terminal state is final: a complete that was
\* acknowledged is never aborted by a late abort, and the reverse.
SessionsMoveForward ==
    [][\A u \in Upload :
        session'[u] # session[u] => Progress[session[u]] < Progress[session'[u]]]_vars

\* Only bad bytes fail an upload: neither a racing copy of the same digest nor a
\* recovered CAS object makes a worker reject bytes that are what the client
\* announced (ensureCASObject, recoverExistingCASObject).
OnlyBadBytesAreRejected ==
    [][\A u \in Upload :
        session'[u] = "failed" /\ session[u] # "failed" =>
            staged[u] # None /\ ~Meets(staged[u], want[u])]_vars

\* CAS objects and blob rows, once there, never change: a digest a client has
\* seen ready keeps resolving to the same bytes (IfDestinationAbsent, the
\* ON CONFLICT DO NOTHING insert).
CasIsWriteOnce ==
    [][\A d \in Content : /\ cas[d] # None => cas'[d] = cas[d]
                          /\ blob[d] # None => blob'[d] = blob[d]]_vars

\* Staging storage is released only after the outcome is durable: a staged object
\* disappears only when its session is ready or failed (cleanupStagingObject).
StagingOutlivesDecision ==
    [][\A u \in Upload :
        staged[u] # None /\ staged'[u] # staged[u] => session[u] \in {"ready", "failed"}]_vars

-----------------------------------------------------------------------------
\* Without faults, an upload whose bytes are staged is decided, however the calls
\* that completed, aborted or expired it interleave.
StagedUploadsAreDecided ==
    \A u \in Upload : staged[u] # None ~> session[u] \in {"ready", "failed"}

\* A queued job does not wait forever, even when workers fail between any two
\* steps: each returns to polling (jobs.Runner.Run).
QueuedJobsAreClaimed ==
    \A u \in Upload : job[u] = "queued" ~> job[u] # "queued"

-----------------------------------------------------------------------------
(* What the documentation says and the code does not do.                    *)

\* states-and-roles.md: in `ingesting`, a CAS-promotion worker is verifying and
\* promoting the staged bytes.  A copy that loses a concurrent conditional request
\* before the winner's object exists ends the worker and leaves the job running.
IngestingHasWorker ==
    \A u \in Upload :
        session[u] = "ingesting" => \E w \in Worker : work[w].upload = u

\* service.go: AbortUpload aborts staging storage and marks the state aborted.  After
\* a completion that stopped before its row, with bytes of the wrong size, neither
\* AbortUpload nor CompleteUpload can ever end the session.
IdleUploadsCanEnd ==
    \A u \in Upload :
        session[u] \in Mutable /\ (\A c \in Client : call[c].upload # u)
            => mp[u] = "open" \/ staged[u] = None \/ StagedFits(u)

-----------------------------------------------------------------------------
(* Why the safety invariants hold: an inductive strengthening of them.      *)

Beginning == {"begin_ready", "begin_mp", "begin_row"}
Committing == {"copy", "recover", "stat_cas", "read_cas", "succeed"}

\* What call c relies on: while it creates a session it is alone with its fresh
\* upload id, and when it is about to decide one it knows how the objects stand.
CallKnows(c) ==
    LET u == call[c].upload IN
    /\ call[c].at = "idle" => call[c] = NoCall
    /\ call[c].at # "idle" =>
        /\ u \in Upload
        /\ want[u] # None
        /\ call[c].at \in Beginning =>
             /\ session[u] = "none"
             /\ \A b \in Client : b # c => call[b].upload # u
        /\ call[c].at = "begin_mp" => mp[u] = "none"
        /\ call[c].at = "begin_row" => mp[u] = "open"
        /\ call[c].at = "begin_ready" => blob[want[u].digest] = want[u].size
        /\ call[c].at = "complete_object" => call[c].body # None
        /\ call[c].at \notin Beginning \cup {"begin_cleanup"} => session[u] # "none"
        /\ call[c].at \in {"complete_row", "abort_recover_row"} => mp[u] = "completed"
        /\ call[c].at = "abort_stat" => session[u] \notin Mutable \/ mp[u] \in {"completed", "aborted"}
        /\ call[c].at = "abort_row" => session[u] \notin Mutable \/ mp[u] = "aborted"

\* What worker w has established about the job it runs.
WorkerKnows(w) ==
    LET u == work[w].upload IN
    work[w].at # "idle" =>
        /\ u \in Upload
        /\ want[u] # None
        /\ work[w].at = "cleanup" => session[u] \in {"ready", "failed"}
        /\ work[w].at # "cleanup" => session[u] = "ingesting"
        /\ work[w].at \in Committing => Meets(staged[u], want[u])
        /\ work[w].at = "succeed" => cas[want[u].digest] = want[u].digest
        /\ BlankETag \/ work[w].etag
        /\ work[w].at = "fail" => BlankETag \/ ~Meets(staged[u], want[u])

\* How the row of a session relates to its multipart upload and staged object.
RowFollowsObjects ==
    \A u \in Upload :
        /\ want[u] = None => session[u] = "none" /\ mp[u] = "none"
        /\ staged[u] # None => mp[u] = "completed"
        /\ mp[u] = "completed" => session[u] # "none"
        /\ session[u] \in Mutable => mp[u] # "none"
        /\ session[u] \in Mutable /\ mp[u] = "completed" => staged[u] # None
        /\ session[u] \in {"completed", "ingesting"} => staged[u] # None
        /\ session[u] = "aborted" => mp[u] = "aborted"

\* Every CAS object has the content its key names.
CasKeysAreTrue == \A d \in Content : cas[d] \in {None, d}

DataAgrees ==
    /\ JobFollowsSession
    /\ RowFollowsObjects
    /\ ReadySessionsAreServed
    /\ BlobRowsAreBacked
    /\ CasKeysAreTrue

CallsKnow == \A c \in Client : CallKnows(c)

WorkersKnow == (\A w \in Worker : WorkerKnows(w)) /\ OneWorkerPerJob

Inductive == TypeOK /\ DataAgrees /\ CallsKnow /\ WorkersKnow

-----------------------------------------------------------------------------
(* The promise of TrustedUploads, read off the rows and the bucket.         *)
PhaseOf(state) ==
    CASE state = "none" -> "absent"
      [] state \in Mutable -> "open"
      [] state \in {"completed", "ingesting"} -> "promised"
      [] state = "ready" -> "trusted"
      [] state = "failed" -> "rejected"
      [] state = "aborted" -> "withdrawn"

ServedClaims ==
    {[digest |-> d, size |-> blob[d]] : d \in {c \in Content : blob[c] # None /\ cas[c] = c}}

Abstract == INSTANCE TrustedUploads WITH
    phase <- [u \in Upload |-> PhaseOf(session[u])],
    claim <- [u \in Upload |-> IF session[u] = "none" THEN None ELSE want[u]],
    bytes <- [u \in Upload |-> IF PhaseOf(session[u]) = "promised" THEN staged[u] ELSE None],
    trusted <- ServedClaims

\* Rows, bucket, calls and workers together keep the promise: a decision depends on
\* nothing but the bytes fixed at completion and what the client announced, and
\* a session made ready at once names a claim that is being served.
KeepsUploadPromise == Abstract!ASpec

\* Without faults the promise is also kept in time: every completed upload is decided.
KeepsUploadPromiseInTime == Abstract!AFairSpec
=============================================================================
