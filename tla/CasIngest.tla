----------------------------- MODULE CasIngest -----------------------------
(***************************************************************************)
(* internal/jobs/promote.Job and internal/cas.Service.CommitStagedUpload:  *)
(* a worker claims one queued job, verifies the staged bytes, copies them  *)
(* to the CAS key (or recovers an object already there), records the       *)
(* outcome and deletes the staging object.  A worker that stops before the *)
(* outcome is recorded leaves its job running: nothing reclaims it.        *)
(***************************************************************************)
EXTENDS UploadTables, ObjectStore

VARIABLE work  \* what each worker does next, for which upload

WorkStep == {"idle", "verify", "copy", "recover", "stat_cas", "read_cas",
             "succeed", "fail", "cleanup"}

NoWork == [at |-> "idle", upload |-> None, etag |-> TRUE]

WorkTypeOK ==
    work \in [Worker -> [at : WorkStep, upload : Upload \cup {None}, etag : BOOLEAN]]

WorkInit == work = [w \in Worker |-> NoWork]

Doing(w, step) == work[w].at = step
Then(w, step) == work' = [work EXCEPT ![w].at = step]
Stop(w) == work' = [work EXCEPT ![w] = NoWork]

ClaimIngestJob(w, u) ==
    /\ Doing(w, "idle")
    /\ ClaimJobRow(u, w)
    /\ work' = [work EXCEPT ![w] = [at |-> "verify", upload |-> u, etag |-> TRUE]]
    /\ UNCHANGED bucket

\* Wrong on purpose: the size is not compared.
VerifyStagedUpload_DigestOnly(w) ==
    LET u == work[w].upload IN
    /\ Doing(w, "verify")
    /\ Then(w, IF staged[u] = want[u].digest THEN "copy" ELSE "fail")
    /\ UNCHANGED <<tables, bucket>>

(* verifyStagedUpload, and the test of the ETag with which it opened the    *)
(* staged object.                                                           *)
VerifyStagedUpload(w) ==
    LET u == work[w].upload IN
    /\ Doing(w, "verify")
    /\ \/ (staged[u] = None \/ ~Meets(staged[u], want[u])) /\ Then(w, "fail")
       \/ staged[u] # None /\ Meets(staged[u], want[u]) /\ Then(w, "copy")
       \/ /\ BlankETag /\ staged[u] # None /\ Meets(staged[u], want[u])
          /\ work' = [work EXCEPT ![w].at = "recover", ![w].etag = FALSE]
    /\ UNCHANGED <<tables, bucket>>

\* Another worker's conditional copy to the same CAS key is under way.
CopyContended(w, d) ==
    \E v \in Worker \ {w} : Doing(v, "copy") /\ want[work[v].upload].digest = d

\* Wrong on purpose: a lost conditional copy counts as a copy.
CopyToCAS_TrustsConflict(w) ==
    LET u == work[w].upload
        d == want[u].digest
    IN  /\ Doing(w, "copy")
        /\ \/ CopyObject(u, d, d)
           \/ (cas[d] # None \/ CopyContended(w, d)) /\ UNCHANGED bucket
        /\ Then(w, "succeed")
        /\ UNCHANGED tables

(* ensureCASObject: the ETag required of the source is the one verified,    *)
(* the ETag of the expected content.                                        *)
CopyToCAS(w) ==
    LET u == work[w].upload
        d == want[u].digest
    IN  /\ Doing(w, "copy")
        /\ \/ CopyObject(u, d, d) /\ Then(w, "succeed")
           \/ staged[u] # None /\ (staged[u] # d \/ cas[d] # None \/ CopyContended(w, d))
              /\ Then(w, "recover") /\ UNCHANGED bucket
           \/ staged[u] = None /\ Stop(w) /\ UNCHANGED bucket
        /\ UNCHANGED tables

\* Wrong on purpose: an object without a row is taken for a mismatch ...
RecoverCASObject_NeedsRow(w) ==
    LET e == want[work[w].upload] IN
    /\ Doing(w, "recover")
    /\ Then(w, IF TrustedSize(e) = e.size THEN "stat_cas" ELSE "fail")
    /\ UNCHANGED <<tables, bucket>>

\* ... or trusted without being read.
RecoverCASObject_Unread(w) ==
    LET e == want[work[w].upload] IN
    /\ Doing(w, "recover")
    /\ Then(w, IF TrustedSize(e) = None THEN "succeed" ELSE "stat_cas")
    /\ UNCHANGED <<tables, bucket>>

(* recoverExistingCASObject: a blob row of another size is refused, one of  *)
(* this size is believed after a stat, and without a row the bytes are read.*)
RecoverCASObject(w) ==
    LET e == want[work[w].upload] IN
    /\ Doing(w, "recover")
    /\ \/ TrustedSize(e) = None /\ Then(w, "read_cas")
       \/ TrustedSize(e) = e.size /\ Then(w, "stat_cas")
       \/ TrustedSize(e) \notin {e.size, None} /\ Then(w, "fail")
    /\ UNCHANGED <<tables, bucket>>

\* No object at the CAS key: a failed job without an ETag, else only an error.
CASObjectMissing(w) ==
    /\ cas[want[work[w].upload].digest] = None
    /\ IF work[w].etag THEN Stop(w) ELSE Then(w, "fail")

StatCASObject(w) ==
    LET e == want[work[w].upload] IN
    /\ Doing(w, "stat_cas")
    /\ \/ CASObjectMissing(w)
       \/ /\ cas[e.digest] # None
          /\ Then(w, IF Size[cas[e.digest]] = e.size THEN "succeed" ELSE "fail")
    /\ UNCHANGED <<tables, bucket>>

ReadCASObject(w) ==
    LET e == want[work[w].upload] IN
    /\ Doing(w, "read_cas")
    /\ \/ CASObjectMissing(w)
       \/ /\ cas[e.digest] # None
          /\ Then(w, IF Meets(cas[e.digest], e) THEN "succeed" ELSE "fail")
    /\ UNCHANGED <<tables, bucket>>

\* An outcome that cannot be recorded is only an error.
SucceedIngestJob(w) ==
    /\ Doing(w, "succeed")
    /\ \/ SucceedJobRow(work[w].upload) /\ Then(w, "cleanup")
       \/ ~MayBecomeReady(work[w].upload) /\ Stop(w) /\ UNCHANGED tables
    /\ UNCHANGED bucket

\* Wrong on purpose: the staging object is deleted before the outcome is recorded.
FailIngestJob_CleansFirst(w) ==
    /\ Doing(w, "fail")
    /\ DeleteObject(work[w].upload)
    /\ UNCHANGED <<tables, work>>

FailIngestJob(w) ==
    /\ Doing(w, "fail")
    /\ \/ FailJobRow(work[w].upload) /\ Then(w, "cleanup")
       \/ ~JobIsRunning(work[w].upload) /\ Stop(w) /\ UNCHANGED tables
    /\ UNCHANGED bucket

(* cleanupStagingObject is best effort: its failure is logged and ignored.  *)
CleanupStaging(w) ==
    /\ Doing(w, "cleanup")
    /\ DeleteObject(work[w].upload) \/ (Faults /\ UNCHANGED bucket)
    /\ Stop(w)
    /\ UNCHANGED tables

(* A request of the worker fails, or its process dies. *)
WorkerError(w) ==
    /\ Faults
    /\ ~Doing(w, "idle")
    /\ Stop(w)
    /\ UNCHANGED <<tables, bucket>>

WorkStepOf(w) ==
    \/ \E u \in Upload : ClaimIngestJob(w, u)
    \/ VerifyStagedUpload(w) \/ CopyToCAS(w) \/ RecoverCASObject(w)
    \/ StatCASObject(w) \/ ReadCASObject(w)
    \/ SucceedIngestJob(w) \/ FailIngestJob(w) \/ CleanupStaging(w)
=============================================================================
