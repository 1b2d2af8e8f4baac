------------------------- MODULE UploadIngestProofs -------------------------
(***************************************************************************)
(* Proofs about UploadIngest for every set of uploads, clients, workers    *)
(* and contents, with and without faults.                                  *)
(***************************************************************************)
EXTENDS UploadIngest, TLAPS

-----------------------------------------------------------------------------
(* Types: one lemma for each of the four groups of variables.               *)

\* Init gives every variable its type.
LEMMA TypeInit == Init => TypeOK
BY NoneAssumption DEF Init, TypeOK, TablesInit, BucketInit, CallsInit, WorkInit, TablesTypeOK,
   BucketTypeOK, CallsTypeOK, WorkTypeOK, NoCall, NoWork, CallStep, WorkStep, SessionState, JobState

\* A call that moves to a step, returns or is entered keeps the type of call.
LEMMA CallTypes ==
    ASSUME CallsTypeOK, NEW c \in Client, NEW step \in CallStep,
           NEW u \in Upload \cup {None}, NEW b \in Content \cup {None},
           Goto(c, step) \/ Return(c) \/ Enter(c, step, u, b) \/ UNCHANGED call
    PROVE  CallsTypeOK'
<1> USE DEF CallsTypeOK
<1>1. CASE Goto(c, step)
  BY <1>1 DEF Goto
<1>2. CASE Return(c)
  BY <1>2 DEF Return, NoCall, CallStep
<1>3. CASE Enter(c, step, u, b)
  BY <1>3 DEF Enter
<1> QED BY <1>1, <1>2, <1>3

\* Every transaction keeps the type of the rows.
LEMMA TableTypes ==
    ASSUME TablesTypeOK, NEW u, NEW b \in Content \cup {None},
           \/ InsertSession(u, "created") \/ InsertSession(u, "ready")
           \/ OrRefused(u, RecordPartRow(u, b))
           \/ OrRefused(u, CompleteRow(u))
           \/ OrRefused(u, AbortRow(u))
           \/ FailJobRow(u)
           \/ UNCHANGED tables
    PROVE  TablesTypeOK'
BY DEF TablesTypeOK, tables, InsertSession, OrRefused, RecordPartRow, CompleteRow, AbortRow,
       FailJobRow, SessionState, JobState

\* So does a claim.
LEMMA ClaimTypes ==
    ASSUME TablesTypeOK, NEW u, NEW w \in Worker, ClaimJobRow(u, w)
    PROVE  TablesTypeOK'
BY DEF TablesTypeOK, ClaimJobRow, SessionState, JobState

\* So does SucceedIngestJob: the size it stores is the size some client announced.
LEMMA SucceedTypes ==
    ASSUME TablesTypeOK, NEW u \in Upload, want[u] # None, SucceedJobRow(u)
    PROVE  TablesTypeOK'
<1>1. want[u] \in [digest : Content, size : Nat]
  BY ExpectationAssumption DEF TablesTypeOK
<1>2. StoredSize(want[u]) \in Nat
  BY <1>1 DEF StoredSize, TablesTypeOK
<1> QED BY <1>1, <1>2 DEF TablesTypeOK, SucceedJobRow, SessionState, JobState

\* Every object-store request keeps the type of the bucket.
LEMMA BucketTypes ==
    ASSUME BucketTypeOK, NEW u, NEW b \in Content \cup {None},
           \/ CreateMultipartUpload(u) \/ PutPart(u, b) \/ CompleteMultipartUpload(u, b)
           \/ AbortMultipartUpload(u) \/ DeleteObject(u) \/ UNCHANGED bucket
    PROVE  BucketTypeOK'
BY DEF BucketTypeOK, bucket, CreateMultipartUpload, PutPart, CompleteMultipartUpload,
       AbortMultipartUpload, DeleteObject

\* A worker that moves on, takes a job, stops or loses its ETag keeps its type.
LEMMA WorkTypes ==
    ASSUME WorkTypeOK, NEW w \in Worker, NEW step \in WorkStep, NEW u \in Upload,
           \/ Then(w, step) \/ Stop(w) \/ UNCHANGED work
           \/ work' = [work EXCEPT ![w] = [at |-> "verify", upload |-> u, etag |-> TRUE]]
           \/ work' = [work EXCEPT ![w].at = "recover", ![w].etag = FALSE]
    PROVE  WorkTypeOK'
<1> USE DEF WorkTypeOK
<1>1. CASE Then(w, step)
  BY <1>1 DEF Then
<1>2. CASE Stop(w)
  BY <1>2 DEF Stop, NoWork, WorkStep
<1>3. CASE work' = [work EXCEPT ![w] = [at |-> "verify", upload |-> u, etag |-> TRUE]]
  BY <1>3 DEF WorkStep
<1>4. CASE work' = [work EXCEPT ![w].at = "recover", ![w].etag = FALSE]
  BY <1>4, ZenonT(60) DEF WorkStep
<1> QED BY <1>1, <1>2, <1>3, <1>4

\* Each step of a call keeps the type of every row, object, call and worker.
LEMMA TypeCall ==
    ASSUME TypeOK, NEW c \in Client, CallNext(c), UNCHANGED work
    PROVE  TypeOK'
<1> DEFINE u == call[c].upload
           b == call[c].body
<1>0. /\ TablesTypeOK /\ BucketTypeOK /\ CallsTypeOK /\ WorkTypeOK'
      /\ u \in Upload \cup {None} /\ b \in Content \cup {None}
  BY DEF TypeOK, CallsTypeOK, WorkTypeOK
<1>1. ASSUME TablesTypeOK', BucketTypeOK', CallsTypeOK' PROVE TypeOK'
  BY <1>1, <1>0 DEF TypeOK
<1>2. CASE NewCall(c)
  <2>1. ASSUME NEW v \in Upload, NEW e \in Expectation, BeginUpload(c, v, e) PROVE TypeOK'
    <3>1. CallsTypeOK'
      BY <2>1, <1>0, CallTypes DEF BeginUpload, CallStep
    <3> QED BY <1>0, <1>1, <2>1, <3>1 DEF BeginUpload, TablesTypeOK, BucketTypeOK, bucket
  <2>2. ASSUME NEW v \in Upload, NEW x \in Content,
               PutUploadPart(c, v, x) \/ CompleteUpload(c, v, x)
        PROVE  TypeOK'
    <3>1. CallsTypeOK'
      BY <2>2, <1>0, CallTypes DEF PutUploadPart, CompleteUpload, CallStep
    <3>2. UNCHANGED <<tables, bucket>>
      BY <2>2 DEF PutUploadPart, CompleteUpload
    <3> QED BY <1>0, <1>1, <3>1, <3>2 DEF TablesTypeOK, BucketTypeOK, tables, bucket
  <2>3. ASSUME NEW v \in Upload, AbortUpload(c, v) PROVE TypeOK'
    <3>1. CallsTypeOK'
      BY <2>3, <1>0, CallTypes DEF AbortUpload, CallStep
    <3> QED BY <1>0, <1>1, <2>3, <3>1 DEF AbortUpload, TablesTypeOK, BucketTypeOK, tables, bucket
  <2> QED BY <1>2, <2>1, <2>2, <2>3 DEF NewCall
<1>3. CASE CallStepOf(c) \/ Interrupt(c)
  <2>0. PICK step \in CallStep : Goto(c, step) \/ Return(c)
    BY <1>3 DEF CallStepOf, Interrupt, BeginReady, BeginMultipart, BeginRow, BeginCleanup,
       PutPartObject, PutPartRow, CompleteObject, CompleteStat, CompleteSession,
       AbortObject, AbortStat, AbortSession, AbortRecoverSession, CallStep
  <2>1. CallsTypeOK'
    BY <2>0, <1>0, CallTypes
  <2>2. TablesTypeOK'
    <3>1. \/ InsertSession(u, "ready") \/ InsertSession(u, "created")
          \/ OrRefused(u, RecordPartRow(u, b)) \/ OrRefused(u, CompleteRow(u))
          \/ OrRefused(u, AbortRow(u)) \/ UNCHANGED tables
      BY <1>3 DEF CallStepOf, Interrupt, BeginReady, BeginMultipart, BeginRow, BeginCleanup,
         PutPartObject, PutPartRow, CompleteObject, CompleteStat, CompleteSession,
         AbortObject, AbortStat, AbortSession, AbortRecoverSession
    <3> QED BY <1>0, <3>1, TableTypes
  <2>3. BucketTypeOK'
    <3>1. \/ CreateMultipartUpload(u) \/ PutPart(u, b) \/ CompleteMultipartUpload(u, b)
          \/ AbortMultipartUpload(u) \/ UNCHANGED bucket
      BY <1>3 DEF CallStepOf, Interrupt, BeginReady, BeginMultipart, BeginRow, BeginCleanup,
         PutPartObject, PutPartRow, CompleteObject, CompleteStat, CompleteSession,
         AbortObject, AbortStat, AbortSession, AbortRecoverSession
    <3> QED BY <1>0, <3>1, BucketTypes
  <2> QED BY <1>1, <2>1, <2>2, <2>3
<1> QED BY <1>2, <1>3 DEF CallNext

\* Each step of a worker keeps the types, given what the worker knows of its job.
LEMMA TypeWork ==
    ASSUME TypeOK, WorkersKnow, NEW w \in Worker, WorkNext(w), UNCHANGED call
    PROVE  TypeOK'
<1> DEFINE u == work[w].upload
<1>0. /\ TablesTypeOK /\ BucketTypeOK /\ WorkTypeOK /\ CallsTypeOK'
      /\ work[w].at # "idle" => u \in Upload /\ want[u] # None
  BY DEF TypeOK, CallsTypeOK, WorkersKnow, WorkerKnows
<1>1. ASSUME TablesTypeOK', BucketTypeOK', WorkTypeOK' PROVE TypeOK'
  BY <1>1, <1>0 DEF TypeOK
<1>2. ASSUME NEW v \in Upload, ClaimIngestJob(w, v) PROVE TypeOK'
  <2>1. TablesTypeOK'
    BY <1>0, <1>2, ClaimTypes DEF ClaimIngestJob
  <2>2. WorkTypeOK'
    BY <1>0, <1>2 DEF ClaimIngestJob, WorkTypeOK, WorkStep
  <2>3. BucketTypeOK'
    BY <1>0, <1>2 DEF ClaimIngestJob, BucketTypeOK, bucket
  <2> QED BY <1>1, <2>1, <2>2, <2>3
<1>3. CASE CopyToCAS(w)
  <2>1. work[w].at # "idle" /\ WorkTypeOK'
    BY <1>0, <1>3, WorkTypes DEF CopyToCAS, WorkStep, Doing
  <2>2. BucketTypeOK'
    BY <1>0, <1>3, <2>1 DEF CopyToCAS, CopyObject, BucketTypeOK, bucket
  <2>3. TablesTypeOK'
    BY <1>0, <1>3 DEF CopyToCAS, TablesTypeOK, tables
  <2> QED BY <1>1, <2>1, <2>2, <2>3
<1>4. CASE SucceedIngestJob(w)
  <2>1. work[w].at # "idle" /\ WorkTypeOK'
    BY <1>0, <1>4, WorkTypes DEF SucceedIngestJob, WorkStep, Doing
  <2>2. BucketTypeOK'
    BY <1>0, <1>4 DEF SucceedIngestJob, BucketTypeOK, bucket
  <2>3. TablesTypeOK'
    BY <1>0, <1>4, <2>1, SucceedTypes DEF SucceedIngestJob, TablesTypeOK, tables
  <2> QED BY <1>1, <2>1, <2>2, <2>3
<1>5. CASE \/ VerifyStagedUpload(w) \/ RecoverCASObject(w) \/ StatCASObject(w)
           \/ ReadCASObject(w) \/ FailIngestJob(w) \/ CleanupStaging(w) \/ WorkerError(w)
  <2>1. work[w].at # "idle" /\ WorkTypeOK'
    BY <1>0, <1>5, WorkTypes DEF VerifyStagedUpload, RecoverCASObject, StatCASObject,
       ReadCASObject, CASObjectMissing, FailIngestJob, CleanupStaging, WorkerError, WorkStep, Doing
  <2>2. (DeleteObject(u) \/ UNCHANGED bucket) /\ (FailJobRow(u) \/ UNCHANGED tables)
    BY <1>5 DEF VerifyStagedUpload, RecoverCASObject, StatCASObject,
       ReadCASObject, FailIngestJob, CleanupStaging, WorkerError
  <2> QED BY <1>0, <1>1, <2>1, <2>2, TableTypes, BucketTypes
<1> QED BY <1>2, <1>3, <1>4, <1>5 DEF WorkNext, WorkStepOf

-----------------------------------------------------------------------------
(* Each database transaction and object-store request keeps the data in     *)
(* agreement, given what its caller knows.                                  *)

DataUnchanged == UNCHANGED <<tables, bucket>>

\* InsertSession: a created row has a multipart upload, a ready row a served blob.
LEMMA InsertAgrees ==
    ASSUME TypeOK, DataAgrees, NEW u \in Upload, NEW state \in {"created", "ready"},
           session[u] = "none", want[u] # None,
           state = "created" => mp[u] # "none" /\ mp[u] # "completed",
           state = "ready" => blob[want[u].digest] = want[u].size,
           InsertSession(u, state), UNCHANGED bucket
    PROVE  DataAgrees'
<1> USE DEF DataAgrees, TypeOK, TablesTypeOK, InsertSession, bucket
<1>1. JobFollowsSession'
  BY DEF JobFollowsSession
<1>2. RowFollowsObjects'
  BY DEF RowFollowsObjects, Mutable
<1>3. ReadySessionsAreServed'
  <2>1. want[u].digest \in Content /\ want[u].size \in Nat
    BY ExpectationAssumption
  <2> QED BY <2>1, NoneAssumption DEF ReadySessionsAreServed, BlobRowsAreBacked
<1>4. BlobRowsAreBacked' /\ CasKeysAreTrue'
  BY DEF BlobRowsAreBacked, CasKeysAreTrue
<1> QED BY <1>1, <1>2, <1>3, <1>4

\* Recording a part, completing and aborting a row.
LEMMA RowStepAgrees ==
    ASSUME TypeOK, DataAgrees, NEW u \in Upload, NEW b,
           \/ OrRefused(u, RecordPartRow(u, b))
           \/ mp[u] = "completed" /\ OrRefused(u, CompleteRow(u))
           \/ (session[u] \notin Mutable \/ mp[u] = "aborted") /\ OrRefused(u, AbortRow(u)),
           UNCHANGED bucket
    PROVE  DataAgrees'
<1> USE DEF DataAgrees, TypeOK, TablesTypeOK, OrRefused, RecordPartRow, CompleteRow, AbortRow,
            bucket, tables
<1>1. JobFollowsSession'
  BY DEF JobFollowsSession, Mutable, JobState
<1>2. RowFollowsObjects'
  BY DEF RowFollowsObjects, Mutable
<1>3. ReadySessionsAreServed'
  BY DEF ReadySessionsAreServed, Mutable
<1>4. BlobRowsAreBacked' /\ CasKeysAreTrue'
  BY DEF BlobRowsAreBacked, CasKeysAreTrue
<1> QED BY <1>1, <1>2, <1>3, <1>4

\* Multipart requests: only a session that exists is assembled, only a fresh id is created.
LEMMA BucketStepAgrees ==
    ASSUME TypeOK, DataAgrees, NEW u \in Upload, NEW b \in Content \cup {None},
           \/ /\ session[u] = "none" /\ want[u] # None /\ mp[u] = "none"
              /\ CreateMultipartUpload(u)
           \/ PutPart(u, b)
           \/ session[u] # "none" /\ b # None /\ CompleteMultipartUpload(u, b)
           \/ AbortMultipartUpload(u),
           UNCHANGED tables
    PROVE  DataAgrees'
<1> USE DEF DataAgrees, TypeOK, BucketTypeOK, CreateMultipartUpload, PutPart,
            CompleteMultipartUpload, AbortMultipartUpload, tables
<1>1. JobFollowsSession'
  BY DEF JobFollowsSession
<1>2. RowFollowsObjects'
  BY DEF RowFollowsObjects, Mutable
<1>3. ReadySessionsAreServed'
  BY DEF ReadySessionsAreServed
<1>4. BlobRowsAreBacked' /\ CasKeysAreTrue'
  BY DEF BlobRowsAreBacked, CasKeysAreTrue
<1> QED BY <1>1, <1>2, <1>3, <1>4

\* A claim moves a completed session and its queued job together.
LEMMA ClaimAgrees ==
    ASSUME TypeOK, DataAgrees, NEW u \in Upload, NEW w \in Worker,
           ClaimJobRow(u, w), UNCHANGED bucket
    PROVE  DataAgrees'
<1> USE DEF DataAgrees, TypeOK, TablesTypeOK, ClaimJobRow, bucket
<1>1. JobFollowsSession'
  BY DEF JobFollowsSession
<1>2. RowFollowsObjects'
  BY DEF RowFollowsObjects, Mutable
<1>3. ReadySessionsAreServed'
  BY DEF ReadySessionsAreServed
<1>4. BlobRowsAreBacked' /\ CasKeysAreTrue'
  BY DEF BlobRowsAreBacked, CasKeysAreTrue
<1> QED BY <1>1, <1>2, <1>3, <1>4

\* A recorded failure decides the session and its job together.
LEMMA FailAgrees ==
    ASSUME TypeOK, DataAgrees, NEW u \in Upload, FailJobRow(u), UNCHANGED bucket
    PROVE  DataAgrees'
<1> USE DEF DataAgrees, TypeOK, TablesTypeOK, FailJobRow, JobIsRunning, bucket
<1>1. JobFollowsSession'
  BY DEF JobFollowsSession
<1>2. RowFollowsObjects'
  BY DEF RowFollowsObjects, Mutable
<1>3. ReadySessionsAreServed'
  BY DEF ReadySessionsAreServed
<1>4. BlobRowsAreBacked' /\ CasKeysAreTrue'
  BY DEF BlobRowsAreBacked, CasKeysAreTrue
<1> QED BY <1>1, <1>2, <1>3, <1>4

\* A recorded success is backed, because the worker verified the bytes and saw the
\* CAS object; a blob row that exists already has the same size.
LEMMA SucceedAgrees ==
    ASSUME TypeOK, DataAgrees, NEW u \in Upload, want[u] # None,
           Meets(staged[u], want[u]), cas[want[u].digest] = want[u].digest,
           SucceedJobRow(u), UNCHANGED bucket
    PROVE  DataAgrees'
<1> DEFINE d == want[u].digest
<1>0. d \in Content /\ want[u].size \in Nat /\ Size[d] = want[u].size
  BY ExpectationAssumption DEF TypeOK, TablesTypeOK, Meets
<1>00. blob[d] \in {None, want[u].size}
  BY <1>0 DEF DataAgrees, BlobRowsAreBacked
<1>01. blob' = [blob EXCEPT ![d] = want[u].size]
  BY <1>00 DEF SucceedJobRow, StoredSize
<1> USE DEF DataAgrees, TypeOK, TablesTypeOK, SucceedJobRow, MayBecomeReady, JobIsRunning, bucket
<1>1. JobFollowsSession'
  BY DEF JobFollowsSession
<1>2. RowFollowsObjects'
  BY DEF RowFollowsObjects, Mutable
<1>3. BlobRowsAreBacked'
  BY <1>0, <1>01 DEF BlobRowsAreBacked
<1>4. ReadySessionsAreServed'
  <2> SUFFICES ASSUME NEW v \in Upload, session'[v] = "ready"
               PROVE  /\ Size[want[v].digest] = want[v].size
                      /\ blob'[want[v].digest] = want[v].size
                      /\ cas[want[v].digest] = want[v].digest
    BY DEF ReadySessionsAreServed
  <2>1. CASE v = u
    BY <1>0, <1>01, <2>1
  <2>2. CASE v # u
    <3>1. session[v] = "ready" /\ want[v] # None
      BY <2>2 DEF RowFollowsObjects
    <3>2. want[v].digest \in Content /\ want[v].size \in Nat
      BY <3>1, ExpectationAssumption
    <3> QED BY <1>0, <1>01, <3>1, <3>2 DEF ReadySessionsAreServed
  <2> QED BY <2>1, <2>2
<1>5. CasKeysAreTrue'
  BY DEF CasKeysAreTrue
<1> QED BY <1>1, <1>2, <1>3, <1>4, <1>5

\* A copy puts the content of a key under that key; a cleanup only follows a decision.
LEMMA WorkBucketAgrees ==
    ASSUME TypeOK, DataAgrees, NEW u \in Upload,
           \/ want[u] # None /\ CopyObject(u, want[u].digest, want[u].digest)
           \/ session[u] \in {"ready", "failed"} /\ DeleteObject(u),
           UNCHANGED tables
    PROVE  DataAgrees'
<1> USE DEF DataAgrees, TypeOK, BucketTypeOK, CopyObject, DeleteObject, tables
<1>1. JobFollowsSession'
  BY DEF JobFollowsSession
<1>2. RowFollowsObjects'
  BY DEF RowFollowsObjects, Mutable
<1>3. \A d \in Content : cas[d] # None => cas'[d] = cas[d]
  OBVIOUS
<1>4. BlobRowsAreBacked' /\ CasKeysAreTrue'
  BY <1>3, NoneAssumption DEF BlobRowsAreBacked, CasKeysAreTrue
<1>5. ReadySessionsAreServed'
  <2> SUFFICES ASSUME NEW v \in Upload, session[v] = "ready"
               PROVE  cas'[want[v].digest] = want[v].digest
    BY DEF ReadySessionsAreServed
  <2>1. want[v].digest \in Content
    BY ExpectationAssumption DEF RowFollowsObjects, TablesTypeOK
  <2>2. cas[want[v].digest] = want[v].digest /\ want[v].digest # None
    BY <2>1, NoneAssumption DEF ReadySessionsAreServed
  <2> QED BY <1>3, <2>1, <2>2
<1> QED BY <1>1, <1>2, <1>4, <1>5

-----------------------------------------------------------------------------
(* What the other calls and the workers may rely on across a step.          *)

Monotone ==
    /\ \A v \in Upload :
        /\ want[v] # None => want'[v] = want[v]
        /\ session[v] # "none" => session'[v] # "none"
        /\ session[v] \notin Mutable \cup {"none"} => session'[v] \notin Mutable
        /\ mp[v] \in {"completed", "aborted"} => mp'[v] = mp[v]
    /\ \A d \in Content :
        /\ blob[d] # None => blob'[d] = blob[d]
        /\ cas[d] # None => cas'[d] = cas[d]

SparesJobs ==
    \A v \in Upload :
        /\ session[v] \in {"ingesting", "ready", "failed"} => session'[v] = session[v]
        /\ session[v] = "ingesting" => staged'[v] = staged[v]

OnlyTouches(u) ==
    \A v \in Upload : v # u => session'[v] = session[v] /\ mp'[v] = mp[v] /\ staged'[v] = staged[v]

\* A call that does not move keeps what it knows.
LEMMA CallKept ==
    ASSUME TypeOK, Monotone, NEW c \in Client, CallKnows(c), call'[c] = call[c],
           call[c].at \in Beginning =>
              /\ session'[call[c].upload] = session[call[c].upload]
              /\ mp'[call[c].upload] = mp[call[c].upload]
              /\ \A b \in Client : b # c => call'[b].upload # call[c].upload
    PROVE  CallKnows(c)'
<1> SUFFICES ASSUME call[c].at # "idle" PROVE CallKnows(c)'
  BY DEF CallKnows
<1> DEFINE u == call[c].upload
<1>1. u \in Upload /\ want[u] # None /\ want'[u] = want[u]
  BY DEF CallKnows, Monotone
<1>2. want[u].digest \in Content /\ want[u].size \in Nat
  BY <1>1, ExpectationAssumption DEF TypeOK, TablesTypeOK
<1>3. blob[want[u].digest] = want[u].size => blob'[want[u].digest] = want[u].size
  BY <1>2, NoneAssumption DEF Monotone
<1> QED BY <1>1, <1>3 DEF CallKnows, Monotone, Beginning

\* A worker that does not move keeps what it knows of its own job.
LEMMA WorkerKept ==
    ASSUME TypeOK, Monotone, NEW w \in Worker, WorkerKnows(w), work'[w] = work[w],
           work[w].at # "idle" =>
              /\ session'[work[w].upload] = session[work[w].upload]
              /\ work[w].at # "cleanup" => staged'[work[w].upload] = staged[work[w].upload]
    PROVE  WorkerKnows(w)'
<1> SUFFICES ASSUME work[w].at # "idle" PROVE WorkerKnows(w)'
  BY DEF WorkerKnows
<1> DEFINE u == work[w].upload
<1>1. u \in Upload /\ want[u] # None /\ want'[u] = want[u]
  BY DEF WorkerKnows, Monotone
<1>2. want[u].digest \in Content
  BY <1>1, ExpectationAssumption DEF TypeOK, TablesTypeOK
<1>3. cas[want[u].digest] = want[u].digest => cas'[want[u].digest] = want[u].digest
  BY <1>2, NoneAssumption DEF Monotone
<1> QED BY <1>1, <1>3 DEF WorkerKnows, Committing

\* A call that touches one upload and spares jobs disturbs no other call and no worker.
LEMMA CallStepKeeps ==
    ASSUME Inductive, Monotone, SparesJobs, NEW c \in Client,
           NEW u, OnlyTouches(u), u = call[c].upload,
           UNCHANGED work, CallKnows(c)',
           \A b \in Client : b # c => call'[b] = call[b],
           \/ call'[c].upload \in {call[c].upload, None}
           \/ call'[c].upload \in Upload /\ want[call'[c].upload] = None
           \/ session[call'[c].upload] # "none"
    PROVE  CallsKnow' /\ WorkersKnow'
<1> USE DEF Inductive, CallsKnow, WorkersKnow
<1>1. ASSUME NEW b \in Client, b # c PROVE CallKnows(b)'
  <2>1. CallKnows(b) /\ call'[b] = call[b]
    BY <1>1
  <2>2. ASSUME call[b].at \in Beginning
        PROVE  /\ session'[call[b].upload] = session[call[b].upload]
               /\ mp'[call[b].upload] = mp[call[b].upload]
               /\ \A a \in Client : a # b => call'[a].upload # call[b].upload
    <3>1. /\ call[b].upload \in Upload /\ want[call[b].upload] # None
          /\ session[call[b].upload] = "none"
          /\ \A a \in Client : a # b => call[a].upload # call[b].upload
      BY <2>1, <2>2 DEF CallKnows, Beginning
    <3>2. call[b].upload # u
      BY <1>1, <3>1
    <3>3. call'[c].upload # call[b].upload
      BY <1>1, <3>1, NoneAssumption
    <3> QED BY <1>1, <3>1, <3>2, <3>3 DEF OnlyTouches
  <2> QED BY <2>1, <2>2, CallKept
<1>2. ASSUME NEW w \in Worker PROVE WorkerKnows(w)'
  <2>1. work[w].at # "idle" =>
          /\ session'[work[w].upload] = session[work[w].upload]
          /\ work[w].at # "cleanup" => staged'[work[w].upload] = staged[work[w].upload]
    BY DEF WorkerKnows, SparesJobs
  <2> QED BY <2>1, WorkerKept
<1>3. OneWorkerPerJob'
  BY DEF OneWorkerPerJob
<1> QED BY <1>1, <1>2, <1>3

\* The data steps of calls are monotone, touch one upload and spare running jobs.
LEMMA CallDataGuarantee ==
    ASSUME TypeOK, DataAgrees, NEW u \in Upload \cup {None}, NEW b,
           \/ session[u] = "none" /\ InsertSession(u, "created") /\ UNCHANGED bucket
           \/ session[u] = "none" /\ InsertSession(u, "ready") /\ UNCHANGED bucket
           \/ OrRefused(u, RecordPartRow(u, b)) /\ UNCHANGED bucket
           \/ OrRefused(u, CompleteRow(u)) /\ UNCHANGED bucket
           \/ OrRefused(u, AbortRow(u)) /\ UNCHANGED bucket
           \/ mp[u] = "none" /\ CreateMultipartUpload(u) /\ UNCHANGED tables
           \/ PutPart(u, b) /\ UNCHANGED tables
           \/ CompleteMultipartUpload(u, b) /\ UNCHANGED tables
           \/ AbortMultipartUpload(u) /\ UNCHANGED tables
           \/ DataUnchanged
    PROVE  Monotone /\ SparesJobs /\ OnlyTouches(u)
<1> USE DEF TypeOK, TablesTypeOK, BucketTypeOK, DataAgrees, tables, bucket, Mutable
<1>1. CASE /\ UNCHANGED bucket
           /\ \/ session[u] = "none" /\ InsertSession(u, "created")
              \/ session[u] = "none" /\ InsertSession(u, "ready")
              \/ OrRefused(u, RecordPartRow(u, b))
              \/ OrRefused(u, CompleteRow(u))
              \/ OrRefused(u, AbortRow(u))
  BY <1>1 DEF InsertSession, OrRefused, RecordPartRow, CompleteRow, AbortRow,
              Monotone, SparesJobs, OnlyTouches
<1>2. CASE /\ UNCHANGED tables
           /\ \/ mp[u] = "none" /\ CreateMultipartUpload(u)
              \/ PutPart(u, b) \/ CompleteMultipartUpload(u, b) \/ AbortMultipartUpload(u)
  BY <1>2 DEF CreateMultipartUpload, PutPart, CompleteMultipartUpload, AbortMultipartUpload,
              RowFollowsObjects, Monotone, SparesJobs, OnlyTouches
<1>3. CASE DataUnchanged
  BY <1>3 DEF DataUnchanged, Monotone, SparesJobs, OnlyTouches
<1> QED BY <1>1, <1>2, <1>3

\* Steps that read only, or whose guard is the only thing they touch.
LEMMA UnchangedAgrees ==
    ASSUME TypeOK, DataAgrees, DataUnchanged
    PROVE  DataAgrees'
BY DEF DataAgrees, DataUnchanged, tables, bucket, JobFollowsSession, RowFollowsObjects,
       ReadySessionsAreServed, BlobRowsAreBacked, CasKeysAreTrue

\* How a call moves.
LEMMA CallMoves ==
    ASSUME CallsTypeOK, NEW c \in Client, NEW step \in CallStep
    PROVE  /\ Goto(c, step) => /\ call'[c] = [call[c] EXCEPT !.at = step]
                              /\ call'[c].at = step
                              /\ call'[c].upload = call[c].upload
                              /\ call'[c].body = call[c].body
                              /\ \A b \in Client : b # c => call'[b] = call[b]
           /\ Return(c) => /\ call'[c] = NoCall /\ call'[c].at = "idle" /\ call'[c].upload = None
                           /\ \A b \in Client : b # c => call'[b] = call[b]
<1>1. call[c] \in [at : CallStep, upload : Upload \cup {None}, body : Content \cup {None}]
  BY DEF CallsTypeOK
<1>2. ASSUME Goto(c, step)
      PROVE  /\ call'[c] = [call[c] EXCEPT !.at = step]
             /\ \A b \in Client : b # c => call'[b] = call[b]
  BY <1>2 DEF Goto, CallsTypeOK
<1>3. ASSUME Return(c)
      PROVE  call'[c] = NoCall /\ \A b \in Client : b # c => call'[b] = call[b]
  BY <1>3 DEF Return, CallsTypeOK
<1> QED BY <1>1, <1>2, <1>3 DEF NoCall

\* Every step of a call in progress preserves the invariant.
LEMMA CallInProgress ==
    ASSUME Inductive, NEW c \in Client, CallStepOf(c) \/ Interrupt(c), UNCHANGED work, TypeOK'
    PROVE  Inductive'
<1> DEFINE u == call[c].upload
           b == call[c].body
<1>0. /\ TypeOK /\ CallsTypeOK /\ DataAgrees /\ CallKnows(c)
      /\ u \in Upload /\ want[u] # None
      /\ b \in Content \cup {None}
  BY DEF Inductive, CallsKnow, CallKnows, TypeOK, CallsTypeOK, At, CallStepOf, Interrupt, BeginReady,
     BeginMultipart, BeginRow, BeginCleanup, PutPartObject, PutPartRow, CompleteObject, CompleteStat,
     CompleteSession, AbortObject, AbortStat, AbortSession, AbortRecoverSession
<1>1. ASSUME DataAgrees', CallKnows(c)', Monotone, SparesJobs, OnlyTouches(u),
             \A a \in Client : a # c => call'[a] = call[a],
             call'[c].upload \in {u, None}
      PROVE  Inductive'
  <2>1. CallsKnow' /\ WorkersKnow'
    BY <1>1, CallStepKeeps
  <2> QED BY <1>1, <2>1 DEF Inductive
<1>2. ASSUME Return(c), DataAgrees', Monotone, SparesJobs, OnlyTouches(u) PROVE Inductive'
  <2>1. /\ call'[c] = NoCall /\ call'[c].at = "idle" /\ call'[c].upload = None
        /\ \A a \in Client : a # c => call'[a] = call[a]
    BY <1>0, <1>2, CallMoves DEF CallStep
  <2> QED BY <1>1, <1>2, <2>1 DEF CallKnows
<1>3. ASSUME NEW step \in CallStep, Goto(c, step),
             DataAgrees', Monotone, SparesJobs, OnlyTouches(u),
             call[c].at \in Beginning \/ step \notin Beginning,
             call[c].at \notin Beginning \cup {"begin_cleanup"}
                \/ step \in Beginning \cup {"begin_cleanup"},
             step \in Beginning => session'[u] = "none",
             step \notin {"idle", "begin_mp", "begin_ready", "complete_object"},
             step = "begin_row" => mp'[u] = "open",
             step \in {"complete_row", "abort_recover_row"} => mp'[u] = "completed",
             step = "abort_stat" => session'[u] \notin Mutable \/ mp'[u] \in {"completed", "aborted"},
             step = "abort_row" => session'[u] \notin Mutable \/ mp'[u] = "aborted",
             call[c].at # "idle"
      PROVE  Inductive'
  <2>1. /\ call'[c].at = step /\ call'[c].upload = u
        /\ \A a \in Client : a # c => call'[a] = call[a]
    BY <1>0, <1>3, CallMoves
  <2>2. want'[u] # None
    BY <1>0, <1>3 DEF Monotone
  <2>3. session[u] # "none" => session'[u] # "none"
    BY <1>0, <1>3 DEF Monotone
  <2>4. CallKnows(c)'
    BY <1>0, <1>3, <2>1, <2>2, <2>3 DEF CallKnows, Beginning
  <2> QED BY <1>1, <1>3, <2>1, <2>4
<1> USE DEF At
<1>4. CASE BeginReady(c)
  <2>1. session[u] = "none" /\ blob[want[u].digest] = want[u].size
    BY <1>0, <1>4 DEF BeginReady, CallKnows, Beginning
  <2>2. CASE InsertSession(u, "ready") /\ UNCHANGED bucket
    BY <1>0, <1>2, <1>4, <2>1, <2>2, InsertAgrees, CallDataGuarantee DEF BeginReady
  <2>3. CASE DataUnchanged
    BY <1>0, <1>2, <1>4, <2>3, UnchangedAgrees, CallDataGuarantee DEF BeginReady
  <2> QED BY <1>4, <2>2, <2>3 DEF BeginReady, DataUnchanged
<1>5. CASE BeginMultipart(c)
  <2>1. session[u] = "none" /\ mp[u] = "none" /\ call[c].at = "begin_mp"
    BY <1>0, <1>5 DEF BeginMultipart, CallKnows, Beginning
  <2>2. CreateMultipartUpload(u) /\ UNCHANGED tables /\ Goto(c, "begin_row")
    BY <1>5 DEF BeginMultipart
  <2>3. DataAgrees' /\ Monotone /\ SparesJobs /\ OnlyTouches(u)
    BY <1>0, <2>1, <2>2, BucketStepAgrees, CallDataGuarantee
  <2>4. session'[u] = "none" /\ mp'[u] = "open"
    BY <1>0, <2>1, <2>2 DEF CreateMultipartUpload, tables, TypeOK, BucketTypeOK
  <2>5. "begin_row" \in CallStep
    BY DEF CallStep
  <2> QED BY <1>3, <2>1, <2>2, <2>3, <2>4, <2>5 DEF Beginning
<1>6. CASE BeginRow(c)
  <2>1. session[u] = "none" /\ mp[u] = "open" /\ call[c].at = "begin_row"
    BY <1>0, <1>6 DEF BeginRow, CallKnows, Beginning
  <2>2. DataAgrees' /\ Monotone /\ SparesJobs /\ OnlyTouches(u)
    <3>1. CASE InsertSession(u, "created") /\ UNCHANGED bucket
      BY <1>0, <2>1, <3>1, InsertAgrees, CallDataGuarantee
    <3>2. CASE DataUnchanged
      BY <1>0, <3>2, UnchangedAgrees, CallDataGuarantee
    <3> QED BY <1>6, <3>1, <3>2 DEF BeginRow, DataUnchanged
  <2>3. Return(c) \/ Goto(c, "begin_cleanup")
    BY <1>6 DEF BeginRow
  <2>4. "begin_cleanup" \in CallStep
    BY DEF CallStep
  <2> QED BY <1>2, <1>3, <2>1, <2>2, <2>3, <2>4 DEF Beginning
<1>7. CASE BeginCleanup(c)
  <2>1. CASE AbortMultipartUpload(u) /\ UNCHANGED tables
    BY <1>0, <1>2, <1>7, <2>1, BucketStepAgrees, CallDataGuarantee DEF BeginCleanup
  <2>2. CASE DataUnchanged
    BY <1>0, <1>2, <1>7, <2>2, UnchangedAgrees, CallDataGuarantee DEF BeginCleanup
  <2> QED BY <1>7, <2>1, <2>2 DEF BeginCleanup, DataUnchanged
<1>8. CASE PutPartObject(c)
  <2>1. CASE PutPart(u, b) /\ UNCHANGED tables /\ Goto(c, "put_row")
    <3>1. DataAgrees' /\ Monotone /\ SparesJobs /\ OnlyTouches(u)
      BY <1>0, <2>1, BucketStepAgrees, CallDataGuarantee
    <3>2. "put_row" \in CallStep
      BY DEF CallStep
    <3> QED BY <1>3, <1>8, <2>1, <3>1, <3>2 DEF PutPartObject, Beginning
  <2>2. CASE DataUnchanged /\ Return(c)
    BY <1>0, <1>2, <2>2, UnchangedAgrees, CallDataGuarantee
  <2> QED BY <1>8, <2>1, <2>2 DEF PutPartObject, DataUnchanged
<1>9. CASE PutPartRow(c)
  BY <1>0, <1>2, <1>9, RowStepAgrees, CallDataGuarantee DEF PutPartRow
<1>10. CASE CompleteObject(c)
  <2>1. session[u] # "none" /\ b # None /\ call[c].at = "complete_object"
    BY <1>0, <1>10 DEF CompleteObject, CallKnows, Beginning
  <2>2. CASE CompleteMultipartUpload(u, b) /\ UNCHANGED tables /\ Goto(c, "complete_row")
    <3>1. DataAgrees' /\ Monotone /\ SparesJobs /\ OnlyTouches(u)
      BY <1>0, <2>1, <2>2, BucketStepAgrees, CallDataGuarantee
    <3>2. "complete_row" \in CallStep
      BY DEF CallStep
    <3>3. mp'[u] = "completed"
      BY <1>0, <2>2 DEF CompleteMultipartUpload, TypeOK, BucketTypeOK
    <3> QED BY <1>3, <2>1, <2>2, <3>1, <3>2, <3>3 DEF Beginning
  <2>3. CASE DataUnchanged /\ (Return(c) \/ Goto(c, "complete_stat"))
    <3>1. DataAgrees' /\ Monotone /\ SparesJobs /\ OnlyTouches(u)
      BY <1>0, <2>3, UnchangedAgrees, CallDataGuarantee
    <3>2. "complete_stat" \in CallStep
      BY DEF CallStep
    <3> QED BY <1>2, <1>3, <2>1, <2>3, <3>1, <3>2 DEF Beginning
  <2> QED BY <1>10, <2>2, <2>3 DEF CompleteObject, DataUnchanged
<1>11. CASE CompleteStat(c)
  <2>1. DataUnchanged /\ DataAgrees' /\ Monotone /\ SparesJobs /\ OnlyTouches(u)
    BY <1>0, <1>11, UnchangedAgrees, CallDataGuarantee DEF CompleteStat, DataUnchanged
  <2>2. CASE StagedFits(u) /\ Goto(c, "complete_row")
    <3>1. mp'[u] = "completed"
      BY <1>0, <2>1, <2>2 DEF StagedFits, DataAgrees, RowFollowsObjects, DataUnchanged, bucket
    <3>2. "complete_row" \in CallStep
      BY DEF CallStep
    <3> QED BY <1>3, <1>11, <2>1, <2>2, <3>1, <3>2 DEF CompleteStat, Beginning
  <2>3. CASE Return(c)
    BY <1>2, <2>1, <2>3
  <2> QED BY <1>11, <2>2, <2>3 DEF CompleteStat
<1>12. CASE CompleteSession(c)
  <2>1. mp[u] = "completed"
    BY <1>0, <1>12 DEF CompleteSession, CallKnows
  <2> QED BY <1>0, <1>2, <1>12, <2>1, RowStepAgrees, CallDataGuarantee DEF CompleteSession
<1>13. CASE AbortObject(c)
  <2>1. session[u] # "none" /\ call[c].at = "abort_object"
    BY <1>0, <1>13 DEF AbortObject, CallKnows, Beginning
  <2>2. CASE AbortMultipartUpload(u) /\ UNCHANGED tables /\ Goto(c, "abort_row")
    <3>1. DataAgrees' /\ Monotone /\ SparesJobs /\ OnlyTouches(u)
      BY <1>0, <2>2, BucketStepAgrees, CallDataGuarantee
    <3>2. "abort_row" \in CallStep
      BY DEF CallStep
    <3>3. mp'[u] = "aborted"
      BY <1>0, <2>2 DEF AbortMultipartUpload, TypeOK, BucketTypeOK
    <3> QED BY <1>3, <2>1, <2>2, <3>1, <3>2, <3>3 DEF Beginning
  <2>3. CASE mp[u] # "open" /\ DataUnchanged /\ Goto(c, "abort_stat")
    <3>1. DataAgrees' /\ Monotone /\ SparesJobs /\ OnlyTouches(u)
      BY <1>0, <2>3, UnchangedAgrees, CallDataGuarantee
    <3>2. "abort_stat" \in CallStep
      BY DEF CallStep
    <3>3. session'[u] \notin Mutable \/ mp'[u] \in {"completed", "aborted"}
      BY <1>0, <2>1, <2>3 DEF DataAgrees, RowFollowsObjects, TypeOK, BucketTypeOK, DataUnchanged,
         tables, bucket
    <3> QED BY <1>3, <2>1, <2>3, <3>1, <3>2, <3>3 DEF Beginning
  <2> QED BY <1>13, <2>2, <2>3 DEF AbortObject, DataUnchanged
<1>14. CASE AbortStat(c)
  <2>1. DataUnchanged /\ DataAgrees' /\ Monotone /\ SparesJobs /\ OnlyTouches(u)
    BY <1>0, <1>14, UnchangedAgrees, CallDataGuarantee DEF AbortStat, DataUnchanged
  <2>2. session[u] # "none" /\ call[c].at = "abort_stat"
    BY <1>0, <1>14 DEF AbortStat, CallKnows, Beginning
  <2>3. CASE staged[u] = None /\ Goto(c, "abort_row")
    <3>1. session[u] \notin Mutable \/ mp[u] = "aborted"
      BY <1>0, <2>2, <2>3 DEF CallKnows, DataAgrees, RowFollowsObjects
    <3>2. session'[u] = session[u] /\ mp'[u] = mp[u] /\ "abort_row" \in CallStep
      BY <2>1 DEF DataUnchanged, tables, bucket, CallStep
    <3> QED BY <1>3, <2>1, <2>2, <2>3, <3>1, <3>2 DEF Beginning
  <2>4. CASE StagedFits(u) /\ Goto(c, "abort_recover_row")
    <3>1. mp'[u] = "completed"
      BY <1>0, <2>1, <2>4 DEF StagedFits, DataAgrees, RowFollowsObjects, DataUnchanged, bucket
    <3>2. "abort_recover_row" \in CallStep
      BY DEF CallStep
    <3> QED BY <1>3, <2>1, <2>2, <2>4, <3>1, <3>2 DEF Beginning
  <2>5. CASE Return(c)
    BY <1>2, <2>1, <2>5
  <2> QED BY <1>14, <2>3, <2>4, <2>5 DEF AbortStat
<1>15. CASE AbortSession(c)
  <2>1. session[u] \notin Mutable \/ mp[u] = "aborted"
    BY <1>0, <1>15 DEF AbortSession, CallKnows
  <2> QED BY <1>0, <1>2, <1>15, <2>1, RowStepAgrees, CallDataGuarantee DEF AbortSession
<1>16. CASE AbortRecoverSession(c)
  <2>1. mp[u] = "completed"
    BY <1>0, <1>16 DEF AbortRecoverSession, CallKnows
  <2> QED BY <1>0, <1>2, <1>16, <2>1, RowStepAgrees, CallDataGuarantee DEF AbortRecoverSession
<1>17. CASE Interrupt(c)
  BY <1>0, <1>2, <1>17, UnchangedAgrees, CallDataGuarantee DEF Interrupt, DataUnchanged
<1> QED BY <1>4, <1>5, <1>6, <1>7, <1>8, <1>9, <1>10, <1>11, <1>12, <1>13, <1>14, <1>15, <1>16, <1>17
        DEF CallStepOf

\* A new call knows what its first request told it.
LEMMA CallEntered ==
    ASSUME Inductive, NEW c \in Client, NewCall(c), UNCHANGED work, TypeOK'
    PROVE  Inductive'
<1>0. TypeOK /\ CallsTypeOK /\ DataAgrees /\ CallsKnow
  BY DEF Inductive, TypeOK
<1>1. ASSUME NEW v \in Upload, NEW b \in Content \cup {None}, NEW step \in CallStep,
             Enter(c, step, v, b), step # "idle", DataAgrees', Monotone, SparesJobs, OnlyTouches(None),
             want'[v] # None,
             step \in Beginning => /\ want[v] = None
                                   /\ session'[v] = "none",
             step \notin Beginning => session[v] # "none",
             step = "begin_mp" => mp'[v] = "none",
             step = "begin_ready" => blob'[want'[v].digest] = want'[v].size,
             step = "complete_object" => b # None,
             step \notin {"begin_row", "begin_cleanup", "complete_row", "abort_recover_row",
                          "abort_stat", "abort_row"}
      PROVE  Inductive'
  <2>1. /\ call[c].at = "idle" /\ call[c].upload = None
        /\ call'[c].at = step /\ call'[c].upload = v /\ call'[c].body = b
        /\ \A a \in Client : a # c => call'[a] = call[a]
    BY <1>0, <1>1 DEF Enter, CallsTypeOK, CallsKnow, CallKnows, NoCall
  <2>2. want[v] = None => \A a \in Client : call[a].upload # v
    BY <1>0, NoneAssumption DEF CallsKnow, CallKnows, NoCall
  <2>3. session[v] # "none" => session'[v] # "none"
    BY <1>1 DEF Monotone
  <2>4. CallKnows(c)'
    BY <1>1, <2>1, <2>2, <2>3 DEF CallKnows, Beginning
  <2>5. CallsKnow' /\ WorkersKnow'
    BY <1>1, <2>1, <2>4, CallStepKeeps
  <2> QED BY <1>1, <2>5 DEF Inductive
<1>2. ASSUME NEW v \in Upload, NEW e \in Expectation, BeginUpload(c, v, e) PROVE Inductive'
  <2>0. e # None /\ e.digest \in Content /\ e.size \in Nat
    BY ExpectationAssumption, NoneAssumption
  <2>1. /\ want[v] = None /\ want' = [want EXCEPT ![v] = e]
        /\ UNCHANGED <<session, expired, partRow, job, lockedBy, blob, bucket>>
    BY <1>2 DEF BeginUpload
  <2>2. session[v] = "none" /\ mp[v] = "none" /\ want'[v] = e
    BY <1>0, <2>1 DEF DataAgrees, RowFollowsObjects, TypeOK, TablesTypeOK
  <2>3. DataAgrees'
    BY <1>0, <2>0, <2>1, <2>2 DEF DataAgrees, JobFollowsSession, RowFollowsObjects,
       ReadySessionsAreServed, BlobRowsAreBacked, CasKeysAreTrue, TypeOK, TablesTypeOK, bucket
  <2>4. Monotone /\ SparesJobs /\ OnlyTouches(None)
    BY <1>0, <2>1 DEF Monotone, SparesJobs, OnlyTouches, TypeOK, TablesTypeOK, bucket
  <2>5. session'[v] = "none" /\ mp'[v] = "none" /\ blob' = blob
    BY <2>1, <2>2 DEF bucket
  <2>6. CASE TrustedSize(e) = e.size /\ Enter(c, "begin_ready", v, None)
    BY <1>1, <2>0, <2>1, <2>2, <2>3, <2>4, <2>5, <2>6 DEF TrustedSize, Beginning, CallStep
  <2>7. CASE Enter(c, "begin_mp", v, None)
    BY <1>1, <2>0, <2>1, <2>2, <2>3, <2>4, <2>5, <2>7 DEF Beginning, CallStep
  <2> QED BY <1>2, <2>6, <2>7 DEF BeginUpload
<1>3. ASSUME NEW v \in Upload, NEW b \in Content \cup {None}, UNCHANGED <<tables, bucket>>,
             session[v] \in Mutable,
             \/ Enter(c, "put_object", v, b)
             \/ Enter(c, "complete_stat", v, b)
             \/ b # None /\ Enter(c, "complete_object", v, b)
             \/ Enter(c, "abort_object", v, b)
      PROVE  Inductive'
  <2>1. DataAgrees'
    BY <1>0, <1>3, UnchangedAgrees DEF DataUnchanged
  <2>2. Monotone /\ SparesJobs /\ OnlyTouches(None)
    BY <1>0, <1>3, CallDataGuarantee DEF DataUnchanged
  <2>3. session[v] # "none" /\ want'[v] # None
    BY <1>0, <1>3 DEF Mutable, DataAgrees, RowFollowsObjects, tables
  <2> QED BY <1>1, <1>3, <2>1, <2>2, <2>3 DEF Beginning, CallStep
<1>4. ASSUME NEW v \in Upload, NEW b \in Content, PutUploadPart(c, v, b) PROVE Inductive'
  BY <1>3, <1>4 DEF PutUploadPart, AcceptsParts
<1>5. ASSUME NEW v \in Upload, NEW b \in Content, CompleteUpload(c, v, b) PROVE Inductive'
  BY <1>3, <1>5, NoneAssumption DEF CompleteUpload
<1>6. ASSUME NEW v \in Upload, AbortUpload(c, v) PROVE Inductive'
  BY <1>3, <1>6 DEF AbortUpload
<1> QED BY <1>2, <1>4, <1>5, <1>6 DEF NewCall

\* The clock changes nothing the invariant mentions.
LEMMA ExpireKeeps ==
    ASSUME Inductive, NEW v \in Upload, Expire(v), UNCHANGED work
    PROVE  Inductive'
<1>1. UNCHANGED <<session, want, partRow, job, lockedBy, blob, mp, mpPart, staged, cas, call, work>>
      /\ expired' \in [Upload -> BOOLEAN]
  BY DEF Expire, bucket, Inductive, TypeOK, TablesTypeOK
<1>2. TypeOK'
  BY <1>1 DEF Inductive, TypeOK, TablesTypeOK, BucketTypeOK, CallsTypeOK, WorkTypeOK
<1>3. DataAgrees'
  BY <1>1 DEF Inductive, DataAgrees, JobFollowsSession, RowFollowsObjects,
     ReadySessionsAreServed, BlobRowsAreBacked, CasKeysAreTrue
<1>4. CallsKnow'
  BY <1>1 DEF Inductive, CallsKnow, CallKnows
<1>5. WorkersKnow'
  BY <1>1 DEF Inductive, WorkersKnow, WorkerKnows, OneWorkerPerJob
<1> QED BY <1>2, <1>3, <1>4, <1>5 DEF Inductive

-----------------------------------------------------------------------------
(* The workers.                                                             *)

\* A worker step disturbs no call, and no worker of another upload.
LEMMA WorkStepKeeps ==
    ASSUME Inductive, NEW w \in Worker, NEW u \in Upload,
           TypeOK', DataAgrees', Monotone, UNCHANGED <<want, mp, call>>,
           session[u] # "none",
           \A v \in Upload : v # u => session'[v] = session[v] /\ staged'[v] = staged[v],
           \A x \in Worker : x # w => /\ work'[x] = work[x]
                                      /\ work[x].at # "idle" => work[x].upload # u,
           work'[w].at # "idle" => work'[w].upload = u,
           WorkerKnows(w)'
    PROVE  Inductive'
<1> USE DEF Inductive, CallsKnow, WorkersKnow
<1>1. ASSUME NEW c \in Client PROVE CallKnows(c)'
  <2>1. call[c].at \in Beginning => /\ call[c].upload \in Upload
                                    /\ session[call[c].upload] = "none"
                                    /\ \A b \in Client : b # c => call[b].upload # call[c].upload
    BY DEF CallKnows, Beginning
  <2> QED BY <2>1, CallKept
<1>2. ASSUME NEW x \in Worker, x # w PROVE WorkerKnows(x)'
  <2>1. work[x].at # "idle" => work[x].upload \in Upload /\ work[x].upload # u
    BY <1>2 DEF WorkerKnows
  <2> QED BY <1>2, <2>1, WorkerKept
<1>3. OneWorkerPerJob'
  BY DEF OneWorkerPerJob
<1> QED BY <1>1, <1>2, <1>3

\* How a worker moves.
LEMMA WorkMoves ==
    ASSUME WorkTypeOK, NEW w \in Worker, NEW step \in WorkStep
    PROVE  /\ Then(w, step) => /\ work'[w].at = step
                               /\ work'[w].upload = work[w].upload
                               /\ work'[w].etag = work[w].etag
                               /\ \A x \in Worker : x # w => work'[x] = work[x]
           /\ Stop(w) => /\ work'[w].at = "idle"
                         /\ \A x \in Worker : x # w => work'[x] = work[x]
<1>1. work[w] \in [at : WorkStep, upload : Upload \cup {None}, etag : BOOLEAN]
  BY DEF WorkTypeOK
<1>2. ASSUME Then(w, step)
      PROVE  /\ work'[w] = [work[w] EXCEPT !.at = step]
             /\ \A x \in Worker : x # w => work'[x] = work[x]
  BY <1>2 DEF Then, WorkTypeOK
<1>3. ASSUME Stop(w)
      PROVE  work'[w] = NoWork /\ \A x \in Worker : x # w => work'[x] = work[x]
  BY <1>3 DEF Stop, WorkTypeOK
<1> QED BY <1>1, <1>2, <1>3 DEF NoWork

\* Every step of a worker preserves the invariant.
LEMMA WorkerStep ==
    ASSUME Inductive, NEW w \in Worker, WorkNext(w), UNCHANGED call, TypeOK'
    PROVE  Inductive'
<1> DEFINE u == work[w].upload
           d == want[u].digest
<1>0. /\ TypeOK /\ WorkTypeOK /\ DataAgrees /\ WorkersKnow
      /\ WorkerKnows(w)
  BY DEF Inductive, WorkersKnow, TypeOK
<1>1. ASSUME NEW v \in Upload, ClaimIngestJob(w, v) PROVE Inductive'
  <2>1. session[v] = "completed" /\ ClaimJobRow(v, w) /\ UNCHANGED bucket
    BY <1>1 DEF ClaimIngestJob, ClaimJobRow
  <2>2. DataAgrees' /\ Monotone
    BY <1>0, <2>1, ClaimAgrees DEF ClaimJobRow, Monotone, Mutable, bucket, TypeOK, TablesTypeOK
  <2>3. /\ session'[v] = "ingesting" /\ want[v] # None /\ want' = want /\ mp' = mp /\ staged' = staged
        /\ \A x \in Upload : x # v => session'[x] = session[x]
    BY <1>0, <2>1 DEF ClaimJobRow, TypeOK, TablesTypeOK, DataAgrees, RowFollowsObjects, bucket
  <2>4. /\ work'[w] = [at |-> "verify", upload |-> v, etag |-> TRUE]
        /\ \A x \in Worker : x # w => work'[x] = work[x]
    BY <1>0, <1>1 DEF ClaimIngestJob, WorkTypeOK
  <2>5. \A x \in Worker : work[x].at # "idle" => work[x].upload # v
    BY <1>0, <2>1 DEF WorkersKnow, WorkerKnows
  <2>6. WorkerKnows(w)'
    BY <2>3, <2>4 DEF WorkerKnows, Committing
  <2> QED BY <2>1, <2>2, <2>3, <2>4, <2>5, <2>6, WorkStepKeeps
<1>2. ASSUME work[w].at # "idle"
      PROVE  /\ u \in Upload /\ want[u] # None /\ session[u] # "none"
             /\ d \in Content /\ want[u].size \in Nat
             /\ \A x \in Worker : x # w /\ work[x].at # "idle" => work[x].upload # u
             /\ work[w].at # "cleanup" => session[u] = "ingesting" /\ staged[u] # None
             /\ work[w].at \in Committing => staged[u] = d /\ Size[d] = want[u].size
             /\ blob[d] # None => cas[d] = d /\ blob[d] = Size[d]
             /\ cas[d] \in {None, d}
  <2>1. u \in Upload /\ want[u] # None
    BY <1>0, <1>2 DEF WorkerKnows
  <2>2. d \in Content /\ want[u].size \in Nat
    BY <1>0, <2>1, ExpectationAssumption DEF TypeOK, TablesTypeOK
  <2> QED BY <1>0, <1>2, <2>1, <2>2 DEF WorkerKnows, WorkersKnow, OneWorkerPerJob, Meets,
             DataAgrees, RowFollowsObjects, BlobRowsAreBacked, CasKeysAreTrue
<1>3. ASSUME work[w].at # "idle", DataAgrees', Monotone, UNCHANGED <<want, mp>>,
             \A v \in Upload : v # u => session'[v] = session[v] /\ staged'[v] = staged[v],
             Stop(w)
      PROVE  Inductive'
  <2>1. work'[w].at = "idle" /\ \A x \in Worker : x # w => work'[x] = work[x]
    BY <1>0, <1>3, WorkMoves DEF WorkStep
  <2>2. WorkerKnows(w)'
    BY <2>1 DEF WorkerKnows
  <2> QED BY <1>2, <1>3, <2>1, <2>2, WorkStepKeeps
<1>4. ASSUME work[w].at # "idle", DataAgrees', Monotone, UNCHANGED <<want, mp>>,
             \A v \in Upload : v # u => session'[v] = session[v] /\ staged'[v] = staged[v],
             NEW step \in WorkStep, Then(w, step),
             step = "cleanup" => session'[u] \in {"ready", "failed"},
             step # "cleanup" => session'[u] = "ingesting",
             step \in Committing => Meets(staged'[u], want[u]),
             step = "succeed" => cas'[d] = d,
             step = "fail" => BlankETag \/ ~Meets(staged'[u], want[u])
      PROVE  Inductive'
  <2>1. /\ work'[w].at = step /\ work'[w].upload = u /\ work'[w].etag = work[w].etag
        /\ \A x \in Worker : x # w => work'[x] = work[x]
    BY <1>0, <1>4, WorkMoves
  <2>2. want' = want
    BY <1>4
  <2>3. BlankETag \/ work[w].etag
    BY <1>0, <1>4 DEF WorkerKnows
  <2>4. WorkerKnows(w)'
    BY <1>2, <1>4, <2>1, <2>2, <2>3 DEF WorkerKnows
  <2> QED BY <1>2, <1>4, <2>1, <2>4, WorkStepKeeps
<1>5. ASSUME DataUnchanged
      PROVE  /\ DataAgrees' /\ Monotone /\ UNCHANGED <<want, mp, session, staged, cas>>
             /\ \A v \in Upload : v # u => session'[v] = session[v] /\ staged'[v] = staged[v]
  BY <1>0, <1>5, UnchangedAgrees DEF DataUnchanged, Monotone, tables, bucket
<1> USE DEF Doing
<1>6. CASE VerifyStagedUpload(w)
  <2>1. /\ DataUnchanged /\ work[w].at = "verify" /\ work[w].at # "cleanup"
        /\ "fail" \in WorkStep /\ "copy" \in WorkStep
    BY <1>6 DEF VerifyStagedUpload, DataUnchanged, WorkStep
  <2>2. CASE ~Meets(staged[u], want[u]) /\ Then(w, "fail")
    BY <1>2, <1>4, <1>5, <2>1, <2>2 DEF Committing
  <2>3. CASE Meets(staged[u], want[u]) /\ Then(w, "copy")
    BY <1>2, <1>4, <1>5, <2>1, <2>3 DEF Committing
  <2>4. CASE /\ BlankETag /\ Meets(staged[u], want[u])
             /\ work' = [work EXCEPT ![w].at = "recover", ![w].etag = FALSE]
    <3>1. work[w] \in [at : WorkStep, upload : Upload \cup {None}, etag : BOOLEAN]
      BY <1>0 DEF WorkTypeOK
    <3>2. /\ work'[w].at = "recover" /\ work'[w].upload = u
          /\ \A x \in Worker : x # w => work'[x] = work[x]
      BY <1>0, <2>4, <3>1 DEF WorkTypeOK
    <3>3. WorkerKnows(w)'
      BY <1>2, <1>5, <2>1, <2>4, <3>2 DEF WorkerKnows, Meets
    <3> QED BY <1>2, <1>5, <2>1, <3>2, <3>3, WorkStepKeeps
  <2> QED BY <1>2, <1>6, <2>1, <2>2, <2>3, <2>4 DEF VerifyStagedUpload
<1>7. CASE CopyToCAS(w)
  <2>1. /\ work[w].at = "copy" /\ session[u] = "ingesting" /\ staged[u] = d /\ Size[d] = want[u].size
        /\ Meets(staged[u], want[u]) /\ d # None /\ u \in Upload /\ want[u] # None
    BY <1>2, <1>7, NoneAssumption DEF CopyToCAS, Committing, Meets
  <2>2. CASE CopyObject(u, d, d) /\ Then(w, "succeed") /\ UNCHANGED tables
    <3>1. DataAgrees'
      BY <1>0, <2>1, <2>2, WorkBucketAgrees
    <3>2. Monotone /\ UNCHANGED <<want, mp, session, staged>> /\ cas'[d] = d
      BY <1>0, <1>2, <2>1, <2>2 DEF CopyObject, Monotone, tables, TypeOK, BucketTypeOK
    <3> QED BY <1>4, <2>1, <2>2, <3>1, <3>2 DEF WorkStep
  <2>3. CASE DataUnchanged /\ Then(w, "recover")
    BY <1>4, <1>5, <2>1, <2>3 DEF WorkStep
  <2>4. CASE DataUnchanged /\ Stop(w)
    BY <1>3, <1>5, <2>1, <2>4
  <2> QED BY <1>7, <2>2, <2>3, <2>4 DEF CopyToCAS, DataUnchanged
<1>8. ASSUME work[w].at \in Committing, DataUnchanged, NEW step \in {"stat_cas", "read_cas", "succeed", "fail"},
             Then(w, step), step = "succeed" => cas[d] = d, step = "fail" => BlankETag
      PROVE  Inductive'
  <2>1. work[w].at # "idle" /\ work[w].at # "cleanup" /\ step \in WorkStep
    BY <1>8 DEF Committing, WorkStep
  <2>2. Meets(staged[u], want[u]) /\ session[u] = "ingesting"
    BY <1>2, <1>8, <2>1 DEF Meets
  <2> QED BY <1>4, <1>5, <1>8, <2>1, <2>2
<1>9. CASE RecoverCASObject(w)
  <2>1. /\ work[w].at = "recover" /\ work[w].at \in Committing /\ DataUnchanged
        /\ blob[d] \in {None, want[u].size}
    BY <1>2, <1>9 DEF RecoverCASObject, Committing, DataUnchanged
  <2> QED BY <1>8, <1>9, <2>1 DEF RecoverCASObject, TrustedSize
<1>10. CASE StatCASObject(w) \/ ReadCASObject(w)
  <2>1. /\ work[w].at \in {"stat_cas", "read_cas"} /\ work[w].at \in Committing /\ DataUnchanged
        /\ Meets(staged[u], want[u]) /\ Size[d] = want[u].size
        /\ cas[d] # None => cas[d] = d
        /\ BlankETag \/ work[w].etag
    BY <1>0, <1>2, <1>10 DEF StatCASObject, ReadCASObject, Committing, DataUnchanged, WorkerKnows
  <2>2. CASE CASObjectMissing(w)
    <3>1. Stop(w) \/ (BlankETag /\ Then(w, "fail"))
      BY <2>1, <2>2 DEF CASObjectMissing
    <3> QED BY <1>3, <1>5, <1>8, <2>1, <3>1
  <2>3. CASE cas[d] # None /\ Then(w, "succeed")
    BY <1>8, <2>1, <2>3
  <2> QED BY <1>10, <2>1, <2>2, <2>3 DEF StatCASObject, ReadCASObject, Meets
<1>11. CASE SucceedIngestJob(w)
  <2>1. /\ work[w].at = "succeed" /\ Meets(staged[u], want[u]) /\ cas[d] = d
        /\ u \in Upload /\ want[u] # None
    BY <1>0, <1>2, <1>11 DEF SucceedIngestJob, WorkerKnows, Committing
  <2>2. CASE SucceedJobRow(u) /\ Then(w, "cleanup") /\ UNCHANGED bucket
    <3>1. DataAgrees'
      BY <1>0, <2>1, <2>2, SucceedAgrees
    <3>2. /\ session'[u] = "ready" /\ UNCHANGED <<want, mp, staged, cas>>
          /\ \A v \in Upload : v # u => session'[v] = session[v]
      BY <1>0, <2>1, <2>2 DEF SucceedJobRow, TypeOK, TablesTypeOK, bucket
    <3>3. Monotone
      <4>1. \A x \in Content : blob[x] # None => blob'[x] = blob[x]
        BY <1>0, <1>2, <2>1, <2>2 DEF SucceedJobRow, StoredSize, TypeOK, TablesTypeOK
      <4> QED BY <2>1, <3>2, <4>1 DEF Monotone, Mutable
    <3> QED BY <1>4, <2>1, <2>2, <3>1, <3>2, <3>3 DEF WorkStep, Committing
  <2>3. CASE DataUnchanged /\ Stop(w)
    BY <1>3, <1>5, <2>1, <2>3
  <2> QED BY <1>11, <2>2, <2>3 DEF SucceedIngestJob, DataUnchanged
<1>12. CASE FailIngestJob(w)
  <2>1. work[w].at = "fail" /\ u \in Upload
    BY <1>2, <1>12 DEF FailIngestJob
  <2>2. CASE FailJobRow(u) /\ Then(w, "cleanup") /\ UNCHANGED bucket
    <3>1. DataAgrees'
      BY <1>0, <2>1, <2>2, FailAgrees
    <3>2. /\ session'[u] = "failed" /\ UNCHANGED <<want, mp, staged, cas, blob>>
          /\ \A v \in Upload : v # u => session'[v] = session[v]
      BY <1>0, <2>1, <2>2 DEF FailJobRow, TypeOK, TablesTypeOK, bucket
    <3>3. Monotone
      BY <2>1, <3>2 DEF Monotone, Mutable
    <3> QED BY <1>4, <2>1, <2>2, <3>1, <3>2, <3>3 DEF WorkStep, Committing
  <2>3. CASE DataUnchanged /\ Stop(w)
    BY <1>3, <1>5, <2>1, <2>3
  <2> QED BY <1>12, <2>2, <2>3 DEF FailIngestJob, DataUnchanged
<1>13. CASE CleanupStaging(w)
  <2>1. work[w].at = "cleanup" /\ session[u] \in {"ready", "failed"} /\ u \in Upload
    BY <1>0, <1>2, <1>13 DEF CleanupStaging, WorkerKnows
  <2>2. CASE DeleteObject(u) /\ Stop(w) /\ UNCHANGED tables
    <3>1. DataAgrees'
      BY <1>0, <2>1, <2>2, WorkBucketAgrees
    <3>2. /\ Monotone /\ UNCHANGED <<want, mp, session>>
          /\ \A v \in Upload : v # u => staged'[v] = staged[v]
      BY <1>0, <2>1, <2>2 DEF DeleteObject, Monotone, tables, TypeOK, BucketTypeOK
    <3> QED BY <1>3, <2>1, <2>2, <3>1, <3>2
  <2>3. CASE DataUnchanged /\ Stop(w)
    BY <1>3, <1>5, <2>1, <2>3
  <2> QED BY <1>13, <2>2, <2>3 DEF CleanupStaging, DataUnchanged
<1>14. CASE WorkerError(w)
  BY <1>3, <1>5, <1>14 DEF WorkerError, DataUnchanged
<1> QED BY <1>1, <1>6, <1>7, <1>9, <1>10, <1>11, <1>12, <1>13, <1>14 DEF WorkNext, WorkStepOf

-----------------------------------------------------------------------------
(* The theorems.                                                            *)

\* No rows, no objects, no calls and no work agree trivially.
LEMMA InductiveInit == Init => Inductive
<1> SUFFICES ASSUME Init PROVE Inductive
  OBVIOUS
<1>1. TypeOK
  BY TypeInit
<1> USE DEF Init, TablesInit, BucketInit, CallsInit, WorkInit
<1>2. DataAgrees
  BY DEF DataAgrees, JobFollowsSession, RowFollowsObjects, ReadySessionsAreServed,
     BlobRowsAreBacked, CasKeysAreTrue, Mutable
<1>3. CallsKnow
  BY DEF CallsKnow, CallKnows, NoCall
<1>4. WorkersKnow
  BY DEF WorkersKnow, WorkerKnows, OneWorkerPerJob, NoWork
<1> QED BY <1>1, <1>2, <1>3, <1>4 DEF Inductive

\* One step of the whole system.
LEMMA InductiveNext == Inductive /\ [Next]_vars => Inductive'
<1> SUFFICES ASSUME Inductive, [Next]_vars PROVE Inductive'
  OBVIOUS
<1>0. TypeOK /\ WorkersKnow
  BY DEF Inductive
<1>1. ASSUME NEW c \in Client, CallNext(c), UNCHANGED work PROVE Inductive'
  <2>1. TypeOK'
    BY <1>0, <1>1, TypeCall
  <2> QED BY <1>1, <2>1, CallEntered, CallInProgress DEF CallNext
<1>2. ASSUME NEW v \in Upload, Expire(v), UNCHANGED work PROVE Inductive'
  BY <1>2, ExpireKeeps
<1>3. ASSUME NEW w \in Worker, WorkNext(w), UNCHANGED call PROVE Inductive'
  <2>1. TypeOK'
    BY <1>0, <1>3, TypeWork
  <2> QED BY <1>3, <2>1, WorkerStep
<1>4. CASE UNCHANGED vars
  <2>1. TypeOK'
    BY <1>0, <1>4 DEF vars, tables, bucket, TypeOK, TablesTypeOK, BucketTypeOK, CallsTypeOK, WorkTypeOK
  <2>2. DataAgrees'
    BY <1>4, UnchangedAgrees DEF vars, DataUnchanged, Inductive
  <2>3. CallsKnow' /\ WorkersKnow'
    BY <1>4 DEF vars, tables, bucket, Inductive, CallsKnow, CallKnows, WorkersKnow, WorkerKnows,
       OneWorkerPerJob
  <2> QED BY <2>1, <2>2, <2>3 DEF Inductive
<1> QED BY <1>1, <1>2, <1>3, <1>4 DEF Next

\* The inductive invariant holds for every number of uploads, clients, workers and
\* contents, whatever the calls and workers of imgsrv do and wherever they stop.
THEOREM InductiveHolds == Spec => []Inductive
<1>1. Inductive /\ [Next]_vars => Inductive'
  BY InductiveNext
<1> QED BY InductiveInit, <1>1, PTL DEF Spec

\* Every row, object, call and worker of the upload path keeps its type.
THEOREM TypeCorrect == Spec => []TypeOK
<1>1. Inductive => TypeOK
  BY DEF Inductive
<1> QED BY InductiveHolds, <1>1, PTL

\* No session ever waits for an ingest job that does not exist, and no job outlives
\* the decision of its session (CompleteSession and the ingest transactions).
THEOREM JobsFollowSessions == Spec => []JobFollowsSession
<1>1. Inductive => JobFollowsSession
  BY DEF Inductive, DataAgrees
<1> QED BY InductiveHolds, <1>1, PTL

\* Every trusted blob row names an object with that digest and that size.
THEOREM BlobsAreBacked == Spec => []BlobRowsAreBacked
<1>1. Inductive => BlobRowsAreBacked
  BY DEF Inductive, DataAgrees
<1> QED BY InductiveHolds, <1>1, PTL

\* Every ready upload can be downloaded with the digest and size it announced.
THEOREM ReadyIsServed == Spec => []ReadySessionsAreServed
<1>1. Inductive => ReadySessionsAreServed
  BY DEF Inductive, DataAgrees
<1> QED BY InductiveHolds, <1>1, PTL

\* Abort, expiry and cleanup never take the bytes of a completed upload away before
\* its job is decided.
THEOREM PromisesAreStaged == Spec => []PromisedBytesAreStaged
<1>1. Inductive => PromisedBytesAreStaged
  BY DEF Inductive, DataAgrees, RowFollowsObjects, PromisedBytesAreStaged
<1> QED BY InductiveHolds, <1>1, PTL

\* An aborted upload holds no multipart upload, no staged object and no job.
THEOREM AbortsAreClean == Spec => []AbortedLeavesNothing
<1>1. Inductive => AbortedLeavesNothing
  <2> SUFFICES ASSUME Inductive, NEW u \in Upload, session[u] = "aborted"
               PROVE  mp[u] = "aborted" /\ staged[u] = None /\ job[u] = "none"
    BY DEF AbortedLeavesNothing
  <2>1. mp[u] = "aborted" /\ staged[u] = None
    BY DEF Inductive, DataAgrees, RowFollowsObjects
  <2>2. job[u] \in JobState \cup {"none"}
    BY DEF Inductive, TypeOK, TablesTypeOK
  <2>3. job[u] = "none"
    BY <2>2 DEF Inductive, DataAgrees, JobFollowsSession, JobState
  <2> QED BY <2>1, <2>3
<1> QED BY InductiveHolds, <1>1, PTL

\* No two workers ever hold the same ingest job.
THEOREM JobsHaveOneWorker == Spec => []OneWorkerPerJob
<1>1. Inductive => OneWorkerPerJob
  BY DEF Inductive, WorkersKnow
<1> QED BY InductiveHolds, <1>1, PTL

-----------------------------------------------------------------------------
(* What a step may never do.                                                *)

\* What one step of the system can do to the rows and objects of upload u.
DataStep(u) ==
    \/ UNCHANGED <<session, blob, bucket>>
    \/ /\ session[u] = "none"
       /\ want[u] \in Expectation
       /\ \/ InsertSession(u, "created")
          \/ InsertSession(u, "ready") /\ blob[want[u].digest] = want[u].size
       /\ UNCHANGED bucket
    \/ (\E b : RecordPartRow(u, b)) /\ UNCHANGED bucket
    \/ (CompleteRow(u) \/ AbortRow(u)) /\ UNCHANGED bucket
    \/ CreateMultipartUpload(u) /\ UNCHANGED tables
    \/ (\E b : PutPart(u, b) \/ CompleteMultipartUpload(u, b)) /\ UNCHANGED tables
    \/ AbortMultipartUpload(u) /\ UNCHANGED tables
    \/ (\E w : ClaimJobRow(u, w)) /\ UNCHANGED bucket
    \/ want[u].digest \in Content /\ CopyObject(u, want[u].digest, want[u].digest) /\ UNCHANGED tables
    \/ /\ want[u].digest \in Content
       /\ Meets(staged[u], want[u])
       /\ cas[want[u].digest] = want[u].digest
       /\ SucceedJobRow(u)
       /\ UNCHANGED bucket
    \/ /\ staged[u] # None
       /\ BlankETag \/ ~Meets(staged[u], want[u])
       /\ FailJobRow(u)
       /\ UNCHANGED bucket
    \/ session[u] \in {"ready", "failed"} /\ DeleteObject(u) /\ UNCHANGED tables

\* Every step of the system is one of these, on one upload.
LEMMA StepsAreDataSteps ==
    ASSUME Inductive, [Next]_vars
    PROVE  UNCHANGED <<session, blob, bucket>> \/ \E u \in Upload : DataStep(u)
<1>1. ASSUME NEW c \in Client, CallNext(c)
      PROVE  UNCHANGED <<session, blob, bucket>> \/ \E u \in Upload : DataStep(u)
  <2>1. CASE NewCall(c)
    BY <2>1 DEF NewCall, BeginUpload, PutUploadPart, CompleteUpload, AbortUpload, tables
  <2>2. CASE CallStepOf(c)
    <3>1. /\ call[c].upload \in Upload
          /\ want[call[c].upload] \in Expectation
          /\ call[c].at \in Beginning => session[call[c].upload] = "none"
          /\ call[c].at = "begin_ready" =>
               blob[want[call[c].upload].digest] = want[call[c].upload].size
      BY <2>2 DEF Inductive, TypeOK, TablesTypeOK, CallsKnow, CallKnows, Beginning, CallStepOf, At, BeginReady,
         BeginMultipart, BeginRow, BeginCleanup, PutPartObject, PutPartRow, CompleteObject,
         CompleteStat, CompleteSession, AbortObject, AbortStat, AbortSession, AbortRecoverSession
    <3>2. DataStep(call[c].upload)
      BY <2>2, <3>1 DEF CallStepOf, At, BeginReady, BeginMultipart, BeginRow, BeginCleanup,
         PutPartObject, PutPartRow, CompleteObject, CompleteStat, CompleteSession,
         AbortObject, AbortStat, AbortSession, AbortRecoverSession, OrRefused, DataStep,
         Beginning, tables
    <3> QED BY <3>1, <3>2
  <2>3. CASE Interrupt(c)
    BY <2>3 DEF Interrupt, tables
  <2> QED BY <1>1, <2>1, <2>2, <2>3 DEF CallNext
<1>2. ASSUME NEW v \in Upload, Expire(v) PROVE UNCHANGED <<session, blob, bucket>>
  BY <1>2 DEF Expire
<1>3. ASSUME NEW w \in Worker, WorkNext(w)
      PROVE  UNCHANGED <<session, blob, bucket>> \/ \E u \in Upload : DataStep(u)
  <2>1. CASE \E u \in Upload : ClaimIngestJob(w, u)
    BY <2>1 DEF ClaimIngestJob, DataStep
  <2>2. ASSUME work[w].at # "idle"
        PROVE  /\ work[w].upload \in Upload /\ want[work[w].upload].digest \in Content
               /\ work[w].at = "cleanup" => session[work[w].upload] \in {"ready", "failed"}
               /\ work[w].at = "succeed" =>
                    /\ Meets(staged[work[w].upload], want[work[w].upload])
                    /\ cas[want[work[w].upload].digest] = want[work[w].upload].digest
               /\ work[w].at = "fail" =>
                    /\ staged[work[w].upload] # None
                    /\ BlankETag \/ ~Meets(staged[work[w].upload], want[work[w].upload])
    BY <2>2, ExpectationAssumption DEF Inductive, WorkersKnow, WorkerKnows, Committing, DataAgrees,
       RowFollowsObjects, TypeOK, TablesTypeOK
  <2>3. ASSUME \/ VerifyStagedUpload(w) \/ RecoverCASObject(w) \/ StatCASObject(w)
               \/ ReadCASObject(w) \/ WorkerError(w)
        PROVE  UNCHANGED <<session, blob, bucket>>
    BY <2>3 DEF VerifyStagedUpload, RecoverCASObject, StatCASObject, ReadCASObject, WorkerError, tables
  <2>4. ASSUME CopyToCAS(w) \/ SucceedIngestJob(w) \/ FailIngestJob(w) \/ CleanupStaging(w)
        PROVE  \E u \in Upload : DataStep(u)
    BY <2>2, <2>4 DEF CopyToCAS, SucceedIngestJob, FailIngestJob, CleanupStaging, Doing, DataStep, tables
  <2> QED BY <1>3, <2>1, <2>3, <2>4 DEF WorkNext, WorkStepOf
<1>4. CASE UNCHANGED vars
  BY <1>4 DEF vars, tables
<1> QED BY <1>1, <1>2, <1>3, <1>4 DEF Next

\* A CAS object or blob row that exists stays as it is.
LEMMA CasStays ==
    ASSUME Inductive, [Next]_vars, NEW d \in Content
    PROVE  /\ cas[d] # None => cas'[d] = cas[d]
           /\ blob[d] # None => blob'[d] = blob[d]
<1>1. CASE UNCHANGED <<session, blob, bucket>>
  BY <1>1 DEF bucket
<1>2. ASSUME NEW u \in Upload, DataStep(u)
      PROVE  /\ cas[d] # None => cas'[d] = cas[d]
             /\ blob[d] # None => blob'[d] = blob[d]
  <2>1. blob \in [Content -> Nat \cup {None}] /\ cas \in [Content -> Content \cup {None}]
    BY DEF Inductive, TypeOK, TablesTypeOK, BucketTypeOK
  <2> QED BY <1>2, <2>1 DEF DataStep, InsertSession, RecordPartRow, CompleteRow, AbortRow,
      CreateMultipartUpload, PutPart, CompleteMultipartUpload, AbortMultipartUpload,
      ClaimJobRow, CopyObject, SucceedJobRow, StoredSize, FailJobRow, DeleteObject, tables, bucket
<1> QED BY <1>1, <1>2, StepsAreDataSteps

\* A CAS object or blob row that exists is never replaced, whatever copies race.
THEOREM CasWriteOnce == Spec => CasIsWriteOnce
<1>1. Inductive /\ [Next]_vars =>
        [\A d \in Content : /\ cas[d] # None => cas'[d] = cas[d]
                            /\ blob[d] # None => blob'[d] = blob[d]]_vars
  BY CasStays
<1> QED BY InductiveHolds, <1>1, PTL DEF CasIsWriteOnce, Spec

\* A staged object is released only after its session was decided.
THEOREM StagingIsKept == Spec => StagingOutlivesDecision
<1>1. ASSUME Inductive, [Next]_vars, NEW v \in Upload, staged[v] # None, staged'[v] # staged[v]
      PROVE  session[v] \in {"ready", "failed"}
  <2>1. staged \in [Upload -> Content \cup {None}] /\ mp[v] = "completed"
    BY <1>1 DEF Inductive, TypeOK, BucketTypeOK, DataAgrees, RowFollowsObjects
  <2>2. PICK u \in Upload : DataStep(u)
    BY <1>1, StepsAreDataSteps DEF bucket
  <2> QED BY <1>1, <2>1, <2>2 DEF DataStep, InsertSession, RecordPartRow, CompleteRow, AbortRow,
        CreateMultipartUpload, PutPart, CompleteMultipartUpload, AbortMultipartUpload,
        ClaimJobRow, CopyObject, SucceedJobRow, FailJobRow, DeleteObject, tables, bucket
<1>2. Inductive /\ [Next]_vars =>
        [\A u \in Upload :
            staged[u] # None /\ staged'[u] # staged[u] => session[u] \in {"ready", "failed"}]_vars
  BY <1>1
<1> QED BY InductiveHolds, <1>2, PTL DEF StagingOutlivesDecision, Spec

\* Sessions only move forward, and ready, failed and aborted are final.
THEOREM SessionsAreMonotone == Spec => SessionsMoveForward
<1>1. ASSUME Inductive, [Next]_vars, NEW v \in Upload, session'[v] # session[v]
      PROVE  Progress[session[v]] < Progress[session'[v]]
  <2>1. session \in [Upload -> SessionState \cup {"none"}]
    BY <1>1 DEF Inductive, TypeOK, TablesTypeOK
  <2>2. PICK u \in Upload : DataStep(u)
    BY <1>1, StepsAreDataSteps
  <2>3. \/ session[v] = "none" /\ session'[v] \in {"created", "ready"}
        \/ session[v] = "created" /\ session'[v] = "uploading"
        \/ session[v] \in Mutable /\ session'[v] \in {"completed", "aborted"}
        \/ session[v] = "completed" /\ session'[v] = "ingesting"
        \/ session[v] = "ingesting" /\ session'[v] \in {"ready", "failed"}
    BY <1>1, <2>1, <2>2 DEF DataStep, InsertSession, RecordPartRow, CompleteRow, AbortRow,
        ClaimJobRow, SucceedJobRow, FailJobRow, MayBecomeReady, JobIsRunning, Mutable, tables
  <2> QED BY <2>3 DEF Progress, Mutable
<1>2. Inductive /\ [Next]_vars =>
        [\A u \in Upload :
            session'[u] # session[u] => Progress[session[u]] < Progress[session'[u]]]_vars
  BY <1>1
<1> QED BY InductiveHolds, <1>2, PTL DEF SessionsMoveForward, Spec

\* When the object store reports ETags, a worker fails an upload only for its bytes.
THEOREM RejectionsAreDeserved == ~BlankETag /\ Spec => OnlyBadBytesAreRejected
<1>1. ASSUME ~BlankETag, Inductive, [Next]_vars, NEW v \in Upload,
             session'[v] = "failed", session[v] # "failed"
      PROVE  staged[v] # None /\ ~Meets(staged[v], want[v])
  <2>1. session \in [Upload -> SessionState \cup {"none"}]
    BY <1>1 DEF Inductive, TypeOK, TablesTypeOK
  <2>2. PICK u \in Upload : DataStep(u)
    BY <1>1, StepsAreDataSteps
  <2> QED BY <1>1, <2>1, <2>2 DEF DataStep, InsertSession, RecordPartRow, CompleteRow, AbortRow,
        ClaimJobRow, SucceedJobRow, FailJobRow, tables
<1>2. ~BlankETag /\ Inductive /\ [Next]_vars =>
        [\A u \in Upload :
            session'[u] = "failed" /\ session[u] # "failed" =>
                staged[u] # None /\ ~Meets(staged[u], want[u])]_vars
  BY <1>1
<1>3. ASSUME ~BlankETag PROVE Spec => OnlyBadBytesAreRejected
  <2>1. Inductive /\ [Next]_vars =>
          [\A u \in Upload :
              session'[u] = "failed" /\ session[u] # "failed" =>
                  staged[u] # None /\ ~Meets(staged[u], want[u])]_vars
    BY <1>2, <1>3
  <2> QED BY InductiveHolds, <2>1, PTL DEF OnlyBadBytesAreRejected, Spec
<1> QED BY <1>3

-----------------------------------------------------------------------------
(* The implementation of TrustedUploads.                                    *)

\* An upload id keeps the announcement it was drawn with.
LEMMA AnnouncementsStand ==
    ASSUME Inductive, [Next]_vars, NEW v \in Upload, want[v] # None
    PROVE  want'[v] = want[v]
<1>0. want \in [Upload -> Expectation \cup {None}]
  BY DEF Inductive, TypeOK, TablesTypeOK
<1>1. ASSUME NEW c \in Client, NewCall(c) PROVE want'[v] = want[v]
  BY <1>0, <1>1 DEF NewCall, BeginUpload, PutUploadPart, CompleteUpload, AbortUpload, tables
<1>2. ASSUME NEW c \in Client, CallStepOf(c) \/ Interrupt(c) PROVE want'[v] = want[v]
  BY <1>2 DEF CallStepOf, Interrupt, BeginReady, BeginMultipart, BeginRow, BeginCleanup,
     PutPartObject, PutPartRow, CompleteObject, CompleteStat, CompleteSession, AbortObject,
     AbortStat, AbortSession, AbortRecoverSession, OrRefused, InsertSession, RecordPartRow,
     CompleteRow, AbortRow, tables
<1>3. ASSUME NEW u \in Upload, Expire(u) PROVE want'[v] = want[v]
  BY <1>3 DEF Expire
<1>4. ASSUME NEW w \in Worker, WorkNext(w) PROVE want'[v] = want[v]
  BY <1>4 DEF WorkNext, WorkStepOf, ClaimIngestJob, VerifyStagedUpload, CopyToCAS, RecoverCASObject,
     StatCASObject, ReadCASObject, SucceedIngestJob, FailIngestJob, CleanupStaging, WorkerError,
     ClaimJobRow, SucceedJobRow, FailJobRow, tables
<1>5. CASE UNCHANGED vars
  BY <1>5 DEF vars, tables
<1> QED BY <1>1, <1>2, <1>3, <1>4, <1>5 DEF Next, CallNext

\* The abstract state of one upload.
Phased(u) == PhaseOf(session[u])
Claimed(u) == IF session[u] = "none" THEN None ELSE want[u]
Held(u) == IF PhaseOf(session[u]) = "promised" THEN staged[u] ELSE None

\* A step that changes the abstract state of one upload at most.
LEMMA OneUploadChanges ==
    ASSUME Inductive, [Next]_vars, NEW u \in Upload,
           \A v \in Upload : v # u => session'[v] = session[v] /\ (staged'[v] = staged[v] \/ Phased(v) # "promised")
    PROVE  \A v \in Upload : v # u => /\ Phased(v)' = Phased(v)
                                      /\ Claimed(v)' = Claimed(v)
                                      /\ Held(v)' = Held(v)
<1> SUFFICES ASSUME NEW v \in Upload, v # u
             PROVE  Phased(v)' = Phased(v) /\ Claimed(v)' = Claimed(v) /\ Held(v)' = Held(v)
  OBVIOUS
<1>1. session'[v] = session[v]
  OBVIOUS
<1>2. Phased(v)' = Phased(v)
  BY <1>1 DEF Phased, PhaseOf, Mutable
<1>3. session[v] # "none" => want'[v] = want[v]
  BY AnnouncementsStand DEF Inductive, DataAgrees, RowFollowsObjects
<1>4. Claimed(v)' = Claimed(v)
  BY <1>1, <1>3 DEF Claimed
<1>5. Held(v)' = Held(v)
  BY <1>2 DEF Held, Phased
<1> QED BY <1>2, <1>4, <1>5

\* What is served stays served while blob rows stand and CAS objects are write-once.
LEMMA ServedKept ==
    ASSUME Inductive, UNCHANGED blob, \A d \in Content : cas[d] # None => cas'[d] = cas[d]
    PROVE  ServedClaims' = ServedClaims
<1>1. \A d \in Content : blob[d] # None => cas[d] = d /\ cas'[d] = d
  BY NoneAssumption DEF Inductive, DataAgrees, BlobRowsAreBacked
<1> QED BY <1>1 DEF ServedClaims

\* A recorded success serves one more announcement: its own.
LEMMA ServedGrows ==
    ASSUME Inductive, NEW u \in Upload, want[u] \in Expectation, Meets(staged[u], want[u]),
           cas[want[u].digest] = want[u].digest, SucceedJobRow(u), UNCHANGED bucket
    PROVE  ServedClaims' = ServedClaims \cup {want[u]}
<1> DEFINE d == want[u].digest
           n == want[u].size
<1>1. d \in Content /\ n \in Nat /\ want[u] = [digest |-> d, size |-> n] /\ n # None
  BY ExpectationAssumption, NoneAssumption
<1>2. blob' = [blob EXCEPT ![d] = n] /\ blob[d] \in {None, n} /\ cas' = cas /\ cas[d] = d
  BY <1>1 DEF SucceedJobRow, StoredSize, Meets, Inductive, DataAgrees, BlobRowsAreBacked, bucket
<1>3. blob \in [Content -> Nat \cup {None}]
  BY DEF Inductive, TypeOK, TablesTypeOK
<1>4. \A x \in Content : blob'[x] = IF x = d THEN n ELSE blob[x]
  BY <1>2, <1>3
<1>5. ASSUME NEW e \in ServedClaims' PROVE e \in ServedClaims \cup {want[u]}
  <2>1. PICK x \in Content : blob'[x] # None /\ cas[x] = x /\ e = [digest |-> x, size |-> blob'[x]]
    BY <1>2, <1>5 DEF ServedClaims
  <2> QED BY <1>1, <1>4, <2>1 DEF ServedClaims
<1>6. ASSUME NEW e \in ServedClaims \cup {want[u]} PROVE e \in ServedClaims'
  <2>1. CASE e = want[u]
    BY <1>1, <1>2, <1>4, <2>1 DEF ServedClaims
  <2>2. CASE e \in ServedClaims
    <3>1. PICK x \in Content : blob[x] # None /\ cas[x] = x /\ e = [digest |-> x, size |-> blob[x]]
      BY <2>2 DEF ServedClaims
    <3>2. blob'[x] = blob[x]
      BY <1>2, <1>4, <3>1
    <3> QED BY <1>2, <3>1, <3>2 DEF ServedClaims
  <2> QED BY <1>6, <2>1, <2>2
<1> QED BY <1>5, <1>6

\* The abstract state, as functions.
Phases == [u \in Upload |-> PhaseOf(session[u])]
Claims == [u \in Upload |-> IF session[u] = "none" THEN None ELSE want[u]]
Holdings == [u \in Upload |-> IF PhaseOf(session[u]) = "promised" THEN staged[u] ELSE None]

\* A step on upload u, described by its effect on u alone.
LEMMA AbstractEffect ==
    ASSUME NEW u \in Upload, NEW p, NEW e, NEW b,
           \A v \in Upload : v # u => /\ Phased(v)' = Phased(v)
                                      /\ Claimed(v)' = Claimed(v)
                                      /\ Held(v)' = Held(v),
           Phased(u)' = p, Claimed(u)' = e, Held(u)' = b
    PROVE  /\ Phases' = [Phases EXCEPT ![u] = p]
           /\ Claims' = [Claims EXCEPT ![u] = e]
           /\ Holdings' = [Holdings EXCEPT ![u] = b]
<1>1. Phases' = [Phases EXCEPT ![u] = p]
  BY DEF Phases, Phased
<1>2. Claims' = [Claims EXCEPT ![u] = e]
  BY DEF Claims, Claimed
<1>3. Holdings' = [Holdings EXCEPT ![u] = b]
  BY DEF Holdings, Held
<1> QED BY <1>1, <1>2, <1>3

\* The abstract variables.
LEMMA AbstractVariables ==
    ASSUME NEW u \in Upload
    PROVE  Phases[u] = Phased(u) /\ Claims[u] = Claimed(u) /\ Holdings[u] = Held(u)
BY DEF Phases, Claims, Holdings, Phased, Claimed, Held

AbstractStutter == UNCHANGED <<Phases, Claims, Holdings, ServedClaims>>

\* Each step on upload u is a step of TrustedUploads or leaves its state alone.
LEMMA AbstractStep ==
    ASSUME ~BlankETag, Inductive, [Next]_vars, NEW u \in Upload, DataStep(u)
    PROVE  Abstract!ANext \/ AbstractStutter
<1> DEFINE e == want[u]
<1>0. /\ session \in [Upload -> SessionState \cup {"none"}]
      /\ staged \in [Upload -> Content \cup {None}] /\ want \in [Upload -> Expectation \cup {None}]
      /\ cas \in [Content -> Content \cup {None}]
      /\ session[u] # "none" => e # None /\ e \in Expectation /\ want'[u] = e
      /\ want[u] # None => want'[u] = e
      /\ DataAgrees /\ DataAgrees' /\ staged' \in [Upload -> Content \cup {None}]
  BY InductiveNext, AnnouncementsStand
     DEF Inductive, TypeOK, TablesTypeOK, BucketTypeOK, DataAgrees, RowFollowsObjects
<1>1. ASSUME NEW p, NEW x, NEW b,
             \A v \in Upload : v # u => session'[v] = session[v]
                                        /\ (staged'[v] = staged[v] \/ Phased(v) # "promised"),
             Phased(u)' = p, Claimed(u)' = x, Held(u)' = b
      PROVE  /\ Phases' = [Phases EXCEPT ![u] = p]
             /\ Claims' = [Claims EXCEPT ![u] = x]
             /\ Holdings' = [Holdings EXCEPT ![u] = b]
  BY <1>1, OneUploadChanges, AbstractEffect
<1>2. Phases[u] = Phased(u) /\ Claims[u] = Claimed(u) /\ Holdings[u] = Held(u)
  BY AbstractVariables
<1>3. /\ Phases = [Phases EXCEPT ![u] = Phases[u]]
      /\ Claims = [Claims EXCEPT ![u] = Claims[u]]
      /\ Holdings = [Holdings EXCEPT ![u] = Holdings[u]]
  BY DEF Phases, Claims, Holdings
<1>4. ASSUME \A v \in Upload : v # u => session'[v] = session[v]
                                        /\ (staged'[v] = staged[v] \/ Phased(v) # "promised"),
             Phased(u)' = Phased(u), session[u] = "none" <=> session'[u] = "none",
             Phased(u) = "promised" => staged'[u] = staged[u],
             ServedClaims' = ServedClaims
      PROVE  AbstractStutter
  <2>1. Claimed(u)' = Claimed(u)
    BY <1>0, <1>4 DEF Claimed
  <2>2. Held(u)' = Held(u)
    BY <1>4 DEF Held, Phased
  <2>3. /\ Phases' = [Phases EXCEPT ![u] = Phases[u]]
        /\ Claims' = [Claims EXCEPT ![u] = Claims[u]]
        /\ Holdings' = [Holdings EXCEPT ![u] = Holdings[u]]
    BY <1>1, <1>2, <1>4, <2>1, <2>2
  <2> QED BY <1>3, <1>4, <2>3 DEF AbstractStutter
<1>5. CASE UNCHANGED <<session, blob, bucket>>
  <2>1. ServedClaims' = ServedClaims
    BY <1>5 DEF ServedClaims, bucket
  <2>2. Phased(u)' = Phased(u)
    BY <1>5 DEF Phased, PhaseOf, Mutable
  <2> QED BY <1>4, <1>5, <2>1, <2>2 DEF bucket
<1>6. CASE InsertSession(u, "created") /\ session[u] = "none" /\ e \in Expectation /\ UNCHANGED bucket
  <2>1. /\ session'[u] = "created" /\ want' = want /\ staged' = staged
        /\ \A v \in Upload : v # u => session'[v] = session[v]
    BY <1>0, <1>6 DEF InsertSession, bucket
  <2>2. /\ Phased(u) = "absent" /\ Phased(u)' = "open" /\ Claimed(u)' = e
        /\ Held(u) = None /\ Held(u)' = None
    BY <1>6, <2>1 DEF Phased, Claimed, Held, PhaseOf, Mutable
  <2>3. ServedClaims' = ServedClaims
    BY <1>6, ServedKept DEF InsertSession, bucket
  <2>4. /\ Phases' = [Phases EXCEPT ![u] = "open"] /\ Claims' = [Claims EXCEPT ![u] = e]
        /\ Holdings' = Holdings /\ Phases[u] = "absent"
    BY <1>1, <1>2, <1>3, <2>1, <2>2
  <2>5. PICK x \in Expectation : x = e
    BY <1>6
  <2>6. Abstract!Open(u, x)
    BY <2>3, <2>4, <2>5 DEF Abstract!Open, Phases, Claims, Holdings
  <2> QED BY <2>6 DEF Abstract!ANext
<1>7. CASE /\ InsertSession(u, "ready") /\ session[u] = "none" /\ e \in Expectation
           /\ blob[e.digest] = e.size /\ UNCHANGED bucket
  <2>1. /\ session'[u] = "ready" /\ want' = want /\ staged' = staged
        /\ \A v \in Upload : v # u => session'[v] = session[v]
    BY <1>0, <1>7 DEF InsertSession, bucket
  <2>2. /\ Phased(u) = "absent" /\ Phased(u)' = "trusted" /\ Claimed(u)' = e
        /\ Held(u) = None /\ Held(u)' = None
    BY <1>7, <2>1 DEF Phased, Claimed, Held, PhaseOf, Mutable
  <2>3. ServedClaims' = ServedClaims
    BY <1>7, ServedKept DEF InsertSession, bucket
  <2>4. /\ Phases' = [Phases EXCEPT ![u] = "trusted"] /\ Claims' = [Claims EXCEPT ![u] = e]
        /\ Holdings' = Holdings /\ Phases[u] = "absent"
    BY <1>1, <1>2, <1>3, <2>1, <2>2
  <2>5. e \in ServedClaims
    <3>1. e.digest \in Content /\ e.size \in Nat /\ e = [digest |-> e.digest, size |-> e.size]
      BY <1>7, ExpectationAssumption
    <3>2. blob[e.digest] # None /\ cas[e.digest] = e.digest
      BY <1>0, <1>7, <3>1, NoneAssumption DEF DataAgrees, BlobRowsAreBacked
    <3> QED BY <1>7, <3>1, <3>2 DEF ServedClaims
  <2>6. PICK x \in Expectation : x = e
    BY <1>7
  <2>7. Abstract!Reuse(u, x)
    BY <2>3, <2>4, <2>5, <2>6 DEF Abstract!Reuse, Phases, Claims, Holdings
  <2> QED BY <2>7 DEF Abstract!ANext
<1>8. CASE (\E b : RecordPartRow(u, b)) /\ UNCHANGED bucket
  <2>1. /\ session[u] \in Mutable /\ session'[u] = "uploading" /\ staged' = staged
        /\ \A v \in Upload : v # u => session'[v] = session[v]
    BY <1>0, <1>8 DEF RecordPartRow, bucket
  <2>2. ServedClaims' = ServedClaims
    BY <1>8, ServedKept DEF RecordPartRow, bucket
  <2> QED BY <1>4, <2>1, <2>2 DEF Phased, PhaseOf, Mutable
<1>9. CASE CompleteRow(u) /\ UNCHANGED bucket
  <2>1. /\ session[u] \in Mutable /\ session'[u] = "completed" /\ staged' = staged /\ want' = want
        /\ \A v \in Upload : v # u => session'[v] = session[v]
    BY <1>0, <1>9 DEF CompleteRow, bucket
  <2>2. staged[u] \in Content
    BY <1>0, <2>1 DEF DataAgrees, RowFollowsObjects
  <2>3. /\ Phased(u) = "open" /\ Phased(u)' = "promised" /\ Claimed(u)' = Claimed(u)
        /\ Held(u)' = staged[u]
    BY <2>1 DEF Phased, Claimed, Held, PhaseOf, Mutable
  <2>4. ServedClaims' = ServedClaims
    BY <1>9, ServedKept DEF CompleteRow, bucket
  <2>5. /\ Phases' = [Phases EXCEPT ![u] = "promised"] /\ Claims' = Claims
        /\ Holdings' = [Holdings EXCEPT ![u] = staged[u]] /\ Phases[u] = "open"
    BY <1>1, <1>2, <1>3, <2>1, <2>3
  <2>6. PICK x \in Content : x = staged[u]
    BY <2>2
  <2>7. Abstract!Promise(u, x)
    BY <2>4, <2>5, <2>6 DEF Abstract!Promise, Phases, Claims, Holdings
  <2> QED BY <2>7 DEF Abstract!ANext
<1>10. CASE AbortRow(u) /\ UNCHANGED bucket
  <2>1. /\ session[u] \in Mutable /\ session'[u] = "aborted" /\ staged' = staged /\ want' = want
        /\ \A v \in Upload : v # u => session'[v] = session[v]
    BY <1>0, <1>10 DEF AbortRow, bucket
  <2>2. /\ Phased(u) = "open" /\ Phased(u)' = "withdrawn" /\ Claimed(u)' = Claimed(u)
        /\ Held(u)' = Held(u)
    BY <2>1 DEF Phased, Claimed, Held, PhaseOf, Mutable
  <2>3. ServedClaims' = ServedClaims
    BY <1>10, ServedKept DEF AbortRow, bucket
  <2>4. /\ Phases' = [Phases EXCEPT ![u] = "withdrawn"] /\ Claims' = Claims
        /\ Holdings' = Holdings /\ Phases[u] = "open"
    BY <1>1, <1>2, <1>3, <2>1, <2>2
  <2>5. Abstract!Withdraw(u)
    BY <2>3, <2>4 DEF Abstract!Withdraw, Phases, Claims, Holdings
  <2> QED BY <2>5 DEF Abstract!ANext
<1>11. CASE /\ UNCHANGED tables
            /\ \/ CreateMultipartUpload(u) \/ AbortMultipartUpload(u)
               \/ \E b : PutPart(u, b) \/ CompleteMultipartUpload(u, b)
  <2>1. /\ session' = session /\ blob' = blob /\ cas' = cas
        /\ \A v \in Upload : v # u => staged'[v] = staged[v]
    BY <1>0, <1>11 DEF tables, CreateMultipartUpload, AbortMultipartUpload, PutPart, CompleteMultipartUpload
  <2>2. Phased(u)' = Phased(u)
    BY <2>1 DEF Phased, PhaseOf, Mutable
  <2>3. Phased(u) = "promised" => session[u] \in {"completed", "ingesting"}
    BY <1>0 DEF Phased, PhaseOf, Mutable, SessionState
  <2>4. Phased(u) = "promised" => staged'[u] = staged[u]
    BY <1>0, <1>11, <2>3 DEF DataAgrees, RowFollowsObjects, CreateMultipartUpload,
       AbortMultipartUpload, PutPart, CompleteMultipartUpload
  <2> QED BY <1>4, <2>1, <2>2, <2>4, ServedKept
<1>12. CASE (\E w : ClaimJobRow(u, w)) /\ UNCHANGED bucket
  <2>1. /\ session[u] = "completed" /\ session'[u] = "ingesting" /\ staged' = staged
        /\ \A v \in Upload : v # u => session'[v] = session[v]
    BY <1>0, <1>12 DEF ClaimJobRow, bucket
  <2>2. ServedClaims' = ServedClaims
    BY <1>12, ServedKept DEF ClaimJobRow, bucket
  <2> QED BY <1>4, <2>1, <2>2 DEF Phased, PhaseOf, Mutable
<1>13. CASE e.digest \in Content /\ CopyObject(u, e.digest, e.digest) /\ UNCHANGED tables
  <2>1. /\ session' = session /\ blob' = blob /\ staged' = staged
        /\ \A x \in Content : cas[x] # None => cas'[x] = cas[x]
    BY <1>0, <1>13 DEF CopyObject, tables
  <2>2. Phased(u)' = Phased(u)
    BY <2>1 DEF Phased, PhaseOf, Mutable
  <2> QED BY <1>4, <2>1, <2>2, ServedKept
<1>14. CASE /\ e.digest \in Content /\ Meets(staged[u], e) /\ cas[e.digest] = e.digest
            /\ SucceedJobRow(u) /\ UNCHANGED bucket
  <2>1. /\ session[u] = "ingesting" /\ session'[u] = "ready" /\ staged' = staged /\ want' = want
        /\ \A v \in Upload : v # u => session'[v] = session[v]
    BY <1>0, <1>14 DEF SucceedJobRow, MayBecomeReady, JobIsRunning, bucket
  <2>2. /\ Phased(u) = "promised" /\ Phased(u)' = "trusted" /\ Claimed(u)' = e /\ Claimed(u) = e
        /\ Held(u) = staged[u] /\ Held(u)' = None
    BY <2>1 DEF Phased, Claimed, Held, PhaseOf, Mutable
  <2>3. ServedClaims' = ServedClaims \cup {e}
    BY <1>0, <1>14, <2>1, ServedGrows
  <2>4. /\ Phases' = [Phases EXCEPT ![u] = "trusted"] /\ Claims' = Claims
        /\ Holdings' = [Holdings EXCEPT ![u] = None]
        /\ Phases[u] = "promised" /\ Claims[u] = e /\ Holdings[u] = staged[u]
    BY <1>1, <1>2, <1>3, <2>1, <2>2
  <2>5. Abstract!Meets(Holdings[u], Claims[u])
    BY <1>14, <2>4 DEF Meets, Abstract!Meets
  <2>6. Abstract!Decide(u)
    BY <2>3, <2>4, <2>5 DEF Abstract!Decide, Phases, Claims, Holdings
  <2> QED BY <2>6 DEF Abstract!ANext
<1>15. CASE ~Meets(staged[u], e) /\ FailJobRow(u) /\ UNCHANGED bucket
  <2>1. /\ session[u] = "ingesting" /\ session'[u] = "failed" /\ staged' = staged /\ want' = want
        /\ \A v \in Upload : v # u => session'[v] = session[v]
    BY <1>0, <1>15 DEF FailJobRow, JobIsRunning, bucket
  <2>2. /\ Phased(u) = "promised" /\ Phased(u)' = "rejected" /\ Claimed(u)' = e /\ Claimed(u) = e
        /\ Held(u) = staged[u] /\ Held(u)' = None
    BY <2>1 DEF Phased, Claimed, Held, PhaseOf, Mutable
  <2>3. ServedClaims' = ServedClaims
    BY <1>15, ServedKept DEF FailJobRow, bucket
  <2>4. /\ Phases' = [Phases EXCEPT ![u] = "rejected"] /\ Claims' = Claims
        /\ Holdings' = [Holdings EXCEPT ![u] = None]
        /\ Phases[u] = "promised" /\ Claims[u] = e /\ Holdings[u] = staged[u]
    BY <1>1, <1>2, <1>3, <2>1, <2>2
  <2>5. ~Abstract!Meets(Holdings[u], Claims[u])
    BY <1>15, <2>4 DEF Meets, Abstract!Meets
  <2>6. Abstract!Decide(u)
    BY <2>3, <2>4, <2>5 DEF Abstract!Decide, Phases, Claims, Holdings
  <2> QED BY <2>6 DEF Abstract!ANext
<1>16. CASE session[u] \in {"ready", "failed"} /\ DeleteObject(u) /\ UNCHANGED tables
  <2>1. /\ session' = session /\ blob' = blob /\ cas' = cas
        /\ \A v \in Upload : v # u => staged'[v] = staged[v]
    BY <1>0, <1>16 DEF DeleteObject, tables
  <2>2. Phased(u)' = Phased(u) /\ Phased(u) # "promised"
    BY <1>16, <2>1 DEF Phased, PhaseOf, Mutable
  <2> QED BY <1>4, <2>1, <2>2, ServedKept
<1> QED BY <1>5, <1>6, <1>7, <1>8, <1>9, <1>10, <1>11, <1>12, <1>13, <1>14, <1>15, <1>16 DEF DataStep

\* Rows, bucket, calls and workers implement TrustedUploads: with an object store that
\* reports ETags, a decision depends on nothing but the bytes fixed when completion
\* was acknowledged and what the client announced.
THEOREM ImplementsTrustedUploads == ~BlankETag /\ Spec => KeepsUploadPromise
<1>1. Init => Abstract!AInit
  BY DEF Init, TablesInit, BucketInit, Abstract!AInit, PhaseOf, Mutable, ServedClaims
<1>2. ASSUME ~BlankETag PROVE Spec => KeepsUploadPromise
  <2>1. ASSUME Inductive, [Next]_vars PROVE [Abstract!ANext]_(Abstract!avars)
    <3>1. CASE UNCHANGED <<session, blob, bucket>>
      <4>1. UNCHANGED Phases
        BY <3>1 DEF Phases
      <4>2. \A v \in Upload : session[v] # "none" => want'[v] = want[v]
        BY <2>1, AnnouncementsStand DEF Inductive, DataAgrees, RowFollowsObjects
      <4>3. UNCHANGED Claims
        BY <3>1, <4>2 DEF Claims
      <4>4. UNCHANGED Holdings /\ UNCHANGED ServedClaims
        BY <3>1 DEF Holdings, ServedClaims, bucket
      <4> QED BY <4>1, <4>3, <4>4 DEF Abstract!avars, Phases, Claims, Holdings
    <3>2. CASE \E u \in Upload : DataStep(u)
      <4>1. Abstract!ANext \/ AbstractStutter
        BY <1>2, <2>1, <3>2, AbstractStep
      <4> QED BY <4>1 DEF AbstractStutter, Abstract!avars, Phases, Claims, Holdings
    <3> QED BY <2>1, <3>1, <3>2, StepsAreDataSteps
  <2> QED BY <1>1, <2>1, InductiveHolds, PTL DEF Spec, KeepsUploadPromise, Abstract!ASpec
<1> QED BY <1>2
=============================================================================
