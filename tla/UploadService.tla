--------------------------- MODULE UploadService ---------------------------
(***************************************************************************)
(* internal/uploads.Service: the four calls that change an upload, each a  *)
(* sequence of single database or object-store requests.  Between two      *)
(* requests any other call, worker or the clock may move, and the session  *)
(* read by the first request is not read again.                            *)
(***************************************************************************)
EXTENDS UploadTables, ObjectStore

VARIABLE call  \* what each client's current API call does next

CallStep == {"idle",
             "begin_ready", "begin_mp", "begin_row", "begin_cleanup",
             "put_object", "put_row",
             "complete_object", "complete_stat", "complete_row",
             "abort_object", "abort_stat", "abort_row", "abort_recover_row"}

NoCall == [at |-> "idle", upload |-> None, body |-> None]

CallsTypeOK ==
    call \in [Client -> [at : CallStep, upload : Upload \cup {None}, body : Content \cup {None}]]

CallsInit == call = [c \in Client |-> NoCall]

At(c, step) == call[c].at = step
Goto(c, step) == call' = [call EXCEPT ![c].at = step]
Return(c) == call' = [call EXCEPT ![c] = NoCall]
Enter(c, step, u, b) ==
    /\ call[c].at = "idle"
    /\ call' = [call EXCEPT ![c] = [at |-> step, upload |-> u, body |-> b]]

\* The sentinel of uploadExpired and the state checks on the session just read.
AcceptsParts(u) == session[u] \in Mutable /\ ~expired[u]

-----------------------------------------------------------------------------
(* BeginUpload: a trusted blob of the expected size makes the session ready *)
(* at once; otherwise a multipart upload is created before the row, and     *)
(* aborted again when the row cannot be inserted or its commit is unknown.  *)
(* A trusted blob of another size refuses the call: nothing changes.        *)

BeginUpload(c, u, e) ==
    /\ want[u] = None
    /\ want' = [want EXCEPT ![u] = e]
    /\ \/ TrustedSize(e) = e.size /\ Enter(c, "begin_ready", u, None)
       \/ TrustedSize(e) = None /\ Enter(c, "begin_mp", u, None)
    /\ UNCHANGED <<session, expired, partRow, job, lockedBy, blob, bucket>>

BeginReady(c) ==
    /\ At(c, "begin_ready")
    /\ InsertSession(call[c].upload, "ready") \/ (expired[call[c].upload] /\ UNCHANGED tables)
    /\ Return(c)
    /\ UNCHANGED bucket

BeginMultipart(c) ==
    /\ At(c, "begin_mp")
    /\ CreateMultipartUpload(call[c].upload)
    /\ Goto(c, "begin_row")
    /\ UNCHANGED tables

BeginRow(c) ==
    /\ At(c, "begin_row")
    /\ \/ InsertSession(call[c].upload, "created") /\ Return(c)
       \/ Faults /\ InsertSession(call[c].upload, "created") /\ Goto(c, "begin_cleanup")
       \/ (Faults \/ expired[call[c].upload]) /\ UNCHANGED tables /\ Goto(c, "begin_cleanup")
    /\ UNCHANGED bucket

BeginCleanup(c) ==
    /\ At(c, "begin_cleanup")
    /\ AbortMultipartUpload(call[c].upload) \/ (mp[call[c].upload] # "open" /\ UNCHANGED bucket)
    /\ Return(c)
    /\ UNCHANGED tables

-----------------------------------------------------------------------------
(* PutUploadPart: read the session, store the part, record it.              *)

PutUploadPart(c, u, b) ==
    /\ AcceptsParts(u)
    /\ Enter(c, "put_object", u, b)
    /\ UNCHANGED <<tables, bucket>>

PutPartObject(c) ==
    /\ At(c, "put_object")
    /\ \/ PutPart(call[c].upload, call[c].body) /\ Goto(c, "put_row")
       \/ mp[call[c].upload] # "open" /\ Return(c) /\ UNCHANGED bucket
    /\ UNCHANGED tables

PutPartRow(c) ==
    /\ At(c, "put_row")
    /\ OrRefused(call[c].upload, RecordPartRow(call[c].upload, call[c].body))
    /\ Return(c)
    /\ UNCHANGED bucket

-----------------------------------------------------------------------------
(* CompleteUpload with the ETag b in its part list.  An expired session is  *)
(* completed only from an object already staged; NoSuchUpload leads to the  *)
(* same recovery; a part list the store rejects ends the call.              *)

CompleteUpload(c, u, b) ==
    /\ session[u] \in Mutable
    /\ Enter(c, IF expired[u] THEN "complete_stat" ELSE "complete_object", u, b)
    /\ UNCHANGED <<tables, bucket>>

CompleteObject(c) ==
    LET u == call[c].upload IN
    /\ At(c, "complete_object")
    /\ \/ CompleteMultipartUpload(u, call[c].body) /\ Goto(c, "complete_row")
       \/ mp[u] = "open" /\ mpPart[u] # call[c].body /\ Return(c) /\ UNCHANGED bucket
       \/ mp[u] # "open" /\ Goto(c, "complete_stat") /\ UNCHANGED bucket
    /\ UNCHANGED tables

\* Wrong on purpose: a missing staged object is not an error.
StagedFits_Missing(u) == staged[u] # None => Size[staged[u]] = want[u].size

\* recoverCompletedStagedObject compares the size of the staged object only.
StagedFits(u) == staged[u] # None /\ Size[staged[u]] = want[u].size

CompleteStat(c) ==
    /\ At(c, "complete_stat")
    /\ IF StagedFits(call[c].upload) THEN Goto(c, "complete_row") ELSE Return(c)
    /\ UNCHANGED <<tables, bucket>>

CompleteSession(c) ==
    /\ At(c, "complete_row")
    /\ OrRefused(call[c].upload, CompleteRow(call[c].upload))
    /\ Return(c)
    /\ UNCHANGED bucket

-----------------------------------------------------------------------------
(* AbortUpload: abort the multipart upload, then the row.  NoSuchUpload     *)
(* with a fitting staged object completes the session instead.              *)

AbortUpload(c, u) ==
    /\ session[u] \in Mutable
    /\ Enter(c, "abort_object", u, None)
    /\ UNCHANGED <<tables, bucket>>

AbortObject(c) ==
    LET u == call[c].upload IN
    /\ At(c, "abort_object")
    /\ \/ AbortMultipartUpload(u) /\ Goto(c, "abort_row")
       \/ mp[u] # "open" /\ Goto(c, "abort_stat") /\ UNCHANGED bucket
    /\ UNCHANGED tables

\* Wrong on purpose: the staged object is not looked at.
AbortStat_Blind(c) ==
    /\ At(c, "abort_stat")
    /\ Goto(c, "abort_row")
    /\ UNCHANGED <<tables, bucket>>

AbortStat(c) ==
    LET u == call[c].upload IN
    /\ At(c, "abort_stat")
    /\ \/ staged[u] = None /\ Goto(c, "abort_row")
       \/ StagedFits(u) /\ Goto(c, "abort_recover_row")
       \/ staged[u] # None /\ ~StagedFits(u) /\ Return(c)
    /\ UNCHANGED <<tables, bucket>>

AbortSession(c) ==
    /\ At(c, "abort_row")
    /\ OrRefused(call[c].upload, AbortRow(call[c].upload))
    /\ Return(c)
    /\ UNCHANGED bucket

AbortRecoverSession(c) ==
    /\ At(c, "abort_recover_row")
    /\ OrRefused(call[c].upload, CompleteRow(call[c].upload))
    /\ Return(c)
    /\ UNCHANGED bucket

-----------------------------------------------------------------------------
(* The request is cancelled, its process dies, or a request of it fails     *)
(* without effect; a response lost after the effect is the same one step    *)
(* later.                                                                   *)
Interrupt(c) ==
    /\ Faults
    /\ ~At(c, "idle")
    /\ Return(c)
    /\ UNCHANGED <<tables, bucket>>

\* Wrong on purpose: a state the upload_sessions table does not have.
Expire_WritesState(u) ==
    /\ want[u] # None
    /\ session[u] \in Mutable
    /\ session' = [session EXCEPT ![u] = "expired"]
    /\ UNCHANGED <<want, expired, partRow, job, lockedBy, blob, bucket, call>>

(* The clock passes expires_at.  Only ids that are not completed consult it. *)
Expire(u) ==
    /\ want[u] # None
    /\ session[u] \in Mutable \cup {"none"}
    /\ ~expired[u]
    /\ expired' = [expired EXCEPT ![u] = TRUE]
    /\ UNCHANGED <<session, want, partRow, job, lockedBy, blob, bucket, call>>

\* What a running call does without new input.
CallStepOf(c) ==
    \/ BeginReady(c) \/ BeginMultipart(c) \/ BeginRow(c) \/ BeginCleanup(c)
    \/ PutPartObject(c) \/ PutPartRow(c)
    \/ CompleteObject(c) \/ CompleteStat(c) \/ CompleteSession(c)
    \/ AbortObject(c) \/ AbortStat(c) \/ AbortSession(c) \/ AbortRecoverSession(c)

NewCall(c) ==
    \E u \in Upload :
        \/ \E e \in Expectation : BeginUpload(c, u, e)
        \/ \E b \in Content : PutUploadPart(c, u, b) \/ CompleteUpload(c, u, b)
        \/ AbortUpload(c, u)
=============================================================================
