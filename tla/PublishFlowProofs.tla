-------------------------- MODULE PublishFlowProofs --------------------------
(***************************************************************************)
(* Proofs about PublishFlow for every set of versions, artifacts, blobs,   *)
(* editors and workers, with and without faults.  The theorems about       *)
(* manifests assume what the code does not ensure: that no manifest write  *)
(* commits after its version left draft (~LateWrites).                     *)
(***************************************************************************)
EXTENDS PublishFlow, TLAPS

-----------------------------------------------------------------------------
(* What one step of the system can do to the rows.                          *)

\* A manifest write takes effect.
ManifestWrite(v) ==
    /\ LateWrites \/ version[v] = "draft"
    /\ \E a \in Artifact, b \in Blob :
          AddArtifact(v, a, b) \/ AddAttachment(v, a, b) \/ DeleteArtifact(v, a) \/ DeleteAttachment(v, a)

\* A worker stores the index it computed.
IndexWrite(v) ==
    \E new \in SUBSET ProjectionRow :
        /\ LateWrites \/ new = IncusRows(v)
        /\ IndexSucceeds(v, new)

\* One transaction that concerns version v.
RowStep(v) ==
    \/ ManifestWrite(v)
    \/ EnqueueVersion(v)
    \/ RetryJob(v)
    \/ \E s \in Step, w \in Worker : ClaimStep(v, s, w)
    \/ step[v][ValidateCatalog] = "running" /\ ValidateSucceeds(v)
    \/ step[v][IncusIndex] = "running" /\ IndexWrite(v)
    \/ step[v][FinalizePublish] = "running" /\ FinalizeSucceeds(v)
    \/ \E s \in Step : step[v][s] = "running" /\ FailStep(v, s)

\* No transaction of a version: a blob may become trusted, a lease may go stale.
Ripple ==
    /\ trusted' = trusted \/ \E b \in Blob : trusted' = trusted \cup {b}
    /\ stale' \in [Version -> [Step -> BOOLEAN]]
    /\ UNCHANGED <<version, manifest, job, step, attempt, lockedBy, projection>>

\* The rows change only in these ways.
LEMMA StepsAreRowSteps ==
    ASSUME Inductive, [Next]_vars
    PROVE  Ripple \/ \E v \in Version : RowStep(v)
<1> USE DEF Ripple
<1>0. UNCHANGED rows => Ripple
  BY DEF Inductive, TypeOK, RowsTypeOK, rows, manifest, progress
<1>1. CASE \E e \in Editor, op \in EditOp, v \in Version, a \in Artifact, b \in Blob :
              CheckDraft(e, op, v, a, b)
  BY <1>0, <1>1 DEF CheckDraft
<1>2. ASSUME NEW e \in Editor, CommitEdit(e) PROVE Ripple \/ \E v \in Version : RowStep(v)
  <2> DEFINE x == edit[e]
  <2>1. /\ x # NoEdit
        /\ x \in [op : EditOp, v : Version, a : Artifact, b : Blob]
        /\ LateWrites \/ version[x.v] = "draft"
    BY <1>2 DEF CommitEdit, Inductive, TypeOK, ManifestsStand
  <2>2. CASE UNCHANGED rows
    BY <1>0, <2>2
  <2>3. CASE \/ AddArtifact(x.v, x.a, x.b) \/ AddAttachment(x.v, x.a, x.b)
             \/ DeleteArtifact(x.v, x.a) \/ DeleteAttachment(x.v, x.a)
    <3>1. x.v \in Version /\ x.a \in Artifact /\ x.b \in Blob
      BY <2>1
    <3>2. RowStep(x.v)
      BY <2>1, <2>3, <3>1 DEF RowStep, ManifestWrite
    <3> QED BY <3>1, <3>2
  <2> QED BY <1>2, <2>2, <2>3 DEF CommitEdit
<1>3. CASE \E b \in Blob : TrustBlob(b)
  BY <1>3 DEF TrustBlob, manifest, progress, Inductive, TypeOK, RowsTypeOK
<1>4. ASSUME NEW v \in Version, PublishVersion(v) \/ RetryPublishJob(v)
      PROVE  Ripple \/ \E x \in Version : RowStep(x)
  BY <1>0, <1>4 DEF PublishVersion, RetryPublishJob, RowStep
<1>5. ASSUME NEW w \in Worker, WorkStepOf(w) \/ Abandon(w)
      PROVE  Ripple \/ \E v \in Version : RowStep(v)
  <2>1. CASE \E v \in Version, s \in Step : Claim(w, v, s)
    BY <2>1 DEF Claim, RowStep
  <2>2. CASE IndexVersion(w) \/ Abandon(w)
    BY <1>0, <2>2 DEF IndexVersion, Abandon
  <2>3. ASSUME work[w].at # "idle"
        PROVE  /\ work[w].v \in Version /\ work[w].s \in Step /\ work[w].rows \in SUBSET ProjectionRow
               /\ work[w].at = "store" =>
                    work[w].s = IncusIndex /\ (LateWrites \/ work[w].rows = IncusRows(work[w].v))
    BY <2>3 DEF Inductive, TypeOK, WorkersKnow, ManifestsStand, NoWork
  <2>4. CASE SucceedStep(w)
    <3>1. CASE UNCHANGED rows
      BY <1>0, <3>1
    <3>2. CASE Succeeds(w)
      <4>1. work[w].at # "idle"
        BY <3>2 DEF Succeeds
      <4>2. RowStep(work[w].v)
        BY <2>3, <3>2, <4>1 DEF Succeeds, Holds, HoldsLease, RowStep, IndexWrite
      <4> QED BY <2>3, <4>1, <4>2
    <3> QED BY <2>4, <3>1, <3>2 DEF SucceedStep, Refused
  <2>5. CASE FailClaimedStep(w)
    <3>1. work[w].at # "idle"
      BY <2>5 DEF FailClaimedStep
    <3>2. CASE Holds(w) /\ FailStep(work[w].v, work[w].s)
      BY <2>3, <3>1, <3>2 DEF Holds, HoldsLease, RowStep
    <3> QED BY <1>0, <2>5, <3>2 DEF FailClaimedStep
  <2> QED BY <1>5, <2>1, <2>2, <2>4, <2>5 DEF WorkStepOf
<1>6. ASSUME NEW v \in Version, NEW s \in Step, LeaseExpires(v, s) PROVE Ripple
  BY <1>6 DEF LeaseExpires, manifest, Inductive, TypeOK, RowsTypeOK
<1>7. CASE UNCHANGED vars
  BY <1>0, <1>7 DEF vars
<1> QED BY <1>1, <1>2, <1>3, <1>4, <1>5, <1>6, <1>7 DEF Next

-----------------------------------------------------------------------------
(* Types.                                                                   *)

\* Init gives the rows, edits, answers and workers their types.
LEMMA TypeInit == Init => TypeOK
BY DEF Init, TypeOK, RowsInit, RowsTypeOK, VersionState, JobState, StepState

\* The rows an index is computed from are projection rows.
LEMMA IncusRowsType ==
    ASSUME RowsTypeOK, NEW v \in Version
    PROVE  IncusRows(v) \in SUBSET ProjectionRow
BY DEF RowsTypeOK, IncusRows, ProjectionRow

\* Every transaction keeps the types of the rows.
LEMMA RowTypes ==
    ASSUME RowsTypeOK, Ripple \/ \E v \in Version : RowStep(v)
    PROVE  RowsTypeOK'
<1> USE DEF RowsTypeOK, manifest, progress
<1>1. CASE Ripple
  BY <1>1 DEF Ripple
<1>2. ASSUME NEW v \in Version, ManifestWrite(v) PROVE RowsTypeOK'
  <2>1. PICK a \in Artifact, b \in Blob :
          AddArtifact(v, a, b) \/ AddAttachment(v, a, b) \/ DeleteArtifact(v, a) \/ DeleteAttachment(v, a)
    BY <1>2 DEF ManifestWrite
  <2>2. CASE AddArtifact(v, a, b)
    <3>1. disk' \in [Version -> [Artifact -> Blob \cup {None}]]
      BY <2>2 DEF AddArtifact
    <3> QED BY <2>2, <3>1 DEF AddArtifact
  <2>3. CASE AddAttachment(v, a, b)
    <3>1. meta' \in [Version -> [Artifact -> Blob \cup {None}]]
      BY <2>3 DEF AddAttachment
    <3> QED BY <2>3, <3>1 DEF AddAttachment
  <2>4. CASE DeleteArtifact(v, a) \/ DeleteAttachment(v, a)
    <3>1. ProjectionWithout(v, a) \in [Version -> SUBSET ProjectionRow]
      BY DEF ProjectionWithout
    <3>2. projection' \in [Version -> SUBSET ProjectionRow]
      BY <2>4, <3>1 DEF DeleteArtifact, DeleteAttachment
    <3>3. meta' = [meta EXCEPT ![v][a] = None]
      BY <2>4 DEF DeleteArtifact, DeleteAttachment
    <3>4. disk' = [disk EXCEPT ![v][a] = None] \/ disk' = disk
      BY <2>4 DEF DeleteArtifact, DeleteAttachment
    <3>5. meta' \in [Version -> [Artifact -> Blob \cup {None}]]
      BY <3>3
    <3>6. disk' \in [Version -> [Artifact -> Blob \cup {None}]]
      <4>1. [disk EXCEPT ![v][a] = None] \in [Version -> [Artifact -> Blob \cup {None}]]
        OBVIOUS
      <4> QED BY <3>4, <4>1
    <3>7. UNCHANGED <<version, trusted, progress>>
      BY <2>4 DEF DeleteArtifact, DeleteAttachment
    <3> QED BY <3>2, <3>5, <3>6, <3>7
  <2> QED BY <2>1, <2>2, <2>3, <2>4
<1>3. ASSUME NEW v \in Version, EnqueueVersion(v) PROVE RowsTypeOK'
  BY <1>3 DEF EnqueueVersion, VersionState, JobState, StepState
<1>4. ASSUME NEW v \in Version, RetryJob(v) PROVE RowsTypeOK'
  <2>1. \A s, first \in Step : Requeued(v, s, first) \in StepState
    BY DEF Requeued, StepState
  <2>2. /\ step' \in [Version -> [Step -> StepState]]
        /\ lockedBy' \in [Version -> [Step -> Worker \cup {None}]]
        /\ stale' \in [Version -> [Step -> BOOLEAN]]
        /\ job' \in [Version -> JobState]
    BY <1>4, <2>1 DEF RetryJob, JobState
  <2> QED BY <1>4, <2>2 DEF RetryJob
<1>5. ASSUME NEW v \in Version, NEW s \in Step, NEW w \in Worker, ClaimStep(v, s, w)
      PROVE  RowsTypeOK'
  BY <1>5 DEF ClaimStep, JobState, StepState
<1>6. ASSUME NEW v \in Version, ValidateSucceeds(v) PROVE RowsTypeOK'
  BY <1>6 DEF ValidateSucceeds, EndStep, StepState, Step
<1>7. ASSUME NEW v \in Version, IndexWrite(v) PROVE RowsTypeOK'
  <2>1. PICK new \in SUBSET ProjectionRow : IndexSucceeds(v, new)
    BY <1>7 DEF IndexWrite
  <2>2. projection' \in [Version -> SUBSET ProjectionRow]
    BY <2>1 DEF IndexSucceeds
  <2>3. /\ step' \in [Version -> [Step -> StepState]]
        /\ lockedBy' \in [Version -> [Step -> Worker \cup {None}]]
        /\ stale' \in [Version -> [Step -> BOOLEAN]]
    BY <2>1 DEF IndexSucceeds, EndStep, StepState, Step
  <2> QED BY <2>1, <2>2, <2>3 DEF IndexSucceeds, EndStep
<1>8. ASSUME NEW v \in Version, FinalizeSucceeds(v) PROVE RowsTypeOK'
  BY <1>8 DEF FinalizeSucceeds, EndStep, StepState, JobState, VersionState, Step
<1>9. ASSUME NEW v \in Version, NEW s \in Step, FailStep(v, s) PROVE RowsTypeOK'
  BY <1>9 DEF FailStep, EndStep, StepState, JobState
<1> QED BY <1>1, <1>2, <1>3, <1>4, <1>5, <1>6, <1>7, <1>8, <1>9 DEF RowStep

-----------------------------------------------------------------------------
(* The state machines of version, job and steps.                            *)

\* Ending a step changes the state of that step and of no other.
LEMMA EndStepEffect ==
    ASSUME RowsTypeOK, NEW v \in Version, NEW s \in Step, NEW o, EndStep(v, s, o)
    PROVE  \A x \in Version, t \in Step :
              step'[x][t] = IF x = v /\ t = s THEN o ELSE step[x][t]
BY DEF RowsTypeOK, EndStep

\* What StepsAgree says of one version.
VersionAgrees(v) ==
    /\ version[v] = "draft" <=> job[v] = "none"
    /\ version[v] = "published" <=> job[v] = "succeeded"
    /\ job[v] = "failed" <=> \E s \in Step : step[v][s] = "failed"
    /\ \A p, s \in Step :
          p < s /\ step[v][s] \in {"running", "succeeded", "failed"} => step[v][p] = "succeeded"
    /\ \A s \in Step : step[v][s] = "none" <=> job[v] = "none"
    /\ \A s \in Step : job[v] = "succeeded" => step[v][s] = "succeeded"

\* StepsAgree says the same of every version.
LEMMA AgreeByVersion ==
    /\ StepsAgree <=> \A v \in Version : VersionAgrees(v)
    /\ StepsAgree' <=> \A v \in Version : VersionAgrees(v)'
BY DEF StepsAgree, JobTracksVersion, StepsRunInOrder, VersionAgrees

\* A version whose state, job and steps do not change agrees as before.
LEMMA OthersAgree ==
    ASSUME NEW v \in Version, VersionAgrees(v),
           version'[v] = version[v], job'[v] = job[v],
           \A t \in Step : step'[v][t] = step[v][t]
    PROVE  VersionAgrees(v)'
BY DEF VersionAgrees

\* Every transaction keeps version, job and steps in agreement.
LEMMA RowsAgree ==
    ASSUME RowsTypeOK, StepsAgree, NEW v \in Version, RowStep(v)
    PROVE  StepsAgree'
<1> SUFFICES ASSUME NEW x \in Version PROVE VersionAgrees(x)'
  BY AgreeByVersion
<1>0. VersionAgrees(x) /\ VersionAgrees(v)
  BY AgreeByVersion
<1>s. ValidateCatalog \in Step /\ IncusIndex \in Step /\ FinalizePublish \in Step
  BY DEF Step
<1>1. CASE ManifestWrite(v)
  BY <1>0, <1>1, OthersAgree DEF ManifestWrite, AddArtifact, AddAttachment, DeleteArtifact,
     DeleteAttachment, progress
<1>2. CASE EnqueueVersion(v)
  <2>1. CASE x = v
    BY <1>0, <1>2, <2>1 DEF EnqueueVersion, RowsTypeOK, VersionAgrees
  <2>2. CASE x # v
    BY <1>0, <1>2, <2>2, OthersAgree DEF EnqueueVersion, RowsTypeOK
  <2> QED BY <2>1, <2>2
<1>3. CASE RetryJob(v)
  <2>1. CASE x = v
    BY <1>0, <1>3, <2>1 DEF RetryJob, Requeued, RowsTypeOK, VersionAgrees
  <2>2. CASE x # v
    BY <1>0, <1>3, <2>2, OthersAgree DEF RetryJob, RowsTypeOK
  <2> QED BY <2>1, <2>2
<1>4. ASSUME NEW s \in Step, NEW w \in Worker, ClaimStep(v, s, w) PROVE VersionAgrees(x)'
  <2>1. /\ \A t \in Step : step'[x][t] = IF x = v /\ t = s THEN "running" ELSE step[x][t]
        /\ version' = version
        /\ job'[x] = IF x = v THEN "running" ELSE job[x]
    BY <1>4 DEF ClaimStep, RowsTypeOK
  <2>2. CASE x = v
    BY <1>0, <1>4, <2>1, <2>2 DEF ClaimStep, Claimable, PreviousSucceeded, VersionAgrees, Step,
       ValidateCatalog, IncusIndex, FinalizePublish
  <2>3. CASE x # v
    BY <1>0, <2>1, <2>3, OthersAgree
  <2> QED BY <2>2, <2>3
<1>5. ASSUME NEW s \in Step, step[v][s] = "running", EndStep(v, s, "succeeded"),
             UNCHANGED <<version, job>>
      PROVE  VersionAgrees(x)'
  <2>1. \A t \in Step : step'[x][t] = IF x = v /\ t = s THEN "succeeded" ELSE step[x][t]
    BY <1>5, EndStepEffect
  <2> QED BY <1>0, <1>5, <2>1 DEF VersionAgrees
<1>6. CASE step[v][ValidateCatalog] = "running" /\ ValidateSucceeds(v)
  BY <1>s, <1>5, <1>6 DEF ValidateSucceeds
<1>7. CASE step[v][IncusIndex] = "running" /\ IndexWrite(v)
  BY <1>s, <1>5, <1>7 DEF IndexWrite, IndexSucceeds
<1>8. CASE step[v][FinalizePublish] = "running" /\ FinalizeSucceeds(v)
  <2>1. \A t \in Step : step'[x][t] = IF x = v /\ t = FinalizePublish THEN "succeeded" ELSE step[x][t]
    BY <1>s, <1>8, EndStepEffect DEF FinalizeSucceeds
  <2>2. CASE x = v
    <3>1. \A t \in Step : step'[v][t] = "succeeded"
      BY <1>8, <2>1, <2>2 DEF FinalizeSucceeds, PreviousSucceeded, Step, ValidateCatalog,
         IncusIndex, FinalizePublish
    <3> QED BY <1>s, <1>8, <2>2, <3>1 DEF FinalizeSucceeds, VersionAgrees, RowsTypeOK
  <2>3. CASE x # v
    BY <1>0, <1>8, <2>1, <2>3, OthersAgree DEF FinalizeSucceeds, RowsTypeOK
  <2> QED BY <2>2, <2>3
<1>9. ASSUME NEW s \in Step, step[v][s] = "running", FailStep(v, s) PROVE VersionAgrees(x)'
  <2>1. \A t \in Step : step'[x][t] = IF x = v /\ t = s THEN "failed" ELSE step[x][t]
    BY <1>9, EndStepEffect DEF FailStep
  <2>2. CASE x = v
    <3>1. /\ job[v] \in {"queued", "running"} /\ job'[v] = "failed"
          /\ version'[v] = version[v]
      BY <1>9 DEF FailStep, RowsTypeOK
    <3>2. \A t \in Step : step'[v][t] = IF t = s THEN "failed" ELSE step[v][t]
      BY <2>1, <2>2
    <3>3. \A t \in Step : step[v][t] # "none" /\ step[v][t] # "failed"
      BY <1>0, <3>1 DEF VersionAgrees
    <3>4. \A p, t \in Step :
             p < t /\ step'[v][t] \in {"running", "succeeded", "failed"} => step'[v][p] = "succeeded"
      BY <1>0, <1>9, <3>2 DEF VersionAgrees
    <3> QED BY <1>0, <1>9, <2>2, <3>1, <3>2, <3>3, <3>4 DEF VersionAgrees
  <2>3. CASE x # v
    BY <1>0, <1>9, <2>1, <2>3, OthersAgree DEF FailStep, RowsTypeOK
  <2> QED BY <2>2, <2>3
<1> QED BY <1>1, <1>2, <1>3, <1>4, <1>6, <1>7, <1>8, <1>9 DEF RowStep

-----------------------------------------------------------------------------
(* Manifests and the index.                                                 *)

\* A projection row computed from a manifest is a row of the manifest.
LEMMA IncusRowsExist ==
    ASSUME NEW v \in Version, NEW r \in IncusRows(v)
    PROVE  disk[v][r.artifact] = r.disk /\ meta[v][r.artifact] = r.meta
BY DEF IncusRows

\* A manifest write changes one version, and leaves rows for what is still declared.
LEMMA WritesKeepRows ==
    ASSUME RowsTypeOK, ProjectionRowsExist, AttachmentsExist, NEW v \in Version, ManifestWrite(v)
    PROVE  ProjectionRowsExist' /\ AttachmentsExist'
<1>0. PICK a \in Artifact, b \in Blob :
        AddArtifact(v, a, b) \/ AddAttachment(v, a, b) \/ DeleteArtifact(v, a) \/ DeleteAttachment(v, a)
  BY DEF ManifestWrite
<1>1. \A x \in Version : \A r \in projection[x] :
        /\ r.artifact \in Artifact /\ r.disk \in Blob /\ r.meta \in Blob
        /\ disk[x][r.artifact] = r.disk /\ meta[x][r.artifact] = r.meta
  BY DEF RowsTypeOK, ProjectionRow, ProjectionRowsExist
<1>2. ASSUME NEW new \in Blob \cup {None}
      PROVE  /\ \A x \in Version, y \in Artifact :
                  [disk EXCEPT ![v][a] = new][x][y] = IF x = v /\ y = a THEN new ELSE disk[x][y]
             /\ \A x \in Version, y \in Artifact :
                  [meta EXCEPT ![v][a] = new][x][y] = IF x = v /\ y = a THEN new ELSE meta[x][y]
  BY DEF RowsTypeOK
<1>3. \A x \in Version : \A r \in ProjectionWithout(v, a)[x] :
        r \in projection[x] /\ (x = v => r.artifact # a)
  BY DEF ProjectionWithout, RowsTypeOK
<1>4. CASE AddArtifact(v, a, b)
  BY <1>1, <1>2, <1>4, AbsenceAssumption DEF AddArtifact, ProjectionRowsExist, AttachmentsExist
<1>5. CASE AddAttachment(v, a, b)
  BY <1>1, <1>2, <1>5, AbsenceAssumption DEF AddAttachment, ProjectionRowsExist, AttachmentsExist
<1>6. CASE DeleteArtifact(v, a)
  BY <1>1, <1>2, <1>3, <1>6 DEF DeleteArtifact, ProjectionRowsExist, AttachmentsExist
<1>7. CASE DeleteAttachment(v, a)
  BY <1>1, <1>2, <1>3, <1>7 DEF DeleteAttachment, ProjectionRowsExist, AttachmentsExist
<1> QED BY <1>0, <1>4, <1>5, <1>6, <1>7

\* Every transaction keeps the foreign keys.
LEMMA RowsExistStill ==
    ASSUME RowsTypeOK, ProjectionRowsExist, AttachmentsExist, NEW v \in Version, RowStep(v)
    PROVE  ProjectionRowsExist' /\ AttachmentsExist'
<1>1. CASE UNCHANGED <<manifest, projection>>
  BY <1>1 DEF manifest, ProjectionRowsExist, AttachmentsExist
<1>2. CASE ManifestWrite(v)
  BY <1>2, WritesKeepRows
<1>3. CASE IndexWrite(v)
  <2>1. PICK new : /\ new \subseteq IncusRows(v)
                   /\ projection' = [projection EXCEPT ![v] = new]
                   /\ UNCHANGED manifest
    BY <1>3 DEF IndexWrite, IndexSucceeds, RowsExist
  <2>2. \A x \in Version : projection'[x] = IF x = v THEN new ELSE projection[x]
    BY <2>1 DEF RowsTypeOK
  <2> QED BY <2>1, <2>2, IncusRowsExist DEF manifest, ProjectionRowsExist, AttachmentsExist
<1> QED BY <1>1, <1>2, <1>3 DEF RowStep, EnqueueVersion, RetryJob, ClaimStep, ValidateSucceeds,
           FinalizeSucceeds, FailStep

\* A version has artifacts, and cites nothing but verified blobs.
Citable(v) ==
    /\ \E a \in Artifact : disk[v][a] # None
    /\ \A a \in Artifact : {disk[v][a], meta[v][a]} \subseteq trusted \cup {None}

\* What ManifestsStand says of the rows of one version.
RowsStand(v) ==
    /\ version[v] # "draft" => Citable(v)
    /\ step[v][IncusIndex] = "succeeded" => projection[v] = IncusRows(v)

\* What a transaction leaves alone while manifests are written only in draft.
LEMMA OnlyDraftsChange ==
    ASSUME RowsTypeOK, ~LateWrites, NEW v \in Version, RowStep(v), NEW x \in Version
    PROVE  /\ trusted' = trusted
           /\ x # v => /\ version'[x] = version[x] /\ disk'[x] = disk[x] /\ meta'[x] = meta[x]
                       /\ step'[x] = step[x] /\ projection'[x] = projection[x]
           /\ version[x] # "draft" => disk'[x] = disk[x] /\ meta'[x] = meta[x]
<1> USE DEF RowsTypeOK, manifest, progress
<1>1. CASE ManifestWrite(v)
  BY <1>1 DEF ManifestWrite, AddArtifact, AddAttachment, DeleteArtifact, DeleteAttachment,
     ProjectionWithout
<1>2. CASE EnqueueVersion(v) \/ RetryJob(v)
  BY <1>2 DEF EnqueueVersion, RetryJob
<1>3. CASE \E s \in Step, w \in Worker : ClaimStep(v, s, w)
  BY <1>3 DEF ClaimStep
<1>4. CASE ValidateSucceeds(v) \/ FinalizeSucceeds(v) \/ \E s \in Step : FailStep(v, s)
  BY <1>4 DEF ValidateSucceeds, FinalizeSucceeds, FailStep, EndStep
<1>5. CASE IndexWrite(v)
  BY <1>5 DEF IndexWrite, IndexSucceeds, EndStep
<1> QED BY <1>1, <1>2, <1>3, <1>4, <1>5 DEF RowStep

\* Every transaction keeps what is known of frozen manifests and finished indexes.
LEMMA RowsStandStill ==
    ASSUME RowsTypeOK, StepsAgree, AttachmentsExist, ~LateWrites,
           NEW v \in Version, RowStep(v), NEW x \in Version, RowsStand(x)
    PROVE  RowsStand(x)'
<1>0. /\ trusted' = trusted
      /\ version[x] # "draft" => disk'[x] = disk[x] /\ meta'[x] = meta[x]
  BY OnlyDraftsChange
<1>1. CASE x # v
  BY <1>1, OnlyDraftsChange DEF RowsStand, Citable, IncusRows
<1>2. CASE x = v
  <2>s. ValidateCatalog \in Step /\ IncusIndex \in Step /\ FinalizePublish \in Step
        /\ ValidateCatalog # IncusIndex /\ FinalizePublish # IncusIndex
    BY DEF Step, ValidateCatalog, IncusIndex, FinalizePublish
  <2>a. VersionAgrees(v)
    BY AgreeByVersion
  <2>0. ASSUME version[v] # "draft", version'[v] # "draft", projection'[v] = projection[v],
               step'[v][IncusIndex] = "succeeded" => step[v][IncusIndex] = "succeeded"
        PROVE  RowsStand(v)'
    BY <1>0, <1>2, <2>0 DEF RowsStand, Citable, IncusRows
  <2>1. CASE ManifestWrite(v)
    <3>1. version'[v] = "draft" /\ step'[v][IncusIndex] = "none"
      BY <2>1, <2>a, <2>s DEF ManifestWrite, AddArtifact, AddAttachment, DeleteArtifact,
         DeleteAttachment, VersionAgrees, progress
    <3> QED BY <1>2, <3>1 DEF RowsStand
  <2>2. CASE EnqueueVersion(v)
    <3>1. step'[v][IncusIndex] = "queued"
      BY <2>2, <2>s DEF EnqueueVersion, RowsTypeOK
    <3>2. Citable(v)
      BY <2>2 DEF EnqueueVersion, Publishable, Declared, Citable, AttachmentsExist
    <3>3. Citable(v)'
      BY <2>2, <3>2 DEF EnqueueVersion, manifest, Citable
    <3> QED BY <1>2, <3>1, <3>3 DEF RowsStand
  <2>3. CASE RetryJob(v)
    BY <1>2, <2>0, <2>3, <2>s DEF RetryJob, Requeued, RowsTypeOK
  <2>4. CASE \E s \in Step, w \in Worker : ClaimStep(v, s, w)
    BY <1>2, <2>0, <2>4, <2>s, <2>a DEF ClaimStep, Claimable, VersionAgrees, RowsTypeOK
  <2>5. ASSUME NEW s \in Step, NEW o, s # IncusIndex \/ o # "succeeded", EndStep(v, s, o)
        PROVE  step'[v][IncusIndex] = "succeeded" => step[v][IncusIndex] = "succeeded"
    BY <2>5, <2>s, EndStepEffect
  <2>6. CASE step[v][ValidateCatalog] = "running" /\ ValidateSucceeds(v)
    BY <1>2, <2>0, <2>5, <2>6, <2>s, <2>a DEF ValidateSucceeds, VersionAgrees
  <2>7. CASE IndexWrite(v) /\ step[v][IncusIndex] = "running"
    <3>1. projection'[v] = IncusRows(v)
      BY <2>7 DEF IndexWrite, IndexSucceeds, RowsTypeOK
    <3>2. version'[v] = version[v] /\ version[v] # "draft"
      BY <2>7, <2>a, <2>s DEF IndexWrite, IndexSucceeds, VersionAgrees
    <3> QED BY <1>0, <1>2, <3>1, <3>2 DEF RowsStand, Citable, IncusRows
  <2>8. CASE FinalizeSucceeds(v)
    BY <1>2, <2>0, <2>5, <2>8, <2>s DEF FinalizeSucceeds, RowsTypeOK
  <2>9. ASSUME NEW s \in Step, step[v][s] = "running", FailStep(v, s) PROVE RowsStand(v)'
    BY <2>0, <2>5, <2>9, <2>a DEF FailStep, VersionAgrees
  <2> QED BY <1>2, <2>1, <2>2, <2>3, <2>4, <2>6, <2>7, <2>8, <2>9 DEF RowStep
<1> QED BY <1>1, <1>2

\* A job, once there, stays.
LEMMA JobsStay ==
    ASSUME RowsTypeOK, Ripple \/ \E v \in Version : RowStep(v), NEW x \in Version, job[x] # "none"
    PROVE  job'[x] # "none"
<1> USE DEF RowsTypeOK
<1>1. CASE UNCHANGED job
  BY <1>1
<1>2. ASSUME NEW v \in Version,
             \/ EnqueueVersion(v) \/ RetryJob(v) \/ FinalizeSucceeds(v)
             \/ \E s \in Step : FailStep(v, s)
             \/ \E s \in Step, w \in Worker : ClaimStep(v, s, w)
      PROVE  job'[x] # "none"
  BY <1>2 DEF EnqueueVersion, RetryJob, FinalizeSucceeds, FailStep, ClaimStep
<1> QED BY <1>1, <1>2 DEF Ripple, RowStep, ManifestWrite, AddArtifact, AddAttachment, DeleteArtifact,
           DeleteAttachment, ValidateSucceeds, IndexWrite, IndexSucceeds, progress

-----------------------------------------------------------------------------
(* Workers and editors.                                                     *)

\* What one step of the system can do to a worker.
LEMMA WorkerMoves ==
    ASSUME Inductive, [Next]_vars, NEW w \in Worker
    PROVE  \/ work'[w] = work[w]
           \/ work'[w] = NoWork
           \/ \E v \in Version, s \in Step :
                /\ job'[v] = "running"
                /\ work'[w] = [at |-> "run", v |-> v, s |-> s, n |-> attempt[v][s] + 1, rows |-> {}]
           \/ work[w].at # "idle" /\ work'[w] = [work[w] EXCEPT !.at = "fail"]
           \/ /\ work[w].at = "run" /\ work[w].s = IncusIndex /\ UNCHANGED rows
              /\ Readable(IncusRows(work[w].v))
              /\ work'[w] = [work[w] EXCEPT !.at = "store", !.rows = IncusRows(work[w].v)]
<1>0. /\ work \in [Worker -> {NoWork} \cup [at : WorkAt \ {"idle"}, v : Version, s : Step, n : Nat,
                                            rows : SUBSET ProjectionRow]]
      /\ RowsTypeOK
  BY DEF Inductive, TypeOK
<1>1. CASE UNCHANGED work
  BY <1>1
<1>2. ASSUME NEW x \in Worker, UNCHANGED work \/ Return(x) \/ (work[x].at # "idle" /\ Goto(x, "fail"))
      PROVE  \/ work'[w] = work[w] \/ work'[w] = NoWork
             \/ work[w].at # "idle" /\ work'[w] = [work[w] EXCEPT !.at = "fail"]
  BY <1>0, <1>2 DEF Return, Goto
<1>3. ASSUME NEW x \in Worker, NEW v \in Version, NEW s \in Step, Claim(x, v, s)
      PROVE  \/ work'[w] = work[w]
             \/ /\ job'[v] = "running"
                /\ work'[w] = [at |-> "run", v |-> v, s |-> s, n |-> attempt[v][s] + 1, rows |-> {}]
  BY <1>0, <1>3 DEF Claim, ClaimStep, RowsTypeOK
<1>4. ASSUME NEW x \in Worker, IndexVersion(x)
      PROVE  \/ work'[w] = work[w]
             \/ work[w].at # "idle" /\ work'[w] = [work[w] EXCEPT !.at = "fail"]
             \/ /\ work[w].at = "run" /\ work[w].s = IncusIndex /\ UNCHANGED rows
                /\ Readable(IncusRows(work[w].v))
                /\ work'[w] = [work[w] EXCEPT !.at = "store", !.rows = IncusRows(work[w].v)]
  BY <1>0, <1>4 DEF IndexVersion, Goto
<1>5. ASSUME NEW x \in Worker, SucceedStep(x) \/ FailClaimedStep(x) \/ Abandon(x)
      PROVE  UNCHANGED work \/ Return(x) \/ (work[x].at # "idle" /\ Goto(x, "fail"))
  BY <1>5 DEF SucceedStep, FailClaimedStep, Abandon, Ending
<1>6. ASSUME NEW x \in Worker, WorkStepOf(x) \/ Abandon(x)
      PROVE  \/ UNCHANGED work \/ Return(x) \/ (work[x].at # "idle" /\ Goto(x, "fail"))
             \/ IndexVersion(x) \/ \E v \in Version, s \in Step : Claim(x, v, s)
  BY <1>5, <1>6 DEF WorkStepOf
<1>7. UNCHANGED work \/ \E x \in Worker : WorkStepOf(x) \/ Abandon(x)
  BY DEF Next, CheckDraft, CommitEdit, TrustBlob, PublishVersion, RetryPublishJob, LeaseExpires, vars
<1>8. ASSUME NEW x \in Worker, WorkStepOf(x) \/ Abandon(x)
      PROVE  \/ work'[w] = work[w]
             \/ work'[w] = NoWork
             \/ \E v \in Version, s \in Step :
                  /\ job'[v] = "running"
                  /\ work'[w] = [at |-> "run", v |-> v, s |-> s, n |-> attempt[v][s] + 1, rows |-> {}]
             \/ work[w].at # "idle" /\ work'[w] = [work[w] EXCEPT !.at = "fail"]
             \/ /\ work[w].at = "run" /\ work[w].s = IncusIndex /\ UNCHANGED rows
                /\ Readable(IncusRows(work[w].v))
                /\ work'[w] = [work[w] EXCEPT !.at = "store", !.rows = IncusRows(work[w].v)]
  <2>1. CASE UNCHANGED work \/ Return(x) \/ (work[x].at # "idle" /\ Goto(x, "fail"))
    BY <1>2, <2>1
  <2>2. CASE IndexVersion(x)
    BY <1>4, <2>2
  <2>3. CASE \E v \in Version, s \in Step : Claim(x, v, s)
    BY <1>3, <2>3
  <2> QED BY <1>6, <1>8, <2>1, <2>2, <2>3
<1> QED BY <1>1, <1>7, <1>8

\* The index a worker is about to store is the one the manifest defines.
IndexCurrent(w) == work[w].at = "store" => work[w].rows = IncusRows(work[w].v)

\* Workers keep their type, and what they know of their job and index.
LEMMA WorkersStill ==
    ASSUME Inductive, [Next]_vars, NEW w \in Worker
    PROVE  /\ work'[w] \in {NoWork} \cup [at : WorkAt \ {"idle"}, v : Version, s : Step, n : Nat,
                                           rows : SUBSET ProjectionRow]
           /\ work'[w].at # "idle" =>
                job'[work'[w].v] # "none" /\ (work'[w].at = "store" => work'[w].s = IncusIndex)
           /\ ~LateWrites => IndexCurrent(w)'
<1> DEFINE W == [at : WorkAt \ {"idle"}, v : Version, s : Step, n : Nat, rows : SUBSET ProjectionRow]
           x == work[w].v
<1>0. /\ RowsTypeOK /\ StepsAgree /\ AttachmentsExist
      /\ work[w] \in {NoWork} \cup W
      /\ work[w].at # "idle" => /\ work[w] \in W /\ x \in Version /\ job[x] # "none"
                                /\ work[w].at = "store" => work[w].s = IncusIndex
                                /\ ~LateWrites /\ work[w].at = "store" => work[w].rows = IncusRows(x)
  BY DEF Inductive, TypeOK, WorkersKnow, ManifestsStand, NoWork
<1>1. Ripple \/ \E v \in Version : RowStep(v)
  BY StepsAreRowSteps
<1>2. work[w].at # "idle" => job'[x] # "none"
  BY <1>0, <1>1, JobsStay
<1>3. work[w].at # "idle" /\ ~LateWrites => disk'[x] = disk[x] /\ meta'[x] = meta[x]
  <2>1. SUFFICES ASSUME work[w].at # "idle", ~LateWrites PROVE disk'[x] = disk[x] /\ meta'[x] = meta[x]
    OBVIOUS
  <2>2. version[x] # "draft"
    BY <1>0, <2>1, AgreeByVersion DEF VersionAgrees
  <2>3. CASE Ripple
    BY <2>3 DEF Ripple, manifest
  <2> QED BY <1>0, <1>1, <2>1, <2>2, <2>3, OnlyDraftsChange
<1>4. CASE work'[w] = work[w]
  BY <1>0, <1>2, <1>3, <1>4 DEF IndexCurrent, IncusRows
<1>5. CASE work'[w] = NoWork
  BY <1>5 DEF NoWork, IndexCurrent
<1>6. ASSUME NEW v \in Version, NEW s \in Step, job'[v] = "running",
             work'[w] = [at |-> "run", v |-> v, s |-> s, n |-> attempt[v][s] + 1, rows |-> {}]
      PROVE  work'[w] \in W /\ work'[w].at = "run" /\ job'[work'[w].v] # "none"
  BY <1>0, <1>6 DEF RowsTypeOK, WorkAt
<1>7. CASE work[w].at # "idle" /\ work'[w] = [work[w] EXCEPT !.at = "fail"]
  <2>1. work'[w] \in W /\ work'[w].at = "fail" /\ work'[w].v = x
    BY <1>0, <1>7 DEF WorkAt
  <2> QED BY <1>2, <1>7, <2>1 DEF IndexCurrent
<1>8. CASE /\ work[w].at = "run" /\ work[w].s = IncusIndex /\ UNCHANGED rows
           /\ work'[w] = [work[w] EXCEPT !.at = "store", !.rows = IncusRows(x)]
  <2>1. IncusRows(x) \in SUBSET ProjectionRow
    BY <1>0, <1>8, IncusRowsType
  <2>2. /\ work'[w] \in W /\ work'[w].at = "store" /\ work'[w].v = x
        /\ work'[w].s = IncusIndex /\ work'[w].rows = IncusRows(x)
    BY <1>0, <1>8, <2>1 DEF WorkAt
  <2>3. disk' = disk /\ meta' = meta
    BY <1>8 DEF rows, manifest
  <2>4. IndexCurrent(w)'
    BY <2>2, <2>3 DEF IndexCurrent, IncusRows
  <2> QED BY <1>2, <1>8, <2>2, <2>4
<1> QED BY <1>4, <1>5, <1>6, <1>7, <1>8, WorkerMoves DEF IndexCurrent

\* Edits and answers keep their types.
LEMMA RequestTypes ==
    ASSUME TypeOK, [Next]_vars
    PROVE  /\ edit' \in [Editor -> {NoEdit} \cup [op : EditOp, v : Version, a : Artifact, b : Blob]]
           /\ answer' \in [Version -> {"none", "queued", "refused"}]
<1> USE DEF TypeOK
<1>1. ASSUME NEW e \in Editor, NEW op \in EditOp, NEW v \in Version, NEW a \in Artifact, NEW b \in Blob,
             CheckDraft(e, op, v, a, b)
      PROVE  /\ edit' \in [Editor -> {NoEdit} \cup [op : EditOp, v : Version, a : Artifact, b : Blob]]
             /\ UNCHANGED answer
  BY <1>1 DEF CheckDraft
<1>2. ASSUME NEW e \in Editor, CommitEdit(e)
      PROVE  /\ edit' \in [Editor -> {NoEdit} \cup [op : EditOp, v : Version, a : Artifact, b : Blob]]
             /\ UNCHANGED answer
  BY <1>2 DEF CommitEdit
<1>3. ASSUME NEW v \in Version, PublishVersion(v)
      PROVE  UNCHANGED edit /\ answer' \in [Version -> {"none", "queued", "refused"}]
  BY <1>3 DEF PublishVersion
<1>4. ASSUME NEW w \in Worker, WorkStepOf(w) \/ Abandon(w) PROVE UNCHANGED <<edit, answer>>
  BY <1>4 DEF WorkStepOf, Claim, IndexVersion, SucceedStep, FailClaimedStep, Abandon
<1>5. CASE UNCHANGED <<edit, answer>>
  BY <1>5
<1> QED BY <1>1, <1>2, <1>3, <1>4, <1>5 DEF Next, TrustBlob, RetryPublishJob, LeaseExpires, vars

\* A manifest write that was checked and not committed keeps its version in draft,
\* as long as no write commits late.
LEMMA EditsStill ==
    ASSUME Inductive, [Next]_vars, ~LateWrites, NEW e \in Editor, edit'[e] # NoEdit
    PROVE  version'[edit'[e].v] = "draft"
<1>0. /\ edit \in [Editor -> {NoEdit} \cup [op : EditOp, v : Version, a : Artifact, b : Blob]]
      /\ edit[e] # NoEdit => edit[e].v \in Version /\ version[edit[e].v] = "draft"
      /\ RowsTypeOK
  BY DEF Inductive, TypeOK, ManifestsStand
<1>1. ASSUME UNCHANGED <<version, edit>> PROVE version'[edit'[e].v] = "draft"
  BY <1>0, <1>1
<1>2. ASSUME NEW d \in Editor, NEW op \in EditOp, NEW v \in Version, NEW a \in Artifact, NEW b \in Blob,
             CheckDraft(d, op, v, a, b)
      PROVE  version'[edit'[e].v] = "draft"
  BY <1>0, <1>2 DEF CheckDraft, rows
<1>3. ASSUME NEW d \in Editor, CommitEdit(d) PROVE version'[edit'[e].v] = "draft"
  <2>1. UNCHANGED version
    BY <1>3 DEF CommitEdit, AddArtifact, AddAttachment, DeleteArtifact, DeleteAttachment, rows
  <2>2. edit'[e] = edit[e]
    BY <1>0, <1>3 DEF CommitEdit
  <2> QED BY <1>0, <2>1, <2>2
<1>4. ASSUME NEW v \in Version, PublishVersion(v) PROVE version'[edit'[e].v] = "draft"
  BY <1>0, <1>4 DEF PublishVersion, Unedited, EnqueueVersion, RowsTypeOK, rows
<1>5. ASSUME NEW w \in Worker, WorkStepOf(w) \/ Abandon(w) PROVE version'[edit'[e].v] = "draft"
  <2>1. UNCHANGED edit
    BY <1>5 DEF WorkStepOf, Claim, IndexVersion, SucceedStep, FailClaimedStep, Abandon
  <2>2. UNCHANGED version \/ FinalizeSucceeds(work[w].v)
    BY <1>5 DEF WorkStepOf, Claim, ClaimStep, IndexVersion, SucceedStep, Succeeds, ValidateSucceeds,
       IndexSucceeds, Refused, FailClaimedStep, FailStep, Abandon, rows
  <2> QED BY <1>0, <2>1, <2>2 DEF FinalizeSucceeds, RowsTypeOK
<1> QED BY <1>1, <1>2, <1>3, <1>4, <1>5 DEF Next, TrustBlob, RetryPublishJob, RetryJob, LeaseExpires, vars, rows

-----------------------------------------------------------------------------
(* The inductive invariant.                                                 *)

LEMMA InductiveInit == Init => Inductive
<1> SUFFICES ASSUME Init PROVE Inductive
  OBVIOUS
<1>1. TypeOK
  BY TypeInit
<1>2. StepsAgree
  BY DEF Init, RowsInit, StepsAgree, JobTracksVersion, StepsRunInOrder
<1>3. ProjectionRowsExist /\ AttachmentsExist /\ WorkersKnow
  BY DEF Init, RowsInit, ProjectionRowsExist, AttachmentsExist, WorkersKnow, NoWork
<1>4. ManifestsStand
  BY DEF Init, RowsInit, ManifestsStand, NoWork, Step, IncusIndex
<1> QED BY <1>1, <1>2, <1>3, <1>4 DEF Inductive

LEMMA InductiveNext == Inductive /\ [Next]_vars => Inductive'
<1> SUFFICES ASSUME Inductive, [Next]_vars PROVE Inductive'
  OBVIOUS
<1>0. /\ TypeOK /\ RowsTypeOK /\ StepsAgree /\ ProjectionRowsExist /\ AttachmentsExist
      /\ WorkersKnow /\ (LateWrites \/ ManifestsStand)
  BY DEF Inductive, TypeOK
<1>1. Ripple \/ \E v \in Version : RowStep(v)
  BY StepsAreRowSteps
<1>2. TypeOK'
  <2>1. DOMAIN work' = Worker /\ work' = [w \in Worker |-> work'[w]]
    BY <1>0 DEF TypeOK, Next, CheckDraft, CommitEdit, TrustBlob, PublishVersion, RetryPublishJob,
       WorkStepOf, Claim, IndexVersion, SucceedStep, FailClaimedStep, Abandon, LeaseExpires,
       Goto, Return, vars
  <2> QED BY <1>0, <1>1, <2>1, RowTypes, RequestTypes, WorkersStill DEF TypeOK
<1>3. StepsAgree'
  <2>1. CASE Ripple
    BY <1>0, <2>1 DEF Ripple, StepsAgree, JobTracksVersion, StepsRunInOrder
  <2> QED BY <1>0, <1>1, <2>1, RowsAgree
<1>4. ProjectionRowsExist' /\ AttachmentsExist'
  <2>1. CASE Ripple
    BY <1>0, <2>1 DEF Ripple, manifest, ProjectionRowsExist, AttachmentsExist
  <2> QED BY <1>0, <1>1, <2>1, RowsExistStill
<1>5. WorkersKnow'
  BY WorkersStill DEF WorkersKnow
<1>6. ASSUME ~LateWrites PROVE ManifestsStand'
  <2>1. \A v \in Version : RowsStand(v)
    BY <1>0, <1>6 DEF ManifestsStand, RowsStand, Citable
  <2>2. ASSUME NEW v \in Version PROVE RowsStand(v)'
    <3>1. CASE Ripple
      BY <2>1, <3>1 DEF Ripple, manifest, RowsStand, Citable, IncusRows
    <3> QED BY <1>0, <1>1, <1>6, <2>1, <3>1, RowsStandStill
  <2>3. \A e \in Editor : edit'[e] # NoEdit => version'[edit'[e].v] = "draft"
    BY <1>6, EditsStill
  <2>4. \A w \in Worker : IndexCurrent(w)'
    BY <1>6, WorkersStill
  <2> QED BY <2>2, <2>3, <2>4 DEF ManifestsStand, RowsStand, Citable, IndexCurrent
<1> QED BY <1>2, <1>3, <1>4, <1>5, <1>6 DEF Inductive

\* The inductive invariant holds for every number of versions, artifacts, editors and
\* workers, wherever workers stop and whichever requests fail.
THEOREM InductiveHolds == Spec => []Inductive
<1>1. Inductive /\ [Next]_vars => Inductive'
  BY InductiveNext
<1> QED BY InductiveInit, <1>1, PTL DEF Spec

\* Every row, edit, answer and worker of the publish path keeps its type.
THEOREM TypeCorrect == Spec => []TypeOK
<1>1. Inductive => TypeOK
  BY DEF Inductive
<1> QED BY InductiveHolds, <1>1, PTL

\* Version, job and steps agree at every commit, whatever workers do.
THEOREM JobsTrackVersions == Spec => []JobTracksVersion
<1>1. Inductive => JobTracksVersion
  BY DEF Inductive, StepsAgree
<1> QED BY InductiveHolds, <1>1, PTL

\* No step starts before the steps it depends on succeeded.
THEOREM StepsAreOrdered == Spec => []StepsRunInOrder
<1>1. Inductive => StepsRunInOrder
  BY DEF Inductive, StepsAgree
<1> QED BY InductiveHolds, <1>1, PTL

\* Projection rows name what the catalog declares, even with late manifest writes.
THEOREM ProjectionsAreBacked == Spec => []ProjectionRowsExist
<1>1. Inductive => ProjectionRowsExist
  BY DEF Inductive
<1> QED BY InductiveHolds, <1>1, PTL

\* A published version cites only verified blobs, if no manifest write commits late.
THEOREM PublishedVersionsAreVerified == ~LateWrites /\ Spec => []PublishedIsVerified
<1>1. ~LateWrites /\ Inductive => PublishedIsVerified
  BY DEF Inductive, ManifestsStand, PublishedIsVerified
<1>2. ASSUME ~LateWrites PROVE Spec => []PublishedIsVerified
  <2>1. Inductive => PublishedIsVerified
    BY <1>1, <1>2
  <2> QED BY InductiveHolds, <2>1, PTL
<1> QED BY <1>2

\* Its index is the one its manifest defines, on the same condition.
THEOREM PublishedIndexIsComplete == ~LateWrites /\ Spec => []ProjectionMatchesManifest
<1>1. ASSUME ~LateWrites, Inductive PROVE ProjectionMatchesManifest
  BY <1>1 DEF Inductive, ManifestsStand, StepsAgree, JobTracksVersion, ProjectionMatchesManifest, Step
<1>2. ASSUME ~LateWrites PROVE Spec => []ProjectionMatchesManifest
  <2>1. Inductive => ProjectionMatchesManifest
    BY <1>1, <1>2
  <2> QED BY InductiveHolds, <2>1, PTL
<1> QED BY <1>2

-----------------------------------------------------------------------------
(* The bytes behind the index.                                              *)

\* The rows a worker holds and the rows of the index are computed from trusted digests.
RowsAreReadable ==
    /\ ProjectionIsReadable
    /\ \A w \in Worker : Readable(work[w].rows)

\* Rows of the index disappear with what they name, or a worker stores those it holds.
LEMMA ProjectionMoves ==
    ASSUME Inductive, [Next]_vars, NEW v \in Version
    PROVE  projection'[v] \subseteq projection[v] \/ \E w \in Worker : projection'[v] = work[w].rows
<1>0. /\ projection \in [Version -> SUBSET ProjectionRow]
      /\ work \in [Worker -> {NoWork} \cup [at : WorkAt \ {"idle"}, v : Version, s : Step, n : Nat,
                                           rows : SUBSET ProjectionRow]]
  BY DEF Inductive, TypeOK, RowsTypeOK
<1>1. ASSUME NEW e \in Editor, CommitEdit(e) PROVE projection'[v] \subseteq projection[v]
  BY <1>0, <1>1 DEF CommitEdit, AddArtifact, AddAttachment, DeleteArtifact, DeleteAttachment,
     ProjectionWithout, rows
<1>2. ASSUME NEW w \in Worker, WorkStepOf(w) \/ Abandon(w)
      PROVE  projection' = projection \/ IndexSucceeds(work[w].v, work[w].rows)
  BY <1>2 DEF WorkStepOf, Claim, ClaimStep, IndexVersion, SucceedStep, Succeeds, ValidateSucceeds,
     FinalizeSucceeds, Refused, FailClaimedStep, FailStep, Abandon, rows
<1>3. ASSUME NEW w \in Worker, WorkStepOf(w) \/ Abandon(w)
      PROVE  projection'[v] \subseteq projection[v] \/ projection'[v] = work[w].rows
  BY <1>0, <1>2, <1>3 DEF IndexSucceeds
<1>4. CASE UNCHANGED projection
  BY <1>4
<1> QED BY <1>1, <1>3, <1>4 DEF Next, CheckDraft, TrustBlob, PublishVersion, EnqueueVersion,
     RetryPublishJob, RetryJob, LeaseExpires, rows, vars

\* Trust is never withdrawn: what could be read can still be read.
LEMMA ReadableStays ==
    ASSUME Inductive, [Next]_vars, NEW new, Readable(new), NEW old \in SUBSET new
    PROVE  Readable(old)'
<1>1. trusted \subseteq trusted'
  BY StepsAreRowSteps DEF Ripple, RowStep, ManifestWrite, AddArtifact, AddAttachment, DeleteArtifact,
     DeleteAttachment, EnqueueVersion, RetryJob, ClaimStep, ValidateSucceeds, IndexWrite, IndexSucceeds,
     FinalizeSucceeds, FailStep
<1> QED BY <1>1 DEF Readable

\* Rows are computed from what could be opened, and stored as they were computed.
LEMMA ReadableRows ==
    ASSUME Inductive, [Next]_vars, RowsAreReadable
    PROVE  RowsAreReadable'
<1>0. work \in [Worker -> {NoWork} \cup [at : WorkAt \ {"idle"}, v : Version, s : Step, n : Nat,
                                         rows : SUBSET ProjectionRow]]
  BY DEF Inductive, TypeOK
<1>1. ASSUME NEW w \in Worker PROVE Readable(work[w].rows)'
  <2>1. Readable(work[w].rows) /\ Readable({})
    BY DEF RowsAreReadable, Readable
  <2>2. ASSUME work'[w] = work[w] \/ (work[w].at # "idle" /\ work'[w] = [work[w] EXCEPT !.at = "fail"])
        PROVE  \E new : Readable(new) /\ work'[w].rows = new
    <3>1. work'[w].rows = work[w].rows
      BY <1>0, <2>2 DEF NoWork
    <3> QED BY <2>1, <3>1
  <2>3. ASSUME work'[w] = NoWork PROVE \E new : Readable(new) /\ work'[w].rows = new
    BY <2>1, <2>3 DEF NoWork
  <2>4. ASSUME NEW v \in Version, NEW s \in Step,
               work'[w] = [at |-> "run", v |-> v, s |-> s, n |-> attempt[v][s] + 1, rows |-> {}]
        PROVE  \E new : Readable(new) /\ work'[w].rows = new
    <3>1. work'[w].rows = {}
      BY <2>4
    <3> QED BY <2>1, <3>1
  <2>5. ASSUME Readable(IncusRows(work[w].v)), work[w].at = "run",
               work'[w] = [work[w] EXCEPT !.at = "store", !.rows = IncusRows(work[w].v)]
        PROVE  \E new : Readable(new) /\ work'[w].rows = new
    <3>1. work'[w].rows = IncusRows(work[w].v)
      BY <1>0, <2>5 DEF NoWork
    <3> QED BY <2>5, <3>1
  <2>6. \/ work'[w] = work[w] \/ (work[w].at # "idle" /\ work'[w] = [work[w] EXCEPT !.at = "fail"])
        \/ work'[w] = NoWork
        \/ \E v \in Version, s \in Step :
             work'[w] = [at |-> "run", v |-> v, s |-> s, n |-> attempt[v][s] + 1, rows |-> {}]
        \/ /\ Readable(IncusRows(work[w].v)) /\ work[w].at = "run"
           /\ work'[w] = [work[w] EXCEPT !.at = "store", !.rows = IncusRows(work[w].v)]
    BY WorkerMoves, ZenonT(60)
  <2>7. PICK new : Readable(new) /\ work'[w].rows = new
    BY <2>2, <2>3, <2>4, <2>5, <2>6, Zenon
  <2> QED BY <2>7, ReadableStays
<1>2. ASSUME NEW v \in Version PROVE Readable(projection[v])'
  <2>1. PICK new : Readable(new) /\ projection'[v] \subseteq new
    BY ProjectionMoves DEF RowsAreReadable, ProjectionIsReadable
  <2> QED BY <2>1, ReadableStays DEF Readable
<1> QED BY <1>1, <1>2 DEF RowsAreReadable, ProjectionIsReadable

\* Whatever manifest writes do, what the index names could be read when it was computed,
\* and can be read for ever.
THEOREM ProjectionsAreReadable == Spec => []ProjectionIsReadable
<1>1. Init => RowsAreReadable
  BY DEF Init, RowsInit, RowsAreReadable, ProjectionIsReadable, Readable, NoWork
<1>2. Inductive /\ RowsAreReadable /\ [Next]_vars => RowsAreReadable'
  BY ReadableRows
<1>3. RowsAreReadable => ProjectionIsReadable
  BY DEF RowsAreReadable
<1> QED BY InductiveHolds, <1>1, <1>2, <1>3, PTL DEF Spec

-----------------------------------------------------------------------------
(* What a step may never do.                                                *)

\* What a retry, a late worker or a second attempt finds succeeded stays so.
THEOREM SuccessIsFinal == Spec => SucceededStepsStay
<1>1. ASSUME Inductive, [Next]_vars, NEW x \in Version, NEW t \in Step, step[x][t] = "succeeded"
      PROVE  step'[x][t] = "succeeded"
  <2>0. RowsTypeOK /\ VersionAgrees(x)
    BY <1>1, AgreeByVersion DEF Inductive, TypeOK
  <2>1. CASE Ripple
    BY <1>1, <2>1 DEF Ripple
  <2>2. ASSUME NEW v \in Version, RowStep(v) PROVE step'[x][t] = "succeeded"
    <3>s. ValidateCatalog \in Step /\ IncusIndex \in Step /\ FinalizePublish \in Step
      BY DEF Step
    <3>1. CASE ManifestWrite(v)
      BY <1>1, <3>1 DEF ManifestWrite, AddArtifact, AddAttachment, DeleteArtifact, DeleteAttachment, progress
    <3>2. CASE EnqueueVersion(v)
      BY <1>1, <2>0, <3>2 DEF EnqueueVersion, RowsTypeOK, VersionAgrees
    <3>3. CASE RetryJob(v)
      BY <1>1, <2>0, <3>3 DEF RetryJob, Requeued, RowsTypeOK
    <3>4. CASE \E s \in Step, w \in Worker : ClaimStep(v, s, w)
      BY <1>1, <2>0, <3>4 DEF ClaimStep, Claimable, RowsTypeOK
    <3>5. ASSUME NEW s \in Step, NEW o, step[v][s] = "running", EndStep(v, s, o)
          PROVE  step'[x][t] = "succeeded"
      BY <1>1, <2>0, <3>5, EndStepEffect
    <3>6. CASE step[v][ValidateCatalog] = "running" /\ ValidateSucceeds(v)
      BY <3>s, <3>5, <3>6 DEF ValidateSucceeds
    <3>7. CASE step[v][IncusIndex] = "running" /\ IndexWrite(v)
      BY <3>s, <3>5, <3>7 DEF IndexWrite, IndexSucceeds
    <3>8. CASE step[v][FinalizePublish] = "running" /\ FinalizeSucceeds(v)
      BY <3>s, <3>5, <3>8 DEF FinalizeSucceeds
    <3>9. CASE \E s \in Step : step[v][s] = "running" /\ FailStep(v, s)
      BY <3>5, <3>9 DEF FailStep
    <3> QED BY <2>2, <3>1, <3>2, <3>3, <3>4, <3>6, <3>7, <3>8, <3>9 DEF RowStep
  <2> QED BY <1>1, <2>1, <2>2, StepsAreRowSteps
<1>2. Inductive /\ [Next]_vars =>
        [\A v \in Version, s \in Step : step[v][s] = "succeeded" => step'[v][s] = "succeeded"]_vars
  BY <1>1
<1> QED BY InductiveHolds, <1>2, PTL DEF SucceededStepsStay, Spec

\* A published version stays published (image_versions_guard_write).
LEMMA PublishedStays ==
    ASSUME Inductive, [Next]_vars, NEW x \in Version, version[x] = "published"
    PROVE  version'[x] = "published"
<1>1. version \in [Version -> VersionState]
  BY DEF Inductive, TypeOK, RowsTypeOK
<1> QED BY <1>1, StepsAreRowSteps DEF Ripple, RowStep, ManifestWrite, AddArtifact, AddAttachment,
     DeleteArtifact, DeleteAttachment, EnqueueVersion, RetryJob, ClaimStep, ValidateSucceeds, IndexWrite,
     IndexSucceeds, FinalizeSucceeds, FailStep

\* A manifest stands once its version left draft, if no manifest write commits late.
LEMMA ManifestStays ==
    ASSUME ~LateWrites, Inductive, [Next]_vars, NEW x \in Version, version[x] # "draft"
    PROVE  disk'[x] = disk[x] /\ meta'[x] = meta[x]
<1>1. CASE Ripple
  BY <1>1 DEF Ripple, manifest
<1>2. RowsTypeOK
  BY DEF Inductive, TypeOK
<1> QED BY <1>1, <1>2, StepsAreRowSteps, OnlyDraftsChange

\* A worker whose lease was taken over never records an outcome: the step ends only
\* by a worker that holds its latest attempt.
THEOREM LeasesFence == Spec => LeasesAreFenced
<1>1. ASSUME Inductive, [Next]_vars, NEW x \in Version, NEW t \in Step,
             step[x][t] = "running", step'[x][t] \in {"succeeded", "failed"}
      PROVE  \E w \in Worker : /\ work[w].v = x /\ work[w].s = t
                                /\ work[w].n = attempt[x][t]
                                /\ work'[w] # work[w]
  <2>0. /\ RowsTypeOK
        /\ work \in [Worker -> {NoWork} \cup [at : WorkAt \ {"idle"}, v : Version, s : Step, n : Nat,
                                             rows : SUBSET ProjectionRow]]
    BY <1>1 DEF Inductive, TypeOK
  <2>1. CASE UNCHANGED step
    BY <1>1, <2>1
  <2>2. ASSUME NEW v \in Version, EnqueueVersion(v) \/ RetryJob(v) PROVE FALSE
    <3>1. CASE EnqueueVersion(v)
      BY <1>1, <2>0, <3>1 DEF EnqueueVersion, RowsTypeOK
    <3>2. CASE RetryJob(v)
      <4>1. PICK first \in Step : step' = [step EXCEPT ![v] = [s \in Step |-> Requeued(v, s, first)]]
        BY <3>2 DEF RetryJob
      <4> QED BY <1>1, <2>0, <4>1 DEF Requeued, RowsTypeOK
    <3> QED BY <2>2, <3>1, <3>2
  <2>3. ASSUME NEW v \in Version, NEW s \in Step, NEW w \in Worker, ClaimStep(v, s, w) PROVE FALSE
    BY <1>1, <2>0, <2>3 DEF ClaimStep, RowsTypeOK
  <2>4. ASSUME NEW w \in Worker, work[w].at # "idle", Holds(w), NEW o, EndStep(work[w].v, work[w].s, o),
               Return(w) \/ (work[w].at # "fail" /\ Goto(w, "fail"))
        PROVE  /\ work[w].v = x /\ work[w].s = t
               /\ work[w].n = attempt[x][t]
               /\ work'[w] # work[w]
    <3>1. work[w].v \in Version /\ work[w].s \in Step
      BY <2>0, <2>4 DEF NoWork
    <3>2. work[w].v = x /\ work[w].s = t
      BY <1>1, <2>0, <2>4, <3>1, EndStepEffect
    <3>3. work'[w].at # work[w].at
      BY <2>0, <2>4 DEF Return, Goto, NoWork
    <3> QED BY <2>4, <3>2, <3>3 DEF Holds, HoldsLease
  <2>5. ASSUME NEW w \in Worker, SucceedStep(w)
        PROVE  UNCHANGED step \/ \E y \in Worker : /\ work[y].v = x /\ work[y].s = t
                                                    /\ work[y].n = attempt[x][t]
                                                    /\ work'[y] # work[y]
    <3>1. CASE Succeeds(w) /\ (Return(w) \/ Goto(w, "fail"))
      <4>1. work[w].at = "store" => work[w].s = IncusIndex
        BY <1>1 DEF Inductive, WorkersKnow
      <4>2. EndStep(work[w].v, work[w].s, "succeeded") /\ Holds(w) /\ work[w].at \in {"run", "store"}
        BY <3>1, <4>1 DEF Succeeds, ValidateSucceeds, IndexSucceeds, FinalizeSucceeds
      <4> QED BY <2>4, <3>1, <4>2
    <3>2. CASE UNCHANGED rows
      BY <3>2 DEF rows, progress
    <3> QED BY <2>5, <3>1, <3>2 DEF SucceedStep, Refused
  <2>6. ASSUME NEW w \in Worker, FailClaimedStep(w)
        PROVE  UNCHANGED step \/ \E y \in Worker : /\ work[y].v = x /\ work[y].s = t
                                                    /\ work[y].n = attempt[x][t]
                                                    /\ work'[y] # work[y]
    <3>1. CASE Holds(w) /\ FailStep(work[w].v, work[w].s)
      BY <2>4, <2>6, <3>1 DEF FailClaimedStep, FailStep
    <3>2. CASE UNCHANGED rows
      BY <3>2 DEF rows, progress
    <3> QED BY <2>6, <3>1, <3>2 DEF FailClaimedStep
  <2>7. ASSUME NEW w \in Worker, WorkStepOf(w) \/ Abandon(w)
        PROVE  UNCHANGED step \/ SucceedStep(w) \/ FailClaimedStep(w)
    BY <2>3, <2>7 DEF WorkStepOf, Claim, IndexVersion, Abandon, rows, progress
  <2>8. ASSUME NEW v \in Version, PublishVersion(v) \/ RetryPublishJob(v) PROVE UNCHANGED step
    BY <2>2, <2>8 DEF PublishVersion, RetryPublishJob, rows, progress
  <2>9. UNCHANGED step \/ \E w \in Worker : WorkStepOf(w) \/ Abandon(w)
    BY <1>1, <2>8 DEF Next, CheckDraft, CommitEdit, AddArtifact, AddAttachment, DeleteArtifact,
       DeleteAttachment, TrustBlob, LeaseExpires, rows, progress, vars
  <2> QED BY <2>1, <2>5, <2>6, <2>7, <2>9
<1>2. Inductive /\ [Next]_vars =>
        [\A v \in Version, s \in Step :
            step[v][s] = "running" /\ step'[v][s] \in {"succeeded", "failed"} =>
                \E w \in Worker : /\ work[w].v = v /\ work[w].s = s
                                   /\ work[w].n = attempt[v][s]
                                   /\ work'[w] # work[w]]_vars
  BY <1>1
<1> QED BY InductiveHolds, <1>2, PTL DEF LeasesAreFenced, Spec

-----------------------------------------------------------------------------
(* The implementation of ReleaseLifecycle.                                  *)

\* The content of each version, as ReleaseLifecycle sees it.
Contents == [v \in Version |-> [disk |-> disk[v], meta |-> meta[v]]]

\* Clients are served the same while no version is published and no published
\* version is indexed.
LEMMA ServedStays ==
    ASSUME \A x \in Version : version'[x] = "published" <=> version[x] = "published",
           \A x \in Version : version[x] = "published" => projection'[x] = projection[x]
    PROVE  ListProjectionRows' = ListProjectionRows
<1>1. ASSUME NEW z
      PROVE  (\E x \in Version : version'[x] = "published" /\ z \in {x} \X projection'[x]) <=>
             (\E x \in Version : version[x] = "published" /\ z \in {x} \X projection[x])
  <2>1. ASSUME NEW x \in Version, version[x] = "published"
        PROVE  {x} \X projection'[x] = {x} \X projection[x]
    BY <2>1
  <2> QED BY <2>1
<1>2. \A z : z \in ListProjectionRows' <=> z \in ListProjectionRows
  BY <1>1 DEF ListProjectionRows
<1> QED BY <1>2 DEF ListProjectionRows

\* A transaction that leaves manifests and the states of versions alone is a stutter.
LEMMA StutterStep ==
    ASSUME UNCHANGED <<version, disk, meta, trusted>>,
           \A x \in Version : version[x] = "published" => projection'[x] = projection[x]
    PROVE  UNCHANGED (Lifecycle!rvars)
<1>1. \A x \in Version : version'[x] = "published" <=> version[x] = "published"
  OBVIOUS
<1>2. ListProjectionRows' = ListProjectionRows
  BY <1>1, ServedStays
<1> QED BY <1>2 DEF Lifecycle!rvars

\* Every transaction is a step of ReleaseLifecycle or a stutter.
LEMMA LifecycleStep ==
    ASSUME Inductive, ~LateWrites, NEW v \in Version, RowStep(v)
    PROVE  [Lifecycle!RNext]_(Lifecycle!rvars)
<1>0. /\ RowsTypeOK /\ VersionAgrees(v) /\ AttachmentsExist
      /\ step[v][IncusIndex] = "succeeded" => projection[v] = IncusRows(v)
  BY AgreeByVersion DEF Inductive, TypeOK, ManifestsStand
<1>s. ValidateCatalog \in Step /\ IncusIndex \in Step /\ FinalizePublish \in Step
  BY DEF Step
<1>1. CASE ManifestWrite(v)
  <2>1. /\ version[v] = "draft" /\ UNCHANGED <<version, trusted>>
        /\ \A x \in Version : x # v => projection'[x] = projection[x] /\ disk'[x] = disk[x] /\ meta'[x] = meta[x]
    BY <1>0, <1>1, OnlyDraftsChange DEF ManifestWrite, AddArtifact, AddAttachment, DeleteArtifact, DeleteAttachment
  <2>2. UNCHANGED ListProjectionRows
    <3>1. \A x \in Version : version'[x] = "published" <=> version[x] = "published"
      BY <2>1
    <3>2. \A x \in Version : version[x] = "published" => projection'[x] = projection[x]
      BY <2>1
    <3> QED BY <3>1, <3>2, ServedStays
  <2>3. RowsTypeOK'
    BY <1>0, RowTypes
  <2>4. [disk |-> disk'[v], meta |-> meta'[v]] \in Lifecycle!Manifests
    BY <2>3 DEF RowsTypeOK, Lifecycle!Manifests, Lifecycle!Cited
  <2>5. Contents' = [Contents EXCEPT ![v] = [disk |-> disk'[v], meta |-> meta'[v]]]
    BY <2>1 DEF Contents
  <2>6. Lifecycle!Revise(v)
    BY <2>1, <2>2, <2>4, <2>5 DEF Lifecycle!Revise, Contents
  <2> QED BY <2>6 DEF Lifecycle!RNext
<1>2. CASE EnqueueVersion(v)
  <2>1. UNCHANGED ListProjectionRows
    BY <1>0, <1>2, ServedStays DEF EnqueueVersion, RowsTypeOK
  <2>2. UNCHANGED <<disk, meta, trusted>>
    BY <1>2 DEF EnqueueVersion, manifest
  <2>3. Citable(v)
    BY <1>0, <1>2 DEF EnqueueVersion, Publishable, Declared, Citable, AttachmentsExist
  <2>4. Lifecycle!Freeze(v)
    BY <1>2, <2>1, <2>2, <2>3 DEF Lifecycle!Freeze, Citable, EnqueueVersion
  <2> QED BY <2>4 DEF Lifecycle!RNext
<1>3. CASE RetryJob(v)
  BY <1>3, StutterStep DEF RetryJob, manifest
<1>4. CASE \E s \in Step, w \in Worker : ClaimStep(v, s, w)
  BY <1>4, StutterStep DEF ClaimStep, manifest
<1>5. CASE ValidateSucceeds(v) \/ \E s \in Step : FailStep(v, s)
  BY <1>5, StutterStep DEF ValidateSucceeds, FailStep, manifest
<1>6. CASE step[v][IncusIndex] = "running" /\ IndexWrite(v)
  <2>1. version[v] # "published"
    BY <1>0, <1>6, <1>s DEF VersionAgrees
  <2>2. \A x \in Version : x # v => projection'[x] = projection[x]
    BY <1>0, <1>6 DEF IndexWrite, IndexSucceeds, RowsTypeOK
  <2> QED BY <1>6, <2>1, <2>2, StutterStep DEF IndexWrite, IndexSucceeds, manifest
<1>7. CASE FinalizeSucceeds(v)
  <2>1. /\ version[v] = "publishing" /\ version' = [version EXCEPT ![v] = "published"]
        /\ UNCHANGED <<disk, meta, trusted, projection>>
    BY <1>7 DEF FinalizeSucceeds, manifest
  <2>2. projection[v] = IncusRows(v)
    BY <1>0, <1>7, <1>s DEF FinalizeSucceeds, PreviousSucceeded, Step, ValidateCatalog, IncusIndex, FinalizePublish
  <2>3. {x \in Version : version'[x] = "published"} = {x \in Version : version[x] = "published"} \cup {v}
    BY <1>0, <2>1 DEF RowsTypeOK
  <2>4. ListProjectionRows' = ListProjectionRows \cup ({v} \X IncusRows(v))
    BY <2>1, <2>2, <2>3 DEF ListProjectionRows
  <2>5. Lifecycle!RowsOf(Contents[v]) = IncusRows(v)
    BY DEF Lifecycle!RowsOf, Contents, IncusRows
  <2>6. Lifecycle!Release(v)
    BY <2>1, <2>4, <2>5 DEF Lifecycle!Release, Contents
  <2> QED BY <2>6 DEF Lifecycle!RNext
<1> QED BY <1>1, <1>2, <1>3, <1>4, <1>5, <1>6, <1>7 DEF RowStep

\* Rows, requests and workers implement ReleaseLifecycle, if no manifest write commits
\* late: what is published was verified and frozen before, and appears at once.
THEOREM ImplementsReleaseLifecycle == ~LateWrites /\ Spec => KeepsReleasePromise
<1>1. Init => Lifecycle!RInit
  BY DEF Init, RowsInit, Lifecycle!RInit, ListProjectionRows
<1>2. ASSUME ~LateWrites PROVE Spec => KeepsReleasePromise
  <2>1. ASSUME Inductive, [Next]_vars PROVE [Lifecycle!RNext]_(Lifecycle!rvars)
    <3>1. CASE Ripple
      <4>1. UNCHANGED ListProjectionRows /\ UNCHANGED <<version, disk, meta>>
        BY <3>1 DEF Ripple, manifest, ListProjectionRows
      <4>2. CASE trusted' = trusted
        BY <4>1, <4>2 DEF Lifecycle!rvars
      <4>3. ASSUME NEW b \in Blob, trusted' = trusted \cup {b} PROVE Lifecycle!RNext
        BY <4>1, <4>3 DEF Lifecycle!RNext, Lifecycle!Verify
      <4> QED BY <3>1, <4>2, <4>3 DEF Ripple
    <3> QED BY <1>2, <2>1, <3>1, StepsAreRowSteps, LifecycleStep
  <2> QED BY <1>1, <2>1, InductiveHolds, PTL DEF Spec, KeepsReleasePromise, Lifecycle!RSpec
<1> QED BY <1>2
=============================================================================
