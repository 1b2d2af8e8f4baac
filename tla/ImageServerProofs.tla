-------------------------- MODULE ImageServerProofs --------------------------
(***************************************************************************)
(* Proofs about ImageServer: each pipeline runs in it as it does alone, so *)
(* what was proved of either holds of the whole, and together they give    *)
(* what neither says: what is published was uploaded, and is served.       *)
(***************************************************************************)
EXTENDS ImageServer, UploadIngestProofs

\* The theorems about publishing, read in this system.
Proved == INSTANCE PublishFlowProofs WITH
    Blob <- Expectation,
    trusted <- Trusted,
    job <- publishJob,
    lockedBy <- stepLockedBy,
    work <- publishing

-----------------------------------------------------------------------------
(* The upload pipeline.                                                     *)

\* To uploads, the rest of the system is stuttering.
THEOREM UploadsRunUndisturbed == ServerSpec => Spec
<1>1. ServerInit => Init
  BY DEF ServerInit
<1>2. [ServerNext]_<<vars, releases>> => [Next]_vars
  BY DEF ServerNext, UploadStep, ReleaseStep
<1> QED BY <1>1, <1>2, PTL DEF ServerSpec, Spec

LEMMA UploadInductive == ServerSpec => []Inductive
BY UploadsRunUndisturbed, InductiveHolds, PTL

\* A step leaves cas_blobs alone or records the success of one upload.
LEMMA BlobRowsMove ==
    ASSUME Inductive, [Next]_vars
    PROVE  UNCHANGED blob \/ \E u \in Upload : want[u] \in Expectation /\ SucceedJobRow(u)
<1>1. ASSUME NEW u \in Upload, SucceedJobRow(u) PROVE want[u] \in Expectation
  BY <1>1 DEF SucceedJobRow, MayBecomeReady, JobIsRunning, Inductive, TypeOK, TablesTypeOK,
     DataAgrees, RowFollowsObjects
<1>2. ASSUME NEW u \in Upload, DataStep(u) PROVE UNCHANGED blob \/ SucceedJobRow(u)
  BY <1>2 DEF DataStep, InsertSession, RecordPartRow, CompleteRow, AbortRow, ClaimJobRow, FailJobRow, tables
<1> QED BY <1>1, <1>2, StepsAreDataSteps

\* To publishing, a step of the upload pipeline trusts one blob of a new digest, or
\* stutters.
LEMMA TrustMoves ==
    ASSUME Inductive, [Next]_vars
    PROVE  \/ UNCHANGED Trusted
           \/ \E b \in Expectation : /\ \A c \in Trusted : DigestOf[c] # DigestOf[b]
                                     /\ Trusted' = Trusted \cup {b}
<1>1. CASE UNCHANGED blob
  BY <1>1 DEF Trusted
<1>2. ASSUME NEW u \in Upload, want[u] \in Expectation, SucceedJobRow(u)
      PROVE  \/ UNCHANGED Trusted
             \/ /\ \A c \in Trusted : DigestOf[c] # DigestOf[want[u]]
                /\ Trusted' = Trusted \cup {want[u]}
  <2> DEFINE d == want[u].digest
  <2>1. /\ d \in Content /\ want[u].size \in Nat
        /\ \A c \in Expectation : c.digest \in Content /\ c.size \in Nat
                                  /\ (c = want[u] <=> c.digest = d /\ c.size = want[u].size)
    BY <1>2, ExpectationAssumption
  <2>2. /\ blob \in [Content -> Nat \cup {None}]
        /\ blob' = [blob EXCEPT ![d] = StoredSize(want[u])]
    BY <1>2 DEF SucceedJobRow, Inductive, TypeOK, TablesTypeOK
  <2>3. CASE blob[d] # None
    <3>1. blob' = blob
      BY <2>1, <2>2, <2>3 DEF StoredSize
    <3> QED BY <3>1 DEF Trusted
  <2>4. CASE blob[d] = None
    <3>1. \A x \in Content : blob'[x] = IF x = d THEN want[u].size ELSE blob[x]
      BY <2>1, <2>2, <2>4 DEF StoredSize
    <3>2. \A c \in Expectation : c.digest = d => blob[c.digest] # c.size
      BY <2>1, <2>4, NoneAssumption
    <3>3. \A c \in Expectation : c \in Trusted' <=> c \in Trusted \/ c = want[u]
      <4> HIDE DEF d
      <4> QED BY <2>1, <3>1, <3>2 DEF Trusted
    <3>4. Trusted' = Trusted \cup {want[u]}
      BY <1>2, <3>3 DEF Trusted
    <3>5. \A c \in Trusted : DigestOf[c] # DigestOf[want[u]]
      BY <1>2, <3>2 DEF Trusted, DigestOf
    <3> QED BY <3>4, <3>5
  <2> QED BY <2>3, <2>4
<1> QED BY <1>1, <1>2, BlobRowsMove

-----------------------------------------------------------------------------
(* The publish pipeline.                                                    *)

\* A promotion is the trust a publish waits for, and nothing else in it.
LEMMA ReleaseMoves ==
    ASSUME Inductive, [ServerNext]_<<vars, releases>>
    PROVE  [Release!Next]_(Release!vars)
<1>1. CASE ReleaseStep
  BY <1>1 DEF ReleaseStep
<1>2. CASE UNCHANGED <<vars, releases>>
  <2>1. UNCHANGED <<Trusted, releases>>
    BY <1>2 DEF vars, tables, Trusted
  <2> QED BY <2>1 DEF releases, Release!vars, Release!rows, Release!manifest, Release!progress
<1>3. CASE UploadStep
  <2>1. [Next]_vars /\ UNCHANGED releases
    BY <1>3 DEF UploadStep
  <2>2. CASE UNCHANGED Trusted
    BY <2>1, <2>2 DEF releases, Release!vars, Release!rows, Release!manifest, Release!progress
  <2>3. ASSUME NEW b \in Expectation, \A c \in Trusted : DigestOf[c] # DigestOf[b],
               Trusted' = Trusted \cup {b}
        PROVE  Release!TrustBlob(b)
    BY <2>1, <2>3 DEF releases, Release!TrustBlob, Release!manifest, Release!progress
  <2> QED BY <2>1, <2>2, <2>3, TrustMoves DEF Release!Next
<1> QED BY <1>1, <1>2, <1>3 DEF ServerNext

\* Fed by real uploads, the publish pipeline runs as specified: no step of the upload
\* pipeline does more to it than trust one blob whose digest was not trusted.
THEOREM ReleasesRunUndisturbed == ServerSpec => Release!Spec
<1>1. ServerInit => Release!Init
  BY DEF ServerInit
<1>2. Inductive /\ [ServerNext]_<<vars, releases>> => [Release!Next]_(Release!vars)
  BY ReleaseMoves
<1> QED BY <1>1, <1>2, UploadInductive, PTL DEF ServerSpec, Release!Spec

\* Release and Proved read the same module in the same system: they agree word for word.
LEMMA ReleasesAreProved ==
    /\ Release!Init => Proved!Init
    /\ [Release!Next]_(Release!vars) => [Proved!Next]_(Proved!vars)
<1>1. Release!Init => Proved!Init
  BY DEF Release!Init, Proved!Init, Release!RowsInit, Proved!RowsInit, Release!NoEdit, Proved!NoEdit,
     Release!NoWork, Proved!NoWork, Release!Step, Proved!Step, Release!ValidateCatalog, Proved!ValidateCatalog,
     Release!IncusIndex, Proved!IncusIndex, Release!FinalizePublish, Proved!FinalizePublish
<1>2. Release!Next <=> Proved!Next
  BY DEF
     Release!Abandon, Proved!Abandon, Release!AddArtifact, Proved!AddArtifact, Release!AddAttachment,
     Proved!AddAttachment, Release!CheckDraft, Proved!CheckDraft, Release!Claim, Proved!Claim,
     Release!ClaimStep, Proved!ClaimStep, Release!Claimable, Proved!Claimable, Release!CommitEdit,
     Proved!CommitEdit, Release!Declared, Proved!Declared, Release!DeleteArtifact, Proved!DeleteArtifact,
     Release!DeleteAttachment, Proved!DeleteAttachment, Release!EditOp, Proved!EditOp, Release!EndStep,
     Proved!EndStep, Release!Ending, Proved!Ending, Release!EnqueueVersion, Proved!EnqueueVersion,
     Release!FailClaimedStep, Proved!FailClaimedStep, Release!FailStep, Proved!FailStep,
     Release!FinalizePublish, Proved!FinalizePublish, Release!FinalizeSucceeds, Proved!FinalizeSucceeds,
     Release!Goto, Proved!Goto, Release!Holds, Proved!Holds, Release!HoldsLease, Proved!HoldsLease,
     Release!IncusIndex, Proved!IncusIndex, Release!IncusRows, Proved!IncusRows, Release!IndexSucceeds,
     Proved!IndexSucceeds, Release!IndexVersion, Proved!IndexVersion, Release!LeaseExpires,
     Proved!LeaseExpires, Release!Next, Proved!Next, Release!NoEdit, Proved!NoEdit, Release!NoWork,
     Proved!NoWork, Release!PreviousSucceeded, Proved!PreviousSucceeded, Release!ProjectionWithout,
     Proved!ProjectionWithout, Release!PublishVersion, Proved!PublishVersion, Release!Publishable,
     Proved!Publishable, Release!Readable, Proved!Readable, Release!Refused, Proved!Refused,
     Release!Requeued, Proved!Requeued, Release!RetryJob, Proved!RetryJob, Release!RetryPublishJob,
     Proved!RetryPublishJob, Release!Return, Proved!Return, Release!RowsExist, Proved!RowsExist,
     Release!Step, Proved!Step, Release!SucceedStep, Proved!SucceedStep, Release!Succeeds, Proved!Succeeds,
     Release!TrustBlob, Proved!TrustBlob, Release!Unedited, Proved!Unedited, Release!ValidateCatalog,
     Proved!ValidateCatalog, Release!ValidateSucceeds, Proved!ValidateSucceeds, Release!WorkStepOf,
     Proved!WorkStepOf, Release!manifest, Proved!manifest, Release!progress, Proved!progress, Release!rows,
     Proved!rows
<1>3. UNCHANGED Release!vars <=> UNCHANGED Proved!vars
  BY DEF Release!vars, Proved!vars, Release!rows, Proved!rows, Release!manifest, Proved!manifest,
     Release!progress, Proved!progress
<1> QED BY <1>1, <1>2, <1>3

\* What was proved of publishing is proved here: its assumptions hold of announcements.
LEMMA ReleaseRuns == ServerSpec => Proved!Spec
<1>1. ServerInit => Proved!Init
  BY ReleasesAreProved DEF ServerInit
<1>2. Inductive /\ [ServerNext]_<<vars, releases>> => [Proved!Next]_(Proved!vars)
  BY ReleaseMoves, ReleasesAreProved
<1> QED BY <1>1, <1>2, UploadInductive, PTL DEF ServerSpec, Proved!Spec

LEMMA ReleaseInductive ==
    ASSUME MaxAttempts \in Nat, LateWrites \in BOOLEAN
    PROVE  ServerSpec => []Proved!Inductive
<1>1. MaxAttempts \in Nat
  OBVIOUS
<1>2. None \notin Expectation /\ None \notin Worker
  BY NoneAssumption, ExpectationAssumption
<1>3. LateWrites \in BOOLEAN /\ Faults \in BOOLEAN
  BY FlagAssumption
<1> QED BY ReleaseRuns, Proved!InductiveHolds, <1>1, <1>2, <1>3, PTL

-----------------------------------------------------------------------------
(* Both together.                                                           *)

\* A ready session keeps its state and its announcement.
LEMMA UploadedStays ==
    ASSUME Inductive, [Next]_vars, NEW b \in Expectation, Uploaded(b)
    PROVE  Uploaded(b)'
<1>1. PICK u \in Upload : session[u] = "ready" /\ want[u] = b
  BY DEF Uploaded
<1>2. session \in [Upload -> SessionState \cup {"none"}]
  BY DEF Inductive, TypeOK, TablesTypeOK
<1>3. session'[u] = "ready"
  <2>1. ASSUME NEW v \in Upload, DataStep(v) PROVE session'[u] = "ready"
    BY <1>1, <1>2, <2>1 DEF DataStep, InsertSession, RecordPartRow, CompleteRow, AbortRow, ClaimJobRow,
       SucceedJobRow, FailJobRow, MayBecomeReady, JobIsRunning, Mutable, tables
  <2> QED BY <1>1, <2>1, StepsAreDataSteps
<1>4. want'[u] = b
  BY <1>1, AnnouncementsStand, NoneAssumption, ExpectationAssumption
<1> QED BY <1>3, <1>4 DEF Uploaded

\* Every cas_blobs row is the outcome of an upload that announced it.
LEMMA UploadsComeFirst ==
    ASSUME Inductive, [Next]_vars, BlobsWereUploaded
    PROVE  BlobsWereUploaded'
<1>1. ASSUME NEW u \in Upload, NEW b \in Expectation, want[u] = b, SucceedJobRow(u)
      PROVE  Uploaded(b)'
  <2>1. session'[u] = "ready" /\ want'[u] = b
    BY <1>1 DEF SucceedJobRow, Inductive, TypeOK, TablesTypeOK
  <2> QED BY <2>1 DEF Uploaded
<1>2. ASSUME NEW b \in Trusted' PROVE Uploaded(b)'
  <2>1. b \in Expectation
    BY <1>2 DEF Trusted
  <2>2. CASE b \in Trusted
    BY <2>1, <2>2, UploadedStays DEF BlobsWereUploaded
  <2>3. CASE b \notin Trusted
    <3>1. PICK u \in Upload : want[u] \in Expectation /\ SucceedJobRow(u)
      BY <1>2, <2>3, BlobRowsMove DEF Trusted
    <3>2. /\ blob \in [Content -> Nat \cup {None}] /\ b.digest \in Content
          /\ blob[b.digest] # b.size /\ blob'[b.digest] = b.size
      BY <1>2, <2>1, <2>3, ExpectationAssumption DEF Trusted, Inductive, TypeOK, TablesTypeOK
    <3>3. b.digest = want[u].digest /\ b.size = want[u].size
      BY <3>1, <3>2 DEF SucceedJobRow, MayBecomeReady
    <3>4. want[u] = b
      BY <2>1, <3>1, <3>3, ExpectationAssumption
    <3> QED BY <1>1, <2>1, <3>1, <3>4
  <2> QED BY <2>2, <2>3
<1> QED BY <1>2 DEF BlobsWereUploaded

THEOREM BlobsComeFromUploads == ServerSpec => []BlobsWereUploaded
<1>1. ServerInit => BlobsWereUploaded
  BY ExpectationAssumption, NoneAssumption DEF ServerInit, Init, TablesInit, BlobsWereUploaded, Trusted
<1>2. Inductive /\ BlobsWereUploaded /\ [ServerNext]_<<vars, releases>> => BlobsWereUploaded'
  <2>1. [ServerNext]_<<vars, releases>> => [Next]_vars
    BY DEF ServerNext, UploadStep, ReleaseStep
  <2> QED BY <2>1, UploadsComeFirst
<1> QED BY UploadInductive, <1>1, <1>2, PTL DEF ServerSpec

\* A blob publishing trusts is served.
LEMMA TrustedIsServed ==
    ASSUME Inductive, NEW b \in Trusted
    PROVE  Served(b)
<1>1. b.digest \in Content /\ b.size \in Nat /\ blob[b.digest] = b.size
  BY ExpectationAssumption DEF Trusted
<1>2. blob[b.digest] # None
  BY <1>1, NoneAssumption
<1> QED BY <1>1, <1>2 DEF Inductive, DataAgrees, BlobRowsAreBacked, Served

\* If no manifest write commits late, whatever a published version cites was uploaded and
\* verified, and can be downloaded.
THEOREM PublishedVersionsAreServed ==
    ASSUME MaxAttempts \in Nat, LateWrites = FALSE
    PROVE  ServerSpec => []PublishedIsServed
<1>1. ASSUME Inductive, BlobsWereUploaded, Proved!Inductive PROVE PublishedIsServed
  <2>1. ASSUME NEW v \in Version, version[v] = "published", NEW b \in Cited(v) PROVE b \in Trusted
    <3>1. b \in Expectation /\ \E a \in Artifact : b \in {disk[v][a], meta[v][a]}
      BY <2>1 DEF Cited
    <3>2. b # None
      BY <3>1, NoneAssumption, ExpectationAssumption
    <3>3. \A a \in Artifact : {disk[v][a], meta[v][a]} \subseteq Trusted \cup {None}
      BY <1>1, <2>1 DEF Proved!Inductive, Proved!ManifestsStand
    <3> QED BY <3>1, <3>2, <3>3
  <2> QED BY <1>1, <2>1, TrustedIsServed DEF PublishedIsServed, BlobsWereUploaded
<1>2. LateWrites \in BOOLEAN
  OBVIOUS
<1> QED BY <1>1, <1>2, UploadInductive, BlobsComeFromUploads, ReleaseInductive, PTL

\* Even if manifest writes commit late, every row of the mirror has its bytes.
THEOREM MirrorsAreServed ==
    ASSUME MaxAttempts \in Nat, LateWrites \in BOOLEAN
    PROVE  ServerSpec => []MirrorIsServed
<1>1. ASSUME Inductive, Proved!TypeOK, Proved!ProjectionIsReadable PROVE MirrorIsServed
  <2>1. ASSUME NEW v \in Version, NEW r \in projection[v], NEW b \in {r.disk, r.meta}
        PROVE  blob[b.digest] # None /\ cas[b.digest] = b.digest
    <3>1. b \in Expectation
      BY <1>1, <2>1 DEF Proved!TypeOK, Proved!RowsTypeOK, Proved!ProjectionRow
    <3>2. PICK c \in Trusted : DigestOf[c] = DigestOf[b]
      BY <1>1, <2>1 DEF Proved!ProjectionIsReadable, Proved!Readable
    <3>3. c.digest = b.digest
      BY <3>1, <3>2 DEF Trusted, DigestOf
    <3>4. blob[c.digest] = c.size /\ c.size \in Nat /\ cas[c.digest] = c.digest
      BY <1>1, TrustedIsServed, ExpectationAssumption DEF Served, Trusted
    <3> QED BY <3>3, <3>4, NoneAssumption
  <2> QED BY <2>1 DEF MirrorIsServed
<1>2. MaxAttempts \in Nat
  OBVIOUS
<1>3. None \notin Expectation /\ None \notin Worker
  BY NoneAssumption, ExpectationAssumption
<1>4. LateWrites \in BOOLEAN /\ Faults \in BOOLEAN
  BY FlagAssumption
<1>5. ServerSpec => []Proved!TypeOK /\ []Proved!ProjectionIsReadable
  BY ReleaseRuns, Proved!TypeCorrect, Proved!ProjectionsAreReadable, <1>2, <1>3, <1>4, PTL
<1> QED BY <1>1, <1>5, UploadInductive, PTL

\* If no manifest write commits late, what clients were given of a published version is
\* what they are given for ever.
THEOREM PublishedVersionsStayServed ==
    ASSUME MaxAttempts \in Nat, LateWrites = FALSE
    PROVE  ServerSpec => PublishedStaysServed
<1>1. MaxAttempts \in Nat
  OBVIOUS
<1>2. None \notin Expectation /\ None \notin Worker
  BY NoneAssumption, ExpectationAssumption
<1>3. LateWrites \in BOOLEAN /\ Faults \in BOOLEAN
  BY FlagAssumption
<1>4. ASSUME Inductive, Proved!Inductive, PublishedIsServed, [ServerNext]_<<vars, releases>>,
             NEW v \in Version, version[v] = "published"
      PROVE  /\ version'[v] = "published"
             /\ Cited(v)' = Cited(v)
             /\ \A b \in Cited(v) : /\ blob'[b.digest] = blob[b.digest]
                                    /\ cas'[b.digest] = cas[b.digest]
  <2>1. [Proved!Next]_(Proved!vars)
    BY <1>4, ReleaseMoves, ReleasesAreProved
  <2>2. version'[v] = "published"
    BY <1>1, <1>2, <1>3, <1>4, <2>1, Proved!PublishedStays
  <2>3. disk'[v] = disk[v] /\ meta'[v] = meta[v]
    BY <1>1, <1>2, <1>3, <1>4, <2>1, Proved!ManifestStays
  <2>4. [Next]_vars
    BY <1>4 DEF ServerNext, UploadStep, ReleaseStep
  <2>5. ASSUME NEW b \in Cited(v)
        PROVE  blob'[b.digest] = blob[b.digest] /\ cas'[b.digest] = cas[b.digest]
    <3>1. b.digest \in Content /\ b.size \in Nat
      BY <2>5, ExpectationAssumption DEF Cited
    <3>2. blob[b.digest] # None /\ cas[b.digest] # None
      BY <1>4, <2>5, <3>1, NoneAssumption DEF PublishedIsServed, Served
    <3> QED BY <1>4, <2>4, <3>1, <3>2, CasStays
  <2> QED BY <2>2, <2>3, <2>5 DEF Cited
<1>5. Inductive /\ Proved!Inductive /\ PublishedIsServed /\ [ServerNext]_<<vars, releases>> =>
        [\A v \in Version : version[v] = "published" =>
            /\ version'[v] = "published"
            /\ Cited(v)' = Cited(v)
            /\ \A b \in Cited(v) : /\ blob'[b.digest] = blob[b.digest]
                                   /\ cas'[b.digest] = cas[b.digest]]_<<vars, releases>>
  BY <1>4
<1> QED BY <1>1, <1>3, <1>5, UploadInductive, ReleaseInductive, PublishedVersionsAreServed, PTL
     DEF PublishedStaysServed, ServerSpec

\* The promise of ReleaseLifecycle is the same in both readings of PublishFlow.
LEMMA SamePromise == Proved!KeepsReleasePromise <=> Release!KeepsReleasePromise
<1>1. Proved!Lifecycle!RInit <=> Release!Lifecycle!RInit
  BY DEF Proved!Lifecycle!RInit, Release!Lifecycle!RInit,
     Proved!ListProjectionRows, Release!ListProjectionRows
<1>2. [Proved!Lifecycle!RNext]_(Proved!Lifecycle!rvars) <=> [Release!Lifecycle!RNext]_(Release!Lifecycle!rvars)
  BY DEF Proved!Lifecycle!RNext, Release!Lifecycle!RNext, Proved!Lifecycle!rvars, Release!Lifecycle!rvars,
     Proved!Lifecycle!Verify, Release!Lifecycle!Verify, Proved!Lifecycle!Revise, Release!Lifecycle!Revise,
     Proved!Lifecycle!Freeze, Release!Lifecycle!Freeze, Proved!Lifecycle!Release, Release!Lifecycle!Release,
     Proved!Lifecycle!Manifests, Release!Lifecycle!Manifests, Proved!Lifecycle!Cited, Release!Lifecycle!Cited,
     Proved!Lifecycle!RowsOf, Release!Lifecycle!RowsOf, Proved!ListProjectionRows, Release!ListProjectionRows
<1> QED BY <1>1, <1>2, PTL DEF Proved!KeepsReleasePromise, Release!KeepsReleasePromise,
     Proved!Lifecycle!RSpec, Release!Lifecycle!RSpec

\* The server keeps both promises at once: uploads are decided by their bytes alone, and
\* releases are published whole, over one database.
THEOREM PromisesAreKeptTogether ==
    ASSUME MaxAttempts \in Nat, LateWrites = FALSE, BlankETag = FALSE
    PROVE  ServerSpec => KeepsUploadPromise /\ Release!KeepsReleasePromise
<1>1. MaxAttempts \in Nat
  OBVIOUS
<1>2. None \notin Expectation /\ None \notin Worker
  BY NoneAssumption, ExpectationAssumption
<1>3. LateWrites \in BOOLEAN /\ Faults \in BOOLEAN
  BY FlagAssumption
<1>4. ~LateWrites /\ ~BlankETag
  OBVIOUS
<1> QED BY <1>1, <1>2, <1>3, <1>4, UploadsRunUndisturbed, ImplementsTrustedUploads, ReleaseRuns,
     Proved!ImplementsReleaseLifecycle, SamePromise, PTL
=============================================================================
