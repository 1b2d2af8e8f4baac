----------------------------- MODULE ImageServer -----------------------------
(***************************************************************************)
(* The whole path of an image: the upload service and its promotion        *)
(* workers next to manifest writes, publish requests and publish workers,  *)
(* over one database.  The two pipelines share the cas_blobs table and     *)
(* nothing else; each process of Worker runs both jobs.                    *)
(***************************************************************************)
EXTENDS UploadIngest

CONSTANTS
    Version, Artifact, Editor,  \* as in PublishFlow
    MaxAttempts,
    LateWrites

VARIABLES
    version, disk, meta, projection,  \* as in ReleaseTables ...
    step, attempt, stale,
    publishJob,                       \* ... where it is job
    stepLockedBy,                     \* ... and lockedBy
    edit, answer,                     \* as in PublishFlow ...
    publishing                        \* ... where it is work

releases == <<version, disk, meta, projection, step, attempt, stale, publishJob, stepLockedBy,
              edit, answer, publishing>>

\* The digest and size pairs a cas_blobs row joins with (requirePublishableVersion).
Trusted == {b \in Expectation : blob[b.digest] = b.size}

DigestOf == [b \in Expectation |-> b.digest]

Release == INSTANCE PublishFlow WITH
    Blob <- Expectation,
    trusted <- Trusted,
    job <- publishJob,
    lockedBy <- stepLockedBy,
    work <- publishing

ServerInit == Init /\ Release!Init

UploadStep == Next /\ UNCHANGED releases
ReleaseStep == UNCHANGED vars /\ Release!Next

ServerNext == UploadStep \/ ReleaseStep

ServerSpec == ServerInit /\ [][ServerNext]_<<vars, releases>>

-----------------------------------------------------------------------------
Cited(v) == {b \in Expectation : \E a \in Artifact : b \in {disk[v][a], meta[v][a]}}

\* Clients download what b announces: its row and its object are there (OpenBlob).
Served(b) == /\ blob[b.digest] = b.size
             /\ cas[b.digest] = b.digest
             /\ Size[b.digest] = b.size

\* The bytes of b came through an upload session that announced it and ended ready.
Uploaded(b) == \E u \in Upload : session[u] = "ready" /\ want[u] = b

\* Every cas_blobs row is the outcome of an upload: nothing else writes the table.
BlobsWereUploaded == \A b \in Trusted : Uploaded(b)

\* A version that cites a digest that has not been uploaded and verified is not
\* published with a broken pointer (publishing-model.md): of all that a published
\* version cites, the bytes are in the bucket, because somebody uploaded them.
PublishedIsServed ==
    \A v \in Version : version[v] = "published" =>
        \A b \in Cited(v) : Served(b) /\ Uploaded(b)

\* A published version stays published, what it cites now it cites for ever, and a
\* client who downloads it again gets the same bytes: no upload, manifest write, retry
\* or late worker changes them.
PublishedStaysServed ==
    [][\A v \in Version : version[v] = "published" =>
        /\ version'[v] = "published"
        /\ Cited(v)' = Cited(v)
        /\ \A b \in Cited(v) : /\ blob'[b.digest] = blob[b.digest]
                               /\ cas'[b.digest] = cas[b.digest]]_<<vars, releases>>

\* Whatever manifest writes do, a row of the mirror is computed from blobs whose bytes
\* are in the bucket and stay there: only their size may be announced wrongly.
MirrorIsServed ==
    \A v \in Version : \A r \in projection[v] : \A b \in {r.disk, r.meta} :
        blob[b.digest] # None /\ cas[b.digest] = b.digest

=============================================================================
