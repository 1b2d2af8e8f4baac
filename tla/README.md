# A TLA+ model of imgsrv

imgsrv stores operating-system images. Publishers upload bytes in parts to an
S3-compatible bucket; the server verifies them against an announced SHA-256
digest and size and moves them into a content-addressed store (CAS); publishers
cite trusted digests in the manifest of a draft version; publishing freezes the
manifest and materialises an Incus Simple Streams index from it. All durable
state is in Postgres and in the bucket, and there is no transaction over both.
Any number of request handlers and background workers run concurrently, in one
process or in several.

These modules model the two pipelines that carry this, **upload to trusted
blob** and **draft to published version**; what clients read of the result
while it changes, in the **catalog**, the mirror documents and downloads; who
may do what (**access**); and the **process** that runs all of it. Paths below
are relative to `src/internal/` unless they start with `src/`.

## Inventory

| Component | State | Operations | Interacts with | Hard behaviour | What makes it correct |
| --- | --- | --- | --- | --- | --- |
| Upload service (`uploads/service.go`) | none of its own; a request holds the session it read | begin, put part, complete, abort | upload rows, bucket | each request is a sequence of database and bucket calls on a session read once; other requests, expiry and a crash come in between | sessions move forward; what is promised is staged; an abort leaves nothing |
| Upload rows (`store/postgres/uploads`) | `upload_sessions`, `upload_parts`, `cas_ingest_jobs`, `cas_blobs` | one transaction each | upload service, CAS promotion | commit unknown, concurrent transitions | sessions and jobs agree; a job has one worker |
| Object store (`objectstore`, `objectstore/s3`) | multipart uploads, staged objects, CAS objects | multipart calls, conditional copy, delete | upload service, CAS promotion | lost answers, late parts, racing conditional copies, missing ETags | CAS keys are written once |
| CAS promotion (`cas/service.go`, `jobs/promote`) | the job a worker holds | verify, copy or recover, decide, clean up | rows, bucket | two workers and one digest; a worker that stops anywhere | only announced bytes are trusted, only wrong bytes are rejected, staging outlives the decision |
| CAS reads (`cas/service.go`, `httpapi/blob_handler.go`) | none | open a blob, ranges | blob rows, bucket | range arithmetic | a blob row is backed by its bytes |
| Catalog writes (`catalog`, `store/postgres/catalog`, triggers) | images, versions, artifacts, attachments, aliases | create, add, delete, alias | publishing through rows and triggers | the draft check of a trigger against a concurrent enqueue | a frozen manifest does not change; an alias names a published version |
| Catalog reads (`store/postgres/catalog/reads.go`) | none; an answer holds what its first statements read | list, get, resolve, find a file | catalog rows | several statements without a transaction; a name may be a version's and an alias's | a manifest is whole; an exact reference is stable; what is listed is served |
| Publish service and rows (`publish`, `store/postgres/publish`) | `publish_jobs`, `publish_job_steps`, `incus_projection_items` | enqueue, claim, succeed, fail, retry, finalize | catalog rows, workers | stale leases, retries, lost commits | three state machines agree; only the current lease ends a step |
| Publish job, Incus indexer (`jobs/publishflow`, `materialization/incus/indexer.go`) | a claimed step, computed rows | run one step | publish rows, CAS reads | the index is computed outside the transaction that stores it | the index of a published version is what its manifest defines |
| Simple Streams service (`materialization/incus/service.go`) | none | list published rows, read aliases, render | projection rows, aliases | product names of different artifacts may coincide; aliases move between its reads | eligible artifacts appear; an alias names one version |
| Job runner (`jobs/runner.go`) | backoff, failure count | poll a handler | both kinds of worker | errors, cancellation, overflow of a delay | it always polls again, after a bounded delay |
| Server lifecycle (`app/server.go`) | running components | start, first exit, shutdown | everything | shutdown deadline; the store is closed before jobs are drained | every component is stopped, requests are answered first |
| Authorization bootstrap and management (`authz/bootstrap.go`, `authz/management.go`) | principals, roles, tokens, trusted providers, rules | bootstrap, assign, issue, trust, reconcile | Postgres store of authkit | none of it is transactional: read, merge, write | an administrator can get in; trust is lost only to overlapping saves; a reconciliation misses nobody |
| Identity resolution (`authz/resolver.go`, `authz/middleware.go`) | principals, links | authenticate, resolve, provision, authorize | management | two first requests of one identity | one principal per identity |
| Database, metrics, HTTP handlers, client, CLI, logging, telemetry | connections, counters | open, migrate, decode, encode | everything | advisory lock for migrations | (thin layers) |

`PROJECT.json` lists these parts with their sources and status, and under
`hazards` each place where the order of events can go wrong, with the properties
that are about it.

## Modules

| Module | Models | Uses |
| --- | --- | --- |
| `UploadData` | constants and data: contents, sizes, announcements | |
| `UploadTables` | the upload rows; one operator per transaction | `UploadData` |
| `ObjectStore` | the bucket; one operator per S3 request | `UploadData` |
| `UploadService` | the API calls, one action per database or bucket request | `UploadTables`, `ObjectStore` |
| `CasIngest` | the promotion workers, one action per request | `UploadTables`, `ObjectStore` |
| `UploadIngest` | calls, workers and clock together; the properties | `UploadService`, `CasIngest`, `TrustedUploads` |
| `TrustedUploads` | abstract: what the upload API promises | `UploadData` |
| `MultipartParts` | pure: part lists of completions, ranges of multipart copies | |
| `UploadParts` | `UploadIngest` with part lists and copies of any size; their properties | `UploadIngest`, `MultipartParts` |
| `UploadIngestProofs` | the theorems about `UploadIngest` | `UploadIngest` |
| `UploadPartsProofs` | the theorems about part lists and copies | `UploadParts` |
| `ReleaseTables` | catalog and publish rows, triggers and foreign keys; one operator per transaction | |
| `PublishFlow` | manifest writes, publish and retry requests, publish workers; the properties | `ReleaseTables`, `ReleaseLifecycle` |
| `ReleaseLifecycle` | abstract: what publishing promises | |
| `PublishFlowProofs` | the theorems about `PublishFlow` | `PublishFlow` |
| `ImageServer` | uploads and publishing over one `cas_blobs` table; what a published version promises its readers | `UploadIngest`, `PublishFlow` |
| `ImageServerProofs` | the theorems about both together | `ImageServer`, `UploadIngestProofs`, `PublishFlowProofs` |
| `CatalogRows` | images, versions, aliases, and the statements reads are made of | `ReleaseLifecycle` |
| `PublishedCatalog` | a client that follows the catalog, the mirror documents and their links, statement by statement, among publishers | `CatalogRows`, `ByteRanges` |
| `ByteRanges` | pure: ranges and validators of blob requests | |
| `ByteRangesProofs`, `PublishedCatalogProofs` | the theorems about ranges, and about catalog and client | `ByteRanges`, `PublishedCatalog` |
| `AccessTables` | principals, roles, tokens, links, rules, trust; one operator per store call | |
| `AccessControl` | bootstraps of servers, requests through authentication, resolution, authorization and the management handlers | `AccessTables` |
| `AccessControlProofs` | the theorems about `AccessControl` | `AccessControl` |
| `JobRunner` | the loop of a background job | |
| `ServerLifecycle` | one run of the process: dependencies, components, requests, shutdown | `JobRunner` |
| `ServerLifecycleProofs` | the theorems about `ServerLifecycle` and `JobRunner` | `ServerLifecycle` |
| `MC_Upload`, `MC_UploadParts`, `MC_Publish`, `MC_ImageServer`, `MC_Catalog`, `MC_Access`, `MC_Lifecycle` | values of the constants for TLC | |

### How upload state corresponds to the code

`session`, `want`, `expired` are columns of `upload_sessions` (`want` and
`expired` belong to an upload id already before its row is inserted, since the
request holds them then); `partRow` is the recorded ETag of part 1; `job`,
`lockedBy` are the row of `cas_ingest_jobs`; `blob[d]` is the size in
`cas_blobs`. `mp`, `mpPart`, `staged`, `cas` are the bucket. `call[c]` is the
program counter of a handler: `at` is the request it sends next, `upload` the
session it read, `body` the part or the ETag it was given. `work[w]` is the same
for a promotion worker; `etag` says whether the staged object was opened with an
ETag.

A content stands for a byte string and for its digest (two contents have two
digests), and for the ETag of the part that holds it. An object has one part:
what interleavings can do to it, they can do with one part. What a list of
several parts means is `MultipartParts`, which has no state: an entry names a
number, a size the client claims, and an ETag that the store holds under that
number or not; `ByNumber` has every list that sorting may give (`slices.SortFunc` is
not stable), and `CompleteParts` is the outcome of the checks and the assembly for
one of them, compared with `Describes` and `Bytes`, which do not know of any order. The same
module has the ranges of a large copy, compared with the bytes of the object.
`UploadParts` states that both are exact wherever a call completes or a worker
copies. Validation of names is left out.
A request that fails without effect, or is cancelled, is `Interrupt`; a request
whose answer is lost is the same action one step later, except in `BeginRow`,
where an unknown commit makes the code go on to clean up.

### How publish state corresponds to the code

`version`, `disk`, `meta`, `trusted` are `image_versions.state`,
`release_artifacts`, the Incus metadata attachments and `cas_blobs`; `job`,
`step`, `attempt`, `lockedBy`, `stale` are publish jobs and their three steps;
`projection` is `incus_projection_items`. A manifest write is two actions,
`CheckDraft` (the BEFORE trigger) and `CommitEdit`, because nothing it locks
keeps the version from being enqueued in between: a delete takes no lock on
`image_versions`, and the key-share lock of an insert comes after the trigger.
`work[w]` is the step worker `w` claimed, with the attempt number of its lease
and the rows it has computed. All artifacts are qcow2 and the only attachments
are Incus metadata: others have no projection row, as an artifact without
metadata has none. A blob is the digest and size a row declares, and `DigestOf` its
digest: a version is publishable if both are those of a `cas_blobs` row
(`requirePublishableVersion` joins on both), while the indexer opens a blob by its
digest alone (`Readable`), and the table has one row per digest (`TrustBlob`).

### How the pipelines meet

`ImageServer` runs `UploadIngest` and an instance of `PublishFlow` side by side. All
they share is the `cas_blobs` table: `trusted` is not a variable there but what the
`blob` rows of the upload pipeline join with (`Trusted`), so the step `TrustBlob` of
`PublishFlow`, which stands for an ingest in that module, is the real one,
`SucceedJobRow`. A process of `Worker` runs both background jobs, which have their own
state (`work`, `publishing`). What either pipeline does to the other is proved, not
assumed (below, "Both pipelines together").

### How catalog state corresponds to the code

`CatalogRows` does not repeat how a version is published: it builds on
`ReleaseLifecycle`, whose promise `PublishFlow` is shown to keep, so `state`,
`content`, `verified`, `served` are the version states, manifests, trusted blobs
and projection rows as that promise describes them. `images`, `versions` and
`alias` are the remaining tables; `Home` and `NameOf` are the image and name of a
version, fixed because no statement changes them. `client` is one request, or a
sequence of requests of one client that follows references: `at` is the
statement or request that comes next, `want` what is asked for, `v` the version
its header statement found and `seen` the state it had, `disks` and `metas` what
the later statements found, `document` what of a mirror document is built. One
client is enough, because clients write nothing and a property is about what one
of them reads. `follows` tells a reference the server gave from one that was
guessed: only the first must not be "not found" (`missing`). Catalog HTTP
handlers are the actions that start and end such a request.

Publishing is assumed to keep its promise here, so the defect of
`server_unverified` does not show in these runs.

### Ranges

`ByteRanges` has no state either: `ServeBlob` computes the answer of a blob request from
size, range and validators, through `parseBlobRangeHeader`, `getObjectOptions`
and the meaning minio gives its arguments (an end of zero behind a positive start
is no end, which is why `openEnded` exists). `Asked` is the reference: the bytes
a `Range` header means. `RangesAreExact` quantifies over every size, range and
validator of the instance; parsing is modelled from the point where numbers were
read.

### How access state corresponds to the code

`origin`, `roles`, `token`, `link`, `rule`, `trust` are the rows authkit keeps
for imgsrv; each operator of `AccessTables` is one call of its store. `origin`
records who made a principal, and the attributes that name a rule and an identity.
An operator chooses these attributes as well (`createAuthPrincipal` stores what the
request says), and `existingRulePrincipal` and reconciliations look at nothing else:
a principal an operator made with them is matched, and revoked, like one the rule
made. A token is `secret` until its printing or its answer makes it `known`, and
`ended` when revoked or expired. An identity is a subject with a set of claims, as
`claimFingerprintIdentity` makes it; `Subject` relates those of one subject.
`server[s]` is how far the bootstrap of a server is; `request[q]` is the program
counter of a request with what it has read: `rules` it matched, `seen` of trust,
`todo` and `found` of a reconciliation. Operations are a constant, so that an
instance can choose which requests are sent.

Three variables record history for the properties and guard nothing. `fresh` is whom
somebody granted a role while a reconciliation ran. `mislaid` is set by an act that
ends a token or role of an administrator, or of a bootstrap that has not printed yet,
and leaves no administrator with a usable token (`WayIn`): an expiry or a revocation
that leaves another administrator a token excuses nothing. `raced` holds the audiences
whose last save of trust overlapped another save.

The code reads trust, merges and writes it back in separate calls, and nothing keeps
two saves apart: `FindProvider` and `TrustMerged` have no guard that does. Two rules of
an issuer saved at once therefore can lose one audience, and tokens for it are refused
until that rule is saved again. `TrustIsLostOnlyToRaces` says that nothing else loses
one: not a change or a deletion of rules, nor an interrupted save, nor any number of saves
before and after the race. The excuse is needed: with `raced` always empty TLC finds the
loss within one pair of saves.

A run starts with an empty store or with a managed one (`ManagedStore`): a
bootstrap and a save have happened, and perhaps an operator has made a second auth
manager that carries the rule's attributes. The bounded number of arrivals is then
spent on what comes later. One issuer is modelled; discovery is only the audience it
adds.

### How lifecycle state corresponds to the code

`runner` is a `jobs.Runner` after `New`, `loop` the local variables of its `Run`;
durations are the integers from `-MaxDuration - 1` to `MaxDuration`, and wrap as
`time.Duration` does, whose `MaxDuration` is 2^63 - 1.
`main` is where `app.Run` or `shutdownComponents` is, `results` the channel of
component results, `pending` how many are still to be received, `pool` and
`telemetry` the dependencies, `deadline` that the shutdown context has expired.
`holds` says which request or job has a connection: `Store.Close` waits for all
of them. `Signal` also cancels the jobs, whose context is made from the signalled
one: a job may end and be the first result that `Serve` receives, before the signal
itself is noticed (`ComponentExited` with a result that is no error).

## Runs

Bounds that are not sets: `MaxAttempts` bounds `attempt_count`, which has no limit
in the code. At the bound `Claim` and `RetryPublishJob` are disabled and the last
attempt is not abandoned, so that a run ends because its work is done and not
because of the bound. `MaxArrivals` bounds the starts of servers and
the requests sent, together, `MaxFailures` the consecutive failures of a job without circuit
breaker. `CHECK_DEADLOCK FALSE` in all runs but the catalog's: upload ids,
versions, requests and processes are finite and a client need not send anything,
so the system may really come to rest. A catalog client can always begin anew.

| Run | Instance | Shows |
| --- | --- | --- |
| `upload_service` | 1 upload, 2 calls, 1 worker, expiry, faults, ETags may be missing | calls that race on one session: promised bytes are staged, aborts are clean, staging outlives the decision |
| `upload_promise` | 2 uploads of one digest, right or wrong size, 2 workers, faults | `TrustedUploads` is implemented; blob rows are backed, ready sessions are served, a job has one worker, only wrong bytes are rejected, queued jobs are claimed |
| `upload_decided` | 1 upload, 2 calls, 1 worker, no faults, fair; lists of up to 3 parts, copies of up to 7 bytes in parts of 2 | every staged upload is decided; `TrustedUploads` with its fairness; part lists are assembled and objects copied exactly |
| `publish_leases` | 1 version, 2 workers, 3 attempts, late manifest writes, faults, fair | versions and jobs agree, leases are fenced, every job ends |
| `publish_frozen` | 1 version, 2 artifacts, 3 blobs of 2 digests, 2 workers, faults | published versions are verified and completely indexed; `ReleaseLifecycle` is implemented |
| `catalog` | 2 images, 2 versions of one, 3 names, 2 architectures, one client; blobs of up to 5 bytes | manifests are whole, exact references stable, what is listed is served, eligible artifacts appear, an alias names one version in a document; ranges are exact |
| `access` | 2 servers, 2 requests at a time, 4 starts and requests in all, 3 principals, 2 tokens, 2 identities of one subject, 1 rule | an administrator can get in, a lockout is final, trust is lost only to overlapping saves, one principal per identity, reconciliations revoke |
| `lifecycle` | 2 HTTP servers, 2 jobs, 1 request, 3 runner configurations, 4-bit durations, fair | delays are bounded, requests finish first, nothing is left behind, the process ends, jobs keep polling |
| `upload_contended`, `upload_wedged`, `server_unverified`, `mirror_collides` | small, faults only in `upload_wedged`; in `server_unverified` one upload, call, worker and version, 2 contents | statements of the documentation or of a comment the code does not keep (below) |

Why the bounds are enough to be interesting: a session has only pairwise races
(its row, its multipart upload and its staged object each decide for one of two
calls), two uploads of one digest are what CAS writes can race on, two different
sizes and contents make both checks of a verification fail separately, and two
workers with three attempts allow a stale lease to be taken over, lost, failed
and retried. Two versions of one image and a name that is free to be an alias of
either or the name of one are what resolution can confuse; a second image has
the same names. Two bootstraps and two requests are what the read-then-write
sequences of `authz` can race with; the managed store counts as one arrival, so that three
more are a race and a request or start that sees its result. Four bits
let a delay overflow after one doubling (5 doubled is negative), and the three
configurations are unset, overflowing and inconsistent. Three part numbers of
five may be listed, with sizes below, at and above what a part may have; copied
objects are empty, copied at once, in one part, with an exact or a short last
part, of the greatest size and too large. Symmetry is used only where a run
checks no liveness.

### Fairness

`UploadIngest!Fairness`: a handler takes its next step unless interrupted (a
goroutine is never left waiting), and a worker keeps polling and working
(`jobs.Runner.Run` returns only when its context ends, and waits a bounded time
after an error). Nothing is assumed of clients or
of the clock. `PublishFlow!Fairness`: workers poll and
work, and a lease eventually is older than `StaleStepTimeout`. Interruption is
never fair: `publish_leases` shows that jobs end although workers stop, as long as
they stop finitely often per step (`MaxAttempts`).

`ServerLifecycle!FairSpec`: the main goroutine and each job are scheduled, the
shutdown deadline passes once it is set, and whoever holds a connection gives it
back (statements are bounded by the database, not by `Store.Close`, which has no
deadline of its own). Nothing is assumed of clients: a request may last for ever.

### Mutants

Operators whose names have a suffix (`CompleteRow_NoJob`) are marked "Wrong on
purpose". No specification uses them. Each is a plausible bug in the definition
with the same stem; put in its place it breaks one property, which shows that
the property depends on the code. `PROJECT.json` pairs them.

### Where the code and its documentation differ

Shown by a run:

* `IngestingHasWorker`: a worker that loses a conditional copy before the winner's
  object is visible returns an error that nobody records; its session stays
  `ingesting` for ever. The same holds of a worker that dies.
* `IdleUploadsCanEnd`: after a completion that stopped between bucket and row, with
  bytes of the wrong size, no request can end the session.
* `PublishedIsServed` with late writes: metadata (or an artifact) whose insert commits
  behind `validate_catalog` is published although nobody uploaded it, and a client
  who follows the manifest finds nothing. (`PublishedIsVerified`
  fails in the same way; without late writes it holds, by run `publish_frozen` and the
  theorems below.) The mirror is spared: its rows always
  have their bytes (`MirrorsAreServed`), because the indexer reads them.
* `EligibleArtifactsAppear` with two names of one architecture: artifacts are
  unique by the labels they were given, products by normalised ones. A version
  with both is published, and then every mirror document is an error.

Noticed while modelling, without a run of their own: expired sessions are not
moved to `aborted` (the model's `Expire` shows all that happens); an abort that
finds the upload assembled completes the session instead; a second publish request
is refused, not answered; saving two rules of one issuer at once can lose an
audience (`raced`); `Store.Close` waits for held connections whatever the
shutdown deadline.

Two of these are about recovering access. `manage-auth.md:31-34` says that when the
bootstrap token is lost before being used, a restart "mints another bootstrap token",
with "no live `auth-manager` principal present". The token is printed after its role
was assigned, and `hasAuthManager` asks for the role only, not for a token anybody
has. A server that stops or whose output fails at `print` therefore leaves a principal
that later starts take for an administrator, and they print nothing; so does a token
that was printed and then lost or expired. Only a start that failed before
`assign` is repeated as the page says. `LockoutIsFinal` states what the code
does, which is what line 144 of the page says of the later case: there is "no in-band
path" back. But that line counts tokens only. An administrator with the attributes of a
rule gets in by OIDC without any token, if the audience is trusted and the rule
enabled: that is why `LockedOut` asks for more than the loss of every token, and looks
at identities, rules, and rules that a request has already read.

`OnePrincipalPerIdentity` is about one identity. Two identities of one subject that
race (the same subject with other claims) may make a principal each, for
`existingRulePrincipal` and the provisioning are separate calls.

## Proofs

`UploadIngestProofs` proves, for every finite or infinite set of uploads, clients,
workers and contents, with and without faults and missing ETags:

* the safety invariants and action properties of the upload runs: `TypeCorrect`,
  `BlobsAreBacked`, `ReadyIsServed`, `PromisesAreStaged`, `AbortsAreClean`,
  `JobsHaveOneWorker`, `StagingIsKept`; and three that no run repeats: jobs follow
  sessions (`JobsFollowSessions`), sessions only move forward
  (`SessionsAreMonotone`), CAS objects never change (`CasWriteOnce`);
* for an object store that returns ETags (`~BlankETag`), `RejectionsAreDeserved`
  and the refinement `ImplementsTrustedUploads`.

Assumptions: those of `UploadData` (sizes are natural numbers, announcements are
pairs of a content and a size, `None` is none of these), and nothing else.

**Why a strengthening is needed.** That an aborted session has no staged object
does not follow from the rows: it depends on what an abort in flight saw of the
bucket before it writes its row. `Inductive` adds what each process knows while
it is between two requests: `CallKnows` (a call about to write `aborted` has
made sure the multipart upload is aborted, or the row is past it already; a call
about to write `completed` that it is completed), `WorkerKnows` (a worker past
its verification holds a job whose staged bytes meet the announcement), and
`RowFollowsObjects`, `CasKeysAreTrue` for the data. TLC has checked `Inductive`
as an invariant of the same instances.

**How the proof goes.** It is a rely/guarantee argument. Each transaction and
each bucket request keeps `DataAgrees` (`RowStepAgrees`, `BucketStepAgrees`,
`ClaimAgrees`, `SucceedAgrees`, ...). Every step of a call changes only its own
upload in ways other processes can bear (`CallDataGuarantee`), which keeps what
they know (`CallKept`, `WorkerKept`); so does every step of a worker
(`WorkerStep`). `InductiveNext` puts them together. The action properties follow
from one classification of steps (`StepsAreDataSteps`) under `Inductive`. For the
refinement, `AbstractStep` maps each step to one of `TrustedUploads` or to a
stutter, using that at most one upload's row changes (`OneUploadChanges`) and
that served claims only grow (`ServedGrows`).

`PublishFlowProofs` proves, for every set of versions, artifacts, blobs, editors
and workers, wherever workers stop:

* with manifest writes at any time: `TypeCorrect`, `JobsTrackVersions`,
  `StepsAreOrdered`, `ProjectionsAreBacked`, `ProjectionsAreReadable`, `LeasesFence`,
  `SuccessIsFinal`;
* under `~LateWrites`: `PublishedVersionsAreVerified`, `PublishedIndexIsComplete` and the refinement `ImplementsReleaseLifecycle`.

Those of them that no run repeats (`StepsAreOrdered`, `ProjectionsAreBacked`,
`ProjectionsAreReadable`, `SuccessIsFinal`) are proved only.

The assumption `~LateWrites` is an assumption about the environment, not
something the code ensures: `server_unverified` shows how the properties fail
without it. `None` is neither a blob nor a worker; nothing else is assumed
(`MaxAttempts` only bounds TLC's runs and no proof uses it).

The strengthening, `Inductive`, adds to the checked invariants that a version has
all its steps or none and that a job succeeds with its last step (`StepsAgree`),
that attachments have artifacts (`AttachmentsExist`: without it, `Publishable`
says nothing of the attachment of an artifact that is gone), that a worker works
for a version with a job and stores only in the index step (`WorkersKnow`), and,
under `~LateWrites`, `ManifestsStand`: checked edits belong to drafts, versions
that left draft stay citable, and an index held by a worker is that of the
current manifest. The last is what makes an index computed outside any
transaction safe. `StepsAreRowSteps` classifies every step of the system as one
transaction on one version (`RowStep`) or a change of trust or age (`Ripple`);
`RowsAgree`, `RowsExistStill`, `RowsStandStill`, `WorkersStill` and `EditsStill`
keep one part each, and the action properties and the refinement follow from
the same classification. That every digest the index names is trusted, even with
late manifest writes, has an invariant of its own (`RowsAreReadable`: also what a
worker holds is readable) and rests on trust never being withdrawn.

TLC first checked this `Inductive`, and each inductive invariant below, as an
invariant of the instance of a run.

### Both pipelines together

`ImageServerProofs` is about the composition and proves nothing twice: it takes the
theorems of both pipelines and shows that they apply.

* `UploadsRunUndisturbed`: to uploads, publishing is stuttering, so every theorem of
  `UploadIngestProofs` holds of the server.
* `ReleasesRunUndisturbed`: the server implements `PublishFlow` with `trusted` read off
  the blob rows. A step of the upload pipeline is `TrustBlob` or stutters
  (`TrustMoves`): the only statement that writes `cas_blobs` inserts the announcement
  of a session if its digest is new, and changes nothing otherwise. This uses the inductive
  invariant of uploads (a running job's session has an announcement).
* Through `Proved`, the instance of `PublishFlowProofs` in this system, its theorems
  apply too; their assumptions follow from those of `UploadData`.

What neither pipeline says alone follows: `BlobsComeFromUploads` (every blob row was
announced by a session that ended ready), `PublishedVersionsAreServed` and
`PublishedVersionsStayServed` (under `~LateWrites`, all that a published version cites was
uploaded, is in the bucket with its digest and size, and stays the same for ever),
`MirrorsAreServed` (with late writes too, the bytes of what the mirror lists are there;
their declared size may be wrong) and `PromisesAreKeptTogether` (both abstract
specifications are implemented at once). The constants of `PublishFlow` are
hypotheses of these theorems: `MaxAttempts` is a natural number, `LateWrites` a
truth value. `BlobRowsAreBacked`, `CasStays`, `PublishedIsVerified` and
`ManifestStays` are what the argument joins: a citation is trusted, trust is a row, a
row is backed, and none of it is withdrawn.

TLC has checked `PublishedIsServed`, `PublishedStaysServed`, `MirrorIsServed` and
`BlobsWereUploaded` on the instance of `server_unverified` with faults and without late writes, and
the last two also with late writes and two uploads of one digest.

### Part lists, copies and ranges

`UploadPartsProofs` proves `ListsAssembleExactly`: for lists of any length, numbers
and sizes, and whatever the limits of the store. The library's induction theorems
cannot be used (they take operators), so the argument is by counting and by a least
counterexample (`LeastNumber`). A list can be sorted, because the number of entries
that do not come after an entry is its place (`ListsCanBeSorted`); the total that
`completePartsSize` adds up is the number of the list's bytes, because the first
place where the two differ could not be the first (`BytesAddUp`, `TotalsCountBytes`),
and so does not depend on the order (`OrdersKeepBytes`); the checks of neighbours in
a sorted list say of any two entries what `Describes` says, whichever order sorting
gave equal numbers (`DescribedListsPass`). `CompletionsDoAssemble` states it of the
calls of `UploadParts`.

The same module proves `CopiesAreExact`: for every size of an object and every
limit of the object store, the ranges of `multipartCopyParts` hold every byte once
and are neither too many nor too long; and from it `CopiesDoCoverObjects`. The
argument is that parts start at multiples of the part size (`ProductsGrow`,
`PartsFit`), so that a byte is in the part its offset divided by the size names
(`PartsReachAll`), in no other (`PartsAreApart`), and that part numbers are at most
the size divided by that of a part (`PartsAreFew`, `RangesAreCounted`).
`CopyAssumption` (what one request copies is not too large for several) is true of
the three constants of `objectstore/s3/store.go`.

`ByteRangesProofs` proves `AnswersAreExact`: blobs of every size, every range and
every validator. It follows the code: what `getObjectOptions` and minio make of a
range is that range (`OpenedExactly`), and what the handler selects is what was
asked (`SelectedExactly`).

### Access

`AccessControlProofs` proves, for every set of servers, requests, operations,
principals, tokens, identities and rules, wherever a server stops or a call fails:
`TypeCorrect`, `AdministratorsGetIn`, `IdentitiesHaveOnePrincipal`,
`ReconciliationsRevoke`, `TrustLossesAreRaces`, `LockoutsAreFinal`. The assumptions are those of
`AccessTables` and `AccessControl` about the kinds of constants; none is about the order of
calls.

None of the properties is inductive, since each is about what several calls of a
store read and wrote one after the other. `Inductive` adds that a request is only
where its operation leads (`RequestsFit`), that links and principals made by rules
are inverse to each other (`LinksAgree`, from which two racing provisionings make
one principal), what a bootstrap has created so far (`BootstrapsKnow`), that there
is an administrator somebody can act as from the moment a server serves or a
management request runs, unless `mislaid` (`AdministratorsStay`), and that a
reconciliation has yet to look at, has found, or was overtaken by every principal
of its rule (`ReconciliationsKnow`). `TrustIsMerged` says what two requests that read
trust can know of each other and of what is stored: they differ by audiences that have raced.

Next to `Inductive`, `LockoutIsFinal` needs only that `LockedOut` is closed. It is
stated with the calls in progress (`Harmless`, `Detained`): a bootstrap that is
still looking will find an administrator (`OnlyFinders`), nobody who can be
authenticated is one (`OnlyOthersGetIn`), of what runs only content writes are
left (`OnlyWritersRun`), and what such calls do to the rows, ending tokens and
provisioning principals that are no administrators, gives no identity a claim to one
(`QuietStepsKeepClaims`), also under rules that were read earlier.

### Catalog

`PublishedCatalogProofs` proves, for every set of images, versions, names, artifacts
and blobs: `TypeCorrect`, `ManifestsAreComplete`, `ExactReferencesStayStable`,
`ListedIsServed`, `AliasesNameOneVersion`, `RangesStayExact`, and, if no two artifacts
get one product name (`NamesDoNotCollide`), `EligibleArtifactsDoAppear`. The last
hypothesis is not ensured by the code: `mirror_collides` shows what happens without it.

A client reads in several statements while publishers write, so `Inductive` says what
was read is still so: `ReadsAgree` (what was read of a version that left draft is
what it holds, for a frozen content does not change), `ReferencesHold` (what a client
was told of exists; only a guess goes on to the aliases, so that an alias never
answers for a version), `FilesExist`, `DocumentsAgree` (rows of one image and its
aliases are read at once, so that a name is in one place), `DueIsListed`. They rest on
`RowsAreServed`, `VersionsBelong`, `FrozenIsTrusted` and `AliasesArePublished` about the
rows, and on `NamesAssumption`: a version has one image and one name, and `None` is
neither of any kind. Steps of publishers keep what a client knows (one lemma for each part of the
invariant), and steps of the client change no row.

### Process

`ServerLifecycleProofs` proves, for every set of requests, every finite set of jobs,
every configuration and every `MaxDuration`: `TypeCorrect`, `DelaysAreBounded`,
`RequestsAreAnswered` and `ReturnsStopped`.

That a delay stays between its bounds is `BackoffStaysInBounds`: a doubled duration
that did not overflow is no smaller, and one that did is negative, which the code
notices. That nothing is left behind when the process returns is a matter of
counting: `ResultsAreCounted` says that `pending` is the number of components whose
result has not been received (`Outstanding`), with the theorems of the library about
cardinalities; it is why `JobsAssumption` says that jobs are finitely many and none of
them an HTTP server. `StagesAgree` and `ListenersClose` say how far the shutdown has
come: requests were answered before the pool began to close, and it is closed only
when nothing holds a connection.

### What is only model-checked

Liveness (`StagedUploadsAreDecided`, `KeepsUploadPromiseInTime`, `QueuedJobsAreClaimed`,
`PublishJobsEnd`, `JobsKeepPolling`, `ExitStopsServer`) is out of the prover's reach.
Every other property a passing run checks is also a theorem.

## Not modelled

Validation and normalisation of names, labels and digests; the texts of documents,
headers, paths and digests; several issuers, claim conditions, discovery of
providers; HTTP decoding of uploads and publish requests, readiness
endpoints; the client library (it sends one request per call and does not retry,
so its callers are the clients of `UploadService`, `PublishedCatalog` and
`AccessControl`); metrics, logging, telemetry, configuration, command line;
migrations, which one advisory lock serialises. A crash of Postgres or of the
bucket with loss of committed data is not considered.

## Plan

Done: the upload and publish pipelines and their composition, the catalog, access, the
process, ranges and part lists; every safety and action property a passing run checks
as a theorem. What would come next:

1. Abstract specifications of access and of the process, as there are of the pipelines.
2. `PublishedCatalog` over `ImageServer`: its readers assume the promise of
   `ReleaseLifecycle`, which `PromisesAreKeptTogether` shows the server keeps.
