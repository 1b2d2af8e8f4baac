----------------------------- MODULE UploadData -----------------------------
(***************************************************************************)
(* The vocabulary shared by the upload, object-store and CAS ingest        *)
(* modules of imgsrv.                                                      *)
(*                                                                         *)
(* Bytes are abstracted to a Content; two different contents have two      *)
(* different SHA-256 digests, so a content also stands for its own digest. *)
(* A staged object is assembled from one part, whose ETag is its content.  *)
(***************************************************************************)
EXTENDS Naturals, FiniteSets

CONSTANTS
    Upload,       \* upload session ids (uploads.Service draws a fresh UUID each)
    Client,       \* concurrent API requests
    Worker,       \* promotion workers
    Content,      \* byte strings, each also its own digest
    Size,         \* Size[b]: the length of content b
    Expectation,  \* the [digest, size] pairs a client may ask to upload
    Faults,       \* TRUE: calls and workers may stop between any two steps
    BlankETag,    \* TRUE: the object store may omit the ETag of an opened object
    None          \* absence of a value

ASSUME SizeAssumption == Size \in [Content -> Nat]
ASSUME ExpectationAssumption == Expectation \subseteq [digest : Content, size : Nat]
ASSUME FlagAssumption == Faults \in BOOLEAN /\ BlankETag \in BOOLEAN
ASSUME NoneAssumption == /\ None \notin Content
                         /\ None \notin Nat
                         /\ None \notin Upload
                         /\ None \notin Worker
                         /\ None \notin [digest : Content, size : Nat]

\* The bytes b are what expectation e names: the two checks of verifyStagedUpload.
Meets(b, e) == b = e.digest /\ Size[b] = e.size
=============================================================================
