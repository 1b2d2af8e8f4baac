---------------------------- MODULE ObjectStore ----------------------------
(***************************************************************************)
(* The S3-compatible bucket, as internal/objectstore/s3 drives it.  Each   *)
(* upload has one multipart upload and one staging key; each digest has    *)
(* one CAS key.  A completed or aborted multipart upload answers           *)
(* NoSuchUpload, which the adapter maps to ErrNotFound.                    *)
(***************************************************************************)
EXTENDS UploadData

VARIABLES
    mp,      \* the multipart upload: none, open, completed or aborted
    mpPart,  \* the content of its part 1
    staged,  \* the object at the staging key
    cas      \* the object at the CAS key of a digest

bucket == <<mp, mpPart, staged, cas>>

BucketTypeOK ==
    /\ mp \in [Upload -> {"none", "open", "completed", "aborted"}]
    /\ mpPart \in [Upload -> Content \cup {None}]
    /\ staged \in [Upload -> Content \cup {None}]
    /\ cas \in [Content -> Content \cup {None}]

BucketInit ==
    /\ mp = [u \in Upload |-> "none"]
    /\ mpPart = [u \in Upload |-> None]
    /\ staged = [u \in Upload |-> None]
    /\ cas = [d \in Content |-> None]

-----------------------------------------------------------------------------
CreateMultipartUpload(u) ==
    /\ mp' = [mp EXCEPT ![u] = "open"]
    /\ UNCHANGED <<mpPart, staged, cas>>

\* Wrong on purpose (see README, "Mutants"): a late part still reaches an assembled object.
PutPart_Late(u, b) ==
    \/ /\ mp[u] = "open"
       /\ mpPart' = [mpPart EXCEPT ![u] = b]
       /\ UNCHANGED <<mp, staged, cas>>
    \/ /\ staged[u] # None
       /\ staged' = [staged EXCEPT ![u] = b]
       /\ UNCHANGED <<mp, mpPart, cas>>

PutPart(u, b) ==
    /\ mp[u] = "open"
    /\ mpPart' = [mpPart EXCEPT ![u] = b]
    /\ UNCHANGED <<mp, staged, cas>>

(* The part list of the request names an ETag; the store assembles the      *)
(* object only from the part that carries it.                               *)
CompleteMultipartUpload(u, etag) ==
    /\ mp[u] = "open"
    /\ mpPart[u] = etag
    /\ mp' = [mp EXCEPT ![u] = "completed"]
    /\ staged' = [staged EXCEPT ![u] = etag]
    /\ mpPart' = [mpPart EXCEPT ![u] = None]
    /\ UNCHANGED cas

AbortMultipartUpload(u) ==
    /\ mp[u] = "open"
    /\ mp' = [mp EXCEPT ![u] = "aborted"]
    /\ mpPart' = [mpPart EXCEPT ![u] = None]
    /\ UNCHANGED <<staged, cas>>

(* Both preconditions of the copy are sent with the request and evaluated   *)
(* by the store: the source still carries the verified ETag, and nothing is *)
(* at the destination.                                                      *)
CopyObject(u, etag, d) ==
    /\ staged[u] # None
    /\ staged[u] = etag
    /\ cas[d] = None
    /\ cas' = [cas EXCEPT ![d] = staged[u]]
    /\ UNCHANGED <<mp, mpPart, staged>>

DeleteObject(u) ==
    /\ staged' = [staged EXCEPT ![u] = None]
    /\ UNCHANGED <<mp, mpPart, cas>>
=============================================================================
