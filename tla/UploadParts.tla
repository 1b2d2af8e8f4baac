----------------------------- MODULE UploadParts -----------------------------
(***************************************************************************)
(* UploadIngest with objects of several parts: whatever parts a client     *)
(* lists when it completes an upload, and whatever size an object has when *)
(* a worker copies it.                                                     *)
(***************************************************************************)
EXTENDS UploadIngest, MultipartParts

\* A call that completes an upload may list any parts: the object is assembled from the
\* listed parts, each once and in the order of their numbers, or the list is refused.  A
\* repeated, replaced or undersized part is refused, and the order of the list makes no
\* difference, also not to which part counts as the last (AssemblesExactly;
\* normalizeCompleteUploadParts, NormalizeCompleteParts).
CompletionsAreExact ==
    \A c \in Client : call[c].at = "complete_object" => ExactLists = PartList

\* A worker that copies a staged object into CAS copies every byte of it once, in one
\* request or in ranges, around every limit of the object store (CoversExactly;
\* multipartCopyParts, requiresMultipartCopy).
CopiesCoverObjects ==
    \A w \in Worker : work[w].at = "copy" => CoveredSizes = CopiedSize
=============================================================================
