---------------------------- MODULE MC_UploadParts ----------------------------
(* An instance of UploadParts for TLC. *)
EXTENDS MC_Upload, UploadParts

\* One number below and one above the three that parts may have; sizes that are too small,
\* that fit, and that are too large for a part but not for a whole object.
Numbers == 0 .. 4
Sizes == 0 .. 3
ObjectSizes == 0 .. 7
=============================================================================
