--------------------------- MODULE MultipartParts ---------------------------
(***************************************************************************)
(* Objects that are made of parts.  A completion lists parts, in any order *)
(* and with sizes of its own: the list is checked, sorted and sent to the  *)
(* object store, which assembles the object (uploads.CompleteUpload,       *)
(* objectstore.NormalizeCompleteParts).  A large object is copied in       *)
(* ranges (s3.copyObjectMultipart).  UploadIngest has one part in both.    *)
(***************************************************************************)
EXTENDS Integers, Sequences, SequencesExt

CONSTANTS
    ListedNumber,   \* the numbers in part lists
    ListedSize,     \* the sizes in part lists
    MaxListed,      \* bound on the length of part lists
    MaxPartNumber,  \* MultipartMaxPartNumber
    MinPartSize,    \* MultipartMinPartSizeBytes
    MaxPartSize,    \* MultipartMaxPartSizeBytes
    CopiedSize,        \* the sizes of objects that are copied
    maxCopyPartSize,   \* maxCopyPartSizeBytes
    maxCopyPartCount,  \* maxCopyPartCount
    maxSingleCopySize  \* maxSingleCopySizeBytes

ASSUME PartsAssumption ==
    /\ ListedNumber \subseteq Int /\ ListedSize \subseteq Int
    /\ {MaxListed, MaxPartNumber, MinPartSize, MaxPartSize} \subseteq Nat
    /\ CopiedSize \subseteq Nat
    /\ {maxCopyPartSize, maxCopyPartCount, maxSingleCopySize} \subseteq Nat \ {0}
\* What one request copies is not too large for the parts of several.
ASSUME CopyAssumption == maxSingleCopySize <= maxCopyPartSize * maxCopyPartCount

\* An entry names its part by an ETag, which is that of the part the store holds under the
\* number, or that of one it does not hold, or no longer.
Listed == [number : ListedNumber, size : ListedSize, held : BOOLEAN]
PartList == SeqOf(Listed, MaxListed)

-----------------------------------------------------------------------------
ValidatePartNumber(number) == 1 <= number /\ number <= MaxPartNumber

ValidateMultipartPartSize(size) == 0 <= size /\ size <= MaxPartSize

\* Wrong on purpose: the list is taken as it comes.
ByNumber_Unsorted(parts) == {parts}

\* The lists that sorting by number may give: slices.SortFunc is not stable.
ByNumber(parts) ==
    {[k \in DOMAIN parts |-> parts[order[k]]] :
        order \in {p \in Bijection(DOMAIN parts, DOMAIN parts) :
                     \A k, m \in DOMAIN parts : k < m => parts[p[k]].number <= parts[p[m]].number}}

(* NormalizeCompleteParts, of a list that was sorted by number: all but the  *)
(* last have a minimum size, and no number is listed twice.                  *)
NormalizeCompleteParts(normalized) ==
    /\ normalized # <<>>
    /\ \A k \in DOMAIN normalized :
          /\ ValidatePartNumber(normalized[k].number)
          /\ ValidateMultipartPartSize(normalized[k].size)
          /\ k < Len(normalized) => MinPartSize <= normalized[k].size
          /\ k > 1 => normalized[k - 1].number # normalized[k].number

completePartsSize(parts) ==
    LET total[k \in 0 .. Len(parts)] == IF k = 0 THEN 0 ELSE total[k - 1] + parts[k].size
    IN  total[Len(parts)]

\* What the store assembles: parts it holds, listed in ascending order.
Assembles(parts) ==
    \A k \in DOMAIN parts : parts[k].held /\ (k > 1 => parts[k - 1].number < parts[k].number)

\* The numbers of the parts of the object, in the order of their bytes; none, if the
\* request is refused.
CompleteParts(normalized, expected) ==
    IF /\ NormalizeCompleteParts(normalized)
       /\ completePartsSize(normalized) = expected
       /\ Assembles(normalized)
    THEN [k \in DOMAIN normalized |-> normalized[k].number]
    ELSE <<>>

-----------------------------------------------------------------------------
\* What a list describes, whatever its order: distinct parts that the store holds.
Describes(parts) ==
    /\ parts # <<>>
    /\ \A k \in DOMAIN parts :
          /\ parts[k].held /\ parts[k].number \in 1 .. MaxPartNumber
          /\ parts[k].size \in 0 .. MaxPartSize
          /\ \A m \in DOMAIN parts \ {k} :
                /\ parts[m].number # parts[k].number
                /\ parts[k].number < parts[m].number => parts[k].size >= MinPartSize

\* The bytes of the listed parts.
Bytes(parts) == UNION {{k} \X (1 .. parts[k].size) : k \in DOMAIN parts}

\* A list makes an object of the described parts, each once and in the order of their
\* numbers, exactly if the object has as many bytes as expected; otherwise it is refused.
AssemblesExactly(parts) ==
    \A expected \in ListedSize :
        LET objects == {CompleteParts(normalized, expected) : normalized \in ByNumber(parts)} IN
        /\ objects # {}
        /\ \A object \in objects :
              /\ object # <<>> <=> Describes(parts) /\ expected = Cardinality(Bytes(parts))
              /\ object # <<>> =>
                    /\ ToSet(object) = {parts[k].number : k \in DOMAIN parts}
                    /\ \A k \in 2 .. Len(object) : object[k - 1] < object[k]

ExactLists == {parts \in PartList : AssemblesExactly(parts)}

-----------------------------------------------------------------------------
(* Copies, as ranges of offsets.                                            *)

PartStart(number) == (number - 1) * maxCopyPartSize
PartNumbers(size) == {number \in 1 .. size : PartStart(number) < size}

\* Wrong on purpose: the last part has the size of the others.
PartSize_Full(number, size) == maxCopyPartSize

PartSize(number, size) ==
    LET rest == size - PartStart(number)
    IN  IF maxCopyPartSize <= rest THEN maxCopyPartSize ELSE rest

(* multipartCopyParts refuses sizes its parts do not suffice for.            *)
multipartCopyParts(size) ==
    IF 0 < size /\ size <= maxCopyPartSize * maxCopyPartCount
    THEN {PartStart(k) .. PartStart(k) + PartSize(k, size) - 1 : k \in PartNumbers(size)}
    ELSE {}

requiresMultipartCopy(size) == size > maxSingleCopySize

(* The ranges CopyObject reads its source in.                                *)
CopiedRanges(size) ==
    IF requiresMultipartCopy(size) THEN multipartCopyParts(size) ELSE {0 .. size - 1}

\* The ranges hold every byte once, none is empty unless the object is, and there are
\* neither more nor longer ones than the object store takes; a copy is refused only if
\* its object has more bytes than that.
CoversExactly(size) ==
    LET ranges == CopiedRanges(size) IN
    /\ ranges = {} <=> size > maxCopyPartSize * maxCopyPartCount
    /\ ranges # {} => UNION ranges = 0 .. size - 1
    /\ \A x, y \in ranges : x # y => x \cap y = {}
    /\ requiresMultipartCopy(size) =>
          /\ {} \notin ranges /\ Cardinality(ranges) <= maxCopyPartCount
          /\ \A x \in ranges : Cardinality(x) <= maxCopyPartSize

CoveredSizes == {size \in CopiedSize : CoversExactly(size)}
=============================================================================
