------------------------------ MODULE ByteRanges ------------------------------
(***************************************************************************)
(* Which bytes of a blob a request is answered with (httpapi, blob routes  *)
(* and catalog downloads).                                                 *)
(*                                                                         *)
(* The bytes of an object are their offsets.  Texts are parsed: a range is *)
(* one of three forms, with numbers.                                       *)
(***************************************************************************)
EXTENDS Integers

CONSTANTS
    ObjectSize,   \* the sizes of objects
    RangeNumber,  \* the numbers in a Range header
    Time          \* times, in seconds

ASSUME SizesAssumption ==
    /\ ObjectSize \subseteq Nat
    /\ RangeNumber \subseteq Int
    /\ Time \subseteq Nat

Offsets(size) == 0 .. size - 1

-----------------------------------------------------------------------------
(* Requests.                                                                *)

NoRange == [form |-> "none", first |-> 0, last |-> 0]
Range == [form : {"none", "suffix", "from", "between"}, first : RangeNumber, last : RangeNumber]

Absent == [is |-> "absent", time |-> 0]
Validator == [is : {"absent", "current", "other"}, time : {0}] \cup [is : {"time"}, time : Time]

-----------------------------------------------------------------------------
(* parseBlobRangeHeader.                                                    *)

Unsatisfiable == [start |-> 0, end |-> -1, length |-> 0, openEnded |-> FALSE]
Selected(start, end, openEnded) ==
    [start |-> start, end |-> end, length |-> end - start + 1, openEnded |-> openEnded]

Least(x, y) == IF x <= y THEN x ELSE y

SuffixRange(length, size) ==
    IF length <= 0 THEN Unsatisfiable
    ELSE Selected(size - Least(length, size), size - 1, FALSE)

OpenRange(first, size) ==
    IF first < 0 \/ first >= size THEN Unsatisfiable ELSE Selected(first, size - 1, TRUE)

\* Wrong on purpose: an end behind the last byte is kept.
ClosedRange_Unclipped(first, last, size) ==
    IF first < 0 \/ first >= size \/ last < first THEN Unsatisfiable
    ELSE Selected(first, last, FALSE)

ClosedRange(first, last, size) ==
    IF first < 0 \/ first >= size \/ last < first THEN Unsatisfiable
    ELSE Selected(first, Least(last, size - 1), FALSE)

parseBlobRange(range, size) ==
    CASE size = 0 -> Unsatisfiable
      [] size > 0 /\ range.form = "suffix" -> SuffixRange(range.first, size)
      [] size > 0 /\ range.form = "from" -> OpenRange(range.first, size)
      [] OTHER -> ClosedRange(range.first, range.last, size)

-----------------------------------------------------------------------------
(* Opening the object.                                                      *)

\* minio's SetRange: an end of zero behind a positive start is no end.
SetRange(start, end, size) ==
    IF 0 < start /\ end = 0 THEN {n \in Offsets(size) : start <= n}
    ELSE {n \in Offsets(size) : start <= n /\ n <= end}

\* getObjectOptions.
Opened(selected, size) ==
    IF selected.openEnded /\ selected.start = 0 THEN Offsets(size)
    ELSE IF selected.openEnded THEN SetRange(selected.start, 0, size)
    ELSE SetRange(selected.start, selected.end, size)

-----------------------------------------------------------------------------
(* Answers.  The entity tag of a blob is its digest, its time when it was   *)
(* verified.                                                                *)

\* The time is compared only when there is no If-None-Match.
blobNotModified(ifNoneMatch, ifModifiedSince, modifiedAt) ==
    \/ ifNoneMatch.is = "current"
    \/ ifNoneMatch.is = "absent" /\ ifModifiedSince.is = "time" /\ modifiedAt <= ifModifiedSince.time

\* Wrong on purpose: any validator will do.
ifRangeAllows_Any(ifRange, modifiedAt) == TRUE

ifRangeAllows(ifRange, modifiedAt) ==
    \/ ifRange.is \in {"absent", "current"}
    \/ ifRange.is = "time" /\ modifiedAt <= ifRange.time

Whole(size) == [status |-> 200, length |-> size, bytes |-> Offsets(size)]

Partial(range, size) ==
    LET selected == parseBlobRange(range, size) IN
    IF selected = Unsatisfiable THEN [status |-> 416, length |-> 0, bytes |-> {}]
    ELSE [status |-> 206, length |-> selected.length, bytes |-> Opened(selected, size)]

\* getBlob and serveCatalogBlob, once the blob is found.
ServeBlob(size, modifiedAt, range, ifRange, ifNoneMatch, ifModifiedSince) ==
    IF blobNotModified(ifNoneMatch, ifModifiedSince, modifiedAt)
    THEN [status |-> 304, length |-> 0, bytes |-> {}]
    ELSE IF range.form = "none" \/ ~ifRangeAllows(ifRange, modifiedAt) THEN Whole(size)
    ELSE Partial(range, size)

-----------------------------------------------------------------------------
\* What a Range header asks for, by its meaning: the bytes of the object in the range.
Asked(range, size) ==
    {n \in Offsets(size) :
        \/ range.form = "suffix" /\ size - range.first <= n
        \/ range.form = "from" /\ range.first >= 0 /\ range.first <= n
        \/ /\ range.form = "between" /\ range.first >= 0
           /\ range.first <= n /\ n <= range.last}

\* For every range and validator: a partial answer is the bytes that were asked for and
\* announces as many; it is refused only if that is none; the whole blob is sent if the
\* client's part is of another version; and nothing is sent only if its copy is current.
AnswersExactly(size) ==
    \A range \in Range, modifiedAt \in Time,
       ifRange, ifNoneMatch, ifModifiedSince \in Validator :
        LET answer == ServeBlob(size, modifiedAt, range, ifRange, ifNoneMatch, ifModifiedSince) IN
        /\ answer.status = 206 =>
              /\ answer.bytes = Asked(range, size)
              /\ \E first \in Offsets(size) : answer.bytes = first .. first + answer.length - 1
              /\ answer.length > 0
        /\ answer.status = 416 => Asked(range, size) = {}
        /\ answer.status = 206 => ifRange.is # "other"
        /\ answer.status = 304 => ifNoneMatch.is # "other"
        /\ answer.status = 200 => answer.bytes = Offsets(size)

ExactSizes == {size \in ObjectSize : AnswersExactly(size)}
=============================================================================
