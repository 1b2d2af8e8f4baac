--------------------------- MODULE ByteRangesProofs ---------------------------
(***************************************************************************)
(* Proofs about ByteRanges: whatever the size of a blob and whatever a     *)
(* client asks for, the answer is what the header means.                   *)
(***************************************************************************)
EXTENDS ByteRanges, TLAPS

\* A part of an object, and the bytes minio sends for it.
Part(selected, size) ==
    /\ selected.start \in Nat /\ selected.end \in Nat
    /\ selected.start <= selected.end /\ selected.end < size
    /\ selected.length = selected.end - selected.start + 1
    /\ selected.openEnded \in BOOLEAN
    /\ selected.openEnded => selected.end = size - 1

\* What is opened are the bytes from start to end, although an end of zero has a meaning
\* of its own for minio.
LEMMA OpenedExactly ==
    ASSUME NEW size \in Nat, NEW selected, Part(selected, size)
    PROVE  Opened(selected, size) = selected.start .. selected.end
<1>1. CASE selected.openEnded /\ selected.start = 0
  BY <1>1 DEF Part, Opened, Offsets
<1>2. CASE selected.openEnded /\ selected.start # 0
  <2>1. Opened(selected, size) = {n \in 0 .. size - 1 : selected.start <= n}
    BY <1>2 DEF Part, Opened, Offsets, SetRange
  <2>2. selected.start \in Nat /\ selected.end = size - 1
    BY <1>2 DEF Part
  <2> QED BY <2>1, <2>2
<1>3. CASE ~selected.openEnded
  <2>1. Opened(selected, size) = {n \in 0 .. size - 1 : selected.start <= n /\ n <= selected.end}
    BY <1>3 DEF Part, Opened, Offsets, SetRange
  <2>2. selected.start \in Nat /\ selected.end \in Nat /\ selected.end < size
    BY DEF Part
  <2> QED BY <2>1, <2>2
<1> QED BY <1>1, <1>2, <1>3 DEF Part

\* A header selects a part whose bytes are those it asks for, or nothing if it asks for none.
LEMMA SelectedExactly ==
    ASSUME NEW size \in Nat, NEW range \in Range, range.form # "none"
    PROVE  LET selected == parseBlobRange(range, size) IN
           \/ selected = Unsatisfiable /\ Asked(range, size) = {}
           \/ /\ Part(selected, size)
              /\ Asked(range, size) = selected.start .. selected.end
<1> DEFINE selected == parseBlobRange(range, size)
           Exact(x) == \/ x = Unsatisfiable /\ Asked(range, size) = {}
                       \/ /\ Part(x, size)
                          /\ Asked(range, size) = x.start .. x.end
<1>1. range.first \in Int /\ range.last \in Int /\ range.form \in {"suffix", "from", "between"}
  BY SizesAssumption DEF Range
<1>2. CASE size = 0
  BY <1>2 DEF parseBlobRange, Asked, Offsets
<1>3. CASE size > 0 /\ range.form = "suffix"
  <2>1. selected = SuffixRange(range.first, size)
    BY <1>3 DEF parseBlobRange
  <2>2. CASE range.first <= 0
    BY <1>1, <1>3, <2>1, <2>2 DEF SuffixRange, Asked, Offsets
  <2>3. CASE range.first > 0
    <3> DEFINE start == size - Least(range.first, size)
    <3>1. selected = [start |-> start, end |-> size - 1, length |-> (size - 1) - start + 1, openEnded |-> FALSE]
      BY <1>1, <2>1, <2>3 DEF SuffixRange, Selected
    <3>2. start \in 0 .. size - 1 /\ \A n \in 0 .. size - 1 : size - range.first <= n <=> start <= n
      BY <1>1, <1>3, <2>3 DEF Least
    <3> HIDE DEF start, selected
    <3>3. Asked(range, size) = start .. size - 1
      BY <1>1, <1>3, <3>2 DEF Asked, Offsets
    <3>4. Part(selected, size)
      BY <1>3, <3>1, <3>2 DEF Part
    <3> QED BY <3>1, <3>3, <3>4 DEF selected
  <2> QED BY <1>1, <2>2, <2>3
<1>4. CASE size > 0 /\ range.form = "from"
  <2>1. selected = OpenRange(range.first, size)
    BY <1>4 DEF parseBlobRange
  <2>2. CASE range.first < 0 \/ range.first >= size
    <3>1. selected = Unsatisfiable
      BY <2>1, <2>2 DEF OpenRange
    <3>2. Asked(range, size) = {}
      BY <1>1, <1>4, <2>2 DEF Asked, Offsets
    <3> QED BY <3>1, <3>2
  <2>3. CASE ~(range.first < 0 \/ range.first >= size)
    <3>1. selected = [start |-> range.first, end |-> size - 1, length |-> (size - 1) - range.first + 1,
                      openEnded |-> TRUE]
      BY <2>1, <2>3 DEF OpenRange, Selected
    <3>2. Part(selected, size)
      BY <1>1, <1>4, <2>3, <3>1 DEF Part
    <3>3. Asked(range, size) = range.first .. size - 1
      BY <1>1, <1>4, <2>3 DEF Asked, Offsets
    <3> QED BY <3>1, <3>2, <3>3
  <2> QED BY <2>2, <2>3
<1>5. CASE size > 0 /\ range.form = "between"
  <2>1. selected = ClosedRange(range.first, range.last, size)
    BY <1>5 DEF parseBlobRange
  <2>2. CASE range.first < 0 \/ range.first >= size \/ range.last < range.first
    <3>1. selected = Unsatisfiable
      BY <2>1, <2>2 DEF ClosedRange
    <3>2. Asked(range, size) = {}
      BY <1>1, <1>5, <2>2 DEF Asked, Offsets
    <3> QED BY <3>1, <3>2
  <2>3. CASE ~(range.first < 0 \/ range.first >= size \/ range.last < range.first)
    <3> DEFINE end == Least(range.last, size - 1)
    <3>1. selected = [start |-> range.first, end |-> end, length |-> end - range.first + 1,
                      openEnded |-> FALSE]
      BY <2>1, <2>3 DEF ClosedRange, Selected
    <3>2. end \in range.first .. size - 1 /\ \A n \in 0 .. size - 1 : n <= range.last <=> n <= end
      BY <1>1, <1>5, <2>3 DEF Least
    <3> HIDE DEF end, selected
    <3>3. Part(selected, size)
      BY <1>1, <1>5, <2>3, <3>1, <3>2 DEF Part
    <3>4. Asked(range, size) = range.first .. end
      BY <1>1, <1>5, <2>3, <3>2 DEF Asked, Offsets
    <3> QED BY <3>1, <3>3, <3>4 DEF selected
  <2> QED BY <2>2, <2>3
<1> QED BY <1>1, <1>2, <1>3, <1>4, <1>5

\* Every answer about an object of any size is exact, for every range and every validator.
THEOREM AnswersAreExact ==
    ASSUME NEW size \in Nat
    PROVE  AnswersExactly(size)
<1> SUFFICES ASSUME NEW range \in Range, NEW modifiedAt \in Time, NEW ifRange \in Validator,
                    NEW ifNoneMatch \in Validator, NEW ifModifiedSince \in Validator
             PROVE  LET answer == ServeBlob(size, modifiedAt, range, ifRange, ifNoneMatch, ifModifiedSince) IN
                    /\ answer.status = 206 =>
                          /\ answer.bytes = Asked(range, size)
                          /\ \E first \in Offsets(size) : answer.bytes = first .. first + answer.length - 1
                          /\ answer.length > 0
                    /\ answer.status = 416 => Asked(range, size) = {}
                    /\ answer.status = 206 => ifRange.is # "other"
                    /\ answer.status = 304 => ifNoneMatch.is # "other"
                    /\ answer.status = 200 => answer.bytes = Offsets(size)
  BY DEF AnswersExactly
<1> DEFINE answer == ServeBlob(size, modifiedAt, range, ifRange, ifNoneMatch, ifModifiedSince)
<1>1. CASE blobNotModified(ifNoneMatch, ifModifiedSince, modifiedAt)
  BY <1>1 DEF ServeBlob, blobNotModified
<1>2. CASE /\ ~blobNotModified(ifNoneMatch, ifModifiedSince, modifiedAt)
           /\ range.form = "none" \/ ~ifRangeAllows(ifRange, modifiedAt)
  BY <1>2 DEF ServeBlob, Whole
<1>3. CASE /\ ~blobNotModified(ifNoneMatch, ifModifiedSince, modifiedAt)
           /\ range.form # "none" /\ ifRangeAllows(ifRange, modifiedAt)
  <2> DEFINE selected == parseBlobRange(range, size)
  <2>1. answer = Partial(range, size) /\ ifRange.is # "other"
    BY <1>3 DEF ServeBlob, ifRangeAllows
  <2>2. CASE selected = Unsatisfiable
    <3>1. answer = [status |-> 416, length |-> 0, bytes |-> {}]
      BY <2>1, <2>2 DEF Partial
    <3>2. Asked(range, size) = {}
      BY <1>3, <2>2, SelectedExactly DEF Part, Unsatisfiable
    <3> QED BY <3>1, <3>2
  <2>3. CASE selected # Unsatisfiable
    <3>1. Part(selected, size) /\ Asked(range, size) = selected.start .. selected.end
      BY <1>3, <2>3, SelectedExactly
    <3>2. answer = [status |-> 206, length |-> selected.length, bytes |-> selected.start .. selected.end]
      BY <2>1, <2>3, <3>1, OpenedExactly DEF Partial
    <3> HIDE DEF answer, selected
    <3>3. /\ selected.start \in Offsets(size) /\ selected.length > 0
          /\ selected.end = selected.start + selected.length - 1
      BY <3>1 DEF Part, Offsets
    <3> QED BY <2>1, <3>1, <3>2, <3>3 DEF answer
  <2> QED BY <2>2, <2>3
<1> QED BY <1>1, <1>2, <1>3
=============================================================================
