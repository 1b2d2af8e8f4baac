-------------------------- MODULE UploadPartsProofs --------------------------
(***************************************************************************)
(* Proofs about objects of several parts, for every limit of the object    *)
(* store: the ranges in which an object of any size is copied, and the     *)
(* object that any list of parts is assembled to.                          *)
(***************************************************************************)
EXTENDS UploadParts, FiniteSetTheorems, SequenceTheorems, WellFoundedInduction, TLAPS

\* The range of the part with a number.
PartRange(number, size) == PartStart(number) .. PartStart(number) + PartSize(number, size) - 1

\* A product of a larger factor is no smaller.
LEMMA ProductsGrow ==
    ASSUME NEW m \in Nat, NEW a \in Int, NEW b \in Int, a <= b
    PROVE  a * m <= b * m
<1>1. (b - a) * m >= 0
  OBVIOUS
<1>2. (b - a) * m = b * m - a * m
  OBVIOUS
<1>3. a * m \in Int /\ b * m \in Int
  OBVIOUS
<1> DEFINE x == a * m
           y == b * m
<1>4. x \in Int /\ y \in Int /\ y - x >= 0
  BY <1>1, <1>2, <1>3
<1> HIDE DEF x, y
<1>5. x <= y
  BY <1>4
<1> QED BY <1>5 DEF x, y

\* A part starts where the one before it would end, and ends with it or with the object.
LEMMA PartsFit ==
    ASSUME NEW size \in Nat, NEW k \in PartNumbers(size)
    PROVE  /\ k \in 1 .. size /\ PartStart(k) \in Nat /\ PartStart(k) < size
           /\ PartStart(k + 1) = PartStart(k) + maxCopyPartSize
           /\ PartSize(k, size) \in 1 .. maxCopyPartSize
           /\ PartStart(k) + PartSize(k, size) <= size
           /\ PartStart(k) + PartSize(k, size) = size \/ PartSize(k, size) = maxCopyPartSize
<1>1. k \in 1 .. size /\ PartStart(k) < size /\ maxCopyPartSize \in Nat /\ maxCopyPartSize > 0
  BY PartsAssumption DEF PartNumbers
<1>2. PartStart(k) \in Nat
  <2>1. 0 * maxCopyPartSize <= (k - 1) * maxCopyPartSize
    BY <1>1, ProductsGrow
  <2>2. (k - 1) * maxCopyPartSize \in Int /\ 0 * maxCopyPartSize = 0
    BY <1>1
  <2> QED BY <2>1, <2>2 DEF PartStart
<1>3. PartStart(k + 1) = PartStart(k) + maxCopyPartSize
  <2>1. ((k + 1) - 1) * maxCopyPartSize = (k - 1) * maxCopyPartSize + maxCopyPartSize
    BY <1>1
  <2> QED BY <2>1 DEF PartStart
<1>4. /\ PartSize(k, size) = IF maxCopyPartSize <= size - PartStart(k) THEN maxCopyPartSize
                             ELSE size - PartStart(k)
  BY DEF PartSize
<1> HIDE DEF PartStart, PartSize, PartNumbers
<1> QED BY <1>1, <1>2, <1>3, <1>4

\* No part reaches into a later one.
LEMMA PartsAreApart ==
    ASSUME NEW size \in Nat, NEW k \in PartNumbers(size), NEW m \in PartNumbers(size), k < m
    PROVE  PartRange(k, size) \cap PartRange(m, size) = {}
<1>1. PartStart(k + 1) <= PartStart(m)
  <2>1. (k + 1) - 1 <= m - 1 /\ (k + 1) - 1 \in Int /\ m - 1 \in Int /\ maxCopyPartSize \in Nat
    BY PartsFit, PartsAssumption
  <2>2. ((k + 1) - 1) * maxCopyPartSize <= (m - 1) * maxCopyPartSize
    BY <2>1, ProductsGrow
  <2> QED BY <2>2 DEF PartStart
<1>2. PartStart(k) + PartSize(k, size) <= PartStart(m)
  BY <1>1, PartsFit, PartsAssumption
<1> QED BY <1>2, PartsFit, PartsAssumption DEF PartRange

\* Every byte is in a part.
LEMMA PartsReachAll ==
    ASSUME NEW size \in Nat, NEW b \in 0 .. size - 1
    PROVE  \E k \in PartNumbers(size) : b \in PartRange(k, size)
<1> DEFINE M == maxCopyPartSize
           k == (b \div M) + 1
<1>1. M \in Nat /\ M > 0 /\ b \in Nat /\ b < size
  BY PartsAssumption
<1>2. /\ b \div M \in Nat /\ b % M \in 0 .. M - 1
      /\ b = M * (b \div M) + (b % M)
  BY <1>1
<1>3. PartStart(k) = M * (b \div M)
  <2>1. k - 1 = b \div M
    BY <1>2
  <2>2. (b \div M) * M = M * (b \div M)
    BY <1>1, <1>2
  <2> QED BY <2>1, <2>2 DEF PartStart
<1>4. M * (b \div M) >= b \div M
  <2> DEFINE d == b \div M
  <2>1. d \in Nat
    BY <1>2
  <2> HIDE DEF d, M
  <2>2. 1 * d <= M * d
    BY <1>1, <2>1, ProductsGrow
  <2> QED BY <2>1, <2>2, <1>1
<1>5. /\ M * (b \div M) \in Int /\ b \div M \in Nat /\ b % M \in Int
      /\ 0 <= b % M /\ b % M < M
  BY <1>1, <1>2
<1> HIDE DEF M
<1>6. k \in 1 .. size /\ PartStart(k) < size /\ PartStart(k) <= b /\ b < PartStart(k) + M
  BY <1>1, <1>2, <1>3, <1>4, <1>5
<1>7. k \in PartNumbers(size)
  BY <1>6 DEF PartNumbers
<1>8. b < PartStart(k) + PartSize(k, size)
  BY <1>1, <1>6, <1>7, PartsFit DEF M
<1> HIDE DEF k
<1>9. b \in PartRange(k, size)
  BY <1>1, <1>6, <1>7, <1>8, PartsFit DEF PartRange
<1> QED BY <1>7, <1>9

\* There are no more parts than the object store takes, unless the object is too large.
LEMMA PartsAreFew ==
    ASSUME NEW size \in Nat, size <= maxCopyPartSize * maxCopyPartCount
    PROVE  PartNumbers(size) \subseteq 1 .. maxCopyPartCount
<1> SUFFICES ASSUME NEW k \in PartNumbers(size), k > maxCopyPartCount PROVE FALSE
  BY PartsFit, PartsAssumption
<1>1. /\ k \in Nat /\ PartStart(k) < size /\ PartStart(k) \in Nat
      /\ maxCopyPartCount \in Nat /\ maxCopyPartSize \in Nat
  BY PartsFit, PartsAssumption
<1>2. maxCopyPartCount * maxCopyPartSize <= (k - 1) * maxCopyPartSize
  BY <1>1, ProductsGrow
<1>3. maxCopyPartCount * maxCopyPartSize = maxCopyPartSize * maxCopyPartCount
  BY <1>1
<1>4. maxCopyPartSize * maxCopyPartCount <= PartStart(k) /\ maxCopyPartSize * maxCopyPartCount \in Nat
  BY <1>1, <1>2, <1>3 DEF PartStart
<1> HIDE DEF PartStart
<1> QED BY <1>1, <1>4

\* Parts are counted by their numbers.
LEMMA RangesAreCounted ==
    ASSUME NEW size \in Nat, size <= maxCopyPartSize * maxCopyPartCount
    PROVE  Cardinality({PartRange(k, size) : k \in PartNumbers(size)}) <= maxCopyPartCount
<1> DEFINE P == PartNumbers(size)
           R == {PartRange(k, size) : k \in P}
           f == [k \in P |-> PartRange(k, size)]
<1>1. f \in Surjection(P, R)
  <2>1. f \in [P -> R] /\ \A x \in R : \E k \in P : f[k] = x
    OBVIOUS
  <2> HIDE DEF P, R, f
  <2> QED BY <2>1 DEF Surjection
<1>2. /\ IsFiniteSet(1 .. maxCopyPartCount) /\ Cardinality(1 .. maxCopyPartCount) = maxCopyPartCount
      /\ maxCopyPartCount \in Nat
  <2>1. 1 \in Int /\ maxCopyPartCount \in Nat /\ maxCopyPartCount > 0
    BY PartsAssumption
  <2>2. /\ IsFiniteSet(1 .. maxCopyPartCount)
        /\ Cardinality(1 .. maxCopyPartCount)
             = IF 1 > maxCopyPartCount THEN 0 ELSE maxCopyPartCount - 1 + 1
    BY <2>1, FS_Interval
  <2> QED BY <2>1, <2>2
<1>3. P \in SUBSET (1 .. maxCopyPartCount)
  BY PartsAreFew
<1> HIDE DEF P, R, f
<1>4. IsFiniteSet(P) /\ Cardinality(P) <= maxCopyPartCount
  BY <1>2, <1>3, FS_Subset
<1>5. IsFiniteSet(R) /\ Cardinality(R) <= Cardinality(P)
  BY <1>1, <1>4, FS_Surjection
<1>6. Cardinality(P) \in Nat /\ Cardinality(R) \in Nat
  BY <1>4, <1>5, FS_CardinalityType
<1>7. Cardinality(R) <= maxCopyPartCount
  BY <1>2, <1>4, <1>5, <1>6
<1> QED BY <1>7 DEF P, R

\* An object of any size is copied byte for byte, whatever the limits of the store.
THEOREM CopiesAreExact == ASSUME NEW size \in Nat PROVE CoversExactly(size)
<1> DEFINE limit == maxCopyPartSize * maxCopyPartCount
           parts == {PartRange(k, size) : k \in PartNumbers(size)}
           ranges == CopiedRanges(size)
<1>1. limit \in Nat /\ maxSingleCopySize \in Nat /\ maxSingleCopySize > 0 /\ maxSingleCopySize <= limit
  BY PartsAssumption, CopyAssumption
<1> HIDE DEF limit
<1>2. CASE size <= maxSingleCopySize
  <2>1. ranges = {0 .. size - 1}
    BY <1>1, <1>2 DEF CopiedRanges, requiresMultipartCopy
  <2>2. ~requiresMultipartCopy(size) /\ ~(size > limit)
    BY <1>1, <1>2 DEF requiresMultipartCopy
  <2>3. ranges # {} /\ UNION ranges = 0 .. size - 1 /\ \A x, y \in ranges : x = y
    BY <2>1
  <2> QED BY <2>2, <2>3 DEF CoversExactly, limit
<1>3. CASE size > maxSingleCopySize /\ size > limit
  <2>1. ranges = {}
    BY <1>1, <1>3 DEF CopiedRanges, requiresMultipartCopy, multipartCopyParts, limit
  <2>2. Cardinality(ranges) = 0
    BY <2>1, FS_EmptySet
  <2> QED BY <1>3, <2>1, <2>2, PartsAssumption DEF CoversExactly, limit
<1>4. CASE size > maxSingleCopySize /\ size <= limit
  <2>1. ranges = parts
    BY <1>1, <1>4 DEF CopiedRanges, requiresMultipartCopy, multipartCopyParts, limit, PartRange
  <2>2. \A b \in 0 .. size - 1 : \E x \in ranges : b \in x
    BY <2>1, PartsReachAll
  <2>3. ASSUME NEW x \in ranges
        PROVE  x \subseteq 0 .. size - 1 /\ x # {} /\ Cardinality(x) <= maxCopyPartSize
    <3>1. PICK k \in PartNumbers(size) : x = PartRange(k, size)
      BY <2>1
    <3> DEFINE a == PartStart(k)
               z == PartSize(k, size)
    <3>2. /\ a \in Nat /\ z \in 1 .. maxCopyPartSize /\ a + z <= size /\ maxCopyPartSize \in Nat
          /\ x = a .. a + z - 1
      BY <3>1, PartsFit, PartsAssumption DEF PartRange
    <3> HIDE DEF a, z
    <3>3. Cardinality(a .. a + z - 1) = IF a > a + z - 1 THEN 0 ELSE (a + z - 1) - a + 1
      BY <3>2, FS_Interval
    <3>4. Cardinality(x) = z
      BY <3>2, <3>3
    <3>5. a \in x
      BY <3>2
    <3> QED BY <3>2, <3>4, <3>5
  <2>4. ASSUME NEW x \in ranges, NEW y \in ranges, x # y PROVE x \cap y = {}
    <3>1. PICK k \in PartNumbers(size), m \in PartNumbers(size) :
              x = PartRange(k, size) /\ y = PartRange(m, size)
      BY <2>1, <2>4
    <3>2. k \in Nat /\ m \in Nat /\ k # m
      BY <2>4, <3>1, PartsFit
    <3>3. k < m \/ m < k
      BY <3>2
    <3> QED BY <3>1, <3>3, PartsAreApart
  <2>5. ranges # {}
    BY <1>1, <1>4, <2>2
  <2>6. Cardinality(ranges) <= maxCopyPartCount
    BY <1>4, <2>1, RangesAreCounted DEF limit
  <2>7. UNION ranges = 0 .. size - 1
    BY <2>2, <2>3
  <2> HIDE DEF ranges, parts
  <2>8. ~(size > limit)
    BY <1>1, <1>4
  <2>9. {} \notin ranges
    BY <2>3
  <2> QED BY <2>3, <2>4, <2>5, <2>6, <2>7, <2>8, <2>9 DEF CoversExactly, ranges, limit
<1> QED BY <1>1, <1>2, <1>3, <1>4

\* A worker that copies a staged object copies every byte of it once.
THEOREM CopiesDoCoverObjects == Spec => []CopiesCoverObjects
<1>1. CoveredSizes = CopiedSize
  BY CopiesAreExact, PartsAssumption DEF CoveredSizes
<1>2. CopiesCoverObjects
  BY <1>1 DEF CopiesCoverObjects
<1> QED BY <1>2, PTL

-----------------------------------------------------------------------------
(* Part lists: what sorting and adding up make of a list, and then the     *)
(* object that is assembled.                                               *)

\* A nonempty set of numbers has a least one.
LEMMA LeastNumber ==
    ASSUME NEW S, S \subseteq Nat, S # {}
    PROVE  \E x \in S : \A y \in S : x <= y
<1>1. PICK x \in S : \A y \in S : ~ (<<y, x>> \in OpToRel(<, Nat))
  BY NatLessThanWellFounded, WFMin
<1>2. ASSUME NEW y \in S, y < x PROVE FALSE
  <2>1. <<y, x>> \in {ss \in Nat \X Nat : ss[1] < ss[2]}
    BY <1>2
  <2>2. <<y, x>> \in OpToRel(<, Nat)
    BY <2>1 DEF OpToRel
  <2> QED BY <1>1, <2>2
<1>3. \A y \in S : x <= y
  BY <1>2
<1> QED BY <1>3

\* A list is a sequence of entries.
LEMMA ListsAreSequences ==
    ASSUME NEW parts \in PartList
    PROVE  /\ parts \in Seq(Listed) /\ Len(parts) \in Nat
           /\ DOMAIN parts = 1 .. Len(parts)
           /\ \A k \in 1 .. Len(parts) : parts[k] \in Listed
<1>1. PICK n \in 0 .. MaxListed : parts \in [1 .. n -> Listed]
  BY DEF PartList, SeqOf
<1>2. n \in Nat
  BY <1>1, PartsAssumption
<1>3. parts \in Seq(Listed)
  BY <1>1, <1>2, SeqDef
<1> QED BY <1>3, LenProperties

\* An entry has an integer as its number and one as its size.
LEMMA EntriesHaveNumbers ==
    ASSUME NEW entry \in Listed
    PROVE  entry.number \in Int /\ entry.size \in Int /\ entry.held \in BOOLEAN
BY PartsAssumption DEF Listed

\* The list with its entries in another order.
Reordered(parts, order) == [k \in 1 .. Len(parts) |-> parts[order[k]]]

\* An order of a list's entries with which their numbers do not descend.
SortsByNumber(parts, order) ==
    /\ order \in Bijection(1 .. Len(parts), 1 .. Len(parts))
    /\ \A k, m \in 1 .. Len(parts) : k < m => parts[order[k]].number <= parts[order[m]].number

\* What sorting gives are these lists.
LEMMA SortedLists ==
    ASSUME NEW parts \in PartList
    PROVE  \A normalized : normalized \in ByNumber(parts) <=>
             \E order : SortsByNumber(parts, order) /\ normalized = Reordered(parts, order)
<1>1. DOMAIN parts = 1 .. Len(parts)
  BY ListsAreSequences
<1> QED BY <1>1 DEF ByNumber, SortsByNumber, Reordered

\* A reordered list is a list of the same entries.
LEMMA ReorderedLists ==
    ASSUME NEW parts \in PartList, NEW order,
           order \in Bijection(1 .. Len(parts), 1 .. Len(parts))
    PROVE  /\ Reordered(parts, order) \in Seq(Listed)
           /\ Len(Reordered(parts, order)) = Len(parts)
           /\ DOMAIN Reordered(parts, order) = 1 .. Len(parts)
           /\ \A k \in 1 .. Len(parts) :
                 /\ order[k] \in 1 .. Len(parts)
                 /\ Reordered(parts, order)[k] = parts[order[k]]
           /\ \A m \in 1 .. Len(parts) : \E k \in 1 .. Len(parts) : order[k] = m
           /\ \A k, m \in 1 .. Len(parts) : order[k] = order[m] => k = m
<1> DEFINE n == Len(parts)
           D == 1 .. n
           list == Reordered(parts, order)
<1>1. n \in Nat /\ \A k \in D : parts[k] \in Listed
  BY ListsAreSequences
<1>2. /\ order \in [D -> D] /\ \A m \in D : \E k \in D : order[k] = m
      /\ \A k, m \in D : order[k] = order[m] => k = m
  BY DEF Bijection, Injection, Surjection, IsInjective
<1>3. list = [k \in D |-> parts[order[k]]]
  BY DEF Reordered
<1>4. list \in [D -> Listed]
  BY <1>1, <1>2, <1>3
<1>5. list \in Seq(Listed)
  BY <1>1, <1>4, SeqDef
<1>6. Len(list) \in Nat /\ DOMAIN list = 1 .. Len(list) /\ DOMAIN list = D
  BY <1>3, <1>5, LenProperties
<1>7. Len(list) = n
  BY <1>1, <1>6
<1> HIDE DEF n, list
<1> QED BY <1>2, <1>3, <1>5, <1>6, <1>7 DEF n, list

\* Every list can be sorted: each entry goes to the place that is the number of entries
\* that do not come after it.
LEMMA ListsCanBeSorted ==
    ASSUME NEW parts \in PartList
    PROVE  \E order : SortsByNumber(parts, order)
<1> DEFINE n == Len(parts)
           D == 1 .. n
           key(k) == parts[k].number
           upTo(k) == {m \in D : key(m) < key(k) \/ (key(m) = key(k) /\ m <= k)}
           rank == [k \in D |-> Cardinality(upTo(k))]
<1>1. n \in Nat /\ \A k \in D : key(k) \in Int
  BY ListsAreSequences, EntriesHaveNumbers
<1>2. IsFiniteSet(D) /\ Cardinality(D) = n
  BY <1>1, FS_Interval
<1>3. ASSUME NEW k \in D
      PROVE  /\ IsFiniteSet(upTo(k)) /\ Cardinality(upTo(k)) \in D /\ k \in upTo(k)
             /\ Cardinality(upTo(k)) \in Nat
  <2>1. upTo(k) \in SUBSET D /\ k \in upTo(k)
    BY <1>1
  <2> HIDE DEF upTo, D
  <2>2. IsFiniteSet(upTo(k)) /\ Cardinality(upTo(k)) <= Cardinality(D)
    BY <1>2, <2>1, FS_Subset
  <2>3. Cardinality(upTo(k)) \in Nat /\ Cardinality(upTo(k)) # 0
    BY <2>1, <2>2, FS_CardinalityType, FS_EmptySet
  <2> QED BY <1>1, <1>2, <2>1, <2>2, <2>3 DEF D
<1>4. ASSUME NEW k \in D, NEW m \in D, key(k) < key(m) \/ (key(k) = key(m) /\ k < m)
      PROVE  rank[k] < rank[m]
  <2>1. upTo(k) \in SUBSET upTo(m)
    BY <1>1, <1>4
  <2>2. m \in upTo(m) /\ m \notin upTo(k)
    BY <1>1, <1>4
  <2>3. /\ IsFiniteSet(upTo(m)) /\ Cardinality(upTo(k)) \in Nat /\ Cardinality(upTo(m)) \in Nat
    BY <1>3
  <2>4. rank[k] = Cardinality(upTo(k)) /\ rank[m] = Cardinality(upTo(m))
    OBVIOUS
  <2> HIDE DEF upTo, rank
  <2>5. Cardinality(upTo(k)) <= Cardinality(upTo(m)) /\ Cardinality(upTo(k)) # Cardinality(upTo(m))
    BY <2>1, <2>2, <2>3, FS_Subset
  <2> QED BY <2>3, <2>4, <2>5
<1>5. rank \in [D -> D]
  BY <1>3
<1> HIDE DEF rank, upTo
<1>6. \A k, m \in D : rank[k] = rank[m] => k = m
  <2> SUFFICES ASSUME NEW k \in D, NEW m \in D, k # m PROVE rank[k] # rank[m]
    OBVIOUS
  <2>1. \/ key(k) < key(m) \/ (key(k) = key(m) /\ k < m)
        \/ key(m) < key(k) \/ (key(m) = key(k) /\ m < k)
    BY <1>1
  <2>2. rank[k] < rank[m] \/ rank[m] < rank[k]
    BY <2>1, <1>4
  <2>3. rank[k] \in Int /\ rank[m] \in Int
    BY <1>1, <1>5
  <2> QED BY <2>2, <2>3
<1>7. rank \in Injection(D, D)
  BY <1>5, <1>6 DEF Injection, IsInjective
<1>8. \A i \in D : \E k \in D : rank[k] = i
  <2> HIDE DEF D
  <2>1. rank \in Surjection(D, D)
    BY <1>2, <1>7, FS_Injection
  <2> QED BY <2>1 DEF Surjection
<1> DEFINE order == [i \in D |-> CHOOSE k \in D : rank[k] = i]
<1>9. \A i \in D : order[i] \in D /\ rank[order[i]] = i
  BY <1>8
<1>10. \A k \in D : order[rank[k]] = k
  BY <1>5, <1>6, <1>9
<1>11. order \in [D -> D]
  BY <1>9
<1> HIDE DEF order
<1>12. order \in Bijection(D, D)
  BY <1>5, <1>9, <1>10, <1>11, ZenonT(60) DEF Bijection, Injection, Surjection, IsInjective
<1>13. ASSUME NEW i \in D, NEW j \in D, i < j PROVE key(order[i]) <= key(order[j])
  <2>1. CASE key(order[j]) < key(order[i])
    <3>1. rank[order[j]] < rank[order[i]]
      BY <1>4, <1>9, <2>1
    <3> QED BY <1>9, <1>13, <3>1
  <2>2. key(order[i]) \in Int /\ key(order[j]) \in Int
    BY <1>1, <1>9
  <2> QED BY <2>1, <2>2
<1> QED BY <1>12, <1>13 DEF SortsByNumber

\* The bytes of the first parts of a list.
FirstBytes(parts, k) == UNION {{j} \X (1 .. parts[j].size) : j \in 1 .. k}

\* They are as many as the sizes add up to, part by part.
LEMMA BytesAddUp ==
    ASSUME NEW parts \in Seq(Listed), \A k \in 1 .. Len(parts) : parts[k].size \in Nat
    PROVE  /\ Cardinality(FirstBytes(parts, 0)) = 0
           /\ \A k \in 0 .. Len(parts) :
                 /\ IsFiniteSet(FirstBytes(parts, k)) /\ Cardinality(FirstBytes(parts, k)) \in Nat
                 /\ k > 0 => Cardinality(FirstBytes(parts, k))
                               = Cardinality(FirstBytes(parts, k - 1)) + parts[k].size
<1> DEFINE n == Len(parts)
           part(k) == {k} \X (1 .. parts[k].size)
           first(k) == FirstBytes(parts, k)
<1>1. n \in Nat
  BY LenProperties
<1>2. ASSUME NEW k \in 1 .. n
      PROVE  IsFiniteSet(part(k)) /\ Cardinality(part(k)) = parts[k].size
  <2> DEFINE z == parts[k].size
  <2>1. z \in Nat
    OBVIOUS
  <2> HIDE DEF z
  <2>2. IsFiniteSet(1 .. z) /\ Cardinality(1 .. z) = z
    BY <2>1, FS_Interval
  <2>3. IsFiniteSet({k}) /\ Cardinality({k}) = 1
    BY FS_Singleton
  <2>4. IsFiniteSet({k} \X (1 .. z)) /\ Cardinality({k} \X (1 .. z)) = 1 * z
    BY <2>2, <2>3, FS_Product, ZenonT(60)
  <2> QED BY <2>1, <2>4 DEF z
<1>3. ASSUME NEW k \in 0 .. n PROVE IsFiniteSet(first(k))
  <2> DEFINE N == 1 .. k
             P == {part(j) : j \in N}
             f == [j \in N |-> part(j)]
  <2>1. f \in Surjection(N, P)
    <3>1. f \in [N -> P] /\ \A x \in P : \E j \in N : f[j] = x
      BY DEF f, P
    <3> HIDE DEF N, P, f
    <3> QED BY <3>1 DEF Surjection
  <2>2. IsFiniteSet(N)
    BY <1>1, FS_Interval
  <2>3. \A x \in P : IsFiniteSet(x)
    BY <1>1, <1>2
  <2>4. first(k) = UNION P
    BY DEF FirstBytes
  <2> HIDE DEF N, P, f
  <2>5. IsFiniteSet(P)
    BY <2>1, <2>2, FS_Surjection
  <2>6. IsFiniteSet(UNION P)
    BY <2>3, <2>5, FS_UNION
  <2> HIDE DEF first
  <2> QED BY <2>4, <2>6
<1>4. first(0) = {}
  BY DEF FirstBytes
<1>5. ASSUME NEW k \in 1 .. n
      PROVE  Cardinality(first(k)) = Cardinality(first(k - 1)) + parts[k].size
  <2>1. k - 1 \in 0 .. n /\ k \in 0 .. n
    BY <1>1
  <2>2. first(k) = first(k - 1) \cup part(k)
    <3>1. 1 .. k = (1 .. k - 1) \cup {k}
      BY <1>1
    <3> QED BY <3>1 DEF FirstBytes
  <2>3. first(k - 1) \cap part(k) = {}
    <3>1. k \notin 1 .. k - 1
      BY <1>1
    <3> QED BY <3>1 DEF FirstBytes
  <2>4. IsFiniteSet(first(k - 1)) /\ IsFiniteSet(part(k)) /\ Cardinality(part(k)) = parts[k].size
    BY <1>2, <1>3, <2>1
  <2>5. Cardinality(first(k - 1)) \in Nat /\ Cardinality(part(k)) \in Nat
    BY <2>4, FS_CardinalityType
  <2> HIDE DEF first, part
  <2>6. Cardinality(first(k - 1) \cup part(k))
          = Cardinality(first(k - 1)) + Cardinality(part(k)) - Cardinality(first(k - 1) \cap part(k))
    BY <2>4, FS_Union
  <2>7. Cardinality(first(k - 1) \cap part(k)) = 0
    BY <2>3, FS_EmptySet
  <2> QED BY <2>2, <2>4, <2>5, <2>6, <2>7
<1>6. Cardinality(first(0)) = 0
  BY <1>4, FS_EmptySet
<1>7. \A k \in 0 .. n : Cardinality(first(k)) \in Nat
  BY <1>3, FS_CardinalityType
<1>8. \A k \in 0 .. n : k > 0 => k \in 1 .. n
  BY <1>1
<1> HIDE DEF n
<1> QED BY <1>3, <1>5, <1>6, <1>7, <1>8 DEF n

\* The total of a list is the number of its bytes.
LEMMA TotalsCountBytes ==
    ASSUME NEW parts \in Seq(Listed), \A k \in 1 .. Len(parts) : parts[k].size \in Nat
    PROVE  completePartsSize(parts) = Cardinality(Bytes(parts))
<1> DEFINE n == Len(parts)
           adds(t) == t = [k \in 0 .. n |-> IF k = 0 THEN 0 ELSE t[k - 1] + parts[k].size]
           total == CHOOSE t : adds(t)
           count == [k \in 0 .. n |-> Cardinality(FirstBytes(parts, k))]
<1>1. n \in Nat /\ DOMAIN parts = 1 .. n
  BY LenProperties
<1>2. completePartsSize(parts) = total[n]
  BY DEF completePartsSize
<1>3. adds(count)
  <2>1. \A k \in 0 .. n : k # 0 => k > 0 /\ k - 1 \in 0 .. n
    BY <1>1
  <2>2. \A k \in 0 .. n : count[k] = IF k = 0 THEN 0 ELSE count[k - 1] + parts[k].size
    BY <2>1, BytesAddUp
  <2> QED BY <2>2
<1>4. adds(total)
  BY <1>3
<1> HIDE DEF total
<1>5. ASSUME NEW k \in 0 .. n, total[k] # count[k] PROVE FALSE
  <2> DEFINE S == {i \in 0 .. n : total[i] # count[i]}
  <2>1. S # {} /\ S \subseteq Nat
    BY <1>1, <1>5, SMTT(30)
  <2> HIDE DEF S
  <2>2. PICK i \in S : \A j \in S : i <= j
    BY <2>1, LeastNumber
  <2>3. i \in 0 .. n /\ total[i] # count[i]
    BY <2>2 DEF S
  <2> HIDE DEF count
  <2>4. /\ total[i] = IF i = 0 THEN 0 ELSE total[i - 1] + parts[i].size
        /\ count[i] = IF i = 0 THEN 0 ELSE count[i - 1] + parts[i].size
    BY <1>3, <1>4, <2>3
  <2>5. i # 0 /\ total[i - 1] # count[i - 1]
    BY <2>3, <2>4
  <2>6. i - 1 \in 0 .. n
    BY <1>1, <2>3, <2>5
  <2>7. i - 1 \in S
    BY <2>5, <2>6 DEF S
  <2> QED BY <1>1, <2>2, <2>3, <2>7
<1>6. total[n] = Cardinality(FirstBytes(parts, n))
  BY <1>1, <1>5
<1>7. FirstBytes(parts, n) = Bytes(parts)
  BY <1>1 DEF FirstBytes, Bytes
<1> HIDE DEF n
<1> QED BY <1>2, <1>6, <1>7

\* Another order does not change how many bytes there are.
LEMMA OrdersKeepBytes ==
    ASSUME NEW parts \in PartList, \A k \in 1 .. Len(parts) : parts[k].size \in Nat,
           NEW order, order \in Bijection(1 .. Len(parts), 1 .. Len(parts))
    PROVE  Cardinality(Bytes(Reordered(parts, order))) = Cardinality(Bytes(parts))
<1> DEFINE n == Len(parts)
           list == Reordered(parts, order)
           A == Bytes(list)
           B == Bytes(parts)
           f == [x \in A |-> <<order[x[1]], x[2]>>]
<1>1. n \in Nat /\ DOMAIN parts = 1 .. n /\ parts \in Seq(Listed)
  BY ListsAreSequences
<1>2. /\ DOMAIN list = 1 .. n
      /\ \A k \in 1 .. n : order[k] \in 1 .. n /\ list[k] = parts[order[k]]
      /\ \A m \in 1 .. n : \E k \in 1 .. n : order[k] = m
      /\ \A k, m \in 1 .. n : order[k] = order[m] => k = m
  BY ReorderedLists
<1> HIDE DEF n, list
<1>3. \A x : x \in A <=> \E k \in 1 .. n : \E b \in 1 .. list[k].size : x = <<k, b>>
  BY <1>2 DEF Bytes
<1>4. \A x : x \in B <=> \E k \in 1 .. n : \E b \in 1 .. parts[k].size : x = <<k, b>>
  BY <1>1 DEF Bytes
<1> HIDE DEF A, B
<1>5. ASSUME NEW x \in A PROVE f[x] \in B
  <2>1. PICK k \in 1 .. n, b \in Int : b \in 1 .. list[k].size /\ x = <<k, b>>
    BY <1>3
  <2>2. f[x] = <<order[k], b>>
    BY <2>1
  <2> QED BY <1>2, <1>4, <2>1, <2>2
<1>6. ASSUME NEW x \in A, NEW y \in A, f[x] = f[y] PROVE x = y
  <2>1. PICK k \in 1 .. n, b \in Int : b \in 1 .. list[k].size /\ x = <<k, b>>
    BY <1>3
  <2>2. PICK m \in 1 .. n, c \in Int : c \in 1 .. list[m].size /\ y = <<m, c>>
    BY <1>3
  <2>3. f[x] = <<order[k], b>> /\ f[y] = <<order[m], c>>
    BY <2>1, <2>2
  <2> HIDE DEF f
  <2>4. <<order[k], b>> = <<order[m], c>>
    BY <1>6, <2>3
  <2>5. order[k] = order[m] /\ b = c
    BY <2>4
  <2> QED BY <1>2, <2>1, <2>2, <2>5
<1>7. ASSUME NEW y \in B PROVE \E x \in A : f[x] = y
  <2>1. PICK m \in 1 .. n, b \in Int : b \in 1 .. parts[m].size /\ y = <<m, b>>
    BY <1>4
  <2>2. PICK k \in 1 .. n : order[k] = m
    BY <1>2
  <2>3. <<k, b>> \in A
    BY <1>2, <1>3, <2>1, <2>2
  <2>4. f[<<k, b>>] = y
    BY <2>1, <2>2, <2>3
  <2> QED BY <2>3, <2>4
<1>8. f \in [A -> B]
  BY <1>5
<1> HIDE DEF f
<1>9. f \in Bijection(A, B)
  BY <1>6, <1>7, <1>8 DEF Bijection, Injection, Surjection, IsInjective
<1>10. IsFiniteSet(B)
  <2>1. IsFiniteSet(FirstBytes(parts, n)) 
    BY <1>1, BytesAddUp DEF n
  <2>2. FirstBytes(parts, n) = B
    BY <1>1 DEF FirstBytes, Bytes, B
  <2> QED BY <2>1, <2>2
<1>11. f \in Injection(A, B) /\ f \in Surjection(A, B)
  BY <1>9 DEF Bijection
<1>12. Cardinality(A) = Cardinality(B)
  BY <1>10, <1>11, FS_Injection
<1> QED BY <1>12 DEF A, B, list

\* A sorted list passes exactly if the list describes an object, whatever its order.
LEMMA DescribedListsPass ==
    ASSUME NEW parts \in PartList, NEW order, SortsByNumber(parts, order)
    PROVE  /\ NormalizeCompleteParts(Reordered(parts, order)) /\ Assembles(Reordered(parts, order))
              <=> Describes(parts)
           /\ Reordered(parts, order) # <<>> <=> parts # <<>>
<1> DEFINE n == Len(parts)
           D == 1 .. n
           list == Reordered(parts, order)
           number(k) == parts[order[k]].number
           size(k) == parts[order[k]].size
           held(k) == parts[order[k]].held
           passes == NormalizeCompleteParts(list) /\ Assembles(list)
<1>1. /\ n \in Nat /\ DOMAIN parts = D /\ parts \in Seq(Listed)
      /\ \A k \in D : parts[k].number \in Int /\ parts[k].size \in Int
  BY ListsAreSequences, EntriesHaveNumbers
<1>2. order \in Bijection(D, D) /\ \A k, m \in D : k < m => number(k) <= number(m)
  BY DEF SortsByNumber
<1>3. /\ \A k \in D : order[k] \in D
      /\ \A m \in D : \E k \in D : order[k] = m
      /\ \A k, m \in D : order[k] = order[m] => k = m
  BY <1>2, ReorderedLists
<1>4. /\ list \in Seq(Listed) /\ Len(list) = n /\ DOMAIN list = D
      /\ \A k \in D : list[k].number = number(k) /\ list[k].size = size(k) /\ list[k].held = held(k)
  <2>1. /\ list \in Seq(Listed) /\ Len(list) = n /\ DOMAIN list = D
        /\ \A k \in D : list[k] = parts[order[k]]
    BY <1>2, ReorderedLists
  <2>2. \A k \in D : list[k].number = number(k) /\ list[k].size = size(k) /\ list[k].held = held(k)
    BY <2>1
  <2> HIDE DEF list, n, number, size, held
  <2> QED BY <2>1, <2>2
<1>5. /\ parts # <<>> <=> n # 0
      /\ list # <<>> <=> n # 0
  BY <1>1, <1>4, EmptySeq
<1>6. {MaxPartNumber, MinPartSize, MaxPartSize} \subseteq Nat
  BY PartsAssumption
<1>7. \A k \in D : number(k) \in Int /\ size(k) \in Int
  BY <1>1, <1>3
<1>8. \A k \in D : k > 1 => k - 1 \in D /\ k - 1 < k
  BY <1>1
<1>9. Describes(parts) <=>
        /\ n # 0
        /\ \A k \in D :
              /\ held(k) /\ number(k) \in 1 .. MaxPartNumber /\ size(k) \in 0 .. MaxPartSize
              /\ \A m \in D : m # k => /\ number(m) # number(k)
                                       /\ number(k) < number(m) => size(k) >= MinPartSize
  <2> DEFINE fits(k) == /\ parts[k].held
                        /\ parts[k].number \in 1 .. MaxPartNumber /\ parts[k].size \in 0 .. MaxPartSize
             apart(k, m) == m # k => /\ parts[m].number # parts[k].number
                                     /\ parts[k].number < parts[m].number => parts[k].size >= MinPartSize
  <2>1. Describes(parts) <=> n # 0 /\ \A k \in D : fits(k) /\ \A m \in D : apart(k, m)
    BY <1>1, <1>5 DEF Describes
  <2> DEFINE fitsAt(k) == held(k) /\ number(k) \in 1 .. MaxPartNumber /\ size(k) \in 0 .. MaxPartSize
             apartAt(k, m) == m # k => /\ number(m) # number(k)
                                       /\ number(k) < number(m) => size(k) >= MinPartSize
  <2>2. ASSUME NEW k \in D, NEW m \in D
        PROVE  /\ fitsAt(k) <=> fits(order[k])
               /\ apartAt(k, m) <=> apart(order[k], order[m])
    <3>1. m # k <=> order[m] # order[k]
      BY <1>3
    <3> QED BY <3>1
  <2> HIDE DEF fits, apart, fitsAt, apartAt, n
  <2>3. (\A k \in D : fits(k) /\ \A m \in D : apart(k, m))
          <=> (\A k \in D : fitsAt(k) /\ \A m \in D : apartAt(k, m))
    <3>1. ASSUME \A k \in D : fitsAt(k) /\ \A m \in D : apartAt(k, m), NEW k \in D, NEW m \in D
          PROVE  fits(k) /\ apart(k, m)
      <4>1. PICK i \in D, j \in D : order[i] = k /\ order[j] = m
        BY <1>3
      <4> QED BY <2>2, <3>1, <4>1
    <3>2. ASSUME \A k \in D : fits(k) /\ \A m \in D : apart(k, m), NEW k \in D, NEW m \in D
          PROVE  fitsAt(k) /\ apartAt(k, m)
      BY <1>3, <2>2, <3>2
    <3> QED BY <3>1, <3>2
  <2> QED BY <2>1, <2>3 DEF fitsAt, apartAt
<1> HIDE DEF list, n, number, size, held
<1>10. passes <=>
        /\ n # 0
        /\ \A k \in D :
              /\ held(k) /\ number(k) \in 1 .. MaxPartNumber /\ size(k) \in 0 .. MaxPartSize
              /\ k < n => MinPartSize <= size(k)
              /\ k > 1 => number(k - 1) < number(k)
  <2>1. NormalizeCompleteParts(list) <=>
          /\ n # 0
          /\ \A k \in D :
                /\ number(k) \in 1 .. MaxPartNumber /\ size(k) \in 0 .. MaxPartSize
                /\ k < n => MinPartSize <= size(k)
                /\ k > 1 => number(k - 1) # number(k)
    <3>1. \A k \in D : /\ ValidatePartNumber(list[k].number) <=> number(k) \in 1 .. MaxPartNumber
                       /\ ValidateMultipartPartSize(list[k].size) <=> size(k) \in 0 .. MaxPartSize
      BY <1>4, <1>6, <1>7 DEF ValidatePartNumber, ValidateMultipartPartSize
    <3>2. \A k \in D : k > 1 => list[k - 1].number = number(k - 1)
      BY <1>4, <1>8
    <3>3. NormalizeCompleteParts(list) <=>
            /\ list # <<>>
            /\ \A k \in D :
                  /\ ValidatePartNumber(list[k].number) /\ ValidateMultipartPartSize(list[k].size)
                  /\ k < n => MinPartSize <= list[k].size
                  /\ k > 1 => list[k - 1].number # list[k].number
      BY <1>4 DEF NormalizeCompleteParts
    <3>4. ASSUME NEW k \in D
          PROVE  /\ list[k].number = number(k) /\ list[k].size = size(k)
                 /\ k > 1 => list[k - 1].number = number(k - 1)
      BY <1>4, <3>2
    <3> QED BY <1>5, <3>1, <3>3, <3>4
  <2>2. Assembles(list) <=> \A k \in D : held(k) /\ (k > 1 => number(k - 1) < number(k))
    BY <1>4, <1>8 DEF Assembles
  <2>3. \A k \in D : k > 1 => (number(k - 1) < number(k) => number(k - 1) # number(k))
    BY <1>7, <1>8
  <2> QED BY <2>1, <2>2, <2>3
<1> HIDE DEF passes
<1>11. ASSUME passes PROVE Describes(parts)
  <2>1. ASSUME NEW i \in D, NEW j \in D, i < j PROVE number(i) < number(j)
    <3>1. j > 1 /\ j - 1 \in D /\ (i = j - 1 \/ i < j - 1)
      BY <1>1, <2>1
    <3>2. number(j - 1) < number(j)
      BY <1>10, <1>11, <3>1
    <3>3. number(i) <= number(j - 1)
      BY <1>2, <1>7, <3>1
    <3>4. number(i) \in Int /\ number(j - 1) \in Int /\ number(j) \in Int
      BY <1>7, <3>1
    <3> QED BY <3>2, <3>3, <3>4
  <2>2. ASSUME NEW k \in D, NEW m \in D, m # k
        PROVE  number(m) # number(k) /\ (number(k) < number(m) => size(k) >= MinPartSize)
    <3>1. number(k) \in Int /\ number(m) \in Int /\ size(k) \in Int /\ MinPartSize \in Int
      BY <1>6, <1>7
    <3>2. CASE k < m
      <4>1. k < n
        BY <1>1, <3>2
      <4>2. MinPartSize <= size(k)
        BY <1>10, <1>11, <4>1
      <4> QED BY <2>1, <3>1, <3>2, <4>2
    <3>3. CASE m < k
      BY <2>1, <3>1, <3>3
    <3> QED BY <1>1, <2>2, <3>2, <3>3
  <2> QED BY <1>9, <1>10, <1>11, <2>2
<1>12. ASSUME Describes(parts) PROVE passes
  <2>1. ASSUME NEW i \in D, NEW j \in D, i < j
        PROVE  number(i) < number(j) /\ MinPartSize <= size(i)
    <3>1. /\ number(i) <= number(j) /\ number(i) \in Int /\ number(j) \in Int
          /\ size(i) \in Int /\ MinPartSize \in Int
      BY <1>2, <1>6, <1>7, <2>1
    <3>2. j # i
      BY <1>1, <2>1
    <3>3. number(j) # number(i) /\ (number(i) < number(j) => size(i) >= MinPartSize)
      BY <1>9, <1>12, <3>2
    <3> QED BY <3>1, <3>3
  <2>2. ASSUME NEW k \in D, k < n PROVE MinPartSize <= size(k)
    <3>1. k + 1 \in D /\ k < k + 1
      BY <1>1, <2>2
    <3> QED BY <2>1, <3>1
  <2>3. ASSUME NEW k \in D, k > 1 PROVE number(k - 1) < number(k)
    BY <1>8, <2>1, <2>3
  <2> QED BY <1>9, <1>10, <1>12, <2>2, <2>3
<1> QED BY <1>5, <1>11, <1>12 DEF passes, list, n

\* Any list of parts is assembled to an object of its parts, each once and in the order of
\* their numbers, or refused, whatever the order of the list and the limits of the store.
THEOREM ListsAssembleExactly == ASSUME NEW parts \in PartList PROVE AssemblesExactly(parts)
<1> DEFINE n == Len(parts)
           D == 1 .. n
<1> SUFFICES ASSUME NEW expected \in ListedSize
    PROVE  LET objects == {CompleteParts(normalized, expected) : normalized \in ByNumber(parts)}
           IN  /\ objects # {}
               /\ \A object \in objects :
                     /\ object # <<>> <=> Describes(parts) /\ expected = Cardinality(Bytes(parts))
                     /\ object # <<>> =>
                           /\ ToSet(object) = {parts[k].number : k \in DOMAIN parts}
                           /\ \A k \in 2 .. Len(object) : object[k - 1] < object[k]
  BY DEF AssemblesExactly
<1> DEFINE objects == {CompleteParts(normalized, expected) : normalized \in ByNumber(parts)}
<1>1. objects # {}
  BY ListsCanBeSorted, SortedLists
<1>2. ASSUME NEW object \in objects
      PROVE  /\ object # <<>> <=> Describes(parts) /\ expected = Cardinality(Bytes(parts))
             /\ object # <<>> =>
                   /\ ToSet(object) = {parts[k].number : k \in DOMAIN parts}
                   /\ \A k \in 2 .. Len(object) : object[k - 1] < object[k]
  <2>1. PICK normalized \in ByNumber(parts) : object = CompleteParts(normalized, expected)
    OBVIOUS
  <2>2. PICK order : SortsByNumber(parts, order) /\ normalized = Reordered(parts, order)
    BY SortedLists
  <2> DEFINE passes == NormalizeCompleteParts(normalized) /\ Assembles(normalized)
             numbers == [k \in DOMAIN normalized |-> normalized[k].number]
  <2>3. (passes <=> Describes(parts)) /\ (normalized # <<>> <=> parts # <<>>)
    BY <2>2, DescribedListsPass
  <2>4. order \in Bijection(D, D)
    BY <2>2 DEF SortsByNumber
  <2>5. /\ n \in Nat /\ DOMAIN parts = D /\ parts \in Seq(Listed)
        /\ \A k \in D : parts[k].number \in Int /\ parts[k].size \in Int
    BY ListsAreSequences, EntriesHaveNumbers
  <2>6. /\ normalized \in Seq(Listed) /\ Len(normalized) = n /\ DOMAIN normalized = D
        /\ \A k \in D : order[k] \in D /\ normalized[k] = parts[order[k]]
        /\ \A m \in D : \E k \in D : order[k] = m
    BY <2>2, <2>4, ReorderedLists
  <2>7. ASSUME Describes(parts)
        PROVE  /\ completePartsSize(normalized) = Cardinality(Bytes(parts))
               /\ n # 0
    <3>1. \A k \in D : parts[k].size \in Nat
      BY <2>5, <2>7, PartsAssumption DEF Describes
    <3>2. \A k \in 1 .. Len(normalized) : normalized[k].size \in Nat
      BY <2>6, <3>1
    <3>3. completePartsSize(normalized) = Cardinality(Bytes(normalized))
      BY <2>6, <3>2, TotalsCountBytes
    <3>4. Cardinality(Bytes(normalized)) = Cardinality(Bytes(parts))
      BY <2>2, <2>4, <3>1, OrdersKeepBytes
    <3>5. parts # <<>>
      BY <2>7 DEF Describes
    <3> QED BY <2>5, <3>3, <3>4, <3>5, EmptySeq
  <2>8. numbers \in Seq(Int) /\ Len(numbers) = n /\ DOMAIN numbers = D
    <3>1. \A k \in D : normalized[k].number \in Int
      BY <2>5, <2>6
    <3>2. numbers \in [1 .. n -> Int]
      BY <2>6, <3>1
    <3>3. numbers \in Seq(Int)
      BY <2>5, <3>2, SeqDef
    <3> HIDE DEF numbers
    <3>4. Len(numbers) \in Nat /\ DOMAIN numbers = 1 .. Len(numbers) /\ DOMAIN numbers = 1 .. n
      BY <3>2, <3>3, LenProperties
    <3>5. n \in Nat
      BY <2>5
    <3> HIDE DEF n
    <3>6. Len(numbers) = n
      <4>1. 1 .. Len(numbers) = 1 .. n /\ Len(numbers) \in Nat
        BY <3>4
      <4>2. \A i \in Nat : i \in 1 .. Len(numbers) <=> i \in 1 .. n
        BY <4>1
      <4> QED BY <3>5, <4>1, <4>2
    <3> QED BY <3>3, <3>4, <3>6
  <2>9. CASE passes /\ completePartsSize(normalized) = expected
    <3>1. object = numbers
      BY <2>1, <2>9 DEF CompleteParts
    <3>2. Describes(parts) /\ expected = Cardinality(Bytes(parts)) /\ n # 0
      BY <2>3, <2>7, <2>9
    <3>3. numbers # <<>>
      <4> HIDE DEF numbers
      <4> QED BY <2>8, <3>2, EmptySeq
    <3>4. ToSet(numbers) = {parts[k].number : k \in DOMAIN parts}
      <4>1. ToSet(numbers) = {normalized[k].number : k \in D}
        BY <2>6 DEF ToSet
      <4>2. {normalized[k].number : k \in D} = {parts[k].number : k \in D}
        <5>1. \A k \in D : order[k] \in D /\ normalized[k].number = parts[order[k]].number
          BY <2>6
        <5>2. \A m \in D : \E k \in D : order[k] = m
          BY <2>6
        <5> HIDE DEF D
        <5> QED BY <5>1, <5>2
      <4> HIDE DEF numbers
      <4> QED BY <2>5, <4>1, <4>2
    <3>5. \A k \in 2 .. Len(numbers) : numbers[k - 1] < numbers[k]
      <4>1. \A k \in 2 .. n : k \in D /\ k - 1 \in D /\ k > 1
        BY <2>5
      <4>2. \A k \in D : k > 1 => normalized[k - 1].number < normalized[k].number
        BY <2>6, <2>9 DEF Assembles
      <4>3. \A k \in D : numbers[k] = normalized[k].number
        BY <2>6
      <4> HIDE DEF numbers
      <4> QED BY <2>8, <4>1, <4>2, <4>3
    <3> HIDE DEF numbers
    <3> QED BY <3>1, <3>2, <3>3, <3>4, <3>5
  <2>10. CASE ~ (passes /\ completePartsSize(normalized) = expected)
    <3>1. object = <<>>
      BY <2>1, <2>10 DEF CompleteParts
    <3>2. ~ (Describes(parts) /\ expected = Cardinality(Bytes(parts)))
      BY <2>3, <2>7, <2>10
    <3> QED BY <3>1, <3>2
  <2> QED BY <2>9, <2>10
<1> HIDE DEF objects
<1>3. /\ objects # {}
      /\ \A object \in objects :
            /\ object # <<>> <=> Describes(parts) /\ expected = Cardinality(Bytes(parts))
            /\ object # <<>> =>
                  /\ ToSet(object) = {parts[k].number : k \in DOMAIN parts}
                  /\ \A k \in 2 .. Len(object) : object[k - 1] < object[k]
  BY <1>1, <1>2
<1> QED BY <1>3 DEF objects

\* Whatever parts a call that completes an upload lists, the object is assembled exactly
\* from them, or the list is refused.
THEOREM CompletionsDoAssemble == Spec => []CompletionsAreExact
<1>1. ExactLists = PartList
  BY ListsAssembleExactly DEF ExactLists
<1>2. CompletionsAreExact
  BY <1>1 DEF CompletionsAreExact
<1> QED BY <1>2, PTL
=============================================================================
