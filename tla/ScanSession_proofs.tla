------------------------- MODULE ScanSession_proofs -------------------------
(***************************************************************************)
(* A session of scans, for any types, layouts, bytes and arguments.  The   *)
(* scans stay sorted and apart, whatever the target does to its memory,    *)
(* and results stay inside the buffers.  From these: next_scan loses no    *)
(* candidate but those of a second scan under one region or of a region    *)
(* that cannot be read, and a session implements the candidate set.        *)
(***************************************************************************)
EXTENDS ScanSession, Comparator_proofs, FiniteSetTheorems, SequenceTheorems,
        WellFoundedInduction

-----------------------------------------------------------------------------
(* Natural numbers, and the numbers of a set in ascending order.           *)

(* A set of numbers has a least one.                                       *)
LEMMA LeastNatural ==
  ASSUME NEW T \in SUBSET Nat, T # {}
  PROVE  \E m \in T : \A n \in T : m <= n
<1> DEFINE R == OpToRel(<, Nat)
<1>1. IsWellFoundedOn(R, Nat)
  BY NatLessThanWellFounded, Zenon
<1>2. \A x, y \in Nat : <<y, x>> \notin R => x <= y
  BY SMT DEF OpToRel
<1> HIDE DEF R
<1>3. PICK x \in T : \A y \in T : <<y, x>> \notin R
  BY <1>1, WFMin, Zenon
<1>4. QED
  BY <1>2, <1>3

(* Induction: a set that has 0 and with each number the next one has all.  *)
LEMMA AllNaturals ==
  ASSUME NEW T \in SUBSET Nat, 0 \in T, \A n \in T : n + 1 \in T
  PROVE  T = Nat
<1> SUFFICES ASSUME Nat \ T # {} PROVE FALSE
  OBVIOUS
<1>1. PICK m \in Nat \ T : \A n \in Nat \ T : m <= n
  BY LeastNatural
<1>2. m # 0 /\ m - 1 \in Nat
  BY <1>1
<1>3. m - 1 \in T
  BY <1>1, <1>2
<1>4. QED
  BY <1>1, <1>2, <1>3

(* A list of all numbers of S, the least first.                            *)
Ascends(list, S) ==
  /\ list \in [1 .. Cardinality(S) -> S]
  /\ \A i, j \in 1 .. Cardinality(S) : i < j => list[i] < list[j]

(* The numbers of a finite set can be put in ascending order.              *)
LEMMA AscendingExists ==
  ASSUME NEW S \in SUBSET Nat, IsFiniteSet(S)
  PROVE  \E list : Ascends(list, S)
<1> DEFINE Listed(n) == \A X \in SUBSET Nat : IsFiniteSet(X) /\ Cardinality(X) = n
                           => \E list : Ascends(list, X)
           T == {n \in Nat : Listed(n)}
<1>1. Listed(0)
  <2> SUFFICES ASSUME NEW X \in SUBSET Nat, IsFiniteSet(X), Cardinality(X) = 0
               PROVE  Ascends([k \in 1 .. 0 |-> 0], X)
    OBVIOUS
  <2> QED
    BY DEF Ascends
<1>2. ASSUME NEW n \in Nat, Listed(n) PROVE Listed(n + 1)
  <2> SUFFICES ASSUME NEW X \in SUBSET Nat, IsFiniteSet(X), Cardinality(X) = n + 1
               PROVE  \E list : Ascends(list, X)
    OBVIOUS
  <2>1. X # {}
    BY FS_EmptySet
  <2>2. PICK m \in X : \A x \in X : m <= x
    BY <2>1, LeastNatural
  <2>3. IsFiniteSet(X \ {m}) /\ Cardinality(X \ {m}) = n
    <3>1. Cardinality(X \ {m}) = Cardinality(X) - 1 /\ IsFiniteSet(X \ {m})
      BY FS_RemoveElement, Zenon
    <3> QED
      BY <3>1
  <2>4. PICK rest : Ascends(rest, X \ {m})
    BY <1>2, <2>3
  <2> DEFINE list == [k \in 1 .. n + 1 |-> IF k = 1 THEN m ELSE rest[k - 1]]
  <2>5. rest \in [1 .. n -> X \ {m}] /\ \A i, j \in 1 .. n : i < j => rest[i] < rest[j]
    BY <2>3, <2>4 DEF Ascends
  <2>6. list \in [1 .. n + 1 -> X]
    BY <2>5
  <2>7. ASSUME NEW i \in 1 .. n + 1, NEW j \in 1 .. n + 1, i < j PROVE list[i] < list[j]
    <3>1. j # 1 /\ list[j] = rest[j - 1] /\ j - 1 \in 1 .. n
      BY <2>7
    <3>2. CASE i = 1
      <4>1. list[i] = m /\ rest[j - 1] \in X \ {m}
        BY <3>1, <3>2, <2>5
      <4>2. m \in Nat /\ rest[j - 1] \in Nat /\ m <= rest[j - 1] /\ m # rest[j - 1]
        BY <4>1, <2>2
      <4> HIDE DEF list
      <4> QED
        BY <3>1, <4>1, <4>2
    <3>3. CASE i # 1
      <4>1. list[i] = rest[i - 1] /\ i - 1 \in 1 .. n /\ i - 1 < j - 1
        BY <2>7, <3>3
      <4> QED
        BY <3>1, <4>1, <2>5
    <3> QED
      BY <3>2, <3>3
  <2>8. Ascends(list, X)
    BY <2>6, <2>7 DEF Ascends
  <2> QED
    BY <2>8
<1>3. T = Nat
  <2>1. T \in SUBSET Nat /\ 0 \in T
    BY <1>1
  <2>2. \A n \in T : n + 1 \in T
    BY <1>2
  <2> QED
    BY <2>1, <2>2, AllNaturals, Zenon
<1>4. Cardinality(S) \in Nat
  BY FS_CardinalityType
<1> QED
  BY <1>3, <1>4

(* Ascending lists the set, each number once, the least first.             *)
LEMMA AscendingLists ==
  ASSUME NEW S \in SUBSET Nat, IsFiniteSet(S)
  PROVE  /\ Cardinality(S) \in Nat
         /\ Ascending(S) \in [1 .. Cardinality(S) -> S]
         /\ \A i, j \in 1 .. Cardinality(S) : i < j => Ascending(S)[i] < Ascending(S)[j]
         /\ \A x \in S : \E i \in 1 .. Cardinality(S) : Ascending(S)[i] = x
<1> DEFINE n == Cardinality(S)
           list == Ascending(S)
<1>1. n \in Nat
  BY FS_CardinalityType
<1>2. \E l \in [1 .. n -> S] : \A i, j \in DOMAIN l : i < j => l[i] < l[j]
  <2>1. PICK l : Ascends(l, S)
    BY AscendingExists
  <2>2. l \in [1 .. n -> S] /\ DOMAIN l = 1 .. n
    BY <2>1 DEF Ascends
  <2> QED
    BY <2>1, <2>2 DEF Ascends
<1>3. list \in [1 .. n -> S] /\ \A i, j \in DOMAIN list : i < j => list[i] < list[j]
  BY <1>2, Zenon DEF Ascending
<1>4. \A i, j \in 1 .. n : i < j => list[i] < list[j]
  BY <1>3
<1> HIDE DEF list
<1>5. list \in Injection(1 .. n, S)
  <2>1. ASSUME NEW i \in 1 .. n, NEW j \in 1 .. n, list[i] = list[j] PROVE i = j
    <3>1. list[i] \in Nat /\ list[j] \in Nat
      BY <1>3
    <3> QED
      BY <1>1, <1>4, <2>1, <3>1
  <2> QED
    BY <1>3, <2>1 DEF Injection, IsInjective
<1>6. list \in Surjection(1 .. n, S)
  <2>1. Cardinality(1 .. n) = n
    BY <1>1, FS_Interval
  <2> QED
    BY <1>5, <2>1, FS_Injection
<1>7. \A x \in S : \E i \in 1 .. n : list[i] = x
  BY <1>6 DEF Surjection
<1> QED
  BY <1>1, <1>3, <1>4, <1>7 DEF list


-----------------------------------------------------------------------------
(* The elements of a buffer.                                               *)

(* The bytes of an element, from the highest down, put into a word.        *)
IsHigh(high, buffer, at, n) ==
  high = [k \in 0 .. n |->
            IF k = 0 THEN 0 ELSE (buffer[at + n - k + 1] + Radix * high[k - 1]) % Word]

(* What is added to a word stays in a word.                                *)
LEMMA OneByteMore ==
  ASSUME NEW b \in Nat, NEW w \in Words
  PROVE  (b + Radix * w) % Word \in Words
<1>1. Radix * w \in Nat
  <2>1. \A x, y \in Nat : x * y \in Nat
    BY Z3
  <2> QED
    BY <2>1, WordAssumption, ByteAssumption DEF Words
<1>2. \A x \in Nat : x % Word \in 0 .. Word - 1
  BY WordAssumption, SMT
<1> QED
  BY <1>1, <1>2 DEF Words

(* There is such a function for every element inside a buffer.             *)
LEMMA HighExists ==
  ASSUME NEW n \in Nat, NEW at \in Nat, NEW buffer,
         \A i \in at + 1 .. at + n : buffer[i] \in Nat
  PROVE  \E high : IsHigh(high, buffer, at, n)
<1> DEFINE Byte(k) == buffer[at + n - k + 1]
           Upto(m) == \E f \in [0 .. m -> Words] :
             f[0] = 0 /\ \A k \in 1 .. m : f[k] = (Byte(k) + Radix * f[k - 1]) % Word
           T == {m \in Nat : m <= n => Upto(m)}
<1>0. \A k \in 1 .. n : Byte(k) \in Nat
  BY SMT
<1> HIDE DEF Byte
<1>1. Upto(0)
  <2> DEFINE f == [k \in 0 .. 0 |-> 0]
  <2>1. f \in [0 .. 0 -> Words] /\ f[0] = 0 /\ 1 .. 0 = {}
    BY WordAssumption DEF Words
  <2> QED
    BY <2>1, Zenon
<1>2. ASSUME NEW m \in Nat, m + 1 <= n, Upto(m) PROVE Upto(m + 1)
  <2>1. PICK f \in [0 .. m -> Words] :
          f[0] = 0 /\ \A k \in 1 .. m : f[k] = (Byte(k) + Radix * f[k - 1]) % Word
    BY <1>2
  <2> DEFINE last == (Byte(m + 1) + Radix * f[m]) % Word
             g == [k \in 0 .. m + 1 |-> IF k = m + 1 THEN last ELSE f[k]]
  <2>2. last \in Words
    <3>1. f[m] \in Words /\ Byte(m + 1) \in Nat
      BY <1>0, <1>2, <2>1
    <3> QED
      BY <3>1, OneByteMore
  <2> HIDE DEF last
  <2>3. g \in [0 .. m + 1 -> Words]
    BY <2>1, <2>2
  <2>4. g[0] = 0
    BY <2>1
  <2>5. ASSUME NEW k \in 1 .. m + 1 PROVE g[k] = (Byte(k) + Radix * g[k - 1]) % Word
    <3>1. CASE k = m + 1
      <4>1. g[k] = last /\ g[k - 1] = f[m]
        BY <3>1
      <4> QED
        BY <3>1, <4>1 DEF last
    <3>2. CASE k # m + 1
      <4>1. g[k] = f[k] /\ g[k - 1] = f[k - 1] /\ k \in 1 .. m
        BY <3>2
      <4> QED
        BY <4>1, <2>1
    <3> QED
      BY <3>1, <3>2
  <2> HIDE DEF g
  <2> QED
    BY <2>3, <2>4, <2>5
<1> HIDE DEF Upto
<1>3. T = Nat
  <2>1. \A m \in T : m + 1 \in T
    BY <1>2
  <2>2. T \in SUBSET Nat /\ 0 \in T
    BY <1>1
  <2> QED
    BY <2>1, <2>2, AllNaturals, Zenon
<1>4. Upto(n)
  BY <1>3
<1>5. PICK f \in [0 .. n -> Words] :
        f[0] = 0 /\ \A k \in 1 .. n : f[k] = (Byte(k) + Radix * f[k - 1]) % Word
  BY <1>4 DEF Upto
<1>6. f = [k \in 0 .. n |-> IF k = 0 THEN 0 ELSE (Byte(k) + Radix * f[k - 1]) % Word]
  BY <1>5
<1> QED
  BY <1>6, Zenon DEF IsHigh, Byte

(* An element inside a buffer is a word.                                   *)
LEMMA ValueIsWord ==
  ASSUME NEW n \in Nat, NEW at \in Nat, NEW buffer,
         \A i \in at + 1 .. at + n : buffer[i] \in Nat
  PROVE  ValueAt(buffer, at, n) \in Words
<1> DEFINE Byte(k) == buffer[at + n - k + 1]
           high == CHOOSE f : IsHigh(f, buffer, at, n)
           T == {k \in Nat : k <= n => high[k] \in Words}
<1>0. \A k \in 1 .. n : Byte(k) \in Nat
  BY SMT
<1>1. IsHigh(high, buffer, at, n)
  BY HighExists, Zenon
<1>2. ValueAt(buffer, at, n) = high[n]
  BY DEF ValueAt, IsHigh
<1>3. high = [k \in 0 .. n |-> IF k = 0 THEN 0 ELSE (Byte(k) + Radix * high[k - 1]) % Word]
  BY <1>1, Zenon DEF IsHigh
<1> HIDE DEF high, Byte
<1>4. high[0] = 0 /\ \A k \in 1 .. n : high[k] = (Byte(k) + Radix * high[k - 1]) % Word
  <2>1. \A k \in 0 .. n : high[k] = IF k = 0 THEN 0 ELSE (Byte(k) + Radix * high[k - 1]) % Word
    BY <1>3, Zenon
  <2> QED
    BY <2>1
<1>5. 0 \in T
  BY <1>4, WordAssumption DEF Words
<1>6. ASSUME NEW k \in T PROVE k + 1 \in T
  <2> SUFFICES ASSUME k + 1 <= n PROVE high[k + 1] \in Words
    OBVIOUS
  <2>1. high[k] \in Words /\ Byte(k + 1) \in Nat
    BY <1>0
  <2>2. high[k + 1] = (Byte(k + 1) + Radix * high[k]) % Word
    BY <1>4
  <2> QED
    BY <2>1, <2>2, OneByteMore
<1>7. T = Nat
  BY <1>5, <1>6, AllNaturals, Zenon
<1> QED
  BY <1>2, <1>7

-----------------------------------------------------------------------------
(* The std::sort at the end of a scan.                                     *)

(* A sequence is a function on 1 .. n.                                     *)
LEMMA SequenceOf ==
  ASSUME NEW X, NEW n \in Nat, NEW list \in [1 .. n -> X]
  PROVE  list \in Seq(X) /\ Len(list) = n /\ DOMAIN list = 1 .. n
  OBVIOUS

Entries == [value : Words, snapshot : Words, index : Nat]

(* What is known of a scan.                                                *)
LEMMA ScanFields ==
  ASSUME NEW s \in Scans
  PROVE  /\ s.base \in Nat /\ s.size \in Nat \ {0} /\ End(s) \in Nat
         /\ s.type \in Types /\ s.elem \in Nat \ {0}
         /\ s.bytes \in [1 .. s.size -> Bytes]
         /\ s.results \in Seq(Entries)
         /\ s.type # "unknown_value" <=> s.results # << >>
<1>1. /\ s.base \in Nat /\ s.size \in Nat \ {0} /\ s.elem \in Range(ElementSize)
      /\ s.type \in Types /\ s.bytes \in Seq(Bytes) /\ s.results \in Seq(Entries)
      /\ Len(s.bytes) = s.size
      /\ s.type # "unknown_value" <=> s.results # << >>
  BY DEF Scans, Entries
<1>2. s.elem \in Nat \ {0}
  BY <1>1, SizeAssumption DEF Range
<1> QED
  BY <1>1, <1>2 DEF End

(* A list of scans that lie apart, in order, is sorted into itself, up to  *)
(* the order: nothing is lost, and the result is in order again.           *)
LEMMA ByBaseOrders ==
  ASSUME NEW list \in Seq(Scans), Sorted(list)
  PROVE  /\ ByBase(list) \in Seq(Scans)
         /\ Sorted(ByBase(list))
         /\ Range(ByBase(list)) = Range(list)
<1> DEFINE D == DOMAIN list
           InOrder(p) == \A i, j \in DOMAIN list :
             i < j => p[i] # p[j] /\ list[p[i]].base <= list[p[j]].base
           order == CHOOSE p \in [DOMAIN list -> DOMAIN list] : InOrder(p)
           sorted == ByBase(list)
<1>1. Len(list) \in Nat /\ D = 1 .. Len(list)
  OBVIOUS
<1>2. \A i \in D : list[i] \in Scans /\ list[i].base \in Nat /\ list[i].size \in Nat \ {0}
  <2>1. ASSUME NEW i \in D PROVE list[i] \in Scans
    OBVIOUS
  <2> QED
    BY <2>1, ScanFields
<1>3. \E p \in [D -> D] : InOrder(p)
  <2> DEFINE same == [i \in D |-> i]
  <2>1. ASSUME NEW i \in D, NEW j \in D, i < j
        PROVE  same[i] # same[j] /\ list[same[i]].base <= list[same[j]].base
    <3>1. same[i] = i /\ same[j] = j /\ i # j
      BY <1>1, <2>1
    <3>2. End(list[i]) <= list[j].base
      BY <2>1 DEF Sorted
    <3>3. list[i].base <= list[j].base
      BY <1>2, <3>2 DEF End
    <3> QED
      BY <3>1, <3>3
  <2> QED
    BY <2>1
<1>4. order \in [D -> D] /\ InOrder(order)
  BY <1>3, Zenon
<1>5. sorted = [k \in D |-> list[order[k]]]
  BY Zenon DEF ByBase
<1> HIDE DEF order, sorted
<1>6. sorted \in [1 .. Len(list) -> Scans]
  BY <1>1, <1>2, <1>4, <1>5
<1>7. sorted \in Seq(Scans) /\ DOMAIN sorted = D
  BY <1>1, <1>6, SequenceOf
<1>8. Sorted(sorted)
  <2> SUFFICES ASSUME NEW i \in D, NEW j \in D, i < j
               PROVE  End(sorted[i]) <= sorted[j].base
    BY <1>7 DEF Sorted
  <2>1. sorted[i] = list[order[i]] /\ sorted[j] = list[order[j]]
    BY <1>5
  <2>2. order[i] \in D /\ order[j] \in D /\ order[i] # order[j]
    BY <1>4
  <2>3. list[order[i]].base <= list[order[j]].base
    BY <1>4
  <2>4. CASE order[i] < order[j]
    BY <2>1, <2>2, <2>4 DEF Sorted
  <2>5. CASE order[j] < order[i]
    <3>1. End(list[order[j]]) <= list[order[i]].base
      BY <2>2, <2>5 DEF Sorted
    <3> QED
      BY <1>2, <2>2, <2>3, <3>1 DEF End
  <2> QED
    BY <1>1, <2>2, <2>4, <2>5
<1>9. Range(sorted) = Range(list)
  <2>1. order \in Injection(D, D)
    <3>1. \A i, j \in D : order[i] = order[j] => i = j
      BY <1>1, <1>4
    <3> QED
      BY <1>4, <3>1 DEF Injection, IsInjective
  <2>2. IsFiniteSet(D)
    BY <1>1, FS_Interval
  <2>3. order \in Surjection(D, D)
    BY <2>1, <2>2, FS_Injection
  <2>4. \A i \in D : \E k \in D : order[k] = i
    BY <2>3 DEF Surjection
  <2> QED
    BY <1>4, <1>5, <1>7, <2>4 DEF Range
<1> QED
  BY <1>7, <1>8, <1>9 DEF sorted

-----------------------------------------------------------------------------
(* Elements of a width W in a buffer.                                      *)

(* The element that an offset lies in begins at the offset or before it,   *)
(* and ends behind it.                                                     *)
LEMMA Quotient ==
  ASSUME NEW W \in Nat \ {0}, NEW x \in Nat
  PROVE  /\ x \div W \in Nat
         /\ (x \div W) * W <= x
         /\ x < (x \div W) * W + W
  BY Z3

(* Two offsets an element apart lie in different elements.                 *)
LEMMA QuotientGrows ==
  ASSUME NEW W \in Nat \ {0}, NEW x \in Nat, NEW y \in Nat, x + W <= y
  PROVE  x \div W < y \div W
  BY Z3

(* The next element begins where one ends, or behind it.                   *)
LEMMA ProductGrows ==
  ASSUME NEW W \in Nat \ {0}, NEW a \in Nat, NEW b \in Nat, a < b
  PROVE  a * W + W <= b * W
  BY Z3

(* The end of an element, by its index.                                    *)
LEMMA NextProduct ==
  ASSUME NEW W \in Nat \ {0}, NEW a \in Nat
  PROVE  a * W \in Nat /\ (a + 1) * W = a * W + W
  BY Z3

(* An offset that is a whole number of elements.                           *)
LEMMA WholeQuotient ==
  ASSUME NEW W \in Nat \ {0}, NEW a \in Nat, a % W = 0
  PROVE  a = (a \div W) * W
  BY Z3

(* An element that lies in a buffer is a word.                             *)
LEMMA ElementIsWord ==
  ASSUME NEW size \in Nat, NEW buffer \in [1 .. size -> Bytes], NEW W \in Nat \ {0},
         NEW at \in Nat, at + W <= size
  PROVE  ValueAt(buffer, at, W) \in Words
<1>1. ASSUME NEW i \in at + 1 .. at + W PROVE buffer[i] \in Nat
  BY ByteAssumption DEF Bytes
<1> QED
  BY <1>1, ValueIsWord

-----------------------------------------------------------------------------
(* What the searches leave.                                                *)

(* The entries lie in a buffer of that size, in order, each once.          *)
Fits(entries, size, W) ==
  /\ entries \in Seq(Entries)
  /\ \A k \in DOMAIN entries : (entries[k].index + 1) * W <= size
  /\ \A k, n \in DOMAIN entries : k < n => entries[k].index < entries[n].index

(* Their values are those of the buffer.                                   *)
Fetched(entries, bytes, W) ==
  \A k \in DOMAIN entries : entries[k].value = ValueAt(bytes, entries[k].index * W, W)

(* Some of the numbers below n, in ascending order.                        *)
LEMMA AscendingBelow ==
  ASSUME NEW n \in Int, NEW S \in SUBSET (0 .. n - 1)
  PROVE  /\ Cardinality(S) \in Nat
         /\ Ascending(S) \in [1 .. Cardinality(S) -> S]
         /\ DOMAIN Ascending(S) = 1 .. Cardinality(S)
         /\ \A i, j \in 1 .. Cardinality(S) : i < j => Ascending(S)[i] < Ascending(S)[j]
         /\ \A x \in S : \E i \in 1 .. Cardinality(S) : Ascending(S)[i] = x
<1>1. IsFiniteSet(0 .. n - 1)
  BY FS_Interval
<1>2. IsFiniteSet(S) /\ S \in SUBSET Nat
  <2>1. IsFiniteSet(S)
    BY <1>1, FS_Subset, Zenon
  <2> QED
    BY <2>1
<1>3. Ascending(S) \in [1 .. Cardinality(S) -> S]
  BY <1>2, AscendingLists
<1> QED
  BY <1>2, <1>3, AscendingLists

(* An entry for the element at an index.                                   *)
LEMMA EntryFields ==
  ASSUME NEW v \in Words, NEW index \in Nat
  PROVE  /\ Entry(v, index) \in Entries
         /\ Entry(v, index).value = v /\ Entry(v, index).snapshot = v
         /\ Entry(v, index).index = index
  BY DEF Entry, Entries

(* What is found answers a first query.                                    *)
Searched(entries, q) == \A k \in DOMAIN entries : Match(q, entries[k].snapshot, q.raw1)

(* search_value finds elements of the buffer that answer the query.        *)
LEMMA SearchFits ==
  ASSUME NEW size \in Nat, NEW bytes \in [1 .. size -> Bytes], NEW q, NEW W \in Nat \ {0}
  PROVE  /\ Fits(SearchValue(bytes, q, W), size, W)
         /\ Fetched(SearchValue(bytes, q, W), bytes, W)
         /\ Searched(SearchValue(bytes, q, W), q)
<1> DEFINE At(k) == ValueAt(bytes, k * W, W)
           S == {k \in 0 .. Len(bytes) \div W - 1 : Match(q, At(k), q.raw1)}
           hits == Ascending(S)
           c == Cardinality(S)
           entries == [i \in 1 .. c |-> Entry(At(hits[i]), hits[i])]
<1>1. Len(bytes) = size
  BY SequenceOf
<1>2. /\ c \in Nat /\ hits \in [1 .. c -> S] /\ DOMAIN hits = 1 .. c
      /\ \A i, j \in 1 .. c : i < j => hits[i] < hits[j]
  <2>1. Len(bytes) \div W \in Int /\ S \in SUBSET (0 .. Len(bytes) \div W - 1)
    BY <1>1, Quotient
  <2> QED
    BY <2>1, AscendingBelow
<1>3. SearchValue(bytes, q, W) = entries
  BY <1>2, Zenon DEF SearchValue
<1>4. ASSUME NEW k \in S
      PROVE  /\ k \in Nat /\ (k + 1) * W <= size /\ At(k) \in Words
             /\ Match(q, At(k), q.raw1)
  <2>1. k \in Nat /\ k < size \div W /\ size \div W \in Nat
    BY <1>1, Quotient
  <2>2. k * W + W <= (size \div W) * W /\ k * W \in Nat /\ (k + 1) * W = k * W + W
    BY <2>1, ProductGrows, NextProduct
  <2>3. (size \div W) * W <= size /\ (size \div W) * W \in Nat
    BY <2>1, Quotient, NextProduct
  <2>4. k * W + W <= size
    BY <2>2, <2>3
  <2> QED
    BY <2>1, <2>2, <2>4, ElementIsWord
<1> HIDE DEF S, At, hits, c
<1>5. ASSUME NEW i \in 1 .. c
      PROVE  /\ entries[i] \in Entries /\ entries[i].index = hits[i]
             /\ entries[i].value = At(hits[i]) /\ (hits[i] + 1) * W <= size
             /\ Match(q, entries[i].snapshot, q.raw1)
  BY <1>2, <1>4, EntryFields
<1>6. entries \in Seq(Entries) /\ DOMAIN entries = 1 .. c
  BY <1>2, <1>5
<1> HIDE DEF entries
<1>7. Fits(entries, size, W)
  BY <1>2, <1>5, <1>6 DEF Fits
<1>8. Fetched(entries, bytes, W)
  BY <1>2, <1>5, <1>6 DEF Fetched, At
<1>9. Searched(entries, q)
  BY <1>5, <1>6 DEF Searched
<1> QED
  BY <1>3, <1>7, <1>8, <1>9

(* What the width of the elements of a query is.                           *)
LEMMA WidthIs ==
  ASSUME NEW types, query \in QueriesOf(types)
  PROVE  Width \in Nat \ {0} /\ Width \in Range(ElementSize) /\ query.type \in types
  BY SizeAssumption DEF Width, QueriesOf, Range

(* The overlap of a region and an old scan lies in both.                   *)
LEMMA OverlapInBoth ==
  ASSUME NEW r, r.base \in Nat, r.size \in Nat \ {0},
         NEW p, p.base \in Nat, p.size \in Nat \ {0}
  PROVE  /\ OvStart(r, p) \in Nat /\ OvEnd(r, p) \in Nat
         /\ r.base <= OvStart(r, p) /\ p.base <= OvStart(r, p)
         /\ OvEnd(r, p) <= End(r) /\ OvEnd(r, p) <= End(p)
         /\ OvStart(r, p) \in {r.base, p.base} /\ OvEnd(r, p) \in {End(r), End(p)}
         /\ End(r) = r.base + r.size /\ End(p) = p.base + p.size
  BY DEF OvStart, OvEnd, End, Larger, Smaller

(* It is not empty if each begins in front of the end of the other.        *)
LEMMA OverlapNotEmpty ==
  ASSUME NEW r, r.base \in Nat, r.size \in Nat \ {0},
         NEW p, p.base \in Nat, p.size \in Nat \ {0},
         r.base < End(p), p.base < End(r)
  PROVE  OvStart(r, p) < OvEnd(r, p)
<1>1. r.base < End(r) /\ p.base < End(p)
  BY DEF End
<1>2. OvStart(r, p) \in {r.base, p.base} /\ OvEnd(r, p) \in {End(r), End(p)}
  BY OverlapInBoth
<1> QED
  BY <1>1, <1>2

(* The search next to an unknown snapshot finds elements of the region's   *)
(* buffer, at the index they have there if the bases lie on elements.      *)
LEMMA SnapshotFits ==
  ASSUME NEW r, r.base \in Nat, r.size \in Nat \ {0}, NEW p \in Scans,
         r.base < End(p), p.base < End(r),
         NEW bytes \in [1 .. r.size -> Bytes], Width \in Nat \ {0}
  PROVE  /\ Fits(FromSnapshot(r, bytes, p), r.size, Width)
         /\ r.base % Width = 0 /\ p.base % Width = 0
              => Fetched(FromSnapshot(r, bytes, p), bytes, Width)
<1> DEFINE W == Width
           rOff == OvStart(r, p) - r.base
           pOff == OvStart(r, p) - p.base
           length == OvEnd(r, p) - OvStart(r, p)
           New(k) == ValueAt(bytes, rOff + k * W, W)
           Old(k) == ValueAt(p.bytes, pOff + k * W, W)
           S == {k \in 0 .. length \div W - 1 : Match(query, New(k), Old(k))}
           kept == Ascending(S)
           c == Cardinality(S)
           Index(k) == (rOff + k * W) \div W
           entries == [i \in 1 .. c |-> Entry(New(kept[i]), Index(kept[i]))]
<1>1. /\ rOff \in Nat /\ length \in Nat /\ rOff + length <= r.size
      /\ OvStart(r, p) \in {r.base, p.base}
  <2>1. p.base \in Nat /\ p.size \in Nat \ {0}
    BY ScanFields
  <2>2. /\ OvStart(r, p) \in {r.base, p.base} /\ r.base <= OvStart(r, p)
        /\ OvEnd(r, p) <= End(r) /\ End(r) = r.base + r.size
        /\ OvStart(r, p) \in Nat /\ OvEnd(r, p) \in Nat
    BY <2>1, OverlapInBoth
  <2>3. OvStart(r, p) < OvEnd(r, p)
    BY <2>1, OverlapNotEmpty
  <2> QED
    BY <2>2, <2>3
<1>2. /\ c \in Nat /\ kept \in [1 .. c -> S] /\ DOMAIN kept = 1 .. c
      /\ \A i, j \in 1 .. c : i < j => kept[i] < kept[j]
  <2>1. length \div W \in Int /\ S \in SUBSET (0 .. length \div W - 1)
    BY <1>1, Quotient
  <2> QED
    BY <2>1, AscendingBelow
<1>3. FromSnapshot(r, bytes, p) = entries
  BY <1>2, Zenon DEF FromSnapshot
<1>4. S \in SUBSET Nat
  OBVIOUS
<1>5. ASSUME NEW k \in S
      PROVE  rOff + k * W \in Nat /\ k * W \in Nat /\ rOff + k * W + W <= r.size
  <2>1. k \in Nat /\ k < length \div W /\ length \div W \in Nat
    BY <1>1, Quotient
  <2>2. k * W + W <= (length \div W) * W /\ k * W \in Nat
    BY <2>1, ProductGrows, NextProduct
  <2>3. (length \div W) * W <= length /\ (length \div W) * W \in Nat
    BY <1>1, <2>1, Quotient, NextProduct
  <2>4. W \in Nat \ {0}
    OBVIOUS
  <2> HIDE DEF rOff, length, W
  <2> QED
    BY <1>1, <2>2, <2>3, <2>4
<1>6. ASSUME NEW k \in S
      PROVE  Index(k) \in Nat /\ (Index(k) + 1) * W <= r.size /\ New(k) \in Words
  <2>1. rOff + k * W \in Nat /\ rOff + k * W + W <= r.size
    BY <1>5
  <2>2. New(k) \in Words
    BY <2>1, ElementIsWord
  <2>3. Index(k) \in Nat /\ Index(k) * W <= rOff + k * W
    BY <2>1, Quotient
  <2>4. Index(k) * W \in Nat /\ (Index(k) + 1) * W = Index(k) * W + W
    BY <2>3, NextProduct
  <2> HIDE DEF Index, New
  <2> QED
    BY <2>1, <2>2, <2>3, <2>4
<1>7. ASSUME NEW k \in S, NEW n \in S, k < n PROVE Index(k) < Index(n)
  <2>1. k * W + W <= n * W
    BY <1>4, <1>7, ProductGrows
  <2>2. rOff + k * W \in Nat /\ rOff + n * W \in Nat /\ k * W \in Nat /\ n * W \in Nat
    BY <1>5
  <2>3. rOff + k * W + W <= rOff + n * W
    <3> DEFINE x == k * W
               y == n * W
    <3>1. rOff \in Nat /\ W \in Nat /\ x \in Nat /\ y \in Nat /\ x + W <= y
      BY <1>1, <2>1, <2>2
    <3> HIDE DEF rOff, W, x, y
    <3>2. rOff + x + W <= rOff + y
      BY <3>1
    <3> QED
      BY <3>2 DEF x, y
  <2> QED
    BY <2>2, <2>3, QuotientGrows
<1>8. ASSUME r.base % W = 0, p.base % W = 0, NEW k \in S
      PROVE  rOff + k * W = Index(k) * W
  <2>1. r.base \in Nat /\ p.base \in Nat
    BY ScanFields
  <2>2. r.base = (r.base \div W) * W /\ r.base \div W \in Nat
    BY <1>8, <2>1, WholeQuotient, Quotient
  <2>3. PICK m \in Nat : OvStart(r, p) = m * W
    <3>1. p.base = (p.base \div W) * W /\ p.base \div W \in Nat
      BY <1>8, <2>1, WholeQuotient, Quotient
    <3> QED
      BY <1>1, <2>2, <3>1
  <2> DEFINE d == m - r.base \div W + k
  <2>4. rOff + k * W = d * W /\ d \in Int
    <3> DEFINE R == r.base \div W
    <3>1. R \in Int /\ m \in Int /\ k \in Int /\ W \in Nat \ {0} /\ rOff = m * W - R * W
      BY <1>4, <2>2, <2>3
    <3> HIDE DEF R, W, rOff
    <3>2. m * W - R * W + k * W = (m - R + k) * W
      BY <3>1, Z3
    <3>3. rOff + k * W = (m - R + k) * W /\ m - R + k \in Int
      BY <3>1, <3>2
    <3> QED
      BY <3>3 DEF R
  <2>5. (d * W) \div W = d
    <3>1. \A x \in Int : (x * W) \div W = x
      BY Z3
    <3> QED
      BY <2>4, <3>1
  <2> QED
    BY <2>4, <2>5
<1> HIDE DEF S, New, Index, kept, c, W
<1>9. ASSUME NEW i \in 1 .. c
      PROVE  /\ kept[i] \in S
             /\ entries[i] \in Entries /\ entries[i].index = Index(kept[i])
             /\ entries[i].value = New(kept[i]) /\ (Index(kept[i]) + 1) * W <= r.size
  BY <1>2, <1>6, EntryFields
<1>10. entries \in Seq(Entries) /\ DOMAIN entries = 1 .. c
  BY <1>2, <1>9
<1> HIDE DEF entries
<1>11. Fits(entries, r.size, W)
  BY <1>2, <1>7, <1>9, <1>10 DEF Fits
<1>12. ASSUME r.base % W = 0, p.base % W = 0 PROVE Fetched(entries, bytes, W)
  BY <1>8, <1>9, <1>10, <1>12 DEF Fetched, New
<1> QED
  BY <1>3, <1>11, <1>12 DEF W

(* So does the search among the results of a scan whose results are in     *)
(* order.                                                                  *)
LEMMA ResultsFit ==
  ASSUME NEW r, r.base \in Nat, r.size \in Nat \ {0}, NEW p \in Scans,
         \A k, n \in DOMAIN p.results : k < n => p.results[k].index < p.results[n].index,
         NEW bytes \in [1 .. r.size -> Bytes], Width \in Nat \ {0}
  PROVE  /\ Fits(FromResults(r, bytes, p), r.size, Width)
         /\ Fetched(FromResults(r, bytes, p), bytes, Width)
<1> DEFINE W == Width
           old == p.results
           New(e) == ValueAt(bytes, NewIndex(r, p, e) * W, W)
           S == {k \in DOMAIN p.results : /\ InOverlap(r, p, p.results[k])
                                         /\ Match(query, New(p.results[k]), Compared(p.results[k]))}
           kept == Ascending(S)
           c == Cardinality(S)
           Index(k) == NewIndex(r, p, old[k])
           entries == [i \in 1 .. c |-> Entry(New(old[kept[i]]), Index(kept[i]))]
<1>0. W \in Nat \ {0} /\ p.base \in Nat /\ p.size \in Nat \ {0} /\ old \in Seq(Entries)
  BY ScanFields
<1>1. /\ c \in Nat /\ kept \in [1 .. c -> S] /\ DOMAIN kept = 1 .. c
      /\ \A i, j \in 1 .. c : i < j => kept[i] < kept[j]
  <2>1. Len(old) + 1 \in Int /\ S \in SUBSET (0 .. (Len(old) + 1) - 1)
    BY <1>0
  <2> QED
    BY <2>1, AscendingBelow
<1>2. FromResults(r, bytes, p) = entries
  BY <1>1, Zenon DEF FromResults
<1>3. ASSUME NEW k \in S
      PROVE  /\ k \in DOMAIN old /\ old[k].index \in Nat
             /\ EAddr(p, old[k]) \in Nat /\ r.base <= EAddr(p, old[k])
             /\ EAddr(p, old[k]) + W <= r.base + r.size
  <2>1. k \in DOMAIN old /\ InOverlap(r, p, old[k])
    OBVIOUS
  <2>2. old[k] \in Entries
    BY <1>0, <2>1
  <2>3. old[k].index \in Nat /\ old[k].index * W \in Nat
    BY <1>0, <2>2, NextProduct DEF Entries
  <2>4. EAddr(p, old[k]) = p.base + old[k].index * W
    BY DEF EAddr
  <2>5. OvStart(r, p) <= EAddr(p, old[k]) /\ EAddr(p, old[k]) + W <= OvEnd(r, p)
    BY <2>1 DEF InOverlap
  <2>6. /\ OvStart(r, p) \in Nat /\ OvEnd(r, p) \in Nat /\ r.base <= OvStart(r, p)
        /\ OvEnd(r, p) <= r.base + r.size
    BY <1>0, OverlapInBoth
  <2>7. EAddr(p, old[k]) \in Nat
    BY <1>0, <2>3, <2>4
  <2> HIDE DEF W, old
  <2> QED
    BY <1>0, <2>1, <2>3, <2>5, <2>6, <2>7
<1>4. ASSUME NEW k \in S
      PROVE  Index(k) \in Nat /\ (Index(k) + 1) * W <= r.size /\ New(old[k]) \in Words
  <2> DEFINE x == EAddr(p, old[k]) - r.base
  <2>1. x \in Nat /\ x + W <= r.size
    <3> HIDE DEF W, S, old
    <3> QED
      BY <1>0, <1>3
  <2>2. Index(k) = x \div W
    BY DEF NewIndex
  <2>3. Index(k) \in Nat /\ Index(k) * W <= x
    BY <2>1, <2>2, Quotient
  <2>4. Index(k) * W \in Nat /\ (Index(k) + 1) * W = Index(k) * W + W
    BY <2>3, NextProduct
  <2> HIDE DEF x, Index
  <2>5. Index(k) * W + W <= r.size
    BY <1>0, <2>1, <2>3, <2>4
  <2>6. ValueAt(bytes, Index(k) * W, W) \in Words
    BY <2>4, <2>5, ElementIsWord
  <2> QED
    BY <2>3, <2>4, <2>5, <2>6 DEF Index
<1>5. ASSUME NEW k \in S, NEW n \in S, k < n PROVE Index(k) < Index(n)
  <2> DEFINE x == EAddr(p, old[k]) - r.base
             y == EAddr(p, old[n]) - r.base
  <2>1. old[k].index < old[n].index /\ old[k].index \in Nat /\ old[n].index \in Nat
    BY <1>3, <1>5
  <2>2. /\ old[k].index * W + W <= old[n].index * W
        /\ old[k].index * W \in Nat /\ old[n].index * W \in Nat
    BY <1>0, <2>1, ProductGrows, NextProduct
  <2>3. /\ EAddr(p, old[k]) = p.base + old[k].index * W
        /\ EAddr(p, old[n]) = p.base + old[n].index * W
    BY DEF EAddr
  <2>4. x \in Nat /\ y \in Nat
    <3> HIDE DEF W, S, old
    <3> QED
      BY <1>0, <1>3
  <2>5. x + W <= y
    <3> DEFINE a == old[k].index * W
               b == old[n].index * W
    <3>1. EAddr(p, old[k]) = p.base + a /\ EAddr(p, old[n]) = p.base + b
      BY <2>3, Zenon
    <3>2. a \in Nat /\ b \in Nat /\ a + W <= b
      BY <2>2, Zenon
    <3>3. W \in Nat /\ p.base \in Nat /\ r.base \in Nat
      BY <1>0
    <3> HIDE DEF W, S, old, a, b
    <3> QED
      BY <3>1, <3>2, <3>3
  <2>6. Index(k) = x \div W /\ Index(n) = y \div W
    BY DEF NewIndex
  <2> HIDE DEF x, y, Index
  <2> QED
    BY <1>0, <2>4, <2>5, <2>6, QuotientGrows
<1> HIDE DEF S, New, Index, kept, c, W, old
<1>6. ASSUME NEW i \in 1 .. c
      PROVE  /\ kept[i] \in S
             /\ entries[i] \in Entries /\ entries[i].index = Index(kept[i])
             /\ entries[i].value = New(old[kept[i]]) /\ (Index(kept[i]) + 1) * W <= r.size
  BY <1>1, <1>4, EntryFields
<1>7. entries \in Seq(Entries) /\ DOMAIN entries = 1 .. c
  BY <1>1, <1>6
<1> HIDE DEF entries
<1>8. Fits(entries, r.size, W)
  BY <1>1, <1>5, <1>6, <1>7 DEF Fits
<1>9. Fetched(entries, bytes, W)
  BY <1>6, <1>7 DEF Fetched, New, Index
<1> QED
  BY <1>2, <1>8, <1>9 DEF W

(* No query for unknown values is answered by a comparison.                *)
LEMMA UnknownMatchesNothing ==
  ASSUME NEW q, q.type = "unknown_value", NEW a, NEW b
  PROVE  ~ Match(q, a, b)
<1>1. ~ FloatMatch(q.type, a, b, q.raw2)
  BY DEF FloatMatch
<1>2. ~ DoubleMatch(q.type, a, b, q.raw2)
  BY DEF DoubleMatch
<1>3. ~ IntegerMatch(q.type, a, b, q.raw2)
  BY DEF IntegerMatch
<1> QED
  BY <1>1, <1>2, <1>3 DEF Match

(* A next_scan for unknown values finds nothing.                           *)
LEMMA UnknownFindsNothing ==
  ASSUME query.type = "unknown_value", NEW r, NEW bytes, NEW p
  PROVE  FromSnapshot(r, bytes, p) = << >> /\ FromResults(r, bytes, p) = << >>
<1>1. Ascending({}) \in [1 .. 0 -> {}] /\ DOMAIN Ascending({}) = {}
  BY FS_EmptySet, AscendingLists
<1>2. FromSnapshot(r, bytes, p) = << >>
  <2> DEFINE rOff == OvStart(r, p) - r.base
             pOff == OvStart(r, p) - p.base
             n == (OvEnd(r, p) - OvStart(r, p)) \div Width
             New(k) == ValueAt(bytes, rOff + k * Width, Width)
             Old(k) == ValueAt(p.bytes, pOff + k * Width, Width)
             S == {k \in 0 .. n - 1 : Match(query, New(k), Old(k))}
  <2>1. S = {}
    BY UnknownMatchesNothing
  <2>2. FromSnapshot(r, bytes, p) =
          [i \in DOMAIN Ascending(S) |->
             Entry(New(Ascending(S)[i]), (rOff + Ascending(S)[i] * Width) \div Width)]
    BY Zenon DEF FromSnapshot
  <2> HIDE DEF S, New, rOff
  <2> QED
    BY <1>1, <2>1, <2>2
<1>3. FromResults(r, bytes, p) = << >>
  <2> DEFINE New(e) == ValueAt(bytes, NewIndex(r, p, e) * Width, Width)
             S == {k \in DOMAIN p.results :
                     /\ InOverlap(r, p, p.results[k])
                     /\ Match(query, New(p.results[k]), Compared(p.results[k]))}
  <2>1. S = {}
    BY UnknownMatchesNothing
  <2>2. FromResults(r, bytes, p) =
          [i \in DOMAIN Ascending(S) |->
             Entry(New(p.results[Ascending(S)[i]]), NewIndex(r, p, p.results[Ascending(S)[i]]))]
    BY Zenon DEF FromResults
  <2> HIDE DEF S, New
  <2> QED
    BY <1>1, <2>1, <2>2
<1> QED
  BY <1>2, <1>3

-----------------------------------------------------------------------------
(* The lists of regions.                                                   *)

Areas == [base : Nat, size : Nat]

(* get_regions returns regions that lie apart, in order.                   *)
LEMMA LayoutIs ==
  ASSUME NEW list \in Layouts
  PROVE  /\ list \in Seq(Areas) /\ Sorted(list)
         /\ \A r \in Range(list) :
              r \in Areas /\ r.base \in Nat /\ r.size \in Nat \ {0} /\ End(r) \in Nat
<1>1. list \in Seq(Areas) /\ \A i \in DOMAIN list :
        list[i].size > 0 /\ \A j \in 1 .. i - 1 : End(list[j]) <= list[i].base
  BY LayoutAssumption DEF Areas
<1>2. ASSUME NEW i \in DOMAIN list, NEW j \in DOMAIN list, i < j PROVE End(list[i]) <= list[j].base
  BY <1>1, <1>2
<1>3. ASSUME NEW i \in DOMAIN list
      PROVE  list[i] \in Areas /\ list[i].base \in Nat /\ list[i].size \in Nat \ {0}
  <2>1. list[i] \in Areas /\ list[i].size > 0
    BY <1>1
  <2> QED
    BY <2>1 DEF Areas
<1> QED
  BY <1>1, <1>2, <1>3 DEF Sorted, Range, End

(* A target has a list of regions, and bytes where a region can be read.   *)
LEMMA TargetIs ==
  ASSUME NEW t \in Targets
  PROVE  /\ t.regions \in Layouts /\ t.readable \subseteq Range(t.regions)
         /\ \A r \in t.readable : Snapshot(t, r) \in [1 .. r.size -> Bytes]
<1>0. PICK list \in Layouts : t \in TargetsOf(list)
  BY Zenon DEF Targets
<1>1. PICK readable \in SUBSET Range(list) : t \in Readable(list, readable)
  BY <1>0 DEF TargetsOf
<1>2. /\ t.regions = list /\ t.readable = readable
      /\ t.bytes \in [UNION {Span(r) : r \in readable} -> Bytes]
  BY <1>1 DEF Readable
<1>3. ASSUME NEW r \in readable PROVE Snapshot(t, r) \in [1 .. r.size -> Bytes]
  <2>1. r.base \in Nat /\ r.size \in Nat \ {0}
    BY LayoutIs
  <2>2. ASSUME NEW k \in 1 .. r.size PROVE t.bytes[r.base + k - 1] \in Bytes
    <3>1. r.base + k - 1 \in Span(r)
      BY <2>1 DEF Span, End
    <3> QED
      BY <1>2, <3>1
  <2> QED
    BY <2>2 DEF Snapshot
<1> QED
  BY <1>2, <1>3

(* The scan of next_scan for a region is one of that region, has its       *)
(* results in its buffer, and is a proper scan if it has any.              *)
LEMMA NarrowedFits ==
  ASSUME target \in Targets, query \in QueriesOf(NextTypes), NEW r \in target.readable,
         NEW p \in Scans, Fits(p.results, p.size, p.elem), r.base < End(p), p.base < End(r)
  PROVE  /\ Narrowed(r, p).base = r.base /\ Narrowed(r, p).size = r.size
         /\ Fits(Narrowed(r, p).results, r.size, Narrowed(r, p).elem)
         /\ Valid(Narrowed(r, p)) => Narrowed(r, p) \in Scans
         /\ r.base % Width = 0 /\ p.base % Width = 0 =>
              Fetched(Narrowed(r, p).results, Narrowed(r, p).bytes, Narrowed(r, p).elem)
<1> DEFINE s == Narrowed(r, p)
           bytes == Snapshot(target, r)
           entries == IF p.type = "unknown_value" THEN FromSnapshot(r, bytes, p)
                      ELSE FromResults(r, bytes, p)
<1>1. r.base \in Nat /\ r.size \in Nat \ {0} /\ bytes \in [1 .. r.size -> Bytes]
  BY TargetIs, LayoutIs
<1>2. Width \in Nat \ {0} /\ Width \in Range(ElementSize) /\ query.type \in NextTypes
  BY WidthIs
<1>3. s = [base |-> r.base, size |-> r.size, type |-> query.type, elem |-> Width,
           bytes |-> bytes, results |-> entries]
  BY DEF Narrowed, Scan, Width
<1>4. \A k, n \in DOMAIN p.results : k < n => p.results[k].index < p.results[n].index
  BY DEF Fits
<1> HIDE DEF bytes
<1>5. /\ Fits(entries, r.size, Width)
      /\ r.base % Width = 0 /\ p.base % Width = 0 => Fetched(entries, bytes, Width)
  <2>1. CASE p.type = "unknown_value"
    BY <1>1, <1>2, <2>1, SnapshotFits
  <2>2. CASE p.type # "unknown_value"
    BY <1>1, <1>2, <1>4, <2>2, ResultsFit
  <2> QED
    BY <2>1, <2>2
<1>6. query.type = "unknown_value" => entries = << >>
  BY UnknownFindsNothing
<1> HIDE DEF entries, s
<1>7. bytes \in Seq(Bytes) /\ Len(bytes) = r.size
  BY <1>1, SequenceOf
<1>8. entries \in Seq(Entries)
  BY <1>5 DEF Fits
<1>9. ASSUME entries # << >> PROVE s \in Scans
  BY <1>1, <1>2, <1>3, <1>6, <1>7, <1>8, <1>9 DEF Scans, Entries, Types
<1> QED
  BY <1>3, <1>5, <1>9 DEF Valid, s

-----------------------------------------------------------------------------
(* The inductive invariant.                                                *)

(* The results of a scan lie in its buffer, in order.                      *)
InPlace(s) == Fits(s.results, s.size, s.elem)

(* A scan of first_scan: what it found is in the buffer, and answers.      *)
Answering(s) ==
  /\ InPlace(s) /\ Fetched(s.results, s.bytes, s.elem)
  /\ s.type = query.type /\ s.elem = Width
  /\ Searched(s.results, query)

(* first_scan: a future that has a scan has that of its region.            *)
FirstInv ==
  /\ regions \in Layouts /\ query \in QueriesOf(FirstTypes)
  /\ futures \in [DOMAIN regions -> Outcomes]
  /\ \A i \in DOMAIN futures : futures[i][1] = "valid" =>
       /\ futures[i][2].base = regions[i].base /\ futures[i][2].size = regions[i].size
       /\ Answering(futures[i][2])

(* next_scan: what is left in the queue is a part of the list, and lies    *)
(* behind all that was found.                                              *)
WalkInv ==
  /\ target \in Targets /\ query \in QueriesOf(NextTypes)
  /\ regions \in Seq(Range(target.regions)) /\ Sorted(regions)
  /\ \A i \in DOMAIN results, j \in DOMAIN regions : End(results[i]) <= regions[j].base

(* The invariant of a session: the types, the order of both lists, results *)
(* inside the buffers, and what holds in the middle of each call.          *)
SessionInv ==
  /\ TypeOK
  /\ ScansInOrder
  /\ \A s \in Range(scans) \cup Range(results) : InPlace(s)
  /\ call = "first" => FirstInv
  /\ call # "first" => futures = << >>
  /\ call = "walking" => WalkInv
  /\ call # "walking" => idx = 1

(* The invariant holds before the first call.                              *)
LEMMA InitSession == Init => SessionInv
<1> SUFFICES ASSUME Init PROVE SessionInv
  OBVIOUS
<1>1. TypeOK
  BY UpdateAssumption DEF Init, TypeOK
<1>2. ScansInOrder
  BY DEF Init, ScansInOrder, Sorted
<1>3. \A s \in Range(scans) \cup Range(results) : InPlace(s)
  BY DEF Init, Range
<1> QED
  BY <1>1, <1>2, <1>3 DEF Init, SessionInv

(* A query of first_scan or of next_scan is a query.                       *)
LEMMA AnyQuery ==
  /\ QueriesOf(FirstTypes) \subseteq QueriesOf(FirstTypes \cup NextTypes)
  /\ QueriesOf(NextTypes) \subseteq QueriesOf(FirstTypes \cup NextTypes)
  BY DEF QueriesOf

(* first_scan begins with futures that are all pending.                    *)
LEMMA FirstScanStep ==
  ASSUME SessionInv, NEW list \in Layouts, NEW q \in QueriesOf(FirstTypes), FirstScan(list, q)
  PROVE  SessionInv'
<1>1. /\ call = "none" /\ call' = "first" /\ query' = q /\ regions' = list
      /\ futures' = [i \in DOMAIN list |-> <<"pending">>]
      /\ UNCHANGED <<target, scans, idx, results, updated>>
  BY DEF FirstScan
<1>2. list \in Seq(Areas) /\ Len(list) \in Nat /\ DOMAIN list = 1 .. Len(list)
  BY LayoutIs
<1>3. futures' \in [DOMAIN list -> Outcomes]
  BY <1>1 DEF Outcomes
<1>4. TypeOK'
  <2>1. futures' \in Seq(Outcomes)
    BY <1>2, <1>3, SequenceOf
  <2> QED
    BY <1>1, <2>1, AnyQuery DEF SessionInv, TypeOK
<1>5. FirstInv'
  BY <1>1, <1>3 DEF FirstInv
<1>6. ScansInOrder' /\ \A s \in Range(scans') \cup Range(results') : InPlace(s)
  BY <1>1 DEF SessionInv, ScansInOrder
<1> QED
  BY <1>1, <1>4, <1>5, <1>6 DEF SessionInv

(* The scan of a task is one of its region, with results in its buffer.    *)
LEMMA FirstScanFits ==
  ASSUME query \in QueriesOf(FirstTypes), NEW r, r.base \in Nat, r.size \in Nat \ {0},
         NEW bytes \in [1 .. r.size -> Bytes], NEW entries, Fits(entries, r.size, Width),
         Fetched(entries, bytes, Width), Searched(entries, query),
         query.type # "unknown_value" <=> entries # << >>
  PROVE  LET s == Scan(r, query, bytes, entries) IN
         s \in Scans /\ s.base = r.base /\ s.size = r.size /\ Answering(s)
<1> DEFINE s == Scan(r, query, bytes, entries)
<1>1. Width \in Nat \ {0} /\ Width \in Range(ElementSize) /\ query.type \in FirstTypes
  BY WidthIs
<1>2. s = [base |-> r.base, size |-> r.size, type |-> query.type, elem |-> Width,
           bytes |-> bytes, results |-> entries]
  BY DEF Scan, Width
<1> HIDE DEF s
<1>3. bytes \in Seq(Bytes) /\ Len(bytes) = r.size
  BY SequenceOf
<1>4. entries \in Seq(Entries)
  BY DEF Fits
<1>5. s \in Scans
  BY <1>1, <1>2, <1>3, <1>4 DEF Scans, Entries, Types
<1> QED
  BY <1>2, <1>5 DEF InPlace, Answering, s

(* A task ends with what its region allows.                                *)
LEMMA TaskStep ==
  ASSUME SessionInv, NEW i \in DOMAIN futures, Task(i)
  PROVE  SessionInv'
<1>1. call = "first" /\ FirstInv
  BY DEF SessionInv
<1>2. UNCHANGED <<target, scans, call, query, regions, idx, results, updated>>
  BY DEF Task
<1>3. /\ futures \in [DOMAIN regions -> Outcomes] /\ regions \in Layouts
      /\ query \in QueriesOf(FirstTypes)
  BY <1>1 DEF FirstInv
<1>4. /\ regions \in Seq(Areas) /\ DOMAIN regions = 1 .. Len(regions) /\ Len(regions) \in Nat
      /\ regions[i].base \in Nat /\ regions[i].size \in Nat \ {0}
  <2>1. regions[i] \in Range(regions)
    BY <1>3 DEF Range
  <2> QED
    BY <1>3, <2>1, LayoutIs
<1>5. PICK f \in Outcomes :
        /\ futures' = [futures EXCEPT ![i] = f]
        /\ f[1] = "valid" => /\ f[2].base = regions[i].base /\ f[2].size = regions[i].size
                             /\ Answering(f[2])
  <2>1. CASE \E how \in {"invalid", "exception"} : futures' = [futures EXCEPT ![i] = <<how>>]
    <3>1. PICK how \in {"invalid", "exception"} : futures' = [futures EXCEPT ![i] = <<how>>]
      BY <2>1
    <3>2. <<how>> \in Outcomes /\ <<how>>[1] # "valid"
      BY DEF Outcomes
    <3> QED
      BY <3>1, <3>2
  <2>2. ASSUME NEW bytes \in [1 .. regions[i].size -> Bytes],
               NEW entries, entries = SearchValue(bytes, query, ElementSize[query.elem]),
               NEW f, futures' = [futures EXCEPT ![i] = f],
               f = IF query.type = "unknown_value" THEN <<"valid", Scan(regions[i], query, bytes, << >>)>>
                   ELSE IF entries # << >> THEN <<"valid", Scan(regions[i], query, bytes, entries)>>
                   ELSE <<"invalid">>
        PROVE  /\ f \in Outcomes
               /\ f[1] = "valid" => /\ f[2].base = regions[i].base /\ f[2].size = regions[i].size
                                    /\ Answering(f[2])
    <3>1. Width \in Nat \ {0} /\ entries = SearchValue(bytes, query, Width)
      BY <1>3, <2>2, WidthIs DEF Width
    <3>2. Fits(entries, regions[i].size, Width) /\ Fetched(entries, bytes, Width) /\ Searched(entries, query)
      BY <1>4, <3>1, SearchFits
    <3>3. Fits(<< >>, regions[i].size, Width) /\ Fetched(<< >>, bytes, Width) /\ Searched(<< >>, query)
      BY DEF Fits, Fetched, Searched
    <3>4. ASSUME NEW s, s \in Scans, s.base = regions[i].base, s.size = regions[i].size, Answering(s),
                 f = <<"valid", s>>
          PROVE  /\ f \in Outcomes
                 /\ f[2].base = regions[i].base /\ f[2].size = regions[i].size /\ Answering(f[2])
      <4>1. f[2] = s /\ f \in {"valid"} \X Scans
        BY <3>4
      <4> QED
        BY <3>4, <4>1 DEF Outcomes
    <3>5. CASE query.type = "unknown_value"
      BY <1>3, <1>4, <2>2, <3>3, <3>4, <3>5, FirstScanFits
    <3>6. CASE query.type # "unknown_value" /\ entries # << >>
      BY <1>3, <1>4, <2>2, <3>2, <3>4, <3>6, FirstScanFits
    <3>7. CASE query.type # "unknown_value" /\ entries = << >>
      BY <2>2, <3>7 DEF Outcomes
    <3> QED
      BY <3>5, <3>6, <3>7
  <2>3. CASE \E bytes \in [1 .. regions[i].size -> Bytes] :
               LET entries == SearchValue(bytes, query, ElementSize[query.elem]) IN
               futures' = [futures EXCEPT ![i] =
                 IF query.type = "unknown_value" THEN <<"valid", Scan(regions[i], query, bytes, << >>)>>
                 ELSE IF entries # << >> THEN <<"valid", Scan(regions[i], query, bytes, entries)>>
                 ELSE <<"invalid">>]
    BY <2>2, <2>3
  <2> QED
    BY <2>1, <2>3, Zenon DEF Task
<1>6. futures' \in [DOMAIN regions -> Outcomes]
  BY <1>3, <1>5
<1>7. FirstInv'
  <2>1. ASSUME NEW j \in DOMAIN futures', futures'[j][1] = "valid"
        PROVE  /\ futures'[j][2].base = regions[j].base /\ futures'[j][2].size = regions[j].size
               /\ Answering(futures'[j][2])
    <3>1. CASE j = i
      <4>1. futures'[j] = f
        BY <1>5, <3>1
      <4> QED
        BY <1>5, <2>1, <3>1, <4>1
    <3>2. CASE j # i
      <4>1. futures'[j] = futures[j] /\ j \in DOMAIN futures
        BY <1>3, <1>5, <1>6, <3>2
      <4> QED
        BY <1>1, <2>1, <4>1 DEF FirstInv
    <3> QED
      BY <3>1, <3>2
  <2> QED
    BY <1>2, <1>3, <1>6, <2>1 DEF FirstInv, Answering, Width
<1>8. TypeOK'
  <2>1. futures' \in Seq(Outcomes)
    BY <1>4, <1>6, SequenceOf
  <2> QED
    BY <1>2, <2>1 DEF SessionInv, TypeOK
<1>9. ScansInOrder' /\ \A s \in Range(scans') \cup Range(results') : InPlace(s)
  BY <1>2 DEF SessionInv, ScansInOrder
<1> QED
  BY <1>1, <1>2, <1>7, <1>8, <1>9 DEF SessionInv

(* The scans that the tasks returned are in the order of their regions.    *)
LEMMA CollectIs ==
  ASSUME SessionInv, Collect
  PROVE  /\ regions \in Layouts /\ query \in QueriesOf(FirstTypes)
         /\ scans' \in Seq(Scans) /\ Sorted(scans')
         /\ \A s \in Range(scans') :
              /\ Answering(s)
              /\ \E r \in Range(regions) : s.base = r.base /\ s.size = r.size
<1> DEFINE V == {i \in DOMAIN futures : futures[i][1] = "valid"}
           valid == Ascending(V)
           c == Cardinality(V)
           list == [k \in 1 .. c |-> futures[valid[k]][2]]
<1>1. FirstInv
  BY DEF SessionInv, Collect
<1>2. /\ regions \in Layouts /\ futures \in [DOMAIN regions -> Outcomes]
      /\ query \in QueriesOf(FirstTypes)
  BY <1>1 DEF FirstInv
<1>3. DOMAIN regions = 1 .. Len(regions) /\ Len(regions) \in Nat /\ Sorted(regions)
  BY <1>2, LayoutIs
<1>4. /\ c \in Nat /\ valid \in [1 .. c -> V] /\ DOMAIN valid = 1 .. c
      /\ \A i, j \in 1 .. c : i < j => valid[i] < valid[j]
  <2>1. Len(regions) + 1 \in Int /\ V \in SUBSET (0 .. (Len(regions) + 1) - 1)
    BY <1>2, <1>3
  <2> QED
    BY <2>1, AscendingBelow
<1>5. scans' = ByBase(list)
  BY <1>4, Zenon DEF Collect
<1>6. ASSUME NEW i \in V
      PROVE  /\ i \in DOMAIN regions /\ futures[i][2] \in Scans
             /\ futures[i][2].base = regions[i].base /\ futures[i][2].size = regions[i].size
             /\ Answering(futures[i][2])
  <2>1. i \in DOMAIN regions /\ futures[i] \in Outcomes /\ futures[i][1] = "valid"
    BY <1>2
  <2>2. futures[i] \in {"valid"} \X Scans
    BY <2>1 DEF Outcomes
  <2> QED
    BY <1>1, <1>2, <2>1, <2>2 DEF FirstInv
<1> HIDE DEF V, valid, c
<1>7. ASSUME NEW k \in 1 .. c
      PROVE  valid[k] \in V /\ list[k] = futures[valid[k]][2] /\ list[k] \in Scans
  BY <1>4, <1>6
<1>8. list \in Seq(Scans) /\ DOMAIN list = 1 .. c
  BY <1>4, <1>7
<1> HIDE DEF list
<1>9. Sorted(list)
  <2>1. ASSUME NEW i \in 1 .. c, NEW j \in 1 .. c, i < j PROVE End(list[i]) <= list[j].base
    <3>1. End(regions[valid[i]]) <= regions[valid[j]].base
      BY <1>3, <1>4, <1>6, <2>1 DEF Sorted
    <3> QED
      BY <1>6, <1>7, <3>1 DEF End
  <2> QED
    BY <1>8, <2>1 DEF Sorted
<1>10. scans' \in Seq(Scans) /\ Sorted(scans') /\ Range(scans') = Range(list)
  BY <1>5, <1>8, <1>9, ByBaseOrders
<1>11. ASSUME NEW s \in Range(scans')
       PROVE  /\ Answering(s)
              /\ \E r \in Range(regions) : s.base = r.base /\ s.size = r.size
  <2>1. PICK k \in 1 .. c : s = list[k]
    BY <1>8, <1>10 DEF Range
  <2>2. valid[k] \in V /\ s = futures[valid[k]][2]
    BY <1>7, <2>1
  <2>3. regions[valid[k]] \in Range(regions)
    BY <1>6, <2>2 DEF Range
  <2> QED
    BY <1>6, <2>2, <2>3
<1> QED
  BY <1>2, <1>10, <1>11

(* So the session goes on with scans that are sorted.                      *)
LEMMA CollectStep ==
  ASSUME SessionInv, Collect
  PROVE  SessionInv'
<1>1. /\ call = "first" /\ call' = "idle" /\ query' = NoQuery /\ futures' = << >>
      /\ UNCHANGED <<target, idx, results, updated>>
  BY DEF Collect, Leave
<1>2. scans' \in Seq(Scans) /\ Sorted(scans') /\ \A s \in Range(scans') : InPlace(s)
  BY CollectIs DEF Answering
<1>3. TypeOK'
  <2>1. idx' = 1 /\ Len(scans') \in Nat
    BY <1>1, <1>2 DEF SessionInv
  <2> QED
    BY <1>1, <1>2, <2>1 DEF SessionInv, TypeOK
<1>4. ScansInOrder'
  BY <1>1, <1>2 DEF SessionInv, ScansInOrder
<1>5. \A s \in Range(results') : InPlace(s)
  BY <1>1 DEF SessionInv
<1> QED
  BY <1>1, <1>2, <1>3, <1>4, <1>5 DEF SessionInv

(* A first_scan that throws leaves the session as it was.                  *)
LEMMA ThrowStep ==
  ASSUME SessionInv, Throw
  PROVE  SessionInv'
<1>1. /\ call = "first" /\ call' = "none" /\ query' = NoQuery /\ futures' = << >>
      /\ UNCHANGED <<target, scans, idx, results, updated>>
  BY DEF Throw, Leave
<1>2. TypeOK'
  BY <1>1 DEF SessionInv, TypeOK
<1>3. ScansInOrder' /\ \A s \in Range(scans') \cup Range(results') : InPlace(s)
  BY <1>1 DEF SessionInv, ScansInOrder
<1> QED
  BY <1>1, <1>2, <1>3 DEF SessionInv

(* next_scan begins at the front of both lists.                            *)
LEMMA NextScanStep ==
  ASSUME SessionInv, NEW t \in Targets, NEW q \in QueriesOf(NextTypes), NextScan(t, q)
  PROVE  SessionInv'
<1>1. /\ call = "idle" /\ call' = "walking" /\ target' = t /\ query' = q /\ regions' = t.regions
      /\ idx' = 1 /\ results' = << >> /\ updated' = 0
      /\ UNCHANGED <<scans, futures>>
  BY DEF NextScan
<1>2. t.regions \in Seq(Areas) /\ Sorted(t.regions)
  BY TargetIs, LayoutIs
<1>3. t.regions \in Seq(Range(t.regions))
  <2>1. DOMAIN t.regions = 1 .. Len(t.regions) /\ Len(t.regions) \in Nat
    BY <1>2
  <2>2. t.regions \in [1 .. Len(t.regions) -> Range(t.regions)]
    BY <1>2, <2>1 DEF Range
  <2> QED
    BY <2>1, <2>2, SequenceOf
<1>4. WalkInv'
  BY <1>1, <1>2, <1>3 DEF WalkInv
<1>5. TypeOK'
  <2>1. Len(scans) \in Nat /\ TypeOK
    BY DEF SessionInv, TypeOK
  <2>2. idx' \in 1 .. Len(scans') + 1 /\ updated' \in 0 .. MaxUpdates
    BY <1>1, <2>1, UpdateAssumption
  <2>3. query' \in QueriesOf(FirstTypes \cup NextTypes)
    BY <1>1, AnyQuery
  <2> QED
    BY <1>1, <2>1, <2>2, <2>3 DEF TypeOK
<1>6. ScansInOrder' /\ \A s \in Range(scans') \cup Range(results') : InPlace(s)
  BY <1>1 DEF SessionInv, ScansInOrder, Sorted, Range
<1> QED
  BY <1>1, <1>4, <1>5, <1>6 DEF SessionInv

(* What is left of a queue that lost its front.                            *)
LEMMA TailInOrder ==
  ASSUME NEW X, NEW list \in Seq(X), list # << >>, Sorted(list)
  PROVE  /\ Head(list) \in X /\ Tail(list) \in Seq(X) /\ Sorted(Tail(list))
         /\ \A j \in DOMAIN Tail(list) : j + 1 \in DOMAIN list /\ Tail(list)[j] = list[j + 1]
         /\ \A j \in DOMAIN Tail(list) : End(Head(list)) <= Tail(list)[j].base
<1>1. /\ Head(list) \in X /\ Tail(list) \in Seq(X) /\ Head(list) = list[1] /\ 1 \in DOMAIN list
      /\ \A j \in DOMAIN Tail(list) : j + 1 \in DOMAIN list /\ Tail(list)[j] = list[j + 1]
      /\ DOMAIN Tail(list) \subseteq Nat \ {0}
  OBVIOUS
<1>2. ASSUME NEW i \in DOMAIN Tail(list), NEW j \in DOMAIN Tail(list), i < j
      PROVE  End(Tail(list)[i]) <= Tail(list)[j].base
  <2>1. i + 1 \in DOMAIN list /\ j + 1 \in DOMAIN list /\ i + 1 < j + 1
    BY <1>1, <1>2
  <2> QED
    BY <1>1, <2>1 DEF Sorted
<1>3. ASSUME NEW j \in DOMAIN Tail(list) PROVE End(Head(list)) <= Tail(list)[j].base
  <2>1. j + 1 \in DOMAIN list /\ 1 < j + 1
    BY <1>1
  <2> QED
    BY <1>1, <2>1 DEF Sorted
<1> QED
  BY <1>1, <1>2, <1>3 DEF Sorted

(* A region or a scan is passed by.                                        *)
LEMMA SkipStep ==
  ASSUME SessionInv, SkipRegion \/ SkipScan
  PROVE  SessionInv'
<1>1. /\ call = "walking" /\ call' = "walking" /\ idx <= Len(scans) /\ regions # << >>
      /\ UNCHANGED <<target, scans, query, futures, results, updated>>
  BY DEF SkipRegion, SkipScan, Walking
<1>2. WalkInv
  BY <1>1 DEF SessionInv
<1>3. idx' \in {idx, idx + 1} /\ regions' \in {regions, Tail(regions)}
  BY DEF SkipRegion, SkipScan
<1>4. TypeOK'
  <2>1. idx \in Nat \ {0} /\ Len(scans) \in Nat
    BY DEF SessionInv, TypeOK
  <2>2. idx' \in 1 .. Len(scans) + 1
    BY <1>1, <1>3, <2>1
  <2> QED
    BY <1>1, <2>2 DEF SessionInv, TypeOK
<1>5. WalkInv'
  <2>1. CASE regions' = regions
    BY <1>1, <1>2, <2>1 DEF WalkInv
  <2>2. CASE regions' = Tail(regions)
    <3>1. /\ regions \in Seq(Range(target.regions)) /\ Sorted(regions)
      BY <1>2 DEF WalkInv
    <3>2. /\ Tail(regions) \in Seq(Range(target.regions)) /\ Sorted(Tail(regions))
          /\ \A j \in DOMAIN Tail(regions) : j + 1 \in DOMAIN regions /\ Tail(regions)[j] = regions[j + 1]
      BY <1>1, <3>1, TailInOrder
    <3> QED
      BY <1>1, <1>2, <2>2, <3>2 DEF WalkInv
  <2> QED
    BY <1>3, <2>1, <2>2
<1>6. ScansInOrder' /\ \A s \in Range(scans') \cup Range(results') : InPlace(s)
  BY <1>1 DEF SessionInv, ScansInOrder
<1> QED
  BY <1>1, <1>4, <1>5, <1>6 DEF SessionInv

(* What is known of the region and the scan when a region is read.         *)
LEMMA ConsumeIs ==
  ASSUME SessionInv, Consume
  PROVE  LET r == Head(regions)
             p == scans[idx]
             s == Narrowed(r, p)
         IN  /\ call = "walking" /\ idx \in DOMAIN scans /\ regions # << >>
             /\ p \in Range(scans) /\ p \in Scans /\ InPlace(p)
             /\ p.base < End(r) /\ r.base < End(p)
             /\ target \in Targets /\ query \in QueriesOf(NextTypes)
             /\ target' = target /\ query' = query
             /\ regions' = Tail(regions) /\ scans' = scans
             /\ results' = IF r \in target.readable /\ Valid(s) THEN Append(results, s)
                           ELSE results
<1> DEFINE r == Head(regions)
           p == scans[idx]
<1>1. /\ call = "walking" /\ idx <= Len(scans) /\ regions # << >>
      /\ p.base < End(r) /\ r.base < End(p) /\ regions' = Tail(regions)
      /\ UNCHANGED <<target, scans, query>>
  BY DEF Consume, Overlap, Walking
<1>2. WalkInv /\ TypeOK
  BY <1>1 DEF SessionInv
<1>3. idx \in DOMAIN scans /\ scans \in Seq(Scans)
  BY <1>1, <1>2 DEF TypeOK
<1>4. p \in Range(scans) /\ p \in Scans /\ InPlace(p)
  BY <1>3 DEF SessionInv, Range
<1> QED
  BY <1>1, <1>2, <1>3, <1>4 DEF WalkInv, Consume

(* What is found in a region is appended, and lies behind all that was     *)
(* found before.                                                           *)
LEMMA ConsumeStep ==
  ASSUME SessionInv, Consume
  PROVE  SessionInv'
<1> DEFINE r == Head(regions)
           p == scans[idx]
           s == Narrowed(r, p)
<1>1. /\ call = "walking" /\ call' = "walking" /\ idx <= Len(scans) /\ regions # << >>
      /\ p.base < End(r) /\ r.base < End(p) /\ regions' = Tail(regions)
      /\ UNCHANGED <<target, scans, query, futures, idx, updated>>
  BY DEF Consume, Overlap, Walking
<1>2. results' = IF r \in target.readable /\ Valid(s) THEN Append(results, s) ELSE results
  BY DEF Consume
<1>3. WalkInv /\ TypeOK /\ ScansInOrder
  BY <1>1 DEF SessionInv
<1>4. /\ target \in Targets /\ query \in QueriesOf(NextTypes)
      /\ regions \in Seq(Range(target.regions)) /\ Sorted(regions)
  BY <1>3 DEF WalkInv
<1>5. /\ r \in Range(target.regions) /\ Tail(regions) \in Seq(Range(target.regions))
      /\ Sorted(Tail(regions)) /\ r = regions[1] /\ 1 \in DOMAIN regions
      /\ \A j \in DOMAIN Tail(regions) : j + 1 \in DOMAIN regions /\ Tail(regions)[j] = regions[j + 1]
      /\ \A j \in DOMAIN Tail(regions) : End(r) <= Tail(regions)[j].base
  BY <1>1, <1>4, TailInOrder
<1>6. p \in Scans /\ InPlace(p) /\ scans \in Seq(Scans) /\ results \in Seq(Scans)
  <2>1. idx \in DOMAIN scans /\ scans \in Seq(Scans) /\ results \in Seq(Scans)
    BY <1>1, <1>3 DEF TypeOK
  <2> QED
    BY <2>1 DEF SessionInv, Range
<1> HIDE DEF r, p, s
<1>7. CASE r \in target.readable /\ Valid(s)
  <2>1. s.base = r.base /\ End(s) = End(r) /\ s \in Scans /\ InPlace(s)
    BY <1>1, <1>4, <1>6, <1>7, NarrowedFits DEF s, InPlace, End
  <2>2. results' = Append(results, s)
    BY <1>2, <1>7
  <2>3. /\ results' \in Seq(Scans) /\ DOMAIN results' = 1 .. Len(results) + 1
        /\ Len(results) \in Nat /\ results'[Len(results) + 1] = s
        /\ \A i \in 1 .. Len(results) : i \in DOMAIN results /\ results'[i] = results[i]
    BY <1>6, <2>1, <2>2
  <2>4. \A i \in DOMAIN results : End(results[i]) <= s.base
    BY <1>3, <1>5, <2>1 DEF WalkInv
  <2>5. Sorted(results')
    <3>1. ASSUME NEW i \in DOMAIN results', NEW j \in DOMAIN results', i < j
          PROVE  End(results'[i]) <= results'[j].base
      <4>1. i \in 1 .. Len(results) /\ i \in DOMAIN results /\ results'[i] = results[i]
        BY <2>3, <3>1
      <4>2. CASE j = Len(results) + 1
        BY <2>3, <2>4, <4>1, <4>2
      <4>3. CASE j # Len(results) + 1
        <5>1. j \in DOMAIN results /\ results'[j] = results[j]
          BY <2>3, <4>3
        <5> QED
          BY <1>3, <3>1, <4>1, <5>1 DEF ScansInOrder, Sorted
      <4> QED
        BY <4>2, <4>3
    <3> QED
      BY <3>1 DEF Sorted
  <2>6. \A i \in DOMAIN results', j \in DOMAIN Tail(regions) :
          End(results'[i]) <= Tail(regions)[j].base
    <3>1. ASSUME NEW i \in DOMAIN results', NEW j \in DOMAIN Tail(regions)
          PROVE  End(results'[i]) <= Tail(regions)[j].base
      <4>1. CASE i = Len(results) + 1
        BY <1>5, <2>1, <2>3, <4>1
      <4>2. CASE i # Len(results) + 1
        <5>1. i \in DOMAIN results /\ results'[i] = results[i]
          BY <2>3, <4>2
        <5> QED
          BY <1>3, <1>5, <5>1 DEF WalkInv
      <4> QED
        BY <4>1, <4>2
    <3> QED
      BY <3>1
  <2>7. Range(results') \subseteq Range(results) \cup {s}
    BY <2>3 DEF Range
  <2>8. TypeOK'
    BY <1>1, <1>3, <2>3 DEF TypeOK
  <2>9. WalkInv'
    BY <1>1, <1>4, <1>5, <2>6 DEF WalkInv
  <2>10. \A z \in Range(scans') \cup Range(results') : InPlace(z)
    BY <1>1, <2>1, <2>7 DEF SessionInv
  <2> QED
    BY <1>1, <1>3, <2>5, <2>8, <2>9, <2>10 DEF SessionInv, ScansInOrder
<1>8. CASE ~ (r \in target.readable /\ Valid(s))
  <2>1. results' = results
    BY <1>2, <1>8
  <2>2. WalkInv'
    BY <1>1, <1>3, <1>5, <2>1 DEF WalkInv
  <2>3. TypeOK' /\ ScansInOrder' /\ \A z \in Range(scans') \cup Range(results') : InPlace(z)
    BY <1>1, <1>3, <2>1 DEF SessionInv, TypeOK, ScansInOrder
  <2> QED
    BY <1>1, <2>2, <2>3 DEF SessionInv
<1> QED
  BY <1>7, <1>8

(* The results become the caller's scans.                                  *)
LEMMA ReturnStep ==
  ASSUME SessionInv, Return
  PROVE  SessionInv'
<1>1. /\ call = "walking" /\ call' = "idle" /\ scans' = ByBase(results) /\ target' = NoTarget
      /\ query' = NoQuery /\ futures' = << >> /\ idx' = 1 /\ results' = << >> /\ updated' = updated
  BY DEF Return, Leave
<1>2. TypeOK /\ Sorted(results) /\ results \in Seq(Scans)
  BY DEF SessionInv, ScansInOrder, TypeOK
<1>3. scans' \in Seq(Scans) /\ Sorted(scans') /\ Range(scans') = Range(results)
  BY <1>1, <1>2, ByBaseOrders
<1>4. TypeOK'
  <2>1. Len(scans') \in Nat
    BY <1>3
  <2> QED
    BY <1>1, <1>2, <1>3, <2>1 DEF TypeOK
<1>5. ScansInOrder'
  BY <1>1, <1>3 DEF ScansInOrder, Sorted
<1>6. \A s \in Range(scans') \cup Range(results') : InPlace(s)
  BY <1>1, <1>3 DEF SessionInv, Range
<1> QED
  BY <1>1, <1>4, <1>5, <1>6 DEF SessionInv

(* An exception takes the locals of the call with it.                      *)
LEMMA AbortStep ==
  ASSUME SessionInv, Abort
  PROVE  SessionInv'
<1>1. /\ call' = "idle" /\ target' = NoTarget /\ query' = NoQuery /\ futures' = << >>
      /\ idx' = 1 /\ results' = << >> /\ scans' = scans /\ updated' = updated
  BY DEF Abort, Leave
<1>2. TypeOK /\ Sorted(scans)
  BY DEF SessionInv, ScansInOrder
<1>3. TypeOK'
  <2>1. Len(scans) \in Nat
    BY <1>2 DEF TypeOK
  <2> QED
    BY <1>1, <1>2, <2>1 DEF TypeOK
<1>4. ScansInOrder'
  BY <1>1, <1>2 DEF ScansInOrder, Sorted
<1>5. \A s \in Range(scans') \cup Range(results') : InPlace(s)
  BY <1>1 DEF SessionInv, Range
<1> QED
  BY <1>1, <1>3, <1>4, <1>5 DEF SessionInv

(* The scan that scan::update leaves.                                      *)
Updated(s, bytes) ==
  [s EXCEPT !.bytes = bytes,
            !.results = [k \in DOMAIN s.results |->
               [s.results[k] EXCEPT !.value = ValueAt(bytes, s.results[k].index * s.elem, s.elem)]]]

(* It is the scan as it was, with the values that are in the buffer now.   *)
LEMMA UpdatedFits ==
  ASSUME NEW s \in Scans, InPlace(s), NEW bytes \in [1 .. s.size -> Bytes]
  PROVE  LET u == Updated(s, bytes) IN
         /\ u \in Scans /\ InPlace(u) /\ Fetched(u.results, u.bytes, u.elem)
         /\ u.base = s.base /\ u.size = s.size /\ u.type = s.type /\ u.elem = s.elem
         /\ u.bytes = bytes /\ DOMAIN u.results = DOMAIN s.results
         /\ \A k \in DOMAIN s.results : /\ u.results[k].index = s.results[k].index
                                        /\ u.results[k].snapshot = s.results[k].snapshot
<1> DEFINE At(k) == ValueAt(bytes, s.results[k].index * s.elem, s.elem)
           new == [k \in DOMAIN s.results |-> [s.results[k] EXCEPT !.value = At(k)]]
           u == Updated(s, bytes)
<1>1. /\ s.base \in Nat /\ s.size \in Nat \ {0} /\ s.elem \in Nat \ {0}
      /\ s.results \in Seq(Entries) /\ s.type # "unknown_value" <=> s.results # << >>
  BY ScanFields
<1>2. u = [base |-> s.base, size |-> s.size, type |-> s.type, elem |-> s.elem,
           bytes |-> bytes, results |-> new]
  <2>1. \A x : [s EXCEPT !.bytes = bytes, !.results = x] =
                 [base |-> s.base, size |-> s.size, type |-> s.type, elem |-> s.elem,
                  bytes |-> bytes, results |-> x]
    <3> DEFINE Fields == {"base", "size", "type", "elem", "bytes", "results"}
    <3>1. s = [f \in Fields |-> s[f]]
      BY DEF Scans
    <3>2. ASSUME NEW x
          PROVE  [s EXCEPT !.bytes = bytes, !.results = x] =
                   [f \in Fields |-> IF f = "results" THEN x ELSE IF f = "bytes" THEN bytes ELSE s[f]]
      BY <3>1
    <3>3. ASSUME NEW x
          PROVE  [f \in Fields |-> IF f = "results" THEN x ELSE IF f = "bytes" THEN bytes ELSE s[f]] =
                   [base |-> s.base, size |-> s.size, type |-> s.type, elem |-> s.elem,
                    bytes |-> bytes, results |-> x]
      OBVIOUS
    <3> QED
      BY <3>2, <3>3
  <2>2. u = [s EXCEPT !.bytes = bytes, !.results = new]
    BY Zenon DEF Updated
  <2> HIDE DEF u, new
  <2> QED
    BY <2>1, <2>2
<1>3. ASSUME NEW k \in DOMAIN s.results PROVE At(k) \in Words /\ s.results[k] \in Entries
  <2>1. s.results[k] \in Entries /\ s.results[k].index \in Nat
    <3>1. s.results[k] \in Entries
      BY <1>1
    <3> QED
      BY <3>1 DEF Entries
  <2>2. /\ s.results[k].index * s.elem \in Nat
        /\ s.results[k].index * s.elem + s.elem <= s.size
    BY <1>1, <2>1, NextProduct DEF InPlace, Fits
  <2> QED
    BY <1>1, <2>1, <2>2, ElementIsWord
<1> HIDE DEF u, At
<1>4. ASSUME NEW k \in DOMAIN s.results
      PROVE  /\ new[k] \in Entries /\ new[k].index = s.results[k].index
             /\ new[k].snapshot = s.results[k].snapshot /\ new[k].value = At(k)
  BY <1>3 DEF Entries
<1>5. new \in Seq(Entries) /\ DOMAIN new = DOMAIN s.results /\ (new # << >> <=> s.results # << >>)
  <2>1. Len(s.results) \in Nat /\ DOMAIN s.results = 1 .. Len(s.results)
    BY <1>1
  <2>2. new \in [1 .. Len(s.results) -> Entries]
    BY <1>4, <2>1
  <2> HIDE DEF new
  <2>3. new \in Seq(Entries) /\ Len(new) = Len(s.results) /\ DOMAIN new = DOMAIN s.results
    BY <2>1, <2>2, SequenceOf
  <2> QED
    BY <1>1, <2>1, <2>3
<1> HIDE DEF new
<1>6. bytes \in Seq(Bytes) /\ Len(bytes) = s.size
  BY <1>1, SequenceOf
<1>7. u \in Scans
  <2>1. s.elem \in Range(ElementSize) /\ s.type \in Types
    BY DEF Scans
  <2> QED
    BY <1>1, <1>2, <1>5, <1>6, <2>1 DEF Scans, Entries
<1>8. InPlace(u)
  <2>1. Fits(s.results, s.size, s.elem)
    BY DEF InPlace
  <2>2. Fits(new, s.size, s.elem)
    BY <1>4, <1>5, <2>1 DEF Fits
  <2> QED
    BY <1>2, <2>2 DEF InPlace
<1>9. Fetched(u.results, u.bytes, u.elem)
  BY <1>2, <1>4, <1>5 DEF Fetched, At
<1> QED
  BY <1>2, <1>4, <1>5, <1>7, <1>8, <1>9 DEF u

(* What scan::update does to the caller's vector.                          *)
LEMMA UpdateIs ==
  ASSUME SessionInv, NEW i \in DOMAIN scans, NEW bytes \in [1 .. scans[i].size -> Bytes], Update(i, bytes)
  PROVE  /\ scans[i] \in Scans /\ InPlace(scans[i])
         /\ scans' = [scans EXCEPT ![i] = Updated(scans[i], bytes)]
         /\ scans' \in Seq(Scans) /\ DOMAIN scans' = DOMAIN scans /\ Len(scans') = Len(scans)
<1>1. scans \in Seq(Scans)
  BY DEF SessionInv, TypeOK
<1>2. scans[i] \in Scans /\ InPlace(scans[i])
  BY <1>1 DEF SessionInv, Range
<1>3. scans' = [scans EXCEPT ![i] = Updated(scans[i], bytes)]
  BY <1>1 DEF Update, Updated
<1>4. Updated(scans[i], bytes) \in Scans
  BY <1>2, UpdatedFits
<1> QED
  BY <1>1, <1>2, <1>3, <1>4

(* An update changes no scan's place, and leaves its results where they    *)
(* are.                                                                    *)
LEMMA UpdateStep ==
  ASSUME SessionInv, NEW i \in DOMAIN scans, NEW bytes \in [1 .. scans[i].size -> Bytes], Update(i, bytes)
  PROVE  SessionInv'
<1>1. /\ call = "idle" /\ updated < MaxUpdates /\ updated' = updated + 1
      /\ UNCHANGED <<target, call, query, futures, regions, idx, results>>
  BY DEF Update
<1>2. /\ scans[i] \in Scans /\ InPlace(scans[i])
      /\ scans' = [scans EXCEPT ![i] = Updated(scans[i], bytes)]
      /\ scans' \in Seq(Scans) /\ DOMAIN scans' = DOMAIN scans /\ Len(scans') = Len(scans)
  BY UpdateIs
<1>3. /\ Updated(scans[i], bytes).base = scans[i].base
      /\ Updated(scans[i], bytes).size = scans[i].size /\ InPlace(Updated(scans[i], bytes))
  BY <1>2, UpdatedFits
<1>4. TypeOK'
  <2>1. TypeOK /\ updated' \in 0 .. MaxUpdates
    BY <1>1, UpdateAssumption DEF SessionInv, TypeOK
  <2> QED
    BY <1>1, <1>2, <2>1 DEF TypeOK
<1>5. \A j \in DOMAIN scans' : scans'[j].base = scans[j].base /\ End(scans'[j]) = End(scans[j])
  BY <1>2, <1>3 DEF End
<1>6. ScansInOrder'
  BY <1>1, <1>2, <1>5 DEF SessionInv, ScansInOrder, Sorted
<1>7. \A s \in Range(scans') \cup Range(results') : InPlace(s)
  <2>1. Range(scans') \subseteq Range(scans) \cup {Updated(scans[i], bytes)}
    BY <1>2 DEF Range
  <2> QED
    BY <1>1, <1>3, <2>1 DEF SessionInv
<1> QED
  BY <1>1, <1>4, <1>6, <1>7 DEF SessionInv

(* Every step keeps the invariant.                                         *)
LEMMA SessionStep == SessionInv /\ [Next]_vars => SessionInv'
<1> SUFFICES ASSUME SessionInv, [Next]_vars PROVE SessionInv'
  OBVIOUS
<1>1. CASE \E list \in Layouts : \E q \in QueriesOf(FirstTypes) : FirstScan(list, q)
  BY <1>1, FirstScanStep
<1>2. CASE \E i \in DOMAIN futures : Task(i)
  BY <1>2, TaskStep
<1>3. CASE \E t \in Targets : \E q \in QueriesOf(NextTypes) : NextScan(t, q)
  BY <1>3, NextScanStep
<1>4. CASE CallerStep \/ Abort
  BY <1>4, CollectStep, ThrowStep, SkipStep, ConsumeStep, ReturnStep, AbortStep DEF CallerStep
<1>5. CASE \E i \in DOMAIN scans : \E bytes \in [1 .. scans[i].size -> Bytes] : Update(i, bytes)
  BY <1>5, UpdateStep
<1>6. CASE UNCHANGED vars
  BY <1>6 DEF vars, SessionInv, TypeOK, ScansInOrder, FirstInv, WalkInv, Answering, Width
<1> QED
  BY <1>1, <1>2, <1>3, <1>4, <1>5, <1>6 DEF Next

(* The invariant holds in every state of the session.                      *)
THEOREM SessionInvariant == Spec => []SessionInv
  BY InitSession, SessionStep, PTL DEF Spec

(* The variables keep their types; in particular every scan that is kept   *)
(* has results or is one of unknown values, and every value is a word.     *)
THEOREM SessionTypes == Spec => []TypeOK
<1>1. SessionInv => TypeOK
  BY DEF SessionInv
<1> QED
  BY <1>1, SessionInvariant, PTL

(* The scans that a call returns are sorted and lie apart, whatever the    *)
(* target does: next_scan, which walks along them, can rely on it.         *)
THEOREM ScansSorted == Spec => []ScansInOrder
<1>1. SessionInv => ScansInOrder
  BY DEF SessionInv
<1> QED
  BY <1>1, SessionInvariant, PTL

-----------------------------------------------------------------------------
(* Results are in the buffer.                                              *)

(* Scans begin and end on elements as regions do, and their values are in  *)
(* their buffers.                                                          *)
BufferInv ==
  \A s \in Range(scans) \cup Range(results) :
    OnBoundary(s) /\ Fetched(s.results, s.bytes, s.elem)

(* Every step keeps it.                                                    *)
LEMMA BufferStep ==
  ASSUME OnElements, SessionInv, BufferInv, [Next]_vars
  PROVE  BufferInv'
<1>1. ASSUME UNCHANGED <<scans, results>> PROVE BufferInv'
  BY <1>1 DEF BufferInv
<1>2. ASSUME NEW t \in Targets, NEW q, NextScan(t, q) PROVE BufferInv'
  <2>1. scans' = scans /\ Range(results') = {}
    BY <1>2 DEF NextScan, Range
  <2> QED
    BY <2>1 DEF BufferInv
<1>3. CASE Collect
  <2>1. results' = results
    BY <1>3 DEF Collect
  <2>2. ASSUME NEW s \in Range(scans') PROVE OnBoundary(s) /\ Fetched(s.results, s.bytes, s.elem)
    <3>1. Answering(s) /\ \E r \in Range(regions) : s.base = r.base /\ s.size = r.size
      BY <1>3, CollectIs
    <3>2. regions \in Layouts
      BY <1>3, CollectIs
    <3> QED
      BY <3>1, <3>2 DEF OnElements, OnBoundary, Answering
  <2> QED
    BY <2>1, <2>2 DEF BufferInv
<1>4. CASE Consume
  <2> DEFINE r == Head(regions)
             p == scans[idx]
             s == Narrowed(r, p)
  <2>1. /\ p \in Range(scans) /\ p \in Scans /\ InPlace(p) /\ scans' = scans
        /\ p.base < End(r) /\ r.base < End(p)
        /\ target \in Targets /\ query \in QueriesOf(NextTypes)
        /\ results' = IF r \in target.readable /\ Valid(s) THEN Append(results, s) ELSE results
    BY <1>4, ConsumeIs
  <2> HIDE DEF r, p
  <2>2. CASE r \in target.readable /\ Valid(s)
    <3>1. OnBoundary(r)
      <4>1. r \in Range(target.regions) /\ target.regions \in Layouts
        BY <2>1, <2>2, TargetIs
      <4> QED
        BY <4>1 DEF OnElements
    <3>2. Width \in Range(ElementSize)
      BY <2>1, WidthIs
    <3>3. r.base % Width = 0 /\ p.base % Width = 0
      BY <2>1, <3>1, <3>2 DEF BufferInv, OnBoundary
    <3>4. /\ s.base = r.base /\ s.size = r.size
          /\ Fetched(s.results, s.bytes, s.elem)
      BY <2>1, <2>2, <3>3, NarrowedFits DEF InPlace
    <3> HIDE DEF s
    <3>5. Range(results') \subseteq Range(results) \cup {s}
      <4>1. results \in Seq(Scans)
        BY DEF SessionInv, TypeOK
      <4>2. results' = Append(results, s)
        BY <2>1, <2>2
      <4> QED
        BY <4>1, <4>2 DEF Range
    <3> QED
      BY <2>1, <3>1, <3>4, <3>5 DEF BufferInv, OnBoundary
  <2>3. CASE ~ (r \in target.readable /\ Valid(s))
    BY <1>1, <2>1, <2>3
  <2> QED
    BY <2>2, <2>3
<1>5. CASE Return
  <2>1. results \in Seq(Scans) /\ Sorted(results) /\ scans' = ByBase(results) /\ results' = << >>
    BY <1>5 DEF SessionInv, ScansInOrder, TypeOK, Return
  <2>2. Range(scans') = Range(results) /\ Range(results') = {}
    <3>1. Range(scans') = Range(results)
      BY <2>1, ByBaseOrders
    <3>2. Range(results') = {}
      BY <2>1 DEF Range
    <3> QED
      BY <3>1, <3>2
  <2> QED
    BY <2>2 DEF BufferInv
<1>6. ASSUME NEW i \in DOMAIN scans, NEW bytes \in [1 .. scans[i].size -> Bytes], Update(i, bytes)
      PROVE  BufferInv'
  <2>1. /\ scans[i] \in Scans /\ InPlace(scans[i])
        /\ scans' = [scans EXCEPT ![i] = Updated(scans[i], bytes)] /\ results' = results
    BY <1>6, UpdateIs DEF Update
  <2> DEFINE u == Updated(scans[i], bytes)
  <2>2. Fetched(u.results, u.bytes, u.elem) /\ u.base = scans[i].base /\ u.size = scans[i].size
    BY <2>1, UpdatedFits
  <2> HIDE DEF u
  <2>3. OnBoundary(u)
    BY <2>2 DEF BufferInv, OnBoundary, Range
  <2>4. Range(scans') \subseteq Range(scans) \cup {u}
    BY <2>1 DEF Range, u
  <2> QED
    BY <2>1, <2>2, <2>3, <2>4 DEF BufferInv
<1>7. ASSUME NEW i \in DOMAIN futures, Task(i) PROVE UNCHANGED <<scans, results>>
  BY <1>7 DEF Task
<1>8. ASSUME NEW list, NEW q, FirstScan(list, q) PROVE UNCHANGED <<scans, results>>
  BY <1>8 DEF FirstScan
<1>9. CASE Throw \/ SkipRegion \/ SkipScan \/ UNCHANGED vars
  BY <1>1, <1>9 DEF Throw, SkipRegion, SkipScan, vars
<1>10. CASE Abort
  <2>1. scans' = scans /\ Range(results') = {}
    BY <1>10 DEF Abort, Range
  <2> QED
    BY <2>1 DEF BufferInv
<1> QED
  BY <1>1, <1>2, <1>3, <1>4, <1>5, <1>6, <1>7, <1>8, <1>9, <1>10 DEF Next, CallerStep

(* Every result is an element inside the buffer of its scan, with the value*)
(* the buffer has there, also after scan::update, and no element is there  *)
(* twice, if regions begin and end on elements.                            *)
THEOREM ResultsStayInBuffer == OnElements /\ Spec => []ResultsInBuffer
<1> SUFFICES ASSUME OnElements PROVE Spec => []ResultsInBuffer
  OBVIOUS
<1>1. Init => BufferInv
  BY DEF Init, BufferInv, Range
<1>2. SessionInv /\ BufferInv /\ [Next]_vars => BufferInv'
  BY BufferStep
<1>3. SessionInv /\ BufferInv => ResultsInBuffer
  <2> SUFFICES ASSUME SessionInv, BufferInv, NEW s \in Range(scans) \cup Range(results)
               PROVE  /\ \A k \in DOMAIN s.results :
                           /\ (s.results[k].index + 1) * s.elem <= s.size
                           /\ s.results[k].value = ValueAt(s.bytes, s.results[k].index * s.elem, s.elem)
                      /\ \A k, n \in DOMAIN s.results :
                           k < n => s.results[k].index < s.results[n].index
    BY DEF ResultsInBuffer
  <2>1. Fits(s.results, s.size, s.elem) /\ Fetched(s.results, s.bytes, s.elem)
    BY DEF SessionInv, BufferInv, InPlace
  <2> QED
    BY <2>1 DEF Fits, Fetched
<1> QED
  BY <1>1, <1>2, <1>3, SessionInvariant, PTL DEF Spec

-----------------------------------------------------------------------------
(* What a search finds, by address.                                        *)

(* Products by a width, added up.                                          *)
LEMMA Multiples ==
  ASSUME NEW W \in Nat \ {0}, NEW x \in Int, NEW y \in Int
  PROVE  /\ x * W \in Int /\ y * W \in Int
         /\ (x + y) * W = x * W + y * W
         /\ (x - y) * W = x * W - y * W
         /\ x <= y <=> x * W <= y * W
         /\ x = y <=> x * W = y * W
         /\ (x * W) \div W = x
  BY Z3

(* A number of elements fits where its product does.                       *)
LEMMA QuotientIsMost ==
  ASSUME NEW W \in Nat \ {0}, NEW x \in Int, NEW y \in Nat
  PROVE  x * W <= y <=> x <= y \div W
<1>1. /\ y \div W \in Nat /\ (y \div W) * W <= y /\ y < (y \div W) * W + W
      /\ (y \div W) * W \in Int
  BY Quotient, Multiples
<1>2. x * W \in Int /\ (x <= y \div W <=> x * W <= (y \div W) * W)
  BY <1>1, Multiples
<1>3. (y \div W + 1) * W = (y \div W) * W + W
  BY <1>1, NextProduct
<1>4. x > y \div W => x * W >= (y \div W + 1) * W
  <2>1. y \div W + 1 <= x <=> (y \div W + 1) * W <= x * W
    BY <1>1, Multiples
  <2> QED
    BY <1>1, <1>2, <2>1
<1> HIDE DEF Quotient
<1> QED
  BY <1>1, <1>2, <1>3, <1>4

(* A region and an old scan that begin on elements begin to overlap on one.*)
LEMMA OverlapOnElement ==
  ASSUME NEW W \in Nat \ {0}, NEW a \in Nat, NEW b \in Nat, a % W = 0, b % W = 0
  PROVE  /\ a \div W \in Nat /\ b \div W \in Nat /\ Larger(a \div W, b \div W) \in Nat
         /\ a = (a \div W) * W /\ b = (b \div W) * W
         /\ Larger(a, b) = Larger(a \div W, b \div W) * W
         /\ a \div W <= Larger(a \div W, b \div W) /\ b \div W <= Larger(a \div W, b \div W)
<1> DEFINE R == a \div W
           P == b \div W
<1>1. R \in Nat /\ P \in Nat /\ a = R * W /\ b = P * W
  BY WholeQuotient, Quotient
<1> HIDE DEF R, P
<1>2. R < P <=> a < b
  BY <1>1, Multiples
<1>3. Larger(a, b) = Larger(R, P) * W
  BY <1>1, <1>2 DEF Larger
<1>4. Larger(R, P) \in Nat /\ R <= Larger(R, P) /\ P <= Larger(R, P)
  BY <1>1 DEF Larger
<1> USE DEF R, P
<1> QED
  BY <1>1, <1>3, <1>4, Zenon

(* After an unknown_value scan the search finds candidates of that scan,   *)
(* each of which answers next to its old value, and all of them.           *)
LEMMA SnapshotFinds ==
  ASSUME NEW r, r.base \in Nat, r.size \in Nat \ {0}, NEW p \in Scans,
         r.base < End(p), p.base < End(r),
         NEW bytes \in [1 .. r.size -> Bytes], Width \in Nat \ {0},
         r.base % Width = 0, p.base % Width = 0, p.elem = Width, p.type = "unknown_value"
  PROVE  LET es == FromSnapshot(r, bytes, p) IN
         /\ \A i \in DOMAIN es : \E c \in ScanFound(p) :
              c[1] = r.base + es[i].index * Width /\ Match(query, es[i].snapshot, c[2])
         /\ \A c \in ScanFound(p) :
              /\ r.base <= c[1] /\ c[1] + Width <= End(r)
              /\ Match(query, ValueAt(bytes, c[1] - r.base, Width), c[2])
              => \E i \in DOMAIN es : r.base + es[i].index * Width = c[1]
<1> DEFINE W == Width
           rOff == OvStart(r, p) - r.base
           pOff == OvStart(r, p) - p.base
           length == OvEnd(r, p) - OvStart(r, p)
           New(k) == ValueAt(bytes, rOff + k * W, W)
           Old(k) == ValueAt(p.bytes, pOff + k * W, W)
           S == {k \in 0 .. length \div W - 1 : Match(query, New(k), Old(k))}
           kept == Ascending(S)
           c == Cardinality(S)
           Index(k) == (rOff + k * W) \div W
           entries == [i \in 1 .. c |-> Entry(New(kept[i]), Index(kept[i]))]
<1>0. p.base \in Nat /\ p.size \in Nat \ {0} /\ W \in Nat \ {0}
  BY ScanFields
<1>1. /\ length \in Nat /\ OvStart(r, p) \in {r.base, p.base}
      /\ OvEnd(r, p) <= End(r) /\ OvEnd(r, p) <= End(p) /\ OvEnd(r, p) \in {End(r), End(p)}
      /\ End(r) = r.base + r.size /\ End(p) = p.base + p.size
      /\ OvStart(r, p) \in Nat /\ OvEnd(r, p) \in Nat
  <2>1. OvStart(r, p) < OvEnd(r, p)
    BY <1>0, OverlapNotEmpty
  <2>2. /\ OvEnd(r, p) <= End(r) /\ OvEnd(r, p) <= End(p)
        /\ OvStart(r, p) \in {r.base, p.base} /\ OvEnd(r, p) \in {End(r), End(p)}
        /\ OvStart(r, p) \in Nat /\ OvEnd(r, p) \in Nat
        /\ End(r) = r.base + r.size /\ End(p) = p.base + p.size
    BY <1>0, OverlapInBoth
  <2> QED
    BY <2>1, <2>2
<1>2. /\ c \in Nat /\ kept \in [1 .. c -> S] /\ DOMAIN kept = 1 .. c
      /\ \A x \in S : \E i \in 1 .. c : kept[i] = x
  <2>1. length \div W \in Int /\ S \in SUBSET (0 .. length \div W - 1)
    BY <1>1, Quotient
  <2> QED
    BY <2>1, AscendingBelow
<1>3. FromSnapshot(r, bytes, p) = entries
  BY <1>2, Zenon DEF FromSnapshot
<1>4. PICK R \in Nat, P \in Nat, O \in Nat :
        /\ r.base = R * W /\ p.base = P * W /\ OvStart(r, p) = O * W
        /\ R <= O /\ P <= O
  <2> DEFINE a == r.base
             b == p.base
  <2>1. a \in Nat /\ b \in Nat /\ a % W = 0 /\ b % W = 0 /\ W \in Nat \ {0}
    BY <1>0
  <2>2. OvStart(r, p) = Larger(a, b)
    BY Zenon DEF OvStart
  <2> HIDE DEF a, b, W
  <2> DEFINE R == a \div W
             P == b \div W
             O == Larger(R, P)
  <2>3. /\ R \in Nat /\ P \in Nat /\ O \in Nat
        /\ a = R * W /\ b = P * W /\ Larger(a, b) = O * W
        /\ R <= O /\ P <= O
    <3>1. W \in Nat \ {0}
      BY <2>1
    <3>2. a \in Nat /\ a % W = 0
      BY <2>1
    <3>3. b \in Nat /\ b % W = 0
      BY <2>1
    <3> QED
      BY <3>1, <3>2, <3>3, OverlapOnElement, Zenon
  <2> HIDE DEF R, P, O
  <2> USE DEF a, b
  <2> QED
    BY <2>2, <2>3, Zenon
<1>5. ScanFound(p) = {<<p.base + k * W, ValueAt(p.bytes, k * W, W)>> : k \in 0 .. p.size \div W - 1}
  BY DEF ScanFound
<1>6. ASSUME NEW k \in Nat
      PROVE  /\ rOff + k * W = (O - R + k) * W /\ pOff + k * W = (O - P + k) * W
             /\ Index(k) = O - R + k
             /\ r.base + (O - R + k) * W = (O + k) * W /\ p.base + (O - P + k) * W = (O + k) * W
  <2>1. /\ (O - R) * W = O * W - R * W /\ (O - P) * W = O * W - P * W /\ (O + k) * W = O * W + k * W
        /\ O * W \in Int /\ R * W \in Int /\ P * W \in Int /\ k * W \in Int
    BY <1>0, Multiples
  <2>2. (O - R + k) * W = (O - R) * W + k * W /\ (O - P + k) * W = (O - P) * W + k * W
    BY <1>0, Multiples
  <2>3. rOff + k * W = (O - R + k) * W /\ pOff + k * W = (O - P + k) * W
    <3> HIDE DEF W
    <3> QED
      BY <1>4, <2>1, <2>2
  <2>4. r.base + (O - R + k) * W = (O + k) * W /\ p.base + (O - P + k) * W = (O + k) * W
    <3> DEFINE o == O * W
               x == R * W
               y == P * W
               n == k * W
    <3>1. /\ (O - R + k) * W = o - x + n /\ (O - P + k) * W = o - y + n /\ (O + k) * W = o + n
          /\ r.base = x /\ p.base = y /\ o \in Int /\ x \in Int /\ y \in Int /\ n \in Int
      BY <1>4, <2>1, <2>2
    <3> HIDE DEF W, o, x, y, n
    <3> QED
      BY <3>1
  <2>5. Index(k) = O - R + k
    <3>1. ((O - R + k) * W) \div W = O - R + k
      BY <1>0, Multiples
    <3> QED
      BY <2>3, <3>1
  <2> QED
    BY <2>3, <2>4, <2>5
<1>7. ASSUME NEW k \in S
      PROVE  /\ k \in Nat /\ O - P + k \in 0 .. p.size \div W - 1
             /\ Match(query, New(k), ValueAt(p.bytes, (O - P + k) * W, W))
  <2>1. k \in Nat /\ k + 1 <= length \div W /\ Match(query, New(k), Old(k))
    BY <1>1, Quotient
  <2>2. (k + 1) * W <= length
    <3>1. W \in Nat \ {0} /\ length \in Nat /\ k + 1 \in Int
      BY <1>0, <1>1, <2>1
    <3>2. k + 1 <= length \div W
      BY <2>1
    <3> HIDE DEF W, length, S
    <3>3. (k + 1) * W <= length <=> k + 1 <= length \div W
      BY <3>1, QuotientIsMost, Zenon
    <3> QED
      BY <3>2, <3>3
  <2>3. (O - P + k + 1) * W <= p.size
    <3>1. (O - P + (k + 1)) * W = (O - P) * W + (k + 1) * W /\ (O - P) * W = O * W - P * W
      BY <1>0, <2>1, Multiples
    <3>2. O - P + (k + 1) = O - P + k + 1
      BY <2>1
    <3> DEFINE x == (O - P + k + 1) * W
               y == (k + 1) * W
               z == O * W
               v == P * W
    <3>3. x = z - v + y /\ y \in Int /\ z \in Int /\ v \in Int
      BY <1>0, <2>1, <3>1, <3>2, Multiples
    <3>4. /\ y <= length /\ p.base = v /\ p.size \in Nat
          /\ length = OvEnd(r, p) - z /\ OvEnd(r, p) <= p.base + p.size /\ OvEnd(r, p) \in Nat
      BY <1>0, <1>1, <1>4, <2>2
    <3> HIDE DEF x, y, z, v, W, length
    <3>5. x <= p.size
      BY <3>3, <3>4
    <3> QED
      BY <3>5 DEF x
  <2>4. O - P + k + 1 <= p.size \div W /\ p.size \div W \in Nat
    <3>1. W \in Nat \ {0} /\ p.size \in Nat /\ k \in Nat
      BY <1>0, <1>4, <2>1
    <3> HIDE DEF W, S
    <3>2. O - P + k + 1 \in Int
      BY <3>1
    <3> QED
      BY <2>3, <3>1, <3>2, QuotientIsMost, Quotient
  <2>5. O - P + k \in 0 .. p.size \div W - 1
    <3> HIDE DEF W
    <3> QED
      BY <1>4, <2>1, <2>4
  <2>6. Old(k) = ValueAt(p.bytes, (O - P + k) * W, W)
    BY <1>6, <2>1
  <2> QED
    BY <2>1, <2>5, <2>6
<1>8. ASSUME NEW m \in 0 .. p.size \div W - 1,
             r.base <= p.base + m * W, p.base + m * W + W <= End(r),
             Match(query, ValueAt(bytes, p.base + m * W - r.base, W), ValueAt(p.bytes, m * W, W))
      PROVE  P + m - O \in S /\ r.base + Index(P + m - O) * W = p.base + m * W
  <2> DEFINE k == P + m - O
  <2>1. m \in Nat /\ m + 1 <= p.size \div W /\ m * W \in Nat
    BY <1>0, Quotient, NextProduct
  <2>2. (m + 1) * W <= p.size /\ (m + 1) * W = m * W + W
    <3>1. W \in Nat \ {0} /\ p.size \in Nat /\ m + 1 \in Int
      BY <1>0, <2>1
    <3> HIDE DEF W
    <3> QED
      BY <2>1, <3>1, QuotientIsMost, NextProduct
  <2>3. OvStart(r, p) <= p.base + m * W /\ p.base + m * W + W <= OvEnd(r, p)
    <3>1. /\ W \in Nat /\ m * W \in Nat /\ m * W + W <= p.size /\ p.base \in Nat /\ p.size \in Nat
          /\ p.base + m * W + W <= End(r) /\ r.base <= p.base + m * W
      BY <1>0, <1>8, <2>1, <2>2
    <3>2. OvStart(r, p) <= p.base + m * W
      <4>1. OvStart(r, p) = r.base \/ OvStart(r, p) = p.base
        BY <1>1
      <4> HIDE DEF W
      <4> QED
        BY <3>1, <4>1
    <3>3. p.base + m * W + W <= OvEnd(r, p)
      <4>1. (OvEnd(r, p) = End(r) \/ OvEnd(r, p) = End(p)) /\ End(p) = p.base + p.size
        BY <1>1
      <4> HIDE DEF W
      <4> QED
        BY <3>1, <4>1
    <3> QED
      BY <3>2, <3>3
  <2>4. (P + m) * W = P * W + m * W
    BY <1>0, <2>1, Multiples
  <2>5. k \in Nat
    <3>1. O * W <= (P + m) * W
      BY <1>4, <2>3, <2>4
    <3>2. O <= P + m
      BY <1>0, <1>4, <2>1, <3>1, Multiples
    <3> QED
      BY <1>4, <2>1, <3>2
  <2>6. k + 1 <= length \div W
    <3>1. O + k = P + m
      BY <1>4, <2>1
    <3>2. (O + k) * W = O * W + k * W /\ (k + 1) * W = k * W + W /\ k * W \in Int
      BY <1>0, <1>4, <2>5, Multiples, NextProduct
    <3>3. (k + 1) * W <= length
      <4>1. p.base + m * W = O * W + k * W
        BY <1>4, <2>4, <3>1, <3>2
      <4>2. W \in Nat /\ OvStart(r, p) = O * W /\ OvEnd(r, p) \in Int
        BY <1>0, <1>1, <1>4
      <4>3. O * W + k * W + W <= OvEnd(r, p) /\ O * W \in Int
        BY <1>0, <1>4, <2>3, <4>1, Multiples
      <4>4. length = OvEnd(r, p) - O * W
        BY <4>2
      <4> HIDE DEF W, k, length
      <4> QED
        BY <3>2, <4>2, <4>3, <4>4
    <3>4. W \in Nat \ {0} /\ length \in Nat /\ k + 1 \in Int
      BY <1>0, <1>1, <2>5
    <3> HIDE DEF W, k, length
    <3> QED
      BY <3>3, <3>4, QuotientIsMost
  <2>7. rOff + k * W = p.base + m * W - r.base /\ pOff + k * W = m * W
    <3>1. O - P + k = m /\ O + k = P + m
      BY <1>4, <2>1
    <3>2. pOff + k * W = m * W /\ p.base + m * W = (O + k) * W
      BY <1>6, <2>5, <3>1
    <3>3. rOff + k * W = (O - R + k) * W /\ r.base + (O - R + k) * W = (O + k) * W
      BY <1>6, <2>5
    <3>4. (O - R + k) * W \in Int
      BY <1>0, <1>4, <2>5, Multiples
    <3>5. rOff + k * W = p.base + m * W - r.base
      <4>1. r.base \in Int /\ p.base \in Int /\ m * W \in Int
        BY <1>0, <2>1
      <4> DEFINE x == rOff + k * W
                 y == (O - R + k) * W
                 z == m * W
                 v == (O + k) * W
      <4>2. x = y /\ r.base + y = v /\ p.base + z = v /\ y \in Int /\ z \in Int
        BY <3>2, <3>3, <3>4, <4>1
      <4> HIDE DEF x, y, z, v
      <4>3. \A e, f \in Int : e + y = v /\ f + z = v => y = f + z - e
        BY <4>2
      <4>4. x = p.base + z - r.base
        BY <4>1, <4>2, <4>3
      <4> QED
        BY <4>4 DEF x, z
    <3> QED
      BY <3>2, <3>5
  <2>8. k \in S
    <3>1. Match(query, New(k), Old(k))
      BY <1>8, <2>7
    <3>2. k \in 0 .. length \div W - 1
      BY <1>0, <1>1, <2>5, <2>6, Quotient
    <3> QED
      BY <3>1, <3>2
  <2>9. r.base + Index(k) * W = p.base + m * W
    <3>1. Index(k) * W = (O - R + k) * W /\ r.base + (O - R + k) * W = (O + k) * W
      BY <1>6, <2>5
    <3>2. O + k = P + m
      BY <1>4, <2>1
    <3> QED
      BY <1>4, <2>4, <3>1, <3>2
  <2> QED
    BY <2>8, <2>9
<1> HIDE DEF S, New, Index, kept, c
<1>9. ASSUME NEW i \in 1 .. c
      PROVE  \E d \in ScanFound(p) :
               d[1] = r.base + entries[i].index * W /\ Match(query, entries[i].snapshot, d[2])
  <2> DEFINE k == kept[i]
             d == <<p.base + (O - P + k) * W, ValueAt(p.bytes, (O - P + k) * W, W)>>
  <2>1. k \in S
    BY <1>2
  <2>2. d \in ScanFound(p)
    BY <1>5, <1>7, <2>1
  <2>3. entries[i].index = Index(k) /\ entries[i].snapshot = New(k)
    BY DEF Entry
  <2>4. d[1] = r.base + Index(k) * W
    BY <1>6, <1>7, <2>1
  <2> QED
    BY <1>7, <2>1, <2>2, <2>3, <2>4
<1>10. ASSUME NEW d \in ScanFound(p), r.base <= d[1], d[1] + W <= End(r),
              Match(query, ValueAt(bytes, d[1] - r.base, W), d[2])
       PROVE  \E i \in 1 .. c : r.base + entries[i].index * W = d[1]
  <2>1. PICK m \in 0 .. p.size \div W - 1 : d = <<p.base + m * W, ValueAt(p.bytes, m * W, W)>>
    BY <1>5
  <2>2. P + m - O \in S /\ r.base + Index(P + m - O) * W = d[1]
    <3>1. d[1] = p.base + m * W /\ d[2] = ValueAt(p.bytes, m * W, W)
      BY <2>1
    <3>2. /\ r.base <= p.base + m * W /\ p.base + m * W + W <= End(r)
          /\ Match(query, ValueAt(bytes, p.base + m * W - r.base, W), ValueAt(p.bytes, m * W, W))
      <4>1. p.base \in Nat /\ m * W \in Int /\ W \in Nat
        BY <1>0, Multiples
      <4> HIDE DEF W
      <4> QED
        BY <1>10, <3>1, <4>1
    <3> QED
      BY <1>8, <3>1, <3>2, Zenon
  <2>3. PICK i \in 1 .. c : kept[i] = P + m - O
    BY <1>2, <2>2
  <2> QED
    BY <2>2, <2>3 DEF Entry
<1>11. DOMAIN entries = 1 .. c
  OBVIOUS
<1> HIDE DEF entries
<1> QED
  BY <1>3, <1>9, <1>10, <1>11

(* After any other scan the search finds candidates of that scan, each of  *)
(* which answers next to its old value or to the value asked for, and all  *)
(* of them.                                                                *)
LEMMA ResultsFind ==
  ASSUME NEW r, r.base \in Nat, r.size \in Nat \ {0}, NEW p \in Scans,
         Fits(p.results, p.size, p.elem),
         NEW bytes \in [1 .. r.size -> Bytes], Width \in Nat \ {0},
         r.base % Width = 0, p.base % Width = 0, p.elem = Width, p.type # "unknown_value"
  PROVE  LET es == FromResults(r, bytes, p)
             Against(v) == IF query.type \in Relative THEN v ELSE query.raw1
         IN
         /\ \A i \in DOMAIN es : \E c \in ScanFound(p) :
              c[1] = r.base + es[i].index * Width /\ Match(query, es[i].snapshot, Against(c[2]))
         /\ \A c \in ScanFound(p) :
              /\ r.base <= c[1] /\ c[1] + Width <= End(r)
              /\ Match(query, ValueAt(bytes, c[1] - r.base, Width), Against(c[2]))
              => \E i \in DOMAIN es : r.base + es[i].index * Width = c[1]
<1> DEFINE W == Width
           old == p.results
           New(e) == ValueAt(bytes, NewIndex(r, p, e) * W, W)
           S == {k \in DOMAIN p.results : /\ InOverlap(r, p, p.results[k])
                                         /\ Match(query, New(p.results[k]), Compared(p.results[k]))}
           kept == Ascending(S)
           c == Cardinality(S)
           Index(k) == NewIndex(r, p, old[k])
           At(k) == EAddr(p, old[k])
           entries == [i \in 1 .. c |-> Entry(New(old[kept[i]]), Index(kept[i]))]
           Against(v) == IF query.type \in Relative THEN v ELSE query.raw1
<1>0. W \in Nat \ {0} /\ p.base \in Nat /\ p.size \in Nat \ {0} /\ old \in Seq(Entries)
  BY ScanFields
<1>1. /\ c \in Nat /\ kept \in [1 .. c -> S] /\ DOMAIN kept = 1 .. c
      /\ \A x \in S : \E i \in 1 .. c : kept[i] = x
  <2>1. Len(old) + 1 \in Int /\ S \in SUBSET (0 .. (Len(old) + 1) - 1)
    BY <1>0
  <2> QED
    BY <2>1, AscendingBelow
<1>2. FromResults(r, bytes, p) = entries
  BY <1>1, Zenon DEF FromResults
<1>3. ScanFound(p) = {<<p.base + e.index * W, e.snapshot>> : e \in Range(old)}
  BY DEF ScanFound
<1>4. ASSUME NEW k \in DOMAIN old
      PROVE  /\ At(k) = p.base + old[k].index * W /\ At(k) \in Nat
             /\ p.base <= At(k) /\ At(k) + W <= End(p)
             /\ r.base + Index(k) * W = At(k) /\ Index(k) * W = At(k) - r.base
             /\ <<At(k), old[k].snapshot>> \in ScanFound(p)
  <2> DEFINE n == old[k].index
             R == r.base \div W
             P == p.base \div W
  <2>1. n \in Nat /\ (n + 1) * W <= p.size
    <3>1. old[k] \in Entries
      BY <1>0
    <3> QED
      BY <3>1 DEF Entries, Fits
  <2>2. R \in Nat /\ P \in Nat /\ r.base = R * W /\ p.base = P * W
    BY <1>0, OverlapOnElement
  <2>3. n * W \in Nat /\ (n + 1) * W = n * W + W
    BY <1>0, <2>1, NextProduct
  <2>4. At(k) = p.base + n * W
    BY DEF EAddr
  <2>5. Index(k) = (At(k) - r.base) \div W
    BY DEF NewIndex
  <2> HIDE DEF n, R, P
  <2>6. (P + n) * W = P * W + n * W
    BY <1>0, <2>1, <2>2, Multiples
  <2>7. (P + n - R) * W = (P + n) * W - R * W /\ ((P + n - R) * W) \div W = P + n - R
    BY <1>0, <2>1, <2>2, Multiples
  <2>8. (P + n - R) * W = At(k) - r.base
    BY <2>2, <2>4, <2>6, <2>7
  <2>9. Index(k) = P + n - R
    BY <2>5, <2>7, <2>8
  <2>10. Index(k) * W = At(k) - r.base
    BY <2>8, <2>9
  <2>11. End(p) = p.base + p.size
    BY DEF End
  <2>12. <<At(k), old[k].snapshot>> \in ScanFound(p)
    <3>1. old[k] \in Range(old)
      BY DEF Range
    <3> QED
      BY <1>3, <2>4, <3>1 DEF n
  <2> DEFINE v == n * W
             a == At(k)
             d == Index(k) * W
  <2>13. /\ v \in Nat /\ v + W <= p.size /\ a = p.base + v /\ d = a - r.base
         /\ r.base \in Nat /\ p.base \in Nat /\ p.size \in Nat /\ W \in Nat
    BY <1>0, <2>1, <2>3, <2>4, <2>10
  <2> HIDE DEF v, a, d, W
  <2>14. a \in Nat /\ p.base <= a
    BY <2>13
  <2>15. a + W <= End(p)
    BY <2>11, <2>13
  <2>16. r.base + d = a
    BY <2>13, <2>14
  <2> USE DEF a, d
  <2> QED
    BY <2>4, <2>10, <2>12, <2>14, <2>15, <2>16 DEF n
<1>5. \A k : Compared(old[k]) = Against(old[k].snapshot)
  BY DEF Compared
<1> HIDE DEF Index, At
<1>6. ASSUME NEW i \in 1 .. c
      PROVE  \E d \in ScanFound(p) :
               /\ d[1] = r.base + entries[i].index * W
               /\ Match(query, entries[i].snapshot, Against(d[2]))
  <2> DEFINE k == kept[i]
             d == <<At(k), old[k].snapshot>>
  <2>1. k \in DOMAIN old /\ Match(query, New(old[k]), Compared(old[k]))
    BY <1>1
  <2>2. d \in ScanFound(p) /\ d[1] = r.base + Index(k) * W
    BY <1>4, <2>1
  <2>3. entries[i].index = Index(k) /\ entries[i].snapshot = New(old[k])
    BY DEF Entry
  <2> QED
    BY <1>5, <2>1, <2>2, <2>3
<1>7. ASSUME NEW d \in ScanFound(p), r.base <= d[1], d[1] + W <= End(r),
             Match(query, ValueAt(bytes, d[1] - r.base, W), Against(d[2]))
      PROVE  \E i \in 1 .. c : r.base + entries[i].index * W = d[1]
  <2>1. PICK e \in Range(old) : d = <<p.base + e.index * W, e.snapshot>>
    BY <1>3
  <2>2. PICK k \in DOMAIN old : old[k] = e
    BY DEF Range
  <2>3. d[1] = At(k) /\ d[2] = old[k].snapshot
    BY <1>4, <2>1, <2>2
  <2>4. InOverlap(r, p, old[k])
    <3>1. OvStart(r, p) \in {r.base, p.base} /\ OvEnd(r, p) \in {End(r), End(p)}
      BY DEF OvStart, OvEnd, Larger, Smaller
    <3>2. OvStart(r, p) <= At(k)
      BY <1>4, <1>7, <2>3, <3>1
    <3>3. At(k) + W <= OvEnd(r, p)
      BY <1>4, <1>7, <2>3, <3>1
    <3> QED
      BY <3>2, <3>3 DEF InOverlap, At
  <2>5. Match(query, New(old[k]), Compared(old[k]))
    <3>1. New(old[k]) = ValueAt(bytes, d[1] - r.base, W)
      BY <1>4, <2>3 DEF Index
    <3> QED
      BY <1>5, <1>7, <2>3, <3>1
  <2>6. PICK i \in 1 .. c : kept[i] = k
    BY <1>1, <2>4, <2>5
  <2>7. entries[i].index = Index(k)
    BY <2>6 DEF Entry
  <2> QED
    BY <1>4, <2>3, <2>7
<1>8. DOMAIN entries = 1 .. c
  OBVIOUS
<1> HIDE DEF entries
<1> QED
  BY <1>2, <1>6, <1>7, <1>8

(* What a candidate of scan p with old value v is compared with.           *)
Against(p, v) ==
  IF p.type = "unknown_value" \/ query.type \in Relative THEN v ELSE query.raw1

(* What is found in region r next to scan p are candidates of p that       *)
(* answer the query, and all of those.                                     *)
LEMMA NarrowedFinds ==
  ASSUME target \in Targets, query \in QueriesOf(NextTypes), NEW r \in target.readable,
         NEW p \in Scans, InPlace(p), r.base < End(p), p.base < End(r),
         r.base % Width = 0, p.base % Width = 0, p.elem = Width
  PROVE  LET s == Narrowed(r, p) IN
         /\ Valid(s) => \A d \in ScanFound(s) : \E c \in ScanFound(p) :
              c[1] = d[1] /\ Match(query, d[2], Against(p, c[2]))
         /\ \A c \in ScanFound(p) :
              /\ r.base <= c[1] /\ c[1] + Width <= End(r)
              /\ Match(query, ValueAt(Snapshot(target, r), c[1] - r.base, Width), Against(p, c[2]))
              => Valid(s) /\ \E d \in ScanFound(s) : d[1] = c[1]
<1> DEFINE s == Narrowed(r, p)
           bytes == Snapshot(target, r)
           es == IF p.type = "unknown_value" THEN FromSnapshot(r, bytes, p)
                 ELSE FromResults(r, bytes, p)
<1>1. r.base \in Nat /\ r.size \in Nat \ {0} /\ bytes \in [1 .. r.size -> Bytes]
  BY TargetIs, LayoutIs
<1>2. Width \in Nat \ {0}
  BY WidthIs
<1>3. s = [base |-> r.base, size |-> r.size, type |-> query.type, elem |-> Width,
           bytes |-> bytes, results |-> es]
  BY DEF Narrowed, Scan, Width
<1> HIDE DEF bytes
<1>4. /\ \A i \in DOMAIN es : \E c \in ScanFound(p) :
           c[1] = r.base + es[i].index * Width /\ Match(query, es[i].snapshot, Against(p, c[2]))
      /\ \A c \in ScanFound(p) :
           /\ r.base <= c[1] /\ c[1] + Width <= End(r)
           /\ Match(query, ValueAt(bytes, c[1] - r.base, Width), Against(p, c[2]))
           => \E i \in DOMAIN es : r.base + es[i].index * Width = c[1]
  <2>1. CASE p.type = "unknown_value"
    <3>1. \A v : Against(p, v) = v
      BY <2>1 DEF Against
    <3>2. es = FromSnapshot(r, bytes, p)
      BY <2>1
    <3> HIDE DEF es
    <3> QED
      BY <1>1, <1>2, <2>1, <3>1, <3>2, SnapshotFinds
  <2>2. CASE p.type # "unknown_value"
    <3>1. \A v : Against(p, v) = IF query.type \in Relative THEN v ELSE query.raw1
      BY <2>2 DEF Against
    <3>2. es = FromResults(r, bytes, p)
      BY <2>2
    <3> HIDE DEF es
    <3> QED
      BY <1>1, <1>2, <2>2, <3>1, <3>2, ResultsFind DEF InPlace
  <2> QED
    BY <2>1, <2>2
<1>5. query.type = "unknown_value" => es = << >>
  BY UnknownFindsNothing
<1> HIDE DEF es, s
<1>6. ASSUME es # << >>
      PROVE  ScanFound(s) = {<<r.base + e.index * Width, e.snapshot>> : e \in Range(es)}
  BY <1>3, <1>5, <1>6 DEF ScanFound
<1>7. Valid(s) <=> es # << >>
  BY <1>3 DEF Valid
<1>8. ASSUME Valid(s), NEW d \in ScanFound(s)
      PROVE  \E c \in ScanFound(p) : c[1] = d[1] /\ Match(query, d[2], Against(p, c[2]))
  <2>1. PICK e \in Range(es) : d = <<r.base + e.index * Width, e.snapshot>>
    BY <1>6, <1>7, <1>8
  <2>2. PICK i \in DOMAIN es : es[i] = e
    BY DEF Range
  <2>3. d[1] = r.base + es[i].index * Width /\ d[2] = es[i].snapshot
    BY <2>1, <2>2
  <2> QED
    BY <1>4, <2>3
<1>9. ASSUME NEW c \in ScanFound(p), r.base <= c[1], c[1] + Width <= End(r),
             Match(query, ValueAt(bytes, c[1] - r.base, Width), Against(p, c[2]))
      PROVE  Valid(s) /\ \E d \in ScanFound(s) : d[1] = c[1]
  <2>1. PICK i \in DOMAIN es : r.base + es[i].index * Width = c[1]
    BY <1>4, <1>9
  <2>2. es # << >>
    BY <2>1
  <2>3. <<r.base + es[i].index * Width, es[i].snapshot>> \in ScanFound(s)
    <3>1. es[i] \in Range(es)
      BY <2>1 DEF Range
    <3> QED
      BY <1>6, <2>2, <3>1
  <2> QED
    BY <1>7, <2>1, <2>2, <2>3
<1> USE DEF bytes, s
<1> QED
  BY <1>8, <1>9

-----------------------------------------------------------------------------
(* The candidates of all scans.                                            *)

(* The candidates of a scan lie in its region, one at an address.          *)
LEMMA OnePerAddress ==
  ASSUME NEW s \in Scans, InPlace(s)
  PROVE  /\ \A c \in ScanFound(s) : c[1] \in Nat /\ s.base <= c[1] /\ c[1] + s.elem <= End(s)
         /\ \A c, d \in ScanFound(s) : c[1] = d[1] => c = d
<1> DEFINE W == s.elem
<1>1. s.base \in Nat /\ s.size \in Nat \ {0} /\ W \in Nat \ {0} /\ End(s) = s.base + s.size
      /\ s.results \in Seq(Entries)
  BY ScanFields DEF End
<1> HIDE DEF W
<1>2. ASSUME NEW k \in Nat, (k + 1) * W <= s.size
      PROVE  s.base + k * W \in Nat /\ s.base + k * W + W <= End(s)
  BY <1>1, <1>2, NextProduct
<1>3. ASSUME NEW k \in Nat, NEW n \in Nat, s.base + k * W = s.base + n * W
      PROVE  k = n
  <2>1. k * W \in Int /\ n * W \in Int /\ (k = n <=> k * W = n * W)
    BY <1>1, Multiples
  <2> QED
    BY <1>1, <1>3, <2>1
<1>4. CASE s.type = "unknown_value"
  <2>1. ScanFound(s) = {<<s.base + k * W, ValueAt(s.bytes, k * W, W)>> : k \in 0 .. s.size \div W - 1}
    BY <1>4 DEF ScanFound, W
  <2>2. ASSUME NEW k \in 0 .. s.size \div W - 1
        PROVE  k \in Nat /\ (k + 1) * W <= s.size
    <3>1. k \in Nat /\ k + 1 \in Int /\ k + 1 <= s.size \div W
      BY <1>1, Quotient
    <3> QED
      BY <1>1, <3>1, QuotientIsMost
  <2>3. ASSUME NEW c \in ScanFound(s)
        PROVE  c[1] \in Nat /\ s.base <= c[1] /\ c[1] + W <= End(s)
    <3>1. PICK k \in 0 .. s.size \div W - 1 : c = <<s.base + k * W, ValueAt(s.bytes, k * W, W)>>
      BY <2>1
    <3>2. k * W \in Nat
      BY <1>1, <2>2, NextProduct
    <3>3. s.base + k * W + W <= End(s)
      BY <1>2, <2>2
    <3> DEFINE m == k * W
    <3> HIDE DEF m
    <3>4. m \in Nat /\ c[1] = s.base + m /\ s.base + m + W <= End(s)
      BY <3>1, <3>2, <3>3 DEF m
    <3> QED
      BY <1>1, <3>4
  <2>4. ASSUME NEW c \in ScanFound(s), NEW d \in ScanFound(s), c[1] = d[1] PROVE c = d
    <3>1. PICK k \in 0 .. s.size \div W - 1 : c = <<s.base + k * W, ValueAt(s.bytes, k * W, W)>>
      BY <2>1
    <3>2. PICK n \in 0 .. s.size \div W - 1 : d = <<s.base + n * W, ValueAt(s.bytes, n * W, W)>>
      BY <2>1
    <3>3. k = n
      BY <1>3, <2>2, <2>4, <3>1, <3>2
    <3> QED
      BY <3>1, <3>2, <3>3
  <2> QED
    BY <2>3, <2>4 DEF W
<1>5. CASE s.type # "unknown_value"
  <2>1. ScanFound(s) = {<<s.base + e.index * W, e.snapshot>> : e \in Range(s.results)}
    BY <1>5 DEF ScanFound, W
  <2>2. ASSUME NEW c \in ScanFound(s)
        PROVE  \E k \in DOMAIN s.results :
                 c = <<s.base + s.results[k].index * W, s.results[k].snapshot>>
    BY <2>1 DEF Range
  <2>3. ASSUME NEW k \in DOMAIN s.results
        PROVE  s.results[k].index \in Nat /\ (s.results[k].index + 1) * W <= s.size
    <3>1. s.results[k] \in Entries
      BY <1>1
    <3> QED
      BY <3>1 DEF Entries, InPlace, Fits, W
  <2>4. \A k, n \in DOMAIN s.results : k < n => s.results[k].index < s.results[n].index
    BY DEF InPlace, Fits
  <2>5. ASSUME NEW c \in ScanFound(s)
        PROVE  c[1] \in Nat /\ s.base <= c[1] /\ c[1] + W <= End(s)
    <3>1. PICK k \in DOMAIN s.results : c[1] = s.base + s.results[k].index * W
      BY <2>2
    <3>2. s.results[k].index * W \in Nat
      BY <1>1, <2>3, NextProduct
    <3>3. s.base + s.results[k].index * W + W <= End(s)
      BY <1>2, <2>3
    <3> DEFINE m == s.results[k].index * W
    <3> HIDE DEF m
    <3>4. m \in Nat /\ c[1] = s.base + m /\ s.base + m + W <= End(s)
      BY <3>1, <3>2, <3>3 DEF m
    <3> QED
      BY <1>1, <3>4
  <2>6. ASSUME NEW c \in ScanFound(s), NEW d \in ScanFound(s), c[1] = d[1] PROVE c = d
    <3>1. PICK k \in DOMAIN s.results : c = <<s.base + s.results[k].index * W, s.results[k].snapshot>>
      BY <2>2
    <3>2. PICK n \in DOMAIN s.results : d = <<s.base + s.results[n].index * W, s.results[n].snapshot>>
      BY <2>2
    <3>3. s.results[k].index = s.results[n].index
      BY <1>3, <2>3, <2>6, <3>1, <3>2
    <3>4. k \in Int /\ n \in Int
      BY <1>1
    <3>5. k = n
      BY <2>3, <2>4, <3>3, <3>4
    <3> QED
      BY <3>1, <3>2, <3>5
  <2> QED
    BY <2>5, <2>6 DEF W
<1> QED
  BY <1>4, <1>5

(* In a sorted list of scans a candidate is found at its address, with its *)
(* value, and everything found is a candidate of one of the scans.         *)
LEMMA FoundIs ==
  ASSUME NEW list \in Seq(Scans), Sorted(list), \A s \in Range(list) : InPlace(s)
  PROVE  /\ \A s \in Range(list) : \A c \in ScanFound(s) :
              c[1] \in DOMAIN Found(list) /\ Found(list)[c[1]] = c[2]
         /\ \A a \in DOMAIN Found(list) : \E s \in Range(list) : \E c \in ScanFound(s) :
              c[1] = a /\ c[2] = Found(list)[a]
<1> DEFINE all == UNION {ScanFound(s) : s \in Range(list)}
           at(a) == CHOOSE c \in all : c[1] = a
<1>1. ASSUME NEW i \in DOMAIN list, NEW j \in DOMAIN list, i < j,
             NEW c \in ScanFound(list[i]), NEW d \in ScanFound(list[j])
      PROVE  c[1] # d[1]
  <2>1. list[i] \in Scans /\ list[j] \in Scans /\ InPlace(list[i]) /\ InPlace(list[j])
    BY DEF Range
  <2>2. c[1] \in Nat /\ c[1] + list[i].elem <= End(list[i]) /\ list[i].elem \in Nat \ {0}
    BY <2>1, OnePerAddress, ScanFields
  <2>3. d[1] \in Nat /\ list[j].base <= d[1]
    BY <2>1, OnePerAddress
  <2>4. End(list[i]) <= list[j].base /\ End(list[i]) \in Nat /\ list[j].base \in Nat
    BY <1>1, <2>1, ScanFields DEF Sorted
  <2> QED
    BY <2>2, <2>3, <2>4
<1>2. ASSUME NEW c \in all, NEW d \in all, c[1] = d[1] PROVE c = d
  <2>1. PICK i \in DOMAIN list : c \in ScanFound(list[i])
    BY DEF Range
  <2>2. PICK j \in DOMAIN list : d \in ScanFound(list[j])
    BY DEF Range
  <2>3. i = j
    <3>1. i \in Int /\ j \in Int
      OBVIOUS
    <3>2. ~ i < j /\ ~ j < i
      BY <1>1, <1>2, <2>1, <2>2
    <3> QED
      BY <3>1, <3>2
  <2>4. list[i] \in Scans /\ InPlace(list[i])
    BY DEF Range
  <2> QED
    BY <1>2, <2>1, <2>2, <2>3, <2>4, OnePerAddress
<1>3. Found(list) = [a \in {c[1] : c \in all} |-> at(a)[2]]
  BY DEF Found
<1>4. \A s \in Range(list) : \A c \in ScanFound(s) : c \in all
  OBVIOUS
<1>5. \A c \in all : \E s \in Range(list) : c \in ScanFound(s)
  OBVIOUS
<1> HIDE DEF all
<1>6. ASSUME NEW c \in all PROVE at(c[1]) = c
  <2>1. at(c[1]) \in all /\ at(c[1])[1] = c[1]
    OBVIOUS
  <2> QED
    BY <1>2, <2>1
<1> HIDE DEF at
<1>7. ASSUME NEW c \in all PROVE c[1] \in DOMAIN Found(list) /\ Found(list)[c[1]] = c[2]
  BY <1>3, <1>6
<1>8. ASSUME NEW a \in DOMAIN Found(list) PROVE \E c \in all : c[1] = a /\ c[2] = Found(list)[a]
  BY <1>3, <1>7
<1> QED
  BY <1>4, <1>5, <1>7, <1>8

(* All scans of a session are of unknown values, or none is, and next_scan *)
(* finds none of that kind.                                                *)
KindInv ==
  /\ \A s, t \in Range(scans) : s.type = "unknown_value" <=> t.type = "unknown_value"
  /\ \A s \in Range(results) : s.type # "unknown_value"

(* Every step keeps it.                                                    *)
LEMMA KindStep ==
  ASSUME SessionInv, KindInv, [Next]_vars
  PROVE  KindInv'
<1>1. ASSUME UNCHANGED <<scans, results>> PROVE KindInv'
  BY <1>1 DEF KindInv
<1>2. ASSUME NEW t \in Targets, NEW q, NextScan(t, q) PROVE KindInv'
  <2>1. scans' = scans /\ Range(results') = {}
    BY <1>2 DEF NextScan, Range
  <2> QED
    BY <2>1 DEF KindInv
<1>3. CASE Collect
  <2>1. results' = results
    BY <1>3 DEF Collect
  <2>2. \A s \in Range(scans') : s.type = query.type
    BY <1>3, CollectIs DEF Answering
  <2> QED
    BY <2>1, <2>2 DEF KindInv
<1>4. CASE Consume
  <2> DEFINE r == Head(regions)
             p == scans[idx]
             s == Narrowed(r, p)
  <2>1. /\ p \in Scans /\ InPlace(p) /\ scans' = scans
        /\ p.base < End(r) /\ r.base < End(p)
        /\ target \in Targets /\ query \in QueriesOf(NextTypes)
        /\ results' = IF r \in target.readable /\ Valid(s) THEN Append(results, s) ELSE results
    BY <1>4, ConsumeIs
  <2> HIDE DEF r, p
  <2>2. CASE r \in target.readable /\ Valid(s)
    <3>1. s \in Scans
      BY <2>1, <2>2, NarrowedFits DEF InPlace
    <3> HIDE DEF s
    <3>2. s.type # "unknown_value"
      BY <2>2, <3>1, ScanFields DEF Valid
    <3>3. results \in Seq(Scans) /\ results' = Append(results, s)
      BY <2>1, <2>2 DEF SessionInv, TypeOK
    <3>4. Range(results') \subseteq Range(results) \cup {s}
      BY <3>3 DEF Range
    <3> QED
      BY <2>1, <3>2, <3>4 DEF KindInv
  <2>3. CASE ~ (r \in target.readable /\ Valid(s))
    BY <1>1, <2>1, <2>3
  <2> QED
    BY <2>2, <2>3
<1>5. CASE Return
  <2>1. results \in Seq(Scans) /\ Sorted(results) /\ scans' = ByBase(results) /\ results' = << >>
    BY <1>5 DEF SessionInv, ScansInOrder, TypeOK, Return
  <2>2. Range(scans') = Range(results)
    BY <2>1, ByBaseOrders
  <2>3. Range(results') = {}
    BY <2>1 DEF Range
  <2> QED
    BY <2>2, <2>3 DEF KindInv
<1>6. ASSUME NEW i \in DOMAIN scans, NEW bytes \in [1 .. scans[i].size -> Bytes], Update(i, bytes)
      PROVE  KindInv'
  <2> DEFINE u == Updated(scans[i], bytes)
  <2>1. /\ scans[i] \in Scans /\ InPlace(scans[i])
        /\ scans' = [scans EXCEPT ![i] = u] /\ results' = results
    BY <1>6, UpdateIs DEF Update
  <2>2. u.type = scans[i].type
    BY <2>1, UpdatedFits
  <2> HIDE DEF u
  <2>3. \A s \in Range(scans') : \E t \in Range(scans) : s.type = t.type
    BY <2>1, <2>2 DEF Range
  <2>4. \A s, t \in Range(scans') : s.type = "unknown_value" <=> t.type = "unknown_value"
    BY <2>3 DEF KindInv
  <2> QED
    BY <2>1, <2>4 DEF KindInv
<1>7. ASSUME NEW i \in DOMAIN futures, Task(i) PROVE UNCHANGED <<scans, results>>
  BY <1>7 DEF Task
<1>8. ASSUME NEW list, NEW q, FirstScan(list, q) PROVE UNCHANGED <<scans, results>>
  BY <1>8 DEF FirstScan
<1>9. CASE Throw \/ SkipRegion \/ SkipScan \/ UNCHANGED vars
  BY <1>1, <1>9 DEF Throw, SkipRegion, SkipScan, vars
<1>10. CASE Abort
  <2>1. scans' = scans /\ Range(results') = {}
    BY <1>10 DEF Abort, Range
  <2> QED
    BY <2>1 DEF KindInv
<1> QED
  BY <1>1, <1>2, <1>3, <1>4, <1>5, <1>6, <1>7, <1>8, <1>9, <1>10 DEF Next, CallerStep

-----------------------------------------------------------------------------
(* Nothing is lost.                                                        *)

(* A region that can be read, and the first scan it overlaps: next_scan has*)
(* yet to come to them, or has found what there is to find in them.        *)
Due(r, i) == r \in Range(regions) /\ idx <= i
Done(r, i) == Valid(Narrowed(r, scans[i])) => Narrowed(r, scans[i]) \in Range(results)
CompleteInv ==
  call = "walking" =>
    \A r \in target.readable, i \in DOMAIN scans : FirstOver(i, r) => Due(r, i) \/ Done(r, i)

(* The front of the queue lies in front of the rest of it.                 *)
LEMMA HeadIsFirst ==
  ASSUME NEW list \in Seq(Areas), list # << >>, Sorted(list), NEW r \in Range(list)
  PROVE  r = Head(list) \/ (r \in Range(Tail(list)) /\ End(Head(list)) <= r.base)
<1>1. PICK i \in DOMAIN list : list[i] = r
  BY DEF Range
<1>2. CASE i = 1
  BY <1>1, <1>2
<1>3. CASE i # 1
  <2>1. i - 1 \in DOMAIN Tail(list) /\ Tail(list)[i - 1] = r
    BY <1>1, <1>3
  <2> QED
    BY <2>1, TailInOrder DEF Range
<1> QED
  BY <1>2, <1>3

(* What is found in a region depends on the target and the query only.     *)
LEMMA NarrowedStays ==
  ASSUME NEW r, NEW i, UNCHANGED <<target, scans, query>>
  PROVE  Narrowed(r, scans[i])' = Narrowed(r, scans[i])
  BY DEF Narrowed, Snapshot, Scan, FromSnapshot, FromResults, Width, Compared, NewIndex,
         EAddr, InOverlap

(* Every iteration of the loop keeps the invariant: what it leaves behind  *)
(* cannot be a region and the first scan it overlaps.                      *)
LEMMA WalkCompletes ==
  ASSUME SessionInv, CompleteInv, SkipRegion \/ SkipScan \/ Consume
  PROVE  CompleteInv'
<1> DEFINE h == Head(regions)
           p == scans[idx]
<1>1. /\ call = "walking" /\ idx <= Len(scans) /\ regions # << >>
      /\ UNCHANGED <<target, scans, query>>
  BY DEF SkipRegion, SkipScan, Consume, Overlap, Walking
<1>2. /\ target \in Targets /\ regions \in Seq(Range(target.regions)) /\ Sorted(regions)
      /\ scans \in Seq(Scans) /\ Sorted(scans) /\ idx \in 1 .. Len(scans) + 1
      /\ results \in Seq(Scans)
  BY <1>1 DEF SessionInv, WalkInv, TypeOK, ScansInOrder
<1>3. idx \in DOMAIN scans /\ p \in Scans /\ p.base \in Nat /\ End(p) \in Nat /\ p.base <= End(p)
  <2>1. idx \in DOMAIN scans /\ p \in Scans
    BY <1>1, <1>2
  <2> QED
    BY <2>1, ScanFields DEF End
<1>4. \A r \in Range(target.regions) :
        r \in Areas /\ r.base \in Nat /\ End(r) \in Nat /\ r.base <= End(r)
  BY <1>2, TargetIs, LayoutIs DEF End
<1>5. regions \in Seq(Areas) /\ h \in Range(target.regions)
  BY <1>1, <1>2, <1>4
<1>6. SUFFICES ASSUME NEW r \in target.readable, NEW i \in DOMAIN scans, FirstOver(i, r)
               PROVE  Due(r, i)' \/ Done(r, i)'
  BY <1>1 DEF CompleteInv, FirstOver
<1>7. r \in Range(target.regions) /\ r.base \in Nat /\ End(r) \in Nat
  BY <1>2, <1>4, TargetIs
<1>8. /\ scans[i] \in Scans /\ scans[i].base < End(r) /\ r.base < End(scans[i])
      /\ \A j \in 1 .. i - 1 : End(scans[j]) <= r.base
      /\ scans[i].base \in Nat /\ End(scans[i]) \in Nat
  <2>1. scans[i] \in Scans
    BY <1>2
  <2> QED
    BY <1>6, <2>1, ScanFields DEF FirstOver
<1>9. Narrowed(r, scans[i])' = Narrowed(r, scans[i])
  BY <1>1, NarrowedStays
<1>10. ASSUME Done(r, i), Range(results) \subseteq Range(results') PROVE Done(r, i)'
  BY <1>1, <1>9, <1>10 DEF Done
<1>11. Range(results) \subseteq Range(results')
  <2>1. results' = results \/ \E s : results' = Append(results, s)
    BY DEF SkipRegion, SkipScan, Consume
  <2>2. ASSUME NEW s, results' = Append(results, s) PROVE Range(results) \subseteq Range(results')
    <3>1. \A k \in DOMAIN results : k \in DOMAIN results' /\ results'[k] = results[k]
      BY <1>2, <2>2
    <3> QED
      BY <3>1 DEF Range
  <2> QED
    BY <2>1, <2>2
<1>12. SUFFICES ASSUME Due(r, i) PROVE Due(r, i)' \/ Done(r, i)'
  BY <1>1, <1>6, <1>10, <1>11 DEF CompleteInv
<1>13. r = h \/ (r \in Range(Tail(regions)) /\ End(h) <= r.base)
  BY <1>1, <1>2, <1>5, <1>12, HeadIsFirst DEF Due
<1>14. i = idx \/ (i > idx /\ End(p) <= scans[i].base)
  BY <1>2, <1>3, <1>12 DEF Due, Sorted
<1>15. CASE SkipRegion
  <2>1. End(h) <= p.base /\ regions' = Tail(regions) /\ idx' = idx
    BY <1>15 DEF SkipRegion
  <2>2. r # h
    BY <1>3, <1>4, <1>5, <1>7, <1>8, <1>14, <2>1
  <2> QED
    BY <1>12, <1>13, <2>1, <2>2 DEF Due
<1>16. CASE SkipScan
  <2>1. End(p) <= h.base /\ idx' = idx + 1 /\ regions' = regions
    BY <1>16 DEF SkipScan
  <2>2. h.base <= r.base /\ h.base \in Nat
    BY <1>4, <1>5, <1>7, <1>13
  <2>3. i # idx
    BY <1>3, <1>7, <1>8, <2>1, <2>2
  <2> QED
    BY <1>2, <1>12, <1>14, <2>1, <2>3 DEF Due
<1>17. CASE Consume
  <2>1. /\ h.base < End(p) /\ regions' = Tail(regions) /\ idx' = idx
        /\ results' = IF h \in target.readable /\ Valid(Narrowed(h, p))
                      THEN Append(results, Narrowed(h, p)) ELSE results
    BY <1>17, ConsumeIs DEF Consume, Overlap
  <2>2. CASE r = h
    <3>1. i = idx
      <4>1. i > idx => End(p) <= h.base
        BY <1>2, <1>3, <1>8, <2>2
      <4> QED
        BY <1>3, <1>4, <1>5, <1>14, <2>1, <4>1
    <3> DEFINE s == Narrowed(h, p)
    <3>2. Narrowed(r, scans[i])' = s
      BY <1>9, <2>2, <3>1
    <3>3. Valid(s) => results' = Append(results, s)
      BY <1>6, <2>1, <2>2
    <3> HIDE DEF s
    <3>4. Valid(s) => s \in Range(results')
      BY <1>2, <3>3 DEF Range
    <3> QED
      BY <3>2, <3>4 DEF Done
  <2>3. CASE r # h
    BY <1>12, <1>13, <2>1, <2>3 DEF Due
  <2> QED
    BY <2>2, <2>3
<1> QED
  BY <1>15, <1>16, <1>17

(* Every step keeps the invariant.                                         *)
LEMMA CompleteStep ==
  ASSUME SessionInv, CompleteInv, [Next]_vars
  PROVE  CompleteInv'
<1>1. ASSUME NEW t \in Targets, NEW q, NextScan(t, q) PROVE CompleteInv'
  <2>1. target' = t /\ regions' = t.regions /\ idx' = 1 /\ scans' = scans
    BY <1>1 DEF NextScan
  <2>2. \A r \in t.readable : r \in Range(regions')
    BY <2>1, TargetIs
  <2>3. scans \in Seq(Scans)
    BY DEF SessionInv, TypeOK
  <2>4. \A i \in DOMAIN scans' : idx' <= i
    BY <2>1, <2>3
  <2>5. \A r \in target'.readable, i \in DOMAIN scans' : Due(r, i)'
    BY <2>1, <2>2, <2>4 DEF Due
  <2> QED
    BY <2>5 DEF CompleteInv
<1>2. CASE SkipRegion \/ SkipScan \/ Consume
  BY <1>2, WalkCompletes
<1>3. ASSUME NEW i \in DOMAIN futures, Task(i) PROVE call' # "walking"
  <2>1. call = "first"
    BY DEF SessionInv
  <2> QED
    BY <1>3, <2>1 DEF Task
<1>4. ASSUME NEW list, NEW q, FirstScan(list, q) PROVE call' # "walking"
  BY <1>4 DEF FirstScan
<1>5. ASSUME NEW i, NEW bytes, Update(i, bytes) PROVE call' # "walking"
  BY <1>5 DEF Update
<1>6. CASE Collect \/ Throw \/ Return \/ Abort
  BY <1>6 DEF Collect, Throw, Return, Abort, CompleteInv
<1>7. CASE UNCHANGED vars
  <2>1. UNCHANGED <<target, scans, call, query, regions, idx, results>>
    BY <1>7 DEF vars
  <2>2. ASSUME NEW r, NEW i, FirstOver(i, r)' PROVE FirstOver(i, r)
    BY <2>1, <2>2 DEF FirstOver
  <2>3. ASSUME NEW r, NEW i, Due(r, i) PROVE Due(r, i)'
    BY <2>1, <2>3 DEF Due
  <2>4. ASSUME NEW r, NEW i, Done(r, i) PROVE Done(r, i)'
    <3>1. Narrowed(r, scans[i])' = Narrowed(r, scans[i])
      BY <2>1, NarrowedStays
    <3> QED
      BY <2>1, <2>4, <3>1 DEF Done
  <2> QED
    BY <2>1, <2>2, <2>3, <2>4 DEF CompleteInv
<1> QED
  BY <1>1, <1>2, <1>3, <1>4, <1>5, <1>6, <1>7 DEF Next, CallerStep, CompleteInv

(* What the candidates of all scans are compared with is what those of one *)
(* scan are.                                                               *)
LEMMA BlindIs ==
  ASSUME KindInv, NEW p \in Range(scans)
  PROVE  Blind <=> p.type = "unknown_value"
  BY DEF KindInv, Blind, Range

(* All elements have the width of the query.                               *)
LEMMA OneWidth ==
  ASSUME SizesAgree, query \in QueriesOf(NextTypes), NEW p \in Scans
  PROVE  p.elem = Width
<1>1. p.elem \in Range(ElementSize)
  BY DEF Scans
<1> QED
  BY <1>1, WidthIs DEF SizesAgree

(* When next_scan returns, every region and the first scan it overlaps have*)
(* been dealt with.                                                        *)
LEMMA ReturnKeeps ==
  ASSUME OnElements, SizesAgree, SessionInv, BufferInv, KindInv, CompleteInv, Return
  PROVE  Kept
<1>1. /\ call = "walking" /\ ~ Walking /\ scans' = ByBase(results)
      /\ target \in Targets /\ query \in QueriesOf(NextTypes)
      /\ scans \in Seq(Scans) /\ Sorted(scans) /\ results \in Seq(Scans) /\ Sorted(results)
      /\ \A s \in Range(scans) \cup Range(results) : InPlace(s)
  BY DEF Return, SessionInv, TypeOK, ScansInOrder, WalkInv
<1>2. scans' \in Seq(Scans) /\ Sorted(scans') /\ Range(scans') = Range(results)
  BY <1>1, ByBaseOrders
<1>3. SUFFICES ASSUME NEW i \in DOMAIN scans, NEW r \in target.readable, FirstOver(i, r),
                      NEW c \in ScanFound(scans[i]), Answers(c[1], r)
               PROVE  c[1] \in DOMAIN Found(scans')
  BY DEF Kept
<1> DEFINE p == scans[i]
           s == Narrowed(r, p)
<1>4. p \in Range(scans) /\ p \in Scans /\ InPlace(p)
  BY <1>1 DEF Range
<1>5. p.elem = Width /\ Width \in Range(ElementSize)
  BY <1>1, <1>4, OneWidth, WidthIs
<1>6. r.base % Width = 0 /\ p.base % Width = 0
  <2>1. r \in Range(target.regions) /\ target.regions \in Layouts
    BY <1>1, TargetIs
  <2> QED
    BY <1>4, <1>5, <2>1 DEF BufferInv, OnElements, OnBoundary
<1>7. r.base < End(p) /\ p.base < End(r)
  BY <1>3 DEF FirstOver
<1>8. /\ r.base <= c[1] /\ c[1] + Width <= End(r)
      /\ Match(query, ValueAt(Snapshot(target, r), c[1] - r.base, Width), Against(p, c[2]))
  <2>1. Found(scans)[c[1]] = c[2]
    BY <1>1, <1>4, FoundIs
  <2>2. Blind <=> p.type = "unknown_value"
    BY <1>4, BlindIs
  <2> QED
    BY <1>3, <2>1, <2>2 DEF Answers, Against
<1>9. Valid(s) /\ \E d \in ScanFound(s) : d[1] = c[1]
  BY <1>1, <1>4, <1>5, <1>6, <1>7, <1>8, NarrowedFinds
<1>10. s \in Range(results)
  <2>1. Due(r, i) \/ Done(r, i)
    BY <1>1, <1>3 DEF CompleteInv
  <2>2. ~ Due(r, i)
    <3>1. regions = << >> => Range(regions) = {}
      BY DEF Range
    <3>2. idx \in Int /\ i <= Len(scans) /\ i \in Int /\ Len(scans) \in Int
      BY <1>1 DEF SessionInv, TypeOK
    <3> QED
      BY <1>1, <3>1, <3>2 DEF Walking, Due
  <2> QED
    BY <1>9, <2>1, <2>2 DEF Done
<1> HIDE DEF p, s
<1>11. \A t \in Range(scans') : InPlace(t)
  BY <1>1, <1>2
<1> QED
  BY <1>2, <1>9, <1>10, <1>11, FoundIs

(* When an exception leaves next_scan, the caller still has the scans.     *)
LEMMA AbortKeeps ==
  ASSUME SessionInv, Abort
  PROVE  Kept
<1>1. /\ scans' = scans /\ scans \in Seq(Scans) /\ Sorted(scans)
      /\ \A s \in Range(scans) : InPlace(s)
  BY DEF Abort, SessionInv, TypeOK, ScansInOrder
<1>2. \A s \in Range(scans) : \A c \in ScanFound(s) : c[1] \in DOMAIN Found(scans)
  BY <1>1, FoundIs
<1>3. \A i \in DOMAIN scans : scans[i] \in Range(scans)
  BY DEF Range
<1>4. Found(scans') = Found(scans)
  BY <1>1
<1> HIDE DEF Found
<1> QED
  BY <1>2, <1>3, <1>4 DEF Kept

(* Of the candidates of the first scan a readable region overlaps, none    *)
(* that answers the query is lost by next_scan, however the regions were   *)
(* split, moved or shrunk.                                                 *)
THEOREM NoCandidateLost == OnElements /\ SizesAgree /\ Spec => NothingLost
<1> SUFFICES ASSUME OnElements, SizesAgree PROVE Spec => NothingLost
  OBVIOUS
<1>1. Init => BufferInv /\ KindInv /\ CompleteInv
  BY DEF Init, BufferInv, KindInv, CompleteInv, Range
<1>2. SessionInv /\ BufferInv /\ KindInv /\ CompleteInv /\ [Next]_vars
        => BufferInv' /\ KindInv' /\ CompleteInv'
  BY BufferStep, KindStep, CompleteStep
<1>3. SessionInv /\ BufferInv /\ KindInv /\ CompleteInv /\ [Next]_vars
        => [call = "walking" /\ call' = "idle" => Kept]_vars
  <2> SUFFICES ASSUME SessionInv, BufferInv, KindInv, CompleteInv, [Next]_vars,
                      call = "walking", call' = "idle"
               PROVE  Kept
    OBVIOUS
  <2>1. futures = << >>
    BY DEF SessionInv
  <2>2. Return \/ Abort
    BY <2>1 DEF Next, CallerStep, vars, FirstScan, NextScan, Update, Collect, Throw, SkipRegion,
                SkipScan, Consume, Overlap, Walking
  <2> QED
    BY <2>2, ReturnKeeps, AbortKeeps
<1> QED
  BY <1>1, <1>2, <1>3, SessionInvariant, PTL DEF Spec, NothingLost

-----------------------------------------------------------------------------
(* The session implements the abstract candidate set.                      *)

(* The criteria of the abstract specification are those of Criteria.       *)
LEMMA SameCriteria ==
  ASSUME NEW q, NEW a, NEW b
  PROVE  Candidates!Meets(q, a, b) <=> Meets(q, a, b)
  BY DEF Meets, ValueOf, Tolerance, Number, NaN, Less, Equal, Given, Infinite, NumbersOf, Apart,
         Near, Raised, Candidates!Meets, Candidates!ValueOf, Candidates!Tolerance,
         Candidates!Number, Candidates!NaN, Candidates!Less, Candidates!Equal, Candidates!Given,
         Candidates!Infinite, Candidates!NumbersOf, Candidates!Apart, Candidates!Near,
         Candidates!Raised

(* What a query accepts meets its criterion.                               *)
LEMMA MatchMeets ==
  ASSUME NEW q \in QueriesOf(FirstTypes \cup NextTypes), NEW a \in Words, NEW b \in Words,
         Match(q, a, b)
  PROVE  Candidates!Meets(q, a, b)
<1>1. q \in Queries
  BY ArgumentAssumption DEF QueriesOf, Queries, Elements, Word64, Words
<1> QED
  BY <1>1, FoundMeets, SameCriteria DEF Word64, Words

(* A query is none that says there is none.                                *)
LEMMA QueryGiven ==
  ASSUME NEW types, NEW q \in QueriesOf(types)
  PROVE  q # NoQuery
  BY DEF QueriesOf, NoQuery

(* The value of a candidate is a word.                                     *)
LEMMA WordsFound ==
  ASSUME NEW s \in Scans, NEW c \in ScanFound(s)
  PROVE  c[2] \in Words
<1> DEFINE W == s.elem
<1>1. /\ s.size \in Nat \ {0} /\ W \in Nat \ {0} /\ s.bytes \in [1 .. s.size -> Bytes]
      /\ s.results \in Seq(Entries)
  BY ScanFields
<1>2. CASE s.type = "unknown_value"
  <2>1. PICK k \in 0 .. s.size \div W - 1 : c = <<s.base + k * W, ValueAt(s.bytes, k * W, W)>>
    BY <1>2 DEF ScanFound
  <2> HIDE DEF W
  <2>2. k \in Nat /\ k + 1 \in Int /\ k + 1 <= s.size \div W
    BY <1>1, Quotient
  <2>3. (k + 1) * W <= s.size /\ k * W \in Nat /\ (k + 1) * W = k * W + W
    BY <1>1, <2>2, QuotientIsMost, NextProduct
  <2>4. k * W + W <= s.size
    BY <2>3
  <2>5. ValueAt(s.bytes, k * W, W) \in Words
    BY <1>1, <2>3, <2>4, ElementIsWord
  <2> QED
    BY <2>1, <2>5
<1>3. CASE s.type # "unknown_value"
  <2>1. PICK e \in Range(s.results) : c = <<s.base + e.index * W, e.snapshot>>
    BY <1>3 DEF ScanFound
  <2>2. e \in Entries
    BY <1>1 DEF Range
  <2> QED
    BY <2>1, <2>2 DEF Entries
<1> QED
  BY <1>2, <1>3

(* A region that holds whole elements holds one.                           *)
LEMMA SomethingFound ==
  ASSUME NEW s \in Scans, s.size % s.elem = 0
  PROVE  ScanFound(s) # {}
<1> DEFINE W == s.elem
<1>1. s.size \in Nat \ {0} /\ W \in Nat \ {0} /\ s.results \in Seq(Entries)
      /\ (s.type # "unknown_value" <=> s.results # << >>)
  BY ScanFields
<1>2. CASE s.type = "unknown_value"
  <2> HIDE DEF W
  <2>1. s.size \div W \in Nat /\ s.size = (s.size \div W) * W
    BY <1>1, Quotient, WholeQuotient DEF W
  <2>2. s.size \div W # 0
    BY <1>1, <2>1
  <2>3. 0 \in 0 .. s.size \div W - 1
    BY <2>1, <2>2
  <2> USE DEF W
  <2> QED
    BY <1>2, <2>3 DEF ScanFound
<1>3. CASE s.type # "unknown_value"
  <2>1. s.results[1] \in Range(s.results)
    BY <1>1, <1>3 DEF Range
  <2> QED
    BY <1>3, <2>1 DEF ScanFound
<1> QED
  BY <1>2, <1>3

(* The candidates depend on the scans as a set, and on what each found.    *)
LEMMA SameFound ==
  ASSUME NEW list, NEW other,
         UNION {ScanFound(s) : s \in Range(list)} = UNION {ScanFound(s) : s \in Range(other)}
  PROVE  Found(list) = Found(other)
<1> DEFINE Values(all) == [a \in {c[1] : c \in all} |-> (CHOOSE c \in all : c[1] = a)[2]]
           all1 == UNION {ScanFound(s) : s \in Range(list)}
           all2 == UNION {ScanFound(s) : s \in Range(other)}
<1>1. Found(list) = Values(all1) /\ Found(other) = Values(all2)
  BY DEF Found
<1>2. all1 = all2
  OBVIOUS
<1> HIDE DEF Values, all1, all2
<1> QED
  BY <1>1, <1>2

(* An update changes no candidate.                                         *)
LEMMA UpdateFinds ==
  ASSUME NEW s \in Scans, InPlace(s), s.results # << >>, NEW bytes \in [1 .. s.size -> Bytes]
  PROVE  ScanFound(Updated(s, bytes)) = ScanFound(s)
<1> DEFINE u == Updated(s, bytes)
<1>1. /\ u.base = s.base /\ u.type = s.type /\ u.elem = s.elem
      /\ DOMAIN u.results = DOMAIN s.results
      /\ \A k \in DOMAIN s.results : /\ u.results[k].index = s.results[k].index
                                     /\ u.results[k].snapshot = s.results[k].snapshot
  BY UpdatedFits
<1>2. s.type # "unknown_value"
  BY ScanFields
<1> HIDE DEF u
<1> DEFINE At(x, k) == <<s.base + x.results[k].index * s.elem, x.results[k].snapshot>>
<1>3. ScanFound(s) = {At(s, k) : k \in DOMAIN s.results}
  BY <1>2 DEF ScanFound, Range
<1>4. ScanFound(u) = {At(u, k) : k \in DOMAIN u.results}
  BY <1>1, <1>2 DEF ScanFound, Range
<1>5. \A k \in DOMAIN s.results : At(u, k) = At(s, k)
  BY <1>1
<1> HIDE DEF At
<1>6. ScanFound(u) = ScanFound(s)
  BY <1>1, <1>3, <1>4, <1>5
<1> QED
  BY <1>6 DEF u

(* While next_scan walks, what it has found answers the query next to a    *)
(* candidate at the same address.                                          *)
SoundInv ==
  call = "walking" =>
    \A s \in Range(results) : \A d \in ScanFound(s) : \E p \in Range(scans) : \E c \in ScanFound(p) :
      c[1] = d[1] /\ Match(query, d[2], Against(p, c[2]))

(* Every step keeps it.                                                    *)
LEMMA SoundStep ==
  ASSUME OnElements, SizesAgree, SessionInv, BufferInv, SoundInv, [Next]_vars
  PROVE  SoundInv'
<1>1. ASSUME UNCHANGED <<scans, call, query, results>> PROVE SoundInv'
  BY <1>1 DEF SoundInv, Against
<1>2. ASSUME NEW t \in Targets, NEW q, NextScan(t, q) PROVE SoundInv'
  <2>1. Range(results') = {}
    BY <1>2 DEF NextScan, Range
  <2> QED
    BY <2>1 DEF SoundInv
<1>3. CASE SkipRegion \/ SkipScan \/ UNCHANGED vars
  BY <1>1, <1>3 DEF SkipRegion, SkipScan, vars
<1>4. CASE Consume
  <2> DEFINE r == Head(regions)
             p == scans[idx]
             s == Narrowed(r, p)
  <2>1. /\ call = "walking" /\ call' = call
        /\ p \in Range(scans) /\ p \in Scans /\ InPlace(p) /\ scans' = scans
        /\ p.base < End(r) /\ r.base < End(p)
        /\ target \in Targets /\ query \in QueriesOf(NextTypes) /\ query' = query
        /\ results' = IF r \in target.readable /\ Valid(s) THEN Append(results, s) ELSE results
    BY <1>4, ConsumeIs DEF Consume
  <2> HIDE DEF r, p
  <2>2. CASE r \in target.readable /\ Valid(s)
    <3>1. p.elem = Width /\ Width \in Range(ElementSize)
      BY <2>1, OneWidth, WidthIs
    <3>2. r.base % Width = 0 /\ p.base % Width = 0
      <4>1. r \in Range(target.regions) /\ target.regions \in Layouts
        BY <2>1, <2>2, TargetIs
      <4> QED
        BY <2>1, <3>1, <4>1 DEF BufferInv, OnElements, OnBoundary
    <3>3. \A d \in ScanFound(s) : \E c \in ScanFound(p) :
            c[1] = d[1] /\ Match(query, d[2], Against(p, c[2]))
      BY <2>1, <2>2, <3>1, <3>2, NarrowedFinds
    <3> HIDE DEF s
    <3>4. results \in Seq(Scans) /\ results' = Append(results, s)
      BY <2>1, <2>2 DEF SessionInv, TypeOK
    <3>5. Range(results') \subseteq Range(results) \cup {s}
      BY <3>4 DEF Range
    <3>6. \A x, v : Against(x, v)' = Against(x, v)
      BY <2>1 DEF Against
    <3>7. \A t \in Range(results') : \A d \in ScanFound(t) : \E x \in Range(scans) : \E c \in ScanFound(x) :
            c[1] = d[1] /\ Match(query, d[2], Against(x, c[2]))
      BY <2>1, <3>3, <3>5 DEF SoundInv
    <3> QED
      BY <2>1, <3>7 DEF SoundInv, Against
  <2>3. CASE ~ (r \in target.readable /\ Valid(s))
    BY <1>1, <2>1, <2>3
  <2> QED
    BY <2>2, <2>3
<1>5. ASSUME NEW i \in DOMAIN futures, Task(i) PROVE call' # "walking"
  <2>1. call = "first"
    BY DEF SessionInv
  <2> QED
    BY <1>5, <2>1 DEF Task
<1>6. ASSUME NEW list, NEW q, FirstScan(list, q) PROVE call' # "walking"
  BY <1>6 DEF FirstScan
<1>7. ASSUME NEW i, NEW bytes, Update(i, bytes) PROVE call' # "walking"
  BY <1>7 DEF Update
<1>8. CASE Collect \/ Throw \/ Return \/ Abort
  BY <1>8 DEF Collect, Throw, Return, Abort, SoundInv
<1> QED
  BY <1>2, <1>3, <1>4, <1>5, <1>6, <1>7, <1>8 DEF Next, CallerStep, SoundInv

(* Between two calls there is no query.                                    *)
RestInv == call \in {"none", "idle"} => query = NoQuery

(* Every step keeps it.                                                    *)
LEMMA RestStep ==
  ASSUME SessionInv, RestInv, [Next]_vars
  PROVE  RestInv'
<1>1. ASSUME NEW i \in DOMAIN futures, Task(i) PROVE RestInv'
  BY <1>1 DEF Task, RestInv
<1>2. ASSUME NEW list, NEW q, FirstScan(list, q) PROVE RestInv'
  BY <1>2 DEF FirstScan, RestInv
<1>3. ASSUME NEW t, NEW q, NextScan(t, q) PROVE RestInv'
  BY <1>3 DEF NextScan, RestInv
<1>4. ASSUME NEW i, NEW bytes, Update(i, bytes) PROVE RestInv'
  BY <1>4 DEF Update, RestInv
<1>5. CASE Collect \/ Throw \/ Return \/ Abort
  BY <1>5 DEF Collect, Throw, Return, Abort, Leave, RestInv
<1>6. CASE SkipRegion \/ SkipScan \/ Consume \/ UNCHANGED vars
  BY <1>6 DEF SkipRegion, SkipScan, Consume, vars, RestInv
<1> QED
  BY <1>1, <1>2, <1>3, <1>4, <1>5, <1>6 DEF Next, CallerStep

(* The end of first_scan: the candidates are addresses of the target, and  *)
(* answer the query unless their values are not known.                     *)
LEMMA CollectFirst ==
  ASSUME OnElements, SessionInv, Collect
  PROVE  Candidates!First
<1>1. /\ call = "first" /\ call' = "idle" /\ query' = NoQuery
      /\ regions \in Layouts /\ query \in QueriesOf(FirstTypes)
      /\ scans' \in Seq(Scans) /\ Sorted(scans')
  BY CollectIs DEF Collect, Leave
<1>2. query # NoQuery /\ query \in QueriesOf(FirstTypes \cup NextTypes)
  BY <1>1, QueryGiven, AnyQuery
<1>3. ASSUME NEW s \in Range(scans')
      PROVE  /\ s \in Scans /\ InPlace(s) /\ s.type = query.type /\ Searched(s.results, query)
             /\ \E r \in Range(regions) : s.base = r.base /\ s.size = r.size
             /\ s.elem = Width
  <2>1. s \in Scans
    BY <1>1 DEF Range
  <2> QED
    BY <2>1, CollectIs DEF Answering
<1>4. /\ \A s \in Range(scans') : \A c \in ScanFound(s) :
           c[1] \in DOMAIN Found(scans') /\ Found(scans')[c[1]] = c[2]
      /\ \A a \in DOMAIN Found(scans') : \E s \in Range(scans') : \E c \in ScanFound(s) :
           c[1] = a /\ c[2] = Found(scans')[a]
  BY <1>1, <1>3, FoundIs
<1>5. ASSUME NEW a \in DOMAIN Found(scans') PROVE a \in Addresses /\ Found(scans')[a] \in Words
  <2>1. PICK s \in Range(scans') : \E c \in ScanFound(s) : c[1] = a /\ c[2] = Found(scans')[a]
    BY <1>4
  <2>2. PICK c \in ScanFound(s) : c[1] = a /\ c[2] = Found(scans')[a]
    BY <2>1
  <2>3. a \in Nat /\ s.base <= a /\ a + s.elem <= End(s) /\ s.elem \in Nat \ {0} /\ End(s) \in Nat
        /\ s.base \in Nat
    BY <1>3, <2>2, OnePerAddress, ScanFields
  <2>4. PICK r \in Range(regions) : s.base = r.base /\ s.size = r.size
    BY <1>3
  <2>5. a \in Span(r)
    <3>1. End(s) = End(r)
      BY <2>4 DEF End
    <3> QED
      BY <2>3, <2>4, <3>1 DEF Span
  <2>6. Span(r) \subseteq Addresses
    BY <1>1, LayoutAssumption DEF Range
  <2> QED
    BY <1>3, <2>2, <2>5, <2>6, WordsFound
<1>6. Found(scans') \in [DOMAIN Found(scans') -> Words]
  <2>1. Found(scans') = [a \in DOMAIN Found(scans') |-> Found(scans')[a]]
    BY DEF Found
  <2> HIDE DEF Found
  <2> QED
    BY <1>5, <2>1
<1>7. Blind' <=> query.type = "unknown_value" /\ Found(scans') # << >>
  <2>1. ASSUME Blind' PROVE query.type = "unknown_value" /\ Found(scans') # << >>
    <3>1. PICK s \in Range(scans') : s.type = "unknown_value"
      BY <2>1 DEF Blind, Range
    <3>2. s.size % s.elem = 0
      <4>1. PICK r \in Range(regions) : s.size = r.size
        BY <1>3
      <4>2. Width \in Range(ElementSize) /\ s.elem = Width
        BY <1>1, <1>3, WidthIs
      <4> QED
        BY <1>1, <4>1, <4>2 DEF OnElements, OnBoundary
    <3>3. PICK c \in ScanFound(s) : TRUE
      BY <1>3, <3>2, SomethingFound
    <3> QED
      BY <1>3, <1>4, <3>1, <3>3
  <2>2. ASSUME query.type = "unknown_value", Found(scans') # << >> PROVE Blind'
    <3>1. scans' # << >>
      BY <2>2 DEF Found, Range
    <3>2. scans'[1] \in Range(scans') /\ 1 \in DOMAIN scans'
      BY <1>1, <3>1 DEF Range
    <3> QED
      BY <1>3, <2>2, <3>2 DEF Blind
  <2> QED
    BY <2>1, <2>2
<1>8. ASSUME ~ Blind', NEW a \in DOMAIN Found(scans')
      PROVE  Candidates!Meets(query, Found(scans')[a], query.raw1)
  <2>1. PICK s \in Range(scans') : \E c \in ScanFound(s) : c[1] = a /\ c[2] = Found(scans')[a]
    BY <1>4
  <2>2. PICK c \in ScanFound(s) : c[2] = Found(scans')[a]
    BY <2>1
  <2>3. s.type # "unknown_value"
    BY <1>8 DEF Blind, Range
  <2>4. PICK e \in Range(s.results) : c[2] = e.snapshot
    BY <2>3 DEF ScanFound
  <2>5. Match(query, c[2], query.raw1)
    BY <1>3, <2>4 DEF Searched, Range
  <2>6. query.raw1 \in Words /\ c[2] \in Words
    BY <1>1, <1>3, WordsFound, ArgumentAssumption DEF QueriesOf
  <2> QED
    BY <1>2, <2>2, <2>5, <2>6, MatchMeets
<1> HIDE DEF Found, Blind
<1> QED
  BY <1>1, <1>2, <1>5, <1>6, <1>7, <1>8 DEF Candidates!First, Candidates!Nothing

(* The end of next_scan: the candidates are narrowed, each by what it is   *)
(* compared with.                                                          *)
LEMMA ReturnNarrows ==
  ASSUME SessionInv, KindInv, SoundInv, Return
  PROVE  Candidates!Narrow
<1>1. /\ call = "walking" /\ call' = "idle" /\ query' = NoQuery /\ scans' = ByBase(results)
      /\ query \in QueriesOf(NextTypes)
      /\ scans \in Seq(Scans) /\ Sorted(scans) /\ results \in Seq(Scans) /\ Sorted(results)
      /\ \A s \in Range(scans) \cup Range(results) : InPlace(s)
  BY DEF Return, Leave, SessionInv, TypeOK, ScansInOrder, WalkInv
<1>2. query # NoQuery /\ query \in QueriesOf(FirstTypes \cup NextTypes)
  BY <1>1, QueryGiven, AnyQuery
<1>3. scans' \in Seq(Scans) /\ Sorted(scans') /\ Range(scans') = Range(results)
  BY <1>1, ByBaseOrders
<1>4. /\ \A s \in Range(scans) : \A c \in ScanFound(s) :
           c[1] \in DOMAIN Found(scans) /\ Found(scans)[c[1]] = c[2]
      /\ \A a \in DOMAIN Found(scans') : \E s \in Range(scans') : \E c \in ScanFound(s) :
           c[1] = a /\ c[2] = Found(scans')[a]
  <2>1. \A s \in Range(scans') : InPlace(s)
    BY <1>1, <1>3
  <2>2. \A s \in Range(scans) : \A c \in ScanFound(s) :
          c[1] \in DOMAIN Found(scans) /\ Found(scans)[c[1]] = c[2]
    BY <1>1, FoundIs
  <2>3. \A a \in DOMAIN Found(scans') : \E s \in Range(scans') : \E c \in ScanFound(s) :
          c[1] = a /\ c[2] = Found(scans')[a]
    BY <1>3, <2>1, FoundIs
  <2> QED
    BY <2>2, <2>3
<1> DEFINE Reference(a) == IF Blind \/ query.type \in Relative THEN Found(scans)[a] ELSE query.raw1
<1>5. ASSUME NEW a \in DOMAIN Found(scans')
      PROVE  a \in DOMAIN Found(scans) /\ Candidates!Meets(query, Found(scans')[a], Reference(a))
  <2>1. PICK s \in Range(results) : \E d \in ScanFound(s) : d[1] = a /\ d[2] = Found(scans')[a]
    BY <1>3, <1>4
  <2>2. PICK d \in ScanFound(s) : d[1] = a /\ d[2] = Found(scans')[a]
    BY <2>1
  <2>3. PICK p \in Range(scans) : \E c \in ScanFound(p) :
          c[1] = a /\ Match(query, d[2], Against(p, c[2]))
    BY <1>1, <2>2 DEF SoundInv
  <2>4. PICK c \in ScanFound(p) : c[1] = a /\ Match(query, d[2], Against(p, c[2]))
    BY <2>3
  <2>5. a \in DOMAIN Found(scans) /\ Found(scans)[a] = c[2]
    BY <1>4, <2>4
  <2>6. Against(p, c[2]) = Reference(a)
    <3>1. Blind <=> p.type = "unknown_value"
      BY BlindIs
    <3> QED
      BY <2>5, <3>1 DEF Against
  <2>7. d[2] \in Words /\ c[2] \in Words /\ query.raw1 \in Words
    <3>1. s \in Scans /\ p \in Scans
      BY <1>1 DEF Range
    <3> QED
      BY <1>1, <3>1, WordsFound, ArgumentAssumption DEF QueriesOf
  <2>8. Reference(a) \in Words
    BY <2>5, <2>7
  <2> HIDE DEF Reference
  <2>9. Match(query, d[2], Reference(a))
    BY <2>4, <2>6
  <2> QED
    BY <1>2, <2>2, <2>5, <2>7, <2>8, <2>9, MatchMeets
<1>6. ~ Blind'
  BY <1>3 DEF KindInv, Blind, Range
<1>7. Candidates!Relative = Relative
  BY DEF Relative, Candidates!Relative
<1> HIDE DEF Found, Blind
<1> QED
  BY <1>1, <1>2, <1>5, <1>6, <1>7 DEF Candidates!Narrow, Candidates!Reference

(* An update leaves the candidates as they are.                            *)
LEMMA UpdateKeeps ==
  ASSUME SessionInv, NEW i \in DOMAIN scans, NEW bytes \in [1 .. scans[i].size -> Bytes], Update(i, bytes)
  PROVE  Found(scans') = Found(scans) /\ Blind' = Blind
<1> DEFINE u == Updated(scans[i], bytes)
<1>1. /\ scans[i] \in Scans /\ InPlace(scans[i])
      /\ scans' = [scans EXCEPT ![i] = u] /\ scans[i].results # << >>
      /\ DOMAIN scans' = DOMAIN scans
  BY UpdateIs DEF Update
<1>2. ScanFound(u) = ScanFound(scans[i]) /\ u.type = scans[i].type
  BY <1>1, UpdateFinds, UpdatedFits
<1> HIDE DEF u
<1>3. \A j \in DOMAIN scans : ScanFound(scans'[j]) = ScanFound(scans[j]) /\ scans'[j].type = scans[j].type
  BY <1>1, <1>2
<1>4. UNION {ScanFound(s) : s \in Range(scans')} = UNION {ScanFound(s) : s \in Range(scans)}
  <2>1. {ScanFound(s) : s \in Range(scans')} = {ScanFound(s) : s \in Range(scans)}
    BY <1>1, <1>3 DEF Range
  <2> QED
    BY <2>1
<1>5. Blind' = Blind
  BY <1>1, <1>3 DEF Blind
<1> QED
  BY <1>4, <1>5, SameFound

(* Every step of the session is one of the candidate set, or changes none  *)
(* of what it shows.                                                       *)
LEMMA CandidateStep ==
  ASSUME OnElements, SizesAgree, SessionInv, KindInv, SoundInv, RestInv, [Next]_vars
  PROVE  [Candidates!Next]_<<Found(scans), Blind, call \in {"idle", "walking"},
                             IF query = NoQuery THEN << >> ELSE <<query>> >>
<1>1. CASE Collect
  BY <1>1, CollectFirst DEF Candidates!Next
<1>2. CASE Return
  BY <1>2, ReturnNarrows DEF Candidates!Next
<1> DEFINE started == call \in {"idle", "walking"}
           asked == IF query = NoQuery THEN << >> ELSE <<query>>
<1>3. ASSUME UNCHANGED scans PROVE Found(scans') = Found(scans) /\ Blind' = Blind
  BY <1>3 DEF Blind
<1>4. ASSUME NEW q \in QueriesOf(FirstTypes \cup NextTypes),
             query = NoQuery, query' = q, UNCHANGED <<scans, started>>
      PROVE  Candidates!Ask
  <2>1. asked = << >> /\ asked' = <<q>>
    BY <1>4, QueryGiven
  <2>2. Found(scans') = Found(scans) /\ Blind' = Blind /\ started' = started
    BY <1>3, <1>4
  <2> HIDE DEF Found, Blind, started, asked
  <2>3. UNCHANGED <<Found(scans), Blind, started>>
    BY <2>2
  <2>4. asked' \in {<<x>> : x \in QueriesOf(FirstTypes \cup NextTypes)}
    BY <2>1
  <2> USE DEF started, asked
  <2> QED
    BY <2>1, <2>3, <2>4, Zenon DEF Candidates!Ask
<1>5. CASE \E list \in Layouts : \E q \in QueriesOf(FirstTypes) : FirstScan(list, q)
  <2>1. PICK list \in Layouts, q \in QueriesOf(FirstTypes) : FirstScan(list, q)
    BY <1>5
  <2>2. call = "none" /\ call' = "first" /\ query' = q /\ scans' = scans /\ query = NoQuery
    BY <2>1 DEF FirstScan, RestInv
  <2>3. started' = started
    BY <2>2
  <2> HIDE DEF started
  <2> QED
    BY <1>4, <2>2, <2>3, AnyQuery DEF Candidates!Next
<1>6. CASE \E t \in Targets : \E q \in QueriesOf(NextTypes) : NextScan(t, q)
  <2>1. PICK t \in Targets, q \in QueriesOf(NextTypes) : NextScan(t, q)
    BY <1>6
  <2>2. call = "idle" /\ call' = "walking" /\ query' = q /\ scans' = scans /\ query = NoQuery
    BY <2>1 DEF NextScan, RestInv
  <2>3. started' = started
    BY <2>2
  <2> HIDE DEF started
  <2> QED
    BY <1>4, <2>2, <2>3, AnyQuery DEF Candidates!Next
<1>7. CASE Throw \/ Abort
  <2>1. query' = NoQuery /\ scans' = scans /\ started' = started
    BY <1>7 DEF Throw, Abort, Leave
  <2>2. asked' = << >>
    BY <2>1
  <2>3. Found(scans') = Found(scans) /\ Blind' = Blind
    BY <1>3, <2>1
  <2> HIDE DEF Found, Blind, started, asked
  <2>4. UNCHANGED <<Found(scans), Blind, started>>
    BY <2>1, <2>3
  <2> USE DEF started, asked
  <2>5. Candidates!Abandon
    BY <2>2, <2>4, Zenon DEF Candidates!Abandon
  <2> QED
    BY <2>5 DEF Candidates!Next
<1>8. ASSUME Found(scans') = Found(scans), Blind' = Blind, UNCHANGED <<call, query>>
      PROVE  UNCHANGED <<Found(scans), Blind, started, asked>>
  <2>1. started' = started /\ asked' = asked
    BY <1>8
  <2> HIDE DEF Found, Blind, started, asked
  <2> QED
    BY <1>8, <2>1
<1>9. CASE \E i \in DOMAIN scans : \E bytes \in [1 .. scans[i].size -> Bytes] : Update(i, bytes)
  <2>1. Found(scans') = Found(scans) /\ Blind' = Blind
    BY <1>9, UpdateKeeps
  <2>2. UNCHANGED <<call, query>>
    BY <1>9 DEF Update
  <2> QED
    BY <1>8, <2>1, <2>2, Zenon
<1>10. CASE (\E i \in DOMAIN futures : Task(i)) \/ SkipRegion \/ SkipScan \/ Consume \/ UNCHANGED vars
  <2>1. UNCHANGED <<scans, call, query>>
    BY <1>10 DEF Task, SkipRegion, SkipScan, Consume, vars
  <2> QED
    BY <1>3, <1>8, <2>1, Zenon
<1> QED
  BY <1>1, <1>2, <1>5, <1>6, <1>7, <1>9, <1>10 DEF Next, CallerStep

(* A session keeps what the candidate set promises: each scan leaves a part*)
(* of the addresses the last one found, and each of them meets the query   *)
(* next to the value it had, or next to the value asked for.               *)
THEOREM CandidatesOnlyNarrowed == OnElements /\ SizesAgree /\ Spec => CandidatesNarrowed
<1> SUFFICES ASSUME OnElements, SizesAgree PROVE Spec => CandidatesNarrowed
  OBVIOUS
<1>1. Init => BufferInv /\ KindInv /\ SoundInv /\ RestInv
  BY DEF Init, BufferInv, KindInv, SoundInv, RestInv, Range
<1>2. SessionInv /\ BufferInv /\ KindInv /\ SoundInv /\ RestInv /\ [Next]_vars
        => BufferInv' /\ KindInv' /\ SoundInv' /\ RestInv'
  BY BufferStep, KindStep, SoundStep, RestStep
<1>3. Init => Candidates!Init
  <2> SUFFICES ASSUME Init PROVE Candidates!Init
    OBVIOUS
  <2>1. scans = << >> /\ call = "none" /\ query = NoQuery
    BY DEF Init
  <2>2. Range(scans) = {} /\ ~ Blind
    BY <2>1 DEF Range, Blind
  <2>3. Found(scans) = << >>
    BY <2>2 DEF Found
  <2> HIDE DEF Found, Blind
  <2> QED
    BY <2>1, <2>2, <2>3 DEF Candidates!Init, Candidates!Nothing
<1>4. SessionInv /\ KindInv /\ SoundInv /\ RestInv /\ [Next]_vars
        => [Candidates!Next]_<<Found(scans), Blind, call \in {"idle", "walking"},
                               IF query = NoQuery THEN << >> ELSE <<query>> >>
  BY CandidateStep
<1> QED
  BY <1>1, <1>2, <1>3, <1>4, SessionInvariant, PTL DEF Spec, CandidatesNarrowed, Candidates!Spec

=============================================================================
