------------------------- MODULE RegionWalk_proofs -------------------------
(***************************************************************************)
(* For every address space, every range that begins on a page and every    *)
(* change of the target in the middle of the walk: get_regions returns     *)
(* regions of the range, in order, no two of which share an address.       *)
(***************************************************************************)
EXTENDS RegionWalk, SequenceTheorems, WellFoundedInduction, TLAPS

(* The ranges begin on a page: the one assumption about the caller.        *)
RangesOnPages == \A r \in Ranges : OnPage(r[1])

USE PageAssumption, RangesAssumption, BoundAssumption

(* The page of an address that is one holds the address itself.            *)
LEMMA PageStart ==
  ASSUME NEW a \in Nat, OnPage(a)
  PROVE  PageOf(a) \in Nat /\ PageOf(a) * PageSize = a
<1>1. PICK k \in Nat : a = k * PageSize
  BY DEF OnPage
<1>2. a \div PageSize = k
  BY <1>1, Z3
<1>3. QED
  BY <1>1, <1>2 DEF PageOf

(* What a query on a page says: a stretch of whole pages that starts there.*)
LEMMA QueryContract ==
  ASSUME NEW a \in Nat, OnPage(a), NEW mbi \in Query(a)
  PROVE  /\ mbi.base = a
         /\ mbi.size \in Nat \ {0}
         /\ OnPage(a + mbi.size)
<1>1. PICK q \in RunEnds(PageOf(a)) :
        mbi = [base |-> PageOf(a) * PageSize, size |-> (q - PageOf(a)) * PageSize,
               kind |-> layout[PageOf(a)]]
  BY DEF Query
<1>2. PageOf(a) \in Nat /\ PageOf(a) * PageSize = a
  BY PageStart
<1>3. q \in Nat /\ q - PageOf(a) \in Nat \ {0}
  BY <1>2 DEF RunEnds
<1>4. (q - PageOf(a)) * PageSize \in Nat \ {0}
  BY <1>3, Z3
<1>5. a + (q - PageOf(a)) * PageSize = q * PageSize
  BY <1>2, <1>3, Z3
<1>6. QED
  BY <1>1, <1>2, <1>3, <1>4, <1>5 DEF OnPage

(* Cut to the range, it starts where the walk stands, is not empty, and    *)
(* ends on a page or at the end of the range.                              *)
LEMMA ClipContract ==
  ASSUME WalkInv, current < Last, NEW mbi \in Query(current)
  PROVE  /\ Clip(mbi) \in Region
         /\ Clip(mbi).base = current
         /\ End(Clip(mbi)) <= Last
         /\ OnPage(End(Clip(mbi))) \/ End(Clip(mbi)) = Last
<1>1. current \in Nat /\ First \in Nat /\ Last \in Nat /\ First <= current
  BY DEF WalkInv, TypeOK, First, Last
<1>2. OnPage(current)
  BY <1>1 DEF WalkInv
<1>3. /\ mbi.base = current
      /\ mbi.size \in Nat \ {0}
      /\ OnPage(current + mbi.size)
  BY <1>1, <1>2, QueryContract
<1>4. Clip(mbi) = [base |-> current,
                   size |-> IF current + mbi.size > Last THEN Last - current ELSE mbi.size]
  BY <1>1, <1>3 DEF Clip
<1>5. CASE current + mbi.size > Last
  BY <1>1, <1>3, <1>4, <1>5 DEF Region, End
<1>6. CASE ~ (current + mbi.size > Last)
  BY <1>1, <1>3, <1>4, <1>6 DEF Region, End
<1>7. QED
  BY <1>5, <1>6

(* The walk starts with no region.                                         *)
LEMMA InitWalk == RangesOnPages /\ Init => WalkInv
<1> SUFFICES ASSUME RangesOnPages, Init PROVE WalkInv
  OBVIOUS
<1>1. TypeOK
  BY DEF Init, TypeOK, First
<1>2. OnPage(current)
  BY DEF Init, RangesOnPages, First
<1>3. First <= current
  BY DEF Init, First
<1>4. QED
  BY <1>1, <1>2, <1>3 DEF Init, WalkInv, WithinRange, InOrder

(* A region put behind the ones in the queue.                              *)
LEMMA RegionAdded ==
  ASSUME WalkInv, NEW r \in Region, r.base = current, End(r) <= Last,
         regions' = Append(regions, r), current' = End(r), UNCHANGED range
  PROVE  /\ WithinRange'
         /\ InOrder'
         /\ regions' \in Seq(Region)
         /\ \A i \in DOMAIN regions' : End(regions'[i]) <= current'
<1>1. /\ regions \in Seq(Region)
      /\ current \in Nat /\ First \in Nat /\ Last \in Nat /\ First <= current
  BY DEF WalkInv, TypeOK, First, Last
<1>2. r.base \in Nat /\ r.size \in Nat \ {0} /\ current < End(r)
  BY <1>1 DEF Region, End
<1>3. /\ regions' \in Seq(Region)
      /\ DOMAIN regions = 1 .. Len(regions)
      /\ DOMAIN regions' = 1 .. Len(regions) + 1
      /\ Len(regions) \in Nat
      /\ \A i \in 1 .. Len(regions) : regions'[i] = regions[i]
      /\ regions'[Len(regions) + 1] = r
  BY <1>1
<1>4. \A i \in 1 .. Len(regions) : regions[i] \in Region
  BY <1>1, ElementOfSeq
<1>5. \A i \in 1 .. Len(regions) :
        regions[i].base \in Nat /\ End(regions[i]) \in Nat /\ End(regions[i]) <= current
  BY <1>3, <1>4 DEF WalkInv, Region, End
<1>6. First' = First /\ Last' = Last
  BY DEF First, Last
<1>7. WithinRange'
  <2> SUFFICES ASSUME NEW i \in 1 .. Len(regions) + 1
               PROVE  First <= regions'[i].base /\ End(regions'[i]) <= Last
    BY <1>3, <1>6 DEF WithinRange, End
  <2>1. CASE i = Len(regions) + 1
    BY <1>1, <1>3, <2>1
  <2>2. CASE i \in 1 .. Len(regions)
    BY <1>3, <2>2 DEF WalkInv, WithinRange
  <2>3. QED
    BY <1>3, <2>1, <2>2
<1>8. InOrder'
  <2> SUFFICES ASSUME NEW i \in 1 .. Len(regions) + 1, NEW j \in 1 .. Len(regions) + 1, i < j
               PROVE  End(regions'[i]) <= regions'[j].base
    BY <1>3 DEF InOrder, End
  <2>1. CASE j = Len(regions) + 1
    BY <1>3, <1>5, <2>1
  <2>2. CASE j \in 1 .. Len(regions)
    BY <1>3, <2>2 DEF WalkInv, InOrder
  <2>3. QED
    BY <1>3, <2>1, <2>2
<1>9. \A i \in DOMAIN regions' : End(regions'[i]) <= current'
  <2> SUFFICES ASSUME NEW i \in 1 .. Len(regions) + 1
               PROVE  End(regions'[i]) <= End(r)
    BY <1>3
  <2>1. CASE i = Len(regions) + 1
    BY <1>2, <1>3, <2>1 DEF End
  <2>2. CASE i \in 1 .. Len(regions)
    BY <1>1, <1>2, <1>3, <1>5, <2>2 DEF End
  <2>3. QED
    BY <1>3, <2>1, <2>2
<1>10. QED
  BY <1>3, <1>7, <1>8, <1>9

(* One iteration of the loop.                                              *)
LEMMA VisitStep == WalkInv /\ Visit => WalkInv'
<1> SUFFICES ASSUME WalkInv, Visit PROVE WalkInv'
  OBVIOUS
<1>1. PICK mbi \in Query(current) :
        /\ regions' = IF Wanted(mbi.kind) THEN Append(regions, Clip(mbi)) ELSE regions
        /\ current' = Clip(mbi).base + Clip(mbi).size
  BY Zenon DEF Visit
<1>2. current < Last /\ UNCHANGED <<layout, changes, range, walk>>
  BY DEF Visit
<1>3. /\ Clip(mbi) \in Region
      /\ Clip(mbi).base = current
      /\ End(Clip(mbi)) <= Last
      /\ OnPage(End(Clip(mbi))) \/ End(Clip(mbi)) = Last
  BY <1>2, ClipContract
<1>4. current' = End(Clip(mbi))
  BY <1>1 DEF End
<1>5. /\ current \in Nat /\ Last \in Nat /\ current' \in Nat /\ current <= current'
      /\ First' = First /\ Last' = Last /\ First <= current
  BY <1>2, <1>3, <1>4 DEF WalkInv, TypeOK, Region, End, First, Last
<1>6. OnPage(current)' \/ current' >= Last'
  BY <1>3, <1>4, <1>5 DEF OnPage
<1>7. First' <= current'
  BY <1>5 DEF WalkInv, TypeOK, First
<1>8. CASE Wanted(mbi.kind)
  <2>1. /\ WithinRange'
        /\ InOrder'
        /\ regions' \in Seq(Region)
        /\ \A i \in DOMAIN regions' : End(regions'[i]) <= current'
    BY <1>1, <1>2, <1>3, <1>4, <1>8, RegionAdded
  <2>2. TypeOK'
    BY <1>2, <1>5, <2>1 DEF WalkInv, TypeOK
  <2>3. QED
    BY <1>6, <1>7, <2>1, <2>2 DEF WalkInv, End
<1>9. CASE ~ Wanted(mbi.kind)
  <2>1. regions' = regions
    BY <1>1, <1>9
  <2>2. TypeOK'
    BY <1>2, <1>5, <2>1 DEF WalkInv, TypeOK
  <2>3. WithinRange' /\ InOrder'
    BY <1>2, <2>1 DEF WalkInv, WithinRange, InOrder, First, Last, End
  <2>4. \A i \in DOMAIN regions' : End(regions'[i]) <= current'
    <3> SUFFICES ASSUME NEW i \in DOMAIN regions PROVE End(regions[i]) <= current'
      BY <2>1
    <3>1. regions[i] \in Region
      BY ElementOfSeq DEF WalkInv, TypeOK
    <3>2. End(regions[i]) \in Nat /\ End(regions[i]) <= current
      BY <3>1 DEF WalkInv, Region, End
    <3>3. QED
      BY <1>5, <3>2
  <2>5. QED
    BY <1>6, <1>7, <2>2, <2>3, <2>4 DEF WalkInv, End
<1>10. QED
  BY <1>8, <1>9

(* The other steps touch neither the queue nor the place of the walk.      *)
LEMMA OtherStep ==
  WalkInv /\ (Leave \/ QueryFails \/ Change \/ UNCHANGED vars) => WalkInv'
<1> SUFFICES ASSUME WalkInv, Leave \/ QueryFails \/ Change \/ UNCHANGED vars
             PROVE  WalkInv'
  OBVIOUS
<1>1. UNCHANGED <<range, current, regions>>
  BY DEF Leave, QueryFails, Change, vars
<1>2. TypeOK'
  <2>1. CASE Leave \/ QueryFails \/ UNCHANGED vars
    BY <2>1 DEF WalkInv, TypeOK, Leave, QueryFails, vars
  <2>2. CASE Change
    BY <2>2 DEF WalkInv, TypeOK, Change
  <2>3. QED
    BY <2>1, <2>2
<1>3. WithinRange' /\ InOrder'
  BY <1>1 DEF WalkInv, WithinRange, InOrder, First, Last, End
<1>4. /\ First' <= current'
      /\ \A i \in DOMAIN regions' : End(regions'[i]) <= current'
      /\ OnPage(current)' \/ current' >= Last'
  BY <1>1 DEF WalkInv, First, Last, End, OnPage
<1>5. QED
  BY <1>2, <1>3, <1>4 DEF WalkInv, End

(* The inductive invariant of the walk (slow_scanner::get_regions).        *)
THEOREM WalkInvariant == RangesOnPages /\ Spec => []WalkInv
<1>1. RangesOnPages /\ Init => WalkInv
  BY InitWalk
<1>2. WalkInv /\ [Next]_vars => WalkInv'
  BY VisitStep, OtherStep DEF Next
<1>3. QED
  BY <1>1, <1>2, PTL DEF Spec

(* Type correctness: no region that get_regions returns is empty.          *)
THEOREM TypesCorrect == RangesOnPages /\ Spec => []TypeOK
<1>1. WalkInv => TypeOK
  BY DEF WalkInv
<1>2. QED
  BY <1>1, WalkInvariant, PTL

(* Every region get_regions returns lies in the range asked for.           *)
THEOREM RegionsInRange == RangesOnPages /\ Spec => []WithinRange
<1>1. WalkInv => WithinRange
  BY DEF WalkInv
<1>2. QED
  BY <1>1, WalkInvariant, PTL

(* The regions are sorted and no two share an address, although the target *)
(* may change its layout between any two queries.                          *)
THEOREM RegionsInOrder == RangesOnPages /\ Spec => []InOrder
<1>1. WalkInv => InOrder
  BY DEF WalkInv
<1>2. QED
  BY <1>1, WalkInvariant, PTL

-----------------------------------------------------------------------------
(* Completeness: nothing is missing after a walk over a target that stood  *)
(* still.                                                                  *)

(* The runs that end before address c.                                     *)
RunsTo(c) == {run \in Runs : run.size > 0 /\ End(run) <= c}

(* The walk stands where a run starts, if it started there.                *)
AtSeam ==
  \/ current >= Last
  \/ current = First
  \/ \E k \in Nat \ {0} : current = k * PageSize /\ (k >= PageCount \/ layout[k - 1] # layout[k])

(* While the target stands still the list holds exactly the runs passed so *)
(* far, and a walk that is done has come to the end of the range.          *)
StillInv ==
  /\ walk = "done" => current >= Last
  /\ changes = 0 => {regions[i] : i \in DOMAIN regions} = RunsTo(current) /\ AtSeam

(* A set of numbers has a least one.                                       *)
LEMMA LeastNatural ==
  ASSUME NEW T \in SUBSET Nat, T # {}
  PROVE  \E m \in T : \A n \in T : m <= n
<1> DEFINE R == OpToRel(<, Nat)
<1>1. IsWellFoundedOn(R, Nat)
  BY NatLessThanWellFounded, Zenon
<1>2. \A x, y \in Nat : <<y, x>> \notin R => x <= y
  BY SMT DEF OpToRel
<1> HIDE DEF R
<1>3. PICK x \in T : \A y \in T : <<y, x>> \notin R
  BY <1>1, WFMin, Zenon
<1>4. QED
  BY <1>2, <1>3

(* Pages are in the order of their addresses.                              *)
LEMMA PageOrder ==
  ASSUME NEW i \in Int, NEW j \in Int
  PROVE  i < j <=> i * PageSize < j * PageSize
<1>1. (j - i) * PageSize = j * PageSize - i * PageSize
  BY Z3
<1>2. i < j => (j - i) * PageSize > 0
  BY Z3
<1>3. ~ (i < j) => (i - j) * PageSize >= 0
  BY Z3
<1>4. (i - j) * PageSize = i * PageSize - j * PageSize
  BY Z3
<1>5. i * PageSize \in Int /\ j * PageSize \in Int
  BY Z3
<1>6. QED
  BY <1>1, <1>2, <1>3, <1>4, <1>5

(* Where a piece begins and, unless it is empty, ends.                     *)
LEMMA PieceEnds ==
  ASSUME First \in Nat, Last \in Nat, NEW p \in Nat, NEW q \in Nat
  PROVE  LET first == IF First < p * PageSize THEN p * PageSize ELSE First
             last == IF Last < q * PageSize THEN Last ELSE q * PageSize
         IN  /\ first \in Nat /\ last \in Nat
             /\ Piece(p, q) = [base |-> first, size |-> last - first]
             /\ End(Piece(p, q)) = last
<1> DEFINE a == p * PageSize
           b == q * PageSize
<1>1. a \in Nat /\ b \in Nat
  BY Z3
<1>2. Piece(p, q) = [base |-> Max({First, a}), size |-> Min({Last, b}) - Max({First, a})]
  BY DEF Piece
<1> HIDE DEF a, b
<1>3. Max({First, a}) = IF First < a THEN a ELSE First
  BY <1>1 DEF Max
<1>4. Min({Last, b}) = IF Last < b THEN Last ELSE b
  BY <1>1 DEF Min
<1>5. /\ (IF First < a THEN a ELSE First) \in Nat
      /\ (IF Last < b THEN Last ELSE b) \in Nat
      /\ Piece(p, q) = [base |-> IF First < a THEN a ELSE First,
                        size |-> (IF Last < b THEN Last ELSE b) - IF First < a THEN a ELSE First]
      /\ End(Piece(p, q)) = IF Last < b THEN Last ELSE b
  BY <1>1, <1>2, <1>3, <1>4 DEF End
<1>6. QED
  BY <1>5 DEF a, b

(* Every page is in a run of equal pages that starts somewhere.            *)
LEMMA RunStart ==
  ASSUME NEW k \in Pages
  PROVE  \E p \in 0 .. k : /\ \A n \in p .. k : layout[n] = layout[k]
                           /\ p > 0 => layout[p - 1] # layout[k]
<1> DEFINE T == {p \in 0 .. k : \A n \in p .. k : layout[n] = layout[k]}
<1>1. k \in Nat
  BY DEF Pages
<1>2. k \in T /\ T \in SUBSET Nat
  BY <1>1
<1>3. PICK p \in T : \A n \in T : p <= n
  BY <1>2, LeastNatural
<1>4. ASSUME p > 0, layout[p - 1] = layout[k]
      PROVE  FALSE
  <2>1. p - 1 \in T
    BY <1>1, <1>3, <1>4
  <2>2. QED
    BY <1>1, <1>3, <2>1
<1>5. QED
  BY <1>3, <1>4

(* What an iteration adds to the runs that end before the walk, and where  *)
(* it leads.                                                               *)
LEMMA VisitFinds ==
  ASSUME WalkInv, AtSeam, current < Last, NEW mbi \in Query(current)
  PROVE  LET c == End(Clip(mbi)) IN
         /\ RunsTo(c) = RunsTo(current) \cup (IF Wanted(mbi.kind) THEN {Clip(mbi)} ELSE {})
         /\ \/ c >= Last
            \/ \E k \in Nat \ {0} : c = k * PageSize /\ (k >= PageCount \/ layout[k - 1] # layout[k])
<1> DEFINE c == End(Clip(mbi))
<1>1. /\ current \in Nat /\ First \in Nat /\ Last \in Nat /\ First <= current
      /\ OnPage(current)
  BY DEF WalkInv, TypeOK, First, Last
<1>2. PICK k \in Nat : current = k * PageSize /\ k = PageOf(current)
  BY <1>1, PageStart
<1>3. PICK q \in RunEnds(k) :
        mbi = [base |-> k * PageSize, size |-> (q - k) * PageSize, kind |-> layout[k]]
  BY <1>2 DEF Query
<1>4. /\ q \in 1 .. PageCount /\ k < q /\ k \in Pages
      /\ \A n \in k .. q - 1 : layout[n] = layout[k]
      /\ q = PageCount \/ layout[q] # layout[k]
  BY <1>2 DEF RunEnds, Pages
<1> DEFINE b == q * PageSize
<1>5. b \in Nat /\ current + (q - k) * PageSize = b /\ (q - k) * PageSize = b - current
  BY <1>2, <1>4, Z3
<1>6. current < b
  BY <1>2, <1>4, PageOrder
<1>7. /\ Clip(mbi) = [base |-> current, size |-> c - current]
      /\ c = IF Last < b THEN Last ELSE b
      /\ c \in Nat /\ current < c
  <2> HIDE DEF b
  <2>1. mbi.base = current /\ mbi.size = b - current
    BY <1>2, <1>3, <1>5
  <2>2. Clip(mbi) = [base |-> current, size |-> IF b > Last THEN Last - current ELSE b - current]
    BY <1>1, <1>5, <2>1 DEF Clip
  <2>3. c = IF Last < b THEN Last ELSE b
    BY <1>1, <1>5, <2>2 DEF End
  <2>4. Clip(mbi) = [base |-> current, size |-> c - current]
    BY <1>1, <1>5, <2>2, <2>3
  <2>5. QED
    BY <1>1, <1>5, <1>6, <2>3, <2>4
<1>8. mbi.kind = layout[k]
  BY <1>3
<1> HIDE DEF c
<1>9. ASSUME NEW run \in RunsTo(c), run \notin RunsTo(current)
      PROVE  Wanted(mbi.kind) /\ run = Clip(mbi)
  <2>1. PICK p \in Pages, e \in 1 .. PageCount : run = Piece(p, e) /\ IsRun(p, e)
    BY DEF RunsTo, Runs
  <2>2. p \in Nat /\ e \in Nat /\ p < e
    BY <2>1 DEF Pages, IsRun
  <2> DEFINE pa == p * PageSize
             ea == e * PageSize
             first == IF First < pa THEN pa ELSE First
             last == IF Last < ea THEN Last ELSE ea
  <2>3. /\ first \in Nat /\ last \in Nat
        /\ run = [base |-> first, size |-> last - first] /\ End(run) = last
    BY <1>1, <2>1, <2>2, PieceEnds
  <2>4. pa \in Nat /\ ea \in Nat
    BY <2>2, Z3
  <2>5. last - first > 0 /\ last <= c /\ ~ (last <= current)
    BY <1>9, <2>3 DEF RunsTo
  <2>6. current < ea /\ pa < b
    <3> HIDE DEF pa, ea, b
    <3>1. QED
      BY <1>1, <1>5, <1>7, <2>3, <2>4, <2>5
  <2>7. k < e
    BY <1>2, <2>2, <2>6, PageOrder
  <2>8. p < q
    BY <1>4, <2>2, <2>6, PageOrder
  <2>9. p <= k
    <3> SUFFICES ASSUME k < p PROVE FALSE
      BY <2>2
    <3>1. layout[p - 1] = layout[k] /\ layout[p] = layout[k]
      BY <1>4, <2>2, <2>8
    <3>2. QED
      BY <2>1, <2>2, <3>1 DEF IsRun
  <2>10. layout[p] = layout[k]
    BY <2>1, <2>2, <2>7, <2>9 DEF IsRun
  <2>11. e = q
    <3>1. CASE q < e
      BY <1>4, <2>1, <2>2, <2>8, <2>10, <3>1 DEF IsRun
    <3>2. CASE e < q
      BY <1>4, <2>1, <2>2, <2>7, <2>10, <3>2 DEF IsRun
    <3>3. QED
      BY <1>4, <2>2, <3>1, <3>2
  <2>12. last = c
    BY <1>7, <2>11
  <2>13. first = current
    <3>1. CASE p = k
      BY <1>1, <1>2, <3>1
    <3>2. CASE p < k
      <4>1. pa < current
        BY <1>2, <2>2, <3>2, PageOrder
      <4>2. current = First
        <5> SUFFICES ASSUME NEW n \in Nat \ {0}, current = n * PageSize,
                            n >= PageCount \/ layout[n - 1] # layout[n]
                     PROVE  FALSE
          BY <1>1 DEF AtSeam
        <5>1. n = k
          BY <1>2, PageOrder
        <5>2. layout[k - 1] = layout[p]
          BY <2>1, <2>2, <2>7, <3>2 DEF IsRun
        <5>3. QED
          BY <1>4, <2>10, <5>1, <5>2 DEF Pages
      <4>3. QED
        <5> HIDE DEF pa
        <5>1. QED
          BY <1>1, <2>4, <4>1, <4>2
    <3>3. QED
      BY <2>2, <2>9, <3>1, <3>2
  <2>14. Wanted(mbi.kind)
    BY <1>8, <2>1, <2>10 DEF IsRun
  <2>15. QED
    BY <1>7, <2>3, <2>12, <2>13, <2>14
<1>10. RunsTo(current) \subseteq RunsTo(c)
  <2> SUFFICES ASSUME NEW run \in RunsTo(current)
               PROVE  End(run) <= c
    BY DEF RunsTo
  <2>1. PICK p \in Pages, e \in 1 .. PageCount : run = Piece(p, e)
    BY DEF RunsTo, Runs
  <2>2. p \in Nat /\ e \in Nat
    BY DEF Pages
  <2>3. End(run) \in Nat
    <3>1. End(run) = IF Last < e * PageSize THEN Last ELSE e * PageSize
      BY <1>1, <2>1, <2>2, PieceEnds
    <3>2. e * PageSize \in Nat
      BY <2>2, Z3
    <3>3. QED
      BY <1>1, <3>1, <3>2
  <2>4. QED
    BY <1>1, <1>7, <2>3 DEF RunsTo
<1>11. ASSUME Wanted(mbi.kind)
       PROVE  Clip(mbi) \in RunsTo(c)
  <2> SUFFICES ASSUME NEW p \in 0 .. k, IsRun(p, q),
                      p = k \/ current = First
               PROVE  Clip(mbi) \in RunsTo(c)
    <3>1. PICK p \in 0 .. k : /\ \A n \in p .. k : layout[n] = layout[k]
                              /\ p > 0 => layout[p - 1] # layout[k]
      BY <1>4, RunStart
    <3>2. IsRun(p, q)
      <4>1. layout[p] = layout[k]
        BY <3>1
      <4>2. \A n \in p .. q - 1 : layout[n] = layout[p]
        BY <1>4, <3>1, <4>1
      <4>3. QED
        BY <1>4, <1>8, <1>11, <3>1, <4>1, <4>2 DEF IsRun
    <3>3. p = k \/ current = First
      <4> SUFFICES ASSUME NEW n \in Nat \ {0}, current = n * PageSize,
                          n >= PageCount \/ layout[n - 1] # layout[n], p < k
                   PROVE  FALSE
        BY <1>1 DEF AtSeam
      <4>1. n = k
        BY <1>2, PageOrder
      <4>2. QED
        BY <1>4, <3>1, <4>1 DEF Pages
    <3>4. QED
      BY <3>2, <3>3
  <2> DEFINE pa == p * PageSize
  <2>1. pa \in Nat
    BY Z3
  <2>2. pa <= current
    BY <1>2, PageOrder
  <2>3. /\ Piece(p, q) = [base |-> IF First < pa THEN pa ELSE First,
                          size |-> c - IF First < pa THEN pa ELSE First]
        /\ End(Piece(p, q)) = c
    BY <1>1, <1>4, <1>7, PieceEnds
  <2>4. (IF First < pa THEN pa ELSE First) = current
    <3>1. p = k => pa = current
      BY <1>2
    <3> HIDE DEF pa
    <3>2. QED
      BY <1>1, <2>1, <2>2, <3>1
  <2>5. Piece(p, q) = Clip(mbi)
    BY <1>7, <2>3, <2>4
  <2>6. p \in Pages
    BY <1>4 DEF Pages
  <2>7. Piece(p, q) \in Runs
    <3> DEFINE pair == <<p, q>>
    <3>1. pair \in {run \in Pages \X (1 .. PageCount) : IsRun(run[1], run[2])}
      BY <1>4, <2>6
    <3>2. Piece(pair[1], pair[2]) \in Runs
      <4> HIDE DEF pair
      <4>1. QED
        BY <3>1, Zenon DEF Runs
    <3>3. QED
      BY <3>2
  <2>8. Clip(mbi).size > 0
    BY <1>1, <1>7
  <2>9. QED
    BY <1>7, <2>3, <2>5, <2>7, <2>8 DEF RunsTo
<1>12. \/ c >= Last
       \/ \E n \in Nat \ {0} : c = n * PageSize /\ (n >= PageCount \/ layout[n - 1] # layout[n])
  <2>1. CASE Last < b
    BY <1>1, <1>7, <2>1
  <2>2. CASE ~ (Last < b)
    <3>1. c = q * PageSize
      BY <1>7, <2>2
    <3>2. layout[q - 1] = layout[k]
      BY <1>4
    <3>3. QED
      BY <1>4, <3>1, <3>2
  <2>3. QED
    BY <2>1, <2>2
<1>13. QED
  BY <1>9, <1>10, <1>11, <1>12 DEF c

(* The walk starts where no run has ended.                                 *)
LEMMA StillInit == RangesOnPages /\ Init => StillInv
<1> SUFFICES ASSUME RangesOnPages, Init PROVE StillInv
  OBVIOUS
<1>1. First \in Nat /\ Last \in Nat /\ current = First
  BY DEF Init, First, Last
<1>2. ASSUME NEW run \in RunsTo(current) PROVE FALSE
  <2>1. PICK p \in Pages, e \in 1 .. PageCount : run = Piece(p, e)
    BY DEF RunsTo, Runs
  <2>2. p \in Nat /\ e \in Nat
    BY DEF Pages
  <2> DEFINE first == IF First < p * PageSize THEN p * PageSize ELSE First
             last == IF Last < e * PageSize THEN Last ELSE e * PageSize
  <2>3. /\ first \in Nat /\ last \in Nat
        /\ run = [base |-> first, size |-> last - first] /\ End(run) = last
    BY <1>1, <2>1, <2>2, PieceEnds
  <2>4. First <= first
    BY <1>1, <2>2, <2>3
  <2> HIDE DEF first, last
  <2>5. QED
    BY <1>1, <2>3, <2>4 DEF RunsTo
<1>3. {regions[i] : i \in DOMAIN regions} = {}
  BY DEF Init
<1>4. walk # "done"
  BY DEF Init
<1>5. QED
  BY <1>1, <1>2, <1>3, <1>4 DEF StillInv, AtSeam

(* The runs of a target that does not change.                              *)
LEMMA RunsStay ==
  ASSUME UNCHANGED <<layout, range>>
  PROVE  Runs' = Runs
  BY DEF Runs, IsRun, Piece, Wanted, First, Last

(* An iteration adds the run that it stands on, if it is wanted.           *)
LEMMA StillVisit == WalkInv /\ StillInv /\ Visit => StillInv'
<1> SUFFICES ASSUME WalkInv, StillInv, Visit PROVE StillInv'
  OBVIOUS
<1>1. PICK mbi \in Query(current) :
        /\ regions' = IF Wanted(mbi.kind) THEN Append(regions, Clip(mbi)) ELSE regions
        /\ current' = Clip(mbi).base + Clip(mbi).size
  BY Zenon DEF Visit
<1>2. current < Last /\ UNCHANGED <<layout, changes, range, walk>> /\ walk = "on"
  BY DEF Visit
<1>3. current' = End(Clip(mbi))
  BY <1>1 DEF End
<1>4. ASSUME changes = 0
      PROVE  {regions'[i] : i \in DOMAIN regions'} = RunsTo(current)' /\ AtSeam'
  <2>1. AtSeam /\ {regions[i] : i \in DOMAIN regions} = RunsTo(current)
    BY <1>4 DEF StillInv
  <2>2. /\ RunsTo(current') = RunsTo(current) \cup (IF Wanted(mbi.kind) THEN {Clip(mbi)} ELSE {})
        /\ \/ current' >= Last
           \/ \E k \in Nat \ {0} :
                current' = k * PageSize /\ (k >= PageCount \/ layout[k - 1] # layout[k])
    BY <1>2, <1>3, <2>1, VisitFinds
  <2>3. RunsTo(current)' = RunsTo(current')
    BY <1>2, RunsStay DEF RunsTo, End
  <2>4. {regions'[i] : i \in DOMAIN regions'}
          = {regions[i] : i \in DOMAIN regions} \cup (IF Wanted(mbi.kind) THEN {Clip(mbi)} ELSE {})
    <3>1. CASE Wanted(mbi.kind)
      <4>1. /\ regions \in Seq(Region) /\ Len(regions) \in Nat
            /\ DOMAIN regions = 1 .. Len(regions)
        BY DEF WalkInv, TypeOK
      <4>2. /\ DOMAIN regions' = 1 .. Len(regions) + 1
            /\ \A i \in 1 .. Len(regions) : regions'[i] = regions[i]
            /\ regions'[Len(regions) + 1] = Clip(mbi)
        BY <1>1, <3>1, <4>1
      <4>3. 1 .. Len(regions) + 1 = (1 .. Len(regions)) \cup {Len(regions) + 1}
        BY <4>1
      <4>4. QED
        BY <3>1, <4>1, <4>2, <4>3
    <3>2. CASE ~ Wanted(mbi.kind)
      BY <1>1, <3>2
    <3>3. QED
      BY <3>1, <3>2
  <2>5. AtSeam'
    BY <1>2, <2>2 DEF AtSeam, Last
  <2>6. QED
    BY <2>1, <2>2, <2>3, <2>4, <2>5
<1>5. QED
  BY <1>2, <1>4 DEF StillInv

(* The other steps: the loop ends at the end of the range only, and a      *)
(* change of the target is counted.                                        *)
LEMMA StillOther ==
  WalkInv /\ StillInv /\ (Leave \/ QueryFails \/ Change \/ UNCHANGED vars) => StillInv'
<1> SUFFICES ASSUME WalkInv, StillInv, Leave \/ QueryFails \/ Change \/ UNCHANGED vars
             PROVE  StillInv'
  OBVIOUS
<1>1. CASE Change
  <2>1. changes' # 0
    BY <1>1 DEF Change, WalkInv, TypeOK
  <2>2. walk' = "on"
    BY <1>1 DEF Change
  <2>3. QED
    BY <2>1, <2>2 DEF StillInv
<1>2. CASE Leave \/ QueryFails \/ UNCHANGED vars
  <2>1. UNCHANGED <<layout, changes, range, current, regions>>
    BY <1>2 DEF Leave, QueryFails, vars
  <2>2. RunsTo(current)' = RunsTo(current) /\ (AtSeam' <=> AtSeam)
    BY <2>1, RunsStay DEF RunsTo, End, AtSeam, First, Last
  <2>3. walk' = "done" => current' >= Last'
    BY <1>2, <2>1 DEF Leave, QueryFails, vars, StillInv, Last
  <2>4. QED
    BY <2>1, <2>2, <2>3 DEF StillInv
<1>3. QED
  BY <1>1, <1>2

(* A walk that reached the end of the range while the target stood still   *)
(* has found every wanted run of the range, cut to the range, and nothing  *)
(* else: get_regions is complete.                                          *)
THEOREM RunsFound == RangesOnPages /\ Spec => []FindsRuns
<1>1. RangesOnPages /\ Init => StillInv
  BY StillInit
<1>2. WalkInv /\ StillInv /\ [Next]_vars => StillInv'
  BY StillVisit, StillOther DEF Next
<1>3. WalkInv /\ StillInv => FindsRuns
  <2> SUFFICES ASSUME WalkInv, StillInv, walk = "done", changes = 0
               PROVE  {regions[i] : i \in DOMAIN regions} = {run \in Runs : run.size > 0}
    BY DEF FindsRuns
  <2>1. current >= Last /\ {regions[i] : i \in DOMAIN regions} = RunsTo(current)
    BY DEF StillInv
  <2>2. current \in Nat /\ First \in Nat /\ Last \in Nat
    BY DEF WalkInv, TypeOK, First, Last
  <2>3. ASSUME NEW run \in Runs PROVE End(run) <= current
    <3>1. PICK p \in Pages, e \in 1 .. PageCount : run = Piece(p, e)
      BY DEF Runs
    <3>2. p \in Nat /\ e \in Nat /\ e * PageSize \in Nat
      BY Z3 DEF Pages
    <3>3. End(run) = IF Last < e * PageSize THEN Last ELSE e * PageSize
      BY <2>2, <3>1, <3>2, PieceEnds
    <3>4. QED
      BY <2>1, <2>2, <3>2, <3>3
  <2>4. QED
    BY <2>1, <2>3 DEF RunsTo
<1>4. QED
  BY <1>1, <1>2, <1>3, WalkInvariant, PTL DEF Spec

=============================================================================
