------------------------- MODULE DumpRegions_proofs -------------------------
(***************************************************************************)
(* Proofs about DumpRegions, for any number of regions of any sizes and    *)
(* any page size.  Whichever system calls fail, no two regions share a     *)
(* byte of the file and the regions implement private snapshots; as long   *)
(* as the file can be grown and mapped, write() also stays in its views.   *)
(***************************************************************************)
EXTENDS DumpRegions, MFile_proofs

-----------------------------------------------------------------------------

(* What a region that a step leaves alone keeps, however far the file and  *)
(* its views grew meanwhile.                                               *)
LEMMA RegionKept ==
  ASSUME RegionInv, NEW q \in Regions, ViewsKept, offset' \in Nat, offset <= offset',
         data'[q] = data[q], maps'[q] = maps[q], reserved'[q] = reserved[q],
         phase'[q] = "copying" => reserved[q]
  PROVE  /\ RegionOK(q)'
         /\ reserved[q] => Position(data[q][1])' = Position(data[q][1])
<1>1. RegionOK(q) /\ offset \in Nat /\ RegionSize[q] \in Nat
  BY RegionSizeAssumption DEF RegionInv, FileInv, FileTypeOK
<1>2. ASSUME reserved[q]
      PROVE  /\ Len(data[q]) = 1 /\ data[q][1] \in Span
             /\ data[q][1].map \in 1 .. Len(views) /\ data[q][1].map \in maps[q]
             /\ views[data[q][1].map] \in View
  <2>1. /\ data[q] \in Seq(Span) /\ Len(data[q]) = 1 /\ maps[q] \subseteq 1 .. Len(views)
        /\ data[q][1].map \in maps[q] /\ views \in Seq(View)
    BY <1>1, <1>2 DEF RegionInv, TypeOK, FileTypeOK, RegionOK
  <2>2. data[q][1] \in Span
    BY <2>1
  <2>3. data[q][1].map \in 1 .. Len(views)
    BY <2>1
  <2>4. views[data[q][1].map] \in View
    BY <2>1, <2>3, ElementOfSeq, Zenon
  <2>5. QED
    BY <2>1, <2>2, <2>3, <2>4
<1>3. ASSUME reserved[q] PROVE views'[data[q][1].map] = views[data[q][1].map]
  BY <1>2, <1>3 DEF ViewsKept
<1>4. ASSUME reserved[q] PROVE Position(data[q][1])' = Position(data[q][1])
  BY <1>3, <1>4 DEF Position
<1>5. ASSUME reserved[q] PROVE Position(data[q][1]) \in Nat
  BY <1>2, <1>5 DEF Position, View, Span
<1>6. ASSUME reserved[q]
      PROVE  Position(data[q][1]) + RegionSize[q] <= offset'
  <2>1. Position(data[q][1]) + RegionSize[q] <= offset
    BY <1>1, <1>6 DEF RegionOK
  <2> DEFINE p == Position(data[q][1])
  <2>2. p \in Nat
    BY <1>5, <1>6
  <2> HIDE DEF p
  <2>3. QED
    BY <1>1, <2>1, <2>2 DEF p
<1>7. RegionOK(q)'
  BY <1>1, <1>3, <1>4, <1>6, Zenon DEF RegionOK
<1>8. QED
  BY <1>4, <1>7

(* Disjointness in terms of _data[0], the only span a region uses.         *)
Apart(r, q) ==
  \/ Position(data[r][1]) + RegionSize[r] <= Position(data[q][1])
  \/ Position(data[q][1]) + RegionSize[q] <= Position(data[r][1])

(* SpansDisjoint says of reserved regions that their places are apart.     *)
LEMMA SpansApart ==
  TypeOK /\ (\A r \in Regions : RegionOK(r)) =>
    (SpansDisjoint <=> \A r, q \in Regions : r # q /\ reserved[r] /\ reserved[q] => Apart(r, q))
<1> SUFFICES ASSUME TypeOK, \A r \in Regions : RegionOK(r)
    PROVE  SpansDisjoint <=> \A r, q \in Regions : r # q /\ reserved[r] /\ reserved[q] => Apart(r, q)
  OBVIOUS
<1>1. ASSUME NEW r \in Regions
      PROVE  /\ reserved[r] => DOMAIN data[r] = {1} /\ data[r][1].len = RegionSize[r]
             /\ ~ reserved[r] => DOMAIN data[r] = {}
  <2>1. RegionOK(r) /\ data[r] \in Seq(Span)
    BY DEF TypeOK
  <2>2. ~ reserved[r] => DOMAIN data[r] = {}
    BY <2>1 DEF RegionOK
  <2>3. reserved[r] => Len(data[r]) = 1 /\ data[r][1].len = RegionSize[r]
    BY <2>1 DEF RegionOK
  <2>4. DOMAIN data[r] = 1 .. Len(data[r]) /\ 1 .. 1 = {1}
    BY <2>1
  <2>5. QED
    BY <2>2, <2>3, <2>4, Zenon
<1>2. ASSUME SpansDisjoint, NEW r \in Regions, NEW q \in Regions, r # q, reserved[r], reserved[q]
      PROVE  Apart(r, q)
  <2>1. 1 \in DOMAIN data[r] /\ 1 \in DOMAIN data[q]
    BY <1>1, <1>2
  <2>2. \/ Position(data[r][1]) + data[r][1].len <= Position(data[q][1])
        \/ Position(data[q][1]) + data[q][1].len <= Position(data[r][1])
    BY <1>2, <2>1, Zenon DEF SpansDisjoint
  <2>3. data[r][1].len = RegionSize[r] /\ data[q][1].len = RegionSize[q]
    BY <1>1, <1>2
  <2>4. QED
    BY <2>2, <2>3, Zenon DEF Apart
<1>3. ASSUME \A r, q \in Regions : r # q /\ reserved[r] /\ reserved[q] => Apart(r, q)
      PROVE  SpansDisjoint
  <2> SUFFICES ASSUME NEW r \in Regions, NEW q \in Regions, r # q,
                      NEW i \in DOMAIN data[r], NEW j \in DOMAIN data[q]
      PROVE  \/ Position(data[r][i]) + data[r][i].len <= Position(data[q][j])
             \/ Position(data[q][j]) + data[q][j].len <= Position(data[r][i])
    BY Zenon DEF SpansDisjoint
  <2>1. i = 1 /\ j = 1 /\ reserved[r] /\ reserved[q]
    BY <1>1
  <2>2. data[r][1].len = RegionSize[r] /\ data[q][1].len = RegionSize[q]
    BY <1>1, <2>1
  <2>3. Apart(r, q)
    BY <1>3, <2>1
  <2>4. QED
    BY <2>1, <2>2, <2>3, Zenon DEF Apart
<1>4. QED
  BY <1>2, <1>3, Zenon

(* The span a successful write() hands out to a region of size n.          *)
NewSpan(n) == [map |-> currentMap', at |-> mapOffset' - n, len |-> n]

(* A reservation that failed leaves every region and every byte as it was. *)
ReserveFailed ==
  /\ WriteFailed
  /\ data' = data /\ maps' = maps /\ reserved' = reserved /\ phase' = phase

(* One that succeeded gives the region its only span.                      *)
ReserveSucceeded(r) ==
  /\ WriteSucceeded(Zeros(RegionSize[r]))
  /\ data' = [data EXCEPT ![r] = <<NewSpan(RegionSize[r])>>]
  /\ maps' = [maps EXCEPT ![r] = @ \cup {currentMap'}]
  /\ reserved' = [reserved EXCEPT ![r] = TRUE]
  /\ phase' = [phase EXCEPT ![r] = "copying"]

(* What a region of n bytes asks write() to store.                         *)
LEMMA ZerosSeq ==
  ASSUME NEW n \in Nat \ {0}
  PROVE  Zeros(n) \in Seq(Bytes) /\ Len(Zeros(n)) = n /\ Zeros(n) # << >>
<1>1. Zeros(n) \in Seq(Bytes) /\ Len(Zeros(n)) = n
  BY ZeroAssumption DEF Zeros
<1>2. QED
  BY <1>1

(* The first half of read_memory() either fails or gives the region its    *)
(* span; what write() promises of the file holds in both cases.            *)
LEMMA ReserveContract ==
  ASSUME RegionInv, NEW r \in Regions, Reserve(r)
  PROVE  FileInv' /\ ViewsKept /\ (ReserveFailed \/ ReserveSucceeded(r))
<1> DEFINE n == RegionSize[r]
           span == Returned(n)
<1>1. n \in Nat \ {0}
  BY RegionSizeAssumption
<1>2. /\ data \in [Regions -> Seq(Span)]
      /\ reserved \in [Regions -> BOOLEAN]
      /\ maps \in [Regions -> SUBSET (1 .. Len(views))]
      /\ phase \in [Regions -> {"idle", "copying", "gone"}]
  BY DEF RegionInv, TypeOK
<1>3. /\ ~ reserved[r]
      /\ Write(Zeros(n))
      /\ data' = [data EXCEPT ![r] = @ \o span]
      /\ maps' = [maps EXCEPT ![r] = IF span = << >> THEN @ ELSE @ \cup {span[1].map}]
      /\ reserved' = [reserved EXCEPT ![r] = span # << >>]
      /\ phase' = [phase EXCEPT ![r] = IF span = << >> THEN @ ELSE "copying"]
  BY Zenon DEF Reserve
<1>4. data[r] = << >>
  BY <1>3, Zenon DEF RegionInv, RegionOK
<1>5. FileInv
  BY DEF RegionInv
<1>6. FileInv' /\ ViewsKept /\ (WriteFailed \/ WriteSucceeded(Zeros(n)))
  BY <1>1, <1>3, <1>5, ZerosSeq, WriteContract, Zenon
<1>7. CASE WriteFailed
  <2>1. span = << >>
    BY <1>7 DEF WriteFailed, Returned
  <2> HIDE DEF span
  <2>2. data' = data /\ maps' = maps /\ reserved' = reserved /\ phase' = phase
    BY <1>2, <1>3, <1>4, <2>1
  <2>3. QED
    BY <1>6, <1>7, <2>2 DEF ReserveFailed
<1>8. CASE WriteSucceeded(Zeros(n))
  <2>1. offset' # offset
    <3>1. offset' = offset + n /\ offset \in Nat
      BY <1>1, <1>5, <1>8, ZerosSeq DEF WriteSucceeded, FileInv, FileTypeOK
    <3>2. QED
      BY <1>1, <3>1
  <2>2. span = <<NewSpan(n)>>
    BY <2>1 DEF Returned, NewSpan
  <2> HIDE DEF span
  <2>3. span # << >> /\ span[1].map = currentMap'
    BY <2>2 DEF NewSpan
  <2>4. /\ maps' = [maps EXCEPT ![r] = @ \cup {currentMap'}]
        /\ reserved' = [reserved EXCEPT ![r] = TRUE]
        /\ phase' = [phase EXCEPT ![r] = "copying"]
    BY <1>2, <1>3, <2>3
  <2>5. data' = [data EXCEPT ![r] = <<NewSpan(n)>>]
    <3>1. << >> \o span = span
      BY <2>2
    <3>2. QED
      BY <1>3, <1>4, <2>2, <3>1
  <2>6. QED
    BY <1>6, <1>8, <2>4, <2>5 DEF ReserveSucceeded
<1>9. QED
  BY <1>6, <1>7, <1>8


(* Every region is in place after a step, and so are the types.            *)
InPlace == TypeOK /\ FileInv /\ \A r \in Regions : RegionOK(r)

(* A step after which all regions are in place, and the reserved ones that *)
(* were apart still are, keeps the invariant.                              *)
LEMMA InvFromApart ==
  ASSUME InPlace',
         \A r, q \in Regions : r # q /\ reserved'[r] /\ reserved'[q] => Apart(r, q)'
  PROVE  RegionInv'
<1>1. (TypeOK /\ \A r \in Regions : RegionOK(r))' =>
        (SpansDisjoint <=> \A r, q \in Regions : r # q /\ reserved[r] /\ reserved[q] => Apart(r, q))'
  BY SpansApart, PTL
<1>2. SpansDisjoint'
  BY <1>1 DEF InPlace
<1>3. QED
  BY <1>2 DEF InPlace, RegionInv

(* The same invariant unprimed, in the form the steps use it.              *)
LEMMA InvApart ==
  ASSUME RegionInv
  PROVE  /\ InPlace
         /\ \A r, q \in Regions : r # q /\ reserved[r] /\ reserved[q] => Apart(r, q)
  BY SpansApart DEF RegionInv, InPlace

(* A reserved region's place in the file is a number.                      *)
LEMMA PositionNat ==
  ASSUME RegionInv, NEW r \in Regions, reserved[r]
  PROVE  /\ Position(data[r][1]) \in Nat
         /\ Position(data[r][1]) + RegionSize[r] <= offset
<1>1. /\ RegionOK(r) /\ data[r] \in Seq(Span) /\ maps[r] \subseteq 1 .. Len(views)
      /\ views \in Seq(View)
  BY DEF RegionInv, TypeOK, FileTypeOK
<1>2. /\ Len(data[r]) = 1 /\ data[r][1].map \in maps[r]
      /\ Position(data[r][1]) + RegionSize[r] <= offset
  BY <1>1, Zenon DEF RegionOK
<1>3. data[r][1] \in Span /\ data[r][1].map \in 1 .. Len(views)
  BY <1>1, <1>2
<1>4. views[data[r][1].map] \in View
  BY <1>1, <1>3, ElementOfSeq, Zenon
<1>5. Position(data[r][1]) \in Nat
  BY <1>3, <1>4 DEF Position, Span, View
<1>6. QED
  BY <1>2, <1>5

(* A failed reservation keeps the invariant.                               *)
LEMMA FailedKeepsInv ==
  ASSUME RegionInv, FileInv', ViewsKept, ReserveFailed
  PROVE  RegionInv'
<1>1. /\ data' = data /\ maps' = maps /\ reserved' = reserved /\ phase' = phase
      /\ offset' = offset /\ offset \in Nat
  BY DEF ReserveFailed, WriteFailed, RegionInv, FileInv, FileTypeOK
<1>2. ASSUME NEW q \in Regions
      PROVE  RegionOK(q)' /\ (reserved[q] => Position(data[q][1])' = Position(data[q][1]))
  <2>1. phase'[q] = "copying" => reserved[q]
    BY <1>1 DEF RegionInv, RegionOK
  <2>2. offset' \in Nat /\ offset <= offset'
    BY <1>1
  <2>3. QED
    BY <1>1, <2>1, <2>2, RegionKept, Zenon
<1>3. TypeOK'
  <2>1. Len(views) \in Nat /\ Len(views') \in Nat /\ Len(views) <= Len(views')
    BY DEF ViewsKept, RegionInv, FileInv, FileTypeOK
  <2>2. maps \in [Regions -> SUBSET (1 .. Len(views'))]
    <3>1. 1 .. Len(views) \subseteq 1 .. Len(views')
      BY <2>1
    <3>2. maps \in [Regions -> SUBSET (1 .. Len(views))]
      BY DEF RegionInv, TypeOK
    <3>3. QED
      BY <3>1, <3>2
  <2>3. QED
    BY <1>1, <2>2 DEF RegionInv, FileInv, TypeOK
<1>4. InPlace'
  BY <1>2, <1>3 DEF InPlace
<1>5. ASSUME NEW r \in Regions, NEW q \in Regions, r # q, reserved'[r], reserved'[q]
      PROVE  Apart(r, q)'
  <2>1. Apart(r, q) /\ reserved[r] /\ reserved[q]
    BY <1>1, <1>5, InvApart
  <2>2. /\ Position(data[r][1])' = Position(data[r][1])
        /\ Position(data[q][1])' = Position(data[q][1])
    BY <1>2, <2>1
  <2>3. QED
    BY <2>1, <2>2, Zenon DEF Apart
<1>6. QED
  BY <1>4, <1>5, InvFromApart

(* A successful reservation keeps the invariant: the new span begins where *)
(* the part of the file handed out before ends.                            *)
LEMMA ReservedKeepsInv ==
  ASSUME RegionInv, NEW r \in Regions, FileInv', ViewsKept, ReserveSucceeded(r)
  PROVE  RegionInv' /\ Position(data[r][1])' = offset
<1> DEFINE n == RegionSize[r]
<1>1. /\ n \in Nat \ {0} /\ offset \in Nat /\ offset' = offset + n
      /\ Len(Zeros(n)) = n
  BY RegionSizeAssumption, ZerosSeq
     DEF ReserveSucceeded, WriteSucceeded, RegionInv, FileInv, FileTypeOK
<1>2. /\ data \in [Regions -> Seq(Span)]
      /\ reserved \in [Regions -> BOOLEAN]
      /\ maps \in [Regions -> SUBSET (1 .. Len(views))]
      /\ phase \in [Regions -> {"idle", "copying", "gone"}]
  BY DEF RegionInv, TypeOK
<1>3. /\ data' = [data EXCEPT ![r] = <<NewSpan(n)>>]
      /\ maps' = [maps EXCEPT ![r] = @ \cup {currentMap'}]
      /\ reserved' = [reserved EXCEPT ![r] = TRUE]
      /\ phase' = [phase EXCEPT ![r] = "copying"]
  BY DEF ReserveSucceeded
<1>4. /\ currentMap' \in 1 .. Len(views') /\ n <= mapOffset'
      /\ mapOffset' <= views'[currentMap'].len
      /\ views'[currentMap'].base + mapOffset' = offset'
  BY <1>1 DEF ReserveSucceeded, WriteSucceeded
<1>5. mapOffset' \in Nat /\ views'[currentMap'].base \in Nat /\ views'[currentMap'].len \in Nat
  <2>1. views' \in Seq(View) /\ mapOffset' \in Nat
    BY DEF FileInv, FileTypeOK
  <2>2. views'[currentMap'] \in View
    BY <1>4, <2>1, ElementOfSeq, Zenon
  <2>3. QED
    BY <2>1, <2>2 DEF View
<1>6. NewSpan(n) \in Span
  BY <1>1, <1>4, <1>5 DEF NewSpan, Span
<1>7. ASSUME NEW q \in Regions, q # r
      PROVE  /\ RegionOK(q)' /\ reserved'[q] = reserved[q]
             /\ reserved[q] => Position(data[q][1])' = Position(data[q][1])
  <2>1. /\ data'[q] = data[q] /\ maps'[q] = maps[q] /\ reserved'[q] = reserved[q]
        /\ phase'[q] = phase[q]
    BY <1>2, <1>3, <1>7
  <2>2. phase'[q] = "copying" => reserved[q]
    BY <2>1 DEF RegionInv, RegionOK
  <2>3. offset' \in Nat /\ offset <= offset'
    BY <1>1
  <2>4. QED
    BY <2>1, <2>2, <2>3, RegionKept, Zenon
<1>8. data'[r] = <<NewSpan(n)>> /\ maps'[r] = maps[r] \cup {currentMap'} /\ reserved'[r] = TRUE
  BY <1>2, <1>3
<1>9. /\ data'[r][1].map = currentMap' /\ data'[r][1].len = n /\ data'[r][1].at = mapOffset' - n
      /\ Len(data'[r]) = 1 /\ data'[r] # << >>
  BY <1>8 DEF NewSpan
<1>10. Position(data[r][1])' = offset
  <2>1. views'[currentMap'].base + (mapOffset' - n) = offset
    BY <1>1, <1>4, <1>5
  <2>2. QED
    BY <1>9, <2>1, Zenon DEF Position
<1>11. RegionOK(r)'
  <2>1. (mapOffset' - n) + n <= views'[currentMap'].len /\ offset + n <= offset'
    BY <1>1, <1>4, <1>5
  <2>2. QED
    BY <1>8, <1>9, <1>10, <2>1 DEF RegionOK
<1>12. TypeOK'
  <2>1. Len(views) \in Nat /\ Len(views') \in Nat /\ Len(views) <= Len(views')
    BY DEF ViewsKept, RegionInv, FileInv, FileTypeOK
  <2>2. 1 .. Len(views) \subseteq 1 .. Len(views')
    BY <2>1
  <2>3. maps' \in [Regions -> SUBSET (1 .. Len(views'))]
    BY <1>2, <1>3, <1>4, <2>2
  <2>4. data' \in [Regions -> Seq(Span)]
    <3>1. <<NewSpan(n)>> \in Seq(Span)
      BY <1>6
    <3>2. QED
      BY <1>2, <1>3, <3>1
  <2>5. reserved' \in [Regions -> BOOLEAN] /\ phase' \in [Regions -> {"idle", "copying", "gone"}]
    BY <1>2, <1>3
  <2>6. QED
    BY <2>3, <2>4, <2>5 DEF FileInv, TypeOK
<1>13. InPlace'
  BY <1>7, <1>11, <1>12 DEF InPlace
<1>14. ASSUME NEW q \in Regions, q # r, reserved[q]
       PROVE  Position(data[q][1])' + RegionSize[q] <= Position(data[r][1])'
  BY <1>7, <1>10, <1>14, PositionNat
<1>15. ASSUME NEW p \in Regions, NEW q \in Regions, p # q, reserved'[p], reserved'[q]
       PROVE  Apart(p, q)'
  <2>1. CASE p = r
    BY <1>7, <1>14, <1>15, <2>1 DEF Apart
  <2>2. CASE q = r
    BY <1>7, <1>14, <1>15, <2>2 DEF Apart
  <2>3. CASE p # r /\ q # r
    <3>1. Apart(p, q) /\ reserved[p] /\ reserved[q]
      BY <1>7, <1>15, <2>3, InvApart
    <3>2. /\ Position(data[p][1])' = Position(data[p][1])
          /\ Position(data[q][1])' = Position(data[q][1])
      BY <1>7, <2>3, <3>1
    <3>3. QED
      BY <3>1, <3>2, Zenon DEF Apart
  <2>4. QED
    BY <2>1, <2>2, <2>3
<1>16. QED
  BY <1>10, <1>13, <1>15, InvFromApart


(* A step that moves no region and no view, and at most lets regions go,   *)
(* keeps the invariant.                                                    *)
LEMMA UnmovedKeepsInv ==
  ASSUME RegionInv, FileInv', TypeOK', UNCHANGED <<views, offset>>,
         \A q \in Regions :
            \/ /\ data'[q] = data[q] /\ maps'[q] = maps[q] /\ reserved'[q] = reserved[q]
               /\ phase'[q] = "copying" => reserved[q]
            \/ /\ data'[q] = << >> /\ reserved'[q] = FALSE /\ phase'[q] # "copying"
  PROVE  /\ RegionInv'
         /\ \A q \in Regions : reserved'[q] => Position(data[q][1])' = Position(data[q][1])
<1>1. ViewsKept /\ offset' \in Nat /\ offset <= offset'
  BY DEF ViewsKept, RegionInv, FileInv, FileTypeOK
<1>2. ASSUME NEW q \in Regions
      PROVE  /\ RegionOK(q)'
             /\ reserved'[q] => reserved[q] /\ Position(data[q][1])' = Position(data[q][1])
  <2>1. CASE /\ data'[q] = data[q] /\ maps'[q] = maps[q] /\ reserved'[q] = reserved[q]
             /\ phase'[q] = "copying" => reserved[q]
    BY <1>1, <2>1, RegionKept, Zenon
  <2>2. CASE data'[q] = << >> /\ reserved'[q] = FALSE /\ phase'[q] # "copying"
    BY <2>2 DEF RegionOK
  <2>3. QED
    BY <2>1, <2>2
<1>3. InPlace'
  BY <1>2 DEF InPlace
<1>4. ASSUME NEW p \in Regions, NEW q \in Regions, p # q, reserved'[p], reserved'[q]
      PROVE  Apart(p, q)'
  <2>1. Apart(p, q)
    BY <1>2, <1>4, InvApart
  <2>2. /\ Position(data[p][1])' = Position(data[p][1])
        /\ Position(data[q][1])' = Position(data[q][1])
    BY <1>2, <1>4
  <2>3. QED
    BY <2>1, <2>2, Zenon DEF Apart
<1>5. QED
  BY <1>2, <1>3, <1>4, InvFromApart

(* ReadProcessMemory changes bytes of the region's own span only.          *)
LEMMA CopyKeepsInv ==
  ASSUME RegionInv, NEW r \in Regions, Copy(r)
  PROVE  /\ RegionInv' /\ reserved[r]
         /\ \A q \in Regions : reserved[q] => Position(data[q][1])' = Position(data[q][1])
         /\ \A k \in 0 .. size - 1 :
              k < Position(data[r][1]) \/ k >= Position(data[r][1]) + RegionSize[r]
                => content'[k] = content[k]
<1>1. /\ phase' = [phase EXCEPT ![r] = "idle"]
      /\ UNCHANGED <<process, valid, size, offset, views, currentMap, mapOffset>>
      /\ UNCHANGED <<data, maps, reserved>>
      /\ phase[r] = "copying" \/ reserved[r]
  BY DEF Copy
<1>2. reserved[r]
  BY <1>1 DEF RegionInv, RegionOK
<1> DEFINE at == Position(data[r][1])
<1>3. at \in Nat
  BY <1>2, PositionNat
<1>4. size \in Nat /\ content \in [0 .. size - 1 -> Bytes] /\ RegionSize[r] \in Nat
  BY RegionSizeAssumption DEF RegionInv, FileInv, FileTypeOK
<1>5. PICK n \in 0 .. RegionSize[r] : \E bytes \in [1 .. n -> Bytes] : content' = Patch(content, at, bytes)
  BY DEF Copy
<1>6. PICK bytes \in [1 .. n -> Bytes] : content' = Patch(content, at, bytes)
  BY <1>5
<1>7. bytes \in Seq(Bytes) /\ Len(bytes) = n /\ n \in Nat
  BY <1>4, <1>5, <1>6
<1> HIDE DEF at
<1> DEFINE new == Patch(content, at, bytes)
<1>8. /\ new \in [0 .. size - 1 -> Bytes]
      /\ \A k \in 0 .. size - 1 : k < at \/ k >= at + Len(bytes) => new[k] = content[k]
  BY <1>3, <1>4, <1>7, PatchContent, Zenon
<1> HIDE DEF new
<1>9. /\ content' \in [0 .. size - 1 -> Bytes]
      /\ \A k \in 0 .. size - 1 : k < at \/ k >= at + RegionSize[r] => content'[k] = content[k]
  <2>1. \A k \in 0 .. size - 1 : k >= at + RegionSize[r] => k >= at + Len(bytes)
    BY <1>3, <1>4, <1>5, <1>7
  <2>2. content' = new
    BY <1>6 DEF new
  <2>3. QED
    BY <1>8, <2>1, <2>2, Zenon
<1>10. FileInv' /\ TypeOK'
  <2>1. FileTypeOK'
    BY <1>1, <1>9 DEF RegionInv, FileInv, FileTypeOK
  <2>2. FileInv'
    BY <1>1, <2>1 DEF RegionInv, FileInv
  <2>3. TypeOK'
    BY <1>1, <2>1 DEF RegionInv, TypeOK
  <2>4. QED
    BY <2>2, <2>3
<1>11. ASSUME NEW q \in Regions
       PROVE  /\ data'[q] = data[q] /\ maps'[q] = maps[q] /\ reserved'[q] = reserved[q]
              /\ phase'[q] = "copying" => reserved[q]
  BY <1>1 DEF RegionInv, RegionOK, TypeOK
<1>12. /\ RegionInv'
       /\ \A q \in Regions : reserved'[q] => Position(data[q][1])' = Position(data[q][1])
  BY <1>1, <1>10, <1>11, UnmovedKeepsInv
<1>13. QED
  BY <1>1, <1>2, <1>9, <1>12 DEF at

(* Dropping a region touches neither the file nor the other regions.       *)
LEMMA DropKeepsInv ==
  ASSUME RegionInv, NEW r \in Regions, Drop(r)
  PROVE  /\ RegionInv'
         /\ \A q \in Regions \ {r} :
              /\ data'[q] = data[q] /\ reserved'[q] = reserved[q]
              /\ reserved[q] => Position(data[q][1])' = Position(data[q][1])
<1>1. /\ data' = [data EXCEPT ![r] = << >>]
      /\ maps' = [maps EXCEPT ![r] = {}]
      /\ reserved' = [reserved EXCEPT ![r] = FALSE]
      /\ phase' = [phase EXCEPT ![r] = "gone"]
      /\ UNCHANGED fileVars
  BY DEF Drop
<1>2. /\ data \in [Regions -> Seq(Span)]
      /\ reserved \in [Regions -> BOOLEAN]
      /\ maps \in [Regions -> SUBSET (1 .. Len(views))]
      /\ phase \in [Regions -> {"idle", "copying", "gone"}]
  BY DEF RegionInv, TypeOK
<1>3. FileInv'
  BY <1>1 DEF fileVars, RegionInv, FileInv, FileTypeOK
<1>4. TypeOK'
  <2>1. views' = views
    BY <1>1 DEF fileVars
  <2>2. data' \in [Regions -> Seq(Span)]
    BY <1>1, <1>2
  <2>3. maps' \in [Regions -> SUBSET (1 .. Len(views'))]
    BY <1>1, <1>2, <2>1
  <2>4. reserved' \in [Regions -> BOOLEAN] /\ phase' \in [Regions -> {"idle", "copying", "gone"}]
    BY <1>1, <1>2
  <2>5. QED
    BY <1>3, <2>2, <2>3, <2>4 DEF FileInv, TypeOK
<1>5. ASSUME NEW q \in Regions, q # r
      PROVE  /\ data'[q] = data[q] /\ maps'[q] = maps[q] /\ reserved'[q] = reserved[q]
             /\ phase'[q] = "copying" => reserved[q]
  <2>1. /\ data'[q] = data[q] /\ maps'[q] = maps[q] /\ reserved'[q] = reserved[q]
        /\ phase'[q] = phase[q]
    BY <1>1, <1>2, <1>5
  <2>2. QED
    BY <2>1 DEF RegionInv, RegionOK
<1>6. data'[r] = << >> /\ reserved'[r] = FALSE /\ phase'[r] # "copying"
  BY <1>1, <1>2
<1>7. UNCHANGED <<views, offset>>
  BY <1>1 DEF fileVars
<1>8. \A q \in Regions :
        \/ /\ data'[q] = data[q] /\ maps'[q] = maps[q] /\ reserved'[q] = reserved[q]
           /\ phase'[q] = "copying" => reserved[q]
        \/ /\ data'[q] = << >> /\ reserved'[q] = FALSE /\ phase'[q] # "copying"
  BY <1>5, <1>6, Zenon
<1>9. /\ RegionInv'
      /\ \A q \in Regions : reserved'[q] => Position(data[q][1])' = Position(data[q][1])
  BY <1>3, <1>4, <1>7, <1>8, UnmovedKeepsInv
<1>10. QED
  BY <1>5, <1>9


-----------------------------------------------------------------------------

(* A scanner that has just opened its dump file.                           *)
LEMMA InitInv == Init => RegionInv
<1> SUFFICES ASSUME Init PROVE RegionInv
  OBVIOUS
<1>1. /\ process = "running" /\ offset = 0 /\ views = << >> /\ currentMap = NoMap /\ mapOffset = 0
      /\ content = [k \in 0 .. size - 1 |-> Zero] /\ (Open \/ OpenSized)
      /\ data = [r \in Regions |-> << >>] /\ maps = [r \in Regions |-> {}]
      /\ reserved = [r \in Regions |-> FALSE] /\ phase = [r \in Regions |-> "idle"]
  BY DEF Init, FileInit
<1>2. valid \in BOOLEAN /\ size \in Nat
  <2>1. \A n \in InitialSizes : AlignUp(n) \in Nat
    BY SizesAssumption, AlignUpBound
  <2>2. CASE Open
    <3>1. valid = TRUE \/ valid = FALSE
      BY <2>2, Zenon DEF Open
    <3>2. size = 0 \/ size \in StaleSizes
      BY <2>2, Zenon DEF Open
    <3>3. valid \in BOOLEAN
      BY <3>1, Zenon
    <3>4. size \in Nat
      <4>1. StaleSizes \subseteq Nat /\ 0 \in Nat
        BY SizesAssumption
      <4>2. QED
        BY <3>2, <4>1, Zenon
    <3>5. QED
      BY <3>3, <3>4
  <2>3. CASE OpenSized
    <3>1. valid \in BOOLEAN
      BY <2>3 DEF OpenSized
    <3>2. size = 0 \/ size \in StaleSizes \/ \E n \in InitialSizes : size = AlignUp(n)
      BY <2>3, Zenon DEF OpenSized
    <3>3. size \in Nat
      <4>1. StaleSizes \subseteq Nat /\ 0 \in Nat
        BY SizesAssumption
      <4>2. QED
        BY <2>1, <3>2, <4>1, Zenon
    <3>4. QED
      BY <3>1, <3>3, Zenon
  <2>4. QED
    BY <1>1, <2>2, <2>3
<1>3. FileTypeOK
  BY <1>1, <1>2, ZeroAssumption DEF FileTypeOK, NoMap
<1>4. FileInv
  BY <1>1, <1>2, <1>3 DEF FileInv
<1>5. TypeOK
  BY <1>1, <1>3 DEF TypeOK
<1>6. \A r \in Regions : RegionOK(r)
  BY <1>1 DEF RegionOK
<1>7. SpansDisjoint
  BY <1>1 DEF SpansDisjoint
<1>8. QED
  BY <1>4, <1>5, <1>6, <1>7 DEF RegionInv

(* Every step of the regions keeps the invariant.                          *)
LEMMA StepInv == RegionInv /\ [Next]_vars => RegionInv'
<1> SUFFICES ASSUME RegionInv, [Next]_vars PROVE RegionInv'
  OBVIOUS
<1>1. ASSUME NEW r \in Regions, Reserve(r) PROVE RegionInv'
  BY <1>1, ReserveContract, FailedKeepsInv, ReservedKeepsInv
<1>2. ASSUME NEW r \in Regions, Copy(r) PROVE RegionInv'
  BY <1>2, CopyKeepsInv
<1>3. ASSUME NEW r \in Regions, Drop(r) PROVE RegionInv'
  BY <1>3, DropKeepsInv
<1>4. CASE UNCHANGED vars
  <2>1. UNCHANGED <<process, valid, size, offset, views, currentMap, mapOffset, content>>
        /\ UNCHANGED <<data, maps, reserved, phase>>
    BY <1>4 DEF vars, fileVars, regionVars
  <2>2. (TypeOK /\ FileInv /\ SpansDisjoint)'
    BY <2>1 DEF RegionInv, TypeOK, FileInv, FileTypeOK, SpansDisjoint, Position
  <2>3. ASSUME NEW r \in Regions PROVE RegionOK(r)'
    BY <2>1 DEF RegionInv, RegionOK, Position
  <2>4. QED
    BY <2>2, <2>3 DEF RegionInv
<1>5. QED
  BY <1>1, <1>2, <1>3, <1>4 DEF Next

(* The regions and their file keep their invariant, in particular their    *)
(* types, however many system calls of m_file fail.                        *)
THEOREM RegionInvariant == Spec => []RegionInv
<1>1. Init => RegionInv
  BY InitInv
<1>2. RegionInv /\ [Next]_vars => RegionInv'
  BY StepInv
<1>3. QED
  BY <1>1, <1>2, PTL DEF Spec

(* Type correctness of the model of m_file, dumpable and memory_region.    *)
THEOREM TypesCorrect == Spec => []TypeOK
<1>1. RegionInv => TypeOK
  BY DEF RegionInv
<1>2. QED
  BY <1>1, RegionInvariant, PTL

(* No byte of the dump file belongs to two regions: not after the file has *)
(* grown and been remapped, and not after a growth or a mapping failed.    *)
THEOREM NoSharedBytes == Spec => []SpansDisjoint
<1>1. RegionInv => SpansDisjoint
  BY DEF RegionInv
<1>2. QED
  BY <1>1, RegionInvariant, PTL

(* A region is given one piece of the file however often it is read.       *)
THEOREM OnePieceEach == Spec => []OneChunk
<1>1. RegionInv => OneChunk
  <2> SUFFICES ASSUME RegionInv, NEW r \in Regions PROVE Len(data[r]) <= 1
    BY DEF OneChunk
  <2>1. RegionOK(r)
    BY DEF RegionInv
  <2>2. data[r] = << >> \/ Len(data[r]) = 1
    BY <2>1, Zenon DEF RegionOK
  <2>3. data[r] \in Seq(Span) /\ Len(<< >>) = 0
    BY DEF RegionInv, TypeOK
  <2>4. CASE data[r] = << >>
    BY <2>3, <2>4
  <2>5. CASE Len(data[r]) = 1
    <3>1. 1 <= 1
      OBVIOUS
    <3>2. QED
      BY <2>5, <3>1, Zenon
  <2>6. QED
    BY <2>2, <2>4, <2>5
<1>2. QED
  BY <1>1, RegionInvariant, PTL

(* write() never stores outside the view it goes through, if the file was  *)
(* created empty and can be grown and mapped.                              *)
THEOREM WritesStayInViews ==
  ASSUME StorageWorks
  PROVE  Spec => []MemorySafe
<1>1. Init => RegionInv /\ StorageInv
  <2> SUFFICES ASSUME Init PROVE StorageInv
    BY InitInv
  <2>1. process = "running" /\ currentMap = NoMap /\ (Open \/ OpenSized)
    BY DEF Init, FileInit
  <2>2. size = 0
    BY <2>1 DEF Open, OpenSized, StorageWorks
  <2>3. QED
    BY <2>1, <2>2 DEF StorageInv
<1>2. RegionInv /\ StorageInv /\ [Next]_vars => StorageInv'
  <2> SUFFICES ASSUME RegionInv, StorageInv, [Next]_vars PROVE StorageInv'
    OBVIOUS
  <2>1. ASSUME NEW r \in Regions, Reserve(r) PROVE StorageInv'
    <3>1. RegionSize[r] \in Nat \ {0} /\ Write(Zeros(RegionSize[r])) /\ FileInv
      BY <2>1, RegionSizeAssumption DEF Reserve, RegionInv
    <3>2. QED
      BY <3>1, ZerosSeq, WriteStaysInView
  <2>2. ASSUME UNCHANGED <<process, valid, size, views, currentMap>> PROVE StorageInv'
    BY <2>2 DEF StorageInv
  <2>3. ASSUME NEW r \in Regions, Copy(r) \/ Drop(r) PROVE StorageInv'
    BY <2>2, <2>3 DEF Copy, Drop, fileVars
  <2>4. CASE UNCHANGED vars
    BY <2>2, <2>4 DEF vars, fileVars
  <2>5. QED
    BY <2>1, <2>3, <2>4 DEF Next
<1>3. StorageInv => MemorySafe
  BY DEF StorageInv, MemorySafe, DestinationMapped, MappingCreated
<1>4. QED
  BY <1>1, <1>2, <1>3, StepInv, PTL DEF Spec


-----------------------------------------------------------------------------

(* The bytes of the file in the span of a region.                          *)
Held(r) == [i \in 1 .. RegionSize[r] |-> content[Position(data[r][1]) + i - 1]]

(* raw_bytes() never meets a view that is not mapped any more.             *)
RawIsHeld == \A r \in Regions : RawBytes(r) = IF reserved[r] THEN Held(r) ELSE << >>

(* Under the invariant raw_bytes() is what the file holds at the place.    *)
LEMMA RawBytesHeld == RegionInv => RawIsHeld
<1> SUFFICES ASSUME RegionInv, NEW r \in Regions
             PROVE  RawBytes(r) = IF reserved[r] THEN Held(r) ELSE << >>
  BY DEF RawIsHeld
<1>1. RegionOK(r)
  BY DEF RegionInv
<1>2. CASE reserved[r]
  <2>1. /\ data[r] # << >> /\ data[r][1].map \in maps[r]
        /\ data[r][1].len = RegionSize[r]
    BY <1>1, <1>2, Zenon DEF RegionOK
  <2>2. data[r][1].map \in Mapped
    BY <2>1, Zenon DEF Mapped
  <2>3. QED
    BY <1>2, <2>1, <2>2 DEF RawBytes, Held
<1>3. CASE ~ reserved[r]
  <2>1. data[r] = << >>
    BY <1>1, <1>3, Zenon DEF RegionOK
  <2>2. QED
    BY <1>3, <2>1 DEF RawBytes
<1>4. QED
  BY <1>2, <1>3

(* A step after which a region's span is where it was, with the bytes it   *)
(* had, does not change its snapshot.                                      *)
LEMMA SnapshotKept ==
  ASSUME RegionInv, RawIsHeld, RawIsHeld', NEW q \in Regions, reserved'[q] = reserved[q],
         reserved[q] => /\ Position(data[q][1])' = Position(data[q][1])
                        /\ \A k \in 0 .. offset - 1 :
                             /\ k >= Position(data[q][1])
                             /\ k < Position(data[q][1]) + RegionSize[q]
                             => content'[k] = content[k]
  PROVE  RawBytes(q)' = RawBytes(q)
<1>1. /\ RawBytes(q) = IF reserved[q] THEN Held(q) ELSE << >>
      /\ RawBytes(q)' = IF reserved'[q] THEN Held(q)' ELSE << >>
  BY Zenon DEF RawIsHeld
<1>2. ASSUME reserved[q] PROVE Held(q)' = Held(q)
  <2> DEFINE at == Position(data[q][1])
  <2>1. at \in Nat /\ at + RegionSize[q] <= offset /\ RegionSize[q] \in Nat /\ offset \in Nat
    BY <1>2, PositionNat, RegionSizeAssumption DEF RegionInv, FileInv, FileTypeOK
  <2>2. Position(data[q][1])' = at
    BY <1>2
  <2>3. \A k \in 0 .. offset - 1 : k >= at /\ k < at + RegionSize[q] => content'[k] = content[k]
    BY <1>2
  <2> HIDE DEF at
  <2>4. \A i \in 1 .. RegionSize[q] : content'[at + i - 1] = content[at + i - 1]
    <3>1. ASSUME NEW i \in 1 .. RegionSize[q]
          PROVE  /\ at + i - 1 \in 0 .. offset - 1
                 /\ at + i - 1 >= at /\ at + i - 1 < at + RegionSize[q]
      BY <2>1
    <3>2. QED
      BY <2>3, <3>1
  <2>5. Held(q)' = [i \in 1 .. RegionSize[q] |-> content'[at + i - 1]]
    BY <2>2 DEF Held
  <2>6. Held(q) = [i \in 1 .. RegionSize[q] |-> content[at + i - 1]]
    BY DEF Held, at
  <2>7. QED
    BY <2>4, <2>5, <2>6
<1>3. QED
  BY <1>1, <1>2

(* The snapshots as one function, and what one step may do to it.          *)
Snapshot == [r \in Regions |-> RawBytes(r)]

(* A function that differs at one region only is an EXCEPT.                *)
LEMMA OneSnapshotChanged ==
  ASSUME NEW r \in Regions, \A q \in Regions \ {r} : RawBytes(q)' = RawBytes(q)
  PROVE  Snapshot' = [Snapshot EXCEPT ![r] = RawBytes(r)']
BY DEF Snapshot

(* Every step of the regions is a step of the snapshots, or a stutter.     *)
LEMMA SnapshotStep ==
  RegionInv /\ RegionInv' /\ RawIsHeld /\ RawIsHeld' /\ [Next]_vars
    => [Snapshots!Next]_Snapshot
<1> SUFFICES ASSUME RegionInv, RegionInv', RawIsHeld, RawIsHeld', [Next]_vars
             PROVE  [Snapshots!Next]_Snapshot
  OBVIOUS
<1>0. offset \in Nat /\ size \in Nat /\ offset <= size
  BY DEF RegionInv, FileInv, FileTypeOK
<1>1. ASSUME NEW r \in Regions, Reserve(r) PROVE [Snapshots!Next]_Snapshot
  <2> DEFINE n == RegionSize[r]
  <2>1. n \in Nat \ {0} /\ ~ reserved[r] /\ reserved \in [Regions -> BOOLEAN]
    BY <1>1, RegionSizeAssumption DEF Reserve, RegionInv, TypeOK
  <2>2. FileInv' /\ ViewsKept /\ (ReserveFailed \/ ReserveSucceeded(r))
    BY <1>1, ReserveContract
  <2>3. ASSUME NEW q \in Regions, data'[q] = data[q], maps'[q] = maps[q],
               reserved'[q] = reserved[q], phase'[q] = phase[q], offset' \in Nat, offset <= offset',
               \A k \in 0 .. offset - 1 : content'[k] = content[k]
        PROVE  RawBytes(q)' = RawBytes(q)
    <3>1. phase'[q] = "copying" => reserved[q]
      BY <2>3 DEF RegionInv, RegionOK
    <3>2. reserved[q] => Position(data[q][1])' = Position(data[q][1])
      BY <2>2, <2>3, <3>1, RegionKept, Zenon
    <3>3. QED
      BY <2>3, <3>2, SnapshotKept
  <2>4. CASE ReserveFailed
    <3>1. /\ data' = data /\ maps' = maps /\ reserved' = reserved /\ phase' = phase
          /\ offset' = offset /\ offset' \in Nat /\ offset <= offset'
          /\ \A k \in 0 .. offset - 1 : content'[k] = content[k]
      BY <1>0, <2>4 DEF ReserveFailed, WriteFailed
    <3>2. \A q \in Regions : RawBytes(q)' = RawBytes(q)
      BY <2>3, <3>1
    <3>3. Snapshot' = Snapshot
      BY <3>2 DEF Snapshot
    <3>4. QED
      BY <3>3
  <2>5. CASE ReserveSucceeded(r)
    <3>1. /\ data' = [data EXCEPT ![r] = <<NewSpan(n)>>]
          /\ maps' = [maps EXCEPT ![r] = @ \cup {currentMap'}]
          /\ reserved' = [reserved EXCEPT ![r] = TRUE]
          /\ phase' = [phase EXCEPT ![r] = "copying"]
          /\ offset' = offset + Len(Zeros(n))
          /\ \A k \in 0 .. offset - 1 : content'[k] = content[k]
          /\ \A i \in 1 .. Len(Zeros(n)) : content'[offset + i - 1] = Zeros(n)[i]
      BY <2>5 DEF ReserveSucceeded, WriteSucceeded
    <3>2. offset' \in Nat /\ offset <= offset'
      BY <1>0, <2>1, <3>1, ZerosSeq
    <3>3. \A q \in Regions \ {r} : /\ data'[q] = data[q] /\ maps'[q] = maps[q]
                                   /\ reserved'[q] = reserved[q] /\ phase'[q] = phase[q]
      BY <3>1 DEF RegionInv, TypeOK
    <3>4. \A q \in Regions \ {r} : RawBytes(q)' = RawBytes(q)
      BY <2>3, <3>1, <3>2, <3>3
    <3>5. RawBytes(r) = << >> /\ RawBytes(r)' = Held(r)'
      BY <2>1, <3>1 DEF RawIsHeld
    <3>6. Held(r)' = [i \in 1 .. n |-> Zero]
      <4>1. Position(data[r][1])' = offset
        BY <2>2, <2>5, ReservedKeepsInv
      <4>2. Held(r)' = [i \in 1 .. n |-> content'[offset + i - 1]]
        BY <4>1 DEF Held
      <4>3. \A i \in 1 .. n : content'[offset + i - 1] = Zero
        BY <2>1, <3>1, ZerosSeq DEF Zeros
      <4>4. QED
        BY <4>2, <4>3
    <3>7. Snapshot' = [Snapshot EXCEPT ![r] = [i \in 1 .. n |-> Zero]] /\ Snapshot[r] = << >>
      BY <3>4, <3>5, <3>6, OneSnapshotChanged DEF Snapshot
    <3>8. Snapshots!Reserve(r)
      BY <3>7 DEF Snapshots!Reserve, Snapshots!NotReserved, Snapshot
    <3>9. QED
      BY <3>8 DEF Snapshots!Next
  <2>6. QED
    BY <2>2, <2>4, <2>5
<1>2. ASSUME NEW r \in Regions, Copy(r) PROVE [Snapshots!Next]_Snapshot
  <2>1. /\ reserved[r]
        /\ \A q \in Regions : reserved[q] => Position(data[q][1])' = Position(data[q][1])
        /\ \A k \in 0 .. size - 1 :
             k < Position(data[r][1]) \/ k >= Position(data[r][1]) + RegionSize[r]
               => content'[k] = content[k]
        /\ reserved' = reserved
    BY <1>2, CopyKeepsInv DEF Copy
  <2>2. ASSUME NEW q \in Regions, q # r PROVE RawBytes(q)' = RawBytes(q)
    <3>1. ASSUME reserved[q]
          PROVE  \A k \in 0 .. offset - 1 :
                   /\ k >= Position(data[q][1])
                   /\ k < Position(data[q][1]) + RegionSize[q]
                   => content'[k] = content[k]
      <4>1. Apart(r, q)
        BY <2>1, <2>2, <3>1, InvApart
      <4>2. /\ Position(data[q][1]) \in Nat /\ Position(data[r][1]) \in Nat
            /\ RegionSize[q] \in Nat /\ RegionSize[r] \in Nat
        BY <2>1, <3>1, PositionNat, RegionSizeAssumption
      <4> DEFINE a == Position(data[q][1])
                 b == Position(data[r][1])
      <4>3. b + RegionSize[r] <= a \/ a + RegionSize[q] <= b
        BY <4>1 DEF Apart
      <4>4. \A k \in 0 .. size - 1 : k < b \/ k >= b + RegionSize[r] => content'[k] = content[k]
        BY <2>1
      <4>5. a \in Nat /\ b \in Nat
        BY <4>2
      <4> HIDE DEF a, b
      <4>6. \A k \in 0 .. offset - 1 : k >= a /\ k < a + RegionSize[q] => content'[k] = content[k]
        BY <1>0, <4>2, <4>3, <4>4, <4>5
      <4>7. QED
        BY <4>6 DEF a
    <3>2. reserved'[q] = reserved[q]
      BY <2>1
    <3>3. QED
      BY <2>1, <3>1, <3>2, SnapshotKept
  <2>3. RawBytes(r) = Held(r) /\ RawBytes(r)' = Held(r)'
    BY <2>1, Zenon DEF RawIsHeld
  <2>4. RegionSize[r] \in Nat \ {0}
    BY RegionSizeAssumption
  <2>5. Held(r) # << >>
    BY <2>4 DEF Held
  <2>6. Held(r)' \in [1 .. RegionSize[r] -> Bytes]
    <3> DEFINE at == Position(data[r][1])
    <3>1. at \in Nat /\ at + RegionSize[r] <= offset
      BY <2>1, PositionNat
    <3>2. Position(data[r][1])' = at
      BY <2>1
    <3>3. content' \in [0 .. size - 1 -> Bytes]
      BY <1>2 DEF Copy, RegionInv, FileInv, FileTypeOK
    <3> HIDE DEF at
    <3>4. \A i \in 1 .. RegionSize[r] : at + i - 1 \in 0 .. size - 1
      BY <1>0, <2>4, <3>1
    <3>5. Held(r)' = [i \in 1 .. RegionSize[r] |-> content'[at + i - 1]]
      BY <3>2 DEF Held
    <3>6. QED
      BY <3>3, <3>4, <3>5
  <2>7. Snapshot' = [Snapshot EXCEPT ![r] = Held(r)'] /\ Snapshot[r] = Held(r)
    BY <2>2, <2>3, OneSnapshotChanged DEF Snapshot
  <2>8. Snapshots!Read(r)
    BY <2>5, <2>6, <2>7 DEF Snapshots!Read, Snapshots!NotReserved, Snapshot
  <2>9. QED
    BY <2>8 DEF Snapshots!Next
<1>3. ASSUME NEW r \in Regions, Drop(r) PROVE [Snapshots!Next]_Snapshot
  <2>1. \A q \in Regions \ {r} :
          /\ data'[q] = data[q] /\ reserved'[q] = reserved[q]
          /\ reserved[q] => Position(data[q][1])' = Position(data[q][1])
    BY <1>3, DropKeepsInv
  <2>2. content' = content /\ reserved'[r] = FALSE
    BY <1>3 DEF Drop, fileVars, RegionInv, TypeOK
  <2>3. \A q \in Regions \ {r} : RawBytes(q)' = RawBytes(q)
    BY <2>1, <2>2, SnapshotKept
  <2>4. RawBytes(r)' = << >>
    BY <2>2 DEF RawIsHeld
  <2>5. Snapshot' = [Snapshot EXCEPT ![r] = << >>]
    BY <2>3, <2>4, OneSnapshotChanged
  <2>6. Snapshots!Drop(r)
    BY <2>5 DEF Snapshots!Drop, Snapshots!NotReserved, Snapshot
  <2>7. QED
    BY <2>6 DEF Snapshots!Next
<1>4. CASE UNCHANGED vars
  <2>1. UNCHANGED <<views, currentMap, content, data, maps>>
    BY <1>4 DEF vars, fileVars, regionVars
  <2>2. Snapshot' = Snapshot
    BY <2>1 DEF Snapshot, RawBytes, Mapped, Position
  <2>3. QED
    BY <2>2
<1>5. QED
  BY <1>1, <1>2, <1>3, <1>4 DEF Next

(* The regions implement private snapshots: whatever the other regions do, *)
(* however the file grows and is remapped, and whichever system calls      *)
(* fail, raw_bytes() of a region is what was last copied into it.          *)
THEOREM ImplementsSnapshots == Spec => SnapshotsIntact
<1>1. Init => Snapshots!Init
  <2> SUFFICES ASSUME Init PROVE Snapshots!Init
    OBVIOUS
  <2>1. data = [r \in Regions |-> << >>]
    BY DEF Init
  <2>2. \A r \in Regions : RawBytes(r) = << >>
    BY <2>1 DEF RawBytes
  <2>3. QED
    BY <2>2 DEF Snapshots!Init, Snapshots!NotReserved
<1>2. RegionInv /\ RegionInv' /\ RawIsHeld /\ RawIsHeld' /\ [Next]_vars
        => [Snapshots!Next]_[r \in Regions |-> RawBytes(r)]
  BY SnapshotStep DEF Snapshot
<1>3. QED
  BY <1>1, <1>2, RawBytesHeld, RegionInvariant, PTL DEF Spec, SnapshotsIntact, Snapshots!Spec


=============================================================================
