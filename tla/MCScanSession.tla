--------------------------- MODULE MCScanSession ---------------------------
(* Instances of ScanSession for TLC: bytes of one bit, an address space of *)
(* two pages of two bytes, elements that fill a page, and regions that are *)
(* split, merged, lost and found again between two scans.  A Float has the *)
(* bit patterns 0, 1, 3 and NaN, eps is 1, and even numbers are what a sum *)
(* above 4 is rounded to.                                                  *)
EXTENDS ScanSession, TLC

MCAddresses == 0 .. 3

Region(first, last) == [base |-> first, size |-> last - first + 1]

MCLayouts ==
  {<< >>, <<Region(0, 1)>>, <<Region(2, 3)>>, <<Region(0, 1), Region(2, 3)>>, <<Region(0, 3)>>}

MCElementSize == [U32 |-> 2, Float |-> 2]

MCNumber == 0 :> <<0>> @@ 1 :> <<1>> @@ 2 :> <<3>> @@ 3 :> NaN

MCRound == [n \in -16 .. 16 |-> IF n < -8 THEN -8 ELSE IF n > 8 THEN 8
                                ELSE IF n \in -4 .. 4 THEN n ELSE n - (n % 2)]

MCFormat ==
  LET binary == [patterns |-> 4, number |-> MCNumber, round |-> MCRound, eps |-> 1]
  IN  [Float |-> binary, Double |-> binary]

MCGiven == {<<1>>}

(* What the theorems about sessions ask for holds in these instances.      *)
ASSUME OnElements /\ SizesAgree

=============================================================================
