--------------------------- MODULE MCDumpRegions ---------------------------
(* Instances of DumpRegions for TLC: three regions of different sizes, so  *)
(* that the file grows at least once and is remapped while spans of the    *)
(* old view are in use; pages of two bytes, views aligned to four.         *)
EXTENDS DumpRegions, TLC

CONSTANTS r1, r2, r3, b0, b1

MCRegions == {r1, r2, r3}
MCRegionSize == r1 :> 1 @@ r2 :> 2 @@ r3 :> 3
MCBytes == {b0, b1}

=============================================================================
