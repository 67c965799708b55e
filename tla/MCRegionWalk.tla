---------------------------- MODULE MCRegionWalk ----------------------------
(* Instances of RegionWalk for TLC: an address space of four pages of two  *)
(* bytes; ranges that cover it, end inside a page, reach beyond it, or     *)
(* begin inside a page.                                                    *)
EXTENDS RegionWalk

CONSTANTS read, write, exec

Data == [commit |-> TRUE, mapped |-> FALSE, protect |-> {read, write}]
Code == [commit |-> TRUE, mapped |-> FALSE, protect |-> {read, exec}]
View == [commit |-> TRUE, mapped |-> TRUE, protect |-> {read, write}]
Free == [commit |-> FALSE, mapped |-> FALSE, protect |-> {}]

MCKinds == {Data, Code, View, Free}
MCFlags == {read}
MCAligned == {<<0, 8>>, <<2, 5>>, <<4, 10>>, <<6, 6>>}
MCUnaligned == {<<1, 8>>, <<3, 6>>}

=============================================================================
