--------------------------- MODULE SnapshotStore ---------------------------
(***************************************************************************)
(* What the scanner relies on from its memory regions: every region owns a *)
(* private copy of the target's memory, zeroed when it is reserved, that   *)
(* nothing but a read of that same region changes, until it is dropped.    *)
(***************************************************************************)
EXTENDS Naturals, Sequences

CONSTANTS
  Regions,     (* The memory_region objects.           *)
  RegionSize,  (* size() of each of them.              *)
  Bytes,       (* Values of a byte.                    *)
  Zero         (* What a reserved byte reads as first. *)

VARIABLE snapshot  (* raw_bytes() of each region: << >> before it is reserved. *)

NotReserved == << >>

Init == snapshot = [r \in Regions |-> NotReserved]

Reserve(r) ==
  /\ snapshot[r] = NotReserved
  /\ snapshot' = [snapshot EXCEPT ![r] = [i \in 1 .. RegionSize[r] |-> Zero]]

Read(r) ==
  /\ snapshot[r] # NotReserved
  /\ \E bytes \in [1 .. RegionSize[r] -> Bytes] :
       snapshot' = [snapshot EXCEPT ![r] = bytes]

Drop(r) == snapshot' = [snapshot EXCEPT ![r] = NotReserved]

Next == \E r \in Regions : Reserve(r) \/ Read(r) \/ Drop(r)

Spec == Init /\ [][Next]_snapshot

=============================================================================
