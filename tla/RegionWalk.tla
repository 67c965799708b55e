----------------------------- MODULE RegionWalk -----------------------------
(***************************************************************************)
(* slow_scanner::get_regions (src/slow_scanner.cpp): the walk over the     *)
(* address space of the target that collects the memory regions of a range *)
(* one VirtualQueryEx at a time, while the target goes on running and may  *)
(* change its layout between two queries.  An iteration of the loop asks   *)
(* once, so it is one action.                                              *)
(***************************************************************************)
EXTENDS Integers, Sequences, FiniteSetsExt

CONSTANTS
  PageSize,      (* Bytes in a page.                                       *)
  PageCount,     (* The pages of the address space are 0 .. PageCount - 1. *)
  Kinds,         (* What VirtualQueryEx says of a page: [commit |->        *)
                 (* BOOLEAN, mapped |-> BOOLEAN, protect |-> set of flags] *)
  Flags,         (* The argument protect, the flags looked for.            *)
  Ranges,        (* The arguments range, pairs of addresses.               *)
  MaxChanges,    (* Bound on the changes of the target during a walk.      *)
  QueryMayFail   (* May VirtualQueryEx fail inside the address space?      *)

ASSUME PageAssumption == PageSize \in Nat \ {0} /\ PageCount \in Nat \ {0}
ASSUME RangesAssumption == Ranges \subseteq Nat \X Nat
ASSUME BoundAssumption == MaxChanges \in Nat /\ QueryMayFail \in BOOLEAN

Pages == 0 .. PageCount - 1
PageOf(a) == a \div PageSize

VARIABLES
  layout,   (* The target: the kind of every page.                         *)
  changes,  (* How often it changed.                                       *)
  range,    (* range.first and range.second                                *)
  current,  (* current_address                                             *)
  regions,  (* The queue of regions: base and size of each.                *)
  walk      (* "on", "done", or "cut" when a query failed before the end.  *)

vars == <<layout, changes, range, current, regions, walk>>

First == range[1]
Last == range[2]

Init ==
  /\ layout \in [Pages -> Kinds]
  /\ changes = 0
  /\ range \in Ranges
  /\ current = First
  /\ regions = << >>
  /\ walk = "on"

(* VirtualQueryEx: the pages from the one that holds a on, as far as they  *)
(* are of the same kind.  The set has one element for every address of the *)
(* address space and none behind it, where the call fails.                 *)
RunEnds(p) ==
  {q \in p + 1 .. PageCount :
     /\ \A n \in p .. q - 1 : layout[n] = layout[p]
     /\ q = PageCount \/ layout[q] # layout[p]}
Query(a) ==
  {[base |-> PageOf(a) * PageSize, size |-> (q - PageOf(a)) * PageSize,
    kind |-> layout[PageOf(a)]] : q \in RunEnds(PageOf(a))}

(* has_protection_flags(protect), is_commited() and ! is_memmapped()       *)
Wanted(kind) == kind.protect \cap Flags # {} /\ kind.commit /\ ~ kind.mapped

(* Mutant: the end of the range does not cut a region off.                 *)
Clip_KeepSize(mbi) ==
  [base |-> IF mbi.base < First THEN First ELSE mbi.base, size |-> mbi.size]

(* Cutting what the query said to the range.                               *)
Clip(mbi) ==
  LET base == IF mbi.base < First THEN First ELSE mbi.base IN
  [base |-> base,
   size |-> IF base + mbi.size > Last THEN Last - base ELSE mbi.size]

(* Mutant: an unwanted region is skipped before current_address advances.  *)
Visit_SkipAdvance ==
  /\ walk = "on"
  /\ current < Last
  /\ \E mbi \in Query(current) :
       LET region == Clip(mbi) IN
       /\ IF Wanted(mbi.kind)
          THEN regions' = Append(regions, region) /\ current' = region.base + region.size
          ELSE UNCHANGED <<regions, current>>
  /\ UNCHANGED <<layout, changes, range, walk>>

(* Mutant: the first unwanted region ends the walk.                        *)
Visit_StopAtUnwanted ==
  /\ walk = "on"
  /\ current < Last
  /\ \E mbi \in Query(current) :
       LET region == Clip(mbi) IN
       /\ IF Wanted(mbi.kind)
          THEN regions' = Append(regions, region) /\ UNCHANGED walk
          ELSE walk' = "done" /\ UNCHANGED regions
       /\ current' = region.base + region.size
  /\ UNCHANGED <<layout, changes, range>>

(* Mutant: the walk advances page by page.                                 *)
Visit_NextPage ==
  /\ walk = "on"
  /\ current < Last
  /\ \E mbi \in Query(current) :
       LET region == Clip(mbi) IN
       /\ regions' = IF Wanted(mbi.kind) THEN Append(regions, region) ELSE regions
       /\ current' = region.base + PageSize
  /\ UNCHANGED <<layout, changes, range, walk>>

(* Mutant: the loop goes on when current_address is the end of the range.  *)
Visit_OneMore ==
  /\ walk = "on"
  /\ current <= Last
  /\ \E mbi \in Query(current) :
       LET region == Clip(mbi) IN
       /\ regions' = IF Wanted(mbi.kind) THEN Append(regions, region) ELSE regions
       /\ current' = region.base + region.size
  /\ UNCHANGED <<layout, changes, range, walk>>

(* One iteration of the loop.                                              *)
Visit ==
  /\ walk = "on"
  /\ current < Last
  /\ \E mbi \in Query(current) :
       LET region == Clip(mbi) IN
       /\ regions' = IF Wanted(mbi.kind) THEN Append(regions, region) ELSE regions
       /\ current' = region.base + region.size
  /\ UNCHANGED <<layout, changes, range, walk>>

(* The end of the loop: the end of the range, or a query beyond the last    *)
(* page of the address space, which fails.                                 *)
Leave ==
  /\ walk = "on"
  /\ \/ current >= Last /\ walk' = "done"
     \/ current < Last /\ current >= PageCount * PageSize /\ walk' = "cut"
  /\ UNCHANGED <<layout, changes, range, current, regions>>

(* A query that fails elsewhere: the handle was closed, the target exited. *)
QueryFails ==
  /\ QueryMayFail
  /\ walk = "on"
  /\ current < Last
  /\ walk' = "cut"
  /\ UNCHANGED <<layout, changes, range, current, regions>>

(* The target allocates, frees or protects memory.                         *)
Change ==
  /\ walk = "on"
  /\ changes < MaxChanges
  /\ \E p \in Pages, kind \in Kinds : layout' = [layout EXCEPT ![p] = kind]
  /\ changes' = changes + 1
  /\ UNCHANGED <<range, current, regions, walk>>

Next == Visit \/ Leave \/ QueryFails \/ Change

Spec == Init /\ [][Next]_vars

(* The scanner's thread is scheduled; no query has to fail.                *)
FairSpec == Spec /\ WF_vars(Visit \/ Leave)

-----------------------------------------------------------------------------

Region == [base : Nat, size : Nat \ {0}]

(* The types of the variables; a region of the queue is never empty.       *)
TypeOK ==
  /\ layout \in [Pages -> Kinds]
  /\ changes \in 0 .. MaxChanges
  /\ range \in Ranges
  /\ current \in Nat
  /\ regions \in Seq(Region)
  /\ walk \in {"on", "done", "cut"}

End(r) == r.base + r.size

(* Every region lies in the range asked for, whatever the target does in   *)
(* the middle of the walk.                                                 *)
WithinRange ==
  \A i \in DOMAIN regions : First <= regions[i].base /\ End(regions[i]) <= Last

(* The regions come in the order of their addresses and no two share one,  *)
(* whatever the target does meanwhile.  first_scan gives each a buffer of  *)
(* its own and next_scan walks along them.                                 *)
InOrder ==
  \A i, j \in DOMAIN regions : i < j => End(regions[i]) <= regions[j].base

(* The inductive invariant behind both, for ranges that begin on a page:   *)
(* the walk stands on a page behind all regions, or at its end.            *)
OnPage(a) == \E k \in Nat : a = k * PageSize
WalkInv ==
  /\ TypeOK
  /\ WithinRange
  /\ InOrder
  /\ First <= current
  /\ \A i \in DOMAIN regions : End(regions[i]) <= current
  /\ OnPage(current) \/ current >= Last

(* The addresses of a region.                                              *)
Addresses(r) == r.base .. End(r) - 1

(* What a walk over a target that stands still should find: the longest    *)
(* runs of wanted pages of one kind, as far as they lie in the range.      *)
IsRun(p, q) ==
  /\ p < q
  /\ Wanted(layout[p])
  /\ \A n \in p .. q - 1 : layout[n] = layout[p]
  /\ p > 0 => layout[p - 1] # layout[p]
  /\ q < PageCount => layout[q] # layout[p]
Piece(p, q) ==
  LET first == Max({First, p * PageSize}) IN
  [base |-> first, size |-> Min({Last, q * PageSize}) - first]
Runs ==
  {Piece(run[1], run[2]) :
     run \in {pair \in Pages \X (1 .. PageCount) : IsRun(pair[1], pair[2])}}
FindsRuns ==
  walk = "done" /\ changes = 0 => {regions[i] : i \in DOMAIN regions} = {run \in Runs : run.size > 0}

(* "Range search: specify the memory range to scan" (README.md): every     *)
(* wanted byte of the range is in a region that ReadProcessMemory can read *)
(* from its first to its last byte.                                        *)
Readable(r) ==
  \A a \in Addresses(r) : LET kind == layout[PageOf(a)] IN kind.commit /\ kind.protect # {}
RangeCovered ==
  walk = "done" /\ changes = 0 =>
    \A a \in First .. Last - 1 :
      Wanted(layout[PageOf(a)]) =>
        \E i \in DOMAIN regions : a \in Addresses(regions[i]) /\ Readable(regions[i])

(* The walk ends, however the target changes.                              *)
WalkEnds == <>(walk # "on")

=============================================================================
