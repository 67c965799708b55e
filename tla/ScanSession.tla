---------------------------- MODULE ScanSession ----------------------------
(***************************************************************************)
(* A caller of slow_scanner (src/slow_scanner.cpp): first_scan, then any   *)
(* number of next_scan calls that narrow the vector of scans it returned,  *)
(* and scan::update (scanner/scan.hpp) in between.  The tasks of first_scan*)
(* end in any order, a step each, with a value or an exception; which      *)
(* thread runs one is ThreadPool's matter.  next_scan walks along the new  *)
(* regions and the old scans; an iteration of its loop is a step.          *)
(*                                                                         *)
(* Between two calls, and while tasks run, the target may do anything to   *)
(* its memory.  A region may also be gone when it is read, after           *)
(* get_regions listed it.                                                  *)
(***************************************************************************)
EXTENDS Criteria, FiniteSets, Functions

CONSTANTS
  Radix,          (* Values of a byte: 256.                                *)
  FirstTypes,     (* scan_types given to first_scan,                       *)
  NextTypes,      (* and to next_scan.                                     *)
  Raws, Options,  (* Arguments raw1 and raw2.                              *)
  Addresses,      (* The address space.                                    *)
  Layouts,        (* What get_regions may return.                          *)
  MaxUpdates      (* Bound on the calls of update in a row.                *)

Bytes == 0 .. Radix - 1
Words == 0 .. Word - 1
End(r) == r.base + r.size
Span(r) == r.base .. End(r) - 1

ASSUME ByteAssumption == Radix \in Nat \ {0}
ASSUME UpdateAssumption == MaxUpdates \in Nat
ASSUME ArgumentAssumption ==
  /\ FirstTypes \cup NextTypes \subseteq STRING
  /\ DOMAIN ElementSize \subseteq {"U8", "U16", "U32", "U64", "Float", "Double"}
  /\ Raws \subseteq Words
  /\ Options \subseteq {<< >>} \cup {<<c>> : c \in Words}
ASSUME LayoutAssumption ==
  \A list \in Layouts :
    /\ list \in Seq([base : Nat, size : Nat])
    /\ \A i \in DOMAIN list :
      /\ list[i].size > 0
      /\ Span(list[i]) \subseteq Addresses
      /\ \A j \in 1 .. i - 1 : End(list[j]) <= list[i].base

(* What a session needs for its indices to be addresses.  The bases and    *)
(* sizes of regions are whole numbers of elements: those of VirtualQueryEx *)
(* are whole numbers of pages, and so are those of get_regions if its range*)
(* is.                                                                     *)
OnBoundary(r) == \A W \in Range(ElementSize) : r.base % W = 0 /\ r.size % W = 0
OnElements == \A list \in Layouts : \A r \in Range(list) : OnBoundary(r)

(* And the elements of all calls have one width, though the type of the    *)
(* elements may change from call to call.                                  *)
SizesAgree == \A V, W \in Range(ElementSize) : V = W

VARIABLES
  target,   (* What a running next_scan finds: the regions of the target,  *)
            (* those of them that can be read, and the bytes in these.     *)
  scans,    (* The caller's vector, prev_scans.                            *)
  call,     (* "none", "idle", "first" and "walking" inside the two scans. *)
  query,    (* The arguments of the call.                                  *)
  futures,  (* futures, of first_scan.                                     *)
  regions,  (* regions, the queue.                                         *)
  idx,      (* idx                                                         *)
  results,  (* results                                                     *)
  updated   (* How often update was called since.                          *)

vars == <<target, scans, call, query, futures, regions, idx, results, updated>>

Readable(list, readable) ==
  [bytes : [UNION {Span(r) : r \in readable} -> Bytes], regions : {list}, readable : {readable}]
TargetsOf(list) == UNION {Readable(list, readable) : readable \in SUBSET Range(list)}
Targets == UNION {TargetsOf(list) : list \in Layouts}
NoTarget == [bytes |-> << >>, regions |-> << >>, readable |-> {}]

QueriesOf(types) ==
  [type : types, elem : DOMAIN ElementSize, raw1 : Raws, raw2 : Options]
NoQuery == << >>

Init ==
  /\ target = NoTarget
  /\ scans = << >>
  /\ call = "none"
  /\ query = NoQuery
  /\ futures = << >>
  /\ regions = << >>
  /\ idx = 1
  /\ results = << >>
  /\ updated = 0

-----------------------------------------------------------------------------

(* What ReadProcessMemory copies for region r of target t.                 *)
Snapshot(t, r) == [k \in 1 .. r.size |-> t.bytes[r.base + k - 1]]

(* memcpy of n bytes from place at of a buffer into a zeroed uint64_t,     *)
(* from the highest byte down.                                             *)
ValueAt(buffer, at, n) ==
  LET high[k \in 0 .. n] ==
        IF k = 0 THEN 0 ELSE (buffer[at + n - k + 1] + Radix * high[k - 1]) % Word
  IN  high[n]

(* The numbers in a set, the least first.                                  *)
Ascending(S) ==
  CHOOSE list \in [1 .. Cardinality(S) -> S] :
    \A i, j \in DOMAIN list : i < j => list[i] < list[j]

Scan(r, q, bytes, entries) ==
  [base |-> r.base, size |-> r.size, type |-> q.type, elem |-> ElementSize[q.elem],
   bytes |-> bytes, results |-> entries]

Entry(v, index) == [value |-> v, snapshot |-> v, index |-> index]

(* Mutant: the comparison of the sort is the wrong way round.              *)
ByBase_Descending(list) ==
  LET order == CHOOSE p \in [DOMAIN list -> DOMAIN list] :
        \A i, j \in DOMAIN list : i < j => p[i] # p[j] /\ list[p[i]].base >= list[p[j]].base
  IN  [k \in DOMAIN list |-> list[order[k]]]

(* The std::sort at the end of first_scan and of next_scan.                *)
ByBase(list) ==
  LET order == CHOOSE p \in [DOMAIN list -> DOMAIN list] :
        \A i, j \in DOMAIN list : i < j => p[i] # p[j] /\ list[p[i]].base <= list[p[j]].base
  IN  [k \in DOMAIN list |-> list[order[k]]]

(* scan::search_value over elements of n bytes.                            *)
SearchValue(bytes, q, n) ==
  LET At(k) == ValueAt(bytes, k * n, n)
      hits == Ascending({k \in 0 .. Len(bytes) \div n - 1 : Match(q, At(k), q.raw1)})
  IN  [i \in DOMAIN hits |-> Entry(At(hits[i]), hits[i])]

FirstScan(list, q) ==
  /\ call = "none"
  /\ call' = "first"
  /\ query' = q
  /\ regions' = list
  /\ futures' = [i \in DOMAIN list |-> <<"pending">>]
  /\ UNCHANGED <<target, scans, idx, results, updated>>

(* The lambda for region i.  A scan that was not read, or found nothing,   *)
(* is not valid.                                                           *)
Task(i) ==
  /\ futures[i] = <<"pending">>
  /\ \/ \E bytes \in [1 .. regions[i].size -> Bytes] :
          LET entries == SearchValue(bytes, query, ElementSize[query.elem]) IN
          futures' = [futures EXCEPT ![i] =
            IF query.type = "unknown_value" THEN <<"valid", Scan(regions[i], query, bytes, << >>)>>
            ELSE IF entries # << >> THEN <<"valid", Scan(regions[i], query, bytes, entries)>>
            ELSE <<"invalid">>]
     \/ \E how \in {"invalid", "exception"} : futures' = [futures EXCEPT ![i] = <<how>>]
  /\ UNCHANGED <<target, scans, call, query, regions, idx, results, updated>>

(* The call is over, and with it its local variables.                      *)
Leave ==
  /\ query' = NoQuery
  /\ futures' = << >>
  /\ regions' = << >>

(* Every get() returned a scan.                                            *)
Collect ==
  /\ call = "first"
  /\ \A i \in DOMAIN futures : futures[i][1] \in {"valid", "invalid"}
  /\ LET valid == Ascending({i \in DOMAIN futures : futures[i][1] = "valid"}) IN
     scans' = ByBase([k \in DOMAIN valid |-> futures[valid[k]][2]])
  /\ call' = "idle"
  /\ Leave
  /\ UNCHANGED <<target, idx, results, updated>>

(* A get() throws.  Tasks that run on have nobody left to look at them.    *)
Throw ==
  /\ call = "first"
  /\ \E i \in DOMAIN futures :
       /\ futures[i] = <<"exception">>
       /\ \A j \in 1 .. i - 1 : futures[j][1] \in {"valid", "invalid"}
  /\ call' = "none"
  /\ Leave
  /\ UNCHANGED <<target, scans, idx, results, updated>>

(* next_scan up to its loop.                                               *)
NextScan(t, q) ==
  /\ call = "idle"
  /\ target' = t
  /\ query' = q
  /\ regions' = t.regions
  /\ idx' = 1
  /\ results' = << >>
  /\ call' = "walking"
  /\ updated' = 0
  /\ UNCHANGED <<scans, futures>>

-----------------------------------------------------------------------------

Walking == call = "walking" /\ idx <= Len(scans) /\ regions # << >>

(* The region at the front lies in front of the scan at idx.               *)
SkipRegion ==
  /\ Walking
  /\ End(Head(regions)) <= scans[idx].base
  /\ regions' = Tail(regions)
  /\ UNCHANGED <<target, scans, call, query, futures, idx, results, updated>>

(* The scan at idx lies in front of the region.                            *)
SkipScan ==
  /\ Walking
  /\ scans[idx].base < End(Head(regions))
  /\ End(scans[idx]) <= Head(regions).base
  /\ idx' = idx + 1
  /\ UNCHANGED <<target, scans, call, query, futures, regions, results, updated>>

Larger(a, b) == IF a < b THEN b ELSE a
Smaller(a, b) == IF a < b THEN a ELSE b

(* The overlap of region and old scan, absolute.                           *)
OvStart(r, p) == Larger(r.base, p.base)
OvEnd(r, p) == Smaller(End(r), End(p))

(* elem_sz                                                                 *)
Width == ElementSize[query.elem]

(* After an unknown_value scan: every element of the overlap is compared   *)
(* with what it was.                                                       *)
FromSnapshot(r, bytes, p) ==
  LET rOff == OvStart(r, p) - r.base
      pOff == OvStart(r, p) - p.base
      n == (OvEnd(r, p) - OvStart(r, p)) \div Width
      New(k) == ValueAt(bytes, rOff + k * Width, Width)
      Old(k) == ValueAt(p.bytes, pOff + k * Width, Width)
      kept == Ascending({k \in 0 .. n - 1 : Match(query, New(k), Old(k))})
  IN  [i \in DOMAIN kept |-> Entry(New(kept[i]), (rOff + kept[i] * Width) \div Width)]

(* What the new value of entry e is compared with.                         *)
Compared(e) == IF query.type \in Relative THEN e.snapshot ELSE query.raw1

(* e_addr, and the index of that element in region r.                      *)
EAddr(p, e) == p.base + e.index * Width
NewIndex(r, p, e) == (EAddr(p, e) - r.base) \div Width

(* Mutant: an element at the end of the overlap is left out.               *)
InOverlap_Strict(r, p, e) ==
  EAddr(p, e) >= OvStart(r, p) /\ EAddr(p, e) + Width < OvEnd(r, p)

InOverlap(r, p, e) ==
  EAddr(p, e) >= OvStart(r, p) /\ EAddr(p, e) + Width <= OvEnd(r, p)

(* Mutant: the index is taken over from the old region.                    *)
FromResults_OldIndex(r, bytes, p) ==
  LET New(e) == ValueAt(bytes, NewIndex(r, p, e) * Width, Width)
      kept == Ascending({k \in DOMAIN p.results :
                           /\ InOverlap(r, p, p.results[k])
                           /\ Match(query, New(p.results[k]), Compared(p.results[k]))})
  IN  [i \in DOMAIN kept |->
         Entry(New(p.results[kept[i]]), p.results[kept[i]].index)]

(* After any other scan: the results in the overlap are looked at again.   *)
FromResults(r, bytes, p) ==
  LET New(e) == ValueAt(bytes, NewIndex(r, p, e) * Width, Width)
      kept == Ascending({k \in DOMAIN p.results :
                           /\ InOverlap(r, p, p.results[k])
                           /\ Match(query, New(p.results[k]), Compared(p.results[k]))})
  IN  [i \in DOMAIN kept |->
         Entry(New(p.results[kept[i]]), NewIndex(r, p, p.results[kept[i]]))]

(* The new scan for region r, searched where it overlaps old scan p.       *)
Narrowed(r, p) ==
  LET bytes == Snapshot(target, r) IN
  Scan(r, query, bytes, IF p.type = "unknown_value" THEN FromSnapshot(r, bytes, p)
                        ELSE FromResults(r, bytes, p))

(* Mutant: a scan without a result is returned as well.                    *)
Valid_Always(s) == TRUE

(* is_valid() of a scan of next_scan.                                      *)
Valid(s) == s.results # << >>

Overlap == Walking /\ scans[idx].base < End(Head(regions)) /\ Head(regions).base < End(scans[idx])

(* Mutant: a region that cannot be read stays in the queue.                *)
Consume_PopLate ==
  /\ Overlap
  /\ LET s == Narrowed(Head(regions), scans[idx])
         read == Head(regions) \in target.readable
     IN  /\ results' = IF read /\ Valid(s) THEN Append(results, s) ELSE results
         /\ regions' = IF read THEN Tail(regions) ELSE regions
  /\ UNCHANGED <<target, scans, call, query, futures, idx, updated>>

(* Region and scan overlap: the region is read and searched, and is        *)
(* consumed either way.                                                    *)
Consume ==
  /\ Overlap
  /\ LET s == Narrowed(Head(regions), scans[idx]) IN
     results' = IF Head(regions) \in target.readable /\ Valid(s) THEN Append(results, s)
                ELSE results
  /\ regions' = Tail(regions)
  /\ UNCHANGED <<target, scans, call, query, futures, idx, updated>>

(* The end of next_scan.                                                   *)
Return ==
  /\ call = "walking"
  /\ ~ Walking
  /\ scans' = ByBase(results)
  /\ call' = "idle"
  /\ target' = NoTarget
  /\ Leave
  /\ idx' = 1
  /\ results' = << >>
  /\ UNCHANGED updated

(* An exception leaves next_scan, out of the read of a region or for want  *)
(* of memory: prev_scans is assigned to at the very end, results is local. *)
Abort ==
  /\ call = "walking"
  /\ call' = "idle"
  /\ target' = NoTarget
  /\ Leave
  /\ idx' = 1
  /\ results' = << >>
  /\ UNCHANGED <<scans, updated>>

(* scan::update: the region is read again, as far as it can be, and the    *)
(* values are fetched from the buffer, whatever bytes that holds now.      *)
Update(i, bytes) ==
  LET s == scans[i] IN
  /\ call = "idle"
  /\ updated < MaxUpdates
  /\ s.results # << >>
  /\ scans' = [scans EXCEPT
       ![i].bytes = bytes,
       ![i].results = [k \in DOMAIN s.results |->
          [s.results[k] EXCEPT !.value = ValueAt(bytes, s.results[k].index * s.elem, s.elem)]]]
  /\ updated' = updated + 1
  /\ UNCHANGED <<target, call, query, futures, regions, idx, results>>

CallerStep == Collect \/ Throw \/ SkipRegion \/ SkipScan \/ Consume \/ Return

Next ==
  \/ \E list \in Layouts : \E q \in QueriesOf(FirstTypes) : FirstScan(list, q)
  \/ \E i \in DOMAIN futures : Task(i)
  \/ \E t \in Targets : \E q \in QueriesOf(NextTypes) : NextScan(t, q)
  \/ CallerStep \/ Abort
  \/ \E i \in DOMAIN scans : \E bytes \in [1 .. scans[i].size -> Bytes] : Update(i, bytes)

Spec == Init /\ [][Next]_vars

(* The caller's thread and those of the pool are scheduled; nothing makes  *)
(* the caller call again, and no call relies on an exception to end it     *)
(* that is not one of its tasks'.                                          *)
FairSpec == Spec /\ WF_vars(CallerStep) /\ WF_vars(\E i \in DOMAIN futures : Task(i))

-----------------------------------------------------------------------------

Types == FirstTypes \cup NextTypes \cup {"unknown_value"}

(* A scan that is kept has results, or is one of unknown values            *)
(* (scan::is_valid).                                                       *)
Scans ==
  {s \in [base : Nat, size : Nat \ {0}, type : Types, elem : Range(ElementSize),
          bytes : Seq(Bytes), results : Seq([value : Words, snapshot : Words, index : Nat])] :
     /\ Len(s.bytes) = s.size
     /\ s.type # "unknown_value" <=> s.results # << >>}

Outcomes == {<<"pending">>, <<"invalid">>, <<"exception">>} \cup ({"valid"} \X Scans)

(* The types of the variables.                                             *)
TypeOK ==
  /\ target \in Targets \cup {NoTarget}
  /\ scans \in Seq(Scans) /\ results \in Seq(Scans)
  /\ futures \in Seq(Outcomes)
  /\ call \in {"none", "idle", "first", "walking"}
  /\ query = NoQuery \/ query \in QueriesOf(FirstTypes \cup NextTypes)
  /\ idx \in 1 .. Len(scans) + 1
  /\ updated \in 0 .. MaxUpdates

(* next_scan walks along regions and scans in step: the scans must be      *)
(* sorted by address, disjoint, and so must what it returns be.            *)
Sorted(list) == \A i, j \in DOMAIN list : i < j => End(list[i]) <= list[j].base
ScansInOrder == Sorted(scans) /\ Sorted(results)

(* A result names an element inside the buffer of its region, once, and    *)
(* value is what the buffer holds there, after scan::update too.           *)
ResultsInBuffer ==
  \A s \in Range(scans) \cup Range(results) :
    /\ \A k \in DOMAIN s.results :
         LET e == s.results[k] IN
         /\ (e.index + 1) * s.elem <= s.size
         /\ e.value = ValueAt(s.bytes, e.index * s.elem, s.elem)
    /\ \A k, n \in DOMAIN s.results : k < n => s.results[k].index < s.results[n].index

(* The candidates of a scan, as its caller sees them: absolute addresses   *)
(* and the values of the last scan.                                        *)
ScanFound(s) ==
  IF s.type = "unknown_value"
  THEN {<<s.base + k * s.elem, ValueAt(s.bytes, k * s.elem, s.elem)>> :
          k \in 0 .. s.size \div s.elem - 1}
  ELSE {<<s.base + e.index * s.elem, e.snapshot>> : e \in Range(s.results)}
Found(list) ==
  LET all == UNION {ScanFound(s) : s \in Range(list)}
  IN  [a \in {c[1] : c \in all} |-> (CHOOSE c \in all : c[1] = a)[2]]

Blind == \E i \in DOMAIN scans : scans[i].type = "unknown_value"

(* The session implements the abstract candidate set: next_scan keeps only *)
(* addresses that were candidates, compares each with the value it had at  *)
(* the last scan at that address, and update changes no candidate.         *)
Candidates == INSTANCE CandidateSet WITH
  Values <- Words,
  Queries <- QueriesOf(FirstTypes \cup NextTypes),
  found <- Found(scans),
  blind <- Blind,
  started <- call \in {"idle", "walking"},
  query <- IF query = NoQuery THEN << >> ELSE <<query>>
CandidatesNarrowed == Candidates!Spec

(* Candidate a still answers the query, in region r of the new list.       *)
Answers(a, r) ==
  /\ r.base <= a /\ a + Width <= End(r)
  /\ Match(query, ValueAt(Snapshot(target, r), a - r.base, Width),
           IF Blind \/ query.type \in Relative THEN Found(scans)[a] ELSE query.raw1)

(* Scan i is the first one that overlaps region r.                         *)
FirstOver(i, r) ==
  /\ scans[i].base < End(r) /\ r.base < End(scans[i])
  /\ \A j \in 1 .. i - 1 : End(scans[j]) <= r.base

(* No candidate that answers the query is lost by next_scan when the layout*)
(* changed, by splitting, moving or shrinking regions, provided its region *)
(* can be read and its scan is the first one the region overlaps.          *)
Kept ==
  \A i \in DOMAIN scans : \A r \in target.readable : FirstOver(i, r) =>
    \A c \in ScanFound(scans[i]) :
      Answers(c[1], r) => c[1] \in DOMAIN Found(scans')
NothingLost == [][call = "walking" /\ call' = "idle" => Kept]_vars

(* "Walk through each new region vs. previous scans" (slow_scanner.cpp):   *)
(* every candidate that answers the query in a region that can be read is  *)
(* kept, whichever scan it comes from.                                     *)
EveryScanWalked ==
  [][call = "walking" /\ call' = "idle" =>
       \A r \in target.readable, a \in DOMAIN Found(scans) :
         Answers(a, r) => a \in DOMAIN Found(scans')]_vars

(* "exact value" (README.md): a scan for an exact value leaves only        *)
(* addresses that have it, up to the tolerance of their type.              *)
ExactValueFound ==
  call = "walking" /\ query.type = "exact_value" =>
    \A i \in DOMAIN results : \A k \in DOMAIN results[i].results :
      Meets(query, results[i].results[k].value, query.raw1)

(* Both scans return: first_scan whatever its tasks do, next_scan whatever *)
(* the lists it walks along look like.                                     *)
ScansReturn == call \in {"first", "walking"} ~> call \in {"none", "idle"}

=============================================================================
