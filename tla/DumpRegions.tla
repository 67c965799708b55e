---------------------------- MODULE DumpRegions ----------------------------
(***************************************************************************)
(* The memory regions that share one dump file: classes dumpable           *)
(* (dumpable/dumpable.hpp) and memory_region (scanner/memory_region.hpp,   *)
(* .cpp).  Each region reserves a piece of the file on its first           *)
(* read_memory() and has ReadProcessMemory copy the target's memory there. *)
(* The worker threads of the pool read different regions at the same time: *)
(* the reservation runs under the mutex of the file, the copy does not.    *)
(***************************************************************************)
EXTENDS MFile

CONSTANTS
  Regions,    (* The memory_region objects.                                *)
  RegionSize  (* size() of each; get_regions never makes an empty one.     *)

ASSUME RegionSizeAssumption == RegionSize \in [Regions -> Nat \ {0}]

VARIABLES
  data,      (* _data, the pieces of the file a region was given.          *)
  maps,      (* _maps, the views a region keeps alive.                     *)
  reserved,  (* _mem_reserved                                              *)
  phase      (* "idle", "copying" between the two halves of read_memory(), *)
             (* or "gone" once the last shared_ptr to the region is.       *)

regionVars == <<data, maps, reserved, phase>>
vars == <<fileVars, regionVars>>

Init ==
  /\ FileInit
  /\ data = [r \in Regions |-> << >>]
  /\ maps = [r \in Regions |-> {}]
  /\ reserved = [r \in Regions |-> FALSE]
  /\ phase = [r \in Regions |-> "idle"]

(* Mutant: read_memory() does not set _mem_reserved.                       *)
Reserve_NotRemembered(r) ==
  /\ phase[r] = "idle"
  /\ ~ reserved[r]
  /\ Write(Zeros(RegionSize[r]))
  /\ LET span == Returned(RegionSize[r]) IN
     /\ data' = [data EXCEPT ![r] = @ \o span]
     /\ maps' = [maps EXCEPT ![r] = IF span = << >> THEN @
                                    ELSE @ \cup {span[1].map}]
     /\ phase' = [phase EXCEPT ![r] = IF span = << >> THEN @ ELSE "copying"]
     /\ UNCHANGED reserved

(* Mutant: write_data() does not insert the view into _maps.               *)
Reserve_ViewNotKept(r) ==
  /\ phase[r] = "idle"
  /\ ~ reserved[r]
  /\ Write(Zeros(RegionSize[r]))
  /\ LET span == Returned(RegionSize[r]) IN
     /\ data' = [data EXCEPT ![r] = @ \o span]
     /\ reserved' = [reserved EXCEPT ![r] = span # << >>]
     /\ phase' = [phase EXCEPT ![r] = IF span = << >> THEN @ ELSE "copying"]
     /\ UNCHANGED maps

(* read_memory() up to the return of alloc_f: write() under the mutex,     *)
(* then the span and the view it lies in are recorded.  When nothing was   *)
(* handed out the call ends there and a later one tries again.             *)
Reserve(r) ==
  /\ phase[r] = "idle"
  /\ ~ reserved[r]
  /\ Write(Zeros(RegionSize[r]))
  /\ LET span == Returned(RegionSize[r]) IN
     /\ data' = [data EXCEPT ![r] = @ \o span]
     /\ maps' = [maps EXCEPT ![r] = IF span = << >> THEN @
                                    ELSE @ \cup {span[1].map}]
     /\ reserved' = [reserved EXCEPT ![r] = span # << >>]
     /\ phase' = [phase EXCEPT ![r] = IF span = << >> THEN @ ELSE "copying"]

(* The first byte of a span in the file.                                   *)
Position(span) == views[span.map].base + span.at

(* The rest of read_memory(): ReadProcessMemory into _data[0].  A call     *)
(* that fails may still have copied the first bytes.  The action is also   *)
(* the whole of a repeated read_memory(), which scan::update makes.        *)
Copy(r) ==
  /\ process = "running"
  /\ phase[r] = "copying" \/ reserved[r]
  /\ \E n \in 0 .. RegionSize[r] : \E bytes \in [1 .. n -> Bytes] :
       content' = Patch(content, Position(data[r][1]), bytes)
  /\ phase' = [phase EXCEPT ![r] = "idle"]
  /\ UNCHANGED <<process, valid, size, offset, views, currentMap, mapOffset>>
  /\ UNCHANGED <<data, maps, reserved>>

(* ~memory_region: the spans and the views they lie in are let go, the     *)
(* piece of the file is not reused.                                        *)
Drop(r) ==
  /\ process = "running"
  /\ phase[r] = "idle"
  /\ data' = [data EXCEPT ![r] = << >>]
  /\ maps' = [maps EXCEPT ![r] = {}]
  /\ reserved' = [reserved EXCEPT ![r] = FALSE]
  /\ phase' = [phase EXCEPT ![r] = "gone"]
  /\ UNCHANGED fileVars

Next == \E r \in Regions : Reserve(r) \/ Copy(r) \/ Drop(r)

Spec == Init /\ [][Next]_vars

-----------------------------------------------------------------------------

(* The views that are still mapped: an active_map lives as long as one     *)
(* shared_ptr to it, of the file or of a region, does.                     *)
Mapped == {currentMap} \cup UNION {maps[r] : r \in Regions}

(* raw_bytes() of a region, read through the view; the pages of a view     *)
(* that has been unmapped are not there any more.                          *)
Unmapped == <<"unmapped">>
RawBytes(r) ==
  IF data[r] = << >> THEN << >>
  ELSE IF data[r][1].map \notin Mapped THEN Unmapped
  ELSE [i \in 1 .. data[r][1].len |-> content[Position(data[r][1]) + i - 1]]

Span == [map : Nat, at : Nat, len : Nat]

(* The types of the variables of dumpable and memory_region.               *)
TypeOK ==
  /\ FileTypeOK
  /\ data \in [Regions -> Seq(Span)]
  /\ maps \in [Regions -> SUBSET (1 .. Len(views))]
  /\ reserved \in [Regions -> BOOLEAN]
  /\ phase \in [Regions -> {"idle", "copying", "gone"}]

(* No byte of the file is in the spans of two regions, whichever views the *)
(* spans were handed out through (m_file::write, dumpable::write_data).    *)
SpansDisjoint ==
  \A r, q \in Regions : r # q =>
    \A i \in DOMAIN data[r], j \in DOMAIN data[q] :
      \/ Position(data[r][i]) + data[r][i].len <= Position(data[q][j])
      \/ Position(data[q][j]) + data[q][j].len <= Position(data[r][i])

(* A region is given one piece of the file however often it is read:       *)
(* raw_bytes() looks at _data[0] only (memory_region::read_memory).        *)
OneChunk == \A r \in Regions : Len(data[r]) <= 1

(* A region that has memory reserved has one span, of its size, inside a   *)
(* view it keeps mapped and in the part of the file handed out so far.     *)
RegionOK(r) ==
  /\ reserved[r] <=> data[r] # << >>
  /\ phase[r] = "copying" => reserved[r]
  /\ reserved[r] =>
       /\ Len(data[r]) = 1
       /\ data[r][1].map \in maps[r]
       /\ data[r][1].len = RegionSize[r]
       /\ data[r][1].at + RegionSize[r] <= views[data[r][1].map].len
       /\ Position(data[r][1]) + RegionSize[r] <= offset

(* The inductive invariant of the regions and their file, whichever system *)
(* calls fail (m_file::write, dumpable::write_data, read_memory).          *)
RegionInv ==
  /\ TypeOK
  /\ FileInv
  /\ \A r \in Regions : RegionOK(r)
  /\ SpansDisjoint

(* The regions implement private snapshots: through growth of the file,    *)
(* remapping, and reads of the other regions, raw_bytes() of a region is   *)
(* what was last copied into it.                                           *)
Snapshots == INSTANCE SnapshotStore WITH snapshot <- [r \in Regions |-> RawBytes(r)]
SnapshotsIntact == Snapshots!Spec

=============================================================================
