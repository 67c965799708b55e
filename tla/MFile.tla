------------------------------- MODULE MFile -------------------------------
(***************************************************************************)
(* The dump file of the scanner: class m_file (dumpable/dumpable.hpp,      *)
(* dumpable/src/dumpable.cpp) and what mio::basic_mmap::map (mio.hpp)      *)
(* answers it.  The file only grows; write() hands out consecutive pieces  *)
(* of it through the current memory-mapped view and maps a new view        *)
(* whenever a piece does not fit any more.                                 *)
(*                                                                         *)
(* write() runs under m_file::_mutex from its first to its last line, so   *)
(* one call is one action.  Lengths and offsets are bytes; size_t does not *)
(* wrap for any file that fits on a disk, so they are natural numbers.     *)
(***************************************************************************)
EXTENDS Integers, Sequences

CONSTANTS
  PageSize,     (* PAGE_SIZE, the unit the file length is rounded to.      *)
  Granularity,  (* mio::page_size(), the unit view offsets are aligned to. *)
  Bytes,        (* Values of a byte of the file.                           *)
  Zero,         (* The byte memset writes.                                 *)
  InitialSizes, (* Sizes given to m_file(name, size).                      *)
  StaleSizes,   (* Lengths of a dump file DeleteFileA could not remove.    *)
  Faults        (* System calls that may fail: "open", "expand", "map".    *)

ASSUME PageSizeAssumption == PageSize \in Nat \ {0}
ASSUME GranularityAssumption == Granularity \in Nat \ {0}
ASSUME ZeroAssumption == Zero \in Bytes
ASSUME SizesAssumption == InitialSizes \subseteq Nat /\ StaleSizes \subseteq Nat
ASSUME FaultsAssumption == Faults \subseteq {"open", "expand", "map"}

VARIABLES
  process,     (* "running", or the undefined behaviour write() ran into,  *)
               (* or "wholeFile", see WriteWholeFile.                      *)
  valid,       (* _valid                                                   *)
  size,        (* _size, which is also the length of the file on disk.     *)
  offset,      (* _offset, where the next piece goes.                      *)
  views,       (* Every active_map made so far, in order: its first byte   *)
               (* in the file and its length.                              *)
  currentMap,  (* _current_map, an index into views, or NoMap.             *)
  mapOffset,   (* _map_offset, the same place as offset within that view.  *)
  content      (* The bytes of the file.                                   *)

fileVars == <<process, valid, size, offset, views, currentMap, mapOffset, content>>

NoMap == 0

Zeros(n) == [i \in 1 .. n |-> Zero]

AlignUp(n) == ((n + PageSize - 1) \div PageSize) * PageSize

(* The file with the bytes of src at positions at, at + 1, ...             *)
Patch(file, at, src) ==
  [k \in DOMAIN file |-> IF k \in at .. at + Len(src) - 1
                         THEN src[k - at + 1] ELSE file[k]]

(* Mutant: the file pointer is moved but SetEndOfFile is not called.       *)
Resize_NoSetEnd(file, old, new) == file

(* SetEndOfFile: what lies behind the old end reads as zeros.              *)
Resize(file, old, new) ==
  [k \in 0 .. new - 1 |-> IF k < old THEN file[k] ELSE Zero]

-----------------------------------------------------------------------------

(* m_file(name): the old file is deleted and an empty one created.  A file *)
(* somebody else holds open survives the DeleteFileA and keeps its length. *)
Open ==
  \/ valid = TRUE /\ size \in {0} \cup StaleSizes
  \/ "open" \in Faults /\ valid = FALSE /\ size = 0

(* m_file(name, size): additionally sets the length; if that fails, _size  *)
(* is what the first constructor found.                                    *)
OpenSized ==
  /\ InitialSizes # {}
  /\ \/ valid = TRUE /\ size \in {AlignUp(n) : n \in InitialSizes}
     \/ "open" \in Faults /\ valid = FALSE /\ size \in {0} \cup StaleSizes

FileInit ==
  /\ process = "running"
  /\ Open \/ OpenSized
  /\ offset = 0
  /\ views = << >>
  /\ currentMap = NoMap
  /\ mapOffset = 0
  /\ content = [k \in 0 .. size - 1 |-> Zero]

(* expand_size(n): the possible values of _size afterwards.  The result of *)
(* the call is not looked at by write().                                   *)
ExpandSize(n) ==
  (IF valid THEN {AlignUp((size + n) * 2)} ELSE {size})
    \cup (IF "expand" \in Faults THEN {size} ELSE {})

(* The bytes basic_mmap::map asks the system to map for the file from at   *)
(* to s: the view starts at a multiple of the granularity.                 *)
LengthToMap(at, s) == (at % Granularity) + (s - at)

(* Mutant: do_map() with the default offset, a view of the whole file.     *)
DoMap_FromStart(at, s) ==
  {IF s > 0 THEN <<[base |-> 0, len |-> s]>> ELSE << >>}

(* do_map(at) on a file of length s: << >> for a view whose data() is      *)
(* null, else the view.  The file is opened by its name, whatever _valid   *)
(* says; of a file without bytes nothing can be mapped.                    *)
DoMap(at, s) ==
  (IF LengthToMap(at, s) > 0
   THEN {<<[base |-> at, len |-> s - at]>>} ELSE {<< >>})
    \cup (IF "map" \in Faults THEN {<< >>} ELSE {})

(* The end of write(): the bytes of src are stored at place at of view m,  *)
(* m one of vs, and both offsets advance.  Without a view the code follows *)
(* a null pointer; beyond the end of the view it writes to memory that is  *)
(* not the file's.  What the process does after either is not modelled.    *)
Store(vs, m, at, file, src) ==
  /\ views' = vs
  /\ currentMap' = m
  /\ \/ /\ m = NoMap
        /\ process' = "nullDeref"
        /\ content' = file
        /\ UNCHANGED <<offset, mapOffset>>
     \/ /\ m # NoMap
        /\ at + Len(src) > vs[m].len
        /\ process' = "overrun"
        /\ content' = file
        /\ UNCHANGED <<offset, mapOffset>>
     \/ /\ m # NoMap
        /\ at + Len(src) <= vs[m].len
        /\ content' = Patch(file, vs[m].base + at, src)
        /\ offset' = offset + Len(src)
        /\ mapOffset' = at + Len(src)
        /\ UNCHANGED process

(* Mutant: the length of the piece is missing from the comparison.         *)
WriteFits_OffsetOnly(src) ==
  /\ offset < size
  /\ Store(views, currentMap, mapOffset, content, src)
  /\ UNCHANGED size

(* write(): the piece fits the file.                                       *)
WriteFits(src) ==
  /\ offset + Len(src) <= size
  /\ Store(views, currentMap, mapOffset, content, src)
  /\ UNCHANGED size

(* Mutant: _map_offset is not reset when a new view becomes current.       *)
WriteGrows_KeepMapOffset(src) ==
  /\ offset + Len(src) > size
  /\ \E s \in ExpandSize(Len(src)) : \E v \in DoMap(offset, s) \ {<< >>} :
       /\ size' = s
       /\ Store(views \o v, Len(views) + 1, mapOffset, Resize(content, size, s), src)

(* write(): the piece does not fit, the file grows and the rest of it,     *)
(* from offset on, is mapped.  A view that cannot be mapped makes write()  *)
(* return null and leaves everything but the length as it was.             *)
WriteGrows(src) ==
  /\ offset + Len(src) > size
  /\ \E s \in ExpandSize(Len(src)) :
       LET file == Resize(content, size, s) IN
       /\ size' = s
       /\ \/ /\ << >> \in DoMap(offset, s)
             /\ content' = file
             /\ UNCHANGED <<process, offset, views, currentMap, mapOffset>>
          \/ \E v \in DoMap(offset, s) \ {<< >>} :
               Store(views \o v, Len(views) + 1, 0, file, src)

(* write(): the constructor could not open a file that was there, do_map() *)
(* can.  Asked for no bytes, as many as _size says there are, mio maps the *)
(* whole file.  What becomes of _offset, now beyond _size, is not modelled.*)
WriteWholeFile(src) ==
  /\ offset + Len(src) > size
  /\ ~ valid /\ size = 0
  /\ \E length \in StaleSizes : length > 0
  /\ process' = "wholeFile"
  /\ UNCHANGED <<size, offset, views, currentMap, mapOffset, content>>

Write(src) ==
  /\ process = "running"
  /\ WriteFits(src) \/ WriteGrows(src) \/ WriteWholeFile(src)
  /\ UNCHANGED valid

(* What a call to write() that made this step returned: << >> for null,    *)
(* else the place in the view it handed out.                               *)
Returned(n) ==
  IF offset' = offset THEN << >>
  ELSE <<[map |-> currentMap', at |-> mapOffset' - n, len |-> n]>>

-----------------------------------------------------------------------------

View == [base : Nat, len : Nat]

(* The types of the members of m_file and of its views.                    *)
FileTypeOK ==
  /\ process \in {"running", "nullDeref", "overrun", "wholeFile"}
  /\ valid \in BOOLEAN
  /\ size \in Nat
  /\ offset \in Nat
  /\ views \in Seq(View)
  /\ currentMap \in 0 .. Len(views)
  /\ mapOffset \in Nat
  /\ content \in [0 .. size - 1 -> Bytes]

(* The two offsets of m_file name the same byte of the file, and no view   *)
(* reaches beyond its end: the inductive invariant of write(), whichever   *)
(* system calls fail.                                                      *)
FileInv ==
  /\ FileTypeOK
  /\ offset <= size
  /\ \A m \in 1 .. Len(views) : views[m].base + views[m].len <= size
  /\ process = "running" /\ currentMap # NoMap =>
       views[currentMap].base + mapOffset = offset

(* While the file can be grown and mapped, the current view reaches to the *)
(* end of the file: what fits the file fits the view.                      *)
StorageInv ==
  /\ process = "running"
  /\ valid \/ size = 0
  /\ currentMap = NoMap => size = 0
  /\ currentMap # NoMap => views[currentMap].base + views[currentMap].len = size

(* "Pointer to the destination in the mapped memory, or nullptr on         *)
(* failure" (dumpable.hpp): write() never stores beyond the end of the     *)
(* view it writes through.                                                 *)
DestinationMapped == process # "overrun"

(* "If necessary, the file is expanded and a new mapping is created"       *)
(* (dumpable.hpp): write() never goes through a _current_map that is null. *)
MappingCreated == process # "nullDeref"

(* m_file::write stays inside the view it has, however the file length,    *)
(* the two offsets and the views developed over the calls before.          *)
MemorySafe == DestinationMapped /\ MappingCreated

=============================================================================
