-------------------------------- MODULE MMap --------------------------------
(***************************************************************************)
(* mio::basic_mmap (mio.hpp, the Windows branch), which active_map wraps:  *)
(* objects that own a file handle, the handle of a file mapping and a view *)
(* of it, and pass them on when they are moved.                            *)
(*                                                                         *)
(* The system hands out the number of a closed handle again, so an object  *)
(* that closes a handle twice closes somebody else's.  sync() changes none *)
(* of the state kept here.  A method is called by one thread at a time.    *)
(***************************************************************************)
EXTENDS Naturals, FiniteSets

CONSTANTS
  Objects,            (* Places where a basic_mmap can live.               *)
  Handles,            (* The table of handles of the process.              *)
  Addresses,          (* Where MapViewOfFile can place a view.             *)
  invalid_handle,     (* INVALID_HANDLE_VALUE                              *)
  nullptr             (* What data_ is without a view.                     *)

ASSUME HandleAssumption == invalid_handle \notin Handles /\ nullptr \notin Addresses

VARIABLES
  alive,              (* The objects that are constructed.                 *)
  obj,                (* The members of each object.                       *)
  files,              (* The file handles, the handles of mappings, and    *)
  mappings,           (* the views that are open in the process.           *)
  views,
  callers             (* The file handles opened by callers of mio.        *)

vars == <<alive, obj, files, mappings, views, callers>>

(* Mutant: file_mapping_handle_ keeps its value when a mapping ends.       *)
Unmapped_KeepMapping(m) == [m EXCEPT !.file = invalid_handle, !.data = nullptr]

(* The members after unmap(), and of an object that was moved from.        *)
Unmapped(m) ==
  [m EXCEPT !.file = invalid_handle, !.mapping = invalid_handle, !.data = nullptr]

(* basic_mmap() leaves is_handle_internal_ as it finds it.                 *)
Blank(flag) ==
  [file |-> invalid_handle, mapping |-> invalid_handle, data |-> nullptr, internal |-> flag]

Gone == Blank(FALSE)

Init ==
  /\ alive = {}
  /\ obj = [o \in Objects |-> Gone]
  /\ files = {}
  /\ mappings = {}
  /\ views = {}
  /\ callers = {}

-----------------------------------------------------------------------------

IsOpen(m) == m.file # invalid_handle
IsMapped(m) == m.mapping # invalid_handle

Free == Handles \ (files \cup mappings)

(* The handles open_file may return, besides invalid_handle.               *)
OpenFile == Free

(* What unmap() of an object with members m closes.                        *)
ClosedFiles(m) == IF IsOpen(m) /\ m.internal THEN {m.file} ELSE {}
ClosedMappings(m) == IF IsOpen(m) /\ IsMapped(m) THEN {m.mapping} ELSE {}
ClosedViews(m) == IF IsOpen(m) /\ IsMapped(m) THEN {m.data} ELSE {}

(* The system calls of unmap() for members m.                              *)
Close(m) ==
  /\ files' = files \ ClosedFiles(m)
  /\ mappings' = mappings \ ClosedMappings(m)
  /\ views' = views \ ClosedViews(m)

(* The default constructor.                                                *)
Construct(o) ==
  /\ o \notin alive
  /\ alive' = alive \cup {o}
  /\ \E flag \in BOOLEAN : obj' = [obj EXCEPT ![o] = Blank(flag)]
  /\ UNCHANGED <<files, mappings, views, callers>>

(* Mutant: the handles are closed but the members not reset.               *)
Unmap_KeepFields(o) ==
  /\ o \in alive
  /\ Close(obj[o])
  /\ UNCHANGED <<alive, obj, callers>>

Unmap(o) ==
  /\ o \in alive
  /\ obj' = [obj EXCEPT ![o] = Unmapped(obj[o])]
  /\ Close(obj[o])
  /\ UNCHANGED <<alive, callers>>

(* The destructor, by way of unmap().                                      *)
Destroy(o) ==
  /\ o \in alive
  /\ alive' = alive \ {o}
  /\ obj' = [obj EXCEPT ![o] = Gone]
  /\ Close(obj[o])
  /\ UNCHANGED callers

(* Mutant: the object that was moved from keeps its members.               *)
MoveConstruct_KeepOther(o, other) ==
  /\ o \notin alive /\ other \in alive
  /\ alive' = alive \cup {o}
  /\ obj' = [obj EXCEPT ![o] = obj[other]]
  /\ UNCHANGED <<files, mappings, views, callers>>

(* basic_mmap(basic_mmap&&): is_handle_internal_ of other stays.           *)
MoveConstruct(o, other) ==
  /\ o \notin alive /\ other \in alive
  /\ alive' = alive \cup {o}
  /\ obj' = [obj EXCEPT ![o] = obj[other], ![other] = Unmapped(obj[other])]
  /\ UNCHANGED <<files, mappings, views, callers>>

(* Mutant: the mapping the object has already is not removed.              *)
MoveAssign_NoUnmap(o, other) ==
  /\ o \in alive /\ other \in alive /\ o # other
  /\ obj' = [obj EXCEPT ![o] = obj[other], ![other] = Gone]
  /\ UNCHANGED <<alive, files, mappings, views, callers>>

(* operator=(basic_mmap&&), which does nothing for an object itself.       *)
MoveAssign(o, other) ==
  /\ o \in alive /\ other \in alive /\ o # other
  /\ obj' = [obj EXCEPT ![o] = obj[other], ![other] = Gone]
  /\ Close(obj[o])
  /\ UNCHANGED <<alive, callers>>

Swap(o, other) ==
  /\ o \in alive /\ other \in alive /\ o # other
  /\ obj' = [obj EXCEPT ![o] = obj[other], ![other] = obj[o]]
  /\ UNCHANGED <<alive, files, mappings, views, callers>>

(* Mutant: is_handle_internal_ is not reset by map(handle).                *)
MapHandle_KeepFlag(o, h) ==
  /\ o \in alive /\ h \in callers
  /\ \E m \in Free, v \in Addresses \ views :
       /\ obj' = [obj EXCEPT ![o].file = h, ![o].mapping = m, ![o].data = v]
       /\ files' = files \ ClosedFiles(obj[o])
       /\ mappings' = (mappings \ ClosedMappings(obj[o])) \cup {m}
       /\ views' = (views \ ClosedViews(obj[o])) \cup {v}
  /\ UNCHANGED <<alive, callers>>

(* map(handle) that succeeds: the new mapping is made while the old one of *)
(* the object is still open.  A call that fails changes nothing: a mapping *)
(* that no view could be made of is closed again.                          *)
MapHandle(o, h) ==
  /\ o \in alive /\ h \in callers
  /\ \E m \in Free, v \in Addresses \ views :
       /\ obj' = [obj EXCEPT ![o] = [file |-> h, mapping |-> m, data |-> v, internal |-> FALSE]]
       /\ files' = files \ ClosedFiles(obj[o])
       /\ mappings' = (mappings \ ClosedMappings(obj[o])) \cup {m}
       /\ views' = (views \ ClosedViews(obj[o])) \cup {v}
  /\ UNCHANGED <<alive, callers>>

(* map(path), by way of map(handle) and with the flag set after it.  A     *)
(* file that cannot be opened changes nothing.                             *)
MapPath(o) ==
  /\ o \in alive
  /\ \E h \in OpenFile : \E m \in Free \ {h}, v \in Addresses \ views :
       /\ obj' = [obj EXCEPT ![o] = [file |-> h, mapping |-> m, data |-> v, internal |-> TRUE]]
       /\ files' = (files \cup {h}) \ ClosedFiles(obj[o])
       /\ mappings' = (mappings \ ClosedMappings(obj[o])) \cup {m}
       /\ views' = (views \ ClosedViews(obj[o])) \cup {v}
  /\ UNCHANGED <<alive, callers>>

(* map(path) when the file was opened and map(handle) failed: the file is  *)
(* not closed, and nobody knows its handle any more.                       *)
MapPathFails(o) ==
  /\ o \in alive
  /\ \E h \in OpenFile : files' = files \cup {h}
  /\ UNCHANGED <<alive, obj, mappings, views, callers>>

-----------------------------------------------------------------------------

(* A caller opens a file of its own to map it, and closes it when no       *)
(* object refers to it any more.                                           *)
CallerOpens ==
  \E h \in Free :
    /\ files' = files \cup {h}
    /\ callers' = callers \cup {h}
    /\ UNCHANGED <<alive, obj, mappings, views>>

CallerCloses ==
  \E h \in callers :
    /\ \A o \in alive : obj[o].file # h
    /\ files' = files \ {h}
    /\ callers' = callers \ {h}
    /\ UNCHANGED <<alive, obj, mappings, views>>

Next ==
  \/ \E o \in Objects : Construct(o)
  \/ \E o \in Objects : Unmap(o)
  \/ \E o \in Objects : Destroy(o)
  \/ \E o \in Objects, other \in Objects : MoveConstruct(o, other)
  \/ \E o \in Objects, other \in Objects : MoveAssign(o, other)
  \/ \E o \in Objects, other \in Objects : Swap(o, other)
  \/ \E o \in Objects, h \in Handles : MapHandle(o, h)
  \/ \E o \in Objects : MapPath(o)
  \/ \E o \in Objects : MapPathFails(o)
  \/ CallerOpens
  \/ CallerCloses

Spec == Init /\ [][Next]_vars

-----------------------------------------------------------------------------

Members ==
  [file : Handles \cup {invalid_handle}, mapping : Handles \cup {invalid_handle},
   data : Addresses \cup {nullptr}, internal : BOOLEAN]

Open == {o \in alive : IsOpen(obj[o])}

(* The types of the members; an object is mapped with all of its members   *)
(* or with none (is_open, is_mapped and data agree), and the two kinds of  *)
(* handles are different handles.                                          *)
TypeOK ==
  /\ alive \subseteq Objects
  /\ obj \in [Objects -> Members]
  /\ \A o \in Objects : IsOpen(obj[o]) <=> IsMapped(obj[o])
  /\ \A o \in Objects : IsOpen(obj[o]) <=> obj[o].data # nullptr
  /\ \A o \in Objects \ alive : obj[o] = Gone
  /\ files \subseteq Handles /\ mappings \subseteq Handles
  /\ files \cap mappings = {}
  /\ views \subseteq Addresses
  /\ callers \subseteq Handles

(* What an object of basic_mmap holds is open: nothing it will use, flush  *)
(* or close was closed before by itself or through another object.         *)
HeldIsOpen ==
  \A o \in Open :
    obj[o].file \in files /\ obj[o].mapping \in mappings /\ obj[o].data \in views

(* "single-ownership semantics" (mio.hpp): no view and no handle that an   *)
(* object will close is held by another object as well.                    *)
HeldOnce ==
  \A o, p \in Open :
    o # p => /\ obj[o].mapping # obj[p].mapping
             /\ obj[o].data # obj[p].data
             /\ obj[o].internal => obj[o].file # obj[p].file

(* No mapping and no view is lost: each is held by an object that will     *)
(* close it, however the objects were mapped, moved and swapped.           *)
NothingLost ==
  /\ mappings \subseteq {obj[o].mapping : o \in Open}
  /\ views \subseteq {obj[o].data : o \in Open}

(* "if ... an existing file handle was used to create the mapping, the     *)
(* file handle is not closed" (mio.hpp): mio closes no handle of a caller. *)
CallersKeepHandles == callers \subseteq files

=============================================================================
