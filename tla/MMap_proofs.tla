---------------------------- MODULE MMap_proofs ----------------------------
(***************************************************************************)
(* Proofs about MMap, for any objects, handles and addresses: ownership of *)
(* handles and views is exclusive and complete, whatever is moved, swapped *)
(* and mapped again, and with handle numbers that are used again.          *)
(***************************************************************************)
EXTENDS MMap, TLAPS

(* What an object will close was not opened by a caller.                   *)
FlagsRight == \A o \in Open : obj[o].internal => obj[o].file \notin callers

OwnInv ==
  /\ TypeOK
  /\ HeldIsOpen
  /\ HeldOnce
  /\ NothingLost
  /\ CallersKeepHandles
  /\ FlagsRight

-----------------------------------------------------------------------------

(* At first nothing is open.                                               *)
LEMMA OwnInit == Init => OwnInv
  BY HandleAssumption
  DEF Init, OwnInv, TypeOK, HeldIsOpen, HeldOnce, NothingLost, CallersKeepHandles, FlagsRight,
      Open, Members, Gone, Blank, IsOpen, IsMapped

(* Objects that only change hands: construction and swap, and the move     *)
(* constructor, close nothing.                                             *)
LEMMA OwnConstruct ==
  ASSUME OwnInv, NEW o \in Objects, Construct(o)
  PROVE  OwnInv'
<1>1. PICK flag \in BOOLEAN : obj' = [obj EXCEPT ![o] = Blank(flag)]
  BY DEF Construct
<1>2. TypeOK'
  BY <1>1, HandleAssumption
  DEF OwnInv, TypeOK, Construct, Members, Blank, Gone, IsOpen, IsMapped
<1>3. Open' = Open /\ \A p \in Open : obj'[p] = obj[p]
  BY <1>1 DEF OwnInv, TypeOK, Construct, Open, Blank, IsOpen, Members
<1> QED
  BY <1>2, <1>3
  DEF OwnInv, HeldIsOpen, HeldOnce, NothingLost, CallersKeepHandles, FlagsRight, Construct

(* swap() of two objects.                                                  *)
LEMMA OwnSwap ==
  ASSUME OwnInv, NEW o \in Objects, NEW other \in Objects, Swap(o, other)
  PROVE  OwnInv'
<1> DEFINE from(p) == IF p = o THEN other ELSE IF p = other THEN o ELSE p
<1>1. /\ \A p \in Objects : from(p) \in Objects /\ obj'[p] = obj[from(p)] /\ from(from(p)) = p
      /\ \A p \in Objects : p \in alive' <=> from(p) \in alive
  BY DEF OwnInv, TypeOK, Swap
<1>2. TypeOK'
  BY DEF OwnInv, TypeOK, Swap, IsOpen, IsMapped
<1>3. \A p \in Objects : p \in Open' <=> from(p) \in Open
  BY <1>1 DEF OwnInv, TypeOK, Swap, Open
<1>4. Open \subseteq Objects /\ Open' \subseteq Objects
  BY <1>2 DEF OwnInv, TypeOK, Open
<1> HIDE DEF from
<1>9. UNCHANGED <<files, mappings, views, callers>>
  BY DEF Swap
<1>5. HeldIsOpen'
  BY <1>9, <1>1, <1>3, <1>4 DEF OwnInv, HeldIsOpen
<1>8. FlagsRight'
  BY <1>9, <1>1, <1>2, <1>3, <1>4 DEF OwnInv, FlagsRight, TypeOK, Members
<1>6. HeldOnce'
  BY <1>1, <1>3, <1>4 DEF OwnInv, HeldOnce
<1>7. NothingLost'
  BY <1>9, <1>1, <1>3, <1>4 DEF OwnInv, NothingLost
<1> QED
  BY <1>2, <1>5, <1>6, <1>7, <1>8 DEF OwnInv, CallersKeepHandles, Swap

(* Construction by moving from another object.                             *)
LEMMA OwnMoveConstruct ==
  ASSUME OwnInv, NEW o \in Objects, NEW other \in Objects, MoveConstruct(o, other)
  PROVE  OwnInv'
<1>1. o # other /\ o \notin Open /\ Open \subseteq Objects
  BY DEF OwnInv, TypeOK, MoveConstruct, Open
<1>2. /\ obj' \in [Objects -> Members]
      /\ obj'[o] = obj[other]
      /\ obj'[other] = Unmapped(obj[other])
      /\ \A p \in Objects \ {o, other} : obj'[p] = obj[p]
  BY <1>1 DEF OwnInv, TypeOK, MoveConstruct, Members, Unmapped
<1>3. ~IsOpen(obj'[other]) /\ ~IsMapped(obj'[other]) /\ obj'[other].data = nullptr
  BY <1>2 DEF OwnInv, TypeOK, IsOpen, IsMapped, Unmapped, Members
<1>4. TypeOK'
  BY <1>1, <1>2, <1>3 DEF OwnInv, TypeOK, MoveConstruct, IsOpen, IsMapped
<1>5. Open' = IF other \in Open THEN (Open \ {other}) \cup {o} ELSE Open
  BY <1>1, <1>2, <1>3 DEF OwnInv, TypeOK, MoveConstruct, Open
<1>6. HeldIsOpen' /\ FlagsRight'
  BY <1>1, <1>2, <1>5 DEF OwnInv, HeldIsOpen, FlagsRight, MoveConstruct
<1>7. HeldOnce'
  BY <1>1, <1>2, <1>5 DEF OwnInv, HeldOnce
<1>8. NothingLost'
  BY <1>1, <1>2, <1>5 DEF OwnInv, NothingLost, MoveConstruct
<1> QED
  BY <1>4, <1>6, <1>7, <1>8 DEF OwnInv, CallersKeepHandles, MoveConstruct

-----------------------------------------------------------------------------

(* What unmap() of an object closes is held by no other object and by no   *)
(* caller, and all that stays open is held by another object.              *)
LEMMA ClosesItsOwn ==
  ASSUME OwnInv, NEW o \in Objects
  PROVE  /\ \A p \in Open \ {o} : /\ obj[p].file \notin ClosedFiles(obj[o])
                                  /\ obj[p].mapping \notin ClosedMappings(obj[o])
                                  /\ obj[p].data \notin ClosedViews(obj[o])
         /\ \A h \in callers : h \notin ClosedFiles(obj[o])
         /\ mappings \ ClosedMappings(obj[o]) \subseteq {obj[p].mapping : p \in Open \ {o}}
         /\ views \ ClosedViews(obj[o]) \subseteq {obj[p].data : p \in Open \ {o}}
<1>1. CASE o \in Open
  <2>1. /\ ClosedMappings(obj[o]) = {obj[o].mapping}
        /\ ClosedViews(obj[o]) = {obj[o].data}
        /\ \A h \in ClosedFiles(obj[o]) : h = obj[o].file /\ obj[o].internal
    BY <1>1 DEF OwnInv, TypeOK, Open, ClosedFiles, ClosedMappings, ClosedViews
  <2> QED
    BY <1>1, <2>1 DEF OwnInv, HeldOnce, NothingLost, FlagsRight
<1>2. CASE o \notin Open
  <2>1. ClosedFiles(obj[o]) = {} /\ ClosedMappings(obj[o]) = {} /\ ClosedViews(obj[o]) = {}
    BY <1>2
    DEF OwnInv, TypeOK, Open, ClosedFiles, ClosedMappings, ClosedViews, Gone, Blank, IsOpen
  <2> QED
    BY <1>2, <2>1 DEF OwnInv, NothingLost
<1> QED
  BY <1>1, <1>2

(* unmap(), which the destructor calls too.                                *)
LEMMA OwnUnmap ==
  ASSUME OwnInv, NEW o \in Objects, Unmap(o) \/ Destroy(o)
  PROVE  OwnInv'
<1>1. /\ ~IsOpen(obj'[o]) /\ ~IsMapped(obj'[o]) /\ obj'[o].data = nullptr
      /\ obj' \in [Objects -> Members]
      /\ \A p \in Objects \ {o} : obj'[p] = obj[p] /\ (p \in alive' <=> p \in alive)
      /\ o \in alive' \/ obj'[o] = Gone
  <2>1. /\ Unmapped(obj[o]) \in Members /\ Gone \in Members
        /\ Unmapped(obj[o]).file = invalid_handle /\ Gone.file = invalid_handle
        /\ Unmapped(obj[o]).mapping = invalid_handle /\ Gone.mapping = invalid_handle
        /\ Unmapped(obj[o]).data = nullptr /\ Gone.data = nullptr
    BY DEF OwnInv, TypeOK, Unmapped, Gone, Blank, Members
  <2>2. \/ obj'[o] = Unmapped(obj[o]) /\ o \in alive'
        \/ obj'[o] = Gone
    BY DEF OwnInv, TypeOK, Unmap, Destroy
  <2>3. \A p \in Objects \ {o} : obj'[p] = obj[p] /\ (p \in alive' <=> p \in alive)
    BY DEF OwnInv, TypeOK, Unmap, Destroy
  <2>4. obj' \in [Objects -> Members]
    BY <2>1 DEF OwnInv, TypeOK, Unmap, Destroy
  <2> QED
    BY <2>1, <2>2, <2>3, <2>4 DEF IsOpen, IsMapped
<1>2. /\ files' = files \ ClosedFiles(obj[o])
      /\ mappings' = mappings \ ClosedMappings(obj[o])
      /\ views' = views \ ClosedViews(obj[o])
      /\ callers' = callers
      /\ alive' \subseteq Objects
  BY DEF OwnInv, TypeOK, Unmap, Destroy, Close
<1>3. TypeOK'
  BY <1>1, <1>2 DEF OwnInv, TypeOK
<1>4. Open' = Open \ {o} /\ Open \subseteq Objects
  BY <1>1, <1>2 DEF OwnInv, TypeOK, Open
<1>5. HeldIsOpen' /\ NothingLost' /\ CallersKeepHandles'
  BY <1>1, <1>2, <1>4, ClosesItsOwn
  DEF OwnInv, HeldIsOpen, NothingLost, CallersKeepHandles
<1>6. HeldOnce' /\ FlagsRight'
  BY <1>1, <1>2, <1>4 DEF OwnInv, HeldOnce, FlagsRight
<1> QED
  BY <1>3, <1>5, <1>6 DEF OwnInv

(* Move assignment, also to an object that is mapped.                      *)
LEMMA OwnMoveAssign ==
  ASSUME OwnInv, NEW o \in Objects, NEW other \in Objects, MoveAssign(o, other)
  PROVE  OwnInv'
<1>1. /\ o # other /\ o \in alive /\ other \in alive
      /\ obj'[o] = obj[other] /\ obj'[other] = Gone
      /\ \A p \in Objects \ {o, other} : obj'[p] = obj[p]
      /\ UNCHANGED <<alive, callers>>
  BY DEF OwnInv, TypeOK, MoveAssign
<1>2. /\ files' = files \ ClosedFiles(obj[o])
      /\ mappings' = mappings \ ClosedMappings(obj[o])
      /\ views' = views \ ClosedViews(obj[o])
  BY DEF MoveAssign, Close
<1>3. TypeOK'
  <2>1. obj' \in [Objects -> Members] /\ ~IsOpen(Gone) /\ ~IsMapped(Gone) /\ Gone.data = nullptr
    BY DEF OwnInv, TypeOK, MoveAssign, Gone, Blank, Members, IsOpen, IsMapped
  <2> QED
    BY <1>1, <1>2, <2>1 DEF OwnInv, TypeOK
<1>4. /\ Open' = IF other \in Open THEN (Open \ {other}) \cup {o} ELSE Open \ {o}
      /\ Open \subseteq Objects
  BY <1>1 DEF OwnInv, TypeOK, Open, Gone, Blank, IsOpen
<1>5. HeldIsOpen' /\ CallersKeepHandles'
  BY <1>1, <1>2, <1>4, ClosesItsOwn DEF OwnInv, HeldIsOpen, CallersKeepHandles
<1>6. NothingLost'
  BY <1>1, <1>2, <1>4, ClosesItsOwn DEF NothingLost
<1>7. HeldOnce' /\ FlagsRight'
  BY <1>1, <1>2, <1>4 DEF OwnInv, HeldOnce, FlagsRight
<1> QED
  BY <1>3, <1>5, <1>6, <1>7 DEF OwnInv

(* A successful map(): object o takes handle h, either one of a caller or  *)
(* one that was just opened, a new mapping m and a new view v.             *)
Takes(o, h, m, v, flag) ==
  /\ o \in alive /\ m # h
  /\ m \in Free /\ v \in Addresses \ views
  /\ IF flag THEN h \in Free ELSE h \in callers
  /\ obj' = [obj EXCEPT ![o] = [file |-> h, mapping |-> m, data |-> v, internal |-> flag]]
  /\ files' = (files \cup {h}) \ ClosedFiles(obj[o])
  /\ mappings' = (mappings \ ClosedMappings(obj[o])) \cup {m}
  /\ views' = (views \ ClosedViews(obj[o])) \cup {v}
  /\ UNCHANGED <<alive, callers>>

(* An object that drops what it has and takes new handles and a new view.  *)
LEMMA OwnTakes ==
  ASSUME OwnInv, NEW o \in Objects, NEW h \in Handles, NEW m \in Handles, NEW v \in Addresses,
         NEW flag \in BOOLEAN, Takes(o, h, m, v, flag)
  PROVE  OwnInv'
<1>1. /\ obj' \in [Objects -> Members]
      /\ obj'[o].file = h /\ obj'[o].mapping = m /\ obj'[o].data = v
      /\ \A p \in Objects \ {o} : obj'[p] = obj[p]
      /\ IsOpen(obj'[o]) /\ IsMapped(obj'[o]) /\ obj'[o].data # nullptr
  BY HandleAssumption DEF OwnInv, TypeOK, Takes, Members, IsOpen, IsMapped
<1>2. obj'[o].internal = flag
  BY DEF OwnInv, TypeOK, Takes
<1>3. Open' = Open \cup {o} /\ Open \subseteq Objects /\ callers' = callers /\ alive' = alive
  BY <1>1 DEF OwnInv, TypeOK, Takes, Open
<1>4. /\ files' = (files \cup {h}) \ ClosedFiles(obj[o])
      /\ mappings' = (mappings \ ClosedMappings(obj[o])) \cup {m}
      /\ views' = (views \ ClosedViews(obj[o])) \cup {v}
      /\ m \notin files /\ m \notin mappings /\ v \notin views /\ m # h
      /\ o \in alive
  BY DEF Takes, Free
<1>5. /\ flag => h \notin files /\ h \notin mappings /\ h \notin callers
      /\ ~flag => h \in callers
      /\ callers \subseteq files
  BY DEF OwnInv, CallersKeepHandles, Takes, Free
<1>6. h \notin mappings /\ h \notin ClosedFiles(obj[o])
  <2>1. ClosedFiles(obj[o]) \subseteq files
    BY DEF OwnInv, TypeOK, HeldIsOpen, Open, ClosedFiles, Gone, Blank, IsOpen
  <2> QED
    BY <1>5, <2>1, ClosesItsOwn DEF OwnInv, TypeOK
<1>7. TypeOK'
  BY <1>1, <1>3, <1>4, <1>5, <1>6 DEF OwnInv, TypeOK
<1>8. HeldIsOpen' /\ NothingLost' /\ CallersKeepHandles'
  BY <1>1, <1>3, <1>4, <1>6, ClosesItsOwn
  DEF OwnInv, HeldIsOpen, NothingLost, CallersKeepHandles
<1>9. HeldOnce'
  <2>1. \A p \in Open : obj[p].mapping # m /\ obj[p].data # v
    BY <1>4 DEF OwnInv, HeldIsOpen
  <2>2. \A p \in Open : flag \/ obj[p].internal => obj[p].file # h
    BY <1>5 DEF OwnInv, HeldIsOpen, FlagsRight
  <2> QED
    BY <1>1, <1>2, <1>3, <2>1, <2>2 DEF OwnInv, HeldOnce
<1>10. FlagsRight'
  BY <1>1, <1>2, <1>3, <1>5 DEF OwnInv, FlagsRight
<1> QED
  BY <1>7, <1>8, <1>9, <1>10 DEF OwnInv

(* map() of a handle of the caller.                                        *)
LEMMA OwnMapHandle ==
  ASSUME OwnInv, NEW o \in Objects, NEW h \in Handles, MapHandle(o, h)
  PROVE  OwnInv'
<1>1. PICK m \in Free, v \in Addresses \ views :
        /\ obj' = [obj EXCEPT ![o] = [file |-> h, mapping |-> m, data |-> v, internal |-> FALSE]]
        /\ files' = files \ ClosedFiles(obj[o])
        /\ mappings' = (mappings \ ClosedMappings(obj[o])) \cup {m}
        /\ views' = (views \ ClosedViews(obj[o])) \cup {v}
  BY DEF MapHandle
<1>2. h \in callers /\ files \cup {h} = files /\ m # h /\ m \in Handles
  BY DEF OwnInv, CallersKeepHandles, MapHandle, Free
<1>3. Takes(o, h, m, v, FALSE)
  BY <1>1, <1>2 DEF MapHandle, Takes
<1> QED
  BY <1>2, <1>3, OwnTakes

(* map() of a path, with a handle of its own.                              *)
LEMMA OwnMapPath ==
  ASSUME OwnInv, NEW o \in Objects, MapPath(o)
  PROVE  OwnInv'
<1>1. PICK h \in Free : \E m \in Free \ {h}, v \in Addresses \ views :
        Takes(o, h, m, v, TRUE)
  BY DEF MapPath, Takes, OpenFile
<1>2. h \in Handles /\ Free \subseteq Handles
  BY DEF Free
<1> QED
  BY <1>1, <1>2, OwnTakes

(* Steps that open or close a file and touch no object.                    *)
LEMMA OwnFiles ==
  ASSUME OwnInv,
         \/ \E o \in Objects : MapPathFails(o)
         \/ CallerOpens
         \/ CallerCloses
  PROVE  OwnInv'
<1>1. /\ UNCHANGED <<alive, obj, mappings, views>>
      /\ files' \subseteq Handles /\ callers' \subseteq Handles
      /\ files' \cap mappings' = {}
      /\ callers' \subseteq files'
  BY DEF OwnInv, TypeOK, CallersKeepHandles, MapPathFails, CallerOpens, CallerCloses, Free, OpenFile
<1>2. Open' = Open
  BY <1>1 DEF Open
<1>3. TypeOK' /\ HeldOnce' /\ NothingLost' /\ CallersKeepHandles'
  BY <1>1, <1>2 DEF OwnInv, TypeOK, HeldOnce, NothingLost, CallersKeepHandles
<1>4. \A o \in Open : obj[o].file \in files'
  BY DEF OwnInv, HeldIsOpen, Open, MapPathFails, CallerOpens, CallerCloses
<1>5. HeldIsOpen'
  BY <1>1, <1>2, <1>4 DEF OwnInv, HeldIsOpen
<1>6. \A o \in Open : obj[o].internal => obj[o].file \notin callers'
  BY DEF OwnInv, HeldIsOpen, FlagsRight, MapPathFails, CallerOpens, CallerCloses, Free, OpenFile
<1>7. FlagsRight'
  BY <1>1, <1>2, <1>6 DEF FlagsRight
<1> QED
  BY <1>3, <1>5, <1>7 DEF OwnInv

-----------------------------------------------------------------------------

(* Every operation keeps ownership in order.                               *)
LEMMA OwnNext == OwnInv /\ [Next]_vars => OwnInv'
<1> SUFFICES ASSUME OwnInv, [Next]_vars PROVE OwnInv'
  OBVIOUS
<1>1. CASE UNCHANGED vars
  BY <1>1
  DEF vars, OwnInv, TypeOK, HeldIsOpen, HeldOnce, NothingLost, CallersKeepHandles, FlagsRight, Open
<1>2. CASE \E o \in Objects : Construct(o)
  BY <1>2, OwnConstruct
<1>3. CASE \E o \in Objects : Unmap(o) \/ Destroy(o)
  BY <1>3, OwnUnmap
<1>4. CASE \E o \in Objects, other \in Objects : MoveConstruct(o, other)
  BY <1>4, OwnMoveConstruct
<1>5. CASE \E o \in Objects, other \in Objects : MoveAssign(o, other)
  BY <1>5, OwnMoveAssign
<1>6. CASE \E o \in Objects, other \in Objects : Swap(o, other)
  BY <1>6, OwnSwap
<1>7. CASE \E o \in Objects, h \in Handles : MapHandle(o, h)
  BY <1>7, OwnMapHandle
<1>8. CASE \E o \in Objects : MapPath(o)
  BY <1>8, OwnMapPath
<1>9. CASE (\E o \in Objects : MapPathFails(o)) \/ CallerOpens \/ CallerCloses
  BY <1>9, OwnFiles
<1> QED
  BY <1>1, <1>2, <1>3, <1>4, <1>5, <1>6, <1>7, <1>8, <1>9 DEF Next

(* Ownership of handles and views by basic_mmap, the inductive invariant.  *)
THEOREM Ownership == Spec => []OwnInv
<1> QED
  BY OwnInit, OwnNext, PTL DEF Spec

(* An object is mapped with all of its members or with none.               *)
THEOREM TypesCorrect == Spec => []TypeOK
<1>1. OwnInv => TypeOK
  BY DEF OwnInv
<1> QED
  BY <1>1, Ownership, PTL

(* basic_mmap uses and closes nothing that is closed already, though the   *)
(* system uses the numbers of handles again.                               *)
THEOREM NothingClosedTwice == Spec => []HeldIsOpen
<1>1. OwnInv => HeldIsOpen
  BY DEF OwnInv
<1> QED
  BY <1>1, Ownership, PTL

(* No two objects of basic_mmap own the same mapping, view or file handle. *)
THEOREM SingleOwner == Spec => []HeldOnce
<1>1. OwnInv => HeldOnce
  BY DEF OwnInv
<1> QED
  BY <1>1, Ownership, PTL

(* Every mapping and every view has an object that will close it.          *)
THEOREM NoMappingLost == Spec => []NothingLost
<1>1. OwnInv => NothingLost
  BY DEF OwnInv
<1> QED
  BY <1>1, Ownership, PTL

(* mio closes no handle that a caller opened.                              *)
THEOREM CallersHandlesSafe == Spec => []CallersKeepHandles
<1>1. OwnInv => CallersKeepHandles
  BY DEF OwnInv
<1> QED
  BY <1>1, Ownership, PTL

=============================================================================
