------------------------ MODULE ScannerLife_proofs ------------------------
(***************************************************************************)
(* For any number of regions: a program that ended regularly, had dropped  *)
(* its scans and was not hindered by an open handle leaves no dump.bin.    *)
(***************************************************************************)
EXTENDS ScannerLife, TLAPS

Alive(r) == holders[r] # {} \/ r \in file \/ maps[r] # {}

(* How far the process is decides who may still hold what.                 *)
PhaseInv ==
  /\ Scanner \in file <=> process \in {"running", "exiting", "joined"}
  /\ process # "running" => call = "none"
  /\ call = "none" => \A r \in Regions : "call" \notin holders[r]
  /\ process \in {"joined", "unloaded", "down"} => \A r \in Regions : "task" \notin holders[r]
  /\ process = "joined" => \A r \in Regions : ~ Dying(r)
  /\ process = "down" => \A r \in Regions : ~ Alive(r)

(* After a clean end nothing is left that could bring the file back.       *)
CleanInv ==
  process \in {"unloaded", "down"} /\ ended = "clean" =>
    disk = "none" /\ \A r \in Regions : ~ Alive(r)

LifeInv == TypeOK /\ PhaseInv /\ CleanInv

-----------------------------------------------------------------------------

(* What lets go of the file leaves the file's users and bytes as they were,*)
(* or deletes it.                                                          *)
LEMMA LetGoDeletes ==
  ASSUME TypeOK, NEW h, NEW other \in BOOLEAN, LetGo(h, other)
  PROVE  /\ file' = file \ {h}
         /\ currentMap' \in Regions \cup {NoMap}
         /\ disk' \in {disk, "none"}
  BY DEF LetGo, TypeOK

(* The inductive invariant holds initially.                                *)
LEMMA LifeInit == Init => LifeInv
  BY DEF Init, NoObjects, LifeInv, TypeOK, PhaseInv, CleanInv, Alive, Dying

(* Start, Scan and Exit, the steps that begin a phase of the program.      *)
LEMMA LifeBegins ==
  ASSUME LifeInv,
         Start \/ Exit \/ \E kind \in {"first", "next"}, rs \in SUBSET Fresh : Scan(kind, rs)
  PROVE  LifeInv'
<1> USE RegionsAssumption DEF LifeInv
<1>1. CASE Start
  BY <1>1 DEF Start, TypeOK, PhaseInv, CleanInv, Alive, Dying
<1>2. CASE Exit
  BY <1>2 DEF Exit, TypeOK, PhaseInv, CleanInv, Alive, Dying
<1>3. ASSUME NEW kind \in {"first", "next"}, NEW rs \in SUBSET Fresh, Scan(kind, rs)
      PROVE  LifeInv'
  <2>1. rs \subseteq Regions
    BY DEF Fresh
  <2>2. TypeOK'
    BY <1>3, <2>1 DEF Scan, TypeOK
  <2>3. PhaseInv'
    BY <1>3, <2>1 DEF Scan, TypeOK, PhaseInv
  <2>4. CleanInv'
    BY <1>3, <2>1 DEF Scan, PhaseInv, CleanInv, Alive
  <2> QED
    BY <2>2, <2>3, <2>4
<1> QED
  BY <1>1, <1>2, <1>3

(* Reads, by a task or by a call.                                          *)
LEMMA LifeRead ==
  ASSUME LifeInv, NEW r \in Regions, "task" \in holders[r] \/ "call" \in holders[r], Read(r)
  PROVE  LifeInv'
<1> USE DEF LifeInv
<1>1. process \in {"running", "exiting"} /\ Scanner \in file
  BY DEF PhaseInv, TypeOK
<1>2. TypeOK'
  <2>1. leaked' \in BOOLEAN
    BY Zenon DEF Read, TypeOK
  <2>2. currentMap' \in Regions \cup {NoMap} /\ maps' \in [Regions -> SUBSET Regions]
    BY DEF Read, TypeOK
  <2>3. /\ read' \in [Regions -> {"none", "pending", "value", "exception"}]
        /\ \A s \in Regions : s \in file <=> read'[s] # "none"
    BY DEF Read, TypeOK
  <2> QED
    BY <2>1, <2>2, <2>3 DEF Read, TypeOK
<1>3. PhaseInv'
  BY <1>1 DEF Read, PhaseInv
<1>4. CleanInv'
  BY <1>1 DEF Read, CleanInv, Alive
<1> QED
  BY <1>2, <1>3, <1>4

(* The other steps of tasks, calls and callers, which change holders only. *)
LEMMA LifeHolders ==
  ASSUME LifeInv,
         \/ Throw
         \/ \E kept \in SUBSET Regions : Return(kept)
         \/ \E r \in Regions : EndTask(r) \/ Forget(r)
  PROVE  LifeInv'
<1> USE DEF LifeInv
<1>1. CASE Throw
  BY <1>1 DEF Throw, Held, TypeOK, PhaseInv, CleanInv, Alive
<1>2. ASSUME NEW kept \in SUBSET Regions, Return(kept)
      PROVE  LifeInv'
  <2>1. TypeOK'
    <3>1. holders' \in [Regions -> SUBSET {"task", "call", "user"}]
      BY <1>2 DEF Return, TypeOK
    <3>2. \A r \in Regions : holders'[r] # {} => r \in file
      BY <1>2 DEF Return, TypeOK, Held
    <3> QED
      BY <1>2, <3>1, <3>2 DEF Return, TypeOK
  <2>2. process = "running"
    BY <1>2 DEF Return, PhaseInv
  <2>3. PhaseInv'
    BY <1>2, <2>2 DEF Return, PhaseInv
  <2> QED
    BY <1>2, <2>1, <2>2, <2>3 DEF Return, CleanInv, Alive
<1>3. ASSUME NEW r \in Regions, EndTask(r)
      PROVE  LifeInv'
  BY <1>3 DEF EndTask, TypeOK, PhaseInv, CleanInv, Alive
<1>4. ASSUME NEW r \in Regions, Forget(r)
      PROVE  LifeInv'
  BY <1>4 DEF Forget, Held, TypeOK, PhaseInv, CleanInv, Alive
<1> QED
  BY <1>1, <1>2, <1>3, <1>4

(* The destructor of a region.                                             *)
LEMMA LifeDrop ==
  ASSUME LifeInv, NEW r \in Regions, DropFile(r) \/ DropMaps(r)
  PROVE  LifeInv'
<1> USE RegionsAssumption DEF LifeInv
<1>1. process \notin {"joined", "down"} /\ ~ (process = "unloaded" /\ ended = "clean")
  BY DEF DropFile, DropMaps, PhaseInv, CleanInv, Dying, Alive
<1>2. CASE DropFile(r)
  <2>1. /\ file' = file \ {r}
        /\ currentMap' \in Regions \cup {NoMap}
        /\ disk' \in {disk, "none"}
    BY <1>2, LetGoDeletes DEF DropFile
  <2>2. TypeOK'
    BY <1>2, <2>1 DEF DropFile, TypeOK
  <2>3. PhaseInv'
    BY <1>1, <1>2, <2>1 DEF DropFile, PhaseInv
  <2> QED
    BY <1>1, <1>2, <2>1, <2>2, <2>3 DEF DropFile, CleanInv, Alive
<1>3. CASE DropMaps(r)
  BY <1>1, <1>3 DEF DropMaps, TypeOK, PhaseInv, CleanInv, Alive
<1> QED
  BY <1>2, <1>3

(* Unload finds nothing that holds the file, or the end is not a clean one.*)
LEMMA LifeUnload ==
  ASSUME LifeInv, Unload
  PROVE  LifeInv'
<1> USE RegionsAssumption DEF LifeInv
<1>1. /\ file' = file \ {Scanner}
      /\ currentMap' \in Regions \cup {NoMap}
      /\ disk' \in {disk, "none"}
  BY LetGoDeletes DEF Unload
<1>2. TypeOK'
  <2>1. ended' \in {"clean", "kept", "hindered"}
    BY DEF Unload, Ending
  <2> QED
    BY <1>1, <2>1 DEF Unload, TypeOK
<1>3. PhaseInv'
  BY <1>1 DEF Unload, PhaseInv
<1>4. ASSUME ended' = "clean"
      PROVE  disk' = "none" /\ \A r \in Regions : ~ Alive(r)'
  <2>1. \A r \in Regions : holders[r] = {}
    <3>1. \A r \in Regions : "user" \notin holders[r]
      BY <1>4 DEF Unload, Ending, Held
    <3>2. \A r \in Regions : "task" \notin holders[r] /\ "call" \notin holders[r]
      BY DEF Unload, PhaseInv
    <3> QED
      BY <3>1, <3>2 DEF TypeOK
  <2>2. \A r \in Regions : r \notin file /\ maps[r] = {}
    BY <2>1 DEF Unload, PhaseInv, Dying
  <2>3. file = {Scanner}
    BY <2>2 DEF Unload, PhaseInv, TypeOK
  <2>4. Views = {}
    BY <2>2 DEF Views
  <2>5. disk' = "none"
    BY <1>4, <2>3, <2>4 DEF Unload, Ending, LetGo
  <2> QED
    BY <1>1, <2>1, <2>2, <2>5 DEF Unload, Alive
<1> QED
  BY <1>2, <1>3, <1>4 DEF CleanInv, Alive

(* The end of the process, in whatever way.                                *)
LEMMA LifeEnds ==
  ASSUME LifeInv, Join \/ End \/ Crash
  PROVE  LifeInv'
<1> USE RegionsAssumption DEF LifeInv
<1>1. CASE Join
  BY <1>1 DEF Join, Held, TypeOK, PhaseInv, CleanInv, Alive, Dying
<1>2. CASE End
  <2>1. file = {}
    BY <1>2 DEF End, Dying, PhaseInv, TypeOK
  <2> QED
    BY <1>2, <2>1 DEF End, TypeOK, PhaseInv, CleanInv, Alive, Dying
<1>3. CASE Crash
  BY <1>3 DEF Crash, NoObjects, TypeOK, PhaseInv, CleanInv, Alive, Dying
<1> QED
  BY <1>1, <1>2, <1>3

(* The inductive invariant is kept by every step.                          *)
LEMMA LifeNext == LifeInv /\ [Next]_vars => LifeInv'
<1> SUFFICES ASSUME LifeInv, [Next]_vars
             PROVE  LifeInv'
  OBVIOUS
<1>1. CASE UNCHANGED vars
  BY <1>1 DEF vars, LifeInv, TypeOK, PhaseInv, CleanInv, Alive, Dying
<1>2. CASE CallerStep
  BY <1>2, LifeRead, LifeHolders DEF CallerStep, Held
<1>3. ASSUME NEW r \in Regions, WorkerStep(r) \/ Forget(r) \/ DropFile(r) \/ DropMaps(r)
      PROVE  LifeInv'
  BY <1>3, LifeRead, LifeHolders, LifeDrop DEF WorkerStep
<1>4. CASE Destruction
  BY <1>4, LifeUnload, LifeEnds, LifeHolders DEF Destruction
<1> QED
  BY <1>1, <1>2, <1>3, <1>4, LifeBegins, LifeEnds DEF Next

-----------------------------------------------------------------------------

(* Who holds what in every phase of the process, from the first            *)
(* get_instance() to the end of static destruction or a crash.             *)
THEOREM LifeInvariant == Spec => []LifeInv
  BY LifeInit, LifeNext, PTL DEF Spec

(* Type correctness: a region has a share of the file as long as somebody  *)
(* holds it.                                                               *)
THEOREM TypesCorrect == Spec => []TypeOK
<1>1. LifeInv => TypeOK
  BY DEF LifeInv
<1> QED
  BY LifeInvariant, <1>1, PTL

(* A program that ended after it had dropped its scans has deleted         *)
(* dump.bin, whatever calls failed, unless somebody beside the m_file and  *)
(* its views had the file open: a leaked handle or another process.        *)
THEOREM NoFileLeft == Spec => []FileRemoved
<1>1. LifeInv => FileRemoved
  BY DEF LifeInv, CleanInv, Alive, FileRemoved
<1> QED
  BY LifeInvariant, <1>1, PTL

=============================================================================
