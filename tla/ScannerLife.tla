---------------------------- MODULE ScannerLife ----------------------------
(***************************************************************************)
(* Who keeps what alive: the one slow_scanner of the process               *)
(* (singleton.hpp, slow_scanner.h), the m_file it shares with its regions, *)
(* the views, and the regions, held by tasks, by a running call and by the *)
(* caller's vector of scans.  Scans may fail and leave tasks behind, the   *)
(* process ends in the order of static destruction or crashes, and is      *)
(* started again next to the dump.bin the run before may have left.  No    *)
(* handle of dump.bin shares its deletion: DeleteFileA fails as long as    *)
(* anybody has the file open, whoever it is.                               *)
(*                                                                         *)
(* Which bytes a view covers is DumpRegions' matter, what the tasks find   *)
(* ScanSession's, how the pool serves them ThreadPool's.                   *)
(***************************************************************************)
EXTENDS FiniteSets

CONSTANT Regions  (* memory_region objects; the view a region has mapped   *)
                  (* has its name.                                         *)

Scanner == "scanner"
NoMap == "none"
ASSUME RegionsAssumption == {Scanner, NoMap} \cap Regions = {}

VARIABLES
  process,     (* "down", "running", then, as it ends, "exiting" in the    *)
               (* destructor of the pool, "joined" after it, "unloaded"    *)
               (* after that of the scanner.                               *)
  ended,       (* How the run ended: "no" before, "clean", "kept" when     *)
               (* scans outlived the scanner, "hindered" when somebody else*)
               (* had the file open, "crash".                              *)
  disk,        (* dump.bin: "none", or "file".                             *)
  leaked,      (* This run has a handle of dump.bin open that nobody will  *)
               (* close: a basic_mmap::map(path) failed with the file open.*)
  file,        (* Who holds a shared_ptr<m_file>: the scanner, regions.    *)
  currentMap,  (* _current_map of the m_file.                              *)
  holders,     (* Who holds each region: its task, the call, the user.     *)
  read,        (* How read_memory() of each region went, "pending" before, *)
               (* "none" without a region.                                 *)
  maps,        (* _maps of each region.                                    *)
  call         (* "none", or "first" and "next" inside a scan.             *)

vars == <<process, ended, disk, leaked, file, currentMap, holders, read, maps, call>>

Views == UNION {maps[r] : r \in Regions}
Held(by) == {r \in Regions : by \in holders[r]}
Fresh == {r \in Regions : r \notin file /\ holders[r] = {} /\ maps[r] = {}} \ (Views \cup {currentMap})

(* No object of the program.                                               *)
NoObjects(f, m, h, rd, mp, c) ==
  /\ f = {} /\ m = NoMap /\ c = "none"
  /\ h = [r \in Regions |-> {}] /\ mp = [r \in Regions |-> {}]
  /\ rd = [r \in Regions |-> "none"]

Init ==
  /\ process = "down"
  /\ ended = "clean"
  /\ disk = "none"
  /\ leaked = FALSE
  /\ NoObjects(file, currentMap, holders, read, maps, call)

-----------------------------------------------------------------------------

(* The first get_instance(): the constructors of slow_scanner and m_file.  *)
(* An empty file is made in place of the one that was there, unless that   *)
(* cannot be deleted and is taken as it is, or the open fails.             *)
Start ==
  /\ process = "down"
  /\ process' = "running"
  /\ ended' = "no"
  /\ disk' \in {"none", "file"}
  /\ file' = {Scanner}
  /\ UNCHANGED <<leaked, currentMap, holders, read, maps, call>>

(* A scan makes its regions; those of first_scan are held by their tasks as*)
(* well, before the first result is asked for.                             *)
Scan(kind, rs) ==
  /\ process = "running"
  /\ call = "none"
  /\ call' = kind
  /\ file' = file \cup rs
  /\ holders' = [r \in Regions |-> IF r \notin rs THEN holders[r]
                                   ELSE IF kind = "first" THEN {"task", "call"} ELSE {"call"}]
  /\ read' = [r \in Regions |-> IF r \in rs THEN "pending" ELSE read[r]]
  /\ UNCHANGED <<process, ended, disk, leaked, currentMap, maps>>

(* read_memory(), in a task or in next_scan: a piece of the current view,  *)
(* or of a new one, or none; a view that cannot be mapped may leave the    *)
(* handle that was opened for it.  The call it is part of may throw.  What *)
(* a null _current_map does to the process is a Crash.                     *)
Read(r) ==
  /\ read[r] = "pending"
  /\ \/ /\ currentMap # NoMap
        /\ maps' = [maps EXCEPT ![r] = {currentMap}]
        /\ UNCHANGED <<currentMap, leaked>>
     \/ /\ disk = "file"
        /\ maps' = [maps EXCEPT ![r] = {r}]
        /\ currentMap' = r
        /\ UNCHANGED leaked
     \/ /\ disk = "file"
        /\ leaked' = TRUE
        /\ UNCHANGED <<maps, currentMap>>
     \/ UNCHANGED <<maps, currentMap, leaked>>
  /\ read' \in {[read EXCEPT ![r] = how] : how \in {"value", "exception"}}
  /\ UNCHANGED <<process, ended, disk, file, holders, call>>

(* Mutant: the worker keeps its closure until the next task.               *)
EndTask_KeepClosure(r) ==
  /\ "task" \in holders[r]
  /\ read[r] \in {"value", "exception"}
  /\ \E s \in Held("task") \ {r} : read[s] = "pending"
  /\ holders' = [holders EXCEPT ![r] = @ \ {"task"}]
  /\ UNCHANGED <<process, ended, disk, leaked, file, currentMap, read, maps, call>>

(* The worker destroys the closure of a task that is over.                 *)
EndTask(r) ==
  /\ "task" \in holders[r]
  /\ read[r] \in {"value", "exception"}
  /\ holders' = [holders EXCEPT ![r] = @ \ {"task"}]
  /\ UNCHANGED <<process, ended, disk, leaked, file, currentMap, read, maps, call>>

(* The scan returns the valid scans among those that were read; next_scan  *)
(* lets go of the ones it was given.                                       *)
Return(kept) ==
  /\ call # "none"
  /\ \A r \in Held("call") : read[r] = "value"
  /\ kept \subseteq Held("call")
  /\ call' = "none"
  /\ holders' = [r \in Regions |->
       (holders[r] \ (IF call = "next" THEN {"call", "user"} ELSE {"call"}))
         \cup (IF r \in kept THEN {"user"} ELSE {})]
  /\ UNCHANGED <<process, ended, disk, leaked, file, currentMap, read, maps>>

(* The first exception that a get() or a read meets ends the call; tasks   *)
(* that wait or run are left to the pool.                                  *)
Throw ==
  /\ call # "none"
  /\ \E r \in Held("call") : read[r] = "exception"
  /\ call' = "none"
  /\ holders' = [r \in Regions |-> holders[r] \ {"call"}]
  /\ UNCHANGED <<process, ended, disk, leaked, file, currentMap, read, maps>>

(* The caller destroys a scan: when it likes, and at the latest after the  *)
(* scanner when the scans are static as well.                              *)
Forget(r) ==
  /\ process \in {"running", "unloaded"}
  /\ call = "none"
  /\ r \in Held("user")
  /\ holders' = [holders EXCEPT ![r] = @ \ {"user"}]
  /\ UNCHANGED <<process, ended, disk, leaked, file, currentMap, read, maps, call>>

-----------------------------------------------------------------------------

(* h lets go of the m_file.  The last one runs ~m_file: the current view   *)
(* is let go, the handle closed, and the file deleted if nobody else has it*)
(* open: not a view, not a leaked handle, not another process, as other    *)
(* says it has.                                                            *)
LetGo(h, other) ==
  /\ file' = file \ {h}
  /\ IF file # {h} THEN UNCHANGED <<currentMap, disk>>
     ELSE /\ currentMap' = NoMap
          /\ disk' = IF Views = {} /\ ~ leaked /\ ~ other THEN "none" ELSE disk

(* Mutant: a task has a plain pointer to its region, which the call owns.  *)
DropFile_PlainPointer(r) ==
  /\ holders[r] \subseteq {"task"}
  /\ r \in file
  /\ \E other \in BOOLEAN : LetGo(r, other)
  /\ read' = [read EXCEPT ![r] = "none"]
  /\ UNCHANGED <<process, ended, leaked, holders, maps, call>>

(* ~dumpable of a region nobody holds, in the order of its members: _file, *)
DropFile(r) ==
  /\ holders[r] = {}
  /\ r \in file
  /\ \E other \in BOOLEAN : LetGo(r, other)
  /\ read' = [read EXCEPT ![r] = "none"]
  /\ UNCHANGED <<process, ended, leaked, holders, maps, call>>

(* and then _maps.                                                         *)
DropMaps(r) ==
  /\ holders[r] = {}
  /\ r \notin file
  /\ maps[r] # {}
  /\ maps' = [maps EXCEPT ![r] = {}]
  /\ UNCHANGED <<process, ended, disk, leaked, file, currentMap, holders, read, call>>

Dying(r) == holders[r] = {} /\ (r \in file \/ maps[r] # {})

(* main() returns; the destructor of the static scanner begins with _pool. *)
Exit ==
  /\ process = "running"
  /\ call = "none"
  /\ process' = "exiting"
  /\ UNCHANGED <<ended, disk, leaked, file, currentMap, holders, read, maps, call>>

(* Mutant: the destructor waits for every region, the caller's too.        *)
Join_WaitsForScans ==
  /\ process = "exiting"
  /\ \A r \in Regions : holders[r] = {} /\ ~ Dying(r)
  /\ process' = "joined"
  /\ UNCHANGED <<ended, disk, leaked, file, currentMap, holders, read, maps, call>>

(* The workers have drained the queue and are joined.                      *)
Join ==
  /\ process = "exiting"
  /\ Held("task") = {}
  /\ \A r \in Regions : ~ Dying(r)
  /\ process' = "joined"
  /\ UNCHANGED <<ended, disk, leaked, file, currentMap, holders, read, maps, call>>

(* How a run ends in which _file goes now.                                 *)
Ending(other) ==
  IF Held("user") # {} THEN "kept" ELSE IF leaked \/ other THEN "hindered" ELSE "clean"

(* Mutant: _file is declared behind _pool, so that it goes first.          *)
Unload_BeforeJoin ==
  /\ process \in {"exiting", "joined"}
  /\ \E other \in BOOLEAN :
       /\ IF Scanner \in file THEN LetGo(Scanner, other) ELSE UNCHANGED <<file, currentMap, disk>>
       /\ ended' = Ending(other)
  /\ process' = IF process = "joined" THEN "unloaded" ELSE process
  /\ UNCHANGED <<leaked, holders, read, maps, call>>

(* The next member, _file.                                                 *)
Unload ==
  /\ process = "joined"
  /\ process' = "unloaded"
  /\ \E other \in BOOLEAN : LetGo(Scanner, other) /\ ended' = Ending(other)
  /\ UNCHANGED <<leaked, holders, read, maps, call>>

(* No object is left, the process is over; the system closes what it left  *)
(* open.                                                                   *)
End ==
  /\ process = "unloaded"
  /\ \A r \in Regions : holders[r] = {} /\ ~ Dying(r)
  /\ process' = "down"
  /\ leaked' = FALSE
  /\ UNCHANGED <<ended, disk, file, currentMap, holders, read, maps, call>>

(* The process is killed: the system closes its handles, the file stays.  *)
Crash ==
  /\ process # "down"
  /\ process' = "down"
  /\ ended' = "crash"
  /\ leaked' = FALSE
  /\ NoObjects(file', currentMap', holders', read', maps', call')
  /\ UNCHANGED disk

WorkerStep(r) == "task" \in holders[r] /\ (Read(r) \/ EndTask(r))
CallerStep ==
  \/ \E r \in Held("call") : "task" \notin holders[r] /\ Read(r)
  \/ \E kept \in SUBSET Regions : Return(kept)
  \/ Throw
Destruction == Join \/ Unload \/ End \/ (process = "unloaded" /\ \E r \in Regions : Forget(r))

Next ==
  \/ Start
  \/ \E kind \in {"first", "next"}, rs \in SUBSET Fresh : Scan(kind, rs)
  \/ CallerStep
  \/ \E r \in Regions : WorkerStep(r) \/ Forget(r) \/ DropFile(r) \/ DropMaps(r)
  \/ Exit \/ Destruction \/ Crash

Spec == Init /\ [][Next]_vars

(* Workers, a caller inside a call, destructors that began and the end of  *)
(* the process are scheduled; no caller has to call, forget, or end.       *)
FairSpec ==
  /\ Spec
  /\ WF_vars(CallerStep) /\ WF_vars(Destruction)
  /\ \A r \in Regions : WF_vars(WorkerStep(r)) /\ WF_vars(DropFile(r) \/ DropMaps(r))

-----------------------------------------------------------------------------

(* The types of the variables; a region is held from when it is made until *)
(* it is destroyed, and only then has views or a share of the file.        *)
TypeOK ==
  /\ process \in {"down", "running", "exiting", "joined", "unloaded"}
  /\ ended \in {"no", "clean", "kept", "hindered", "crash"}
  /\ disk \in {"none", "file"}
  /\ leaked \in BOOLEAN
  /\ file \subseteq Regions \cup {Scanner}
  /\ currentMap \in Regions \cup {NoMap}
  /\ holders \in [Regions -> SUBSET {"task", "call", "user"}]
  /\ read \in [Regions -> {"none", "pending", "value", "exception"}]
  /\ maps \in [Regions -> SUBSET Regions]
  /\ call \in {"none", "first", "next"}
  /\ \A r \in Regions : (holders[r] # {} => r \in file) /\ (r \in file <=> read[r] # "none")

(* A program that ends regularly and had dropped its scans before leaves no*)
(* dump.bin, whatever file it found, whatever calls failed and left tasks  *)
(* behind: not unless a mapping that failed leaked a handle of the file, or*)
(* another process has it open.                                            *)
FileRemoved == process = "down" /\ ended = "clean" => disk = "none"

(* A region that no call works on and no caller keeps is destroyed in the  *)
(* end, also when the call that made its task has failed.                  *)
RegionsReleased ==
  \A r \in Regions : holders[r] = {"task"} ~> r \notin file /\ maps[r] = {}

(* The end of the process is reached once main() has returned.             *)
ExitEnds == process = "exiting" ~> process = "down"

=============================================================================
