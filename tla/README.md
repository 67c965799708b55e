# A TLA+ model of SlowScanner

SlowScanner reads the memory of another Windows process region by region,
keeps what it read in a memory-mapped dump file, and narrows a set of candidate
addresses from scan to scan. This directory holds TLA+ modules of the program,
TLC configurations that check them on small instances, and proofs that TLAPS
checks for all instances. Paths are relative to the repository.

## 1. Inventory

| component | state | operations | who it works with |
|---|---|---|---|
| `m_file` (dumpable/dumpable.hpp, dumpable/src/dumpable.cpp) | `_valid`, `_size`, `_offset`, `_current_map`, `_map_offset`, `_mutex`, the file | two constructors, `write` (with `expand_size`, `do_map`), destructor | called by every region; asks mio for views |
| `active_map`, `mio::basic_mmap` (mio.hpp, vendored) | a view, two handles | `map`, `sync`, `unmap`, move | owned together by `m_file` and the regions (`shared_ptr`) |
| `dumpable`, `memory_region` (scanner/memory_region.\*) | `_data`, `_maps`, `_mem_reserved` | `read_memory` = reserve a piece of the file once, then `ReadProcessMemory` into it; `raw_bytes` | worker threads of the pool read different regions at once |
| `thread_pool` (thread_pool.hpp) | `tasks`, `stop`, `queue_mutex`, `condition` | worker loop, `enqueue`, destructor | `first_scan` enqueues a task per region and waits for the futures |
| `slow_scanner::get_regions` (src/slow_scanner.cpp) | `current_address`, `regions` | the walk with `VirtualQueryEx` | the target runs on meanwhile; its list feeds both scans |
| `slow_scanner::first_scan` | the futures | enqueue, collect or pass on an exception, filter, sort | pool, regions, `scan` |
| `slow_scanner::next_scan` | `idx`, `regions`, `results`, `prev_scans` | the walk over new regions and old scans | regions, `scan`, comparator |
| `scan` (scanner/scan.hpp) | `_results`, `_valid`, the region | `search_value`, `add_result`, `update` | shared by the caller and the scanner |
| `make_comparator` (slow_scanner.h) | none | one predicate per `scan_type` and element type | both scans |
| `singleton` (singleton.hpp) | the one scanner and its members | `get_instance`, static destruction | decides that pool, file and views die after `main`, in the order of the members |

**What is hard here.** Threads: the pool's condition variable is notified
outside the mutex, the pool may be destroyed under its callers, and regions are
filled outside the mutex of the file they share. Growth: the file grows while
older views of it are in use, and every system call on the way can fail.
Another process: the target changes its layout between two queries of one walk
and between a query and the read, and everything between two scans. Pairing:
`next_scan` matches two lists of intervals that were made at different times,
with indices relative to different bases. Lifetime: regions are shared by
tasks, calls and the caller's scans, each keeps the file and its views alive,
and an exception, the end of `main` or a crash can come in between. Numbers:
differences wrap, floating-point sums are rounded, and criteria differ in their
tolerance. `PROJECT.json` lists each of these
under `hazards`, at its line.

**What makes each part correct.** A write stays in its view; no two regions
share bytes; a region's buffer changes by its own reads only. No wakeup is
lost; an accepted task gets an outcome; the destructor returns. The regions of a
walk are sorted, disjoint and inside the range, and complete if the target
stands still. A scan keeps only addresses that were candidates, compares each
with its own old value, and loses none that answers the query. An element that
is found meets its criterion as a number. A region is destroyed when nobody
works on it; a program that ends regularly leaves no dump file.

## 2. Modules

| module | models | relation |
|---|---|---|
| `MFile` | `m_file` and what `mio` answers it | sub-actions used by `DumpRegions` |
| `DumpRegions` | `dumpable`, `memory_region`, concurrent readers | extends `MFile`, implements `SnapshotStore` |
| `SnapshotStore` | abstract: a private buffer per region | |
| `MMap` | `mio::basic_mmap`, the handles and the view it owns | its success and failure are what `MFile` takes from it |
| `ThreadPool` | `thread_pool`, the callers in `first_scan`, the destroying thread | implements `TaskPool` |
| `TaskPool` | abstract: a queue served in order, which can be closed | |
| `RegionWalk` | `get_regions` and the target it walks over | its guarantees are the assumption on `Layouts` in `ScanSession` |
| `Comparator` | `make_comparator`: integers, Float, Double | used by `ScanSession` |
| `Criteria` | abstract: what a criterion means as a statement about numbers | the reference `Comparator` is proved against |
| `ScanSession` | `first_scan`, `next_scan`, `scan` | implements `CandidateSet` |
| `CandidateSet` | abstract: candidates that are only narrowed, each by what `Criteria` says | |
| `ScannerLife` | `singleton`, the members of `slow_scanner`, who holds regions, views and file, `~m_file` | takes up where `DumpRegions` (one process, no end) and `ThreadPool` (no regions) stop |
| `MC*` | instances for TLC | |
| `*_proofs` | theorems and their proofs | |

### MFile and DumpRegions

The variables are the members of `m_file`; `views` holds every `active_map` ever
made and `currentMap` is an index into it. `content` is the file itself, which
all views share. `write()` runs under `_mutex` from its first line to its last,
so `Write` is one action: `WriteFits` when the piece fits `_size`, `WriteGrows`
when the file has to be grown and mapped. The result of `expand_size` is not
looked at, so both outcomes go on to `DoMap`. `Store` has the three outcomes of
the end of the function; following a null `_current_map` and writing beyond a
view end the behaviour (`process`), because nothing is defined after them.
`do_map` opens the file by its name, whatever `_valid` says: when the constructor
could not open a file that was there and `_size` is 0, mio maps the whole file, and
`WriteWholeFile` is where the model stops. The second constructor, which nobody
calls, takes part where `InitialSizes` is not empty; a failing `SetEndOfFile` leaves
the length the file had.

`read_memory()` is two actions, as another thread can act in between:
`Reserve` (the call of `alloc_f`, with the insertion of the view into `_maps`)
and `Copy` (`ReadProcessMemory`, outside any lock, which may copy only a first
part). `Drop` is the destruction of a region. `RawBytes` reads the file through
the region's span and yields a special value when the view is not mapped any
more.

### MMap

The members of each object, and the handles and views open in the process. A
public method is an action; `sync` changes nothing kept here. Closed numbers
are handed out again, as the system does, so closing twice closes somebody
else's handle. `is_handle_internal_` is indeterminate after construction
(`Construct` takes either value), stays behind after a move and after `unmap`,
and that this does no harm is one of the things checked. A caller passes handles
it opened itself, never the result of `file_handle()` of an object.

### ThreadPool

One action is what a thread does between two points where another can
interfere. The predicate of `condition.wait` and falling asleep are two actions
under the mutex (`Test`, `Park`), so that a wakeup can be lost in the model if
the code allowed it. `Push` is the block of `enqueue` under the mutex and
`NotifyOne` comes after it. The destructor is `DestroyerLock`, `SetStop`,
`NotifyAll`, `Join`. What a thread inside `enqueue` does with a destroyed pool is
undefined; `TouchDestroyed` says so and stops there.

### RegionWalk

One iteration of the loop is one `Visit`; the answer of `VirtualQueryEx` is the
longest run of equal pages from the page of the address on. `Change` lets the
target alter any page between two iterations, `QueryFails` breaks the loop.

### Comparator and Criteria

`Match` is the predicate `make_comparator` returns. An integer is its bits, and
differences wrap at `Word`, the 64 bits they are computed with, not at the
width of the element. A Float or Double is a bit pattern with a number, which is
finite, infinite or NaN; a sum or difference is the exact one, rounded by
`round`, of which only what IEEE rounding gives is assumed: it is monotone and
leaves alone what the format holds. `Criteria` says what the caller may rely on
in exact arithmetic, with one tolerance for the type. A step (`Raised`) is found
as exactly as the format allows: no number of the format lies between the exact
difference and the step by more than the tolerance (`Near`).

### ScanSession

`FirstScan` enqueues a task per region. The tasks end one by one in any order
(`Task`), with a scan of whatever bytes the target had then, without one, or
with an exception. `Collect` is the loop over the futures with the filter and
the sort; `Throw` leaves it at the first exception and hands it to the caller.

A call of `next_scan` fixes the state of the target it will meet (`target`): its
bytes, the list of `get_regions`, and which of these regions can still be read.
Each iteration is `SkipRegion`, `SkipScan` or `Consume`. The bytes of a region
are read once in a call, so fixing them at the start loses nothing. `Abort` is an
exception that leaves the loop, from a read or an allocation: `prev_scans` is
assigned to after the loop, so the caller keeps the scans it had. `Update`
leaves any bytes in the buffer. Scans of a session need no bound: the target,
the query and the lists are reset when a call returns, and the states between
two calls are finitely many.

Loops that collect what passes a test are the numbers of the elements that do,
in `Ascending` order, and `ByBase` is an order of the list by address, which is
what `std::sort` promises. The constants carry named assumptions on bytes, updates,
arguments and layouts. Two more conditions are definitions, for they are
hypotheses of some theorems only: `OnElements`, regions begin and end on whole
elements, and `SizesAgree`, all calls of a session use elements of one width.
`MCScanSession` asks TLC whether its instances satisfy both.

### ScannerLife

`holders` says who has a `shared_ptr` to each region (its task, the running call,
the caller's scans), `file` who has one to the `m_file`, `maps` and `currentMap`
which views are mapped, `disk` whether there is a `dump.bin`, `leaked` whether the
process has lost a handle of it. `Start` is the first `get_instance`: the file is
made new, or taken as it is when it could not be deleted, or cannot be opened. `Scan`,
`Read`, `EndTask`, `Return` and `Throw` are a call and its tasks, seen from who
holds what; a `Read` whose mapping fails after the file was opened sets `leaked`
(`MapPathFails` of `MMap`). A region nobody holds goes in the order
of its members, `DropFile` and then `DropMaps`. `LetGo` is the release of an
`m_file`, with `~m_file` when it is the last one: no handle shares deletion, so the
file can only be deleted when no view is left, no handle was leaked, and no other
process has it open. `ended` remembers which of these a run met. `Exit`, `Join`, `Unload`, `End` are static destruction in
the order of the members of `slow_scanner`, last declared first; `Crash` may come
at any time, and the process may be started again after either.

## 3. Runs

| run | question | instance |
|---|---|---|
| `regions` | does every write stay in its view and every region keep its own bytes? | 3 regions of 1, 2, 3 bytes; pages of 2, view granularity 4; a new empty file, which may fail to open |
| `regions_faults` | does isolation survive failing calls, stale and presized files? | the same with failures of open, expand, map |
| `mmap` | does every mapping and view have one owner, is nothing closed twice or for another? | 2 objects, 6 handles, 3 addresses, interchangeable |
| `thread_pool` | are wakeups, order and shutdown right; do tasks, callers and the destructor come to an end? | 2 workers, 2 callers, 3 tasks, 1 spurious wakeup |
| `region_walk` | is the list sorted, disjoint, complete; does the walk end? | 4 pages of 2 bytes, 4 kinds, 4 ranges, 1 change |
| `scan_session` | are candidates narrowed and none lost, whatever tasks and `update` do? | 2 pages of 2 bytes, U32 and Float elements of 2 bytes, 5 layouts, every subset of them readable, 1 update between two scans |
| `scan_session_live` | do `first_scan` and `next_scan` return? | the same, with `changed` as the only criterion of `next_scan`, and without `update`, which no call waits for |
| `scanner_life` | is everything released, and the file deleted? | 3 regions, any number of scans, ends, crashes and starts |

Why the bounds are enough. Sizes 1, 2, 3 with pages of 2 make the file grow
once or twice in every order, with pieces that fit exactly, fit not, and lie in
an old view. Six handles are enough for two mapped objects, a third mapping in
the making or one of a caller, and lost ones. Two workers and two callers are
the least at which a notification can reach the wrong worker and one caller's
task can be taken while another notifies; three tasks queue up behind both
workers. Four pages hold two separate wanted runs and a gap, with a range that
cuts both ends, one that is empty and one that reaches beyond the address
space. Two pages can be separate regions, one region, or missing, so a session
sees a split, a merge, a loss and a return; values of an element go from 0 to
3, and `Word` is 8 so that differences wrap. A Float has the patterns 0, 1, 3
and NaN, `eps` is 1, so that neighbours are within it and the others not, and
sums above 4 are rounded to even numbers. The formats of real elements are
covered by the proofs about `Comparator`, not by larger instances. Three regions
let a call leave a task behind while another region is kept and a third holds
an older view. The criterion decides which entries a scan gets, not which region
or scan the loop turns to next, so one criterion that accepts some elements
and refuses others is enough for `scan_session_live`.

Deadlock is checked where the system goes on for ever. In `regions` every region
may be gone in the end, and a walk ends. In `thread_pool` the three liveness
properties say more than the absence of deadlock: before `Destroy` some step is
always possible, and a state after it in which all threads wait violates
`DestructorReturns` or `GetsReturn`, unless it is the end of the program (`Ended`).

`TypeOK` is once per module; every other property takes several steps to
violate. `PROJECT.json` names, for each, a plausible slip in the code that breaks
it.

**Runs that show a disagreement** with what the repository says of itself (each
checks one property, and TLC finds it violated by what the code does):

| run | statement | what happens |
|---|---|---|
| `existing_file` | dumpable.hpp:157, :183 | a file with a length is written through a null `_current_map` |
| `region_walk_inside_page` | README.md:14 | a range that begins inside a region makes the region too long to be read |
| `merged_regions` | slow_scanner.cpp:100 | a region over two old scans is compared with the first only |
| `exact_after_unknown` | README.md:12-13 | after an unknown-value scan, `exact_value` means "unchanged" |

More are known and are one change of a configuration away. With `Faults =
{"expand"}` the file does not grow and the piece overruns the rest of it, and
with `Faults = {"map"}` the file grows but is not mapped, and the next piece
overruns the old view: `DestinationMapped`, what dumpable.hpp:188 says. With
two sizes in `ElementSize` the indices of old results are scaled by the size of the
new call, and with a layout that begins inside an element of an old region an
index is rounded to another address (`CandidatesNarrowed`). In `MMap` a
`map(path)` that fails after the file was opened leaves its handle to nobody,
though mio.hpp:341 says when it is closed. In `ScannerLife` that handle keeps
`~m_file` from deleting `dump.bin`, so `FileRemoved` excepts runs that leaked one,
and runs that end while another process has the file open (`ended = "hindered"`).
The passing runs of `ScanSession` therefore
say what holds in a session with elements of one size over regions that begin on
a whole element, as those of `VirtualQueryEx` do. Scans that outlive the
scanner, in a static vector for one, leave `dump.bin` behind: `ended = "kept"` in
`ScannerLife`, which `FileRemoved` excepts.

**Fairness.** `ThreadPool!FairSpec` has weak fairness for each worker, each
caller and the destructor: the system schedules every thread, and since a thread
holds the mutex for a few instructions, the mutex is free again and again; tasks
are finite, so no thread can be overtaken for ever. Nothing forces the program
to end (`Destroy`) or a spurious wakeup. `RegionWalk` has weak
fairness for the one thread that runs the loop; no query has to fail.
`ScanSession` has it for the caller inside a call and for the tasks, which the
pool serves (`TasksServed`), and none for `Abort`: no call needs an exception to
come to its end. `ScannerLife` has it
for each task, the call in progress, the destructors of a region once they began
and the end of the process once `main` returned. No caller has to call, to
forget a scan before that, or to end.

## 4. Proofs

All theorems hold for every value of the constants that satisfies the named
assumptions of the modules (`tlapm` reports no obligation it cannot prove).

**DumpRegions** (`MFile_proofs`, `DumpRegions_proofs`). `RegionInv` is
inductive: the two offsets of `m_file` name the same byte (`FileInv`), every
reserved region has one span of its size, inside a view it keeps and below
`_offset` (`RegionOK`), and spans are disjoint. Disjointness alone is not
inductive: that a new span is disjoint from the old ones follows because they
lie below `_offset` and the new one starts there, which needs the agreement of
`_offset` and `_map_offset`. From it: `TypesCorrect`, `NoSharedBytes`,
`OnePieceEach`, and `ImplementsSnapshots`, the refinement of `SnapshotStore`,
all of them whichever system calls fail. `WritesStayInViews` proves
`MemorySafe` under the assumption `StorageWorks` (a file created empty that can
be grown and mapped; it may fail to open): then the current view always reaches
to the end of the file (`StorageInv`). The run `existing_file` and the two
configurations described after it show that none of this assumption can be
dropped.

**ThreadPool** (`ThreadPool_proofs`). `PoolInv` is inductive. `NoLostWakeup` says
that while a worker sleeps there is a worker or a notification on its way for
every queued task; it needs that the reason a worker decided on under the mutex
still holds when it acts (`ReasonInv`), which needs mutual exclusion
(`MutexInv`). `StopHeard` and `DrainedBeforeGone` need how far the destructor is
(`StopInv`) and that a worker leaves a stopped and empty pool only (`LeaveInv`).
The number of threads on their way is a cardinality, so the sets of workers and
callers are assumed finite. `ImplementsTaskPool` is the refinement of `TaskPool`. It needs
that a task is in one place at a time (`OnceInv`: not enqueued yet, once in the
queue, with one worker, or done), which holds because each `enqueue` makes a
`packaged_task` of its own (`OnceAssumption`), and a count: a worker about to
take a task has none, so fewer tasks run than there are workers.

**MMap** (`MMap_proofs`). `OwnInv` is inductive: the five invariants of the run
and `FlagsRight`, that `is_handle_internal_` of an open object tells whose
handle it has. `ClosesItsOwn` is the lemma under all actions that close: what
`unmap` closes is held by nobody else, and what stays open is.

**RegionWalk** (`RegionWalk_proofs`). For ranges that begin on a page, the walk
stands on a page behind all regions found so far (`WalkInv`), so the regions are
sorted, disjoint and inside the range whatever the target does between two
queries. The assumption is the one `region_walk_inside_page` shows to be needed.
`RunsFound` is completeness: while the target stands still, the regions found are
exactly the wanted runs that end before the address of the walk, and the walk
stands where a run starts (`StillInv`). That one answer of `VirtualQueryEx` is
the run that starts there needs the first page of another kind, the least of a
set of naturals (`LeastNatural`).

**Comparator** (`Comparator_proofs`). For any word size and any format whose
rounding satisfies `FormatAssumption`: `FoundMeets`, what `Match` accepts meets
`Criteria`, up to twice `eps` for a Float since the sum with `eps` is rounded
and the difference of the two elements is not, and up to the spacing of the format
for a step, since the difference is rounded before it is compared with it
(`FloatRaised`, `DoubleRaised`, which rest on `RoundedNear`: rounding moves no number
past one the format holds); `OppositesExclude`,
`DoubleTrichotomy` and `FloatNaNNotFound`, how the criteria of one type relate;
`NoWrapAtWidth`, that a narrow counter that wrapped is not found as increased by
its step, because the difference is taken at the full word.

**ScannerLife** (`ScannerLife_proofs`). `LifeInv` is inductive for any number of
regions. `FileRemoved` needs to know what is left in each phase of the
destruction (`PhaseInv`): when `_file` is released, the pool, declared after it and
so destroyed before it, has been joined, no task holds a region, and no region
is half destroyed. With the members in the other order (the mutant
`Unload_BeforeJoin`) a task that is still running keeps a view, and the file
stays. `CleanInv` is what then remains true to the end: no file, and no region. A
leaked handle and another process are what `FileRemoved` excepts. Nothing is claimed
of the bytes a run starts with: the constructor does not look at what `DeleteFileA`
answered, and `existing_file` shows what follows.

**ScanSession** (`ScanSession_proofs`). For any layouts, formats, queries and
bytes, any number of scans. `SessionInv` is inductive: the types, both lists
sorted and disjoint, results in place in their buffers, every future of
`first_scan` a scan of its own region whose results answer the query, and, in
`next_scan`, a queue that is a sorted part of the target's list behind all
results so far. That last part is why `results` stays sorted although
a region is consumed at its first overlap and `idx` stays where it is. From it
`SessionTypes` and `ScansSorted`, with no hypothesis.

- `ResultsStayInBuffer` needs `OnElements`: an index is a quotient of an address,
  and `BufferInv` says that regions begin on elements and that `value` is what the
  buffer holds at the index, after `update` too.
- `NoCandidateLost` is the action property `NothingLost`: a candidate that
  still answers, and lies in a readable region and in the first old scan this
  region overlaps, is among the candidates when `next_scan` is over, also when an
  exception ends it (`AbortKeeps`). It needs
  `KindInv` (the scans kept are all of unknown values or none is) and
  `CompleteInv` (each readable region is, with the first scan it overlaps, still
  due or already done). The lemmas `SnapshotFinds`, `ResultsFind` and
  `NarrowedFinds` say of one region and one scan that what is found is exactly the
  set of answering candidates, by address.
- `CandidatesOnlyNarrowed` is the refinement of `CandidateSet`: `CollectFirst`,
  `ReturnNarrows` and `UpdateKeeps` show that a call that returns is one step of
  it, and `CandidateStep` that all other steps stutter. `SoundInv` carries
  through the loop what `Return` has to know of every result; that each one meets
  `Criteria` comes from `FoundMeets` of `Comparator_proofs`.

The last two assume `OnElements` and `SizesAgree`. Neither can be dropped: the
configurations described in section 3, with two sizes and with a layout inside an
element, violate `CandidatesNarrowed`.

The library's induction theorems take an operator as a parameter and cannot be used
here. Where the proofs need induction they take `AllNaturals`, which says of a set
of naturals what induction says of a predicate: with it a finite set of numbers has
an ascending list (`AscendingExists`) and a buffer has its words (`HighExists`).
That any list of scans can be sorted is needed nowhere: both lists are in order
before the sort, which then loses nothing (`ByBaseOrders`).

**Model-checked only.** Liveness, which is out of the prover's reach:
`TasksServed`, `GetsReturn`, `DestructorReturns`, `WalkEnds`, `ScansReturn`,
`RegionsReleased`, `ExitEnds`. Every safety property of a passing run is stated by
a theorem.

## 5. What is not modelled, and what is left

`basic_shared_mmap` and the iterators of mio have no caller, and `add`, `span(int)`
and `dump(vector)` of `dumpable` have none either. `attach_to` is one assignment;
the handle is copied into every region by `get_regions`. Two instances of the
program on one `dump.bin` are modelled as the file one of them finds
(`existing_file`), not as two processes. What is left of the plan:

1. `MFileSteps`: `write()` in steps under the mutex, shown to implement the
   atomic `Write` of `MFile`.
2. Pool, regions and file in one module: now `ThreadPool` has the threads,
   `DumpRegions` the bytes, `ScannerLife` the holders, and each takes from the
   others what they show.
