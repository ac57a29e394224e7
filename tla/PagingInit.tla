------------------------------ MODULE PagingInit ------------------------------
(***************************************************************************)
(* How the kernel leaves the boot tables: paging::init and runtime_test    *)
(* (src/src/memory/paging.rs), then HeapAllocator::new (src/src/memory/    *)
(* global_allocator.rs) and the first Box, as memory::init calls them.     *)
(* The program is sequential; what varies is where the kernel's image and  *)
(* frame array end and how many frames there are after them, so that every *)
(* allocation on the way gets its turn to fail.                            *)
(*                                                                         *)
(* The frames are laid out as in memory: the boot tables in frames 1 to 3, *)
(* what has to be remapped (task state and stack, VRAM, IDT) below 1MB,    *)
(* the kernel from 1MB, which is the middle of the first level 1 table,    *)
(* and the managed frames from the kernel's end on.                        *)
(***************************************************************************)
EXTENDS PageTable

CONSTANTS
  Remaps,       \* the frames of the IdenticalReMapRequests, in order
  KernelEnds,   \* where the kernel may end: the first frame after it
  FrameCounts,  \* how many managed frames there may be
  HeapFrames    \* the frames of the heap (32)

ASSUME RemapsAssumption == Remaps \in Seq(4 .. (Half - 1))
ASSUME EndsAssumption   ==
  \A k \in KernelEnds : \A n \in FrameCounts :
    k \in Nat /\ n \in Nat /\ k > Half /\ k > 3 /\ Half .. (k + n) \subseteq Frames
ASSUME HeapAssumption   == HeapFrames \in Nat \ {0}

VARIABLES
  mach,       \* the machine
  pc,         \* the statement to run next
  kend,       \* kernel_addr_end_physical, as a frame
  given,      \* the frames the allocator started with
  todo,       \* the frames still to be mapped by the closure of `with`
  table,      \* the frame of the new table, NoFrame before there is one
  temp,       \* the page of the active table inside `with`
  result,     \* what the closure returned, then what init returned
  heap        \* << >>, or <<first page, first frame>> of the heap

initVars == <<mach, pc, kend, given, todo, table, temp, result, heap>>

Kernel  == Half .. (kend - 1)
Stopped == {"done", "err", "stopped"}

(* to_virtual_addr, below 1GB: the kernel's offset is a level 4 index. *)
Virtual(f) == <<Half, 0, f \div E, f % E>>

TestPage == <<0, 0, 1, 0>>      \* 0x200000

Start ==
  /\ kend \in KernelEnds
  /\ \E n \in FrameCounts : given = kend .. (kend + n - 1)
  /\ mach = BootMachine(given)
  /\ pc = "test_alloc"
  /\ todo = << >> /\ temp = << >> /\ heap = << >>
  /\ table = NoFrame
  /\ result = "Ok"

(* Continue at `next`; a fault or a panic stops the kernel. *)
Goto(n, next) == pc' = IF Running(n) THEN next ELSE "stopped"

(* runtime_test *)
TestAlloc ==
  /\ pc = "test_alloc"
  /\ IF mach.free = {}
       THEN pc' = "err" /\ result' = "NoUsableMemory" /\ UNCHANGED <<mach, todo>>
       ELSE /\ mach' = TakeOne(mach) /\ todo' = <<Taken(mach)>>
            /\ pc' = "test_map" /\ UNCHANGED result
  /\ UNCHANGED <<kend, given, table, temp, heap>>

TestMap ==
  LET r == Map(mach, TestPage, todo[1]) IN
    /\ pc = "test_map"
    /\ mach' = r.m
    /\ Goto(r.m, IF r.r = "Ok" THEN "test_write" ELSE "err")
    /\ result' = r.r
    /\ UNCHANGED <<kend, given, todo, table, temp, heap>>

(* Every byte of the page is set: the frame no longer holds a clear table. *)
TestWrite ==
  LET n == Touch(mach, TestPage) IN
    /\ pc = "test_write"
    /\ mach' = IF Running(n) THEN StoreTable(n, TestPage, Junk) ELSE n
    /\ Goto(n, "test_unmap")
    /\ UNCHANGED <<kend, given, todo, table, temp, result, heap>>

TestUnmap ==
  LET r == Unmap(mach, TestPage) IN
    /\ pc = "test_unmap"
    /\ mach' = r.m
    /\ Goto(r.m, IF r.r = "Ok" THEN "new" ELSE "err")
    /\ result' = r.r
    /\ todo' = << >>
    /\ UNCHANGED <<kend, given, table, temp, heap>>

(* InActivePageTable::new(...).ok_or(NoUsableMemory)? *)
NewRoot ==
  LET r == NewTable(mach) IN
    /\ pc = "new"
    /\ mach' = r.m
    /\ table' = r.f
    /\ Goto(r.m, IF r.f = NoFrame THEN "err" ELSE "with")
    /\ result' = IF r.f = NoFrame THEN "NoUsableMemory" ELSE result
    /\ UNCHANGED <<kend, given, todo, temp, heap>>

(* The closure maps the requests, then the kernel.  map_fitting does not
   have pages of 2MB: a kernel that large stops at unimplemented!(). *)
With ==
  LET r == WithBegin(mach, table) IN
    /\ pc = "with"
    /\ mach' = r.m
    /\ temp' = IF r.r = "Ok" THEN r.p ELSE << >>
    /\ todo' = Remaps
    /\ Goto(r.m, IF r.r = "Ok" THEN "remap" ELSE "err")
    /\ result' = r.r
    /\ UNCHANGED <<kend, given, table, heap>>

MapNext(next) ==
  LET r == Map(mach, Virtual(todo[1]), todo[1]) IN
    /\ todo # << >>
    /\ mach' = r.m
    /\ todo' = IF r.r = "Ok" THEN Tail(todo) ELSE todo
    /\ Goto(r.m, IF r.r = "Ok" THEN next ELSE "restore")
    /\ result' = r.r
    /\ UNCHANGED <<kend, given, table, temp, heap>>

Remap == pc = "remap" /\ MapNext("remap")

(* mutant: the kernel's end is mapped too *)
KernelFramesInclusive == [k \in 1 .. (kend - Half + 1) |-> Half + k - 1]
(* mutant: the last frame of the kernel is left out *)
KernelFramesExclusive == [k \in 1 .. (kend - Half - 1) |-> Half + k - 1]

(* The frames between kernel_addr_begin_physical and _end_physical. *)
KernelFrames == [k \in 1 .. (kend - Half) |-> Half + k - 1]

MapFitting ==
  /\ pc = "remap" /\ todo = << >>
  /\ IF Cardinality(Kernel) >= E
       THEN mach' = Fault(mach, "panic") /\ pc' = "stopped" /\ UNCHANGED todo
       ELSE todo' = KernelFrames
            /\ pc' = "fit" /\ UNCHANGED mach
  /\ UNCHANGED <<kend, given, table, temp, result, heap>>

MapKernel == pc = "fit" /\ MapNext("fit")

ClosureOk ==
  /\ pc = "fit" /\ todo = << >>
  /\ pc' = "restore"
  /\ UNCHANGED <<mach, kend, given, todo, table, temp, result, heap>>

(* The end of `with`, and the ? on what the closure returned. *)
Restore ==
  LET n == WithEnd(mach, temp, mach.cr3) IN
    /\ pc = "restore"
    /\ mach' = n
    /\ Goto(n, IF result = "Ok" THEN "switch" ELSE "err")
    /\ UNCHANGED <<kend, given, todo, table, temp, result, heap>>

SwitchTable ==
  /\ pc = "switch"
  /\ mach' = Switch(mach, table)
  /\ pc' = "heap"
  /\ UNCHANGED <<kend, given, todo, table, temp, result, heap>>

(* HeapAllocator::new; the first Box writes to the heap. *)
HeapBlocks ==
  {f \in mach.free : (f - kend) % HeapFrames = 0
                     /\ f .. (f + HeapFrames - 1) \subseteq mach.free}
Heap ==
  LET f == Min(HeapBlocks)
      block == f .. (f + HeapFrames - 1)
      r == AutoContinuousMap([mach EXCEPT !.free = @ \ block], f, HeapFrames)
      some == HeapBlocks # {} /\ r.p # None
  IN
    /\ pc = "heap"
    /\ mach' = IF HeapBlocks = {} THEN mach
            ELSE IF Running(r.m) /\ some THEN TouchFound(r.m, r.p) ELSE r.m
    /\ heap' = IF HeapBlocks = {} THEN << >> ELSE <<r.p, f>>
    /\ Goto(mach', IF some THEN "done" ELSE "err")
    /\ result' = IF some THEN "Ok" ELSE "NoUsableMemory"
    /\ UNCHANGED <<kend, given, todo, table, temp>>

(* init has returned, or the panic handler loops. *)
Halt == pc \in Stopped /\ UNCHANGED initVars

InitNext ==
  \/ TestAlloc \/ TestMap \/ TestWrite \/ TestUnmap
  \/ NewRoot \/ With \/ Remap \/ MapFitting \/ MapKernel \/ ClosureOk \/ Restore
  \/ SwitchTable \/ Heap \/ Halt

InitSpec == Start /\ [][InitNext]_initVars

-------------------------------------------------------------------------------
(***************************************************************************)
(* The code, the stack, the console and the IDT keep their addresses       *)
(* throughout: while the tables are edited, when they are switched, and    *)
(* where init gives up, so that the panic handler can run and print.       *)
(***************************************************************************)
KernelAlwaysMapped ==
  \A f \in Kernel \cup Range(Remaps) : Walk(mach.mem, mach.cr3, Virtual(f)) = f

(* "Start from 1 to avoid using null": nothing ever makes the page of
   address 0 accessible. *)
NullNeverMapped == Walk(mach.mem, mach.cr3, <<0, 0, 0, 0>>) = NoFrame

(***************************************************************************)
(* Every frame is free, the test's, a table of the old or of the new root, *)
(* or the heap's, and only one of these, also after an error half-way.     *)
(***************************************************************************)
TableFrames == {x[2] : x \in TablePaths(mach.mem, 1) \cup
                             (IF table = NoFrame THEN {} ELSE TablePaths(mach.mem, table))}
HeapBlock == IF heap = << >> THEN {} ELSE heap[2] .. (heap[2] + HeapFrames - 1)
TestFrame == IF table = NoFrame /\ todo # << >> THEN {todo[1]} ELSE {}

InitFramesAccounted ==
  pc # "stopped" =>
    /\ given \cup {1, 3} = mach.free \cup TestFrame \cup TableFrames \cup HeapBlock
    /\ Cardinality(given) + 2 = Cardinality(mach.free) + Cardinality(TestFrame)
          + Cardinality(TableFrames) + Cardinality(HeapBlock)

(***************************************************************************)
(* After a successful init the heap's pages lead to the heap's frames, the *)
(* test page to nothing, and the table can be edited through its recursive *)
(* entry.  After an error before the switch the boot table can be.         *)
(***************************************************************************)
InitOutcome ==
  /\ pc \in {"done", "err"} => mach.mem[mach.cr3][R] = Entry(mach.cr3)
  /\ pc = "done" =>
       /\ mach.cr3 = table
       /\ \A k \in 0 .. (HeapFrames - 1) :
            Walk(mach.mem, mach.cr3, PageAfter(heap[1], k)) = heap[2] + k
       /\ Walk(mach.mem, mach.cr3, TestPage) = NoFrame

(* The tables are never reached through a translation from before an edit
   of the recursive entry, and never miss. *)
InitTablesReachable == mach.fault # "page_fault" /\ ~mach.stale

(***************************************************************************)
(* With enough frames, and a kernel that ends below the last entry of its  *)
(* level 1 table, init neither fails nor panics: 13 tables, an aligned     *)
(* block for the heap after them, and 3 tables for its pages.              *)
(***************************************************************************)
Enough ==
  /\ Cardinality(given) >= 12 + 2 * HeapFrames
  /\ Cardinality(given) >= 16 + HeapFrames
  /\ kend <= R
InitSucceeds == Enough => pc \notin {"err", "stopped"}

(* map refuses a page as "Already mapped page" (table.rs:20) only if the
   page has been mapped. *)
AlreadyMappedIsMapped ==
  result = "AlreadyMapped" =>
    \E x \in Space(mach.mem, IF pc \in {"remap", "fit", "restore"} THEN table ELSE mach.cr3) :
      x[1] = Virtual(todo[1])
==============================================================================
