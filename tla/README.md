# Verification of the Axel kernel

TLA+ models of the Axel kernel (Rust and assembly, x86_64 and arm11), the TLC
configurations that check them, and TLAPS proofs about most of them.  The models
are translated from the code at one commit.  Paths below are relative to the
repository's `src/`.

## The system

`boot.asm` switches the processor to long mode on provisional page tables and
calls `main` (`kernel.rs`), which initializes memory and then interrupts.
After that the kernel only handles the timer.

| component | state | operations | used by |
|---|---|---|---|
| memory init (`memory.rs`, `early_allocator.rs`, `region.rs`, `address*`) | the kernel's statics, the end of the kernel, the free region, the frame array | `clean_bss_section`, `init`, `allocate_frames`, `EarlyAllocator` | `main` |
| buddy allocator (`buddy_system/`, `frame.rs`) | free lists and counters per order; order and state of every frame | `new`, `allocate`, `free`, `alloc_one` | paging, heap |
| page tables (`paging/table.rs`, `entry.rs`, `page*.rs`) | the tables in memory, CR3, the TLB | `map`, `unmap`, `map_fitting`, `auto_continuous_map`, `find_empty_pages`, `with`, `switch`, `InActivePageTable::new` | paging init, heap |
| paging init (`paging.rs`) | the program counter of `init` | remap the kernel, switch | memory init |
| heap (`global_allocator.rs`) | the range not handed out | `init`, `alloc`, `dealloc` | `Box` |
| interrupts (`interrupt.rs`, `pic.rs`, `pit.rs`, `table.rs`, `descriptor.rs`, `handler.rs`) | IDT, PICs, PIT, interrupt flag | `init`, `timer_handler`, the default handlers | `main`, hardware |
| threads, processes (`thread.rs`, `process.rs`) | a table of processes, always empty | `switch_context` | timer handler |
| displays (`graphic.rs`) | video memory, cursor, colours | `print`, `clear_screen`, `fill_display`, ... | console, the x86_32 port |
| console (`context.rs`, `log.rs`, `kernel.rs`) | a display made on first use, its spin lock | `print!`, `main`, `panic_impl` | everything |
| arm11 port (`arm11/peripheral/`) | the pins and their functions, the timer, the SPI controller, the display | `set_pin_function`, `init`, `fill_screen`, `draw_girl`, `draw_aa`, `spi_transfer`, `write_output_pin`, `wait` | its own loop |

What makes it hard:

* tables are edited through themselves.  Every table is reached through a
  recursive entry; `with` redirects that entry to another table, edits that
  table, and restores the entry.  One stale translation or one entry not
  restored edits the wrong table;
* any allocation may fail in the middle of a chain of table allocations, and
  nothing is rolled back;
* splits and merges of the buddy allocator compose over long call sequences;
  the number of frames is never a power of two;
* handlers run with interrupts enabled (trap gates) and share spin locks with
  what they interrupt;
* exceptions and NMIs come between any two instructions, and their handlers
  print, on a console that is behind a spin lock;
* on arm11 the timer's 64 bits are two registers, read one after the other
  while they count;
* on arm11 a display, an SPI controller and the processor run side by side, and
  a pin written before a byte says what the byte is;
* sizes are computed from the machine's memory map and the image size, which
  tests never vary.

What makes each component correct is the list of properties under "Runs"; the
places where it could go wrong are the hazards in `PROJECT.json`.

## Modules

| module | models | how |
|---|---|---|
| `FramePool` | what a frame allocator promises | abstract: the blocks in callers' hands, until the pool breaks |
| `BuddyAllocator` | `buddy_system/allocator.rs`, `frame.rs` | objects are indices, lists are sequences; the loops of `new` and `free` one iteration per step |
| `BuddyAllocatorProofs` | | proofs about `BuddyAllocator` |
| `PageTable` | `paging/table.rs`, `entry.rs`, `page.rs`, `page_index.rs`, tables of `boot.asm` | operators on a machine record: memory, CR3, TLB, free frames, fault |
| `AddressSpaces` | what page tables promise | abstract: a set of translations per table |
| `Paging` | any sequence of calls of the page table methods | one action per call; `with` is two, with other calls in between |
| `PagingInit` | `paging.rs`, `HeapAllocator::new`, the end of `memory::init` | one action per statement that can fail |
| `PagingProofs` | | proofs about `Paging` and `PagingInit` |
| `FindFree` | the loop of `find_free_entry_index_with` | a fold over the entries, compared with the summary `PageTable` uses |
| `MemoryInit`, `MemoryInitProofs` | `memory.rs` with `clean_bss_section`, up to the buddy allocator, `early_allocator.rs`, `region.rs`, `alignment.rs` | one action per call |
| `Heap`, `HeapProofs` | `global_allocator.rs` | one action per call, which holds the lock throughout; proofs |
| `Interrupts`, `InterruptsProofs` | `interrupt.rs`, `pic.rs`, `pit.rs`, `table.rs`, `thread.rs`, `process.rs` | one action per port write of the boot code and per step of a handler, with a stack of handlers |
| `CharacterDisplay` | the text display of `graphic.rs` | one action per method, `print` one per character |
| `GraphicalDisplay` | the pixel display of `graphic.rs`, `init` of `x86_32/mod.rs` as its caller | one action per method, a fill being the sequence of its stores |
| `Displays`, `DisplaysProofs` | both displays side by side | conjunction of the two; neither touches the other's memory |
| `Console`, `ConsoleProofs` | `log.rs`, `context.rs`, `kernel.rs`, `handler.rs`, `descriptor.rs`, `interrupt/table.rs` | a stack of contexts (boot, handlers), one action per step of `print!` and per other statement; exceptions, NMIs and the timer between any two |
| `ArmTimer` | `timer.rs` of arm11 | one action per register read; the clock steps by itself |
| `Ili9340`, `Ili9340Proofs` | `spi.rs`, `gpio.rs`, the loop of `mod.rs` of arm11, with the waits of `ArmTimer` | a call is the sequence of bytes it sends; a byte is one action per register access; controller, clock and display step by themselves |

`MC*` modules hold the constants of the TLC instances.  Definitions marked
`mutant` are variants that contain a plausible error; they are not used by the
specifications and document, per property, an error the property would catch.

`PageTable` is shared by `Paging`, `PagingInit` and `FindFree`.  Components
meet at four interfaces: `alloc_one`/`free` between tables and the buddy
allocator, `auto_continuous_map` between the heap and the tables, the lock of
the console between the display and everything that prints, and `wait` between
the arm11 timer and the display's driver.  `Ili9340` composes the last;
`Console` keeps of a display that a message is several writes to it.

### Abstractions

* Orders, table entries, frames and heap bytes are few; table entries keep
  the bits the code branches on, PRESENT and HUGE_PAGE.  WRITABLE is left out:
  the boot code leaves CR0.WP clear, so the kernel writes through any present
  entry.
* Tables have E entries instead of 512.  The last is the recursive one, entry
  E/2 the first of the kernel's half.  Nothing else in the code depends on
  512, except that 1MB is the middle of the first level 1 table, which
  `PagingInit` keeps.
* The TLB is the set of translations used since the last flush.  `Use` is an
  access of a caller to a page it has mapped: it goes where the cached
  translation leads, if there is one.  An access of the page table code that meets a cached translation the tables now deny is recorded in `stale`;
  it may go either way on hardware, and `TablesReachable` says it never
  happens.  `with` changes the recursive entry by several stores through that
  entry; they are one step, which assumes that the processor keeps the
  translation of the level 4 table for these few instructions.
* In the table models `alloc_one` returns the lowest free frame.  Which frame
  comes does not matter to the tables; for the heap's block in `PagingInit` the
  blocks are aligned relative to the first managed frame, as the buddy
  allocator's are.  That the buddy allocator hands out each frame once is
  `ImplementsFramePool`, which holds until `free` first merges a buddy out of
  another order's list.
* A frame that was never written, or was filled by `runtime_test`, holds `Junk`:
  read as a table, every entry is present.  A table that is used before being
  cleared shows.
* Uninitialized Cells of frames hold any of `GarbageOrder` and any state.
* Build: the dev profile that the Makefile builds; debug assertions and integer
  overflow panic.  After a panic or a fault nothing more happens.
* `free` of the buddy allocator can merge a buddy that is linked in another
  order's list (see the findings).  The history variable `misled` says that it
  did.  Inside the other list the links stay well formed, and the model goes on
  as the code does, into the states where a frame is handed out twice; no
  property but `TypeOK` is claimed of them.  Where the buddy is the head or the
  tail of the other list, that list still points to it afterwards and is no
  longer a list; the code goes on, the model stops there ("dangling").  `held`
  is a set: a block that two callers were given is freed once.
* `ArmTimer`: the low half has L values instead of 2^32, the clock is kept
  modulo what has passed, and a wait asks for Usec ticks.  The clock may tick
  between any two reads.
* `Ili9340`: after a reset the display is ready for the next command before the
  wait that follows begins, or Usec ticks into it, which is its length; settings that do not change where a pixel goes are bytes the display drops; what is
  read from a write-only GPIO register may be any bits of the bank.
* The PICs and the PIT are modelled by how they react to the writes the code
  makes.
* `Console`: whether an initialization fails is open (`MemoryInit` and
  `PagingInit` say when); the timer's handler is its switch, the lock of the
  command port, the end of interrupt and the unlock (`Interrupts` has the
  devices and the manager's lock); a message is two characters.  A fault
  repeats when its handler returns, since the handlers repair nothing.  Before
  `lidt` an exception resets the machine; the model has none there.  A panic
  comes from a statement between two messages, never from inside `print!`.
* `MemoryInit`: the statics are taken to be the last of the image.
* `GraphicalDisplay`: pixels are of 32 bits, as on x86_32, its only user, and
  colours are `Color::Code`.  `CharacterDisplay` is given the sixteen named
  colours, not one that makes `color` panic (`graphic.rs:117`).
* `Paging`: a block whose mapping fails is dropped by `HeapAllocator::new`
  (`global_allocator.rs:59`) and never given back.  It counts as its caller's.

### What callers are taken to respect

A block is freed once, by whom it was given.  A frame is mapped once and is
not a table; only pages mapped with an allocated frame are unmapped; no page
inside the boot tables' 1GB page or under a recursive entry is mapped; `with` does not nest (the lock of
`ACTIVE_PAGE_TABLE` and the borrow checker see to it).  `set_current_position`
is given a position on the screen.

## Runs

| run | bounds | shows |
|---|---|---|
| `buddy` | 9 frames, 3 orders | until `free` is misled: `NoOverlap`, `NothingLost`, `CountsAgree`, `Coalesced`, `UninitNeverRead`, `AllFreedRestoresNew`, refinement of `FramePool`, which breaks then |
| `paging` | 6 entries; 8 frames, 2 pages, blocks of 2, or 10 frames, 1 page, no blocks | `FramesAccounted`, `RecursionRestored`, `TablesReachable`, `StopsOnlyExhausted`, `StaleOnlyByUnmap`, refinement of `AddressSpaces`, with failing calls and several tables |
| `paging_init` | 12 entries, 0 to 26 frames, 6 kernel ends | `KernelAlwaysMapped`, `NullNeverMapped`, `InitFramesAccounted`, `InitOutcome`, `InitTablesReachable`, `InitSucceeds`; deadlock |
| `memory_init` | frames of 16 bytes, 32 kernel ends, 462 maps | `StaticsStayZero`, `FramesUsable`, `AssertHoldsAligned`; deadlock |
| `heap` | 16 bytes, 3 blocks alive | `BlocksDisjoint` |
| `interrupts` | 8 nested handlers, 19, 100 and 596590 Hz | `TimerVectorOnly`, `EnabledWhenReady`, `ManagerNeverContended` |
| `displays` | 3 by 2 text screen, 7 calls; 3 by 2 pixels in a memory of 4 rows, 2 fills, 2 pixel formats | `ScreenShowsPaper`, `MemoryShowsCanvas` |
| `console` | 2 exceptions of 5 kinds, 5 contexts, 2 characters a message | `MessagesWhole`, `StuckOnlyInReport`, `StackBalanced`, `BootEnds` |
| `ili9340` | 4 by 3 screen, characters of 2 by 1, LED in the bank of the D/C pin; low half of 4 values, waits of 3 ticks, 2 ticks before the first read of one | `ScreenShowsPicture`, `WaitsFull`, `EveryCallReturns` |

`buddy`, `memory_init`, `heap`, `interrupts` and `console` also check `TypeOK`, the
type invariant of their module.

`paging` also evaluates `LoopIsFindFreeWith` of `FindFree` (an ASSUME): the loop that searches a table finds, for every table of that size
and every count, what the summary used everywhere else says.

Why the bounds are enough.  Nine frames and three orders give two blocks of
the top order and a tail, so that both top-order and tail merges occur.  Eight
frames are three tables, a mapped page, a block and a second attempt that runs
out; ten are one new table (seven frames with its temporary page) and what
`with` needs.  In `paging_init` the number of frames runs from none to more
than needed, so that every allocation on the way is the first to fail in some
behaviour.  In `interrupts` a handler nested in a nested one behaves as the
first.  In `ili9340` both pictures are drawn over each other for ever; the text
has two lines; the low half of the timer overflows during a wait and between
the reads of the halves.  Seven characters fill a 3 by 2 screen and scroll it;
the rows of memory below the pixels are where a fill that goes too far shows.
In `console` two exceptions are a handler that interrupts a message and one
that interrupts that handler; the faults are one without an error code and two
with one (one of them far from the others, vector 17), the traps an NMI and a
breakpoint; five contexts leave room for the timer on top of these.  The kernel ends of
`memory_init` are all the offsets within two frames, the frequencies the
lowest and the highest the code can set correctly, and the one it uses.

Runs with CHECK_DEADLOCK FALSE are those in which the program may really stop:
a fault or a panic ends the behaviour (in `ili9340` a wait that subtracts a
later time from an earlier one, after a torn read), memory is used up, the
calls are used up (`displays`), or (`interrupts`, `console`) a handler spins or
the kernel halts.

### Disagreements found

Each of these is a run that TLC ends with a counterexample.

| run | code | what happens |
|---|---|---|
| `buddy_wrong_list` | `allocator.rs:141-148` | `free` merges with a buddy that is free but not a block of that order; the counter underflows, the other list is left with a dangling end, or free goes on and a frame is handed out twice |
| `paging_init_last_frame` | `table.rs:146-148` | the self entry of a lower table is taken for a mapping; boot fails if kernel and frame array reach the last frame below 2MB |
| `interrupts_nested` | `pic.rs:67` | tick between the end-of-interrupt write and the unlock: the nested handler spins for ever |

The models also contain the following, without a run of their own:

* merging two blocks of the top order indexes past the lists, with 128MB or
  more in one region (`allocator.rs:156-163`; `PushPanics`, reached by `buddy`);
* the search returns the first free entry it met, not the beginning of the run
  it found (`table.rs:88-111`; `FindFreeWith` keeps it);
* the assertion of `allocate_frames` fails for some regions that do not end at
  a multiple of a frame (`memory.rs:97-111`); `AssertHoldsAligned` says when
  it holds;
* `HeapAllocator::alloc` drops the aligned address (`global_allocator.rs:71`):
  blocks are disjoint but not aligned;
* ICW1 goes to the master twice and never to the slave (`pic.rs:28-31`), which
  takes the words that follow for masks;
* bits 8 to 15 of a character above U+00FF end in the colours of its pixel
  (`graphic.rs:132`; `GenPixel`);
* `clean_bss_section` passes the size as the value and 0 as the length
  (`memory.rs:47`): nothing is cleared.  `StaticsStayZero` says that the statics
  are zero nevertheless, as the loader left them, and that the frame array is
  not written over them;
* `unmap` does not invalidate the cached translation (`table.rs:317`): a page
  unmapped and mapped to another frame still reaches the old one.
  `StaleOnlyByUnmap` says that nothing else leaves one behind;
* the assertions of the timer's set up accept 18 Hz, whose counter does not
  fit 16 bits, and rates above 596590 Hz, whose counter is 1 (`pit.rs:60`);
* an exception during a message: its handler spins on the lock for ever
  (`log.rs:6`).  `StuckOnlyInReport` says that besides it only a tick between
  another tick's end of interrupt and its unlock spins for ever
  (`interrupts_nested`), and `BootEnds` that boot ends but for these two and for
  the next;
* a fault's handler returns to the instruction that raised it, which raises it
  again (`handler.rs:44`);
* on arm11, a carry between the reads of the two halves of the timer gives a
  time that is off by the range of the low half (`timer.rs:25`): a wait of
  length 0 or a panic.  `WaitsFull` says that nothing else cuts a wait short;
* x86_32 fills an area whose rows reach below the display (`x86_32/mod.rs:38`),
  where the code's own bounds do not stop it;
* a pixel of 24 bits would be stored as 32 (`graphic.rs:284`).

Fairness.  Three runs need it.  `interrupts_nested`: weak fairness of the boot code,
of the handlers and of delivery.  The processor executes the next instruction
of what it is doing; a pending interrupt that may be accepted is accepted at
an instruction boundary.  Ticks are not fair: none has to come.  Deliver is
bounded by `MaxDepth`; the counterexample needs two handlers.  `ili9340`: weak
fairness of the driver, which is all the processor does, of the controller,
which shifts while a transfer is active, and of the clock; that the polling
loops and the waits end follows.  `console`: strong fairness of the step of a
context at every depth.  The timer may interrupt a context again and again, but
its period (10 ms) is longer than its handler, so what it interrupts gets on in
between; weak fairness would not say so, because the step is disabled while the
handler runs.

## Proofs

`tlapm M.tla` for each proof module M, for every value of the constants that
satisfies the named assumptions of the modules.  The invariants `IInv` below were
checked by TLC on the run's instance before they were proved, except those of
`PagingProofs`, which say that a level can be given to every table and are not
for TLC to evaluate.

| module | theorem | property |
|---|---|---|
| `BuddyAllocatorProofs` | `TypeCorrect` | `TypeOK` |
| | `BlocksNeverOverlap` | `NoOverlap` |
| | `NoObjectIsLost` | `NothingLost` |
| | `CountersAreTrue` | `CountsAgree` |
| | `NoUninitializedRead` | `UninitNeverRead` |
| | `BuddyImplementsFramePool` | `ImplementsFramePool` |
| | `FreeBuddiesAreMerged` | `Coalesced` |
| | `FreeingEverythingRestoresNew` | `AllFreedRestoresNew` |
| `HeapProofs` | `TypeCorrect`, `AllocationsDisjoint` | `TypeOK`, `BlocksDisjoint` |
| `MemoryInitProofs` | `TypeCorrect`, `StaticsUntouched` | `TypeOK`, `StaticsStayZero` |
| | `FramesAreUsable`, `AssertNeverFails` | `FramesUsable`, `AssertHoldsAligned` |
| `InterruptsProofs` | `TypeCorrect`, `TimerAtItsVector` | `TypeOK`, `TimerVectorOnly` |
| | `ReadyBeforeEnabled`, `ManagerFree` | `EnabledWhenReady`, `ManagerNeverContended` |
| `ConsoleProofs` | `TypeCorrect`, `MessagesNeverMix` | `TypeOK`, `MessagesWhole` |
| | `OnlyReportsSpin`, `FramesBalance` | `StuckOnlyInReport`, `StackBalanced` |
| `DisplaysProofs` | `ScreenAlwaysShowsPaper`, `GraphicsShowCanvas` | `ScreenShowsPaper`, `MemoryShowsCanvas` |
| `PagingProofs` | `NoFrameLost`, `WithRestores` | `FramesAccounted`, `RecursionRestored` |
| | `NeverUnreachable`, `NeverStopsEarly` | `TablesReachable`, `StopsOnlyExhausted` |
| | `OnlyUnmapOutdates` | `StaleOnlyByUnmap` |
| | `KernelStaysMapped`, `NullStaysUnmapped` | `KernelAlwaysMapped`, `NullNeverMapped` |
| | `InitLosesNoFrame`, `InitLeavesTables` | `InitFramesAccounted`, `InitOutcome` |
| | `InitNeverUnreachable` | `InitTablesReachable` |
| `Ili9340Proofs` | `WaitsLastLongEnough` | `WaitsFull` |

**Buddy allocator.**  From `MAX_ORDER` and `obj_count` positive and
`ShiftDoubles` (2^(o+1) = 2 * 2^o for the orders at hand; the provers do not
know exponentiation).  The invariant is `SInv`: `IInv` until `free` is misled,
and after that only the types of what the code then still does (`MisledInv`).
The theorems state the limit, and so does the pool that
`BuddyImplementsFramePool` refines: it breaks when `free` takes a buddy out of
another order's list, which TLC shows to happen.  None of the properties is
inductive.  `IInv` says that
the blocks (`Heads`: held, listed, or being merged) are aligned to their size,
inside the array and pairwise disjoint intervals; that they cover the frames
(while `new` runs, those below `index`); that every list holds blocks of its own
order that nobody holds, each once, with `free_counts` its length; and that the
registers of the loops fit the block at hand.  Alignment is what makes splitting
and merging work: of an aligned block of order o, bit k < o of the index is 0,
so that the upper half is at index + 2^k (`SplitFresh`), and merging with the
block at the flipped bit gives an aligned block again (`BlocksMerge`).  That no
uninitialized Cell is read (`NoUninitializedRead`) follows from covering and
nesting of aligned blocks: the buddy's index is aligned, and the block that
covers it cannot begin before it without containing the block being freed.

`Coalesced` rests on a second invariant `CInv`, preserved where `IInv` holds:
what is linked is marked free (`FreeMarked`), so that a buddy `free` takes for
used is in no list; and `new` makes at most one block of each order below the
top (`NewOnce`).  `allocate` puts a half only into a list that was empty,
because it takes its block from the first list that is not.
`AllFreedRestoresNew` follows without another induction over steps.  With
nothing held, take the smallest free block below the top order whose buddy fits
in the array: the block that covers the buddy's index is larger (and overlaps),
equal (and `Coalesced` forbids it) or smaller (and was not the smallest).  So no
such block exists (`NoBuddyFits`), every free block is one of those `new` makes
(`FreeIsNew`), and since the free blocks cover the array they are all of them
(`NewIsFree`).

**Page tables.**  For tables of any even size from 4 entries, any frames, any
pages callers ask for (outside the boot tables' huge page and the recursive
entries) and any sequence of calls.  The properties speak of paths from a root, and no
path says enough about a store that goes through the recursive entry.  `IInv`
therefore gives every table a level (`Good`): an entry of a table leads to a
table one level below, no two entries to the same one, every table but the roots
has such an entry, and every table has its self entry (`Selves`), that of the
active table leading to the edited one.  This is local, so one store disturbs
little of it, and that each frame is reached by one path of one root follows
(`ReachUnique`, `ReachAll`).  A reference is a virtual address with some
recursive indices in front (`RefAt`); the self entries make it walk to exactly
the table it stands for (`RefFacts`), so every store goes where the code means
it to go.  `TlbOk` says that cached references agree with the tables.  All calls
but `unmap` only add (`Grown`: what was present stays, new tables come from
`free`), and `Kept` carries every cached translation over; `unmap` clears one
entry of level 1 and `StaleOnlyByUnmap` is what it leaves behind.  `with` and its end move one
self entry and flush (`SelfTree`), `new` adds a root through its temporary page
(`RootTree`), `switch` changes which root is active (`SwitchTree`).
`auto_continuous_map` maps a run of pages in a loop; by induction on its counter
(`RunFacts`, from the least counterexample) every `map` of it finds the level 1
table that the search made and a free entry in it, so that its panic is never
reached.

**Paging initialization.**  For tables of any even size from 4 entries, any end of
the kernel, any number of frames, any size of the heap and any list of frames to
remap, from three assumptions: the kernel begins at 1MB and ends behind the
frames that hold the boot tables, and it and the managed frames exist
(`EndsAssumption`); what is remapped lies between the boot tables and 1MB
(`RemapsAssumption`; the text buffer does); the heap has at least one frame
(`HeapAssumption`).  `InitInv` has three parts.
`Place` says where the frames are.  `Sound` is what still holds after a panic,
whose handler prints and needs its addresses: the active table is the root of a
well-formed tree, has no level 1 table for address 0 and, once it is not the
boot table, maps the kernel and the remapped frames.
`Live` holds while `init` runs: `Good` as above, with the
boot table and the new one as roots, so that the lemmas about `map`, `unmap`,
`with` and `switch` apply to each statement; that the new table has no
level 1 table below the indices 0, 0 and the boot table none for address 0
(`Untouched`), because the search never returns index 0 and the kernel is mapped
in the upper half; and a stage per statement
(`StageTest`, `StageRoots`, `StageWith`, `StageHeap`) that says what the table
being built already maps and what is left to do.  `KernelAlwaysMapped` across
the switch is the last stage of `with`: when `map_fitting` has run through, the
inactive table maps all that the boot table does.  `InitFramesAccounted` counts
frames, from `Good` and from the heap's block being cut from the free ones
(`DisjointSum`).

**Heap.**  Disjointness needs that every live block ends at or before
`addr_begin` (`BelowBegin`).

**Memory initialization.**  For every frame size, element size, kernel end and
memory map, from three assumptions: an element of the frame array is no larger
than a frame, and its alignment divides the sizes (`SizeAssumption`; `Frame` is
40 bytes, a frame 4096); the statics lie inside the image (`ImageAssumption`,
the linker script); the first region that `init` accepts begins at or below the
end of the image (`MapAssumption`: the loader put the image, at 1MB, into that
region).  Without the last the code would place the array in front of usable
memory; `init` takes it for granted too.  `Stage` says where the early
allocator stands before each statement, `Cut` that it works in one region.  The
arithmetic is in lemmas: `align_up` is the least multiple at or above
(`AlignUp`), and the count of frames, computed from what is free before the
array exists, leaves room for the array after it (`CountRoom`,
`AssertionHolds`).

**Interrupts.**  For every depth of nesting and every set of frequencies from 19
to 596590 Hz.  `Progress` ties PICs, PIT and IDT to the number of the next write
of the boot code; `Nesting` says that only the innermost handler can be before
its end of interrupt, since the PIC delivers nothing until then; `Holders` ties a
lock to the step of the handler that took it.  A handler holds the process
manager only before its end of interrupt, so no nested handler meets that lock;
it can hold the port's lock after it, and there the same argument fails, which
is what `interrupts_nested` shows.

**Console.**  For every depth, number of exceptions and length of a message.  The
properties are about the innermost context; entries and returns move them
between levels, so `IInv` speaks of all of them: what the boot program has
reached (`Boot`), that the holder of the lock is the context that writes
(`Lock`), that adjacent stack pointers differ by what an entry pushes and its
return pops (`Frames`), and that before the first exception only the timer and
the boot code's own test interrupt can have come (`Quiet`).  `Ports` rests on
`IInv`: the holder of the command port is the timer's handler between its lock
and its unlock, and of nested ones all but the innermost are past their end of
interrupt; so a tick can find the port held only by one that is about to unlock
it.

**Displays.**  For every screen size and any number of calls.
`ScreenShowsPaper` is inductive with the types and with the cursor on the screen;
the proof is about rows and columns as cells of one array and how a scroll moves
them.  `MemoryShowsCanvas`, for every size, every format of a pixel whose three
components are bytes of their own (`FormatAssumption`) and every colour, speaks of
the end of a call, and its invariant `GInv` of the middle: the pixels that the
loops have passed, and all outside the area, show their colour.  The loops count
addresses; `GInv` gives the row and the column back (`AreaAt`), and `Steps` that
their conditions compare rows and columns.  A store changes the four bytes of one
pixel (`Stored`), and cutting them out of the number `color` made gives the
components (`ColorBytes`).  Both are theorems of `DisplaysSpec`, with the other
display beside.

**arm11 timer.**  For every width of the low half and length of a wait, under
`Ili9340`'s specification.  `Ordered` puts what has been read, the beginning of
the wait and the clock in order; it holds until a read is torn.

Only model-checked:

* liveness (`BootEnds`, `EveryCallReturns`): out of the prover's reach;
* the refinement of `AddressSpaces` by `Paging`, which needs the exact set of
  translations after every call, not only what the tables keep;
* `InitSucceeds`: with enough frames `init` does not give up.  It counts the
  frames that every call takes, where the proofs only bound where they come from;
* `ScreenShowsPicture`: what a call sends to the display is a sequence and the
  picture a fold over it, an induction over data;
* the summary of the search loop in `FindFree`, for the same reason.

## Not modelled

* the mode switches and feature checks of `boot.asm` and `boot.S`, straight-line
  processor setup; exceptions before `lidt`; bits of descriptors that nothing
  but the processor reads, other than type and present;
* `abort`, which nothing calls; the switch between processes, since none is ever
  made; `tss.rs` (commented out);
* of `GraphicalDisplay`: colours by name, `Color::Rgb` with its signed
  components (`graphic.rs:325`) and pixels of 24 bits, which nothing uses.  Of the x86_32 port: everything but its drawing; it is boot code of an
  older kernel, without the interfaces that `arch/mod.rs` requires;
* of the arm11 port: the table of addresses `addr.rs`, `select_chip` and
  `draw_dot`, which nothing calls; the word that `spi_transfer` reads before
  DONE, which no caller uses;
* unit conversion for messages (`bytes.rs`) and what messages say;
* the buddy allocator in place of the free set of `PagingInit`: the order in
  which it returns frames does not matter to the tables, and what it promises
  is `ImplementsFramePool`, until `free` is misled;
* the buddy allocator after it was misled with the buddy at an end of the other
  list, and two callers that each free a block both were given.

## Plan

Done: all components modelled and checked; the safety invariants of the buddy
allocator, page tables, paging initialization, heap, memory initialization,
interrupts, console, both displays and the arm11 timer proved (those of the
buddy allocator until `free` is misled), with the two exceptions listed above
(`InitSucceeds`, `ScreenShowsPicture`).

Left is the proof that `Paging` implements `AddressSpaces`.
