------------------------------ MODULE MemoryInit ------------------------------
(***************************************************************************)
(* clean_bss_section and memory::init up to the buddy allocator            *)
(* (src/src/memory.rs), with the EarlyAllocator that it cuts the frame     *)
(* array from (early_allocator.rs), the memory map (region.rs) and         *)
(* align_up (address/alignment.rs).                                        *)
(*                                                                         *)
(* The free memory behind the kernel has to hold an array of one Frame for *)
(* every frame that is left after the array.  Addresses are physical: the  *)
(* code computes with virtual ones, which differ by a multiple of the      *)
(* frame size.  Every call of the EarlyAllocator is a step; a subtraction  *)
(* below zero and a failed debug assertion panic.                          *)
(***************************************************************************)
EXTENDS Integers, Sequences

CONSTANTS
  SIZE,           \* frame::SIZE (4096)
  StructSize,     \* mem::size_of::<Frame>() (40)
  StructAlign,    \* mem::align_of::<Frame>() (8)
  KernelBegin,    \* kernel_addr_begin_physical
  BssSize,        \* kernel_bss_section_size()
  KernelEnds,     \* where the image may end
  MemoryMaps      \* the memory maps: sequences of [base, size]

ASSUME SizeAssumption ==
  /\ SIZE \in Nat \ {0} /\ StructSize \in Nat \ {0} /\ StructAlign \in Nat \ {0}
  /\ StructSize <= SIZE /\ SIZE % StructAlign = 0 /\ StructSize % StructAlign = 0

(* The statics are inside the image, and the boot loader put the image where
   the first region that memory::init takes begins, or further up in it. *)
ASSUME ImageAssumption ==
  /\ KernelBegin \in Nat /\ BssSize \in Nat /\ KernelEnds \subseteq Nat
  /\ \A e \in KernelEnds : KernelBegin + BssSize <= e
ASSUME MapAssumption ==
  \A map \in MemoryMaps :
    /\ map \in Seq([base : Nat, size : Nat])
    /\ \A k \in DOMAIN map :
         KernelBegin <= map[k].base /\ (\A j \in 1 .. (k - 1) : map[j].base < KernelBegin) =>
           \A e \in KernelEnds : map[k].base <= e

VARIABLES
  bss,            \* the bytes of the .bss section, by address: the statics
  regions,        \* the memory map
  kernel_end,     \* CURRENT_KERNEL_ADDR_PHYSICAL_END
  addr_begin, addr_end,   \* the EarlyAllocator
  frames,         \* where the frame array is
  count_frames,
  pc

vars == <<bss, regions, kernel_end, addr_begin, addr_end, frames, count_frames, pc>>

align_up(a, n) == ((a + n - 1) \div n) * n

(* The statics are taken to be the last of the image; the boot loader clears
   them, as ELF has it. *)
Init ==
  /\ regions \in MemoryMaps
  /\ kernel_end \in KernelEnds
  /\ bss = [a \in (kernel_end - BssSize) .. (kernel_end - 1) |-> 0]
  /\ addr_begin = 0 /\ addr_end = 0 /\ frames = 0 /\ count_frames = 0
  /\ pc = "bss"

(* A store of the byte c to every address of a set. *)
Stored(mem, to, c) == [a \in DOMAIN mem |-> IF a \in to THEN c % 256 ELSE mem[a]]

(* rlibc::memset of n bytes from the begin of .bss *)
memset(c, n) ==
  Stored(bss, (kernel_end - BssSize) .. (kernel_end - BssSize + n - 1), c)

(* clean_bss_section: the size is passed as the value, 0 as the length. *)
CleanBss ==
  /\ pc = "bss"
  /\ bss' = memset(BssSize, 0)
  /\ pc' = "region"
  /\ UNCHANGED <<regions, kernel_end, addr_begin, addr_end, frames, count_frames>>

(* The first region that begins at the kernel or behind it. *)
Usable(r) == KernelBegin <= r.base
FirstUsable(k) == Usable(regions[k]) /\ \A j \in 1 .. (k - 1) : ~Usable(regions[j])

NewEarlyAllocator ==
  /\ pc = "region"
  /\ \/ /\ \A k \in DOMAIN regions : ~Usable(regions[k])
        /\ pc' = "err" /\ UNCHANGED <<addr_begin, addr_end>>
     \/ \E k \in DOMAIN regions :
          /\ FirstUsable(k)
          /\ addr_begin' = kernel_end
          /\ addr_end' = regions[k].base + regions[k].size
          /\ pc' = IF addr_begin' < addr_end' THEN "align" ELSE "panic"
  /\ UNCHANGED <<bss, regions, kernel_end, frames, count_frames>>

(* mutant: aligned down *)
AlignArrayDown ==
  /\ pc = "align"
  /\ addr_begin' = (addr_begin \div SIZE) * SIZE
  /\ pc' = "count"
  /\ UNCHANGED <<bss, regions, kernel_end, addr_end, frames, count_frames>>

AlignArray ==
  /\ pc = "align"
  /\ addr_begin' = align_up(addr_begin, SIZE)
  /\ pc' = "count"
  /\ UNCHANGED <<bss, regions, kernel_end, addr_end, frames, count_frames>>

Capacity == addr_end - addr_begin

(* mutant: the array is not subtracted from the capacity *)
CountWithoutArray(capacity) == capacity \div SIZE

(* As many frames as fit once the array for all of them is cut off. *)
Count(capacity) == (capacity - (capacity \div SIZE) * StructSize) \div SIZE

(* mutant: the capacity wraps below zero *)
CountFramesUnchecked ==
  /\ pc = "count"
  /\ count_frames' = Count(Capacity)
  /\ pc' = "allocate"
  /\ UNCHANGED <<bss, regions, kernel_end, addr_begin, addr_end, frames>>

CountFrames ==
  /\ pc = "count"
  /\ IF Capacity < 0
       THEN pc' = "panic" /\ UNCHANGED count_frames
       ELSE count_frames' = Count(Capacity) /\ pc' = "allocate"
  /\ UNCHANGED <<bss, regions, kernel_end, addr_begin, addr_end, frames>>

Allocate ==
  /\ pc = "allocate"
  /\ frames' = align_up(addr_begin, StructAlign)
  /\ addr_begin' = frames' + StructSize * count_frames
  /\ pc' = "align_frames"
  /\ UNCHANGED <<bss, regions, kernel_end, addr_end, count_frames>>

(* mutant: the frames begin where the array ends *)
AlignFramesNot ==
  /\ pc = "align_frames"
  /\ pc' = "check"
  /\ UNCHANGED <<bss, regions, kernel_end, addr_begin, addr_end, frames, count_frames>>

AlignFrames ==
  /\ pc = "align_frames"
  /\ addr_begin' = align_up(addr_begin, SIZE)
  /\ pc' = "check"
  /\ UNCHANGED <<bss, regions, kernel_end, addr_end, frames, count_frames>>

CheckFrames ==
  /\ pc = "check"
  /\ pc' = IF Capacity >= 0 /\ count_frames <= Capacity \div SIZE
             THEN "update" ELSE "assert_failed"
  /\ UNCHANGED <<bss, regions, kernel_end, addr_begin, addr_end, frames, count_frames>>

(* The frame array becomes part of the kernel, and every element of it gets
   its number, base + i. *)
UpdateKernelEnd ==
  /\ pc = "update"
  /\ kernel_end' = addr_begin
  /\ bss' = Stored(bss, frames .. (frames + StructSize * count_frames - 1), 1)
  /\ pc' = "done"
  /\ UNCHANGED <<regions, addr_begin, addr_end, frames, count_frames>>

Halt == pc \in {"done", "err", "panic", "assert_failed"} /\ UNCHANGED vars

Next ==
  \/ CleanBss \/ NewEarlyAllocator \/ AlignArray \/ CountFrames \/ Allocate \/ AlignFrames
  \/ CheckFrames \/ UpdateKernelEnd \/ Halt

Spec == Init /\ [][Next]_vars

-------------------------------------------------------------------------------
(* The values the variables range over. *)
TypeOK ==
  /\ kernel_end \in Nat /\ addr_begin \in Nat /\ addr_end \in Nat
  /\ frames \in Nat /\ count_frames \in Nat

(* The kernel's statics are zero from the start and memory::init writes its
   array beside them: clean_bss_section, which clears nothing, and the
   placement of the array never spoil what the boot loader set up. *)
StaticsStayZero == \A a \in DOMAIN bss : bss[a] = 0

(***************************************************************************)
(* The frames that the buddy allocator gets are whole and aligned, lie     *)
(* behind the kernel's new end and in the region, and the frame array lies *)
(* behind the image and before the frames.                                 *)
(***************************************************************************)
InFreeRegion(a, b) ==
  \E k \in DOMAIN regions :
    regions[k].base <= a /\ b <= regions[k].base + regions[k].size

FramesUsable ==
  pc = "done" =>
    /\ kernel_end % SIZE = 0
    /\ frames + StructSize * count_frames <= kernel_end
    /\ InFreeRegion(frames, kernel_end + count_frames * SIZE)

(* debug_assert!(count_frames <= (allocator.capacity() / frame::SIZE)), on a
   memory map whose regions end at a multiple of the frame size. *)
AllAligned == \A k \in DOMAIN regions :
                (regions[k].base + regions[k].size) % SIZE = 0
AssertHoldsAligned == AllAligned => pc # "assert_failed"
==============================================================================
