------------------------------- MODULE Paging -------------------------------
(***************************************************************************)
(* The kernel's page tables in use, src/src/memory/paging/table.rs: any    *)
(* sequence of calls of ActivePageTable and InActivePageTable, from the    *)
(* tables the boot code leaves, over a frame allocator that may run out.   *)
(* One action per call; `with` is its two halves, with the calls its       *)
(* closure makes in between.                                               *)
(*                                                                         *)
(* What callers are taken to respect, as the kernel does: a frame is       *)
(* mapped once, an allocated frame is not a table, only pages mapped with  *)
(* an allocated frame are unmapped, and no page inside the huge page of    *)
(* the boot tables or under a recursive entry is mapped.                   *)
(***************************************************************************)
EXTENDS PageTable

CONSTANTS
  Setups,      \* what the kernel may start with and be asked for, records of
               \*   managed  the frames the allocator starts with
               \*   pages    the pages callers ask for
               \*   block    the frames of a block a caller maps (32 for the heap)
  Device       \* frames outside the allocator that callers map (text VRAM)

ASSUME SetupAssumption ==
  \A s \in Setups :
    /\ s.managed \subseteq Frames /\ s.managed \cap (0 .. 3) = {}
    /\ Device \subseteq Frames \ (s.managed \cup 0 .. 3)
    /\ \A p \in s.pages : p \in Pages /\ p[1] # Half /\ \A k \in 1 .. 4 : p[k] # R
    /\ s.block \in Nat \ {0}

VARIABLES
  setup,       \* one of Setups, for good
  m,           \* the machine, see PageTable
  held,        \* allocated frames that callers have not mapped yet
  mapped,      \* the frames that callers mapped
  inactive,    \* the frames of the InActivePageTables
  ctx,         \* << >>, or <<table, page>> inside `with`
  ret          \* the last call, its arguments and its result

vars == <<setup, m, held, mapped, inactive, ctx, ret>>

Managed   == setup.managed
UserPages == setup.pages
BlockSize == setup.block

(***************************************************************************)
(* The record of a call.  A call that found no memory for a table or no    *)
(* place for a page, and one that stopped the kernel, leave no arguments.  *)
(***************************************************************************)
Ret(op, arg, res) == [op |-> op, arg |-> arg, res |-> res]
Some(p) == IF p = None THEN "None" ELSE "Ok"
Returned(n, op, arg, res) ==
  IF ~Running(n) THEN Ret("crash", << >>, "None")
  ELSE IF res \in {"None", "NoPageTable"} THEN Ret(op, << >>, "None")
  ELSE Ret(op, arg, res)

Init ==
  /\ setup \in Setups
  /\ m = BootMachine(Managed)
  /\ held = {}
  /\ mapped = {}
  /\ inactive = {}
  /\ ctx = << >>
  /\ ret = Ret("init", << >>, "Ok")

Active == m.cr3
Edited == IF ctx = << >> THEN Active ELSE ctx[1]
Roots  == {Active} \cup inactive

(* alloc_one, by a caller that is about to map the frame. *)
AllocOne ==
  /\ Running(m) /\ m.free # {} /\ held = {}
  /\ m' = TakeOne(m)
  /\ held' = {Taken(m)}
  /\ UNCHANGED <<setup, mapped, inactive, ctx, ret>>

MapPage(p, f) ==
  LET r == Map(m, p, f) IN
    /\ Running(m)
    /\ f \in (held \cup Device) \ mapped
    /\ m' = r.m
    /\ IF r.r = "Ok" THEN held' = held \ {f} /\ mapped' = mapped \cup {f}
                     ELSE UNCHANGED <<held, mapped>>
    /\ ret' = Returned(r.m, "map", Append(p, f), r.r)
    /\ UNCHANGED <<setup, inactive, ctx>>

UnmapPage(p) ==
  LET r == Unmap(m, p) IN
    /\ Running(m)
    /\ Walk(m.mem, Edited, p) \in (mapped \ Device) \cup {NoFrame}
    /\ m' = r.m
    /\ mapped' = IF r.r = "Ok" THEN mapped \ {Walk(m.mem, Edited, p)} ELSE mapped
    /\ ret' = Returned(r.m, "unmap", p, r.r)
    /\ UNCHANGED <<setup, held, inactive, ctx>>

(* HeapAllocator::new: a block of n frames, mapped where there is room.  If
   there is none, the block is dropped and never given back: `mapped` counts it
   as the caller's all the same. *)
Blocks(n) == {f \in m.free : f % n = 0 /\ f .. (f + n - 1) \subseteq m.free}

AutoMap(n) ==
  LET f     == Min(Blocks(n))
      block == f .. (f + n - 1)
      r     == AutoContinuousMap([m EXCEPT !.free = @ \ block], f, n)
  IN
    /\ Running(m) /\ Blocks(n) # {}
    /\ m' = r.m
    /\ mapped' = mapped \cup block
    /\ ret' = Returned(r.m, "auto_continuous_map", r.p \o <<f, n>>, Some(r.p))
    /\ UNCHANGED <<setup, held, inactive, ctx>>

New ==
  LET r == NewTable(m) IN
    /\ Running(m) /\ ctx = << >>
    /\ m' = r.m
    /\ inactive' = IF r.p = None \/ ~Running(r.m) THEN inactive ELSE inactive \cup {r.f}
    /\ ret' = Returned(r.m, "new", <<r.f>>, Some(r.p))
    /\ UNCHANGED <<setup, held, mapped, ctx>>

BeginWith(t) ==
  LET r == WithBegin(m, t) IN
    /\ Running(m) /\ ctx = << >> /\ t \in inactive
    /\ m' = r.m
    /\ ctx' = IF r.r = "Ok" THEN <<t, r.p>> ELSE << >>
    /\ ret' = Returned(r.m, "with", <<t>>,
                       IF r.r = "Ok" THEN "Ok" ELSE "None")
    /\ UNCHANGED <<setup, held, mapped, inactive>>

EndWith ==
  LET n == WithEnd(m, ctx[2], Active) IN
    /\ Running(m) /\ ctx # << >>
    /\ m' = n
    /\ ctx' = IF Running(n) THEN << >> ELSE ctx
    /\ ret' = Returned(n, "end", << >>, "Ok")
    /\ UNCHANGED <<setup, held, mapped, inactive>>

SwitchTo(t) ==
  /\ Running(m) /\ ctx = << >> /\ t \in inactive
  /\ m' = Switch(m, t)
  /\ inactive' = (inactive \ {t}) \cup {Active}
  /\ ret' = Ret("switch", <<Active>>, "Ok")
  /\ UNCHANGED <<setup, held, mapped, ctx>>

(* A caller uses a page that the active table maps.  It goes where the cached
   translation leads, if there is one, and is cached if not. *)
Use(p) ==
  /\ Running(m) /\ Walk(m.mem, Active, p) # NoFrame
  /\ m' = [m EXCEPT !.tlb = IF \E t \in @ : t[1] = p THEN @
                             ELSE @ \cup {<<p, Walk(m.mem, Active, p)>>}]
  /\ UNCHANGED <<setup, held, mapped, inactive, ctx, ret>>

Next ==
  \/ AllocOne
  \/ \E p \in UserPages :
       Use(p) \/ UnmapPage(p) \/ \E f \in held \cup Device : MapPage(p, f)
  \/ AutoMap(BlockSize)
  \/ New \/ EndWith
  \/ \E t \in inactive : BeginWith(t) \/ SwitchTo(t)

Spec == Init /\ [][Next]_vars

-------------------------------------------------------------------------------
(* The tables mean what callers were told: see AddressSpaces.  A fault ends
   the run, so the states after one are not compared. *)
FoundPages == {<<i, 1, 1, j>> : i, j \in Idx}
Spaces == INSTANCE AddressSpaces WITH
  Tables <- Frames, Frame <- Frames,
  Page   <- FoundPages \cup UNION {s.pages : s \in Setups},
  BlockSizes <- {s.block : s \in Setups},
  space  <- [t \in Roots |-> Space(m.mem, t)],
  active <- Active, edited <- Edited, ret <- ret
ImplementsAddressSpaces == Spaces!Spec

(***************************************************************************)
(* Every frame the allocator manages is in exactly one place: free, with a *)
(* caller, or a table reached by one path of one root.  No call of the     *)
(* tables loses a frame, not even one that fails half-way, and no table    *)
(* can be changed through another table.  (A block that HeapAllocator::new *)
(* drops counts as its caller's.)                                          *)
(***************************************************************************)
AllTables == UNION {{<<t, x>> : x \in TablePaths(m.mem, t)} : t \in Roots}

FramesAccounted ==
  LET tables  == {x[2][2] : x \in AllTables}
      callers == held \cup mapped
  IN Running(m) =>
      /\ \A x, y \in AllTables : x[2][2] = y[2][2] => x = y
      /\ Managed \cup Device \cup {1, 3} = m.free \cup callers \cup tables \cup Device
      /\ m.free \cap callers = {} /\ (m.free \cup callers) \cap tables = {}

(* The recursive entry of the active table leads to the table being edited,
   that of every other table to the table itself: `with` restores it
   however its closure ended. *)
RecursionRestored ==
  Running(m) =>
    \A t \in Roots : m.mem[t][R] = Entry(IF t = Active THEN Edited ELSE t)

(* Walking the tables through their own entries never faults, and never
   uses a translation that was cached before the tables changed. *)
TablesReachable == m.fault # "page_fault" /\ ~m.stale

(***************************************************************************)
(* The kernel stops only when it ran out of something: of frames, or of    *)
(* level 4 entries whose pages have canonical numbers.  An unwrap, a       *)
(* debug assertion or the panic of auto_continuous_map never fails while   *)
(* there are both.                                                         *)
(***************************************************************************)
StopsOnlyExhausted ==
  Running(m) \/ m.free = {} \/ \A i \in 1 .. (Half - 1) : m.mem[Active][i].p

(***************************************************************************)
(* A translation that the processor keeps goes out of date only by an      *)
(* unmap of that very page.  Mapping, making and editing tables, and       *)
(* switching to one, leave no cached translation behind that the tables    *)
(* deny: where they change one, they flush.                                *)
(***************************************************************************)
OutdatedBy(p) == ret'.op = "unmap" /\ ret'.arg = p
StaleOnlyByUnmap ==
  [][\A x \in m.tlb \cap m'.tlb :
       (/\ Walk(m.mem, m.cr3, x[1]) = x[2]
        /\ Walk(m'.mem, m'.cr3, x[1]) # x[2]) => OutdatedBy(x[1])]_vars
==============================================================================
