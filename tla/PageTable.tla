------------------------------ MODULE PageTable ------------------------------
(***************************************************************************)
(* Four-level page tables reached through their recursive entry,           *)
(* src/src/memory/paging/table.rs, entry.rs, page.rs and page_index.rs, as *)
(* operators on a machine state.                                           *)
(*                                                                         *)
(* A virtual page is the tuple of its four table indices, level 4 first,   *)
(* and a frame is its number.  The kernel never holds a physical pointer   *)
(* to a table: a `Table` reference is a virtual page, and every access to  *)
(* an entry is translated by the tables themselves (Walk).  An entry keeps *)
(* the bits the code branches on, PRESENT and HUGE_PAGE.  WRITABLE is left *)
(* out: the boot code leaves CR0.WP clear, so the kernel may write through *)
(* any present entry.                                                      *)
(*                                                                         *)
(* The operators take and return a machine `m`, a record with              *)
(*   mem     the entries of every frame, read as a page table              *)
(*   free    the frames alloc_one can return                               *)
(*   cr3     the frame of the active level 4 table                         *)
(*   tlb     the translations used since the last flush                    *)
(*   stale   an access met a cached translation that the tables deny       *)
(*   fault   "none", or why the processor or the kernel stopped            *)
(***************************************************************************)
EXTENDS Integers, Sequences, FiniteSets, FiniteSetsExt, SequencesExt

CONSTANTS
  E,         \* entries in a table (512 in the source)
  Frames     \* the physical frames, an interval from 0

ASSUME EntriesAssumption == E \in Nat /\ E >= 4 /\ E % 2 = 0
ASSUME FramesAssumption  == Frames \subseteq Nat /\ 0 .. 3 \subseteq Frames

Idx == 0 .. (E - 1)
R   == E - 1                    \* 511: the recursive entry
Half == E \div 2                \* 256: the first level 4 index of the kernel
TOP == <<R, R, R, R>>           \* LEVEL4_PAGE_TABLE
NoFrame == -1
None    == << >>

Pages == Idx \X Idx \X Idx \X Idx

Entry(f)     == [f |-> f, p |-> TRUE, h |-> FALSE]
HugeEntry(f) == [f |-> f, p |-> TRUE, h |-> TRUE]
Empty        == [f |-> 0, p |-> FALSE, h |-> FALSE]   \* clear_all
Blank        == [j \in Idx |-> Empty]

(* What a frame holds that nobody wrote yet: read as a table, it maps. *)
Junk == [j \in Idx |-> Entry(0)]

(* set_frame_addr: the flags stay, PRESENT is added. *)
SetFrame(e, f) == [e EXCEPT !.f = f, !.p = TRUE]

-------------------------------------------------------------------------------
(* The processor. *)

TableIn(mem, f) == IF f \in DOMAIN mem THEN mem[f] ELSE Blank

(* Below the entry e: the entry i of its table, or part i of its huge page,
   each part being n frames. *)
Under(mem, e, i, n) ==
  CASE e.p /\ ~e.h -> TableIn(mem, e.f)[i]
    [] e.p /\ e.h  -> [e EXCEPT !.f = @ + i * n]
    [] OTHER       -> e

(* The frame that the tables under `root` give the page va.  A huge page
   may stand in a level 3 table (E * E frames) or a level 2 one (E frames). *)
FrameOf(e) == IF e.p THEN e.f ELSE NoFrame
Walk(mem, root, va) ==
  FrameOf(Under(mem, Under(mem, Under(mem, TableIn(mem, root)[va[1]],
                                      va[2], E * E), va[3], E), va[4], 1))

Running(m)  == m.fault = "none"
Fault(m, w) == [m EXCEPT !.fault = w]
FlushAll(m) == [m EXCEPT !.tlb = {}]

(* An access to the page va, which the tables give the frame f. *)
Access(m, va, f) ==
  IF f = NoFrame THEN Fault(m, "page_fault")
  ELSE [m EXCEPT !.tlb = @ \cup {<<va, f>>},
                 !.stale = @ \/ \E t \in m.tlb : t[1] = va /\ t[2] # f]
Touch(m, va) == Access(m, va, Walk(m.mem, m.cr3, va))

(* The table that the reference va designates, and a store into it. *)
TableAt(m, va)      == TableIn(m.mem, Walk(m.mem, m.cr3, va))
Store(m, va, i, e)  == [m EXCEPT !.mem[Walk(m.mem, m.cr3, va)][i] = e]
StoreTable(m, va, t) == [m EXCEPT !.mem[Walk(m.mem, m.cr3, va)] = t]

(* A page whose number was put together from indices by find_empty_pages is
   not sign-extended: with the upper half's index it is not canonical. *)
TouchFound(m, p) ==
  IF p[1] < Half THEN Touch(m, p) ELSE Fault(m, "general_protection")

(* A table without translations but the recursive one to its frame f. *)
FreshTable(f) == [Blank EXCEPT ![R] = Entry(f)]

-------------------------------------------------------------------------------
(* Table<T>.  A reference, or None, comes back in `at`. *)

(* next_level_table_address: shift the address left by one index. *)
NextVA(va, i) == <<va[2], va[3], va[4], i>>

IsTable(e) == e.p /\ ~e.h

(* next_level_table_mut: a look at the entry i of the table va. *)
EntryTable(m, va, i) ==
  [m  |-> m,
   at |-> IF Running(m) /\ IsTable(TableAt(m, va)[i]) THEN NextVA(va, i) ELSE None]
NextLevel(m, va, i) == EntryTable(Touch(m, va), va, i)

(* alloc_one.  Which free frame comes is of no importance to the tables. *)
Taken(m)     == Min(m.free)
TakeOne(m)   == [m EXCEPT !.free = @ \ {Taken(m)}]

(***************************************************************************)
(* next_level_table_create_mut: the existing table, or a new one in a new  *)
(* frame, cleared through the translation just installed, with the         *)
(* recursive entry that every table gets.  Over a huge entry set_frame_addr*)
(* keeps HUGE_PAGE, the new table cannot be reached and the debug          *)
(* assertion fails.                                                        *)
(***************************************************************************)
ClearedNot(m, va, f) == [m |-> m, at |-> va]     \* mutant: not cleared
Cleared(m, va, f)    == [m |-> StoreTable(m, va, FreshTable(f)), at |-> va]

Installed(m, va, i, e) ==
  IF IsTable(e)
    THEN Cleared(Touch(Store(TakeOne(m), va, i, e), NextVA(va, i)), NextVA(va, i), e.f)
    ELSE [m |-> Fault(Store(TakeOne(m), va, i, e), "panic"), at |-> None]

CreateFor(n, va, i) ==
  IF n.at # None \/ ~Running(n.m) \/ n.m.free = {} THEN n
  ELSE Installed(n.m, va, i, SetFrame(TableAt(n.m, va)[i], Taken(n.m)))

CreateMut(m, va, i) == CreateFor(NextLevel(m, va, i), va, i)

(* One more level of a chain of and_then: with next_level_table_create_mut
   in map, with next_level_table_mut in unmap. *)
AndThen(r, create, i) ==
  IF r.at = None \/ ~Running(r.m) THEN r
  ELSE IF create THEN CreateMut(r.m, r.at, i) ELSE NextLevel(r.m, r.at, i)

(* The level 1 table for the page p. *)
Level1(m, p, create) ==
  AndThen(AndThen(AndThen([m |-> m, at |-> TOP], create, p[1]), create, p[2]),
          create, p[3])

FreeEntriesWithNull(t) == {i \in Idx : ~t[i].p}   \* mutant: from index 0
FreeEntries(t) == {i \in Idx \ {0} : ~t[i].p}

(***************************************************************************)
(* find_free_entry_index_with: the scan ends at the first run of n free    *)
(* entries, and returns the first free entry it met, in that run or not.   *)
(***************************************************************************)
FindFreeWith(t, n) ==
  IF \E i \in FreeEntries(t) : i .. (i + n - 1) \subseteq FreeEntries(t)
    THEN Min(FreeEntries(t)) ELSE NoFrame

-------------------------------------------------------------------------------
(* ActivePageTable.  The result of a call comes back in `r`. *)

Result(m, r) == [m |-> m, r |-> IF Running(m) THEN r ELSE "fault"]

(* map, given the level 1 table. *)
MapEntry(t, i, f) ==
  IF t.at = None \/ ~Running(t.m) THEN Result(t.m, "NoPageTable")
  ELSE IF TableAt(t.m, t.at)[i].p THEN Result(Touch(t.m, t.at), "AlreadyMapped")
  ELSE Result(Store(Touch(t.m, t.at), t.at, i, SetFrame(TableAt(t.m, t.at)[i], f)),
              "Ok")
Map(m, p, f) == MapEntry(Level1(m, p, TRUE), p[4], f)

(* mutant: the frame is not given back *)
ReleaseNot(m, va, i) == Store(m, va, i, Empty)

(* unmap: the frame goes back to the allocator and the entry is cleared.
   The cached translation of the page stays. *)
Release(m, va, i) ==
  [Store(m, va, i, Empty) EXCEPT !.free = @ \cup {TableAt(m, va)[i].f}]

UnmapEntry(t, i) ==
  IF t.at = None \/ ~Running(t.m) THEN Result(t.m, "NoEntry")
  ELSE IF TableAt(t.m, t.at)[i].p
    THEN Result(Release(Touch(t.m, t.at), t.at, i), "Ok")
  ELSE Result(Touch(t.m, t.at), "NoEntry")
Unmap(m, p) == UnmapEntry(Level1(m, p, FALSE), p[4])

(* One level of find_empty_pages: descend into the first free entry i. *)
Descended(c, p) == [m |-> c.m, at |-> c.at, p |-> p]
FindIn(m, r, i) ==
  IF ~Running(m) \/ i = NoFrame THEN [m |-> m, at |-> None, p |-> r.p]
  ELSE Descended(CreateMut(m, r.at, i), Append(r.p, i))
FindStep(r) ==
  IF r.at = None \/ ~Running(r.m) THEN r
  ELSE FindIn(Touch(r.m, r.at), r, FindFreeWith(TableAt(r.m, r.at), 1))

(* find_empty_pages: the page comes back in `p`, None without one. *)
LastIndex(r, i) ==
  [m |-> Touch(r.m, r.at), p |-> IF i = NoFrame THEN None ELSE Append(r.p, i)]
FindLast(r, n) ==
  IF r.at = None \/ ~Running(r.m) THEN [m |-> r.m, p |-> None]
  ELSE LastIndex(r, FindFreeWith(TableAt(r.m, r.at), n))
FindEmptyPages(m, n) ==
  FindLast(FindStep(FindStep(FindStep([m |-> m, at |-> TOP, p |-> << >>]))), n)

(* Page::from_address(page.address() + k * SIZE), within one level 1 table
   as find_empty_pages gives it. *)
PageAfter(p, k) == [p EXCEPT ![4] = @ + k]

(* auto_continuous_map of the n frames from f: the pages start at `p`. *)
MustMap(m, r) ==
  IF ~Running(m) THEN m ELSE IF r.r = "Ok" THEN r.m ELSE Fault(r.m, "panic")
MapNth(m, p, f, k) == MustMap(m, Map(m, PageAfter(p, k), f + k))
MapRun(m, p, f, n) ==
  LET run[k \in 0 .. n] == IF k = 0 THEN m ELSE MapNth(run[k - 1], p, f, k - 1)
  IN run[n]
MapFrom(found, f, n) ==
  IF found.p = None \/ ~Running(found.m) THEN found
  ELSE [m |-> MapRun(found.m, found.p, f, n), p |-> found.p]
AutoContinuousMap(m, f, n) == MapFrom(FindEmptyPages(m, n), f, n)

(* Map at a page that find_empty_page chooses. *)
At(p, r) == [m |-> r.m, p |-> p, r |-> r.r]
MapAt(found, f) ==
  IF found.p = None \/ ~Running(found.m)
    THEN [m |-> found.m, p |-> None, r |-> "NoEntry"]
  ELSE At(found.p, Map(found.m, found.p, f))
MapFound(m, f) == MapAt(FindEmptyPages(m, 1), f)

(***************************************************************************)
(* InActivePageTable::new.  The new table is cleared through a page that   *)
(* stays mapped.  Without a frame for that page the unwrap panics.         *)
(***************************************************************************)
ClearNew(m, p, f) ==
  [m |-> IF Running(m) THEN StoreTable(m, p, FreshTable(f)) ELSE m,
   p |-> p, f |-> f]
NewAt(t, f) ==
  IF t.r = "Ok" THEN ClearNew(TouchFound(t.m, t.p), t.p, f)
  ELSE [m |-> IF Running(t.m) THEN Fault(t.m, "panic") ELSE t.m,
        p |-> None, f |-> f]
NewTable(m) ==
  IF m.free = {} THEN [m |-> m, p |-> None, f |-> NoFrame]
  ELSE NewAt(MapFound(TakeOne(m), Taken(m)), Taken(m))

(* mutant: the recursive entry stays *)
OverrideNot(m, target) == FlushAll(Touch(m, TOP))

(* mutant: the TLB is not flushed *)
RedirectUnflushed(m, va, f) == Store(m, va, R, SetFrame(TableAt(m, va)[R], f))

(* set_frame_addr of the recursive entry of the table at va, and a flush. *)
Redirect(m, va, f) == FlushAll(Store(m, va, R, SetFrame(TableAt(m, va)[R], f)))

(***************************************************************************)
(* with, up to the call of its closure: the active table is mapped at a    *)
(* found page, from where its recursive entry is restored later, and that  *)
(* entry is made to point to the inactive table.  The entry is written     *)
(* through itself: the three stores that change it are one step, which     *)
(* needs the processor to keep the translation of TOP until the last.      *)
(***************************************************************************)
Override(m, target) == Redirect(Touch(m, TOP), TOP, target)

Overridden(t, target) ==
  [t EXCEPT !.m = IF t.r = "Ok" THEN Override(t.m, target) ELSE t.m]
WithBegin(m, target) == Overridden(MapFound(m, m.cr3), target)

(* mutant: the recursive entry is restored through itself *)
WithEndThroughTop(m, p, original) == Redirect(Touch(m, TOP), TOP, original)

(* with, after its closure: `original_table[511]` through the page p. *)
Restored(m, p, original) == IF Running(m) THEN Redirect(m, p, original) ELSE m
WithEnd(m, p, original)  == Restored(TouchFound(m, p), p, original)

(* switch: a write of CR3 flushes. *)
Switch(m, target) == FlushAll([m EXCEPT !.cr3 = target])

-------------------------------------------------------------------------------
(* boot.asm: the level 4 table in frame 1, the level 3 table of the kernel
   in frame 3 with a 1GB page, the entry for the load address cleared. *)
BootTables(free) ==
  [f \in Frames |->
     CASE f = 1 -> [Blank EXCEPT ![Half] = Entry(3), ![R] = Entry(1)]
       [] f \in {2, 3} -> [Blank EXCEPT ![0] = HugeEntry(0)]
       [] f \in free -> Junk
       [] OTHER -> Blank]

BootMachine(free) ==
  [mem |-> BootTables(free), free |-> free, cr3 |-> 1, tlb |-> {},
   stale |-> FALSE, fault |-> "none"]

-------------------------------------------------------------------------------
(***************************************************************************)
(* What the tables under `root` mean: the pairs of a page and its frame.   *)
(* The recursive entry of level 4 and the self entry that lower tables     *)
(* have in the same place are not translations anybody asked for.  A huge  *)
(* page is given by the indices that lead to it.                           *)
(***************************************************************************)
Below(mem, t) ==
  LET present == {i \in Idx : TableIn(mem, t)[i].p
                              /\ ~(i = R /\ TableIn(mem, t)[i].f = t)}
  IN {<<i, TableIn(mem, t)[i]>> : i \in present}

(* The paths of 1, 2, 3 or 4 indices from the root, with the entry there. *)
Paths1(mem, root) ==
  {<<<<x[1]>>, x[2]>> : x \in {y \in Below(mem, root) : y[1] # R}}
Longer(mem, paths) ==
  UNION {{<<Append(x[1], y[1]), y[2]>> : y \in Below(mem, x[2].f)} :
         x \in {z \in paths : ~z[2].h}}

Space(mem, root) ==
  LET l2 == Longer(mem, Paths1(mem, root))
      l1 == Longer(mem, l2)
      huge == {x \in l2 \cup l1 : x[2].h}
  IN {<<x[1], x[2].f>> : x \in huge \cup Longer(mem, l1)}

(* The paths to the tables under `root`, with the frame each is in. *)
TablePaths(mem, root) ==
  LET l3 == Paths1(mem, root)
      l2 == Longer(mem, l3)
      l1 == Longer(mem, l2)
  IN {<<<< >>, root>>} \cup
     {<<x[1], x[2].f>> : x \in {y \in l3 \cup l2 \cup l1 : ~y[2].h}}
==============================================================================
