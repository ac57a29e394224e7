----------------------------- MODULE PagingProofs -----------------------------
(***************************************************************************)
(* The page tables, for tables of any size, any frames and any sequence of *)
(* calls.                                                                  *)
(*                                                                         *)
(* The invariant gives every table its level.  It is local: an entry of a  *)
(* table leads to a table one level below, no two entries to the same, and *)
(* every table but the roots has such an entry; that a frame is reached by *)
(* one path of one root follows.  The recursive entries make a reference   *)
(* (`RefAt`) lead to the table it stands for (`RefFacts`), so that every   *)
(* store goes where the code means it to go.  All but `unmap` only add     *)
(* (`Grown`): what was present stays as it was.                            *)
(*                                                                         *)
(* paging::init comes last.  Its invariant (`InitInv`) says at every line  *)
(* which tables there are and what they must still map, and takes what     *)
(* each call does from the lemmas above it.                                *)
(***************************************************************************)
EXTENDS Paging, PagingInit, SequenceTheorems, FiniteSetTheorems, WellFoundedInduction, TLAPS

Low  == Idx \ {R}          \* the indices that are not recursive
Ents == [f : Nat, p : BOOLEAN, h : BOOLEAN]
Machines ==
  [mem : [Frames -> [Idx -> Ents]], free : SUBSET Frames, cr3 : Frames,
   tlb : SUBSET (Pages \X Nat), stale : BOOLEAN,
   fault : {"none", "panic", "general_protection", "page_fault"}]

(* The entry i of the table t leads to the table s. *)
Edge(mem, t, i, s) == i \in Low /\ IsTable(mem[t][i]) /\ mem[t][i].f = s

Levels(S, lv, roots) ==
  /\ S \subseteq Frames /\ lv \in [S -> 1 .. 4]
  /\ roots \subseteq S
  /\ \A s \in S : lv[s] = 4 <=> s \in roots

(* The boot code's level 3 table has no recursive entry and holds the 1GB page. *)
BootPart(mem, S, roots) ==
  /\ 1 \in roots /\ 3 \in S \ roots
  /\ mem[1][Half] = Entry(3)
  /\ mem[3] = [Blank EXCEPT ![0] = HugeEntry(0)]

(* The recursive entry of the active table a leads to the edited one, ed. *)
Selves(mem, S, a, ed) ==
  \A s \in S \ {3} :
    /\ mem[s][R] = Entry(IF s = a THEN ed ELSE s)
    /\ \A i \in Idx : ~mem[s][i].h

Children(mem, S, lv) ==
  \A s \in S : \A i, t : lv[s] > 1 /\ Edge(mem, s, i, t) => t \in S /\ lv[t] = lv[s] - 1

OneParent(mem, S, lv) ==
  \A s, t \in S : \A i, j, x :
    (lv[s] > 1 /\ lv[t] > 1 /\ Edge(mem, s, i, x) /\ Edge(mem, t, j, x)) => s = t /\ i = j

Parents(mem, S, lv) ==
  \A s \in S : lv[s] < 4 =>
    \E t \in S, i \in Low : lv[t] = lv[s] + 1 /\ Edge(mem, t, i, s)

Tree(mem, S, lv, roots, a, ed) ==
  /\ Levels(S, lv, roots) /\ a \in roots /\ ed \in roots
  /\ BootPart(mem, S, roots) /\ Selves(mem, S, a, ed)
  /\ Children(mem, S, lv) /\ OneParent(mem, S, lv) /\ Parents(mem, S, lv)

(* The reference va stands for the table t of level l of the edited root. *)
Ref3(mem, ed, va, t) == \E i : va = <<R, R, R, i>> /\ Edge(mem, ed, i, t)
Ref2(mem, ed, va, t) ==
  \E i, j : \E s \in Frames :
    va = <<R, R, i, j>> /\ Edge(mem, ed, i, s) /\ Edge(mem, s, j, t)
Ref1(mem, ed, va, t) ==
  \E i, j, k : \E s, u \in Frames :
    va = <<R, i, j, k>> /\ Edge(mem, ed, i, s) /\ Edge(mem, s, j, u) /\ Edge(mem, u, k, t)
RefAt(mem, ed, l, va, t) ==
  \/ l = 4 /\ va = TOP /\ t = ed
  \/ l = 3 /\ Ref3(mem, ed, va, t)
  \/ l = 2 /\ Ref2(mem, ed, va, t)
  \/ l = 1 /\ Ref1(mem, ed, va, t)

Plain(p) == p \in Pages /\ p[1] # Half /\ \A k \in 1 .. 4 : p[k] \in Low

(* The processor holds no translation of a reference that the tables deny, and
   none of a page whose level 4 entry is not present. *)
TlbOk(n, ed) ==
  \A x \in n.tlb :
    \/ x[1][1] = R /\ \E l \in 1 .. 4 : RefAt(n.mem, ed, l, x[1], x[2])
    \/ Plain(x[1]) /\ n.mem[n.cr3][x[1][1]].p

(* U are the frames that are free or tables. *)
Good(n, U, roots, ed) ==
  /\ n \in Machines /\ Running(n) /\ ~n.stale
  /\ n.free \subseteq U
  /\ \E lv : Tree(n.mem, U \ n.free, lv, roots, n.cr3, ed)
  /\ TlbOk(n, ed)

(* The indices lead from the root r to the level 1 table u. *)
Path(mem, r, i, j, k, u) ==
  \E s, t \in Frames : Edge(mem, r, i, s) /\ Edge(mem, s, j, t) /\ Edge(mem, t, k, u)

(* The page p leads to the frame f under the root r. *)
Chain(mem, r, p, f) ==
  /\ p \in Pages
  /\ \E u \in Frames : Path(mem, r, p[1], p[2], p[3], u) /\ Edge(mem, u, p[4], f)

Crowded(mem, a) == \A i \in 1 .. (Half - 1) : mem[a][i].p

Callers == held \cup mapped
Owned   == (Managed \cup {1, 3}) \ Callers

CtxInv ==
  /\ Active \notin inactive
  /\ ctx # << >> =>
       /\ ctx[1] \in inactive
       /\ Chain(m.mem, Active, ctx[2], Active)
       /\ ctx[2][1] < Half \/ Crowded(m.mem, Active)
       /\ \A x \in m.tlb : x[1] = ctx[2] => x[2] = Active

Base ==
  /\ setup \in Setups
  /\ held \subseteq Managed /\ mapped \subseteq Managed \cup Device /\ held \cap mapped = {}

IInv ==
  /\ Base /\ TablesReachable /\ StopsOnlyExhausted
  /\ Running(m) => Good(m, Owned, Roots, Edited) /\ CtxInv /\ m.free \cap Callers = {}

-------------------------------------------------------------------------------
(* Numbers and entries. *)
LEMMA LeastNat ==
  ASSUME NEW T \in SUBSET Nat, T # {}
  PROVE  \E x \in T : \A y \in T : x <= y
<1>1. IsWellFoundedOn(OpToRel(<, Nat), Nat)
  BY NatLessThanWellFounded
<1>2. PICK x \in T : \A y \in T : ~(<<y, x>> \in OpToRel(<, Nat))
  BY <1>1, WFMin
<1>3. \A y \in T : ~(y < x)
  BY <1>2 DEF OpToRel
<1> QED BY <1>3

LEMMA MinFacts ==
  ASSUME NEW T \in SUBSET Nat, T # {}
  PROVE  Min(T) \in T /\ \A y \in T : Min(T) <= y
<1>1. \E x \in T : \A y \in T : x <= y
  BY LeastNat
<1> QED BY <1>1 DEF Min

LEMMA Indices ==
  /\ E \in Nat /\ R \in Idx /\ R = E - 1 /\ Half \in Low /\ Half \in Nat /\ Half > 1
  /\ 0 \in Low /\ 1 \in Low /\ 2 \in Low /\ Low \subseteq Idx /\ R \notin Low
  /\ Low = 0 .. (E - 2) /\ Idx \subseteq Nat
<1>1. E \in Nat /\ E >= 4
  BY EntriesAssumption
<1>2. E \div 2 \in Nat /\ E \div 2 > 1 /\ E \div 2 < E - 1
  BY <1>1
<1> QED BY <1>1, <1>2 DEF Idx, R, Half, Low

LEMMA Frame03 == Frames \subseteq Nat /\ 1 \in Frames /\ 3 \in Frames
  BY FramesAssumption

LEMMA EntryFacts ==
  /\ \A f \in Nat : Entry(f) \in Ents /\ Entry(f).f = f /\ Entry(f).p /\ ~Entry(f).h
                    /\ IsTable(Entry(f)) /\ HugeEntry(f) \in Ents
  /\ Empty \in Ents /\ ~Empty.p /\ ~Empty.h /\ ~IsTable(Empty)
  /\ \A f, g \in Nat : Entry(f) = Entry(g) => f = g
  BY DEF Entry, HugeEntry, Empty, Ents, IsTable

(* An entry that is neither present nor huge, with a frame set. *)
LEMMA SetFrameFacts ==
  ASSUME NEW e \in Ents, NEW f \in Nat
  PROVE  /\ SetFrame(e, f) \in Ents /\ SetFrame(e, f).f = f
         /\ ~e.h => SetFrame(e, f) = Entry(f)
<1>1. e.h \in BOOLEAN
  BY DEF Ents
<1>2. SetFrame(e, f) = [f |-> f, p |-> TRUE, h |-> e.h]
  <2> DEFINE g == [e EXCEPT !.f = f]
  <2>1. g = [f |-> f, p |-> e.p, h |-> e.h]
    BY DEF Ents
  <2>2. SetFrame(e, f) = [g EXCEPT !.p = TRUE]
    BY Zenon DEF SetFrame
  <2> HIDE DEF g
  <2> QED BY <2>1, <2>2
<1>3. SetFrame(e, f) \in Ents /\ SetFrame(e, f).f = f
  BY <1>1, <1>2 DEF Ents
<1>4. ASSUME ~e.h PROVE SetFrame(e, f) = Entry(f)
  <2>1. e.h = FALSE
    BY <1>1, <1>4
  <2> QED BY <1>2, <2>1 DEF Entry
<1> QED BY <1>3, <1>4

LEMMA FreshFacts ==
  ASSUME NEW f \in Nat
  PROVE  /\ FreshTable(f) \in [Idx -> Ents] /\ FreshTable(f)[R] = Entry(f)
         /\ \A i \in Low : FreshTable(f)[i] = Empty
<1>1. Blank \in [Idx -> Ents] /\ \A i \in Idx : Blank[i] = Empty
  BY EntryFacts DEF Blank
<1> QED BY <1>1, Indices, EntryFacts DEF FreshTable

-------------------------------------------------------------------------------
(* The processor's walk, over entries that lead to tables. *)
LEMMA WalkTables ==
  ASSUME NEW mem \in [Frames -> [Idx -> Ents]], NEW r \in Frames, NEW va \in Pages,
         NEW s \in Frames, NEW t \in Frames, NEW u \in Frames,
         IsTable(mem[r][va[1]]), mem[r][va[1]].f = s,
         IsTable(mem[s][va[2]]), mem[s][va[2]].f = t,
         IsTable(mem[t][va[3]]), mem[t][va[3]].f = u
  PROVE  Walk(mem, r, va) = FrameOf(mem[u][va[4]])
<1>1. \A x \in Frames : TableIn(mem, x) = mem[x]
  BY DEF TableIn
<1>2. ASSUME NEW e, IsTable(e), NEW i, NEW k PROVE Under(mem, e, i, k) = TableIn(mem, e.f)[i]
  BY <1>2 DEF Under, IsTable
<1>3. Under(mem, mem[r][va[1]], va[2], E * E) = mem[s][va[2]]
  BY <1>1, <1>2
<1>4. Under(mem, mem[s][va[2]], va[3], E) = mem[t][va[3]]
  BY <1>1, <1>2
<1>5. Under(mem, mem[t][va[3]], va[4], 1) = mem[u][va[4]]
  BY <1>1, <1>2
<1> QED BY <1>1, <1>3, <1>4, <1>5 DEF Walk
Mems == [Frames -> [Idx -> Ents]]

(***************************************************************************)
(* What a tree of tables says of one table, or of one entry.               *)
(***************************************************************************)
LEMMA TreeFacts ==
  ASSUME NEW mem, NEW S, NEW lv, NEW roots, NEW a, NEW ed, Tree(mem, S, lv, roots, a, ed)
  PROVE  /\ S \subseteq Frames /\ S \subseteq Nat /\ roots \subseteq S /\ a \in roots /\ ed \in roots
         /\ a \in S /\ ed \in S /\ 3 \in S /\ 3 \notin roots /\ 1 \in roots /\ 1 \in S
         /\ lv[ed] = 4 /\ lv[a] = 4
         /\ mem[a][R] = Entry(ed) /\ mem[ed][R] = Entry(ed)
         /\ \A s \in S : lv[s] \in 1 .. 4 /\ (lv[s] = 4 <=> s \in roots)
<1>1. /\ S \subseteq Frames /\ roots \subseteq S /\ a \in roots /\ ed \in roots
      /\ 3 \in S /\ 3 \notin roots /\ 1 \in roots
      /\ \A s \in S : lv[s] \in 1 .. 4 /\ (lv[s] = 4 <=> s \in roots)
  BY DEF Tree, Levels, BootPart
<1>2. mem[a][R] = Entry(ed) /\ mem[ed][R] = Entry(ed)
  BY <1>1 DEF Tree, Selves
<1> QED BY <1>1, <1>2, Frame03

(* The children of a table, level by level. *)
LEMMA Down ==
  ASSUME NEW mem, NEW S, NEW lv, NEW roots, NEW a, NEW ed, Tree(mem, S, lv, roots, a, ed),
         NEW s \in S, NEW i, NEW t, Edge(mem, s, i, t)
  PROVE  /\ lv[s] = 4 => t \in S /\ lv[t] = 3
         /\ lv[s] = 3 => t \in S /\ lv[t] = 2
         /\ lv[s] = 2 => t \in S /\ lv[t] = 1
<1>1. lv[s] > 1 => t \in S /\ lv[t] = lv[s] - 1
  BY Zenon DEF Tree, Children
<1> QED BY <1>1

LEMMA EdgeFacts ==
  ASSUME NEW mem, NEW s, NEW i, NEW t, Edge(mem, s, i, t)
  PROVE  i \in Low /\ i \in Idx /\ IsTable(mem[s][i]) /\ mem[s][i].f = t /\ FrameOf(mem[s][i]) = t
         /\ mem[s][i].p /\ ~mem[s][i].h
  BY Indices DEF Edge, FrameOf, IsTable

LEMMA EdgeUnique ==
  ASSUME NEW mem, NEW s, NEW i, NEW t, NEW u, Edge(mem, s, i, t), Edge(mem, s, i, u)
  PROVE  t = u
  BY DEF Edge

(* The boot tables' level 3 table hangs in one place. *)
LEMMA BootTable ==
  ASSUME NEW mem, NEW S, NEW lv, NEW roots, NEW a, NEW ed, Tree(mem, S, lv, roots, a, ed)
  PROVE  /\ Edge(mem, 1, Half, 3) /\ lv[3] = 3 /\ lv[1] = 4
         /\ \A s \in S : \A i : lv[s] > 1 /\ Edge(mem, s, i, 3) => s = 1 /\ i = Half
         /\ mem[3][0] = HugeEntry(0) /\ \A i \in Idx \ {0} : mem[3][i] = Empty
<1>1. Edge(mem, 1, Half, 3)
  BY EntryFacts, Indices DEF Tree, BootPart, Edge
<1>2. 1 \in S /\ lv[1] = 4 /\ 3 \in S
  BY TreeFacts
<1>3. lv[3] = 3
  BY <1>1, <1>2, Down
<1>4. \A s \in S : \A i : lv[s] > 1 /\ Edge(mem, s, i, 3) => s = 1 /\ i = Half
  <2>1. lv[1] > 1
    BY <1>2
  <2>2. \A s, t \in S : \A i, j, x :
          (lv[s] > 1 /\ lv[t] > 1 /\ Edge(mem, s, i, x) /\ Edge(mem, t, j, x)) => s = t /\ i = j
    BY DEF Tree, OneParent
  <2> QED BY <1>1, <1>2, <2>1, <2>2
<1>5. mem[3] = [Blank EXCEPT ![0] = HugeEntry(0)]
  BY DEF Tree, BootPart
<1>6. 0 \in Idx
  BY Indices
<1>7. mem[3][0] = HugeEntry(0) /\ \A i \in Idx \ {0} : mem[3][i] = Empty
  BY <1>5, <1>6 DEF Blank
<1> QED BY <1>1, <1>2, <1>3, <1>4, <1>7

(* Every other entry that is not recursive is absent or leads to a table. *)
LEMMA AbsentOrEdge ==
  ASSUME NEW mem \in Mems, NEW S, NEW lv, NEW roots, NEW a, NEW ed, Tree(mem, S, lv, roots, a, ed),
         NEW s \in S, s # 3, NEW i \in Low
  PROVE  /\ mem[s][i] \in Ents /\ ~mem[s][i].h /\ mem[s][i].f \in Nat
         /\ ~mem[s][i].p \/ Edge(mem, s, i, mem[s][i].f)
         /\ mem[s][i].p <=> IsTable(mem[s][i])
<1>1. s \in Frames /\ i \in Idx
  BY TreeFacts, Indices
<1>2. ~mem[s][i].h
  BY <1>1 DEF Tree, Selves
<1>3. mem[s][i] \in Ents
  BY <1>1 DEF Mems
<1> QED BY <1>2, <1>3 DEF Edge, IsTable, Ents

(***************************************************************************)
(* Where the recursive entries lead: the processor translates a reference  *)
(* to the frame of the table that it stands for.                           *)
(***************************************************************************)
LEMMA RefWalk ==
  ASSUME NEW mem \in Mems, NEW a \in Frames, NEW ed \in Frames,
         mem[a][R] = Entry(ed), mem[ed][R] = Entry(ed),
         NEW l, NEW va, NEW t, RefAt(mem, ed, l, va, t)
  PROVE  l \in 1 .. 4 /\ va \in Pages /\ va[1] = R /\ Walk(mem, a, va) = t
<1>1. mem \in [Frames -> [Idx -> Ents]] /\ R \in Idx /\ Low \subseteq Idx /\ ed \in Nat
  BY Indices, Frame03 DEF Mems
<1>2. /\ IsTable(mem[a][R]) /\ mem[a][R].f = ed /\ IsTable(mem[ed][R]) /\ mem[ed][R].f = ed
      /\ FrameOf(mem[ed][R]) = ed
  BY <1>1, EntryFacts DEF FrameOf
<1>3. CASE l = 4 /\ va = TOP /\ t = ed
  <2>1. va \in Pages /\ va[1] = R /\ va[2] = R /\ va[3] = R /\ va[4] = R
    BY <1>1, <1>3 DEF Pages, TOP
  <2>2. Walk(mem, a, va) = FrameOf(mem[ed][va[4]])
    BY <1>1, <1>2, <2>1, WalkTables
  <2> QED BY <1>2, <1>3, <2>1, <2>2
<1>4. CASE l = 3 /\ Ref3(mem, ed, va, t)
  <2>1. PICK i : va = <<R, R, R, i>> /\ Edge(mem, ed, i, t)
    BY <1>4 DEF Ref3
  <2>2. i \in Idx /\ FrameOf(mem[ed][i]) = t
    BY <2>1, EdgeFacts
  <2>3. va \in Pages /\ va[1] = R /\ va[2] = R /\ va[3] = R /\ va[4] = i
    BY <1>1, <2>1, <2>2 DEF Pages
  <2>4. Walk(mem, a, va) = FrameOf(mem[ed][va[4]])
    BY <1>1, <1>2, <2>3, WalkTables
  <2> QED BY <1>4, <2>2, <2>3, <2>4
<1>5. CASE l = 2 /\ Ref2(mem, ed, va, t)
  <2>1. PICK i, j : \E s \in Frames :
             va = <<R, R, i, j>> /\ Edge(mem, ed, i, s) /\ Edge(mem, s, j, t)
    BY <1>5 DEF Ref2
  <2>2. PICK s \in Frames : va = <<R, R, i, j>> /\ Edge(mem, ed, i, s) /\ Edge(mem, s, j, t)
    BY <2>1
  <2>3. i \in Idx /\ j \in Idx /\ IsTable(mem[ed][i]) /\ mem[ed][i].f = s /\ FrameOf(mem[s][j]) = t
    BY <2>2, EdgeFacts
  <2>4. va \in Pages /\ va[1] = R /\ va[2] = R /\ va[3] = i /\ va[4] = j
    BY <1>1, <2>2, <2>3 DEF Pages
  <2>5. Walk(mem, a, va) = FrameOf(mem[s][va[4]])
    BY <1>1, <1>2, <2>3, <2>4, WalkTables
  <2> QED BY <1>5, <2>3, <2>4, <2>5
<1>6. CASE l = 1 /\ Ref1(mem, ed, va, t)
  <2>1. PICK i, j, k : \E s, u \in Frames :
             va = <<R, i, j, k>> /\ Edge(mem, ed, i, s) /\ Edge(mem, s, j, u) /\ Edge(mem, u, k, t)
    BY <1>6 DEF Ref1
  <2>2. PICK s, u \in Frames :
             va = <<R, i, j, k>> /\ Edge(mem, ed, i, s) /\ Edge(mem, s, j, u) /\ Edge(mem, u, k, t)
    BY <2>1
  <2>3. /\ i \in Idx /\ j \in Idx /\ k \in Idx
        /\ IsTable(mem[ed][i]) /\ mem[ed][i].f = s
        /\ IsTable(mem[s][j]) /\ mem[s][j].f = u /\ FrameOf(mem[u][k]) = t
    BY <2>2, EdgeFacts
  <2>4. va \in Pages /\ va[1] = R /\ va[2] = i /\ va[3] = j /\ va[4] = k
    BY <1>1, <2>2, <2>3 DEF Pages
  <2>5. Walk(mem, a, va) = FrameOf(mem[u][va[4]])
    BY <1>1, <1>2, <2>3, <2>4, WalkTables
  <2> QED BY <1>6, <2>3, <2>4, <2>5
<1> QED BY <1>3, <1>4, <1>5, <1>6 DEF RefAt

(* The table is one of the tree, of the reference's level. *)
LEMMA RefFacts ==
  ASSUME NEW mem \in Mems, NEW S, NEW lv, NEW roots, NEW a, NEW ed,
         Tree(mem, S, lv, roots, a, ed), NEW l, NEW va, NEW t, RefAt(mem, ed, l, va, t)
  PROVE  /\ l \in 1 .. 4 /\ va \in Pages /\ va[1] = R /\ t \in S /\ t \in Frames /\ lv[t] = l
         /\ Walk(mem, a, va) = t
<1>1. /\ S \subseteq Frames /\ a \in S /\ ed \in S /\ a \in Frames /\ ed \in Frames
      /\ lv[ed] = 4 /\ mem[a][R] = Entry(ed) /\ mem[ed][R] = Entry(ed)
  BY TreeFacts
<1>2. l \in 1 .. 4 /\ va \in Pages /\ va[1] = R /\ Walk(mem, a, va) = t
  BY <1>1, RefWalk
<1>3. t \in S /\ lv[t] = l
  <2>1. CASE l = 4 /\ va = TOP /\ t = ed
    BY <1>1, <2>1
  <2>2. CASE l = 3 /\ Ref3(mem, ed, va, t)
    BY <1>1, <2>2, Down DEF Ref3
  <2>3. CASE l = 2 /\ Ref2(mem, ed, va, t)
    <3>1. PICK i, j, s : Edge(mem, ed, i, s) /\ Edge(mem, s, j, t)
      BY <2>3 DEF Ref2
    <3>2. s \in S /\ lv[s] = 3
      BY <1>1, <3>1, Down
    <3> QED BY <2>3, <3>1, <3>2, Down
  <2>4. CASE l = 1 /\ Ref1(mem, ed, va, t)
    <3>1. PICK i, j, k, s, u : Edge(mem, ed, i, s) /\ Edge(mem, s, j, u) /\ Edge(mem, u, k, t)
      BY <2>4 DEF Ref1
    <3>2. s \in S /\ lv[s] = 3
      BY <1>1, <3>1, Down
    <3>3. u \in S /\ lv[u] = 2
      BY <3>1, <3>2, Down
    <3> QED BY <2>4, <3>1, <3>3, Down
  <2> QED BY <2>1, <2>2, <2>3, <2>4 DEF RefAt
<1> QED BY <1>1, <1>2, <1>3

(* One level down. *)
LEMMA RefNext ==
  ASSUME NEW mem, NEW ed \in Frames, NEW l, NEW va, NEW t \in Frames, RefAt(mem, ed, l, va, t),
         l # 1, NEW i, NEW u, Edge(mem, t, i, u)
  PROVE  RefAt(mem, ed, l - 1, NextVA(va, i), u) /\ NextVA(va, i) # None
<1>1. CASE l = 4 /\ va = TOP /\ t = ed
  <2>1. NextVA(va, i) = <<R, R, R, i>> /\ l - 1 = 3
    BY <1>1 DEF NextVA, TOP
  <2>2. Ref3(mem, ed, NextVA(va, i), u)
    BY <1>1, <2>1 DEF Ref3
  <2> QED BY <2>1, <2>2 DEF RefAt, None
<1>2. CASE l = 3 /\ Ref3(mem, ed, va, t)
  <2>1. PICK x : va = <<R, R, R, x>> /\ Edge(mem, ed, x, t)
    BY <1>2 DEF Ref3
  <2>2. NextVA(va, i) = <<R, R, x, i>> /\ l - 1 = 2
    BY <1>2, <2>1 DEF NextVA
  <2>3. Ref2(mem, ed, NextVA(va, i), u)
    BY <2>1, <2>2 DEF Ref2
  <2> QED BY <2>2, <2>3 DEF RefAt, None
<1>3. CASE l = 2 /\ Ref2(mem, ed, va, t)
  <2>1. PICK x, j : \E s \in Frames :
             va = <<R, R, x, j>> /\ Edge(mem, ed, x, s) /\ Edge(mem, s, j, t)
    BY <1>3 DEF Ref2
  <2>2. PICK s \in Frames : va = <<R, R, x, j>> /\ Edge(mem, ed, x, s) /\ Edge(mem, s, j, t)
    BY <2>1
  <2>3. NextVA(va, i) = <<R, x, j, i>> /\ l - 1 = 1
    BY <1>3, <2>2 DEF NextVA
  <2>4. Ref1(mem, ed, NextVA(va, i), u)
    BY <2>2, <2>3 DEF Ref1
  <2> QED BY <2>3, <2>4 DEF RefAt, None
<1> QED BY <1>1, <1>2, <1>3 DEF RefAt

(* A reference stays good where the entries on its way stay. *)
LEMMA RefKept ==
  ASSUME NEW mem, NEW S, NEW lv, NEW roots, NEW a, NEW ed,
         Tree(mem, S, lv, roots, a, ed), NEW l, NEW va, NEW t, RefAt(mem, ed, l, va, t),
         NEW mem2, \A s \in S : \A i, x : lv[s] > 1 /\ Edge(mem, s, i, x) => Edge(mem2, s, i, x)
  PROVE  RefAt(mem2, ed, l, va, t)
<1>1. ed \in S /\ lv[ed] = 4
  BY TreeFacts
<1>2. ASSUME NEW s \in S, NEW i, NEW x, Edge(mem, s, i, x)
      PROVE  /\ lv[s] = 4 => x \in S /\ lv[x] = 3 /\ Edge(mem2, s, i, x)
             /\ lv[s] = 3 => x \in S /\ lv[x] = 2 /\ Edge(mem2, s, i, x)
             /\ lv[s] = 2 => x \in S /\ lv[x] = 1 /\ Edge(mem2, s, i, x)
  <2>1. lv[s] > 1 => Edge(mem2, s, i, x)
    BY <1>2
  <2> QED BY <1>2, <2>1, Down
<1>3. CASE l = 4 /\ va = TOP /\ t = ed
  BY <1>3 DEF RefAt
<1>4. CASE l = 3 /\ Ref3(mem, ed, va, t)
  BY <1>1, <1>2, <1>4 DEF RefAt, Ref3
<1>5. CASE l = 2 /\ Ref2(mem, ed, va, t)
  <2>1. PICK i, j : \E s \in Frames :
             va = <<R, R, i, j>> /\ Edge(mem, ed, i, s) /\ Edge(mem, s, j, t)
    BY <1>5 DEF Ref2
  <2>2. PICK s \in Frames : va = <<R, R, i, j>> /\ Edge(mem, ed, i, s) /\ Edge(mem, s, j, t)
    BY <2>1
  <2>3. s \in S /\ lv[s] = 3 /\ Edge(mem2, ed, i, s)
    BY <1>1, <1>2, <2>2
  <2>4. Edge(mem2, s, j, t)
    BY <1>2, <2>2, <2>3
  <2>5. Ref2(mem2, ed, va, t)
    BY <2>2, <2>3, <2>4 DEF Ref2
  <2> QED BY <1>5, <2>5 DEF RefAt
<1>6. CASE l = 1 /\ Ref1(mem, ed, va, t)
  <2>1. PICK i, j, k : \E s, u \in Frames :
             va = <<R, i, j, k>> /\ Edge(mem, ed, i, s) /\ Edge(mem, s, j, u) /\ Edge(mem, u, k, t)
    BY <1>6 DEF Ref1
  <2>2. PICK s, u \in Frames :
             va = <<R, i, j, k>> /\ Edge(mem, ed, i, s) /\ Edge(mem, s, j, u) /\ Edge(mem, u, k, t)
    BY <2>1
  <2>3. s \in S /\ lv[s] = 3 /\ Edge(mem2, ed, i, s)
    BY <1>1, <1>2, <2>2
  <2>4. u \in S /\ lv[u] = 2 /\ Edge(mem2, s, j, u)
    BY <1>2, <2>2, <2>3
  <2>5. Edge(mem2, u, k, t)
    BY <1>2, <2>2, <2>4
  <2>6. Ref1(mem2, ed, va, t)
    BY <2>2, <2>3, <2>4, <2>5 DEF Ref1
  <2> QED BY <1>6, <2>6 DEF RefAt
<1> QED BY <1>3, <1>4, <1>5, <1>6 DEF RefAt

(* A path to a level 1 table gives the reference that map uses. *)
LEMMA PathRef ==
  ASSUME NEW mem, NEW r, NEW i, NEW j, NEW k, NEW u, Path(mem, r, i, j, k, u)
  PROVE  RefAt(mem, r, 1, <<R, i, j, k>>, u)
<1>1. PICK s, t \in Frames : Edge(mem, r, i, s) /\ Edge(mem, s, j, t) /\ Edge(mem, t, k, u)
  BY DEF Path
<1>2. Ref1(mem, r, <<R, i, j, k>>, u)
  BY <1>1 DEF Ref1
<1> QED BY <1>2 DEF RefAt
-------------------------------------------------------------------------------
(* How the stores of the operations change a tree. *)

(* The entry i of t is written, and no other. *)
Wrote(mem, mem2, t, i, e) ==
  /\ mem2 \in Mems /\ mem2[t][i] = e
  /\ \A s \in Frames, j \in Idx : s # t \/ j # i => mem2[s][j] = mem[s][j]

(* The new table f, clear but for its recursive entry, hangs in the entry i of t. *)
Hung(mem, mem2, t, i, f) ==
  /\ mem2 \in Mems /\ mem2[t][i] = Entry(f) /\ mem2[f] = FreshTable(f)
  /\ \A s \in Frames \ {f}, j \in Idx : s # t \/ j # i => mem2[s][j] = mem[s][j]

LEMMA TableEqual ==
  ASSUME NEW g \in [Idx -> Ents], NEW h \in [Idx -> Ents], \A j \in Idx : g[j] = h[j]
  PROVE  g = h
  OBVIOUS

LEMMA HungEdges ==
  ASSUME NEW mem, NEW mem2, NEW s, NEW i \in Low, NEW f \in Frames, Hung(mem, mem2, s, i, f),
         ~mem[s][i].p
  PROVE  /\ Edge(mem2, s, i, f)
         /\ \A x \in Frames \ {f} : \A j, y : Edge(mem, x, j, y) => Edge(mem2, x, j, y)
<1>1. Edge(mem2, s, i, f)
  BY Frame03, EntryFacts DEF Hung, Edge
<1>2. ASSUME NEW x \in Frames \ {f}, NEW j, NEW y, Edge(mem, x, j, y)
      PROVE  Edge(mem2, x, j, y)
  <2>1. j \in Idx
    BY <1>2, Indices DEF Edge
  <2>2. x # s \/ j # i
    BY <1>2 DEF Edge, IsTable
  <2>3. mem2[x][j] = mem[x][j]
    BY <2>1, <2>2 DEF Hung
  <2> QED BY <1>2, <2>3 DEF Edge
<1> QED BY <1>1, <1>2

LEMMA HungTree ==
  ASSUME NEW mem \in Mems, NEW S, NEW lv, NEW roots, NEW a, NEW ed,
         Tree(mem, S, lv, roots, a, ed),
         NEW s \in S, s # 3, lv[s] > 1, NEW i \in Low, ~mem[s][i].p,
         NEW f \in Frames \ S, NEW mem2, Hung(mem, mem2, s, i, f)
  PROVE  \E lv2 : Tree(mem2, S \cup {f}, lv2, roots, a, ed)
<1> DEFINE T   == S \cup {f}
           lv2 == [x \in T |-> IF x = f THEN lv[s] - 1 ELSE lv[x]]
<1>1. /\ S \subseteq Frames /\ S \subseteq Nat /\ roots \subseteq S /\ a \in roots /\ ed \in roots
      /\ 3 \in S /\ 1 \in roots /\ 1 \in S /\ 3 \notin roots
      /\ \A x \in S : lv[x] \in 1 .. 4 /\ (lv[x] = 4 <=> x \in roots)
  BY TreeFacts
<1>2. f \in Frames /\ f \in Nat /\ f \notin S /\ s \in Frames /\ s # f /\ f # 3 /\ f # 1 /\ f \notin roots
  BY <1>1, Frame03
<1>3. lv2 \in [T -> 1 .. 4] /\ lv2[f] = lv[s] - 1 /\ lv2[f] \in 1 .. 3 /\ \A x \in S : lv2[x] = lv[x]
  BY <1>1, <1>2
<1>4. FreshTable(f)[R] = Entry(f) /\ \A j \in Low : FreshTable(f)[j] = Empty
  BY <1>2, FreshFacts
<1>5. \A x \in S, j \in Idx : x # s \/ j # i => mem2[x][j] = mem[x][j]
  BY <1>1, <1>2 DEF Hung
<1>6. mem2[s][i] = Entry(f) /\ mem2[f] = FreshTable(f)
  BY DEF Hung
<1>7. \A j, y : ~Edge(mem2, f, j, y)
  BY <1>4, <1>6, EntryFacts DEF Edge
<1>8. Edge(mem2, s, i, f) /\ i \in Idx
  BY <1>2, HungEdges, Indices
<1>10. \A x \in S : \A j, y : Edge(mem, x, j, y) => Edge(mem2, x, j, y)
  BY <1>1, <1>2, HungEdges
<1>11. \A x \in S : \A j, y : Edge(mem2, x, j, y) => Edge(mem, x, j, y) \/ (x = s /\ j = i /\ y = f)
  <2> SUFFICES ASSUME NEW x \in S, NEW j, NEW y, Edge(mem2, x, j, y), x # s \/ j # i
               PROVE  Edge(mem, x, j, y)
    BY <1>8, EdgeUnique
  <2>1. j \in Idx
    BY Indices DEF Edge
  <2>2. mem2[x][j] = mem[x][j]
    BY <1>5, <2>1
  <2> QED BY <2>2 DEF Edge
<1>12. \A x \in S : \A j, y : lv[x] > 1 /\ Edge(mem, x, j, y) => y \in S /\ lv[y] = lv[x] - 1
  BY DEF Tree, Children
<1> HIDE DEF lv2
<1>13. Levels(T, lv2, roots)
  BY <1>1, <1>2, <1>3 DEF Levels
<1>14. BootPart(mem2, T, roots)
  <2>1. Edge(mem, 1, Half, 3) /\ mem[1][Half] = Entry(3) /\ Half \in Idx
    BY BootTable, Indices DEF Tree, BootPart
  <2>2. mem[1][Half].p
    BY <2>1, EntryFacts
  <2>3. mem2[1][Half] = Entry(3)
    BY <1>1, <1>5, <2>1, <2>2
  <2>4. mem2[3] = mem[3]
    <3>1. mem2[3] \in [Idx -> Ents] /\ mem[3] \in [Idx -> Ents]
      BY Frame03 DEF Hung, Mems
    <3>2. \A j \in Idx : mem2[3][j] = mem[3][j]
      BY <1>1, <1>5
    <3> QED BY <3>1, <3>2, TableEqual
  <2> QED BY <1>1, <2>3, <2>4 DEF Tree, BootPart
<1>15. Selves(mem2, T, a, ed)
  <2> SUFFICES ASSUME NEW x \in T \ {3}
               PROVE  /\ mem2[x][R] = Entry(IF x = a THEN ed ELSE x)
                      /\ \A j \in Idx : ~mem2[x][j].h
    BY DEF Selves
  <2>1. CASE x = f
    <3>1. \A j \in Idx : ~mem2[x][j].h
      BY <1>2, <1>4, <1>6, <2>1, EntryFacts, Indices DEF Low
    <3> QED BY <1>1, <1>2, <1>4, <1>6, <2>1, <3>1
  <2>2. CASE x # f
    <3>1. mem[x][R] = Entry(IF x = a THEN ed ELSE x) /\ \A j \in Idx : ~mem[x][j].h
      BY <2>2 DEF Tree, Selves
    <3>2. mem2[x][R] = mem[x][R]
      BY <1>5, <2>2, Indices
    <3>3. ~Entry(f).h /\ x \in S
      BY <1>2, <2>2, EntryFacts
    <3>4. \A j \in Idx : ~mem2[x][j].h
      BY <1>5, <1>6, <3>1, <3>3
    <3> QED BY <3>1, <3>2, <3>4
  <2> QED BY <2>1, <2>2
<1>16. Children(mem2, T, lv2)
  <2> SUFFICES ASSUME NEW x \in T, NEW j, NEW y, lv2[x] > 1, Edge(mem2, x, j, y)
               PROVE  y \in T /\ lv2[y] = lv2[x] - 1
    BY DEF Children
  <2>1. x \in S /\ lv2[x] = lv[x]
    BY <1>3, <1>7
  <2>2. CASE Edge(mem, x, j, y)
    <3>1. y \in S /\ lv[y] = lv[x] - 1
      BY <1>12, <2>1, <2>2
    <3> QED BY <1>3, <2>1, <3>1
  <2>3. CASE x = s /\ y = f
    BY <1>3, <2>3
  <2> QED BY <1>11, <2>1, <2>2, <2>3
<1>17. OneParent(mem2, T, lv2)
  <2> SUFFICES ASSUME NEW x \in T, NEW z \in T, NEW j, NEW k, NEW y, lv2[x] > 1, lv2[z] > 1,
                      Edge(mem2, x, j, y), Edge(mem2, z, k, y)
               PROVE  x = z /\ j = k
    BY DEF OneParent
  <2>1. x \in S /\ lv[x] > 1 /\ z \in S /\ lv[z] > 1
    BY <1>3, <1>7
  <2>2. CASE y = f
    <3>1. ~Edge(mem, x, j, y) /\ ~Edge(mem, z, k, y)
      BY <1>2, <1>12, <2>1, <2>2
    <3> QED BY <1>11, <2>1, <3>1
  <2>3. CASE y # f
    <3>1. Edge(mem, x, j, y) /\ Edge(mem, z, k, y)
      BY <1>11, <2>1, <2>3
    <3> QED BY <2>1, <3>1 DEF Tree, OneParent
  <2> QED BY <2>2, <2>3
<1>18. Parents(mem2, T, lv2)
  <2> SUFFICES ASSUME NEW x \in T, lv2[x] < 4
               PROVE  \E z \in T, j \in Low : lv2[z] = lv2[x] + 1 /\ Edge(mem2, z, j, x)
    BY DEF Parents
  <2>1. CASE x = f
    <3>1. lv2[s] = lv2[f] + 1
      BY <1>1, <1>3
    <3> QED BY <1>8, <2>1, <3>1
  <2>2. CASE x \in S
    <3>1. lv[x] < 4
      BY <1>3, <2>2
    <3>2. PICK z \in S, j \in Low : lv[z] = lv[x] + 1 /\ Edge(mem, z, j, x)
      BY <2>2, <3>1 DEF Tree, Parents
    <3>3. lv2[z] = lv2[x] + 1
      BY <1>3, <2>2, <3>2
    <3> QED BY <1>10, <3>2, <3>3
  <2> QED BY <2>1, <2>2
<1>19. Tree(mem2, T, lv2, roots, a, ed)
  BY <1>1, <1>13, <1>14, <1>15, <1>16, <1>17, <1>18 DEF Tree
<1> QED BY <1>19

(* An entry of a level 1 table, written or cleared. *)
LEMMA LeafTree ==
  ASSUME NEW mem \in Mems, NEW S, NEW lv, NEW roots, NEW a, NEW ed,
         Tree(mem, S, lv, roots, a, ed),
         NEW s \in S, lv[s] = 1, NEW i \in Low, NEW e, ~e.h,
         NEW mem2, Wrote(mem, mem2, s, i, e)
  PROVE  Tree(mem2, S, lv, roots, a, ed)
<1>1. /\ S \subseteq Frames /\ 3 \in S /\ 1 \in S /\ a \in roots /\ ed \in roots
      /\ \A x \in S : lv[x] \in 1 .. 4 /\ (lv[x] = 4 <=> x \in roots)
  BY TreeFacts
<1>2. s # 3 /\ s # 1
  BY BootTable
<1>3. \A x \in S, j \in Idx : x # s \/ j # i => mem2[x][j] = mem[x][j]
  BY <1>1 DEF Wrote
<1>4. \A x \in S : \A j, y : lv[x] > 1 => (Edge(mem2, x, j, y) <=> Edge(mem, x, j, y))
  BY <1>3, Indices DEF Edge
<1>5. BootPart(mem2, S, roots)
  <2>1. mem2[1][Half] = mem[1][Half]
    BY <1>1, <1>2, <1>3, Indices
  <2>2. mem2[3] = mem[3]
    <3>1. mem2[3] \in [Idx -> Ents] /\ mem[3] \in [Idx -> Ents]
      BY Frame03 DEF Wrote, Mems
    <3>2. \A j \in Idx : mem2[3][j] = mem[3][j]
      BY <1>1, <1>2, <1>3
    <3> QED BY <3>1, <3>2, TableEqual
  <2> QED BY <2>1, <2>2 DEF Tree, BootPart
<1>6. Selves(mem2, S, a, ed)
  <2> SUFFICES ASSUME NEW x \in S \ {3}
               PROVE  /\ mem2[x][R] = Entry(IF x = a THEN ed ELSE x)
                      /\ \A j \in Idx : ~mem2[x][j].h
    BY DEF Selves
  <2>1. mem[x][R] = Entry(IF x = a THEN ed ELSE x) /\ \A j \in Idx : ~mem[x][j].h
    BY DEF Tree, Selves
  <2>2. mem2[x][R] = mem[x][R]
    BY <1>3, Indices
  <2>3. \A j \in Idx : ~mem2[x][j].h
    BY <1>3, <2>1 DEF Wrote
  <2> QED BY <2>1, <2>2, <2>3
<1>7. Children(mem2, S, lv)
  <2>1. \A x \in S : \A j, y : lv[x] > 1 /\ Edge(mem, x, j, y) => y \in S /\ lv[y] = lv[x] - 1
    BY DEF Tree, Children
  <2> QED BY <1>4, <2>1 DEF Children
<1>8. OneParent(mem2, S, lv)
  <2>1. \A x, t \in S : \A j, k, y :
          (lv[x] > 1 /\ lv[t] > 1 /\ Edge(mem, x, j, y) /\ Edge(mem, t, k, y)) => x = t /\ j = k
    BY DEF Tree, OneParent
  <2> QED BY <1>4, <2>1 DEF OneParent
<1>9. Parents(mem2, S, lv)
  <2> SUFFICES ASSUME NEW x \in S, lv[x] < 4
               PROVE  \E z \in S, j \in Low : lv[z] = lv[x] + 1 /\ Edge(mem2, z, j, x)
    BY DEF Parents
  <2>1. PICK z \in S, j \in Low : lv[z] = lv[x] + 1 /\ Edge(mem, z, j, x)
    BY DEF Tree, Parents
  <2>2. lv[z] > 1
    BY <1>1, <2>1
  <2> QED BY <1>4, <2>1, <2>2
<1> QED BY <1>5, <1>6, <1>7, <1>8, <1>9 DEF Tree

(* The recursive entry of the active table, from one root to another. *)
LEMMA SelfTree ==
  ASSUME NEW mem \in Mems, NEW S, NEW lv, NEW roots, NEW a, NEW ed,
         Tree(mem, S, lv, roots, a, ed), NEW ed2 \in roots,
         NEW mem2, Wrote(mem, mem2, a, R, Entry(ed2))
  PROVE  Tree(mem2, S, lv, roots, a, ed2)
<1>1. /\ S \subseteq Frames /\ S \subseteq Nat /\ 3 \in S /\ 1 \in S /\ a \in roots /\ ed \in roots
      /\ a # 3 /\ ed2 \in Nat /\ a \in S
      /\ \A x \in S : lv[x] \in 1 .. 4 /\ (lv[x] = 4 <=> x \in roots)
  BY TreeFacts
<1>2. \A x \in S, j \in Idx : x # a \/ j # R => mem2[x][j] = mem[x][j]
  BY <1>1 DEF Wrote
<1>3. \A x \in S : \A j, y : Edge(mem2, x, j, y) <=> Edge(mem, x, j, y)
  BY <1>2, Indices DEF Edge
<1>4. BootPart(mem2, S, roots)
  <2>1. mem2[1][Half] = mem[1][Half]
    BY <1>1, <1>2, Indices
  <2>2. mem2[3] = mem[3]
    <3>1. mem2[3] \in [Idx -> Ents] /\ mem[3] \in [Idx -> Ents]
      BY Frame03 DEF Wrote, Mems
    <3>2. \A j \in Idx : mem2[3][j] = mem[3][j]
      BY <1>1, <1>2
    <3> QED BY <3>1, <3>2, TableEqual
  <2> QED BY <2>1, <2>2 DEF Tree, BootPart
<1>5. Selves(mem2, S, a, ed2)
  <2> SUFFICES ASSUME NEW x \in S \ {3}
               PROVE  /\ mem2[x][R] = Entry(IF x = a THEN ed2 ELSE x)
                      /\ \A j \in Idx : ~mem2[x][j].h
    BY DEF Selves
  <2>1. mem[x][R] = Entry(IF x = a THEN ed ELSE x) /\ \A j \in Idx : ~mem[x][j].h
    BY DEF Tree, Selves
  <2>2. x # a => mem2[x][R] = mem[x][R]
    BY <1>2, Indices
  <2>3. mem2[a][R] = Entry(ed2) /\ ~Entry(ed2).h
    BY <1>1, EntryFacts DEF Wrote
  <2>4. \A j \in Idx : ~mem2[x][j].h
    BY <1>2, <2>1, <2>3
  <2> QED BY <2>1, <2>2, <2>3, <2>4
<1>6. Children(mem2, S, lv)
  BY <1>3 DEF Tree, Children
<1>7. OneParent(mem2, S, lv)
  <2>1. \A x, t \in S : \A j, k, y :
          (lv[x] > 1 /\ lv[t] > 1 /\ Edge(mem, x, j, y) /\ Edge(mem, t, k, y)) => x = t /\ j = k
    BY DEF Tree, OneParent
  <2> QED BY <1>3, <2>1 DEF OneParent
<1>8. Parents(mem2, S, lv)
  <2> SUFFICES ASSUME NEW x \in S, lv[x] < 4
               PROVE  \E z \in S, j \in Low : lv[z] = lv[x] + 1 /\ Edge(mem2, z, j, x)
    BY DEF Parents
  <2>1. PICK z \in S, j \in Low : lv[z] = lv[x] + 1 /\ Edge(mem, z, j, x)
    BY DEF Tree, Parents
  <2> QED BY <1>3, <2>1
<1> QED BY <1>4, <1>5, <1>6, <1>7, <1>8 DEF Tree

(* A new root. *)
LEMMA RootTree ==
  ASSUME NEW mem \in Mems, NEW S, NEW lv, NEW roots, NEW a, NEW ed,
         Tree(mem, S, lv, roots, a, ed), NEW f \in Frames \ S,
         NEW mem2 \in Mems, mem2[f] = FreshTable(f), \A s \in S : mem2[s] = mem[s]
  PROVE  \E lv2 : Tree(mem2, S \cup {f}, lv2, roots \cup {f}, a, ed)
<1> DEFINE T   == S \cup {f}
           lv2 == [x \in T |-> IF x = f THEN 4 ELSE lv[x]]
<1>1. /\ S \subseteq Frames /\ S \subseteq Nat /\ roots \subseteq S /\ a \in roots /\ ed \in roots
      /\ 3 \in S /\ 1 \in roots /\ 1 \in S /\ 3 \notin roots /\ a \in S
      /\ \A x \in S : lv[x] \in 1 .. 4 /\ (lv[x] = 4 <=> x \in roots)
  BY TreeFacts
<1>2. f \in Frames /\ f \in Nat /\ f \notin S /\ f # 3 /\ f # 1 /\ f # a
  BY <1>1, Frame03
<1>3. lv2 \in [T -> 1 .. 4] /\ lv2[f] = 4 /\ \A x \in S : lv2[x] = lv[x]
  BY <1>1, <1>2
<1>4. FreshTable(f)[R] = Entry(f) /\ \A j \in Low : FreshTable(f)[j] = Empty
  BY <1>2, FreshFacts
<1>5. \A j, y : ~Edge(mem2, f, j, y)
  BY <1>4, EntryFacts DEF Edge
<1>6. \A x \in S : \A j, y : Edge(mem2, x, j, y) <=> Edge(mem, x, j, y)
  BY DEF Edge
<1> HIDE DEF lv2
<1>7. Levels(T, lv2, roots \cup {f})
  BY <1>1, <1>2, <1>3 DEF Levels
<1>8. BootPart(mem2, T, roots \cup {f})
  BY <1>1, <1>2 DEF Tree, BootPart
<1>9. Selves(mem2, T, a, ed)
  <2> SUFFICES ASSUME NEW x \in T \ {3}
               PROVE  /\ mem2[x][R] = Entry(IF x = a THEN ed ELSE x)
                      /\ \A j \in Idx : ~mem2[x][j].h
    BY DEF Selves
  <2>1. CASE x = f
    <3>1. \A j \in Idx : ~mem2[x][j].h
      BY <1>2, <1>4, <2>1, EntryFacts, Indices DEF Low
    <3> QED BY <1>2, <1>4, <2>1, <3>1
  <2>2. CASE x # f
    BY <2>2 DEF Tree, Selves
  <2> QED BY <2>1, <2>2
<1>10. Children(mem2, T, lv2)
  <2> SUFFICES ASSUME NEW x \in T, NEW j, NEW y, lv2[x] > 1, Edge(mem2, x, j, y)
               PROVE  y \in T /\ lv2[y] = lv2[x] - 1
    BY DEF Children
  <2>1. x \in S /\ lv2[x] = lv[x] /\ Edge(mem, x, j, y)
    BY <1>3, <1>5, <1>6
  <2>2. y \in S /\ lv[y] = lv[x] - 1
    BY <2>1 DEF Tree, Children
  <2> QED BY <1>3, <2>1, <2>2
<1>11. OneParent(mem2, T, lv2)
  <2> SUFFICES ASSUME NEW x \in T, NEW z \in T, NEW j, NEW k, NEW y, lv2[x] > 1, lv2[z] > 1,
                      Edge(mem2, x, j, y), Edge(mem2, z, k, y)
               PROVE  x = z /\ j = k
    BY DEF OneParent
  <2>1. x \in S /\ lv[x] > 1 /\ z \in S /\ lv[z] > 1 /\ Edge(mem, x, j, y) /\ Edge(mem, z, k, y)
    BY <1>3, <1>5, <1>6
  <2> QED BY <2>1 DEF Tree, OneParent
<1>12. Parents(mem2, T, lv2)
  <2> SUFFICES ASSUME NEW x \in T, lv2[x] < 4
               PROVE  \E z \in T, j \in Low : lv2[z] = lv2[x] + 1 /\ Edge(mem2, z, j, x)
    BY DEF Parents
  <2>1. x \in S /\ lv[x] < 4
    BY <1>3
  <2>2. PICK z \in S, j \in Low : lv[z] = lv[x] + 1 /\ Edge(mem, z, j, x)
    BY <2>1 DEF Tree, Parents
  <2>3. lv2[z] = lv2[x] + 1
    BY <1>3, <2>1, <2>2
  <2> QED BY <1>6, <2>2, <2>3
<1>13. Tree(mem2, T, lv2, roots \cup {f}, a, ed)
  BY <1>1, <1>7, <1>8, <1>9, <1>10, <1>11, <1>12 DEF Tree
<1> QED BY <1>13

(* Another active table, where every recursive entry leads to its own table. *)
LEMMA SwitchTree ==
  ASSUME NEW mem, NEW S, NEW lv, NEW roots, NEW a,
         Tree(mem, S, lv, roots, a, a), NEW t \in roots
  PROVE  Tree(mem, S, lv, roots, t, t)
<1>1. Selves(mem, S, t, t)
  <2>1. \A s \in S \ {3} : mem[s][R] = Entry(s) /\ \A i \in Idx : ~mem[s][i].h
    BY DEF Tree, Selves
  <2> QED BY <2>1 DEF Selves
<1> QED BY <1>1 DEF Tree
-------------------------------------------------------------------------------
(* The machine: what each primitive leaves as it was. *)
LEMMA MachineFacts ==
  ASSUME NEW n \in Machines
  PROVE  /\ n.mem \in Mems /\ n.free \subseteq Frames /\ n.free \subseteq Nat /\ n.cr3 \in Frames
         /\ n.tlb \subseteq Pages \X Nat /\ n.stale \in BOOLEAN
  BY Frame03 DEF Machines, Mems

(* All but the tables, and all but the tables and the free frames. *)
SameRest(n, n2) == n2.cr3 = n.cr3 /\ n2.tlb = n.tlb /\ n2.stale = n.stale /\ n2.fault = n.fault

LEMMA FaultFacts ==
  ASSUME NEW n \in Machines, NEW w \in {"panic", "general_protection"}
  PROVE  LET n2 == Fault(n, w) IN
         /\ n2 \in Machines /\ n2.mem = n.mem /\ n2.free = n.free /\ n2.cr3 = n.cr3
         /\ n2.tlb = n.tlb /\ n2.stale = n.stale /\ n2.fault = w /\ ~Running(n2)
  BY DEF Fault, Machines, Running

LEMMA FlushFacts ==
  ASSUME NEW n \in Machines
  PROVE  LET n2 == FlushAll(n) IN
         /\ n2 \in Machines /\ n2.mem = n.mem /\ n2.free = n.free /\ n2.cr3 = n.cr3
         /\ n2.tlb = {} /\ n2.stale = n.stale /\ n2.fault = n.fault
  BY DEF FlushAll, Machines

LEMMA SwitchFacts ==
  ASSUME NEW n \in Machines, NEW t \in Frames
  PROVE  LET n2 == Switch(n, t) IN
         /\ n2 \in Machines /\ n2.mem = n.mem /\ n2.free = n.free /\ n2.cr3 = t
         /\ n2.tlb = {} /\ n2.stale = n.stale /\ n2.fault = n.fault
<1> DEFINE g == [n EXCEPT !.cr3 = t]
<1>1. /\ g \in Machines /\ g.mem = n.mem /\ g.free = n.free /\ g.cr3 = t
      /\ g.stale = n.stale /\ g.fault = n.fault
  BY DEF Machines
<1>2. Switch(n, t) = FlushAll(g)
  BY DEF Switch
<1> HIDE DEF g
<1> QED BY <1>1, <1>2, FlushFacts

LEMMA TakeFacts ==
  ASSUME NEW n \in Machines, n.free # {}
  PROVE  LET n2 == TakeOne(n) IN
         /\ n2 \in Machines /\ n2.mem = n.mem /\ n2.free = n.free \ {Taken(n)} /\ SameRest(n, n2)
         /\ Taken(n) \in n.free /\ Taken(n) \in Frames /\ Taken(n) \in Nat
<1>1. Taken(n) \in n.free
  BY MachineFacts, MinFacts DEF Taken
<1>2. TakeOne(n) = [n EXCEPT !.free = n.free \ {Taken(n)}]
  BY DEF TakeOne, Machines
<1> QED BY <1>1, <1>2, Frame03 DEF Machines, SameRest

(* An access that finds no other translation cached. *)
LEMMA AccessFacts ==
  ASSUME NEW n \in Machines, NEW va \in Pages, NEW f \in Nat,
         \A t \in n.tlb : t[1] = va => t[2] = f
  PROVE  LET n2 == Access(n, va, f) IN
         /\ n2 \in Machines /\ n2.mem = n.mem /\ n2.free = n.free /\ n2.cr3 = n.cr3
         /\ n2.tlb = n.tlb \cup {<<va, f>>} /\ n2.stale = n.stale /\ n2.fault = n.fault
<1> DEFINE g  == [n EXCEPT !.tlb = n.tlb \cup {<<va, f>>}]
           st == n.stale \/ \E t \in n.tlb : t[1] = va /\ t[2] # f
<1>1. f # NoFrame
  BY DEF NoFrame
<1>2. st = n.stale
  BY MachineFacts
<1>3. /\ g \in Machines /\ g.mem = n.mem /\ g.free = n.free /\ g.cr3 = n.cr3
      /\ g.tlb = n.tlb \cup {<<va, f>>} /\ g.stale = n.stale /\ g.fault = n.fault
  BY DEF Machines
<1>4. Access(n, va, f) = [g EXCEPT !.stale = st]
  BY <1>1, Zenon DEF Access
<1> HIDE DEF g, st
<1> QED BY <1>2, <1>3, <1>4 DEF Machines

LEMMA StoreFacts ==
  ASSUME NEW n \in Machines, NEW va, NEW t \in Frames, Walk(n.mem, n.cr3, va) = t,
         NEW i \in Idx, NEW e \in Ents
  PROVE  LET n2 == Store(n, va, i, e) IN
         /\ n2 \in Machines /\ Wrote(n.mem, n2.mem, t, i, e)
         /\ n2.free = n.free /\ SameRest(n, n2)
<1> DEFINE mem2 == [n.mem EXCEPT ![t][i] = e]
<1>1. n.mem \in [Frames -> [Idx -> Ents]]
  BY DEF Machines
<1>2. mem2 \in Mems /\ Wrote(n.mem, mem2, t, i, e)
  BY <1>1 DEF Wrote, Mems
<1>3. Store(n, va, i, e) = [n EXCEPT !.mem = mem2]
  BY DEF Store, Machines
<1> HIDE DEF mem2
<1> QED BY <1>2, <1>3 DEF Machines, SameRest, Mems

LEMMA StoreTableFacts ==
  ASSUME NEW n \in Machines, NEW va, NEW t \in Frames, Walk(n.mem, n.cr3, va) = t,
         NEW tab \in [Idx -> Ents]
  PROVE  LET n2 == StoreTable(n, va, tab) IN
         /\ n2 \in Machines /\ n2.mem[t] = tab /\ \A s \in Frames \ {t} : n2.mem[s] = n.mem[s]
         /\ n2.free = n.free /\ SameRest(n, n2)
<1> DEFINE mem2 == [n.mem EXCEPT ![t] = tab]
<1>1. n.mem \in [Frames -> [Idx -> Ents]]
  BY DEF Machines
<1>2. mem2 \in Mems /\ mem2[t] = tab /\ \A s \in Frames \ {t} : mem2[s] = n.mem[s]
  BY <1>1 DEF Mems
<1>3. StoreTable(n, va, tab) = [n EXCEPT !.mem = mem2]
  BY DEF StoreTable, Machines
<1> HIDE DEF mem2
<1> QED BY <1>2, <1>3 DEF Machines, SameRest, Mems

LEMMA TableAtFacts ==
  ASSUME NEW n \in Machines, NEW va, NEW t \in Frames, Walk(n.mem, n.cr3, va) = t
  PROVE  TableAt(n, va) = n.mem[t]
<1>1. DOMAIN n.mem = Frames
  BY DEF Machines
<1> QED BY <1>1 DEF TableAt, TableIn
-------------------------------------------------------------------------------
(* Access through a reference.  The tables need not be a tree: a new table
   is not one before it is cleared. *)
LEMMA TouchAny ==
  ASSUME NEW n \in Machines, NEW ed \in Frames, TlbOk(n, ed),
         n.mem[n.cr3][R] = Entry(ed), n.mem[ed][R] = Entry(ed),
         NEW l, NEW va, NEW t \in Frames, RefAt(n.mem, ed, l, va, t)
  PROVE  LET n2 == Touch(n, va) IN
         /\ n2 \in Machines /\ n2.mem = n.mem /\ n2.free = n.free /\ n2.cr3 = n.cr3
         /\ n2.tlb = n.tlb \cup {<<va, t>>} /\ n2.stale = n.stale /\ n2.fault = n.fault
         /\ TlbOk(n2, ed)
<1>1. n.mem \in Mems /\ n.cr3 \in Frames /\ t \in Nat
  BY MachineFacts, Frame03
<1>2. \A k, v, x : RefAt(n.mem, ed, k, v, x) =>
         k \in 1 .. 4 /\ v \in Pages /\ v[1] = R /\ Walk(n.mem, n.cr3, v) = x
  BY <1>1, RefWalk
<1>3. l \in 1 .. 4 /\ va \in Pages /\ va[1] = R /\ Walk(n.mem, n.cr3, va) = t
  BY <1>2
<1>4. ASSUME NEW x \in n.tlb, x[1] = va PROVE x[2] = t
  <2>1. ~Plain(x[1])
    BY <1>3, <1>4, Indices DEF Plain
  <2>2. PICK k \in 1 .. 4 : RefAt(n.mem, ed, k, x[1], x[2])
    BY <2>1 DEF TlbOk
  <2> QED BY <1>2, <1>3, <1>4, <2>2
<1> DEFINE n2 == Touch(n, va)
<1>5. n2 = Access(n, va, t)
  BY <1>3 DEF Touch
<1>6. /\ n2 \in Machines /\ n2.mem = n.mem /\ n2.free = n.free /\ n2.cr3 = n.cr3
      /\ n2.tlb = n.tlb \cup {<<va, t>>} /\ n2.stale = n.stale /\ n2.fault = n.fault
  <2>1. \A x \in n.tlb : x[1] = va => x[2] = t
    BY <1>4
  <2> QED BY <1>1, <1>3, <1>5, <2>1, AccessFacts
<1> HIDE DEF n2
<1>7. TlbOk(n2, ed)
  <2> SUFFICES ASSUME NEW x \in n2.tlb
               PROVE  \/ x[1][1] = R /\ \E k \in 1 .. 4 : RefAt(n2.mem, ed, k, x[1], x[2])
                      \/ Plain(x[1]) /\ n2.mem[n2.cr3][x[1][1]].p
    BY DEF TlbOk
  <2>1. CASE x \in n.tlb
    BY <1>6, <2>1 DEF TlbOk
  <2>2. CASE x = <<va, t>>
    <3>1. x[1] = va /\ x[2] = t
      BY <2>2
    <3> QED BY <1>3, <1>6, <3>1
  <2> QED BY <1>6, <2>1, <2>2
<1> QED BY <1>6, <1>7 DEF n2

LEMMA GoodFacts ==
  ASSUME NEW n, NEW U, NEW roots, NEW ed, Good(n, U, roots, ed)
  PROVE  /\ n \in Machines /\ n.mem \in Mems /\ n.cr3 \in Frames /\ ed \in Frames /\ ed \in roots
         /\ n.cr3 \in roots
         /\ Running(n) /\ n.fault = "none" /\ ~n.stale /\ n.free \subseteq U /\ TlbOk(n, ed)
         /\ n.mem[n.cr3][R] = Entry(ed) /\ n.mem[ed][R] = Entry(ed)
         /\ ed \in U \ n.free /\ n.cr3 \in U \ n.free /\ U \ n.free \subseteq Frames
<1>1. PICK lv : Tree(n.mem, U \ n.free, lv, roots, n.cr3, ed)
  BY DEF Good
<1>2. /\ n.mem[n.cr3][R] = Entry(ed) /\ n.mem[ed][R] = Entry(ed)
      /\ U \ n.free \subseteq Frames /\ ed \in U \ n.free /\ ed \in roots
      /\ n.cr3 \in U \ n.free /\ n.cr3 \in roots
  BY <1>1, TreeFacts
<1>3. n \in Machines /\ Running(n) /\ ~n.stale /\ n.free \subseteq U /\ TlbOk(n, ed)
  BY DEF Good
<1> QED BY <1>2, <1>3, MachineFacts DEF Running

LEMMA NotNone == \A p \in Pages : p # None /\ p = <<p[1], p[2], p[3], p[4]>>
  BY DEF Pages, None

(* What a reference to the table t is good for. *)
RefOk(n, U, l, va, t) ==
  /\ t \in U \ n.free /\ t \in Frames /\ l \in 1 .. 4 /\ va \in Pages /\ va[1] = R
  /\ Walk(n.mem, n.cr3, va) = t /\ va # None

LEMMA GoodRef ==
  ASSUME NEW n, NEW U, NEW roots, NEW ed, Good(n, U, roots, ed),
         NEW l, NEW va, NEW t, RefAt(n.mem, ed, l, va, t)
  PROVE  RefOk(n, U, l, va, t)
<1>1. PICK lv : Tree(n.mem, U \ n.free, lv, roots, n.cr3, ed)
  BY DEF Good
<1>2. n.mem \in Mems
  BY GoodFacts
<1>3. t \in U \ n.free /\ t \in Frames /\ l \in 1 .. 4 /\ va \in Pages /\ va[1] = R
      /\ Walk(n.mem, n.cr3, va) = t
  BY <1>1, <1>2, RefFacts
<1>4. va # None
  BY <1>3, NotNone
<1> QED BY <1>3, <1>4 DEF RefOk

(* What all operations but unmap do: the entries that are present stay, and
   only references are translated. *)
Grown(n, n2, U) ==
  /\ n2.free \subseteq n.free /\ n2.cr3 = n.cr3
  /\ \A s \in U \ n.free, i \in Idx : n.mem[s][i].p => n2.mem[s][i] = n.mem[s][i]
  /\ \A x \in n2.tlb : x \in n.tlb \/ x[1][1] = R

LEMMA GrownTrans ==
  ASSUME NEW n, NEW n2, NEW n3, NEW U, Grown(n, n2, U), Grown(n2, n3, U)
  PROVE  Grown(n, n3, U)
<1>1. \A s \in U \ n.free : s \in U \ n2.free
  BY DEF Grown
<1>2. \A s \in U \ n.free, i \in Idx : n.mem[s][i].p => n3.mem[s][i] = n.mem[s][i]
  BY <1>1 DEF Grown
<1>3. n3.free \subseteq n.free /\ n3.cr3 = n.cr3 /\ \A x \in n3.tlb : x \in n.tlb \/ x[1][1] = R
  BY DEF Grown
<1> QED BY <1>2, <1>3 DEF Grown

(* The machine n2 is n after an access to the reference va of the table t. *)
Touched(n, n2, va, t) ==
  /\ n2.mem = n.mem /\ n2.free = n.free /\ n2.cr3 = n.cr3 /\ n2.tlb = n.tlb \cup {<<va, t>>}

LEMMA TouchRef ==
  ASSUME NEW n, NEW U, NEW roots, NEW ed, Good(n, U, roots, ed),
         NEW l, NEW va, NEW t, RefAt(n.mem, ed, l, va, t)
  PROVE  /\ Good(Touch(n, va), U, roots, ed) /\ Grown(n, Touch(n, va), U)
         /\ Touched(n, Touch(n, va), va, t)
<1> DEFINE n2 == Touch(n, va)
<1>1. t \in Frames /\ va[1] = R
  <2>1. RefOk(n, U, l, va, t)
    BY GoodRef, Zenon
  <2> QED BY <2>1 DEF RefOk
<1>2. /\ n \in Machines /\ ed \in Frames /\ TlbOk(n, ed) /\ Running(n) /\ ~n.stale /\ n.free \subseteq U
      /\ n.mem[n.cr3][R] = Entry(ed) /\ n.mem[ed][R] = Entry(ed)
  BY GoodFacts
<1>3. /\ n2 \in Machines /\ n2.mem = n.mem /\ n2.free = n.free /\ n2.cr3 = n.cr3
      /\ n2.tlb = n.tlb \cup {<<va, t>>} /\ n2.stale = n.stale /\ n2.fault = n.fault
      /\ TlbOk(n2, ed)
  BY <1>1, <1>2, TouchAny, Zenon
<1> HIDE DEF n2
<1>4. Good(n2, U, roots, ed)
  BY <1>2, <1>3 DEF Good, Running
<1>5. Grown(n, n2, U)
  <2>1. \A x \in n2.tlb : x \in n.tlb \/ x[1][1] = R
    <3> SUFFICES ASSUME NEW x \in n2.tlb, x \notin n.tlb PROVE x[1][1] = R
      OBVIOUS
    <3>1. x = <<va, t>>
      BY <1>3
    <3>2. x[1] = va
      BY <3>1
    <3> QED BY <1>1, <3>2
  <2> QED BY <1>3, <2>1 DEF Grown
<1> QED BY <1>3, <1>4, <1>5 DEF n2, Touched

(* next_level_table_mut *)
Looked(n, c, va, t, i, U, roots, ed) ==
  /\ Good(c.m, U, roots, ed) /\ Grown(n, c.m, U)
  /\ c.m.mem = n.mem /\ c.m.free = n.free
  /\ c.at = IF IsTable(n.mem[t][i]) THEN NextVA(va, i) ELSE None

LEMMA NextLevelFacts ==
  ASSUME NEW n, NEW U, NEW roots, NEW ed, Good(n, U, roots, ed),
         NEW l, NEW va, NEW t, RefAt(n.mem, ed, l, va, t), NEW i \in Low
  PROVE  Looked(n, NextLevel(n, va, i), va, t, i, U, roots, ed)
<1> DEFINE n2 == Touch(n, va)
<1>1. Good(n2, U, roots, ed) /\ Grown(n, n2, U) /\ n2.mem = n.mem /\ n2.free = n.free /\ n2.cr3 = n.cr3
  <2>1. Good(Touch(n, va), U, roots, ed) /\ Grown(n, Touch(n, va), U) /\ Touched(n, Touch(n, va), va, t)
    BY TouchRef, Zenon
  <2> QED BY <2>1 DEF Touched
<1>2. t \in Frames /\ Walk(n.mem, n.cr3, va) = t
  <2>1. RefOk(n, U, l, va, t)
    BY GoodRef, Zenon
  <2> QED BY <2>1 DEF RefOk
<1>3. n2 \in Machines /\ Running(n2)
  BY <1>1, GoodFacts
<1>4. TableAt(n2, va) = n.mem[t]
  BY <1>1, <1>2, <1>3, TableAtFacts
<1>5. NextLevel(n, va, i) = [m  |-> n2, at |-> IF IsTable(n.mem[t][i]) THEN NextVA(va, i) ELSE None]
  BY <1>3, <1>4 DEF NextLevel, EntryTable
<1> HIDE DEF n2
<1> QED BY <1>1, <1>5 DEF Looked
(***************************************************************************)
(* next_level_table_create_mut, in a table t that is not the boot code's   *)
(* level 3 table: nothing without a free frame, or a table below, the one  *)
(* that was there or a new one in a frame that was free.                   *)
(***************************************************************************)
CreatedNone(n, c, t, i) ==
  c.at = None /\ c.m.free = {} /\ n.free = {} /\ c.m.mem = n.mem /\ ~n.mem[t][i].p
CreatedAt(n, c, l, va, t, i, ed) ==
  /\ c.at = NextVA(va, i) /\ c.at # None
  /\ \E u \in Frames :
       /\ Edge(c.m.mem, t, i, u) /\ RefAt(c.m.mem, ed, l - 1, c.at, u)
       /\ \/ n.mem[t][i].p /\ c.m.mem = n.mem /\ c.m.free = n.free
          \/ ~n.mem[t][i].p /\ u \in n.free /\ c.m.free = n.free \ {u} /\ Hung(n.mem, c.m.mem, t, i, u)
Created(n, c, l, va, t, i, U, roots, ed) ==
  /\ Good(c.m, U, roots, ed) /\ Grown(n, c.m, U)
  /\ CreatedNone(n, c, t, i) \/ CreatedAt(n, c, l, va, t, i, ed)

(* The new table, from the frame taken to the table cleared. *)
LEMMA InstallFacts ==
  ASSUME NEW n, NEW U, NEW roots, NEW ed, Good(n, U, roots, ed),
         NEW l, NEW va, NEW t, RefAt(n.mem, ed, l, va, t), l # 1, t # 3, NEW i \in Low,
         ~n.mem[t][i].p, n.free # {}
  PROVE  LET f == Taken(n)
             c == Installed(n, va, i, Entry(f))
         IN /\ Good(c.m, U, roots, ed) /\ Grown(n, c.m, U)
            /\ c.at = NextVA(va, i) /\ c.at # None
            /\ f \in n.free /\ f \in Frames /\ c.m.free = n.free \ {f} /\ Hung(n.mem, c.m.mem, t, i, f)
            /\ Edge(c.m.mem, t, i, f) /\ RefAt(c.m.mem, ed, l - 1, c.at, f)
<1> DEFINE f  == Taken(n)
           S  == U \ n.free
           n2 == TakeOne(n)
           n3 == Store(n2, va, i, Entry(f))
           nva == NextVA(va, i)
           n4 == Touch(n3, nva)
           n5 == StoreTable(n4, nva, FreshTable(f))
<1>1. PICK lv : Tree(n.mem, S, lv, roots, n.cr3, ed)
  BY DEF Good
<1>2. /\ n \in Machines /\ n.mem \in Mems /\ n.cr3 \in Frames /\ ed \in Frames
      /\ n.fault = "none" /\ ~n.stale /\ n.free \subseteq U /\ TlbOk(n, ed)
      /\ n.mem[n.cr3][R] = Entry(ed) /\ n.mem[ed][R] = Entry(ed)
      /\ ed \in S /\ n.cr3 \in S /\ S \subseteq Frames
  BY GoodFacts
<1>3. t \in S /\ t \in Frames /\ lv[t] = l /\ Walk(n.mem, n.cr3, va) = t /\ l \in 1 .. 4
  BY <1>1, <1>2, RefFacts
<1>4. lv[t] > 1
  BY <1>3
<1>5. /\ n2 \in Machines /\ n2.mem = n.mem /\ n2.free = n.free \ {f} /\ SameRest(n, n2)
      /\ f \in n.free /\ f \in Frames /\ f \in Nat
  BY <1>2, TakeFacts
<1> HIDE DEF f, n2
<1>6. f \notin S /\ f # t /\ i \in Idx /\ R \in Idx /\ Entry(f) \in Ents /\ IsTable(Entry(f)) /\ Entry(f).f = f
  BY <1>3, <1>5, EntryFacts, Indices
<1>7. /\ n3 \in Machines /\ Wrote(n.mem, n3.mem, t, i, Entry(f)) /\ n3.free = n.free \ {f}
      /\ SameRest(n, n3)
  <2>1. Walk(n2.mem, n2.cr3, va) = t
    BY <1>3, <1>5 DEF SameRest
  <2>2. n3 \in Machines /\ Wrote(n2.mem, n3.mem, t, i, Entry(f)) /\ n3.free = n2.free /\ SameRest(n2, n3)
    BY <1>3, <1>5, <1>6, <2>1, StoreFacts
  <2> HIDE DEF n3
  <2> QED BY <1>5, <2>2 DEF SameRest
<1> HIDE DEF n3
<1>8. \A s \in S : \A j, x : Edge(n.mem, s, j, x) => Edge(n3.mem, s, j, x)
  <2> SUFFICES ASSUME NEW s \in S, NEW j, NEW x, Edge(n.mem, s, j, x)
               PROVE  Edge(n3.mem, s, j, x)
    OBVIOUS
  <2>1. j \in Idx /\ s \in Frames
    BY <1>2, Indices DEF Edge
  <2>2. s # t \/ j # i
    BY DEF Edge, IsTable
  <2>3. n3.mem[s][j] = n.mem[s][j]
    BY <1>7, <2>1, <2>2 DEF Wrote
  <2> QED BY <2>3 DEF Edge
<1>9. Edge(n3.mem, t, i, f)
  BY <1>6, <1>7 DEF Wrote, Edge
<1>10. \A k, v, x : RefAt(n.mem, ed, k, v, x) => RefAt(n3.mem, ed, k, v, x)
  BY <1>1, <1>8, RefKept
<1>11. \A s \in S, j \in Idx : n.mem[s][j].p => n3.mem[s][j] = n.mem[s][j]
  BY <1>2, <1>7 DEF Wrote
<1>12. TlbOk(n3, ed)
  <2> SUFFICES ASSUME NEW x \in n3.tlb
               PROVE  \/ x[1][1] = R /\ \E k \in 1 .. 4 : RefAt(n3.mem, ed, k, x[1], x[2])
                      \/ Plain(x[1]) /\ n3.mem[n3.cr3][x[1][1]].p
    BY DEF TlbOk
  <2>1. x \in n.tlb
    BY <1>7 DEF SameRest
  <2>2. CASE x[1][1] = R /\ \E k \in 1 .. 4 : RefAt(n.mem, ed, k, x[1], x[2])
    BY <1>10, <2>2
  <2>3. CASE Plain(x[1]) /\ n.mem[n.cr3][x[1][1]].p
    <3>1. x[1][1] \in Idx
      BY <2>3, Indices DEF Plain
    <3> QED BY <1>2, <1>7, <1>11, <2>3, <3>1 DEF SameRest
  <2> QED BY <2>1, <2>2, <2>3, <1>2 DEF TlbOk
<1>13. n3.mem[n3.cr3][R] = Entry(ed) /\ n3.mem[ed][R] = Entry(ed)
  <2>1. Entry(ed).p
    BY <1>2, Frame03, EntryFacts
  <2> QED BY <1>2, <1>6, <1>7, <1>11, <2>1 DEF SameRest
<1>14. RefAt(n3.mem, ed, l - 1, nva, f) /\ nva # None
  BY <1>2, <1>3, <1>9, <1>10, RefNext
<1>15. /\ n4 \in Machines /\ n4.mem = n3.mem /\ n4.free = n3.free /\ n4.cr3 = n3.cr3
       /\ n4.tlb = n3.tlb \cup {<<nva, f>>} /\ n4.stale = n3.stale /\ n4.fault = n3.fault
       /\ TlbOk(n4, ed)
  BY <1>2, <1>5, <1>7, <1>12, <1>13, <1>14, TouchAny
<1>16. Walk(n3.mem, n3.cr3, nva) = f /\ nva[1] = R
  <2>1. n3.mem \in Mems /\ n3.cr3 \in Frames
    BY <1>7, MachineFacts
  <2> QED BY <1>2, <1>13, <1>14, <2>1, RefWalk
<1> HIDE DEF n4
<1>17. /\ n5 \in Machines /\ n5.mem[f] = FreshTable(f) /\ \A s \in Frames \ {f} : n5.mem[s] = n4.mem[s]
       /\ n5.free = n4.free /\ SameRest(n4, n5)
  <2>1. FreshTable(f) \in [Idx -> Ents]
    BY <1>5, FreshFacts
  <2>2. Walk(n4.mem, n4.cr3, nva) = f
    BY <1>15, <1>16
  <2> QED BY <1>5, <1>15, <2>1, <2>2, StoreTableFacts
<1> HIDE DEF n5
<1>18. Hung(n.mem, n5.mem, t, i, f)
  <2>1. n5.mem \in Mems
    BY <1>17, MachineFacts
  <2>2. n5.mem[t][i] = Entry(f)
    BY <1>3, <1>6, <1>7, <1>15, <1>17 DEF Wrote
  <2>3. \A s \in Frames \ {f}, j \in Idx : s # t \/ j # i => n5.mem[s][j] = n.mem[s][j]
    BY <1>7, <1>15, <1>17 DEF Wrote
  <2> QED BY <1>17, <2>1, <2>2, <2>3 DEF Hung
<1>19. PICK lv2 : /\ Tree(n5.mem, S \cup {f}, lv2, roots, n.cr3, ed)
                  /\ \A x \in S : \A j, y : Edge(n.mem, x, j, y) => Edge(n5.mem, x, j, y)
                  /\ Edge(n5.mem, t, i, f)
  <2>1. f \in Frames \ S
    BY <1>5, <1>6
  <2> HIDE DEF S
  <2>2. \E lv2 : Tree(n5.mem, S \cup {f}, lv2, roots, n.cr3, ed)
    BY <1>1, <1>2, <1>3, <1>4, <1>18, <2>1, HungTree, Zenon
  <2>3. \A x \in S : \A j, y : Edge(n.mem, x, j, y) => Edge(n5.mem, x, j, y)
    BY <1>2, <1>18, <2>1, HungEdges
  <2>4. Edge(n5.mem, t, i, f)
    BY <1>18, <2>1, HungEdges
  <2> QED BY <2>2, <2>3, <2>4
<1>20. \A k, v, x : RefAt(n.mem, ed, k, v, x) => RefAt(n5.mem, ed, k, v, x)
  BY <1>1, <1>19, RefKept
<1>21. RefAt(n5.mem, ed, l - 1, nva, f)
  BY <1>2, <1>3, <1>19, <1>20, RefNext
<1>22. n5.free = n.free \ {f} /\ n5.cr3 = n.cr3 /\ n5.fault = "none" /\ ~n5.stale
       /\ n5.tlb = n.tlb \cup {<<nva, f>>}
  BY <1>2, <1>7, <1>15, <1>17 DEF SameRest
<1>23. \A s \in S, j \in Idx : n.mem[s][j].p => n5.mem[s][j] = n.mem[s][j]
  BY <1>2, <1>6, <1>18 DEF Hung
<1>24. Grown(n, n5, U)
  <2>1. \A x \in n5.tlb : x \in n.tlb \/ x[1][1] = R
    <3> SUFFICES ASSUME NEW x \in n5.tlb, x \notin n.tlb PROVE x[1][1] = R
      OBVIOUS
    <3>1. x = <<nva, f>>
      BY <1>22
    <3>2. x[1] = nva
      BY <3>1
    <3> QED BY <1>16, <3>2
  <2> QED BY <1>22, <1>23, <2>1 DEF Grown
<1>25. TlbOk(n5, ed)
  <2> SUFFICES ASSUME NEW x \in n5.tlb
               PROVE  \/ x[1][1] = R /\ \E k \in 1 .. 4 : RefAt(n5.mem, ed, k, x[1], x[2])
                      \/ Plain(x[1]) /\ n5.mem[n5.cr3][x[1][1]].p
    BY DEF TlbOk
  <2>1. CASE x = <<nva, f>>
    <3>1. x[1] = nva /\ x[2] = f
      BY <2>1
    <3>2. l - 1 \in 1 .. 4
      BY <1>3
    <3> QED BY <1>16, <1>21, <3>1, <3>2
  <2>2. CASE x \in n.tlb /\ x[1][1] = R /\ \E k \in 1 .. 4 : RefAt(n.mem, ed, k, x[1], x[2])
    BY <1>20, <2>2
  <2>3. CASE x \in n.tlb /\ Plain(x[1]) /\ n.mem[n.cr3][x[1][1]].p
    <3>1. x[1][1] \in Idx
      BY <2>3, Indices DEF Plain
    <3> QED BY <1>2, <1>22, <1>23, <2>3, <3>1
  <2> QED BY <1>22, <2>1, <2>2, <2>3, <1>2 DEF TlbOk
<1>26. Good(n5, U, roots, ed)
  <2>1. U \ n5.free = S \cup {f}
    BY <1>2, <1>5, <1>22
  <2>2. n5.free \subseteq U
    BY <1>2, <1>22
  <2> QED BY <1>17, <1>19, <1>22, <1>25, <2>1, <2>2 DEF Good, Running
<1>27. Installed(n, va, i, Entry(f)) = [m |-> n5, at |-> nva]
  BY <1>6 DEF Installed, Cleared, n5, n4, n3, n2
<1> HIDE DEF nva
<1>28. /\ Installed(n, va, i, Entry(f)).m = n5 /\ Installed(n, va, i, Entry(f)).at = nva
  BY <1>27
<1> QED BY <1>5, <1>14, <1>18, <1>19, <1>21, <1>22, <1>24, <1>26, <1>28 DEF f, nva
LEMMA CreateFacts ==
  ASSUME NEW n, NEW U, NEW roots, NEW ed, Good(n, U, roots, ed),
         NEW l, NEW va, NEW t, RefAt(n.mem, ed, l, va, t), l # 1, t # 3, NEW i \in Low
  PROVE  Created(n, CreateMut(n, va, i), l, va, t, i, U, roots, ed)
<1> DEFINE d == NextLevel(n, va, i)
           c == CreateMut(n, va, i)
<1>1. /\ Good(d.m, U, roots, ed) /\ Grown(n, d.m, U)
      /\ d.m.mem = n.mem /\ d.m.free = n.free
      /\ d.at = IF IsTable(n.mem[t][i]) THEN NextVA(va, i) ELSE None
  <2>1. Looked(n, d, va, t, i, U, roots, ed)
    BY NextLevelFacts, Zenon
  <2> QED BY <2>1 DEF Looked
<1>2. c = CreateFor(d, va, i)
  BY DEF CreateMut
<1>3. d.m \in Machines /\ Running(d.m) /\ n.mem \in Mems /\ ed \in Frames
  BY <1>1, GoodFacts
<1>4. PICK lv : Tree(n.mem, U \ n.free, lv, roots, n.cr3, ed)
  BY DEF Good
<1>5. t \in U \ n.free /\ t \in Frames /\ Walk(n.mem, n.cr3, va) = t /\ l \in 1 .. 4
  <2>1. RefOk(n, U, l, va, t)
    BY GoodRef, Zenon
  <2> QED BY <2>1 DEF RefOk
<1>6. /\ n.mem[t][i] \in Ents /\ ~n.mem[t][i].h /\ n.mem[t][i].f \in Nat
      /\ ~n.mem[t][i].p \/ Edge(n.mem, t, i, n.mem[t][i].f)
      /\ n.mem[t][i].p <=> IsTable(n.mem[t][i])
  BY <1>3, <1>4, <1>5, AbsentOrEdge, Zenon
<1> HIDE DEF d, c
<1>7. CASE n.mem[t][i].p
  <2> DEFINE u == n.mem[t][i].f
  <2>1. Edge(n.mem, t, i, u)
    BY <1>6, <1>7
  <2> HIDE DEF u
  <2>2. RefAt(n.mem, ed, l - 1, NextVA(va, i), u) /\ NextVA(va, i) # None
    BY <1>3, <1>5, <2>1, RefNext
  <2>3. u \in Frames
    <3>1. RefOk(n, U, l - 1, NextVA(va, i), u)
      BY <2>2, GoodRef, Zenon
    <3> QED BY <3>1 DEF RefOk
  <2>4. d.at = NextVA(va, i)
    BY <1>1, <1>6, <1>7
  <2>5. c = d
    BY <1>2, <2>2, <2>4 DEF CreateFor
  <2>6. CreatedAt(n, c, l, va, t, i, ed)
    BY <1>1, <1>7, <2>1, <2>2, <2>3, <2>4, <2>5 DEF CreatedAt
  <2> QED BY <1>1, <2>5, <2>6 DEF Created, c
<1>8. CASE ~n.mem[t][i].p /\ n.free = {}
  <2>1. c = d /\ d.at = None
    BY <1>1, <1>2, <1>6, <1>8 DEF CreateFor
  <2>2. CreatedNone(n, c, t, i)
    BY <1>1, <1>8, <2>1 DEF CreatedNone
  <2> QED BY <1>1, <2>1, <2>2 DEF Created, c
<1>9. CASE ~n.mem[t][i].p /\ n.free # {}
  <2> DEFINE n1 == d.m
             f  == Taken(n1)
             b  == Installed(n1, va, i, Entry(f))
  <2>1. d.at = None
    BY <1>1, <1>6, <1>9
  <2>2. n1.cr3 = n.cr3
    BY <1>1 DEF Grown
  <2>3. TableAt(n1, va) = n.mem[t]
    BY <1>1, <1>3, <1>5, <2>2, TableAtFacts
  <2>4. f \in Nat
    BY <1>1, <1>3, <1>9, TakeFacts
  <2>5. SetFrame(n.mem[t][i], f) = Entry(f)
    BY <1>6, <2>4, SetFrameFacts
  <2>6. c = b
    BY <1>1, <1>2, <1>3, <1>9, <2>1, <2>3, <2>5 DEF CreateFor
  <2>7. RefAt(n1.mem, ed, l, va, t) /\ ~n1.mem[t][i].p /\ n1.free # {}
    BY <1>1, <1>9
  <2>8. /\ Good(b.m, U, roots, ed) /\ Grown(n1, b.m, U)
        /\ b.at = NextVA(va, i) /\ b.at # None
        /\ f \in n1.free /\ f \in Frames /\ b.m.free = n1.free \ {f} /\ Hung(n1.mem, b.m.mem, t, i, f)
        /\ Edge(b.m.mem, t, i, f) /\ RefAt(b.m.mem, ed, l - 1, b.at, f)
    BY <1>1, <2>7, InstallFacts, Zenon
  <2> HIDE DEF b, f
  <2>9. Grown(n, b.m, U)
    BY <1>1, <2>8, GrownTrans
  <2>10. CreatedAt(n, c, l, va, t, i, ed)
    BY <1>1, <1>9, <2>6, <2>8 DEF CreatedAt
  <2> QED BY <2>6, <2>8, <2>9, <2>10 DEF Created, c
<1> QED BY <1>7, <1>8, <1>9
-------------------------------------------------------------------------------
(***************************************************************************)
(* Paths to level 1 tables that n2 has and n had not: they are of the      *)
(* table ed, with indices in A.                                            *)
(***************************************************************************)
NewPaths(n, n2, roots, ed, A) ==
  \A r \in roots : \A i, j, k, u :
    Path(n2.mem, r, i, j, k, u) => Path(n.mem, r, i, j, k, u) \/ (r = ed /\ <<i, j, k>> \in A)

LEMMA NewPathsSame ==
  ASSUME NEW n, NEW n2, NEW roots, NEW ed, NEW A, n2.mem = n.mem
  PROVE  NewPaths(n, n2, roots, ed, A)
  BY Zenon DEF NewPaths

LEMMA NewPathsTrans ==
  ASSUME NEW n, NEW n2, NEW n3, NEW roots, NEW ed, NEW A,
         NewPaths(n, n2, roots, ed, A), NewPaths(n2, n3, roots, ed, A)
  PROVE  NewPaths(n, n3, roots, ed, A)
  BY Zenon DEF NewPaths

LEMMA NewPathsMore ==
  ASSUME NEW n, NEW n2, NEW roots, NEW ed, NEW A, NEW B, A \subseteq B, NewPaths(n, n2, roots, ed, A)
  PROVE  NewPaths(n, n2, roots, ed, B)
  BY Zenon DEF NewPaths

(* A change of nothing but level 1 tables and recursive entries makes no path. *)
LEMMA PathsBack ==
  ASSUME NEW mem, NEW S, NEW lv, NEW roots, NEW a, NEW ed, Tree(mem, S, lv, roots, a, ed),
         NEW mem2, \A s \in S, i \in Low : lv[s] > 1 => mem2[s][i] = mem[s][i],
         NEW r \in roots, NEW i, NEW j, NEW k, NEW u, Path(mem2, r, i, j, k, u)
  PROVE  Path(mem, r, i, j, k, u)
<1>1. PICK s, t \in Frames : Edge(mem2, r, i, s) /\ Edge(mem2, s, j, t) /\ Edge(mem2, t, k, u)
  BY DEF Path
<1>2. ASSUME NEW x \in S, NEW b, NEW y, lv[x] > 1, Edge(mem2, x, b, y) PROVE Edge(mem, x, b, y)
  <2>1. b \in Low
    BY <1>2 DEF Edge
  <2>2. mem2[x][b] = mem[x][b]
    BY <1>2, <2>1
  <2> QED BY <1>2, <2>2 DEF Edge
<1>3. r \in S /\ lv[r] = 4 /\ lv[r] > 1
  BY TreeFacts
<1>4. Edge(mem, r, i, s)
  BY <1>1, <1>2, <1>3
<1>5. s \in S /\ lv[s] = 3 /\ lv[s] > 1
  BY <1>3, <1>4, Down
<1>6. Edge(mem, s, j, t)
  BY <1>1, <1>2, <1>5
<1>7. t \in S /\ lv[t] = 2 /\ lv[t] > 1
  BY <1>5, <1>6, Down
<1>8. Edge(mem, t, k, u)
  BY <1>1, <1>2, <1>7
<1> QED BY <1>1, <1>4, <1>6, <1>8 DEF Path

(* A new table makes a path only if it is of level 1. *)
UnderNew(mem, S, lv, s, b, r, i, j, k) ==
  k = b /\ lv[s] = 2 /\ \E t \in S : lv[t] = 3 /\ Edge(mem, r, i, t) /\ Edge(mem, t, j, s)

LEMMA HungPath ==
  ASSUME NEW mem, NEW S, NEW lv, NEW roots, NEW a, NEW ed, Tree(mem, S, lv, roots, a, ed),
         NEW s, NEW b, b \in Low, NEW f, f \in Frames, f \notin S, NEW mem2, Hung(mem, mem2, s, b, f)
  PROVE  \A r \in roots : \A i, j, k, u :
           Path(mem2, r, i, j, k, u) => Path(mem, r, i, j, k, u) \/ UnderNew(mem, S, lv, s, b, r, i, j, k)
<1> SUFFICES ASSUME NEW r \in roots, NEW i, NEW j, NEW k, NEW u, Path(mem2, r, i, j, k, u)
             PROVE  Path(mem, r, i, j, k, u) \/ UnderNew(mem, S, lv, s, b, r, i, j, k)
  OBVIOUS
<1>1. PICK t, w \in Frames : Edge(mem2, r, i, t) /\ Edge(mem2, t, j, w) /\ Edge(mem2, w, k, u)
  BY DEF Path
<1>2. r \in S /\ lv[r] = 4 /\ r \in Frames
  BY TreeFacts
<1>3. ASSUME NEW x \in Frames, NEW y, NEW z, Edge(mem2, x, y, z)
      PROVE  x # f /\ (Edge(mem, x, y, z) \/ (x = s /\ y = b /\ z = f))
  <2>1. y \in Low /\ y \in Idx /\ IsTable(mem2[x][y]) /\ mem2[x][y].f = z
    BY <1>3, EdgeFacts
  <2>2. x # f
    <3> SUFFICES ASSUME x = f PROVE FALSE
      OBVIOUS
    <3>1. f \in Nat /\ mem2[f] = FreshTable(f)
      BY Frame03 DEF Hung
    <3>2. mem2[f][y] = Empty
      BY <2>1, <3>1, FreshFacts
    <3> QED BY <2>1, <3>2, EntryFacts
  <2>3. CASE x = s /\ y = b
    <3>1. mem2[x][y] = Entry(f) /\ f \in Nat
      BY <2>3, Frame03 DEF Hung
    <3>2. z = f
      BY <2>1, <3>1, EntryFacts
    <3> QED BY <2>2, <2>3, <3>2
  <2>4. CASE x # s \/ y # b
    <3>1. mem2[x][y] = mem[x][y]
      BY <2>1, <2>2, <2>4 DEF Hung
    <3> QED BY <2>1, <2>2, <3>1 DEF Edge
  <2> QED BY <2>3, <2>4
<1>4. t # f /\ w # f
  BY <1>1, <1>3
<1>5. Edge(mem, r, i, t) /\ Edge(mem, t, j, w)
  BY <1>1, <1>2, <1>3, <1>4
<1>6. t \in S /\ lv[t] = 3
  BY <1>2, <1>5, Down
<1>7. lv[w] = 2
  BY <1>5, <1>6, Down
<1>8. CASE Edge(mem, w, k, u)
  BY <1>1, <1>5, <1>8 DEF Path
<1>9. CASE w = s /\ k = b
  BY <1>5, <1>6, <1>7, <1>9 DEF UnderNew
<1> QED BY <1>1, <1>3, <1>8, <1>9

(* The path that next_level_table_create_mut makes below the reference va. *)
Below2(l, va, I, A) == l = 2 => \A i, j : \A k \in I : va = <<R, R, i, j>> => <<i, j, k>> \in A

LEMMA CreatedPaths ==
  ASSUME NEW n, NEW U, NEW roots, NEW ed, Good(n, U, roots, ed),
         NEW l, NEW va, NEW t, RefAt(n.mem, ed, l, va, t), NEW b \in Low,
         NEW c, Created(n, c, l, va, t, b, U, roots, ed), NEW A, Below2(l, va, {b}, A)
  PROVE  NewPaths(n, c.m, roots, ed, A)
<1>1. PICK lv : Tree(n.mem, U \ n.free, lv, roots, n.cr3, ed)
  BY DEF Good
<1>2. n.mem \in Mems /\ n.free \subseteq U
  BY GoodFacts
<1>3. l \in 1 .. 4 /\ t \in U \ n.free /\ lv[t] = l
  BY <1>1, <1>2, RefFacts
<1>4. CASE c.m.mem = n.mem
  BY <1>4, NewPathsSame
<1>5. CASE \E f \in Frames : f \in n.free /\ Hung(n.mem, c.m.mem, t, b, f)
  <2>1. PICK f \in Frames : f \in n.free /\ Hung(n.mem, c.m.mem, t, b, f)
    BY <1>5
  <2>2. f \in Frames \ (U \ n.free)
    BY <2>1
  <2> SUFFICES ASSUME NEW r \in roots, NEW i, NEW j, NEW k, NEW u, Path(c.m.mem, r, i, j, k, u),
                      ~Path(n.mem, r, i, j, k, u)
               PROVE  r = ed /\ <<i, j, k>> \in A
    BY DEF NewPaths
  <2>3. k = b /\ lv[t] = 2 /\ \E s \in U \ n.free : lv[s] = 3 /\ Edge(n.mem, r, i, s) /\ Edge(n.mem, s, j, t)
    <3>1. \A x \in roots : \A x1, x2, x3, y : Path(c.m.mem, x, x1, x2, x3, y) =>
            Path(n.mem, x, x1, x2, x3, y) \/ UnderNew(n.mem, U \ n.free, lv, t, b, x, x1, x2, x3)
      BY <1>1, <2>1, <2>2, HungPath, Zenon
    <3> QED BY <3>1 DEF UnderNew
  <2>4. PICK s \in U \ n.free : lv[s] = 3 /\ Edge(n.mem, r, i, s) /\ Edge(n.mem, s, j, t)
    BY <2>3
  <2>5. l = 2
    BY <1>3, <2>3
  <2>6. PICK x, y : \E w \in Frames : va = <<R, R, x, y>> /\ Edge(n.mem, ed, x, w) /\ Edge(n.mem, w, y, t)
    BY <2>5 DEF RefAt, Ref2
  <2>7. PICK w \in Frames : va = <<R, R, x, y>> /\ Edge(n.mem, ed, x, w) /\ Edge(n.mem, w, y, t)
    BY <2>6
  <2>8. ed \in U \ n.free /\ lv[ed] = 4 /\ r \in U \ n.free /\ lv[r] = 4
    BY <1>1, TreeFacts
  <2>9. w \in U \ n.free /\ lv[w] = 3
    BY <1>1, <2>7, <2>8, Down
  <2>10. \A z, v \in U \ n.free : \A d, e, q :
           (lv[z] > 1 /\ lv[v] > 1 /\ Edge(n.mem, z, d, q) /\ Edge(n.mem, v, e, q)) => z = v /\ d = e
    BY <1>1 DEF Tree, OneParent
  <2>11. lv[w] > 1 /\ lv[s] > 1 /\ lv[ed] > 1 /\ lv[r] > 1
    BY <2>4, <2>8, <2>9
  <2>12. s = w /\ j = y
    BY <2>4, <2>7, <2>9, <2>10, <2>11
  <2>13. r = ed /\ i = x
    BY <2>4, <2>7, <2>8, <2>10, <2>11, <2>12
  <2>14. <<x, y, b>> \in A
    BY <2>5, <2>7 DEF Below2
  <2> QED BY <2>3, <2>12, <2>13, <2>14
<1>6. c.m.mem = n.mem \/ \E f \in Frames : f \in n.free /\ Hung(n.mem, c.m.mem, t, b, f)
  BY DEF Created, CreatedNone, CreatedAt
<1> QED BY <1>4, <1>5, <1>6
-------------------------------------------------------------------------------
(* The level 1 table of a page, as map finds or makes it. *)
LEMMA GrownEdge ==
  ASSUME NEW n, NEW n2, NEW U, Grown(n, n2, U), NEW s \in U \ n.free, NEW i, NEW x,
         Edge(n.mem, s, i, x)
  PROVE  Edge(n2.mem, s, i, x)
<1>1. i \in Idx /\ n.mem[s][i].p
  BY EdgeFacts
<1>2. n2.mem[s][i] = n.mem[s][i]
  BY <1>1 DEF Grown
<1> QED BY <1>2 DEF Edge

(* No reference but one of level 3 stands for the boot code's level 3 table. *)
LEMMA RefNotBoot ==
  ASSUME NEW n, NEW U, NEW roots, NEW ed, Good(n, U, roots, ed),
         NEW l \in {1, 2, 4}, NEW va, NEW t, RefAt(n.mem, ed, l, va, t)
  PROVE  t # 3
<1>1. PICK lv : Tree(n.mem, U \ n.free, lv, roots, n.cr3, ed)
  BY DEF Good
<1>2. n.mem \in Mems
  BY GoodFacts
<1>3. lv[t] = l
  BY <1>1, <1>2, RefFacts
<1>4. lv[3] = 3
  BY <1>1, BootTable
<1> QED BY <1>3, <1>4

LEMMA OneLevel ==
  ASSUME NEW c, NEW U, NEW roots, NEW ed, Good(c.m, U, roots, ed), c.at # None,
         NEW l, NEW t, RefAt(c.m.mem, ed, l, c.at, t), l # 1, t # 3, NEW i \in Low
  PROVE  Created(c.m, AndThen(c, TRUE, i), l, c.at, t, i, U, roots, ed)
<1>1. Running(c.m)
  BY GoodFacts
<1>2. AndThen(c, TRUE, i) = CreateMut(c.m, c.at, i)
  BY <1>1 DEF AndThen
<1>3. Created(c.m, CreateMut(c.m, c.at, i), l, c.at, t, i, U, roots, ed)
  BY CreateFacts, Zenon
<1> QED BY <1>2, <1>3

(* The page's first index does not lead to the boot code's level 3 table. *)
Clear(mem, ed, p) == ~Edge(mem, ed, p[1], 3)

Lows(p) == p \in Pages /\ \A k \in 1 .. 4 : p[k] \in Low

Reached(n, c, p, U, roots, ed) ==
  /\ Good(c.m, U, roots, ed) /\ Grown(n, c.m, U)
  /\ \/ c.at = None /\ c.m.free = {}
     \/ \E u \in Frames : /\ c.at # None /\ RefAt(c.m.mem, ed, 1, c.at, u)
                          /\ Path(c.m.mem, ed, p[1], p[2], p[3], u)
  /\ \A u : Path(n.mem, ed, p[1], p[2], p[3], u) =>
       c.m.mem = n.mem /\ c.m.free = n.free /\ c.at # None
  /\ NewPaths(n, c.m, roots, ed, {<<p[1], p[2], p[3]>>})

LEMMA Level1Facts ==
  ASSUME NEW n, NEW U, NEW roots, NEW ed, Good(n, U, roots, ed),
         NEW p, p[1] \in Low, p[2] \in Low, p[3] \in Low, Clear(n.mem, ed, p)
  PROVE  Reached(n, Level1(n, p, TRUE), p, U, roots, ed)
<1> DEFINE c0 == [m |-> n, at |-> TOP]
           c1 == AndThen(c0, TRUE, p[1])
           c2 == AndThen(c1, TRUE, p[2])
           c3 == AndThen(c2, TRUE, p[3])
           A  == {<<p[1], p[2], p[3]>>}
<1>1. p[1] \in Low /\ p[2] \in Low /\ p[3] \in Low
  OBVIOUS
<1>2. /\ ed \in Frames /\ ed \in roots /\ n.mem \in Mems /\ ed \in U \ n.free /\ ed \notin n.free
      /\ n.free \subseteq U /\ Running(n)
  BY GoodFacts
<1>3. PICK lv : Tree(n.mem, U \ n.free, lv, roots, n.cr3, ed)
  BY DEF Good
<1>4. 3 \in U \ n.free /\ 3 \notin roots /\ ed # 3
  BY <1>2, <1>3, TreeFacts
<1>5. RefAt(n.mem, ed, 4, TOP, ed) /\ TOP # None
  BY DEF RefAt, TOP, None
<1>6. c0.m = n /\ c0.at = TOP
  OBVIOUS
<1> HIDE DEF c0
<1>7. Created(n, c1, 4, TOP, ed, p[1], U, roots, ed)
  <2>1. Good(c0.m, U, roots, ed) /\ c0.at # None /\ RefAt(c0.m.mem, ed, 4, c0.at, ed) /\ 4 # 1
    BY <1>5, <1>6
  <2>2. Created(c0.m, c1, 4, c0.at, ed, p[1], U, roots, ed)
    BY <1>1, <1>4, <2>1, OneLevel, Zenon
  <2> QED BY <1>6, <2>2
<1>8. Level1(n, p, TRUE) = c3
  BY DEF Level1, c0
<1> HIDE DEF c1
<1>9. Good(c1.m, U, roots, ed) /\ Grown(n, c1.m, U) /\ Running(c1.m)
  BY <1>7, GoodFacts DEF Created
<1>12. NewPaths(n, c1.m, roots, ed, A)
  <2>1. Below2(4, TOP, {p[1]}, A)
    BY DEF Below2
  <2> HIDE DEF A
  <2> QED BY <1>1, <1>5, <1>7, <2>1, CreatedPaths, Zenon
<1>10. CASE CreatedNone(n, c1, ed, p[1])
  <2>1. c1.at = None /\ c1.m.free = {} /\ ~n.mem[ed][p[1]].p
    BY <1>10 DEF CreatedNone
  <2>2. c2 = c1 /\ c3 = c1
    BY <2>1 DEF AndThen
  <2>3. \A u : ~Path(n.mem, ed, p[1], p[2], p[3], u)
    BY <2>1, EdgeFacts DEF Path
  <2> QED BY <1>8, <1>9, <1>12, <2>1, <2>2, <2>3 DEF Reached
<1>11. CASE CreatedAt(n, c1, 4, TOP, ed, p[1], ed)
  <2>1. PICK u1 \in Frames :
          /\ Edge(c1.m.mem, ed, p[1], u1) /\ RefAt(c1.m.mem, ed, 3, c1.at, u1)
          /\ \/ n.mem[ed][p[1]].p /\ c1.m.mem = n.mem /\ c1.m.free = n.free
             \/ ~n.mem[ed][p[1]].p /\ u1 \in n.free
    <3>1. 4 - 1 = 3
      OBVIOUS
    <3> QED BY <1>11, <3>1 DEF CreatedAt
  <2>2. c1.at # None
    BY <1>11 DEF CreatedAt
  <2>3. u1 # 3
    BY <1>4, <2>1 DEF Clear
  <2>4. Created(c1.m, c2, 3, c1.at, u1, p[2], U, roots, ed)
    <3>1. RefAt(c1.m.mem, ed, 3, c1.at, u1) /\ 3 # 1
      BY <2>1
    <3> QED BY <1>1, <1>9, <2>2, <2>3, <3>1, OneLevel, Zenon
  <2> HIDE DEF c2
  <2>5. Good(c2.m, U, roots, ed) /\ Grown(c1.m, c2.m, U) /\ Running(c2.m)
    BY <2>4, GoodFacts DEF Created
  <2>6. Grown(n, c2.m, U)
    BY <1>9, <2>5, GrownTrans
  <2>10. NewPaths(n, c2.m, roots, ed, A)
    <3>1. Below2(3, c1.at, {p[2]}, A)
      BY DEF Below2
    <3> HIDE DEF A
    <3>2. NewPaths(c1.m, c2.m, roots, ed, A)
      BY <1>1, <1>9, <2>1, <2>4, <3>1, CreatedPaths, Zenon
    <3> QED BY <1>12, <3>2, NewPathsTrans
  <2>7. ASSUME NEW u, Path(n.mem, ed, p[1], p[2], p[3], u)
        PROVE  /\ c1.m.mem = n.mem /\ c1.m.free = n.free
               /\ \E t \in Frames : Edge(n.mem, u1, p[2], t) /\ Edge(n.mem, t, p[3], u)
    <3>1. PICK s, t \in Frames : Edge(n.mem, ed, p[1], s) /\ Edge(n.mem, s, p[2], t) /\ Edge(n.mem, t, p[3], u)
      BY <2>7 DEF Path
    <3>2. n.mem[ed][p[1]].p
      BY <3>1, EdgeFacts
    <3>3. c1.m.mem = n.mem /\ c1.m.free = n.free
      BY <2>1, <3>2
    <3>4. s = u1
      BY <2>1, <3>1, <3>3, EdgeUnique
    <3> QED BY <3>1, <3>3, <3>4
  <2>8. CASE CreatedNone(c1.m, c2, u1, p[2])
    <3>1. c2.at = None /\ c2.m.free = {} /\ ~c1.m.mem[u1][p[2]].p
      BY <2>8 DEF CreatedNone
    <3>2. c3 = c2
      BY <3>1 DEF AndThen
    <3>3. \A u : ~Path(n.mem, ed, p[1], p[2], p[3], u)
      BY <2>7, <3>1, EdgeFacts
    <3> QED BY <1>8, <2>5, <2>6, <2>10, <3>1, <3>2, <3>3 DEF Reached
  <2>9. CASE CreatedAt(c1.m, c2, 3, c1.at, u1, p[2], ed)
    <3>1. PICK u2 \in Frames :
            /\ Edge(c2.m.mem, u1, p[2], u2) /\ RefAt(c2.m.mem, ed, 2, c2.at, u2)
            /\ \/ c1.m.mem[u1][p[2]].p /\ c2.m.mem = c1.m.mem /\ c2.m.free = c1.m.free
               \/ ~c1.m.mem[u1][p[2]].p /\ u2 \in c1.m.free
      <4>1. 3 - 1 = 2
        OBVIOUS
      <4> QED BY <2>9, <4>1 DEF CreatedAt
    <3>2. c2.at # None
      BY <2>9 DEF CreatedAt
    <3>3. u2 # 3
      BY <2>5, <3>1, RefNotBoot
    <3>4. Created(c2.m, c3, 2, c2.at, u2, p[3], U, roots, ed)
      <4>1. RefAt(c2.m.mem, ed, 2, c2.at, u2) /\ 2 # 1
        BY <3>1
      <4> QED BY <1>1, <2>5, <3>2, <3>3, <4>1, OneLevel, Zenon
    <3> HIDE DEF c3
    <3>5. Good(c3.m, U, roots, ed) /\ Grown(c2.m, c3.m, U)
      BY <3>4 DEF Created
    <3>6. Grown(n, c3.m, U)
      BY <2>6, <3>5, GrownTrans
    <3>10. NewPaths(n, c3.m, roots, ed, A)
      <4>1. c2.at = <<R, R, p[1], p[2]>>
        BY <1>11, <2>9 DEF CreatedAt, NextVA, TOP
      <4>2. Below2(2, c2.at, {p[3]}, A)
        BY <4>1 DEF Below2
      <4> HIDE DEF A
      <4>3. NewPaths(c2.m, c3.m, roots, ed, A)
        BY <1>1, <2>5, <3>1, <3>4, <4>2, CreatedPaths, Zenon
      <4> QED BY <2>10, <4>3, NewPathsTrans
    <3>7. ASSUME NEW u, Path(n.mem, ed, p[1], p[2], p[3], u)
          PROVE  /\ c2.m.mem = n.mem /\ c2.m.free = n.free
                 /\ Edge(n.mem, u2, p[3], u)
      <4>1. PICK t \in Frames : Edge(n.mem, u1, p[2], t) /\ Edge(n.mem, t, p[3], u)
        BY <2>7, <3>7
      <4>2. c1.m.mem = n.mem /\ c1.m.free = n.free
        BY <2>7, <3>7
      <4>3. n.mem[u1][p[2]].p
        BY <4>1, EdgeFacts
      <4>4. c2.m.mem = n.mem /\ c2.m.free = n.free
        BY <3>1, <4>2, <4>3
      <4>5. t = u2
        BY <3>1, <4>1, <4>4, EdgeUnique
      <4> QED BY <4>1, <4>4, <4>5
    <3>8. CASE CreatedNone(c2.m, c3, u2, p[3])
      <4>1. c3.at = None /\ c3.m.free = {} /\ ~c2.m.mem[u2][p[3]].p
        BY <3>8 DEF CreatedNone
      <4>2. \A u : ~Path(n.mem, ed, p[1], p[2], p[3], u)
        BY <3>7, <4>1, EdgeFacts
      <4> QED BY <1>8, <3>5, <3>6, <3>10, <4>1, <4>2 DEF Reached
    <3>9. CASE CreatedAt(c2.m, c3, 2, c2.at, u2, p[3], ed)
      <4>1. PICK u3 \in Frames :
              /\ Edge(c3.m.mem, u2, p[3], u3) /\ RefAt(c3.m.mem, ed, 1, c3.at, u3)
              /\ \/ c2.m.mem[u2][p[3]].p /\ c3.m.mem = c2.m.mem /\ c3.m.free = c2.m.free
                 \/ ~c2.m.mem[u2][p[3]].p
        <5>1. 2 - 1 = 1
          OBVIOUS
        <5> QED BY <3>9, <5>1 DEF CreatedAt
      <4>2. c3.at # None
        BY <3>9 DEF CreatedAt
      <4>3. u1 \in U \ c2.m.free /\ ed \in U \ c2.m.free
        <5>1. RefOk(c1.m, U, 3, c1.at, u1)
          BY <1>9, <2>1, GoodRef, Zenon
        <5> QED BY <1>2, <1>9, <2>5, <5>1 DEF RefOk, Grown
      <4>4. Edge(c2.m.mem, ed, p[1], u1)
        <5>1. ed \in U \ c1.m.free
          BY <1>2, <1>9 DEF Grown
        <5> QED BY <2>1, <2>5, <5>1, GrownEdge
      <4>5. Edge(c3.m.mem, ed, p[1], u1) /\ Edge(c3.m.mem, u1, p[2], u2)
        BY <3>1, <3>5, <4>3, <4>4, GrownEdge
      <4>6. Path(c3.m.mem, ed, p[1], p[2], p[3], u3)
        BY <4>1, <4>5 DEF Path
      <4>7. \A u : Path(n.mem, ed, p[1], p[2], p[3], u) =>
              c3.m.mem = n.mem /\ c3.m.free = n.free /\ c3.at # None
        BY <3>7, <4>1, <4>2, EdgeFacts
      <4> QED BY <1>8, <3>5, <3>6, <3>10, <4>1, <4>2, <4>6, <4>7 DEF Reached
    <3> QED BY <3>4, <3>8, <3>9 DEF Created
  <2> QED BY <2>4, <2>8, <2>9 DEF Created
<1> QED BY <1>7, <1>10, <1>11 DEF Created
-------------------------------------------------------------------------------
(* map *)
LEMMA TlbKept ==
  ASSUME NEW n, NEW n2, NEW S, NEW lv, NEW roots, NEW ed, Tree(n.mem, S, lv, roots, n.cr3, ed),
         TlbOk(n, ed), n2.tlb = n.tlb, n2.cr3 = n.cr3,
         \A s \in S, j \in Idx : lv[s] > 1 => n2.mem[s][j] = n.mem[s][j]
  PROVE  TlbOk(n2, ed)
<1>1. \A s \in S : \A i, x : lv[s] > 1 /\ Edge(n.mem, s, i, x) => Edge(n2.mem, s, i, x)
  BY Indices DEF Edge
<1>2. \A k, v, x : RefAt(n.mem, ed, k, v, x) => RefAt(n2.mem, ed, k, v, x)
  BY <1>1, RefKept
<1>3. n.cr3 \in S /\ lv[n.cr3] > 1
  BY TreeFacts
<1> SUFFICES ASSUME NEW x \in n2.tlb
             PROVE  \/ x[1][1] = R /\ \E k \in 1 .. 4 : RefAt(n2.mem, ed, k, x[1], x[2])
                    \/ Plain(x[1]) /\ n2.mem[n2.cr3][x[1][1]].p
  BY DEF TlbOk
<1>4. CASE x[1][1] = R /\ \E k \in 1 .. 4 : RefAt(n.mem, ed, k, x[1], x[2])
  BY <1>2, <1>4
<1>5. CASE Plain(x[1]) /\ n.mem[n.cr3][x[1][1]].p
  <2>1. x[1][1] \in Idx
    BY <1>5, Indices DEF Plain
  <2> QED BY <1>3, <1>5, <2>1
<1> QED BY <1>4, <1>5 DEF TlbOk

(* An entry of a level 1 table is written through its reference. *)
LeafSet(n, n2, u, i, e, U, roots, ed) ==
  Good(n2, U, roots, ed) /\ Wrote(n.mem, n2.mem, u, i, e) /\ n2.free = n.free /\ n2.cr3 = n.cr3
  /\ n2.tlb = n.tlb

LEMMA LeafFacts ==
  ASSUME NEW n, NEW U, NEW roots, NEW ed, Good(n, U, roots, ed),
         NEW va, NEW u, RefAt(n.mem, ed, 1, va, u), NEW i \in Low, NEW e \in Ents, ~e.h
  PROVE  LeafSet(n, Store(n, va, i, e), u, i, e, U, roots, ed)
<1> DEFINE n2 == Store(n, va, i, e)
<1>1. /\ n \in Machines /\ n.mem \in Mems /\ n.fault = "none" /\ ~n.stale /\ n.free \subseteq U
      /\ TlbOk(n, ed) /\ U \ n.free \subseteq Frames
  BY GoodFacts
<1>2. PICK lv : Tree(n.mem, U \ n.free, lv, roots, n.cr3, ed)
  BY DEF Good
<1>3. u \in U \ n.free /\ u \in Frames /\ lv[u] = 1 /\ Walk(n.mem, n.cr3, va) = u
  BY <1>1, <1>2, RefFacts
<1>4. i \in Idx
  BY Indices
<1>5. n2 \in Machines /\ Wrote(n.mem, n2.mem, u, i, e) /\ n2.free = n.free /\ SameRest(n, n2)
  BY <1>1, <1>3, <1>4, StoreFacts
<1> HIDE DEF n2
<1>6. Tree(n2.mem, U \ n.free, lv, roots, n.cr3, ed)
  BY <1>1, <1>2, <1>3, <1>5, LeafTree
<1>7. \A s \in U \ n.free, j \in Idx : lv[s] > 1 => n2.mem[s][j] = n.mem[s][j]
  BY <1>1, <1>3, <1>5 DEF Wrote
<1>8. TlbOk(n2, ed)
  BY <1>1, <1>2, <1>5, <1>7, TlbKept DEF SameRest
<1>9. Good(n2, U, roots, ed)
  BY <1>1, <1>5, <1>6, <1>8 DEF Good, SameRest, Running
<1> QED BY <1>5, <1>9 DEF LeafSet, SameRest, n2

MapDone(n, r, p, f, U, roots, ed) ==
  /\ Good(r.m, U, roots, ed) /\ Grown(n, r.m, U)
  /\ \/ r.r = "NoPageTable" /\ r.m.free = {}
     \/ r.r = "AlreadyMapped"
     \/ r.r = "Ok" /\ Chain(r.m.mem, ed, p, f)
  /\ \A u : Path(n.mem, ed, p[1], p[2], p[3], u) /\ ~n.mem[u][p[4]].p =>
       r.r = "Ok" /\ Wrote(n.mem, r.m.mem, u, p[4], Entry(f)) /\ r.m.free = n.free
  /\ NewPaths(n, r.m, roots, ed, {<<p[1], p[2], p[3]>>})

LEMMA MapFacts ==
  ASSUME NEW n, NEW U, NEW roots, NEW ed, Good(n, U, roots, ed),
         NEW p, Lows(p), Clear(n.mem, ed, p), NEW f \in Nat
  PROVE  MapDone(n, Map(n, p, f), p, f, U, roots, ed)
<1> DEFINE c == Level1(n, p, TRUE)
           r == Map(n, p, f)
           i == p[4]
           A == {<<p[1], p[2], p[3]>>}
<1>1. Reached(n, c, p, U, roots, ed)
  <2>1. p[1] \in Low /\ p[2] \in Low /\ p[3] \in Low
    BY DEF Lows
  <2> QED BY <2>1, Level1Facts, Zenon
<1>2. i \in Low /\ i \in Idx /\ p \in Pages
  BY Indices DEF Lows
<1>3. r = MapEntry(c, i, f)
  BY DEF Map
<1> HIDE DEF c, r
<1>4. Good(c.m, U, roots, ed) /\ Grown(n, c.m, U) /\ NewPaths(n, c.m, roots, ed, A)
  BY <1>1 DEF Reached
<1>5. Running(c.m) /\ c.m \in Machines /\ c.m.mem \in Mems
  BY <1>4, GoodFacts
<1>6. CASE c.at = None /\ c.m.free = {}
  <2>1. r = [m |-> c.m, r |-> "NoPageTable"]
    BY <1>3, <1>5, <1>6 DEF MapEntry, Result
  <2>2. r.m = c.m /\ r.r = "NoPageTable"
    BY <2>1
  <2>3. \A u : ~Path(n.mem, ed, p[1], p[2], p[3], u)
    BY <1>1, <1>6 DEF Reached
  <2> QED BY <1>4, <1>6, <2>2, <2>3 DEF MapDone, r
<1>7. CASE \E u \in Frames : /\ c.at # None /\ RefAt(c.m.mem, ed, 1, c.at, u)
                             /\ Path(c.m.mem, ed, p[1], p[2], p[3], u)
  <2>1. PICK u \in Frames : /\ c.at # None /\ RefAt(c.m.mem, ed, 1, c.at, u)
                            /\ Path(c.m.mem, ed, p[1], p[2], p[3], u)
    BY <1>7
  <2> DEFINE n1 == Touch(c.m, c.at)
             e  == c.m.mem[u][i]
             n2 == Store(n1, c.at, i, SetFrame(e, f))
  <2>2. Good(n1, U, roots, ed) /\ Grown(c.m, n1, U) /\ Touched(c.m, n1, c.at, u)
    BY <1>4, <2>1, TouchRef, Zenon
  <2>3. u \in U \ c.m.free /\ Walk(c.m.mem, c.m.cr3, c.at) = u
    <3>1. RefOk(c.m, U, 1, c.at, u)
      BY <1>4, <2>1, GoodRef, Zenon
    <3> QED BY <3>1 DEF RefOk
  <2>4. TableAt(c.m, c.at)[i] = e
    BY <1>5, <2>3, TableAtFacts
  <2>5. \A v : Path(n.mem, ed, p[1], p[2], p[3], v) => v = u /\ c.m.mem = n.mem /\ c.m.free = n.free
    <3> SUFFICES ASSUME NEW v, Path(n.mem, ed, p[1], p[2], p[3], v)
                 PROVE  v = u /\ c.m.mem = n.mem /\ c.m.free = n.free
      OBVIOUS
    <3>1. c.m.mem = n.mem /\ c.m.free = n.free
      BY <1>1 DEF Reached
    <3>2. v = u
      BY <2>1, <3>1, EdgeUnique DEF Path
    <3> QED BY <3>1, <3>2
  <2>6. Running(n1)
    BY <2>2, GoodFacts
  <2>7. CASE e.p
    <3>1. r = [m |-> n1, r |-> "AlreadyMapped"]
      BY <1>3, <1>5, <2>1, <2>4, <2>6, <2>7 DEF MapEntry, Result
    <3> HIDE DEF n1
    <3>2. r.m = n1 /\ r.r = "AlreadyMapped"
      BY <3>1
    <3>3. Grown(n, n1, U)
      BY <1>4, <2>2, GrownTrans
    <3>5. NewPaths(n, n1, roots, ed, A)
      BY <1>4, <2>2 DEF NewPaths, Touched
    <3>4. \A v : ~(Path(n.mem, ed, p[1], p[2], p[3], v) /\ ~n.mem[v][p[4]].p)
      BY <2>5, <2>7
    <3> QED BY <2>2, <3>2, <3>3, <3>4, <3>5 DEF MapDone, r
  <2>8. CASE ~e.p
    <3>1. n1.mem = c.m.mem /\ n1.free = c.m.free
      BY <2>2 DEF Touched
    <3>2. SetFrame(e, f) = Entry(f) /\ Entry(f) \in Ents /\ ~Entry(f).h
      <4>1. e \in Ents /\ ~e.h
        <5>1. PICK lv : Tree(c.m.mem, U \ c.m.free, lv, roots, c.m.cr3, ed)
          BY <1>4 DEF Good
        <5>2. u # 3
          BY <1>4, <2>1, RefNotBoot
        <5> QED BY <1>2, <1>5, <2>3, <5>1, <5>2, AbsentOrEdge
      <4> HIDE DEF e
      <4> QED BY <4>1, SetFrameFacts, EntryFacts
    <3>3. LeafSet(n1, n2, u, i, Entry(f), U, roots, ed)
      <4>1. RefAt(n1.mem, ed, 1, c.at, u) /\ n2 = Store(n1, c.at, i, Entry(f))
        BY <2>1, <3>1, <3>2
      <4> HIDE DEF n1, n2, i
      <4> QED BY <1>2, <2>2, <3>2, <4>1, LeafFacts, Zenon
    <3>4. MapEntry(c, i, f) = Result(n2, "Ok")
      BY <1>5, <2>1, <2>4, <2>8 DEF MapEntry
    <3> HIDE DEF n1, n2
    <3>5. Good(n2, U, roots, ed) /\ Wrote(n1.mem, n2.mem, u, i, Entry(f)) /\ n2.free = n1.free
          /\ n2.cr3 = n1.cr3 /\ n2.tlb = n1.tlb
      BY <3>3 DEF LeafSet
    <3>6. Running(n2)
      BY <3>5, GoodFacts
    <3>7. r.m = n2 /\ r.r = "Ok"
      BY <1>3, <3>4, <3>6 DEF Result
    <3>8. Grown(n1, n2, U)
      <4>1. \A s \in U \ n1.free, j \in Idx : n1.mem[s][j].p => n2.mem[s][j] = n1.mem[s][j]
        <5>1. U \ n1.free \subseteq Frames
          BY <2>2, GoodFacts
        <5> QED BY <2>8, <3>1, <3>5, <5>1 DEF Wrote
      <4> QED BY <3>5, <4>1 DEF Grown
    <3>9. Grown(n, n2, U)
      BY <1>4, <2>2, <3>8, GrownTrans
    <3>10. Chain(n2.mem, ed, p, f)
      <4>1. Edge(n2.mem, u, i, f)
        BY <1>2, <3>5, EntryFacts DEF Wrote, Edge
      <4>2. Path(n2.mem, ed, p[1], p[2], p[3], u)
        <5>1. PICK lv : Tree(n1.mem, U \ n1.free, lv, roots, n1.cr3, ed)
          BY <2>2 DEF Good
        <5>2. PICK s, t \in Frames : Edge(n1.mem, ed, p[1], s) /\ Edge(n1.mem, s, p[2], t) /\ Edge(n1.mem, t, p[3], u)
          BY <2>1, <3>1 DEF Path
        <5>3. ed \in U \ n1.free /\ lv[ed] = 4
          BY <5>1, TreeFacts
        <5>4. s \in U \ n1.free /\ lv[s] = 3
          BY <5>1, <5>2, <5>3, Down
        <5>5. t \in U \ n1.free
          BY <5>1, <5>2, <5>4, Down
        <5>6. Edge(n2.mem, ed, p[1], s) /\ Edge(n2.mem, s, p[2], t) /\ Edge(n2.mem, t, p[3], u)
          BY <3>8, <5>2, <5>3, <5>4, <5>5, GrownEdge
        <5> QED BY <5>6 DEF Path
      <4> QED BY <1>2, <4>1, <4>2 DEF Chain
    <3>11. \A v : Path(n.mem, ed, p[1], p[2], p[3], v) /\ ~n.mem[v][p[4]].p =>
             Wrote(n.mem, n2.mem, v, p[4], Entry(f)) /\ n2.free = n.free
      BY <2>5, <3>1, <3>5
    <3>12. NewPaths(n, n2, roots, ed, A)
      <4>1. PICK lv : Tree(n1.mem, U \ n1.free, lv, roots, n1.cr3, ed)
        BY <2>2 DEF Good
      <4>2. u \in U \ n1.free /\ lv[u] = 1 /\ U \ n1.free \subseteq Frames
        <5>1. n1.mem \in Mems /\ RefAt(n1.mem, ed, 1, c.at, u)
          BY <1>5, <2>1, <3>1
        <5> QED BY <4>1, <5>1, RefFacts, TreeFacts
      <4>3. \A s \in U \ n1.free, j \in Low : lv[s] > 1 => n2.mem[s][j] = n1.mem[s][j]
        BY <3>5, <4>2, Indices DEF Wrote
      <4>4. NewPaths(n1, n2, roots, ed, A)
        BY <4>1, <4>3, PathsBack DEF NewPaths
      <4>5. NewPaths(n, n1, roots, ed, A)
        BY <1>4, <3>1 DEF NewPaths
      <4> HIDE DEF A
      <4> QED BY <4>4, <4>5, NewPathsTrans
    <3> QED BY <3>5, <3>7, <3>9, <3>10, <3>11, <3>12 DEF MapDone, r
  <2> QED BY <2>7, <2>8
<1> QED BY <1>1, <1>6, <1>7 DEF Reached
-------------------------------------------------------------------------------
(* unmap *)
LEMMA OneLook ==
  ASSUME NEW c, NEW U, NEW roots, NEW ed, Good(c.m, U, roots, ed), c.at # None,
         NEW l, NEW t, RefAt(c.m.mem, ed, l, c.at, t), NEW i \in Low
  PROVE  Looked(c.m, AndThen(c, FALSE, i), c.at, t, i, U, roots, ed)
<1>1. Running(c.m)
  BY GoodFacts
<1>2. AndThen(c, FALSE, i) = NextLevel(c.m, c.at, i)
  BY <1>1 DEF AndThen
<1>3. Looked(c.m, NextLevel(c.m, c.at, i), c.at, t, i, U, roots, ed)
  BY NextLevelFacts, Zenon
<1> QED BY <1>2, <1>3

(* One more level: the tables stay, and the reference is good or missing. *)
Seen(n, c, U, roots, ed) ==
  Good(c.m, U, roots, ed) /\ Grown(n, c.m, U) /\ c.m.mem = n.mem /\ c.m.free = n.free

LEMMA LookStep ==
  ASSUME NEW n, NEW c, NEW U, NEW roots, NEW ed, Seen(n, c, U, roots, ed), ed \in Frames, c.at # None,
         NEW l, NEW t, RefAt(n.mem, ed, l, c.at, t), l \in {2, 3, 4}, NEW i \in Low
  PROVE  LET d == AndThen(c, FALSE, i) IN
         /\ Seen(n, d, U, roots, ed)
         /\ \/ d.at = None /\ \A x : ~Edge(n.mem, t, i, x)
            \/ d.at # None /\ \E x \in Frames : Edge(n.mem, t, i, x) /\ RefAt(n.mem, ed, l - 1, d.at, x)
<1> DEFINE d == AndThen(c, FALSE, i)
<1>1. Good(c.m, U, roots, ed) /\ Grown(n, c.m, U) /\ c.m.mem = n.mem /\ c.m.free = n.free
  BY DEF Seen
<1>2. RefAt(c.m.mem, ed, l, c.at, t)
  BY <1>1
<1>3. Looked(c.m, d, c.at, t, i, U, roots, ed)
  BY <1>1, <1>2, OneLook, Zenon
<1> HIDE DEF d
<1>4. /\ Good(d.m, U, roots, ed) /\ Grown(c.m, d.m, U) /\ d.m.mem = n.mem /\ d.m.free = n.free
      /\ d.at = IF IsTable(n.mem[t][i]) THEN NextVA(c.at, i) ELSE None
  BY <1>1, <1>3 DEF Looked
<1>5. Grown(n, d.m, U)
  BY <1>1, <1>4, GrownTrans
<1>6. CASE IsTable(n.mem[t][i])
  <2> DEFINE x == n.mem[t][i].f
  <2>1. Edge(n.mem, t, i, x)
    BY <1>6 DEF Edge
  <2>2. t \in Frames /\ l # 1
    <3>1. RefOk(c.m, U, l, c.at, t)
      BY <1>1, <1>2, GoodRef, Zenon
    <3> QED BY <3>1 DEF RefOk
  <2> HIDE DEF x
  <2>3. RefAt(n.mem, ed, l - 1, NextVA(c.at, i), x) /\ NextVA(c.at, i) # None
    BY <2>1, <2>2, RefNext
  <2>4. RefAt(d.m.mem, ed, l - 1, NextVA(c.at, i), x)
    BY <1>4, <2>3
  <2>5. x \in Frames
    <3>1. RefOk(d.m, U, l - 1, NextVA(c.at, i), x)
      BY <1>4, <2>4, GoodRef, Zenon
    <3> QED BY <3>1 DEF RefOk
  <2> QED BY <1>4, <1>5, <1>6, <2>1, <2>3, <2>5 DEF Seen, d
<1>7. CASE ~IsTable(n.mem[t][i])
  BY <1>4, <1>5, <1>7 DEF Seen, Edge, d
<1> QED BY <1>6, <1>7

Found1(n, c, p, U, roots, ed) ==
  /\ Seen(n, c, U, roots, ed)
  /\ \/ c.at = None /\ \A u : ~Path(n.mem, ed, p[1], p[2], p[3], u)
     \/ \E u \in Frames : /\ c.at # None /\ RefAt(n.mem, ed, 1, c.at, u)
                          /\ Path(n.mem, ed, p[1], p[2], p[3], u)

LEMMA Level1Look ==
  ASSUME NEW n, NEW U, NEW roots, NEW ed, Good(n, U, roots, ed), NEW p, Lows(p)
  PROVE  Found1(n, Level1(n, p, FALSE), p, U, roots, ed)
<1> DEFINE c0 == [m |-> n, at |-> TOP]
           c1 == AndThen(c0, FALSE, p[1])
           c2 == AndThen(c1, FALSE, p[2])
           c3 == AndThen(c2, FALSE, p[3])
<1>1. p[1] \in Low /\ p[2] \in Low /\ p[3] \in Low
  BY DEF Lows
<1>2. ed \in Frames
  BY GoodFacts
<1>3. RefAt(n.mem, ed, 4, TOP, ed) /\ TOP # None /\ 4 \in {2, 3, 4} /\ 3 \in {2, 3, 4} /\ 2 \in {2, 3, 4}
      /\ 4 - 1 = 3 /\ 3 - 1 = 2 /\ 2 - 1 = 1
  BY DEF RefAt, TOP, None
<1>4. c0.m = n /\ c0.at = TOP
  OBVIOUS
<1>5. Level1(n, p, FALSE) = c3
  BY DEF Level1
<1> HIDE DEF c0
<1>6. Seen(n, c0, U, roots, ed) /\ RefAt(n.mem, ed, 4, c0.at, ed) /\ c0.at # None
  BY <1>3, <1>4 DEF Seen, Grown
<1>7. /\ Seen(n, c1, U, roots, ed)
      /\ \/ c1.at = None /\ \A x : ~Edge(n.mem, ed, p[1], x)
         \/ c1.at # None /\ \E x \in Frames : Edge(n.mem, ed, p[1], x) /\ RefAt(n.mem, ed, 4 - 1, c1.at, x)
  BY <1>1, <1>2, <1>3, <1>6, LookStep
<1> HIDE DEF c1
<1>8. CASE c1.at = None /\ \A x : ~Edge(n.mem, ed, p[1], x)
  <2>1. c2 = c1 /\ c3 = c1
    BY <1>8 DEF AndThen
  <2> QED BY <1>5, <1>7, <1>8, <2>1 DEF Found1, Path
<1>9. CASE c1.at # None /\ \E x \in Frames : Edge(n.mem, ed, p[1], x) /\ RefAt(n.mem, ed, 4 - 1, c1.at, x)
  <2>1. PICK s \in Frames : Edge(n.mem, ed, p[1], s) /\ RefAt(n.mem, ed, 3, c1.at, s)
    BY <1>3, <1>9
  <2>2. /\ Seen(n, c2, U, roots, ed)
        /\ \/ c2.at = None /\ \A x : ~Edge(n.mem, s, p[2], x)
           \/ c2.at # None /\ \E x \in Frames : Edge(n.mem, s, p[2], x) /\ RefAt(n.mem, ed, 3 - 1, c2.at, x)
    BY <1>1, <1>2, <1>3, <1>7, <1>9, <2>1, LookStep
  <2> HIDE DEF c2
  <2>3. CASE c2.at = None /\ \A x : ~Edge(n.mem, s, p[2], x)
    <3>1. c3 = c2
      BY <2>3 DEF AndThen
    <3>2. \A u : ~Path(n.mem, ed, p[1], p[2], p[3], u)
      BY <2>1, <2>3, EdgeUnique DEF Path
    <3> QED BY <1>5, <2>2, <2>3, <3>1, <3>2 DEF Found1
  <2>4. CASE c2.at # None /\ \E x \in Frames : Edge(n.mem, s, p[2], x) /\ RefAt(n.mem, ed, 3 - 1, c2.at, x)
    <3>1. PICK t \in Frames : Edge(n.mem, s, p[2], t) /\ RefAt(n.mem, ed, 2, c2.at, t)
      BY <1>3, <2>4
    <3>2. /\ Seen(n, c3, U, roots, ed)
          /\ \/ c3.at = None /\ \A x : ~Edge(n.mem, t, p[3], x)
             \/ c3.at # None /\ \E x \in Frames : Edge(n.mem, t, p[3], x) /\ RefAt(n.mem, ed, 2 - 1, c3.at, x)
      BY <1>1, <1>2, <1>3, <2>2, <2>4, <3>1, LookStep
    <3> HIDE DEF c3
    <3>3. CASE c3.at = None /\ \A x : ~Edge(n.mem, t, p[3], x)
      <4>1. \A u : ~Path(n.mem, ed, p[1], p[2], p[3], u)
        BY <2>1, <3>1, <3>3, EdgeUnique DEF Path
      <4> QED BY <1>5, <3>2, <3>3, <4>1 DEF Found1
    <3>4. CASE c3.at # None /\ \E x \in Frames : Edge(n.mem, t, p[3], x) /\ RefAt(n.mem, ed, 2 - 1, c3.at, x)
      <4>1. PICK u \in Frames : Edge(n.mem, t, p[3], u) /\ RefAt(n.mem, ed, 1, c3.at, u)
        BY <1>3, <3>4
      <4>2. Path(n.mem, ed, p[1], p[2], p[3], u)
        BY <2>1, <3>1, <4>1 DEF Path
      <4> QED BY <1>5, <3>2, <3>4, <4>1, <4>2 DEF Found1
    <3> QED BY <3>2, <3>3, <3>4
  <2> QED BY <2>2, <2>3, <2>4
<1> QED BY <1>7, <1>8, <1>9
LEMMA ChainWalk ==
  ASSUME NEW mem \in Mems, NEW r \in Frames, NEW p, NEW f, Chain(mem, r, p, f)
  PROVE  Walk(mem, r, p) = f
<1>1. PICK u \in Frames : Path(mem, r, p[1], p[2], p[3], u) /\ Edge(mem, u, p[4], f)
  BY DEF Chain
<1>2. PICK s, t \in Frames : Edge(mem, r, p[1], s) /\ Edge(mem, s, p[2], t) /\ Edge(mem, t, p[3], u)
  BY <1>1 DEF Path
<1>3. \A x \in Frames : TableIn(mem, x) = mem[x]
  BY DEF TableIn, Mems
<1>4. ASSUME NEW x, NEW i, NEW y \in Frames, Edge(mem, x, i, y), NEW j, NEW k
      PROVE  Under(mem, mem[x][i], j, k) = mem[y][j]
  BY <1>3, <1>4 DEF Under, IsTable, Edge
<1>5. Under(mem, mem[r][p[1]], p[2], E * E) = mem[s][p[2]]
  BY <1>2, <1>4
<1>6. Under(mem, mem[s][p[2]], p[3], E) = mem[t][p[3]]
  BY <1>2, <1>4
<1>7. Under(mem, mem[t][p[3]], p[4], 1) = mem[u][p[4]]
  BY <1>2, <1>4
<1>8. FrameOf(mem[u][p[4]]) = f
  BY <1>1, EdgeFacts
<1> QED BY <1>3, <1>5, <1>6, <1>7, <1>8 DEF Walk

(* The page was mapped to f, its entry is cleared, and f is free. *)
Cut(n, r, p, f, U, roots, ed) ==
  /\ r.r = "Ok" /\ r.m \in Machines /\ r.m.free = n.free \cup {f} /\ r.m.cr3 = n.cr3
  /\ \E u \in U \ n.free : /\ Path(n.mem, ed, p[1], p[2], p[3], u) /\ Edge(n.mem, u, p[4], f)
                           /\ Wrote(n.mem, r.m.mem, u, p[4], Empty)
  /\ \A x \in r.m.tlb : x \in n.tlb \/ x[1][1] = R
  /\ Good(r.m, U \cup {f}, roots, ed)

UnmapDone(n, r, p, U, roots, ed) ==
  \/ r.r = "NoEntry" /\ Good(r.m, U, roots, ed) /\ Grown(n, r.m, U) /\ r.m.mem = n.mem
     /\ r.m.free = n.free /\ \A f : ~Chain(n.mem, ed, p, f)
  \/ \E f : Cut(n, r, p, f, U, roots, ed)

(* The page leads to no frame but ones that are not tables. *)
LEMMA UnmapFacts ==
  ASSUME NEW n, NEW U, NEW roots, NEW ed, Good(n, U, roots, ed), NEW p, Lows(p),
         \A f : Chain(n.mem, ed, p, f) => f \in Frames \ U
  PROVE  UnmapDone(n, Unmap(n, p), p, U, roots, ed)
<1> DEFINE c == Level1(n, p, FALSE)
           r == Unmap(n, p)
           i == p[4]
<1>1. Found1(n, c, p, U, roots, ed)
  BY Level1Look, Zenon
<1>2. i \in Low /\ i \in Idx /\ p \in Pages
  BY Indices DEF Lows
<1>3. r = UnmapEntry(c, i)
  BY DEF Unmap
<1> HIDE DEF c, r
<1>4. Good(c.m, U, roots, ed) /\ Grown(n, c.m, U) /\ c.m.mem = n.mem /\ c.m.free = n.free
  BY <1>1 DEF Found1, Seen
<1>5. Running(c.m) /\ c.m \in Machines /\ c.m.mem \in Mems /\ n.mem \in Mems
  BY <1>4, GoodFacts
<1>6. CASE c.at = None
  <2>1. r.m = c.m /\ r.r = "NoEntry"
    BY <1>3, <1>5, <1>6 DEF UnmapEntry, Result
  <2>2. \A f : ~Chain(n.mem, ed, p, f)
    BY <1>1, <1>6 DEF Found1, Chain
  <2> QED BY <1>4, <2>1, <2>2 DEF UnmapDone, r
<1>7. CASE \E u \in Frames : /\ c.at # None /\ RefAt(n.mem, ed, 1, c.at, u)
                             /\ Path(n.mem, ed, p[1], p[2], p[3], u)
  <2>1. PICK u \in Frames : /\ c.at # None /\ RefAt(n.mem, ed, 1, c.at, u)
                            /\ Path(n.mem, ed, p[1], p[2], p[3], u)
    BY <1>7
  <2> DEFINE n1 == Touch(c.m, c.at)
             e  == n.mem[u][i]
             n2 == Store(n1, c.at, i, Empty)
             n3 == [n2 EXCEPT !.free = @ \cup {e.f}]
  <2>2. Good(n1, U, roots, ed) /\ Grown(c.m, n1, U) /\ Touched(c.m, n1, c.at, u)
    <3>1. RefAt(c.m.mem, ed, 1, c.at, u)
      BY <1>4, <2>1
    <3> QED BY <1>4, <3>1, TouchRef, Zenon
  <2>3. u \in U \ n.free /\ Walk(n.mem, c.m.cr3, c.at) = u
    <3>1. RefOk(n, U, 1, c.at, u)
      BY <2>1, GoodRef, Zenon
    <3>2. c.m.cr3 = n.cr3
      BY <1>4 DEF Grown
    <3> QED BY <3>1, <3>2 DEF RefOk
  <2>4. TableAt(c.m, c.at)[i] = e
    BY <1>4, <1>5, <2>3, TableAtFacts
  <2>5. Running(n1) /\ n1.mem = n.mem /\ n1.free = n.free /\ n1.cr3 = c.m.cr3 /\ n1 \in Machines
        /\ n1.cr3 = n.cr3
    BY <1>4, <2>2, GoodFacts DEF Touched, Grown
  <2>6. Grown(n, n1, U)
    BY <1>4, <2>2, GrownTrans
  <2>7. CASE ~e.p
    <3>1. r = [m |-> n1, r |-> "NoEntry"]
      BY <1>3, <1>5, <2>1, <2>4, <2>5, <2>7 DEF UnmapEntry, Result
    <3> HIDE DEF n1
    <3>2. r.m = n1 /\ r.r = "NoEntry"
      BY <3>1
    <3>3. \A f : ~Chain(n.mem, ed, p, f)
      BY <2>1, <2>7, EdgeUnique, EdgeFacts DEF Chain, Path
    <3> QED BY <2>2, <2>5, <2>6, <3>2, <3>3 DEF UnmapDone, r
  <2>8. CASE e.p
    <3>1. Edge(n.mem, u, i, e.f)
      <4>1. PICK lv : Tree(n.mem, U \ n.free, lv, roots, n.cr3, ed)
        BY DEF Good
      <4>2. u # 3
        BY <2>1, RefNotBoot
      <4> QED BY <1>2, <1>5, <2>3, <2>8, <4>1, <4>2, AbsentOrEdge
    <3>2. Chain(n.mem, ed, p, e.f)
      BY <1>2, <2>1, <3>1 DEF Chain
    <3>3. e.f \in Frames /\ e.f \notin U
      BY <3>2
    <3>4. Release(n1, c.at, i) = n3
      <4>1. TableAt(n1, c.at)[i] = e
        BY <2>3, <2>5, TableAtFacts
      <4> QED BY <4>1 DEF Release
    <3>5. UnmapEntry(c, i) = Result(n3, "Ok")
      BY <1>5, <2>1, <2>4, <2>8, <3>4 DEF UnmapEntry
    <3>6. LeafSet(n1, n2, u, i, Empty, U, roots, ed)
      <4>1. RefAt(n1.mem, ed, 1, c.at, u) /\ Empty \in Ents /\ ~Empty.h
        BY <2>1, <2>5, EntryFacts
      <4> HIDE DEF n1, i
      <4> QED BY <1>2, <2>2, <4>1, LeafFacts, Zenon
    <3> HIDE DEF n1, n2
    <3>7. Good(n2, U, roots, ed) /\ Wrote(n.mem, n2.mem, u, i, Empty) /\ n2.free = n.free
          /\ n2.cr3 = n.cr3 /\ n2.tlb = n1.tlb
      BY <2>5, <3>6 DEF LeafSet
    <3>8. n2 \in Machines /\ n2.fault = "none" /\ ~n2.stale /\ TlbOk(n2, ed) /\ n2.free \subseteq U
      BY <3>7, GoodFacts
    <3>9. /\ n3 \in Machines /\ n3.mem = n2.mem /\ n3.free = n.free \cup {e.f} /\ n3.cr3 = n.cr3
          /\ n3.tlb = n2.tlb /\ n3.stale = n2.stale /\ n3.fault = n2.fault
      <4> HIDE DEF e
      <4> QED BY <3>3, <3>7, <3>8 DEF Machines
    <3> HIDE DEF n3
    <3>10. Good(n3, U \cup {e.f}, roots, ed)
      <4>1. (U \cup {e.f}) \ n3.free = U \ n2.free /\ n3.free \subseteq U \cup {e.f}
        BY <3>3, <3>7, <3>8, <3>9
      <4>2. PICK lv : Tree(n2.mem, U \ n2.free, lv, roots, n2.cr3, ed)
        BY <3>7 DEF Good
      <4>3. TlbOk(n3, ed)
        BY <3>7, <3>8, <3>9 DEF TlbOk
      <4>4. Tree(n3.mem, (U \cup {e.f}) \ n3.free, lv, roots, n3.cr3, ed)
        BY <3>7, <3>9, <4>1, <4>2
      <4> QED BY <3>8, <3>9, <4>1, <4>3, <4>4 DEF Good, Running
    <3>11. r.m = n3 /\ r.r = "Ok"
      <4>1. Running(n3)
        BY <3>8, <3>9 DEF Running
      <4> QED BY <1>3, <3>5, <4>1 DEF Result
    <3>12. \A x \in n3.tlb : x \in n.tlb \/ x[1][1] = R
      BY <2>6, <3>7, <3>9 DEF Grown
    <3>13. Cut(n, r, p, e.f, U, roots, ed)
      <4> HIDE DEF e
      <4> QED BY <2>1, <2>3, <3>1, <3>7, <3>9, <3>10, <3>11, <3>12 DEF Cut
    <3> QED BY <3>13 DEF UnmapDone, r
  <2> QED BY <2>7, <2>8
<1> QED BY <1>1, <1>6, <1>7 DEF Found1
-------------------------------------------------------------------------------
(* find_empty_pages *)
LEMMA FindFreeOne ==
  ASSUME NEW tab \in [Idx -> Ents]
  PROVE  \/ FindFreeWith(tab, 1) = NoFrame /\ \A j \in Idx \ {0} : tab[j].p
         \/ /\ FindFreeWith(tab, 1) \in Idx \ {0} /\ ~tab[FindFreeWith(tab, 1)].p
            /\ \A j \in 1 .. (FindFreeWith(tab, 1) - 1) : tab[j].p
            /\ FindFreeWith(tab, 1) # NoFrame
<1> DEFINE F == FreeEntries(tab)
<1>1. F \subseteq Nat /\ F = {j \in Idx \ {0} : ~tab[j].p}
  BY Indices DEF FreeEntries
<1> HIDE DEF F
<1>2. CASE F = {}
  <2>1. FindFreeWith(tab, 1) = NoFrame
    BY <1>2 DEF FindFreeWith, F
  <2> QED BY <1>1, <1>2, <2>1
<1>3. CASE F # {}
  <2>1. Min(F) \in F /\ \A j \in F : Min(F) <= j
    BY <1>1, <1>3, MinFacts
  <2>2. Min(F) .. (Min(F) + 1 - 1) \subseteq F
    BY <1>1, <2>1
  <2>3. FindFreeWith(tab, 1) = Min(F)
    BY <2>1, <2>2 DEF FindFreeWith, F
  <2>4. \A j \in 1 .. (Min(F) - 1) : j \in Idx \ {0} /\ j \notin F
    BY <1>1, <2>1, Indices DEF Idx
  <2>5. Min(F) # NoFrame
    BY <1>1, <2>1 DEF NoFrame
  <2> QED BY <1>1, <2>1, <2>3, <2>4, <2>5
<1> QED BY <1>2, <1>3

LEMMA FindFreeFresh ==
  ASSUME NEW f \in Nat, NEW k \in Nat \ {0}
  PROVE  FindFreeWith(FreshTable(f), k) = IF k <= E - 2 THEN 1 ELSE NoFrame
<1> DEFINE F == FreeEntries(FreshTable(f))
<1>1. F = 1 .. (E - 2)
  <2>1. \A j \in Idx \ {0} : ~FreshTable(f)[j].p <=> j # R
    BY FreshFacts, EntryFacts, Indices DEF Low
  <2> QED BY <2>1, Indices DEF FreeEntries, Idx
<1>2. E \in Nat /\ E >= 4
  BY EntriesAssumption
<1> HIDE DEF F
<1>3. 1 \in F /\ F \subseteq Nat
  BY <1>1, <1>2
<1>4. Min(F) = 1
  <2>1. Min(F) \in F /\ Min(F) <= 1
    BY <1>3, MinFacts
  <2> QED BY <1>1, <1>2, <2>1
<1>5. CASE k <= E - 2
  <2>1. 1 \in F /\ 1 .. (1 + k - 1) \subseteq F
    BY <1>1, <1>2, <1>5
  <2> QED BY <1>4, <1>5, <2>1 DEF FindFreeWith, F
<1>6. CASE ~(k <= E - 2)
  <2>1. ASSUME NEW i \in F, i .. (i + k - 1) \subseteq F
        PROVE  FALSE
    <3>1. i + k - 1 \in i .. (i + k - 1) /\ i + k - 1 > E - 2
      BY <1>1, <1>2, <1>6
    <3> QED BY <1>1, <1>2, <2>1, <3>1
  <2> QED BY <1>6, <2>1 DEF FindFreeWith, F
<1> QED BY <1>5, <1>6

(* The tables that were there stay as they were, but for the table t, and there
   all but the entries that are not 0. *)
Apart(n, n2, t) ==
  \A s \in Frames \ n.free, j \in Idx : s # t \/ j = 0 => n2.mem[s][j] = n.mem[s][j]

LEMMA ApartTrans ==
  ASSUME NEW n, NEW n2, NEW n3, NEW t, NEW u, Apart(n, n2, t), Apart(n2, n3, u),
         n2.free \subseteq n.free, u = t \/ u \in n.free
  PROVE  Apart(n, n3, t)
  BY DEF Apart

(* No path that starts with the entry 0 of a root is new. *)
LEMMA ApartPath ==
  ASSUME NEW n, NEW U, NEW roots, NEW ed, Good(n, U, roots, ed), NEW n2, NEW t \in roots,
         Apart(n, n2, t), NEW r \in roots, NEW j, NEW k, NEW u, Path(n2.mem, r, 0, j, k, u)
  PROVE  Path(n.mem, r, 0, j, k, u)
<1>1. PICK lv : Tree(n.mem, U \ n.free, lv, roots, n.cr3, ed)
  BY DEF Good
<1>2. PICK x, y \in Frames : Edge(n2.mem, r, 0, x) /\ Edge(n2.mem, x, j, y) /\ Edge(n2.mem, y, k, u)
  BY DEF Path
<1>3. r \in U \ n.free /\ lv[r] = 4 /\ lv[t] = 4 /\ U \ n.free \subseteq Frames
  BY <1>1, TreeFacts
<1>4. ASSUME NEW s \in U \ n.free, NEW i, NEW z, Edge(n2.mem, s, i, z), s # t \/ i = 0
      PROVE  Edge(n.mem, s, i, z)
  <2>1. i \in Idx
    BY <1>4, Indices DEF Edge
  <2>2. n2.mem[s][i] = n.mem[s][i]
    BY <1>3, <1>4, <2>1 DEF Apart
  <2> QED BY <1>4, <2>2 DEF Edge
<1>5. Edge(n.mem, r, 0, x)
  BY <1>2, <1>3, <1>4
<1>6. x \in U \ n.free /\ lv[x] = 3
  BY <1>1, <1>3, <1>5, Down
<1>7. Edge(n.mem, x, j, y)
  BY <1>2, <1>3, <1>4, <1>6
<1>8. y \in U \ n.free /\ lv[y] = 2
  BY <1>1, <1>6, <1>7, Down
<1>9. Edge(n.mem, y, k, u)
  BY <1>2, <1>3, <1>4, <1>8
<1> QED BY <1>5, <1>7, <1>9 DEF Path

(* One level: no free entry, no free frame, or a new table in the first free entry. *)
FoundNone(r, d, t) ==
  d.at = None /\ d.m.mem = r.m.mem /\ (d.m.free = {} \/ \A j \in Idx \ {0} : d.m.mem[t][j].p)
FoundAt(r, d, l, t, ed) ==
  \E i \in Low \ {0}, u \in Frames :
    /\ d.at # None /\ d.p = Append(r.p, i)
    /\ ~r.m.mem[t][i].p /\ \A j \in 1 .. (i - 1) : r.m.mem[t][j].p
    /\ i = FindFreeWith(r.m.mem[t], 1)
    /\ Edge(d.m.mem, t, i, u) /\ RefAt(d.m.mem, ed, l - 1, d.at, u)
    /\ u \in r.m.free /\ d.m.free = r.m.free \ {u} /\ Hung(r.m.mem, d.m.mem, t, i, u)
FoundStep(r, d, l, t, U, roots, ed) ==
  /\ Good(d.m, U, roots, ed) /\ Grown(r.m, d.m, U)
  /\ FoundNone(r, d, t) \/ FoundAt(r, d, l, t, ed)
  /\ Apart(r.m, d.m, t)

LEMMA FindStepFacts ==
  ASSUME NEW r, NEW U, NEW roots, NEW ed, Good(r.m, U, roots, ed), r.at # None,
         NEW l, NEW t, RefAt(r.m.mem, ed, l, r.at, t), l # 1, t # 3
  PROVE  FoundStep(r, FindStep(r), l, t, U, roots, ed)
<1> DEFINE n1 == Touch(r.m, r.at)
           tab == r.m.mem[t]
           i  == FindFreeWith(tab, 1)
           d  == FindStep(r)
           c  == CreateMut(n1, r.at, i)
<1>1. Running(r.m) /\ r.m \in Machines /\ r.m.mem \in Mems /\ ed \in Frames
  BY GoodFacts
<1>2. t \in U \ r.m.free /\ t \in Frames /\ Walk(r.m.mem, r.m.cr3, r.at) = t
  <2>1. RefOk(r.m, U, l, r.at, t)
    BY GoodRef, Zenon
  <2> QED BY <2>1 DEF RefOk
<1>3. Good(n1, U, roots, ed) /\ Grown(r.m, n1, U) /\ Touched(r.m, n1, r.at, t)
  BY TouchRef, Zenon
<1>4. n1.mem = r.m.mem /\ n1.free = r.m.free /\ Running(n1)
  BY <1>3, GoodFacts DEF Touched
<1>5. TableAt(r.m, r.at) = tab /\ tab \in [Idx -> Ents]
  <2>1. TableAt(r.m, r.at) = tab
    BY <1>1, <1>2, TableAtFacts
  <2>2. tab \in [Idx -> Ents]
    BY <1>1, <1>2 DEF Mems
  <2> QED BY <2>1, <2>2
<1>6. d = FindIn(n1, r, i)
  <2>1. d = FindIn(n1, r, FindFreeWith(TableAt(r.m, r.at), 1))
    BY <1>1 DEF FindStep
  <2> QED BY <1>5, <2>1
<1> HIDE DEF tab, i, d, n1, c
<1>7. \/ i = NoFrame /\ \A j \in Idx \ {0} : tab[j].p
      \/ i \in Idx \ {0} /\ ~tab[i].p /\ (\A j \in 1 .. (i - 1) : tab[j].p) /\ i # NoFrame
  BY <1>5, FindFreeOne DEF i
<1>8. CASE i = NoFrame /\ \A j \in Idx \ {0} : tab[j].p
  <2>1. d.m = n1 /\ d.at = None
    BY <1>6, <1>8 DEF FindIn
  <2>2. FoundNone(r, d, t)
    BY <1>4, <1>8, <2>1 DEF FoundNone, tab
  <2>3. Apart(r.m, d.m, t)
    BY <1>4, <2>1 DEF Apart
  <2> QED BY <1>3, <2>1, <2>2, <2>3 DEF FoundStep, d
<1>9. CASE i \in Idx \ {0} /\ ~tab[i].p /\ (\A j \in 1 .. (i - 1) : tab[j].p) /\ i # NoFrame
  <2>1. i \in Low \ {0}
    <3>1. PICK lv : Tree(r.m.mem, U \ r.m.free, lv, roots, r.m.cr3, ed)
      BY DEF Good
    <3>2. tab[R].p
      <4>1. tab[R] = Entry(IF t = r.m.cr3 THEN ed ELSE t)
        BY <1>2, <3>1 DEF Tree, Selves, tab
      <4>2. (IF t = r.m.cr3 THEN ed ELSE t) \in Nat
        BY <1>1, <1>2, Frame03
      <4> QED BY <4>1, <4>2, EntryFacts
    <3> QED BY <1>9, <3>2 DEF Low
  <2>2. d = [m |-> c.m, at |-> c.at, p |-> Append(r.p, i)]
    BY <1>4, <1>6, <1>9 DEF FindIn, Descended, c
  <2>3. RefAt(n1.mem, ed, l, r.at, t) /\ i \in Low
    BY <1>4, <2>1
  <2>4. Created(n1, c, l, r.at, t, i, U, roots, ed)
    BY <1>3, <2>3, CreateFacts, Zenon DEF c
  <2>5. Good(c.m, U, roots, ed) /\ Grown(r.m, c.m, U) /\ d.m = c.m /\ d.at = c.at /\ d.p = Append(r.p, i)
    <3>1. Good(c.m, U, roots, ed) /\ Grown(n1, c.m, U)
      BY <2>4 DEF Created
    <3>2. Grown(r.m, c.m, U)
      BY <1>3, <3>1, GrownTrans
    <3> QED BY <2>2, <3>1, <3>2
  <2>6. CASE CreatedNone(n1, c, t, i)
    <3>1. FoundNone(r, d, t)
      BY <1>4, <2>5, <2>6 DEF CreatedNone, FoundNone
    <3>2. Apart(r.m, d.m, t)
      BY <3>1 DEF Apart, FoundNone
    <3> QED BY <2>5, <3>1, <3>2 DEF FoundStep, d
  <2>7. CASE CreatedAt(n1, c, l, r.at, t, i, ed)
    <3>1. PICK u \in Frames :
            /\ Edge(c.m.mem, t, i, u) /\ RefAt(c.m.mem, ed, l - 1, c.at, u)
            /\ u \in n1.free /\ c.m.free = n1.free \ {u} /\ Hung(n1.mem, c.m.mem, t, i, u)
      BY <1>4, <1>9, <2>7 DEF CreatedAt, tab
    <3>2. c.at # None
      BY <2>7 DEF CreatedAt
    <3>3. FoundAt(r, d, l, t, ed)
      BY <1>4, <1>9, <2>1, <2>5, <3>1, <3>2 DEF FoundAt, tab, i
    <3>4. Apart(r.m, d.m, t)
      BY <1>4, <2>1, <2>5, <3>1 DEF Apart, Hung
    <3> QED BY <2>5, <3>3, <3>4 DEF FoundStep, d
  <2> QED BY <2>4, <2>6, <2>7 DEF Created
<1> QED BY <1>7, <1>8, <1>9
LEMMA AppendTo ==
  ASSUME NEW s \in Seq(Nat), NEW t \in Seq(Nat), NEW x \in Nat, Len(t) = Len(s) + 1,
         t[Len(s) + 1] = x, \A y \in 1 .. Len(s) : s[y] = t[y]
  PROVE  Append(s, x) = t
<1>1. /\ Append(s, x) \in Seq(Nat) /\ Len(Append(s, x)) = Len(t)
      /\ \A y \in 1 .. Len(s) : Append(s, x)[y] = s[y]
      /\ Append(s, x)[Len(s) + 1] = x
  BY AppendProperties
<1>2. \A y \in 1 .. Len(t) : Append(s, x)[y] = t[y]
  <2>1. Len(s) \in Nat
    OBVIOUS
  <2>2. \A y \in 1 .. Len(t) : y \in 1 .. Len(s) \/ y = Len(s) + 1
    BY <2>1
  <2> QED BY <1>1, <2>2
<1> QED BY <1>1, <1>2, SeqEqual

LEMMA Append1 ==
  ASSUME NEW i \in Nat, NEW x \in Nat
  PROVE  Append(<<i>>, x) = <<i, x>>
<1> DEFINE s == <<i>>
           t == <<i, x>>
<1>1. s \in Seq(Nat) /\ Len(s) = 1 /\ s[1] = i
  OBVIOUS
<1>2. t \in Seq(Nat) /\ Len(t) = 2 /\ t[1] = i /\ t[2] = x
  OBVIOUS
<1> HIDE DEF s, t
<1>3. Len(t) = Len(s) + 1 /\ t[Len(s) + 1] = x /\ \A y \in 1 .. Len(s) : s[y] = t[y]
  BY <1>1, <1>2
<1>4. Append(s, x) = t
  BY <1>1, <1>2, <1>3, AppendTo
<1> QED BY <1>4 DEF s, t

LEMMA Append2 ==
  ASSUME NEW i \in Nat, NEW j \in Nat, NEW x \in Nat
  PROVE  Append(<<i, j>>, x) = <<i, j, x>>
<1> DEFINE s == <<i, j>>
           t == <<i, j, x>>
<1>1. s \in Seq(Nat) /\ Len(s) = 2 /\ s[1] = i /\ s[2] = j
  OBVIOUS
<1>2. t \in Seq(Nat) /\ Len(t) = 3 /\ t[1] = i /\ t[2] = j /\ t[3] = x
  OBVIOUS
<1> HIDE DEF s, t
<1>3. Len(t) = Len(s) + 1 /\ t[Len(s) + 1] = x /\ \A y \in 1 .. Len(s) : s[y] = t[y]
  BY <1>1, <1>2
<1>4. Append(s, x) = t
  BY <1>1, <1>2, <1>3, AppendTo
<1> QED BY <1>4 DEF s, t

LEMMA Append3 ==
  ASSUME NEW i \in Nat, NEW j \in Nat, NEW k \in Nat, NEW x \in Nat
  PROVE  Append(<<i, j, k>>, x) = <<i, j, k, x>>
<1> DEFINE s == <<i, j, k>>
           t == <<i, j, k, x>>
<1>1. s \in Seq(Nat) /\ Len(s) = 3 /\ s[1] = i /\ s[2] = j /\ s[3] = k
  OBVIOUS
<1>2. t \in Seq(Nat) /\ Len(t) = 4 /\ t[1] = i /\ t[2] = j /\ t[3] = k /\ t[4] = x
  OBVIOUS
<1> HIDE DEF s, t
<1>3. Len(t) = Len(s) + 1 /\ t[Len(s) + 1] = x /\ \A y \in 1 .. Len(s) : s[y] = t[y]
  BY <1>1, <1>2
<1>4. Append(s, x) = t
  BY <1>1, <1>2, <1>3, AppendTo
<1> QED BY <1>4 DEF s, t

(* The same in a new table: its first entry that is not 0 is free. *)
FreshAt(r, d, l, t, ed) ==
  \E u \in Frames :
    /\ d.at # None /\ d.p = Append(r.p, 1)
    /\ Edge(d.m.mem, t, 1, u) /\ RefAt(d.m.mem, ed, l - 1, d.at, u)
    /\ u \in r.m.free /\ d.m.free = r.m.free \ {u} /\ d.m.mem[u] = FreshTable(u)
FreshStep(r, d, l, t, U, roots, ed) ==
  /\ Good(d.m, U, roots, ed) /\ Grown(r.m, d.m, U)
  /\ (d.at = None /\ d.m.free = {}) \/ FreshAt(r, d, l, t, ed)
  /\ Apart(r.m, d.m, t)

LEMMA FreshStepFacts ==
  ASSUME NEW r, NEW U, NEW roots, NEW ed, Good(r.m, U, roots, ed), r.at # None,
         NEW l, NEW t \in Frames, RefAt(r.m.mem, ed, l, r.at, t), l # 1, t # 3,
         r.m.mem[t] = FreshTable(t)
  PROVE  FreshStep(r, FindStep(r), l, t, U, roots, ed)
<1> DEFINE d == FindStep(r)
<1>1. FoundStep(r, d, l, t, U, roots, ed)
  BY FindStepFacts, Zenon
<1>2. t \in Nat /\ 1 \in Low /\ 1 \in Idx \ {0} /\ 1 <= E - 2
  BY Frame03, Indices
<1>3. FindFreeWith(r.m.mem[t], 1) = 1
  BY <1>2, FindFreeFresh
<1>4. ~r.m.mem[t][1].p
  BY <1>2, FreshFacts, EntryFacts
<1> HIDE DEF d
<1>5. Good(d.m, U, roots, ed) /\ Grown(r.m, d.m, U) /\ Apart(r.m, d.m, t)
  BY <1>1 DEF FoundStep
<1>6. CASE FoundNone(r, d, t)
  <2>1. d.at = None /\ d.m.free = {}
    BY <1>2, <1>4, <1>6 DEF FoundNone
  <2> QED BY <1>5, <2>1 DEF FreshStep, d
<1>7. CASE FoundAt(r, d, l, t, ed)
  <2>1. FreshAt(r, d, l, t, ed)
    BY <1>3, <1>7 DEF FoundAt, FreshAt, Hung
  <2> QED BY <1>5, <2>1 DEF FreshStep, d
<1> QED BY <1>1, <1>6, <1>7 DEF FoundStep

Room(n, r, k, U, ed) ==
  \E i \in Low \ {0}, u \in Frames :
    /\ r.p = <<i, 1, 1, 1>> /\ k <= E - 2
    /\ ~n.mem[ed][i].p /\ \A j \in 1 .. (i - 1) : n.mem[ed][j].p
    /\ Path(r.m.mem, ed, i, 1, 1, u) /\ r.m.mem[u] = FreshTable(u) /\ u \in U \ r.m.free
    /\ ~Edge(r.m.mem, ed, i, 3) /\ u \in n.free
NoRoom(r, k, ed) ==
  /\ r.p = None
  /\ r.m.free = {} \/ (\A j \in Idx \ {0} : r.m.mem[ed][j].p) \/ k > E - 2
Found(n, r, k, U, roots, ed) ==
  /\ Good(r.m, U, roots, ed) /\ Grown(n, r.m, U)
  /\ NoRoom(r, k, ed) \/ Room(n, r, k, U, ed)
  /\ Apart(n, r.m, ed)

LEMMA FindFacts ==
  ASSUME NEW n, NEW U, NEW roots, NEW ed, Good(n, U, roots, ed), NEW k \in Nat \ {0}
  PROVE  Found(n, FindEmptyPages(n, k), k, U, roots, ed)
<1> DEFINE r0 == [m |-> n, at |-> TOP, p |-> << >>]
           r1 == FindStep(r0)
           r2 == FindStep(r1)
           r3 == FindStep(r2)
           r  == FindLast(r3, k)
<1>1. FindEmptyPages(n, k) = r
  BY DEF FindEmptyPages
<1>2. /\ ed \in Frames /\ ed \in roots /\ n.mem \in Mems /\ ed \in U \ n.free /\ n.free \subseteq U
      /\ U \ n.free \subseteq Frames
  BY GoodFacts
<1>3. 3 \in U \ n.free /\ ed # 3
  <2>1. PICK lv : Tree(n.mem, U \ n.free, lv, roots, n.cr3, ed)
    BY DEF Good
  <2> QED BY <1>2, <2>1, TreeFacts
<1>4. r0.m = n /\ r0.at = TOP /\ r0.p = << >>
  OBVIOUS
<1> HIDE DEF r0
<1>5. Good(r0.m, U, roots, ed) /\ r0.at # None /\ RefAt(r0.m.mem, ed, 4, r0.at, ed) /\ 4 # 1
  BY <1>4 DEF RefAt, TOP, None
<1>6. FoundStep(r0, r1, 4, ed, U, roots, ed)
  BY <1>3, <1>5, FindStepFacts, Zenon
<1>7. 1 \in Low /\ 1 # 0 /\ 1 <= E - 2 /\ 4 - 1 = 3 /\ 3 - 1 = 2 /\ 2 - 1 = 1
  BY Indices
<1>8. ASSUME NEW x \in Nat PROVE FindFreeWith(FreshTable(x), 1) = 1
  BY <1>7, FindFreeFresh
<1> HIDE DEF r1
<1>9. Good(r1.m, U, roots, ed) /\ Grown(n, r1.m, U) /\ Running(r1.m) /\ Apart(n, r1.m, ed)
  BY <1>4, <1>6, GoodFacts DEF FoundStep
<1>10. CASE FoundNone(r0, r1, ed)
  <2>1. r2 = r1 /\ r3 = r1 /\ r = [m |-> r1.m, p |-> None]
    BY <1>10 DEF FoundNone, FindStep, FindLast
  <2>2. r.m = r1.m /\ r.p = None
    BY <2>1
  <2>3. NoRoom(r, k, ed)
    BY <1>10, <2>2 DEF NoRoom, FoundNone
  <2> QED BY <1>1, <1>9, <2>2, <2>3 DEF Found
<1>11. CASE FoundAt(r0, r1, 4, ed, ed)
  <2>1. PICK i \in Low \ {0}, u1 \in Frames :
          /\ r1.at # None /\ r1.p = Append(<< >>, i)
          /\ ~n.mem[ed][i].p /\ \A j \in 1 .. (i - 1) : n.mem[ed][j].p
          /\ Edge(r1.m.mem, ed, i, u1) /\ RefAt(r1.m.mem, ed, 3, r1.at, u1)
          /\ u1 \in n.free /\ r1.m.free = n.free \ {u1} /\ r1.m.mem[u1] = FreshTable(u1)
    BY <1>4, <1>7, <1>11 DEF FoundAt, Hung
  <2>2. u1 # 3 /\ 3 # 1 /\ u1 \in U \ r1.m.free /\ ed \in U \ r1.m.free
    BY <1>2, <1>3, <2>1
  <2>3. FreshStep(r1, r2, 3, u1, U, roots, ed)
    BY <1>9, <2>1, <2>2, FreshStepFacts, Zenon
  <2> HIDE DEF r2
  <2>4. Good(r2.m, U, roots, ed) /\ Grown(r1.m, r2.m, U) /\ Running(r2.m) /\ Apart(r1.m, r2.m, u1)
    BY <2>3, GoodFacts DEF FreshStep
  <2>5. Grown(n, r2.m, U) /\ Apart(n, r2.m, ed)
    BY <1>9, <2>1, <2>4, GrownTrans, ApartTrans DEF Grown
  <2>6. Edge(r2.m.mem, ed, i, u1) /\ ed \in U \ r2.m.free /\ u1 \in U \ r2.m.free
    <3>1. Edge(r2.m.mem, ed, i, u1)
      BY <2>1, <2>2, <2>4, GrownEdge
    <3> QED BY <2>2, <2>4, <3>1 DEF Grown
  <2>7. CASE r2.at = None /\ r2.m.free = {}
    <3>1. r3 = r2 /\ r = [m |-> r2.m, p |-> None]
      BY <2>7 DEF FindStep, FindLast
    <3>2. r.m = r2.m /\ r.p = None
      BY <3>1
    <3>3. NoRoom(r, k, ed)
      BY <2>7, <3>2 DEF NoRoom
    <3> QED BY <1>1, <2>4, <2>5, <3>2, <3>3 DEF Found
  <2>8. CASE FreshAt(r1, r2, 3, u1, ed)
    <3>1. PICK u2 \in Frames :
            /\ r2.at # None /\ r2.p = Append(r1.p, 1)
            /\ Edge(r2.m.mem, u1, 1, u2) /\ RefAt(r2.m.mem, ed, 2, r2.at, u2)
            /\ u2 \in r1.m.free /\ r2.m.free = r1.m.free \ {u2} /\ r2.m.mem[u2] = FreshTable(u2)
      BY <1>7, <2>8 DEF FreshAt
    <3>2. u2 # 3 /\ 2 # 1 /\ u2 \in U \ r2.m.free
      BY <1>2, <1>3, <2>1, <3>1
    <3>3. FreshStep(r2, r3, 2, u2, U, roots, ed)
      BY <2>4, <3>1, <3>2, FreshStepFacts, Zenon
    <3> HIDE DEF r3
    <3>4. Good(r3.m, U, roots, ed) /\ Grown(r2.m, r3.m, U) /\ Running(r3.m) /\ Apart(r2.m, r3.m, u2)
      BY <3>3, GoodFacts DEF FreshStep
    <3>5. Grown(n, r3.m, U) /\ Apart(n, r3.m, ed)
      BY <2>1, <2>5, <3>1, <3>4, GrownTrans, ApartTrans DEF Grown
    <3>6. Edge(r3.m.mem, ed, i, u1) /\ Edge(r3.m.mem, u1, 1, u2) /\ ed \in U \ r3.m.free
      <4>1. Edge(r3.m.mem, ed, i, u1) /\ Edge(r3.m.mem, u1, 1, u2)
        BY <2>6, <3>1, <3>4, GrownEdge
      <4> QED BY <2>6, <3>4, <4>1 DEF Grown
    <3>7. CASE r3.at = None /\ r3.m.free = {}
      <4>1. r.m = r3.m /\ r.p = None
        BY <3>7 DEF FindLast
      <4>2. NoRoom(r, k, ed)
        BY <3>7, <4>1 DEF NoRoom
      <4> QED BY <1>1, <3>4, <3>5, <4>1, <4>2 DEF Found
    <3>8. CASE FreshAt(r2, r3, 2, u2, ed)
      <4>1. PICK u3 \in Frames :
              /\ r3.at # None /\ r3.p = Append(r2.p, 1)
              /\ Edge(r3.m.mem, u2, 1, u3) /\ RefAt(r3.m.mem, ed, 1, r3.at, u3)
              /\ u3 \in r2.m.free /\ r3.m.free = r2.m.free \ {u3} /\ r3.m.mem[u3] = FreshTable(u3)
        BY <1>7, <3>8 DEF FreshAt
      <4>2. u3 \in U \ r3.m.free /\ u3 \in Nat
        BY <1>2, <2>1, <3>1, <4>1, Frame03
      <4>3. TableAt(r3.m, r3.at) = FreshTable(u3)
        <5>1. RefOk(r3.m, U, 1, r3.at, u3)
          BY <3>4, <4>1, GoodRef, Zenon
        <5>2. r3.m \in Machines
          BY <3>4, GoodFacts
        <5>3. TableAt(r3.m, r3.at) = r3.m.mem[u3]
          BY <5>1, <5>2, TableAtFacts DEF RefOk
        <5> QED BY <4>1, <5>3
      <4> DEFINE n4 == Touch(r3.m, r3.at)
                 x  == IF k <= E - 2 THEN 1 ELSE NoFrame
      <4>4. Good(n4, U, roots, ed) /\ Grown(r3.m, n4, U) /\ Touched(r3.m, n4, r3.at, u3)
        BY <3>4, <4>1, TouchRef, Zenon
      <4>5. r = LastIndex(r3, x)
        BY <3>4, <4>1, <4>2, <4>3, FindFreeFresh DEF FindLast
      <4>6. r.m = n4 /\ r.p = IF x = NoFrame THEN None ELSE Append(r3.p, x)
        BY <4>5 DEF LastIndex
      <4> HIDE DEF n4, r
      <4>7. Grown(n, r.m, U) /\ Good(r.m, U, roots, ed) /\ Apart(n, r.m, ed)
        <5>1. Apart(n, r.m, ed)
          BY <3>5, <4>4, <4>6 DEF Touched, Apart
        <5> QED BY <3>5, <4>4, <4>6, <5>1, GrownTrans
      <4>8. CASE k > E - 2
        <5>1. r.p = None
          BY <4>6, <4>8, Indices
        <5> QED BY <1>1, <4>7, <4>8, <5>1 DEF Found, NoRoom
      <4>9. CASE k <= E - 2
        <5>1. r.p = Append(r3.p, 1)
          BY <4>6, <4>9 DEF NoFrame
        <5>2. r.p = <<i, 1, 1, 1>>
          <6>1. r1.p = <<i>> /\ i \in Nat /\ 1 \in Nat
            BY <2>1, Indices
          <6>2. r2.p = <<i, 1>>
            <7>1. Append(<<i>>, 1) = <<i, 1>>
              BY <6>1, Append1
            <7> QED BY <3>1, <6>1, <7>1
          <6>3. r3.p = <<i, 1, 1>>
            <7>1. Append(<<i, 1>>, 1) = <<i, 1, 1>>
              BY <6>1, Append2, Zenon
            <7> QED BY <4>1, <6>2, <7>1
          <6>4. Append(<<i, 1, 1>>, 1) = <<i, 1, 1, 1>>
            BY <6>1, Append3, Zenon
          <6> QED BY <5>1, <6>3, <6>4
        <5>3. r.m.mem = r3.m.mem /\ r.m.free = r3.m.free
          BY <4>4, <4>6 DEF Touched
        <5>4. Path(r.m.mem, ed, i, 1, 1, u3)
          BY <3>6, <4>1, <5>3 DEF Path
        <5>5. ~Edge(r.m.mem, ed, i, 3)
          BY <2>2, <3>6, <5>3, EdgeUnique
        <5>6. Room(n, r, k, U, ed)
          BY <2>1, <3>1, <4>1, <4>2, <4>9, <5>2, <5>3, <5>4, <5>5 DEF Room
        <5> QED BY <1>1, <4>7, <5>6 DEF Found
      <4>10. k <= E - 2 \/ k > E - 2
        BY Indices
      <4> QED BY <4>8, <4>9, <4>10
    <3> QED BY <3>3, <3>7, <3>8 DEF FreshStep
  <2> QED BY <2>3, <2>7, <2>8 DEF FreshStep
<1> QED BY <1>6, <1>10, <1>11 DEF FoundStep
-------------------------------------------------------------------------------
(* A frame mapped where find_empty_pages finds a page. *)
Full(mem, r) == \A j \in Idx \ {0} : mem[r][j].p

FoundDone(n, t, f, U, roots, ed) ==
  /\ Good(t.m, U, roots, ed) /\ Grown(n, t.m, U) /\ Apart(n, t.m, ed)
  /\ \/ t.r = "NoEntry" /\ (t.m.free = {} \/ Full(t.m.mem, ed))
     \/ /\ t.r = "Ok" /\ Chain(t.m.mem, ed, t.p, f) /\ Lows(t.p)
        /\ ~n.mem[ed][t.p[1]].p /\ \A j \in 1 .. (t.p[1] - 1) : n.mem[ed][j].p

LEMMA FoundPageFacts ==
  ASSUME NEW i \in Low, NEW x \in Low
  PROVE  /\ <<i, 1, 1, x>> \in Pages /\ Lows(<<i, 1, 1, x>>) /\ <<i, 1, 1, x>> # None
         /\ <<i, 1, 1, x>>[1] = i /\ <<i, 1, 1, x>>[2] = 1 /\ <<i, 1, 1, x>>[3] = 1
         /\ <<i, 1, 1, x>>[4] = x
<1> DEFINE p == <<i, 1, 1, x>>
<1>1. p[1] = i /\ p[2] = 1 /\ p[3] = 1 /\ p[4] = x
  OBVIOUS
<1>2. p \in Pages
  BY Indices DEF Pages
<1> HIDE DEF p
<1>3. \A k \in 1 .. 4 : p[k] \in Low
  <2>1. \A k \in 1 .. 4 : k = 1 \/ k = 2 \/ k = 3 \/ k = 4
    OBVIOUS
  <2> QED BY <1>1, <2>1, Indices
<1>4. Lows(p)
  BY <1>2, <1>3 DEF Lows
<1>5. p # None
  BY <1>2, NotNone
<1> QED BY <1>1, <1>2, <1>4, <1>5 DEF p

LEMMA MapFoundFacts ==
  ASSUME NEW n, NEW U, NEW roots, NEW ed, Good(n, U, roots, ed), NEW f \in Nat
  PROVE  FoundDone(n, MapFound(n, f), f, U, roots, ed)
<1> DEFINE d == FindEmptyPages(n, 1)
           t == MapFound(n, f)
           r == Map(d.m, d.p, f)
<1>1. Found(n, d, 1, U, roots, ed)
  <2>1. 1 \in Nat \ {0}
    OBVIOUS
  <2> QED BY <2>1, FindFacts, Zenon
<1>2. t = MapAt(d, f)
  BY DEF MapFound
<1> HIDE DEF d, t
<1>3. Good(d.m, U, roots, ed) /\ Grown(n, d.m, U) /\ Running(d.m) /\ Apart(n, d.m, ed)
  BY <1>1, GoodFacts DEF Found
<1>4. CASE NoRoom(d, 1, ed)
  <2>1. t.m = d.m /\ t.r = "NoEntry"
    BY <1>2, <1>4 DEF MapAt, NoRoom
  <2>2. ~(1 > E - 2)
    BY Indices
  <2>3. d.m.free = {} \/ Full(d.m.mem, ed)
    BY <1>4, <2>2 DEF NoRoom, Full
  <2> QED BY <1>3, <2>1, <2>3 DEF FoundDone, t
<1>5. CASE Room(n, d, 1, U, ed)
  <2>1. PICK i \in Low \ {0}, u \in Frames :
          /\ d.p = <<i, 1, 1, 1>>
          /\ ~n.mem[ed][i].p /\ \A j \in 1 .. (i - 1) : n.mem[ed][j].p
          /\ Path(d.m.mem, ed, i, 1, 1, u) /\ d.m.mem[u] = FreshTable(u)
          /\ ~Edge(d.m.mem, ed, i, 3) /\ u \in n.free
    BY <1>5 DEF Room
  <2>2. /\ Lows(d.p) /\ d.p # None /\ d.p[1] = i /\ d.p[2] = 1 /\ d.p[3] = 1 /\ d.p[4] = 1
    BY <2>1, FoundPageFacts, Indices
  <2>3. Clear(d.m.mem, ed, d.p)
    BY <2>1, <2>2 DEF Clear
  <2>4. MapDone(d.m, r, d.p, f, U, roots, ed)
    BY <1>3, <2>2, <2>3, MapFacts, Zenon
  <2>5. t.m = r.m /\ t.p = d.p /\ t.r = r.r
    BY <1>2, <1>3, <2>2 DEF MapAt, At
  <2> HIDE DEF r
  <2>6. ~d.m.mem[u][1].p
    BY <2>1, Frame03, FreshFacts, EntryFacts, Indices
  <2>7. /\ r.r = "Ok" /\ Good(r.m, U, roots, ed) /\ Grown(d.m, r.m, U)
        /\ Wrote(d.m.mem, r.m.mem, u, 1, Entry(f))
    BY <2>1, <2>2, <2>4, <2>6 DEF MapDone
  <2>8. Chain(r.m.mem, ed, d.p, f)
    BY <2>4, <2>7 DEF MapDone
  <2>9. Grown(n, r.m, U)
    BY <1>3, <2>7, GrownTrans
  <2>10. Apart(n, r.m, ed)
    <3>1. Apart(d.m, r.m, u)
      BY <2>7 DEF Apart, Wrote
    <3> QED BY <1>3, <2>1, <3>1, ApartTrans DEF Grown
  <2> QED BY <2>1, <2>2, <2>5, <2>7, <2>8, <2>9, <2>10 DEF FoundDone, t
<1> QED BY <1>1, <1>4, <1>5 DEF Found

(* Where the kernel stops, it ran out of frames or of pages. *)
Stop(n) ==
  /\ n.fault \in {"panic", "general_protection"} /\ ~n.stale
  /\ n.free = {} \/ Crowded(n.mem, n.cr3)

LEMMA FullCrowded == \A mem, r : Full(mem, r) => Crowded(mem, r)
  BY Indices DEF Full, Crowded, Idx, Low

(* A page found beyond the canonical ones is found because those are taken. *)
LEMMA FoundCrowded ==
  ASSUME NEW n, NEW n2, NEW U, NEW a \in U \ n.free, Grown(n, n2, U), NEW i \in Low, ~(i < Half),
         \A j \in 1 .. (i - 1) : n.mem[a][j].p
  PROVE  Crowded(n2.mem, a)
<1>1. ASSUME NEW j \in 1 .. (Half - 1) PROVE n2.mem[a][j].p
  <2>1. j \in 1 .. (i - 1) /\ j \in Idx
    BY Indices DEF Idx
  <2> QED BY <2>1 DEF Grown
<1> QED BY <1>1 DEF Crowded

(* The entries of the tables that are present stay. *)
Kept(n, n2, U) ==
  \A s \in U \ n.free, i \in Low : n.mem[s][i].p => n2.mem[s][i] = n.mem[s][i]

LEMMA KeptChain ==
  ASSUME NEW n, NEW n2, NEW U, NEW roots, NEW ed, Good(n, U, roots, ed), Kept(n, n2, U),
         NEW r \in roots, NEW p, NEW f, Chain(n.mem, r, p, f)
  PROVE  Chain(n2.mem, r, p, f)
<1>1. PICK lv : Tree(n.mem, U \ n.free, lv, roots, n.cr3, ed)
  BY DEF Good
<1>2. PICK u \in Frames : Path(n.mem, r, p[1], p[2], p[3], u) /\ Edge(n.mem, u, p[4], f)
  BY DEF Chain
<1>3. PICK s, t \in Frames : Edge(n.mem, r, p[1], s) /\ Edge(n.mem, s, p[2], t) /\ Edge(n.mem, t, p[3], u)
  BY <1>2 DEF Path
<1>4. r \in U \ n.free /\ lv[r] = 4
  BY <1>1, TreeFacts
<1>5. s \in U \ n.free /\ lv[s] = 3
  BY <1>1, <1>3, <1>4, Down
<1>6. t \in U \ n.free /\ lv[t] = 2
  BY <1>1, <1>3, <1>5, Down
<1>7. u \in U \ n.free
  BY <1>1, <1>3, <1>6, Down
<1>8. ASSUME NEW x \in U \ n.free, NEW i, NEW y, Edge(n.mem, x, i, y) PROVE Edge(n2.mem, x, i, y)
  <2>1. i \in Low /\ n.mem[x][i].p
    BY <1>8, EdgeFacts
  <2>2. n2.mem[x][i] = n.mem[x][i]
    BY <2>1 DEF Kept
  <2> QED BY <1>8, <2>2 DEF Edge
<1>9. Path(n2.mem, r, p[1], p[2], p[3], u) /\ Edge(n2.mem, u, p[4], f)
  BY <1>2, <1>3, <1>4, <1>5, <1>6, <1>7, <1>8 DEF Path
<1> QED BY <1>9 DEF Chain

LEMMA GrownKept ==
  ASSUME NEW n, NEW n2, NEW U, Grown(n, n2, U)
  PROVE  Kept(n, n2, U)
  BY Indices DEF Grown, Kept
-------------------------------------------------------------------------------
(* A machine that stopped for want of frames or of pages, its tables in order. *)
Halted(n, U, roots, ed) ==
  \E n1 : \E w \in {"panic", "general_protection"} :
    /\ n = Fault(n1, w) /\ Good(n1, U, roots, ed)
    /\ n1.free = {} \/ Crowded(n1.mem, n1.cr3)

LEMMA HaltFacts ==
  ASSUME NEW n, NEW U, NEW roots, NEW ed, Halted(n, U, roots, ed)
  PROVE  ~Running(n) /\ Stop(n) /\ n.fault # "page_fault" /\ ~n.stale
<1>1. PICK n1 : \E w \in {"panic", "general_protection"} :
        /\ n = Fault(n1, w) /\ Good(n1, U, roots, ed)
        /\ n1.free = {} \/ Crowded(n1.mem, n1.cr3)
  BY DEF Halted
<1>2. PICK w \in {"panic", "general_protection"} :
        /\ n = Fault(n1, w) /\ Good(n1, U, roots, ed)
        /\ n1.free = {} \/ Crowded(n1.mem, n1.cr3)
  BY <1>1
<1>3. n1 \in Machines /\ ~n1.stale
  BY <1>2, GoodFacts
<1>4. /\ n.mem = n1.mem /\ n.free = n1.free /\ n.cr3 = n1.cr3 /\ n.stale = n1.stale
      /\ n.fault = w /\ ~Running(n)
  BY <1>2, <1>3, FaultFacts
<1> QED BY <1>2, <1>3, <1>4 DEF Stop

(* A new root: the tables of InActivePageTable::new. *)
Made(n, r, U, roots, a) ==
  /\ r.f \in Frames /\ r.f \in n.free /\ r.p # None /\ r.m.cr3 = n.cr3
  /\ Good(r.m, U, roots \cup {r.f}, a)
  /\ r.m.free \subseteq n.free /\ Kept(n, r.m, U)
  /\ Apart(n, r.m, a) /\ r.m.mem[r.f] = FreshTable(r.f)
NewDone(n, r, U, roots, a) ==
  \/ r.m = n /\ r.p = None /\ r.f = NoFrame
  \/ Made(n, r, U, roots, a)
  \/ Kept(n, r.m, U) /\ Apart(n, r.m, a) /\ r.m.cr3 = n.cr3 /\ \E V : Halted(r.m, V, roots, a)

LEMMA TakenGood ==
  ASSUME NEW n, NEW U, NEW roots, NEW ed, Good(n, U, roots, ed), n.free # {}
  PROVE  /\ Good(TakeOne(n), U \ {Taken(n)}, roots, ed)
         /\ Taken(n) \in n.free /\ Taken(n) \in Frames /\ Taken(n) \in Nat
         /\ TakeOne(n).mem = n.mem /\ TakeOne(n).free = n.free \ {Taken(n)}
         /\ TakeOne(n).cr3 = n.cr3 /\ TakeOne(n).tlb = n.tlb
         /\ (U \ {Taken(n)}) \ TakeOne(n).free = U \ n.free
<1> DEFINE f == Taken(n)
           n0 == TakeOne(n)
<1>1. n \in Machines /\ Running(n) /\ ~n.stale /\ n.free \subseteq U /\ TlbOk(n, ed)
  BY GoodFacts
<1>2. /\ n0 \in Machines /\ n0.mem = n.mem /\ n0.free = n.free \ {f} /\ SameRest(n, n0)
      /\ f \in n.free /\ f \in Frames /\ f \in Nat
  BY <1>1, TakeFacts
<1> HIDE DEF f, n0
<1>3. (U \ {f}) \ n0.free = U \ n.free /\ n0.free \subseteq U \ {f}
  BY <1>1, <1>2
<1>4. n0.cr3 = n.cr3 /\ n0.tlb = n.tlb /\ n0.stale = n.stale /\ n0.fault = n.fault
  BY <1>2 DEF SameRest
<1>5. TlbOk(n0, ed)
  BY <1>1, <1>2, <1>4 DEF TlbOk
<1>6. \E lv : Tree(n0.mem, (U \ {f}) \ n0.free, lv, roots, n0.cr3, ed)
  BY <1>2, <1>3, <1>4 DEF Good
<1>7. Running(n0) /\ ~n0.stale
  BY <1>1, <1>4 DEF Running
<1>8. Good(n0, U \ {f}, roots, ed)
  BY <1>2, <1>3, <1>5, <1>6, <1>7 DEF Good
<1> QED BY <1>2, <1>3, <1>4, <1>8 DEF f, n0

(* A frame that is not a table becomes a root, cleared through a page that leads to it. *)
Rooted(n, n2, f, V, roots, ed) ==
  /\ Good(n2, V \cup {f}, roots \cup {f}, ed) /\ n2.free = n.free /\ n2.cr3 = n.cr3
  /\ n2.mem[f] = FreshTable(f) /\ \A s \in Frames \ {f} : n2.mem[s] = n.mem[s]

LEMMA RootedFacts ==
  ASSUME NEW n, NEW V, NEW roots, NEW ed, Good(n, V, roots, ed), NEW f \in Frames \ V,
         NEW p, Chain(n.mem, n.cr3, p, f), Plain(p), \A x \in n.tlb : x[1] # p
  PROVE  Rooted(n, StoreTable(Touch(n, p), p, FreshTable(f)), f, V, roots, ed)
<1> DEFINE n2 == Touch(n, p)
           n3 == StoreTable(n2, p, FreshTable(f))
           S  == V \ n.free
<1>1. /\ n \in Machines /\ n.mem \in Mems /\ n.cr3 \in Frames /\ Running(n) /\ ~n.stale
      /\ n.free \subseteq V /\ TlbOk(n, ed) /\ n.cr3 \in S
  BY GoodFacts
<1>2. Walk(n.mem, n.cr3, p) = f /\ p \in Pages /\ f \in Nat /\ f \in Frames
  BY <1>1, ChainWalk, Frame03 DEF Plain
<1>3. n2 = Access(n, p, f)
  BY <1>2 DEF Touch
<1>4. /\ n2 \in Machines /\ n2.mem = n.mem /\ n2.free = n.free /\ n2.cr3 = n.cr3
      /\ n2.tlb = n.tlb \cup {<<p, f>>} /\ n2.stale = n.stale /\ n2.fault = n.fault
  BY <1>1, <1>2, <1>3, AccessFacts
<1> HIDE DEF n2
<1>5. FreshTable(f) \in [Idx -> Ents]
  BY <1>2, FreshFacts
<1>6. /\ n3 \in Machines /\ n3.mem[f] = FreshTable(f)
      /\ \A s \in Frames \ {f} : n3.mem[s] = n2.mem[s]
      /\ n3.free = n2.free /\ SameRest(n2, n3)
  BY <1>2, <1>4, <1>5, StoreTableFacts
<1> HIDE DEF n3
<1>7. PICK lv : Tree(n.mem, S, lv, roots, n.cr3, ed)
  BY DEF Good
<1>8. S \subseteq Frames /\ f \notin S
  BY <1>7, TreeFacts
<1>9. \A s \in S : n3.mem[s] = n.mem[s]
  BY <1>4, <1>6, <1>8
<1>10. n3.mem \in Mems /\ n3.cr3 = n.cr3 /\ n3.tlb = n2.tlb /\ n3.fault = n.fault /\ n3.stale = n.stale
  BY <1>4, <1>6, MachineFacts DEF SameRest
<1>11. \E lv2 : Tree(n3.mem, S \cup {f}, lv2, roots \cup {f}, n.cr3, ed)
  BY <1>1, <1>2, <1>6, <1>7, <1>8, <1>9, <1>10, RootTree
<1>12. (V \cup {f}) \ n3.free = S \cup {f} /\ n3.free \subseteq V \cup {f}
  BY <1>1, <1>4, <1>6
<1>13. TlbOk(n3, ed)
  <2>1. \A s \in S : \A i, x : lv[s] > 1 /\ Edge(n.mem, s, i, x) => Edge(n3.mem, s, i, x)
    BY <1>9 DEF Edge
  <2> SUFFICES ASSUME NEW x \in n3.tlb
               PROVE  \/ x[1][1] = R /\ \E l \in 1 .. 4 : RefAt(n3.mem, ed, l, x[1], x[2])
                      \/ Plain(x[1]) /\ n3.mem[n3.cr3][x[1][1]].p
    BY DEF TlbOk
  <2>2. CASE x = <<p, f>>
    <3>1. PICK u \in Frames : Path(n.mem, n.cr3, p[1], p[2], p[3], u)
      BY DEF Chain
    <3>2. PICK s \in Frames : Edge(n.mem, n.cr3, p[1], s)
      BY <3>1 DEF Path
    <3>3. n.mem[n.cr3][p[1]].p
      BY <3>2, EdgeFacts
    <3>4. x[1] = p
      BY <2>2
    <3> QED BY <1>1, <1>9, <1>10, <3>3, <3>4
  <2>3. CASE x \in n.tlb
    <3>1. CASE x[1][1] = R /\ \E l \in 1 .. 4 : RefAt(n.mem, ed, l, x[1], x[2])
      <4>1. PICK l \in 1 .. 4 : RefAt(n.mem, ed, l, x[1], x[2])
        BY <3>1
      <4>2. RefAt(n3.mem, ed, l, x[1], x[2])
        BY <1>7, <2>1, <4>1, RefKept
      <4> QED BY <3>1, <4>2
    <3>2. CASE Plain(x[1]) /\ n.mem[n.cr3][x[1][1]].p
      BY <1>1, <1>9, <1>10, <3>2
    <3> QED BY <1>1, <2>3, <3>1, <3>2 DEF TlbOk
  <2> QED BY <1>4, <1>10, <2>2, <2>3
<1>14. Running(n3) /\ ~n3.stale
  BY <1>1, <1>10 DEF Running
<1>15. Good(n3, V \cup {f}, roots \cup {f}, ed)
  BY <1>6, <1>10, <1>11, <1>12, <1>13, <1>14 DEF Good
<1> QED BY <1>4, <1>6, <1>10, <1>15 DEF Rooted, n3, n2

LEMMA NewTableFacts ==
  ASSUME NEW n, NEW U, NEW roots, Good(n, U, roots, n.cr3)
  PROVE  NewDone(n, NewTable(n), U, roots, n.cr3)
<1> DEFINE f  == Taken(n)
           n0 == TakeOne(n)
           V  == U \ {f}
           t  == MapFound(n0, f)
           r  == NewTable(n)
           a  == n.cr3
<1>1. CASE n.free = {}
  <2>1. r.m = n /\ r.p = None /\ r.f = NoFrame
    BY <1>1 DEF NewTable
  <2> QED BY <2>1 DEF NewDone
<1>2. CASE n.free # {}
  <2>1. /\ Good(n0, V, roots, a) /\ f \in n.free /\ f \in Frames /\ f \in Nat
        /\ n0.mem = n.mem /\ n0.free = n.free \ {f} /\ n0.cr3 = a /\ n0.tlb = n.tlb
        /\ V \ n0.free = U \ n.free
    BY <1>2, TakenGood
  <2>2. FoundDone(n0, t, f, V, roots, a)
    BY <2>1, MapFoundFacts, Zenon
  <2>3. r = NewAt(t, f)
    BY <1>2 DEF NewTable
  <2> HIDE DEF t, n0, f, r
  <2>4. Good(t.m, V, roots, a) /\ Grown(n0, t.m, V) /\ Apart(n0, t.m, a)
    BY <2>2 DEF FoundDone
  <2>5. t.m \in Machines /\ Running(t.m) /\ n.free \subseteq U /\ TlbOk(n, a) /\ a \in U \ n.free
        /\ U \ n.free \subseteq Frames
    BY <2>4, GoodFacts
  <2>6. t.m.cr3 = a /\ t.m.free \subseteq n.free \ {f}
    BY <2>1, <2>4 DEF Grown
  <2>7. Kept(n, t.m, U)
    <3>1. Kept(n0, t.m, V)
      BY <2>4, GrownKept
    <3> QED BY <2>1, <3>1 DEF Kept
  <2>10. Apart(n, t.m, a)
    BY <2>1, <2>4 DEF Apart
  <2>8. CASE t.r = "NoEntry" /\ (t.m.free = {} \/ Full(t.m.mem, a))
    <3>1. r.m = Fault(t.m, "panic")
      BY <2>3, <2>5, <2>8 DEF NewAt
    <3>2. t.m.free = {} \/ Crowded(t.m.mem, t.m.cr3)
      BY <2>6, <2>8, FullCrowded
    <3>3. Halted(r.m, V, roots, a)
      BY <2>4, <3>1, <3>2 DEF Halted
    <3>4. r.m.mem = t.m.mem /\ r.m.cr3 = a
      BY <2>5, <2>6, <3>1, FaultFacts
    <3>5. Kept(n, r.m, U)
      BY <2>7, <3>4 DEF Kept
    <3>6. Apart(n, r.m, a)
      BY <2>10, <3>4 DEF Apart
    <3> QED BY <3>3, <3>4, <3>5, <3>6 DEF NewDone, r
  <2>9. CASE /\ t.r = "Ok" /\ Chain(t.m.mem, a, t.p, f) /\ Lows(t.p)
             /\ ~n0.mem[a][t.p[1]].p /\ \A j \in 1 .. (t.p[1] - 1) : n0.mem[a][j].p
    <3>1. r = ClearNew(TouchFound(t.m, t.p), t.p, f)
      BY <2>3, <2>9 DEF NewAt
    <3>2. t.p \in Pages /\ t.p[1] \in Low /\ t.p # None /\ t.p[1] # R
      BY <2>9, NotNone, Indices DEF Lows
    <3>3. CASE ~(t.p[1] < Half)
      <4>1. TouchFound(t.m, t.p) = Fault(t.m, "general_protection")
        BY <3>3 DEF TouchFound
      <4> DEFINE n2 == Fault(t.m, "general_protection")
      <4>2. n2.mem = t.m.mem /\ n2.cr3 = a /\ ~Running(n2)
        BY <2>5, <2>6, FaultFacts
      <4>3. r.m = n2
        BY <3>1, <4>1, <4>2 DEF ClearNew
      <4>4. Crowded(t.m.mem, a)
        <5>1. a \in V \ n0.free
          BY <2>1, <2>5
        <5> QED BY <2>4, <2>9, <3>2, <3>3, <5>1, FoundCrowded
      <4>5. Halted(r.m, V, roots, a)
        BY <2>4, <2>6, <4>3, <4>4 DEF Halted
      <4> HIDE DEF n2
      <4>6. Kept(n, r.m, U)
        BY <2>7, <4>2, <4>3 DEF Kept
      <4>7. Apart(n, r.m, a)
        BY <2>10, <4>2, <4>3 DEF Apart
      <4> QED BY <4>2, <4>3, <4>5, <4>6, <4>7 DEF NewDone, r
    <3>4. CASE t.p[1] < Half
      <4>1. TouchFound(t.m, t.p) = Touch(t.m, t.p)
        BY <3>4 DEF TouchFound
      <4>2. Plain(t.p)
        <5>1. t.p[1] # Half
          BY <3>4, Indices
        <5> QED BY <2>9, <5>1 DEF Plain, Lows
      <4>3. \A x \in t.m.tlb : x[1] # t.p
        <5> SUFFICES ASSUME NEW x \in t.m.tlb, x[1] = t.p PROVE FALSE
          OBVIOUS
        <5>1. x[1][1] # R
          BY <3>2
        <5>2. x \in n.tlb
          BY <2>1, <2>4, <5>1 DEF Grown
        <5>3. n.mem[a][x[1][1]].p
          BY <2>5, <5>1, <5>2 DEF TlbOk
        <5> QED BY <2>1, <2>9, <5>3
      <4> DEFINE n2 == Touch(t.m, t.p)
                 n3 == StoreTable(n2, t.p, FreshTable(f))
      <4>4. Rooted(t.m, n3, f, V, roots, a)
        <5>1. f \in Frames \ V /\ Chain(t.m.mem, t.m.cr3, t.p, f)
          BY <2>1, <2>6, <2>9
        <5> QED BY <2>4, <4>2, <4>3, <5>1, RootedFacts, Zenon
      <4>5. Running(n2)
        <5>1. Walk(t.m.mem, a, t.p) = f
          BY <2>5, <2>9, ChainWalk, MachineFacts
        <5>2. n2 = Access(t.m, t.p, f)
          BY <2>6, <5>1 DEF Touch
        <5>3. \A x \in t.m.tlb : x[1] = t.p => x[2] = f
          BY <4>3
        <5>4. n2.fault = t.m.fault
          BY <2>1, <2>5, <3>2, <5>2, <5>3, AccessFacts
        <5> QED BY <2>5, <5>4 DEF Running
      <4>6. r.m = n3 /\ r.p = t.p /\ r.f = f
        BY <3>1, <4>1, <4>5 DEF ClearNew
      <4> HIDE DEF n2, n3
      <4>7. V \cup {f} = U
        BY <2>1, <2>5
      <4>8. Good(r.m, U, roots \cup {f}, a) /\ r.m.free = t.m.free /\ r.m.cr3 = t.m.cr3
        BY <4>4, <4>6, <4>7 DEF Rooted
      <4>9. Kept(n, r.m, U)
        <5>1. \A s \in U \ n.free : r.m.mem[s] = t.m.mem[s]
          BY <2>1, <2>5, <4>4, <4>6 DEF Rooted
        <5> QED BY <2>7, <5>1 DEF Kept
      <4>11. Apart(n, r.m, a) /\ r.m.mem[r.f] = FreshTable(r.f)
        <5>1. r.m.mem[f] = FreshTable(f) /\ \A s \in Frames \ {f} : r.m.mem[s] = t.m.mem[s]
          BY <4>4, <4>6 DEF Rooted
        <5> QED BY <2>1, <2>10, <4>6, <5>1 DEF Apart
      <4>10. Made(n, r, U, roots, a)
        BY <2>1, <2>6, <3>2, <4>6, <4>8, <4>9, <4>11 DEF Made
      <4> QED BY <4>10 DEF NewDone, r
    <3> QED BY <3>3, <3>4
  <2> QED BY <2>2, <2>8, <2>9 DEF FoundDone
<1> QED BY <1>1, <1>2
-------------------------------------------------------------------------------
(* The recursive entry of the active table, written where va leads to that table. *)
Redirected(n, n2, U, roots, ed2) ==
  /\ Good(n2, U, roots, ed2) /\ n2.tlb = {} /\ n2.free = n.free /\ n2.cr3 = n.cr3 /\ Kept(n, n2, U)
  /\ Apart(n, n2, n.cr3)

LEMMA KeptTrans ==
  ASSUME NEW n, NEW n2, NEW n3, NEW U, Kept(n, n2, U), Kept(n2, n3, U), n2.free \subseteq n.free
  PROVE  Kept(n, n3, U)
<1> SUFFICES ASSUME NEW s \in U \ n.free, NEW i \in Low, n.mem[s][i].p
             PROVE  n3.mem[s][i] = n.mem[s][i]
  BY DEF Kept
<1>1. n2.mem[s][i] = n.mem[s][i] /\ s \in U \ n2.free
  BY DEF Kept
<1>2. n2.mem[s][i].p
  BY <1>1
<1> QED BY <1>1, <1>2 DEF Kept

LEMMA RedirectFacts ==
  ASSUME NEW n \in Machines, NEW U, NEW roots, NEW ed, Running(n), ~n.stale, n.free \subseteq U,
         NEW lv, Tree(n.mem, U \ n.free, lv, roots, n.cr3, ed), NEW va,
         Walk(n.mem, n.cr3, va) = n.cr3, NEW ed2 \in roots
  PROVE  Redirected(n, Redirect(n, va, ed2), U, roots, ed2)
<1> DEFINE a  == n.cr3
           e  == SetFrame(TableAt(n, va)[R], ed2)
           n2 == Store(n, va, R, e)
           n3 == FlushAll(n2)
           S  == U \ n.free
<1>1. S \subseteq Frames /\ S \subseteq Nat /\ roots \subseteq S /\ a \in S /\ ed \in S /\ n.mem[a][R] = Entry(ed)
  BY TreeFacts
<1>2. TableAt(n, va) = n.mem[a]
  BY <1>1, TableAtFacts
<1>3. ed2 \in Nat /\ ed2 \in Frames /\ ed \in Nat /\ R \in Idx
  BY <1>1, Indices
<1>4. Entry(ed) \in Ents /\ ~Entry(ed).h /\ Entry(ed2) \in Ents
  BY <1>3, EntryFacts
<1>5. e = Entry(ed2)
  <2>1. e = SetFrame(Entry(ed), ed2)
    BY <1>1, <1>2
  <2>2. SetFrame(Entry(ed), ed2) = Entry(ed2)
    BY <1>3, <1>4, SetFrameFacts
  <2> QED BY <2>1, <2>2
<1> HIDE DEF e
<1>6. n2 \in Machines /\ Wrote(n.mem, n2.mem, a, R, Entry(ed2)) /\ n2.free = n.free /\ SameRest(n, n2)
  BY <1>1, <1>3, <1>4, <1>5, StoreFacts
<1> HIDE DEF n2
<1>7. /\ n3 \in Machines /\ n3.mem = n2.mem /\ n3.free = n2.free /\ n3.cr3 = n2.cr3
      /\ n3.tlb = {} /\ n3.stale = n2.stale /\ n3.fault = n2.fault
  BY <1>6, FlushFacts
<1> HIDE DEF n3
<1>8. n.mem \in Mems
  BY MachineFacts
<1>9. Tree(n2.mem, S, lv, roots, a, ed2)
  BY <1>6, <1>8, SelfTree
<1>10. /\ n3.free = n.free /\ n3.cr3 = n.cr3 /\ n3.stale = n.stale /\ n3.fault = n.fault
       /\ U \ n3.free = S
  BY <1>6, <1>7 DEF SameRest
<1>11. Tree(n3.mem, U \ n3.free, lv, roots, n3.cr3, ed2)
  BY <1>7, <1>9, <1>10
<1>12. TlbOk(n3, ed2)
  BY <1>7 DEF TlbOk
<1>13. Running(n3) /\ ~n3.stale /\ n3.free \subseteq U
  BY <1>10 DEF Running
<1>14. Good(n3, U, roots, ed2)
  BY <1>7, <1>11, <1>12, <1>13 DEF Good
<1>15. Kept(n, n3, U)
  <2> SUFFICES ASSUME NEW s \in U \ n.free, NEW i \in Low PROVE n3.mem[s][i] = n.mem[s][i]
    BY DEF Kept
  <2>1. i # R /\ i \in Idx /\ s \in Frames
    BY <1>1, Indices
  <2>2. n2.mem[s][i] = n.mem[s][i]
    BY <1>6, <2>1 DEF Wrote
  <2> QED BY <1>7, <2>2
<1>16. n3 = Redirect(n, va, ed2)
  BY DEF n3, n2, e, Redirect
<1>18. Apart(n, n3, n.cr3)
  BY <1>6, <1>7, Indices DEF Apart, Wrote
<1>17. Redirected(n, n3, U, roots, ed2)
  BY <1>7, <1>10, <1>14, <1>15, <1>18 DEF Redirected
<1> QED BY <1>16, <1>17

(* `with`, before its closure. *)
Begun(n, r, target, U, roots) ==
  /\ Good(r.m, U, roots, target) /\ r.m.tlb = {} /\ r.m.free \subseteq n.free
  /\ Chain(r.m.mem, n.cr3, r.p, n.cr3)
  /\ r.p[1] < Half \/ Crowded(r.m.mem, n.cr3)
BeginDone(n, r, target, U, roots) ==
  /\ Kept(n, r.m, U) /\ r.m.cr3 = n.cr3 /\ Running(r.m) /\ Apart(n, r.m, n.cr3)
  /\ \/ r.r = "NoEntry" /\ Good(r.m, U, roots, n.cr3) /\ Grown(n, r.m, U)
     \/ r.r = "Ok" /\ Begun(n, r, target, U, roots)

LEMMA KeptCrowded ==
  ASSUME NEW n, NEW n2, NEW U, NEW a \in U \ n.free, Kept(n, n2, U), Crowded(n.mem, a)
  PROVE  Crowded(n2.mem, a)
<1>1. ASSUME NEW j \in 1 .. (Half - 1) PROVE n2.mem[a][j].p
  <2>1. j \in Low
    BY Indices
  <2>2. n.mem[a][j].p
    BY DEF Crowded
  <2>3. n2.mem[a][j] = n.mem[a][j]
    BY <2>1, <2>2 DEF Kept
  <2> QED BY <2>2, <2>3
<1> QED BY <1>1 DEF Crowded

LEMMA MapFoundRecord ==
  \A n, f : MapFound(n, f) = [m |-> MapFound(n, f).m, p |-> MapFound(n, f).p, r |-> MapFound(n, f).r]
  BY DEF MapFound, MapAt, At

LEMMA BeginFacts ==
  ASSUME NEW n, NEW U, NEW roots, Good(n, U, roots, n.cr3), NEW target \in roots
  PROVE  BeginDone(n, WithBegin(n, target), target, U, roots)
<1> DEFINE a == n.cr3
           t == MapFound(n, a)
           r == WithBegin(n, target)
<1>1. a \in Frames /\ a \in Nat /\ a \in U \ n.free
  BY GoodFacts, Frame03
<1>2. FoundDone(n, t, a, U, roots, a)
  BY <1>1, MapFoundFacts, Zenon
<1>3. r = [t EXCEPT !.m = IF t.r = "Ok" THEN Override(t.m, target) ELSE t.m]
  BY DEF WithBegin, Overridden
<1>4. t = [m |-> t.m, p |-> t.p, r |-> t.r]
  BY MapFoundRecord
<1> HIDE DEF t, r
<1>5. r.m = (IF t.r = "Ok" THEN Override(t.m, target) ELSE t.m) /\ r.p = t.p /\ r.r = t.r
  BY <1>3, <1>4
<1>6. Good(t.m, U, roots, a) /\ Grown(n, t.m, U) /\ Apart(n, t.m, a)
  BY <1>2 DEF FoundDone
<1>7. Kept(n, t.m, U) /\ t.m.cr3 = a /\ Running(t.m) /\ t.m.free \subseteq n.free
  BY <1>6, GrownKept, GoodFacts DEF Grown
<1>8. CASE t.r = "NoEntry"
  <2>1. r.m = t.m /\ r.r = "NoEntry"
    BY <1>5, <1>8
  <2> QED BY <1>6, <1>7, <2>1 DEF BeginDone, r
<1>9. CASE /\ t.r = "Ok" /\ Chain(t.m.mem, a, t.p, a) /\ Lows(t.p)
           /\ ~n.mem[a][t.p[1]].p /\ \A j \in 1 .. (t.p[1] - 1) : n.mem[a][j].p
  <2> DEFINE n1 == Touch(t.m, TOP)
  <2>1. r.m = Redirect(n1, TOP, target)
    BY <1>5, <1>9 DEF Override
  <2>2. RefAt(t.m.mem, a, 4, TOP, a)
    BY DEF RefAt
  <2>3. Good(n1, U, roots, a) /\ Touched(t.m, n1, TOP, a)
    BY <1>6, <2>2, TouchRef, Zenon
  <2> HIDE DEF n1
  <2>4. n1.mem = t.m.mem /\ n1.free = t.m.free /\ n1.cr3 = a
    BY <1>7, <2>3 DEF Touched
  <2>5. RefOk(n1, U, 4, TOP, a)
    BY <2>2, <2>3, <2>4, GoodRef
  <2>6. n1 \in Machines /\ Running(n1) /\ ~n1.stale /\ n1.free \subseteq U
    BY <2>3, GoodFacts
  <2>7. PICK lv : Tree(n1.mem, U \ n1.free, lv, roots, n1.cr3, a)
    BY <2>3 DEF Good
  <2>8. Walk(n1.mem, n1.cr3, TOP) = n1.cr3
    BY <2>4, <2>5 DEF RefOk
  <2>9. Redirected(n1, r.m, U, roots, target)
    BY <2>1, <2>6, <2>7, <2>8, RedirectFacts, Zenon
  <2>10. Kept(t.m, r.m, U)
    BY <2>4, <2>9 DEF Redirected, Kept
  <2>11. Kept(n, r.m, U)
    BY <1>7, <2>10, KeptTrans
  <2>12. Chain(r.m.mem, a, t.p, a)
    <3>1. a \in roots
      BY <1>6, GoodFacts
    <3> QED BY <1>6, <1>9, <2>10, <3>1, KeptChain, Zenon
  <2>13. t.p[1] < Half \/ Crowded(r.m.mem, a)
    <3>1. CASE ~(t.p[1] < Half)
      <4>1. t.p[1] \in Low
        BY <1>9 DEF Lows
      <4>2. Crowded(t.m.mem, a)
        BY <1>1, <1>6, <1>9, <3>1, <4>1, FoundCrowded
      <4>3. a \in U \ t.m.free
        BY <1>1, <1>7
      <4> QED BY <2>10, <4>2, <4>3, KeptCrowded
    <3> QED BY <3>1
  <2>14. /\ Good(r.m, U, roots, target) /\ r.m.tlb = {} /\ r.m.free \subseteq n.free
         /\ r.m.cr3 = a
    BY <1>7, <2>4, <2>9 DEF Redirected
  <2>15. Begun(n, r, target, U, roots)
    BY <1>5, <2>12, <2>13, <2>14 DEF Begun
  <2>16. Running(r.m)
    BY <2>14, GoodFacts
  <2>17. Apart(n, r.m, a)
    <3>1. Apart(t.m, r.m, a)
      BY <2>4, <2>9 DEF Redirected, Apart
    <3> QED BY <1>6, <1>7, <3>1, ApartTrans
  <2> QED BY <1>5, <1>9, <2>11, <2>14, <2>15, <2>16, <2>17 DEF BeginDone, r
<1> QED BY <1>2, <1>8, <1>9 DEF FoundDone

(* `with`, after its closure. *)
EndDone(n, n2, U, roots, ed) ==
  \/ Redirected(n, n2, U, roots, n.cr3)
  \/ Halted(n2, U, roots, ed) /\ n2.mem = n.mem /\ n2.cr3 = n.cr3

LEMMA EndFacts ==
  ASSUME NEW n, NEW U, NEW roots, NEW ed, Good(n, U, roots, ed),
         NEW p, Chain(n.mem, n.cr3, p, n.cr3), p[1] < Half \/ Crowded(n.mem, n.cr3),
         \A x \in n.tlb : x[1] = p => x[2] = n.cr3
  PROVE  EndDone(n, WithEnd(n, p, n.cr3), U, roots, ed)
<1> DEFINE a  == n.cr3
           n1 == Touch(n, p)
           n2 == WithEnd(n, p, a)
<1>1. /\ n \in Machines /\ n.mem \in Mems /\ Running(n) /\ ~n.stale /\ n.free \subseteq U
      /\ a \in roots /\ a \in Frames /\ a \in Nat
  BY GoodFacts, Frame03
<1>2. CASE ~(p[1] < Half)
  <2> DEFINE n3 == Fault(n, "general_protection")
  <2>1. ~Running(n3) /\ n3.mem = n.mem /\ n3.cr3 = n.cr3
    BY <1>1, FaultFacts
  <2>2. TouchFound(n, p) = n3
    BY <1>2 DEF TouchFound
  <2>3. n2 = n3
    BY <2>1, <2>2 DEF WithEnd, Restored
  <2>4. Halted(n2, U, roots, ed)
    BY <1>2, <2>3 DEF Halted
  <2> HIDE DEF n3, n2
  <2> QED BY <2>1, <2>3, <2>4 DEF EndDone, n2
<1>3. CASE p[1] < Half
  <2>1. Walk(n.mem, a, p) = a /\ p \in Pages
    BY <1>1, ChainWalk DEF Chain
  <2>2. n1 = Access(n, p, a)
    BY <2>1 DEF Touch
  <2>3. /\ n1 \in Machines /\ n1.mem = n.mem /\ n1.free = n.free /\ n1.cr3 = n.cr3
        /\ n1.stale = n.stale /\ n1.fault = n.fault
    BY <1>1, <2>1, <2>2, AccessFacts
  <2>4. TouchFound(n, p) = n1
    BY <1>3 DEF TouchFound
  <2> HIDE DEF n1
  <2>5. Running(n1) /\ ~n1.stale
    BY <1>1, <2>3 DEF Running
  <2>6. n2 = Redirect(n1, p, a)
    BY <2>4, <2>5 DEF WithEnd, Restored
  <2>7. PICK lv : Tree(n.mem, U \ n.free, lv, roots, n.cr3, ed)
    BY DEF Good
  <2>8. Tree(n1.mem, U \ n1.free, lv, roots, n1.cr3, ed) /\ Walk(n1.mem, n1.cr3, p) = n1.cr3
    BY <2>1, <2>3, <2>7
  <2>9. n1.free \subseteq U
    BY <1>1, <2>3
  <2>10. Redirected(n1, n2, U, roots, a)
    BY <1>1, <2>3, <2>5, <2>6, <2>8, <2>9, RedirectFacts, Zenon
  <2> HIDE DEF n2
  <2>11. Redirected(n, n2, U, roots, a)
    BY <2>3, <2>10 DEF Redirected, Kept, Apart
  <2> QED BY <2>11 DEF EndDone, n2
<1> QED BY <1>2, <1>3

(* switch *)
LEMMA SwitchGood ==
  ASSUME NEW n, NEW U, NEW roots, Good(n, U, roots, n.cr3), NEW t \in roots
  PROVE  /\ Good(Switch(n, t), U, roots, t) /\ Switch(n, t).tlb = {} /\ Switch(n, t).cr3 = t
         /\ Switch(n, t).free = n.free /\ Switch(n, t).mem = n.mem
<1> DEFINE n2 == Switch(n, t)
<1>1. PICK lv : Tree(n.mem, U \ n.free, lv, roots, n.cr3, n.cr3)
  BY DEF Good
<1>2. t \in Frames
  BY <1>1, TreeFacts
<1>3. n \in Machines /\ Running(n) /\ ~n.stale /\ n.free \subseteq U
  BY GoodFacts
<1>4. /\ n2 \in Machines /\ n2.mem = n.mem /\ n2.free = n.free /\ n2.cr3 = t
      /\ n2.tlb = {} /\ n2.stale = n.stale /\ n2.fault = n.fault
  BY <1>2, <1>3, SwitchFacts
<1> HIDE DEF n2
<1>5. Tree(n.mem, U \ n.free, lv, roots, t, t)
  BY <1>1, SwitchTree
<1>6. Tree(n2.mem, U \ n2.free, lv, roots, n2.cr3, t)
  BY <1>4, <1>5
<1>7. Running(n2) /\ ~n2.stale /\ n2.free \subseteq U
  BY <1>3, <1>4 DEF Running
<1>8. TlbOk(n2, t)
  BY <1>4 DEF TlbOk
<1>9. Good(n2, U, roots, t)
  BY <1>4, <1>6, <1>7, <1>8 DEF Good
<1> QED BY <1>4, <1>9 DEF n2
-------------------------------------------------------------------------------
(* auto_continuous_map, frame by frame. *)
Runs(g, n, p, f, k) ==
  g = [x \in 0 .. k |-> IF x = 0 THEN n ELSE MapNth(g[x - 1], p, f, x - 1)]

LEMMA RunExists ==
  ASSUME NEW n, NEW p, NEW f, NEW k \in Nat
  PROVE  \E g : Runs(g, n, p, f, k)
<1> DEFINE B == {x \in Nat : ~ \E g : Runs(g, n, p, f, x)}
<1> SUFFICES ASSUME B # {} PROVE FALSE
  OBVIOUS
<1>1. PICK x \in B : \A y \in B : x <= y
  <2>1. B \in SUBSET Nat
    OBVIOUS
  <2> HIDE DEF B
  <2> QED BY <2>1, LeastNat
<1>2. CASE x = 0
  <2> DEFINE g == [y \in 0 .. 0 |-> n]
  <2>1. g = [y \in 0 .. 0 |-> IF y = 0 THEN n ELSE MapNth(g[y - 1], p, f, y - 1)]
    OBVIOUS
  <2>2. Runs(g, n, p, f, 0)
    BY <2>1 DEF Runs
  <2> QED BY <1>1, <1>2, <2>2
<1>3. CASE x # 0
  <2>1. x - 1 \in Nat /\ x - 1 \notin B /\ x \in Nat
    BY <1>1, <1>3
  <2>2. PICK h : Runs(h, n, p, f, x - 1)
    BY <2>1
  <2> DEFINE last == MapNth(h[x - 1], p, f, x - 1)
             g == [y \in 0 .. x |-> IF y = x THEN last ELSE h[y]]
  <2>3. \A y \in 0 .. (x - 1) : h[y] = IF y = 0 THEN n ELSE MapNth(h[y - 1], p, f, y - 1)
    BY <2>2, Zenon DEF Runs
  <2>4. \A y \in 0 .. (x - 1) : g[y] = h[y]
    BY <2>1
  <2>5. g[x] = last
    BY <2>1
  <2>6. g = [y \in 0 .. x |-> g[y]]
    OBVIOUS
  <2> HIDE DEF g
  <2>7. ASSUME NEW y \in 0 .. x PROVE g[y] = IF y = 0 THEN n ELSE MapNth(g[y - 1], p, f, y - 1)
    <3>1. CASE y = x
      <4>1. x - 1 \in 0 .. (x - 1)
        BY <2>1
      <4>2. g[x - 1] = h[x - 1]
        BY <2>4, <4>1
      <4> QED BY <1>3, <2>5, <3>1, <4>2
    <3>2. CASE y = 0
      <4>1. y \in 0 .. (x - 1)
        BY <1>3, <2>1, <3>2
      <4> QED BY <2>3, <2>4, <3>2, <4>1
    <3>3. CASE y # x /\ y # 0
      <4>1. y \in 0 .. (x - 1) /\ y - 1 \in 0 .. (x - 1)
        BY <2>1, <3>3
      <4>2. g[y - 1] = h[y - 1] /\ g[y] = h[y]
        BY <2>4, <4>1
      <4> QED BY <2>3, <3>3, <4>1, <4>2
    <3> QED BY <3>1, <3>2, <3>3
  <2>8. g = [y \in 0 .. x |-> IF y = 0 THEN n ELSE MapNth(g[y - 1], p, f, y - 1)]
    BY <2>6, <2>7
  <2>9. Runs(g, n, p, f, x)
    BY <2>8 DEF Runs
  <2> QED BY <1>1, <2>9
<1> QED BY <1>2, <1>3

LEMMA RunFacts ==
  ASSUME NEW n, NEW p, NEW f, NEW k \in Nat
  PROVE  \E g : /\ MapRun(n, p, f, k) = g[k] /\ g[0] = n
                /\ \A x \in 1 .. k : g[x] = MapNth(g[x - 1], p, f, x - 1)
<1> DEFINE g == CHOOSE run : run = [x \in 0 .. k |-> IF x = 0 THEN n ELSE MapNth(run[x - 1], p, f, x - 1)]
<1>1. \E run : run = [x \in 0 .. k |-> IF x = 0 THEN n ELSE MapNth(run[x - 1], p, f, x - 1)]
  <2>1. PICK h : Runs(h, n, p, f, k)
    BY RunExists
  <2>2. h = [x \in 0 .. k |-> IF x = 0 THEN n ELSE MapNth(h[x - 1], p, f, x - 1)]
    BY <2>1, Zenon DEF Runs
  <2> QED BY <2>2, Zenon
<1>2. g = [x \in 0 .. k |-> IF x = 0 THEN n ELSE MapNth(g[x - 1], p, f, x - 1)]
  BY <1>1, Zenon
<1>3. MapRun(n, p, f, k) = g[k]
  BY DEF MapRun
<1> HIDE DEF g
<1>4. \A x \in 0 .. k : g[x] = IF x = 0 THEN n ELSE MapNth(g[x - 1], p, f, x - 1)
  BY <1>2, Zenon
<1>5. g[0] = n
  BY <1>4
<1>6. \A x \in 1 .. k : g[x] = MapNth(g[x - 1], p, f, x - 1)
  BY <1>4
<1> QED BY <1>3, <1>5, <1>6

LEMMA GrownPath ==
  ASSUME NEW n, NEW n2, NEW U, NEW roots, NEW ed, Good(n, U, roots, ed), Grown(n, n2, U),
         NEW i, NEW j, NEW k, NEW u, Path(n.mem, ed, i, j, k, u)
  PROVE  /\ Path(n2.mem, ed, i, j, k, u)
         /\ ~Edge(n.mem, ed, i, 3) => ~Edge(n2.mem, ed, i, 3)
<1>1. PICK lv : Tree(n.mem, U \ n.free, lv, roots, n.cr3, ed)
  BY DEF Good
<1>2. PICK s, t \in Frames : Edge(n.mem, ed, i, s) /\ Edge(n.mem, s, j, t) /\ Edge(n.mem, t, k, u)
  BY DEF Path
<1>3. ed \in U \ n.free /\ lv[ed] = 4
  BY <1>1, TreeFacts
<1>4. s \in U \ n.free /\ lv[s] = 3
  BY <1>1, <1>2, <1>3, Down
<1>5. t \in U \ n.free
  BY <1>1, <1>2, <1>4, Down
<1>6. Edge(n2.mem, ed, i, s) /\ Edge(n2.mem, s, j, t) /\ Edge(n2.mem, t, k, u)
  BY <1>2, <1>3, <1>4, <1>5, GrownEdge
<1>7. Path(n2.mem, ed, i, j, k, u)
  BY <1>6 DEF Path
<1>8. ASSUME ~Edge(n.mem, ed, i, 3), Edge(n2.mem, ed, i, 3) PROVE FALSE
  BY <1>2, <1>6, <1>8, EdgeUnique
<1> QED BY <1>7, <1>8

LEMMA PageAfterFacts ==
  ASSUME NEW i \in Low, NEW x \in Nat
  PROVE  PageAfter(<<i, 1, 1, 1>>, x) = <<i, 1, 1, 1 + x>>
  BY DEF PageAfter

(* The machine after the first x frames. *)
RunAt(d, n, x, f, u, U, roots, ed) ==
  /\ Good(n, U, roots, ed) /\ Grown(d, n, U) /\ Apart(d, n, u)
  /\ \A y \in (1 + x) .. (E - 2) : ~n.mem[u][y].p
  /\ \A y \in 0 .. (x - 1) : Edge(n.mem, u, 1 + y, f + y)

LEMMA RunStep ==
  ASSUME NEW d, NEW U, NEW roots, NEW ed, Good(d, U, roots, ed), NEW i \in Low, NEW u \in Frames,
         Path(d.mem, ed, i, 1, 1, u), ~Edge(d.mem, ed, i, 3),
         NEW x \in Nat, x < E - 2, NEW n, NEW f \in Nat, RunAt(d, n, x, f, u, U, roots, ed)
  PROVE  RunAt(d, MapNth(n, <<i, 1, 1, 1>>, f, x), x + 1, f, u, U, roots, ed)
<1> DEFINE p == <<i, 1, 1, 1 + x>>
           r == Map(n, p, f + x)
           n2 == MapNth(n, <<i, 1, 1, 1>>, f, x)
<1>1. 1 + x \in Low /\ 1 + x \in (1 + x) .. (E - 2) /\ f + x \in Nat
  BY Indices
<1>2. Lows(p) /\ p[1] = i /\ p[2] = 1 /\ p[3] = 1 /\ p[4] = 1 + x
  BY <1>1, FoundPageFacts
<1>3. n2 = MustMap(n, r)
  BY PageAfterFacts DEF MapNth
<1> HIDE DEF p
<1>4. Good(n, U, roots, ed) /\ Grown(d, n, U) /\ Running(n)
  BY GoodFacts DEF RunAt
<1>5. Path(n.mem, ed, i, 1, 1, u) /\ ~Edge(n.mem, ed, i, 3)
  BY <1>4, GrownPath
<1>6. Clear(n.mem, ed, p)
  BY <1>2, <1>5 DEF Clear
<1>7. MapDone(n, r, p, f + x, U, roots, ed)
  BY <1>1, <1>2, <1>4, <1>6, MapFacts, Zenon
<1> HIDE DEF r
<1>8. ~n.mem[u][1 + x].p
  BY <1>1 DEF RunAt
<1>9. /\ r.r = "Ok" /\ Wrote(n.mem, r.m.mem, u, 1 + x, Entry(f + x))
      /\ Good(r.m, U, roots, ed) /\ Grown(n, r.m, U)
  BY <1>2, <1>5, <1>7, <1>8 DEF MapDone
<1>10. n2 = r.m
  BY <1>3, <1>4, <1>9 DEF MustMap
<1> HIDE DEF n2
<1>11. Grown(d, n2, U)
  BY <1>4, <1>9, <1>10, GrownTrans
<1>12. ASSUME NEW y \in (1 + (x + 1)) .. (E - 2) PROVE ~n2.mem[u][y].p
  <2>1. y \in (1 + x) .. (E - 2) /\ y # 1 + x /\ y \in Idx
    BY Indices
  <2>2. ~n.mem[u][y].p
    BY <2>1 DEF RunAt
  <2>3. n2.mem[u][y] = n.mem[u][y]
    BY <1>9, <1>10, <2>1 DEF Wrote
  <2> QED BY <2>2, <2>3
<1>14. ASSUME NEW y \in 0 .. ((x + 1) - 1) PROVE Edge(n2.mem, u, 1 + y, f + y)
  <2>1. CASE y = x
    BY <1>1, <1>9, <1>10, <2>1, EntryFacts DEF Wrote, Edge
  <2>2. CASE y # x
    <3>1. y \in 0 .. (x - 1) /\ 1 + y # 1 + x /\ 1 + y \in Idx
      BY <2>2, Indices
    <3>2. Edge(n.mem, u, 1 + y, f + y)
      BY <3>1 DEF RunAt
    <3>3. n2.mem[u][1 + y] = n.mem[u][1 + y]
      BY <1>9, <1>10, <3>1 DEF Wrote
    <3> QED BY <3>2, <3>3 DEF Edge
  <2> QED BY <2>1, <2>2
<1>15. Apart(d, n2, u)
  <2>1. Apart(n, n2, u)
    BY <1>9, <1>10 DEF Apart, Wrote
  <2>2. Apart(d, n, u) /\ n.free \subseteq d.free
    BY DEF RunAt, Grown
  <2> QED BY <2>1, <2>2, ApartTrans
<1>13. RunAt(d, n2, x + 1, f, u, U, roots, ed)
  BY <1>9, <1>10, <1>11, <1>12, <1>14, <1>15 DEF RunAt
<1> QED BY <1>13 DEF n2

AutoDone(n, r, f, k, U, roots, ed) ==
  /\ Good(r.m, U, roots, ed) /\ Grown(n, r.m, U) /\ Apart(n, r.m, ed)
  /\ r.p # None =>
       /\ \E i \in Low : r.p = <<i, 1, 1, 1>>
       /\ \A y \in 0 .. (k - 1) : Chain(r.m.mem, ed, PageAfter(r.p, y), f + y)

LEMMA GrownSelf == \A n, U : Grown(n, n, U)
  BY DEF Grown

LEMMA AutoFacts ==
  ASSUME NEW n, NEW U, NEW roots, NEW ed, Good(n, U, roots, ed), NEW f \in Nat, NEW k \in Nat \ {0}
  PROVE  AutoDone(n, AutoContinuousMap(n, f, k), f, k, U, roots, ed)
<1> DEFINE d == FindEmptyPages(n, k)
           r == AutoContinuousMap(n, f, k)
<1>1. Found(n, d, k, U, roots, ed)
  BY FindFacts, Zenon
<1>2. r = MapFrom(d, f, k)
  BY DEF AutoContinuousMap
<1> HIDE DEF d, r
<1>3. Good(d.m, U, roots, ed) /\ Grown(n, d.m, U) /\ Running(d.m) /\ Apart(n, d.m, ed)
  BY <1>1, GoodFacts DEF Found
<1>4. CASE NoRoom(d, k, ed)
  <2>1. r = d /\ r.p = None
    BY <1>2, <1>4 DEF MapFrom, NoRoom
  <2> QED BY <1>3, <2>1 DEF AutoDone, r
<1>5. CASE Room(n, d, k, U, ed)
  <2>1. PICK i \in Low \ {0}, u \in Frames :
          /\ d.p = <<i, 1, 1, 1>> /\ k <= E - 2
          /\ Path(d.m.mem, ed, i, 1, 1, u) /\ d.m.mem[u] = FreshTable(u)
          /\ ~Edge(d.m.mem, ed, i, 3) /\ u \in n.free
    BY <1>5 DEF Room
  <2>2. d.p # None
    BY <2>1, FoundPageFacts, Indices
  <2>3. r.m = MapRun(d.m, d.p, f, k) /\ r.p = d.p
    BY <1>2, <1>3, <2>2 DEF MapFrom
  <2>4. PICK g : /\ MapRun(d.m, d.p, f, k) = g[k] /\ g[0] = d.m
                 /\ \A x \in 1 .. k : g[x] = MapNth(g[x - 1], d.p, f, x - 1)
    BY RunFacts
  <2> DEFINE J(x) == RunAt(d.m, g[x], x, f, u, U, roots, ed)
             B == {x \in 0 .. k : ~J(x)}
  <2>5. J(0)
    <3>1. ASSUME NEW y \in (1 + 0) .. (E - 2) PROVE ~d.m.mem[u][y].p
      <4>1. y \in Low /\ u \in Nat
        BY Indices, Frame03
      <4>2. FreshTable(u)[y] = Empty
        BY <4>1, FreshFacts
      <4> QED BY <2>1, <4>2, EntryFacts
    <3>2. 0 .. (0 - 1) = {} /\ Apart(d.m, d.m, u)
      BY DEF Apart
    <3> QED BY <1>3, <2>4, <3>1, <3>2, GrownSelf DEF RunAt
  <2>6. ASSUME NEW x \in 1 .. k, J(x - 1) PROVE J(x)
    <3>1. x - 1 \in Nat /\ x - 1 < E - 2 /\ (x - 1) + 1 = x
      BY <2>1, Indices
    <3>2. RunAt(d.m, MapNth(g[x - 1], <<i, 1, 1, 1>>, f, x - 1), (x - 1) + 1, f, u, U, roots, ed)
      BY <1>3, <2>1, <2>6, <3>1, RunStep
    <3> QED BY <2>1, <2>4, <3>1, <3>2
  <2> HIDE DEF J
  <2>7. B = {}
    <3> SUFFICES ASSUME B # {} PROVE FALSE
      OBVIOUS
    <3>1. B \in SUBSET Nat
      OBVIOUS
    <3>2. PICK x \in B : \A y \in B : x <= y
      <4> HIDE DEF B
      <4> QED BY <3>1, LeastNat
    <3>3. x \in 0 .. k /\ ~J(x) /\ x # 0
      BY <2>5, <3>2
    <3>4. x \in 1 .. k /\ x - 1 \in 0 .. k /\ x - 1 < x
      BY <3>3
    <3>5. x - 1 \notin B
      BY <3>2, <3>4
    <3>6. J(x - 1)
      BY <3>4, <3>5
    <3> QED BY <2>6, <3>3, <3>4, <3>6
  <2>8. J(k)
    BY <2>7
  <2>9. /\ Good(r.m, U, roots, ed) /\ Grown(d.m, r.m, U) /\ Apart(d.m, r.m, u)
        /\ \A y \in 0 .. (k - 1) : Edge(r.m.mem, u, 1 + y, f + y)
    BY <2>3, <2>4, <2>8 DEF J, RunAt
  <2>10. Grown(n, r.m, U) /\ Apart(n, r.m, ed)
    BY <1>3, <2>1, <2>9, GrownTrans, ApartTrans DEF Grown
  <2>11. ASSUME NEW y \in 0 .. (k - 1) PROVE Chain(r.m.mem, ed, PageAfter(r.p, y), f + y)
    <3> DEFINE q == <<i, 1, 1, 1 + y>>
    <3>1. 1 + y \in Low /\ y \in Nat
      BY <2>1, Indices
    <3>2. PageAfter(r.p, y) = q
      BY <2>1, <2>3, <3>1, PageAfterFacts
    <3>3. q \in Pages /\ q[1] = i /\ q[2] = 1 /\ q[3] = 1 /\ q[4] = 1 + y
      BY <3>1, FoundPageFacts
    <3>4. Path(r.m.mem, ed, i, 1, 1, u)
      BY <1>3, <2>1, <2>9, GrownPath
    <3> HIDE DEF q
    <3> QED BY <2>9, <3>2, <3>3, <3>4 DEF Chain
  <2>12. \E x \in Low : r.p = <<x, 1, 1, 1>>
    BY <2>1, <2>3
  <2> QED BY <2>9, <2>10, <2>11, <2>12 DEF AutoDone, r
<1> QED BY <1>1, <1>4, <1>5 DEF Found
-------------------------------------------------------------------------------
(* A page that the processor finds a frame for has entries all the way down. *)
LEMMA WalkChain ==
  ASSUME NEW mem \in Mems, NEW S, NEW lv, NEW roots, NEW a, NEW ed, Tree(mem, S, lv, roots, a, ed),
         NEW r \in roots, NEW p, Plain(p), Walk(mem, r, p) # NoFrame
  PROVE  Chain(mem, r, p, Walk(mem, r, p))
<1>1. p \in Pages /\ p[1] \in Low /\ p[2] \in Low /\ p[3] \in Low /\ p[4] \in Low /\ p[1] # Half
  BY DEF Plain
<1>2. S \subseteq Frames /\ roots \subseteq S /\ r \in S /\ r # 3 /\ lv[r] = 4 /\ 3 \in S
  BY TreeFacts
<1>3. lv[3] = 3 /\ \A s \in S : \A i : lv[s] > 1 /\ Edge(mem, s, i, 3) => s = 1 /\ i = Half
  BY BootTable
<1>4. \A x \in Frames : TableIn(mem, x) = mem[x]
  BY DEF TableIn, Mems
<1>5. \A e, i, k : ~e.p => Under(mem, e, i, k) = e
  BY DEF Under
<1>6. \A e, i, k : IsTable(e) => Under(mem, e, i, k) = TableIn(mem, e.f)[i]
  BY DEF Under, IsTable
<1>7. \A e : ~e.p => FrameOf(e) = NoFrame
  BY DEF FrameOf
<1> DEFINE e1 == mem[r][p[1]]
           e2 == Under(mem, e1, p[2], E * E)
           e3 == Under(mem, e2, p[3], E)
           e4 == Under(mem, e3, p[4], 1)
<1>8. Walk(mem, r, p) = FrameOf(e4)
  BY <1>2, <1>4 DEF Walk
<1>9. e1.p
  <2> SUFFICES ASSUME ~e1.p PROVE FALSE
    OBVIOUS
  <2> HIDE DEF e1
  <2> QED BY <1>5, <1>7, <1>8
<1>10. PICK s : Edge(mem, r, p[1], s)
  BY <1>1, <1>2, <1>9, AbsentOrEdge
<1>11. s \in S /\ lv[s] = 3 /\ s # 3 /\ s \in Frames
  <2>1. s \in S /\ lv[s] = 3
    BY <1>2, <1>10, Down
  <2>2. s # 3
    BY <1>1, <1>2, <1>3, <1>10
  <2> QED BY <1>2, <2>1, <2>2
<1>12. IsTable(e1) /\ e1.f = s
  BY <1>10, EdgeFacts
<1> HIDE DEF e1
<1>13. e2 = mem[s][p[2]]
  BY <1>4, <1>6, <1>11, <1>12
<1> HIDE DEF e2
<1>14. e2.p
  <2> SUFFICES ASSUME ~e2.p PROVE FALSE
    OBVIOUS
  <2> QED BY <1>5, <1>7, <1>8
<1>15. PICK t : Edge(mem, s, p[2], t)
  BY <1>1, <1>11, <1>13, <1>14, AbsentOrEdge
<1>16. t \in S /\ lv[t] = 2 /\ t # 3 /\ t \in Frames
  BY <1>2, <1>3, <1>11, <1>15, Down
<1>17. IsTable(e2) /\ e2.f = t
  BY <1>13, <1>15, EdgeFacts
<1>18. e3 = mem[t][p[3]]
  BY <1>4, <1>6, <1>16, <1>17
<1> HIDE DEF e3
<1>19. e3.p
  <2> SUFFICES ASSUME ~e3.p PROVE FALSE
    OBVIOUS
  <2> QED BY <1>5, <1>7, <1>8
<1>20. PICK u : Edge(mem, t, p[3], u)
  BY <1>1, <1>16, <1>18, <1>19, AbsentOrEdge
<1>21. u \in S /\ lv[u] = 1 /\ u # 3 /\ u \in Frames
  BY <1>2, <1>3, <1>16, <1>20, Down
<1>22. IsTable(e3) /\ e3.f = u
  BY <1>18, <1>20, EdgeFacts
<1>23. e4 = mem[u][p[4]]
  BY <1>4, <1>6, <1>21, <1>22
<1> HIDE DEF e4
<1>24. e4.p
  BY <1>7, <1>8
<1>25. PICK f : Edge(mem, u, p[4], f)
  BY <1>1, <1>21, <1>23, <1>24, AbsentOrEdge
<1>26. Path(mem, r, p[1], p[2], p[3], u)
  BY <1>10, <1>11, <1>15, <1>16, <1>20 DEF Path
<1>27. Walk(mem, r, p) = f
  BY <1>8, <1>23, <1>25, EdgeFacts
<1> QED BY <1>1, <1>21, <1>25, <1>26, <1>27 DEF Chain

(* A level 1 table has one path from one root. *)
LEMMA OnePath ==
  ASSUME NEW mem, NEW S, NEW lv, NEW roots, NEW a, NEW ed, Tree(mem, S, lv, roots, a, ed),
         NEW r \in roots, NEW i, NEW j, NEW k, NEW u, Path(mem, r, i, j, k, u),
         NEW x \in roots, NEW y, NEW z, NEW w, Path(mem, x, y, z, w, u)
  PROVE  r = x /\ i = y /\ j = z /\ k = w
<1>1. PICK s, t \in Frames : Edge(mem, r, i, s) /\ Edge(mem, s, j, t) /\ Edge(mem, t, k, u)
  BY DEF Path
<1>2. PICK s2, t2 \in Frames : Edge(mem, x, y, s2) /\ Edge(mem, s2, z, t2) /\ Edge(mem, t2, w, u)
  BY DEF Path
<1>3. r \in S /\ x \in S /\ lv[r] = 4 /\ lv[x] = 4
  BY TreeFacts
<1>4. s \in S /\ s2 \in S /\ lv[s] = 3 /\ lv[s2] = 3
  BY <1>1, <1>2, <1>3, Down
<1>5. t \in S /\ t2 \in S /\ lv[t] = 2 /\ lv[t2] = 2
  BY <1>1, <1>2, <1>4, Down
<1>6. \A c, d \in S : \A b, e, g :
          (lv[c] > 1 /\ lv[d] > 1 /\ Edge(mem, c, b, g) /\ Edge(mem, d, e, g)) => c = d /\ b = e
  BY DEF Tree, OneParent
<1>7. t = t2 /\ k = w
  <2>1. lv[t] > 1 /\ lv[t2] > 1
    BY <1>5
  <2> QED BY <1>1, <1>2, <1>5, <1>6, <2>1
<1>8. s = s2 /\ j = z
  <2>1. lv[s] > 1 /\ lv[s2] > 1
    BY <1>4
  <2> QED BY <1>1, <1>2, <1>4, <1>6, <1>7, <2>1
<1>9. r = x /\ i = y
  <2>1. lv[r] > 1 /\ lv[x] > 1
    BY <1>3
  <2> QED BY <1>1, <1>2, <1>3, <1>6, <1>8, <2>1
<1> QED BY <1>7, <1>8, <1>9

(* Where a page leads after another was unmapped. *)
LEMMA CutChain ==
  ASSUME NEW n, NEW U, NEW roots, NEW ed, Good(n, U, roots, ed), NEW r, NEW p \in Pages, NEW f,
         Cut(n, r, p, f, U, roots, ed), NEW x \in roots, NEW q, NEW g, Chain(n.mem, x, q, g)
  PROVE  Chain(r.m.mem, x, q, g) \/ (q = p /\ x = ed /\ g = f)
<1>1. PICK lv : Tree(n.mem, U \ n.free, lv, roots, n.cr3, ed)
  BY DEF Good
<1>2. PICK u \in U \ n.free : /\ Path(n.mem, ed, p[1], p[2], p[3], u) /\ Edge(n.mem, u, p[4], f)
                              /\ Wrote(n.mem, r.m.mem, u, p[4], Empty)
  BY DEF Cut
<1>3. PICK w \in Frames : Path(n.mem, x, q[1], q[2], q[3], w) /\ Edge(n.mem, w, q[4], g)
  BY DEF Chain
<1>4. PICK s, t \in Frames : Edge(n.mem, x, q[1], s) /\ Edge(n.mem, s, q[2], t) /\ Edge(n.mem, t, q[3], w)
  BY <1>3 DEF Path
<1>5. PICK s2, t2 \in Frames : Edge(n.mem, ed, p[1], s2) /\ Edge(n.mem, s2, p[2], t2) /\ Edge(n.mem, t2, p[3], u)
  BY <1>2 DEF Path
<1>6. x \in U \ n.free /\ ed \in U \ n.free /\ lv[x] = 4 /\ lv[ed] = 4 /\ ed \in roots /\ x \in Frames
  BY <1>1, TreeFacts
<1>7. s \in U \ n.free /\ s2 \in U \ n.free /\ lv[s] = 3 /\ lv[s2] = 3
  BY <1>1, <1>4, <1>5, <1>6, Down
<1>8. t \in U \ n.free /\ t2 \in U \ n.free /\ lv[t] = 2 /\ lv[t2] = 2
  BY <1>1, <1>4, <1>5, <1>7, Down
<1>9. lv[u] = 1
  BY <1>1, <1>5, <1>8, Down
<1>10. ASSUME NEW y \in Frames, NEW i, NEW z, Edge(n.mem, y, i, z), y # u \/ i # p[4]
       PROVE  Edge(r.m.mem, y, i, z)
  <2>1. i \in Idx
    BY <1>10, EdgeFacts
  <2>2. r.m.mem[y][i] = n.mem[y][i]
    BY <1>2, <1>10, <2>1 DEF Wrote
  <2> QED BY <1>10, <2>2 DEF Edge
<1>11. x # u /\ s # u /\ t # u
  BY <1>6, <1>7, <1>8, <1>9
<1>12. Path(r.m.mem, x, q[1], q[2], q[3], w)
  <2>1. Edge(r.m.mem, x, q[1], s) /\ Edge(r.m.mem, s, q[2], t) /\ Edge(r.m.mem, t, q[3], w)
    BY <1>4, <1>6, <1>10, <1>11
  <2> QED BY <2>1 DEF Path
<1>13. CASE w # u \/ q[4] # p[4]
  <2>1. Edge(r.m.mem, w, q[4], g)
    BY <1>3, <1>10, <1>13
  <2> QED BY <1>12, <2>1 DEF Chain
<1>14. CASE w = u /\ q[4] = p[4]
  <2>1. x = ed /\ q[1] = p[1] /\ q[2] = p[2] /\ q[3] = p[3]
    BY <1>1, <1>2, <1>3, <1>6, <1>14, OnePath
  <2>2. q \in Pages
    BY DEF Chain
  <2>3. q = p
    BY <1>14, <2>1, <2>2, NotNone
  <2>4. g = f
    BY <1>2, <1>3, <1>14, EdgeUnique
  <2> QED BY <2>1, <2>3, <2>4
<1> QED BY <1>13, <1>14
-------------------------------------------------------------------------------
(* The invariant. *)
LEMMA InvGood ==
  ASSUME Base', Good(m', Owned', Roots', Edited'), CtxInv', m'.free \cap Callers' = {}
  PROVE  IInv'
<1>1. m' \in Machines /\ Running(m)' /\ ~m'.stale /\ m'.fault = "none"
  BY GoodFacts DEF Running
<1>2. TablesReachable'
  BY <1>1 DEF TablesReachable
<1>3. StopsOnlyExhausted'
  BY <1>1 DEF StopsOnlyExhausted
<1> QED BY <1>1, <1>2, <1>3 DEF IInv

LEMMA InvStop ==
  ASSUME Base', Stop(m')
  PROVE  IInv'
<1>1. ~Running(m)'
  BY DEF Stop, Running
<1>2. TablesReachable'
  BY DEF TablesReachable, Stop
<1>3. StopsOnlyExhausted'
  BY DEF StopsOnlyExhausted, Stop, Crowded, Active
<1> QED BY <1>1, <1>2, <1>3 DEF IInv

(* What callers pass. *)
LEMMA SetupFacts ==
  ASSUME Base
  PROVE  /\ Managed \subseteq Frames /\ Device \subseteq Frames /\ Managed \cap Device = {}
         /\ 1 \notin Managed /\ 3 \notin Managed /\ 1 \notin Device /\ 3 \notin Device
         /\ BlockSize \in Nat \ {0}
         /\ \A p \in UserPages : Plain(p) /\ Lows(p)
<1>1. setup \in Setups
  BY DEF Base
<1>2. /\ Managed \subseteq Frames /\ Managed \cap (0 .. 3) = {}
      /\ Device \subseteq Frames \ (Managed \cup 0 .. 3) /\ BlockSize \in Nat \ {0}
      /\ \A p \in UserPages : p \in Pages /\ p[1] # Half /\ \A k \in 1 .. 4 : p[k] # R
  BY <1>1, SetupAssumption DEF Managed, BlockSize, UserPages
<1>3. 1 \in 0 .. 3 /\ 3 \in 0 .. 3
  OBVIOUS
<1>4. ASSUME NEW p \in UserPages PROVE Plain(p) /\ Lows(p)
  <2>1. p \in Pages /\ p[1] # Half /\ \A k \in 1 .. 4 : p[k] # R
    BY <1>2
  <2>2. p[1] \in Idx /\ p[2] \in Idx /\ p[3] \in Idx /\ p[4] \in Idx
    BY <2>1 DEF Pages
  <2>3. \A k \in 1 .. 4 : k = 1 \/ k = 2 \/ k = 3 \/ k = 4
    OBVIOUS
  <2>4. \A k \in 1 .. 4 : p[k] \in Idx
    BY <2>2, <2>3
  <2> QED BY <2>1, <2>4 DEF Plain, Lows, Low
<1> QED BY <1>2, <1>3, <1>4

LEMMA StateFacts ==
  ASSUME IInv, Running(m)
  PROVE  /\ Base /\ Good(m, Owned, Roots, Edited) /\ CtxInv /\ m.free \cap Callers = {}
         /\ 1 \in Owned \ m.free /\ 3 \in Owned \ m.free /\ Active \in Owned \ m.free
         /\ m.free \subseteq Managed /\ m.free \subseteq Owned /\ Active \in Roots /\ Active \in Frames
         /\ m.free \subseteq Nat /\ m.free \subseteq Frames /\ Active \notin Callers
<1>1. Base /\ Good(m, Owned, Roots, Edited) /\ CtxInv /\ m.free \cap Callers = {}
  BY DEF IInv
<1>2. PICK lv : Tree(m.mem, Owned \ m.free, lv, Roots, m.cr3, Edited)
  BY <1>1 DEF Good
<1>3. /\ 1 \in Owned \ m.free /\ 3 \in Owned \ m.free /\ m.cr3 \in Owned \ m.free /\ m.cr3 \in Roots
      /\ Owned \ m.free \subseteq Frames
  BY <1>2, TreeFacts
<1>4. m.free \subseteq Owned /\ m \in Machines
  BY <1>1, GoodFacts
<1>5. Owned \subseteq Managed \cup {1, 3} /\ Owned \cap Callers = {}
  BY DEF Owned
<1>6. m.free \subseteq Nat /\ m.free \subseteq Frames
  BY <1>4, MachineFacts
<1> QED BY <1>1, <1>3, <1>4, <1>5, <1>6 DEF Active

(* No page that callers ask for is in the boot tables' level 3 table. *)
LEMMA UserClear ==
  ASSUME NEW n, NEW U, NEW roots, NEW ed, Good(n, U, roots, ed), NEW p, Plain(p)
  PROVE  Clear(n.mem, ed, p)
<1>1. PICK lv : Tree(n.mem, U \ n.free, lv, roots, n.cr3, ed)
  BY DEF Good
<1>2. ed \in U \ n.free /\ lv[ed] = 4
  BY <1>1, TreeFacts
<1>3. \A s \in U \ n.free : \A i : lv[s] > 1 /\ Edge(n.mem, s, i, 3) => s = 1 /\ i = Half
  BY <1>1, BootTable
<1>4. lv[ed] > 1
  BY <1>2
<1> QED BY <1>2, <1>3, <1>4 DEF Clear, Plain

(* The page from which `with` restores the recursive entry stays. *)
LEMMA CtxKept ==
  ASSUME CtxInv, UNCHANGED <<inactive, ctx>>, m'.cr3 = m.cr3,
         \A p : Chain(m.mem, Active, p, Active) => Chain(m'.mem, Active, p, Active),
         Crowded(m.mem, Active) => Crowded(m'.mem, Active),
         \A x \in m'.tlb : x \in m.tlb \/ x[1][1] = R
  PROVE  CtxInv'
<1>1. Active' = Active
  BY DEF Active
<1>2. Active \notin inactive'
  BY DEF CtxInv
<1>3. ASSUME ctx # << >>
      PROVE  /\ ctx[1] \in inactive /\ Chain(m'.mem, Active, ctx[2], Active)
             /\ ctx[2][1] < Half \/ Crowded(m'.mem, Active)
             /\ \A x \in m'.tlb : x[1] = ctx[2] => x[2] = Active
  <2>1. /\ ctx[1] \in inactive /\ Chain(m.mem, Active, ctx[2], Active)
        /\ ctx[2][1] < Half \/ Crowded(m.mem, Active)
        /\ \A x \in m.tlb : x[1] = ctx[2] => x[2] = Active
    BY <1>3 DEF CtxInv
  <2>2. PICK u : Path(m.mem, Active, ctx[2][1], ctx[2][2], ctx[2][3], u)
    BY <2>1 DEF Chain
  <2>3. PICK s : Edge(m.mem, Active, ctx[2][1], s)
    BY <2>2 DEF Path
  <2>4. ctx[2][1] # R
    BY <2>3, EdgeFacts, Indices
  <2> QED BY <2>1, <2>4
<1> QED BY <1>1, <1>2, <1>3 DEF CtxInv

LEMMA CtxGrown ==
  ASSUME CtxInv, UNCHANGED <<inactive, ctx>>, NEW U, NEW roots, NEW ed, Good(m, U, roots, ed),
         Kept(m, m', U), m'.cr3 = m.cr3, \A x \in m'.tlb : x \in m.tlb \/ x[1][1] = R
  PROVE  CtxInv'
<1>1. Active \in roots /\ Active \in U \ m.free
  BY GoodFacts DEF Active
<1>2. \A p : Chain(m.mem, Active, p, Active) => Chain(m'.mem, Active, p, Active)
  BY <1>1, KeptChain
<1>3. Crowded(m.mem, Active) => Crowded(m'.mem, Active)
  BY <1>1, KeptCrowded
<1> QED BY <1>2, <1>3, CtxKept

(* A step that keeps the translations of the active table. *)
Steady ==
  /\ Kept(m, m', Owned) /\ m'.cr3 = m.cr3 /\ m'.mem \in Mems
  /\ m'.mem[m.cr3][R] = Entry(Edited) /\ m'.mem[Edited][R] = Entry(Edited)

LEMMA SteadyGood ==
  ASSUME Kept(m, m', Owned), m'.cr3 = m.cr3, NEW U, NEW roots, Good(m', U, roots, Edited)
  PROVE  Steady
<1>1. m'.mem \in Mems /\ m'.mem[m'.cr3][R] = Entry(Edited) /\ m'.mem[Edited][R] = Entry(Edited)
  BY GoodFacts
<1> QED BY <1>1 DEF Steady

LEMMA SteadyHalt ==
  ASSUME Kept(m, m', Owned), m'.cr3 = m.cr3, NEW U, NEW roots, Halted(m', U, roots, Edited)
  PROVE  Steady
<1>1. PICK n1 : \E w \in {"panic", "general_protection"} :
        m' = Fault(n1, w) /\ Good(n1, U, roots, Edited)
  BY DEF Halted
<1>2. PICK w \in {"panic", "general_protection"} :
        m' = Fault(n1, w) /\ Good(n1, U, roots, Edited)
  BY <1>1
<1>3. /\ n1 \in Machines /\ n1.mem \in Mems /\ n1.mem[n1.cr3][R] = Entry(Edited)
      /\ n1.mem[Edited][R] = Entry(Edited)
  BY <1>2, GoodFacts
<1>4. m'.mem = n1.mem /\ m'.cr3 = n1.cr3
  BY <1>2, <1>3, FaultFacts
<1> QED BY <1>3, <1>4 DEF Steady

LEMMA InvAllocOne ==
  ASSUME IInv, AllocOne
  PROVE  IInv' /\ Steady
<1> DEFINE f == Taken(m)
<1>1. Running(m) /\ m.free # {} /\ held = {} /\ m' = TakeOne(m) /\ held' = {f}
      /\ UNCHANGED <<setup, mapped, inactive, ctx, ret>>
  BY DEF AllocOne
<1>2. /\ Base /\ Good(m, Owned, Roots, Edited) /\ CtxInv /\ m.free \cap Callers = {}
      /\ m.free \subseteq Managed
  BY <1>1, StateFacts
<1>3. /\ Good(m', Owned \ {f}, Roots, Edited) /\ f \in m.free /\ m'.mem = m.mem
      /\ m'.free = m.free \ {f} /\ m'.cr3 = m.cr3 /\ m'.tlb = m.tlb
  BY <1>1, <1>2, TakenGood
<1> HIDE DEF f
<1>4. Managed' = Managed /\ Roots' = Roots /\ Edited' = Edited
  BY <1>1, <1>3 DEF Managed, Roots, Edited, Active
<1>5. Callers' = Callers \cup {f} /\ f \in Managed /\ f \notin mapped
  BY <1>1, <1>2, <1>3 DEF Callers
<1>6. Owned' = Owned \ {f}
  BY <1>4, <1>5 DEF Owned
<1>7. Base'
  BY <1>1, <1>2, <1>4, <1>5 DEF Base
<1>8. Kept(m, m', Owned)
  BY <1>3 DEF Kept
<1>9. CtxInv'
  BY <1>1, <1>2, <1>3, <1>8, CtxGrown
<1>10. m'.free \cap Callers' = {}
  BY <1>2, <1>3, <1>5
<1>11. Good(m', Owned', Roots', Edited')
  BY <1>3, <1>4, <1>6
<1>12. IInv'
  BY <1>7, <1>9, <1>10, <1>11, InvGood
<1>13. Steady
  BY <1>3, <1>8, SteadyGood
<1> QED BY <1>12, <1>13

LEMMA InvMapPage ==
  ASSUME IInv, NEW p \in UserPages, NEW f, MapPage(p, f)
  PROVE  IInv' /\ Steady
<1> DEFINE r == Map(m, p, f)
<1>1. /\ Running(m) /\ f \in (held \cup Device) \ mapped /\ m' = r.m
      /\ IF r.r = "Ok" THEN held' = held \ {f} /\ mapped' = mapped \cup {f}
                       ELSE UNCHANGED <<held, mapped>>
      /\ UNCHANGED <<setup, inactive, ctx>>
  BY DEF MapPage
<1>2. /\ Base /\ Good(m, Owned, Roots, Edited) /\ CtxInv /\ m.free \cap Callers = {}
      /\ m.free \subseteq Managed
  BY <1>1, StateFacts
<1>3. /\ Managed \subseteq Frames /\ Device \subseteq Frames /\ Managed \cap Device = {}
      /\ 1 \notin Device /\ 3 \notin Device /\ Plain(p) /\ Lows(p)
  BY <1>2, SetupFacts
<1>4. held \subseteq Managed /\ mapped \subseteq Managed \cup Device /\ held \cap mapped = {}
      /\ setup \in Setups
  BY <1>2 DEF Base
<1>5. f \in Nat
  BY <1>1, <1>3, <1>4, Frame03
<1>6. Clear(m.mem, Edited, p)
  BY <1>2, <1>3, UserClear
<1>7. MapDone(m, r, p, f, Owned, Roots, Edited)
  BY <1>2, <1>3, <1>5, <1>6, MapFacts, Zenon
<1> HIDE DEF r
<1>8. Good(m', Owned, Roots, Edited) /\ Grown(m, m', Owned)
  BY <1>1, <1>7 DEF MapDone
<1>9. m'.cr3 = m.cr3 /\ m'.free \subseteq m.free /\ \A x \in m'.tlb : x \in m.tlb \/ x[1][1] = R
  BY <1>8 DEF Grown
<1>10. Managed' = Managed /\ Roots' = Roots /\ Edited' = Edited
  BY <1>1, <1>9 DEF Managed, Roots, Edited, Active
<1>11. Callers' = Callers \/ (Callers' = Callers \cup {f} /\ f \in Device)
  BY <1>1 DEF Callers
<1>12. Owned' = Owned
  BY <1>3, <1>10, <1>11 DEF Owned
<1>13. Base'
  BY <1>1, <1>4, <1>10 DEF Base
<1>14. Kept(m, m', Owned)
  BY <1>8, GrownKept
<1>15. CtxInv'
  BY <1>1, <1>2, <1>9, <1>14, CtxGrown
<1>16. m'.free \cap Callers' = {}
  BY <1>2, <1>3, <1>9, <1>11
<1>17. Good(m', Owned', Roots', Edited')
  BY <1>8, <1>10, <1>12
<1>18. IInv'
  BY <1>13, <1>15, <1>16, <1>17, InvGood
<1>19. Steady
  BY <1>8, <1>9, <1>14, SteadyGood
<1> QED BY <1>18, <1>19

LEMMA UnmapCall ==
  ASSUME IInv, NEW p \in UserPages, UnmapPage(p)
  PROVE  UnmapDone(m, Unmap(m, p), p, Owned, Roots, Edited)
<1>1. Running(m) /\ Walk(m.mem, Edited, p) \in (mapped \ Device) \cup {NoFrame}
  BY DEF UnmapPage
<1>2. /\ Base /\ Good(m, Owned, Roots, Edited)
  BY <1>1, StateFacts
<1>3. Managed \subseteq Frames /\ Lows(p)
  BY <1>2, SetupFacts
<1>4. mapped \subseteq Managed \cup Device
  BY <1>2 DEF Base
<1>5. m.mem \in Mems /\ Edited \in Frames
  BY <1>2, GoodFacts
<1>6. ASSUME NEW f, Chain(m.mem, Edited, p, f) PROVE f \in Frames \ Owned
  <2>1. Walk(m.mem, Edited, p) = f
    BY <1>5, <1>6, ChainWalk
  <2>2. PICK u \in Frames : Edge(m.mem, u, p[4], f)
    BY <1>6 DEF Chain
  <2>3. f \in Nat
    BY <1>5, <2>2, EdgeFacts DEF Mems, Ents
  <2>4. f # NoFrame
    BY <2>3 DEF NoFrame
  <2> QED BY <1>1, <1>3, <1>4, <2>1, <2>4 DEF Owned, Callers
<1> QED BY <1>2, <1>3, <1>6, UnmapFacts, Zenon

LEMMA InvUnmapPage ==
  ASSUME IInv, NEW p \in UserPages, UnmapPage(p)
  PROVE  IInv'
<1> DEFINE r == Unmap(m, p)
<1>1. /\ Running(m) /\ Walk(m.mem, Edited, p) \in (mapped \ Device) \cup {NoFrame} /\ m' = r.m
      /\ mapped' = IF r.r = "Ok" THEN mapped \ {Walk(m.mem, Edited, p)} ELSE mapped
      /\ UNCHANGED <<setup, held, inactive, ctx>>
  BY DEF UnmapPage
<1>2. UnmapDone(m, r, p, Owned, Roots, Edited)
  BY UnmapCall
<1> HIDE DEF r
<1>3. /\ Base /\ Good(m, Owned, Roots, Edited) /\ CtxInv /\ m.free \cap Callers = {}
      /\ m.free \subseteq Managed /\ Active \notin Callers /\ Active \in Roots /\ Active \in Frames
  BY <1>1, StateFacts
<1>4. held \subseteq Managed /\ mapped \subseteq Managed \cup Device /\ held \cap mapped = {}
      /\ setup \in Setups
  BY <1>3 DEF Base
<1>5. m.mem \in Mems /\ Edited \in Frames /\ Managed' = Managed
  BY <1>1, <1>3, GoodFacts DEF Managed
<1>6. CASE /\ r.r = "NoEntry" /\ Good(r.m, Owned, Roots, Edited) /\ Grown(m, r.m, Owned)
           /\ r.m.mem = m.mem /\ r.m.free = m.free
  <2>1. mapped' = mapped
    BY <1>1, <1>6
  <2>2. m'.cr3 = m.cr3 /\ \A x \in m'.tlb : x \in m.tlb \/ x[1][1] = R
    BY <1>1, <1>6 DEF Grown
  <2>3. Roots' = Roots /\ Edited' = Edited /\ Callers' = Callers
    BY <1>1, <2>1, <2>2 DEF Roots, Edited, Active, Callers
  <2>4. Owned' = Owned
    BY <1>5, <2>3 DEF Owned
  <2>5. Base'
    BY <1>1, <1>4, <1>5, <2>1 DEF Base
  <2>6. Kept(m, m', Owned)
    BY <1>1, <1>6, GrownKept
  <2>7. CtxInv'
    BY <1>1, <1>3, <2>2, <2>6, CtxGrown
  <2>8. m'.free \cap Callers' = {} /\ Good(m', Owned', Roots', Edited')
    BY <1>1, <1>3, <1>6, <2>3, <2>4
  <2> QED BY <2>5, <2>7, <2>8, InvGood
<1>7. ASSUME NEW f, Cut(m, r, p, f, Owned, Roots, Edited) PROVE IInv'
  <2>1. /\ r.r = "Ok" /\ m'.free = m.free \cup {f} /\ m'.cr3 = m.cr3
        /\ \A x \in m'.tlb : x \in m.tlb \/ x[1][1] = R
        /\ Good(m', Owned \cup {f}, Roots, Edited)
    BY <1>1, <1>7 DEF Cut
  <2>2. PICK u \in Owned \ m.free : /\ Path(m.mem, Edited, p[1], p[2], p[3], u)
                                    /\ Edge(m.mem, u, p[4], f)
                                    /\ Wrote(m.mem, m'.mem, u, p[4], Empty)
    BY <1>1, <1>7 DEF Cut
  <2>3. Plain(p) /\ p \in Pages
    BY <1>3, SetupFacts DEF Plain
  <2>4. Owned \ m.free \subseteq Frames
    BY <1>3, GoodFacts
  <2>5. Chain(m.mem, Edited, p, f)
    BY <2>2, <2>3, <2>4 DEF Chain
  <2>6. Walk(m.mem, Edited, p) = f
    BY <1>5, <2>5, ChainWalk
  <2>7. f \in mapped \ Device
    <3>1. f \in Nat
      BY <1>5, <2>2, <2>4, EdgeFacts DEF Mems, Ents
    <3>2. f # NoFrame
      BY <3>1 DEF NoFrame
    <3> QED BY <1>1, <2>6, <3>2
  <2>8. mapped' = mapped \ {f} /\ f \in Managed /\ f \notin held
    BY <1>1, <1>4, <2>1, <2>6, <2>7
  <2>9. Roots' = Roots /\ Edited' = Edited /\ Callers' = Callers \ {f}
    BY <1>1, <2>1, <2>8 DEF Roots, Edited, Active, Callers
  <2>10. Owned' = Owned \cup {f}
    BY <1>5, <2>8, <2>9 DEF Owned
  <2>11. Base'
    BY <1>1, <1>4, <1>5, <2>8 DEF Base
  <2>12. \A q : Chain(m.mem, Active, q, Active) => Chain(m'.mem, Active, q, Active)
    <3> SUFFICES ASSUME NEW q, Chain(m.mem, Active, q, Active) PROVE Chain(m'.mem, Active, q, Active)
      OBVIOUS
    <3>1. Chain(r.m.mem, Active, q, Active) \/ (q = p /\ Active = Edited /\ Active = f)
      <4>1. Good(m, Owned, Roots, Edited) /\ Active \in Roots /\ p \in Pages
        BY <1>3, <2>3
      <4> QED BY <1>7, <4>1, CutChain, SMTT(30)
    <3>2. Active # f
      BY <1>3, <2>7 DEF Callers
    <3> QED BY <1>1, <3>1, <3>2
  <2>13. Crowded(m.mem, Active) => Crowded(m'.mem, Active)
    <3>1. PICK lv : Tree(m.mem, Owned \ m.free, lv, Roots, m.cr3, Edited)
      BY <1>3 DEF Good
    <3>2. RefAt(m.mem, Edited, 1, <<R, p[1], p[2], p[3]>>, u)
      BY <2>2, PathRef
    <3>3. lv[u] = 1
      BY <1>5, <3>1, <3>2, RefFacts
    <3>4. lv[Active] = 4
      BY <3>1, TreeFacts DEF Active
    <3>5. Active # u
      BY <3>3, <3>4
    <3>6. ASSUME NEW i \in 1 .. (Half - 1) PROVE m'.mem[Active][i] = m.mem[Active][i]
      <4>1. i \in Idx
        BY Indices
      <4> QED BY <1>3, <2>2, <3>5, <4>1 DEF Wrote
    <3> QED BY <3>6 DEF Crowded
  <2>14. CtxInv'
    BY <1>1, <1>3, <2>1, <2>12, <2>13, CtxKept
  <2>15. m'.free \cap Callers' = {} /\ Good(m', Owned', Roots', Edited')
    BY <1>3, <2>1, <2>9, <2>10
  <2> QED BY <2>11, <2>14, <2>15, InvGood
<1> QED BY <1>2, <1>6, <1>7 DEF UnmapDone

LEMMA BlockFacts ==
  ASSUME NEW k, Blocks(k) # {}, m.free \subseteq Nat
  PROVE  Min(Blocks(k)) \in Nat /\ Min(Blocks(k)) .. (Min(Blocks(k)) + k - 1) \subseteq m.free
<1>1. Blocks(k) \in SUBSET Nat
  BY DEF Blocks
<1>2. Min(Blocks(k)) \in Blocks(k)
  BY <1>1, MinFacts
<1> QED BY <1>1, <1>2 DEF Blocks

(* The frames of a block, taken from the allocator. *)
LEMMA BlockGood ==
  ASSUME NEW n, NEW U, NEW roots, NEW ed, Good(n, U, roots, ed), NEW block, block \subseteq n.free
  PROVE  LET n0 == [n EXCEPT !.free = @ \ block] IN
         /\ Good(n0, U \ block, roots, ed) /\ n0.mem = n.mem /\ n0.free = n.free \ block
         /\ n0.cr3 = n.cr3 /\ n0.tlb = n.tlb /\ (U \ block) \ n0.free = U \ n.free
<1> DEFINE n0 == [n EXCEPT !.free = @ \ block]
<1>1. n \in Machines /\ Running(n) /\ ~n.stale /\ n.free \subseteq U /\ TlbOk(n, ed)
  BY GoodFacts
<1>2. /\ n0 \in Machines /\ n0.mem = n.mem /\ n0.free = n.free \ block /\ n0.cr3 = n.cr3
      /\ n0.tlb = n.tlb /\ n0.stale = n.stale /\ n0.fault = n.fault
  BY <1>1 DEF Machines
<1> HIDE DEF n0
<1>3. (U \ block) \ n0.free = U \ n.free /\ n0.free \subseteq U \ block
  BY <1>1, <1>2
<1>4. TlbOk(n0, ed)
  BY <1>1, <1>2 DEF TlbOk
<1>5. \E lv : Tree(n0.mem, (U \ block) \ n0.free, lv, roots, n0.cr3, ed)
  BY <1>2, <1>3 DEF Good
<1>6. Running(n0) /\ ~n0.stale
  BY <1>1, <1>2 DEF Running
<1>7. Good(n0, U \ block, roots, ed)
  BY <1>2, <1>3, <1>4, <1>5, <1>6 DEF Good
<1> QED BY <1>2, <1>3, <1>7 DEF n0

LEMMA InvAutoMap ==
  ASSUME IInv, AutoMap(BlockSize)
  PROVE  IInv' /\ Steady
<1> DEFINE k  == BlockSize
           f  == Min(Blocks(k))
           block == f .. (f + k - 1)
           n0 == [m EXCEPT !.free = @ \ block]
           r  == AutoContinuousMap(n0, f, k)
<1>1. /\ Running(m) /\ Blocks(k) # {} /\ m' = r.m /\ mapped' = mapped \cup block
      /\ UNCHANGED <<setup, held, inactive, ctx>>
  BY DEF AutoMap
<1>2. /\ Base /\ Good(m, Owned, Roots, Edited) /\ CtxInv /\ m.free \cap Callers = {}
      /\ m.free \subseteq Managed /\ m.free \subseteq Nat
  BY <1>1, StateFacts
<1>3. k \in Nat \ {0}
  BY <1>2, SetupFacts
<1>4. f \in Nat /\ block \subseteq m.free
  BY <1>1, <1>2, BlockFacts
<1> HIDE DEF block, f, k
<1>5. /\ Good(n0, Owned \ block, Roots, Edited) /\ n0.mem = m.mem /\ n0.free = m.free \ block
      /\ n0.cr3 = m.cr3 /\ n0.tlb = m.tlb /\ (Owned \ block) \ n0.free = Owned \ m.free
  BY <1>2, <1>4, BlockGood
<1> HIDE DEF n0
<1>6. AutoDone(n0, r, f, k, Owned \ block, Roots, Edited)
  BY <1>3, <1>4, <1>5, AutoFacts, Zenon
<1> HIDE DEF r
<1>7. Good(m', Owned \ block, Roots, Edited) /\ Grown(n0, m', Owned \ block)
  BY <1>1, <1>6 DEF AutoDone
<1>8. m'.cr3 = m.cr3 /\ m'.free \subseteq m.free \ block /\ \A x \in m'.tlb : x \in m.tlb \/ x[1][1] = R
  BY <1>5, <1>7 DEF Grown
<1>9. Managed' = Managed /\ Roots' = Roots /\ Edited' = Edited /\ Callers' = Callers \cup block
  BY <1>1, <1>8 DEF Managed, Roots, Edited, Active, Callers
<1>10. Owned' = Owned \ block
  BY <1>9 DEF Owned
<1>11. Base'
  <2>1. held \subseteq Managed /\ mapped \subseteq Managed \cup Device /\ held \cap mapped = {}
        /\ setup \in Setups
    BY <1>2 DEF Base
  <2>2. held \cap block = {} /\ block \subseteq Managed
    BY <1>2, <1>4 DEF Callers
  <2> QED BY <1>1, <1>9, <2>1, <2>2 DEF Base
<1>12. Kept(m, m', Owned)
  <2>1. Kept(n0, m', Owned \ block)
    BY <1>7, GrownKept
  <2> QED BY <1>5, <2>1 DEF Kept
<1>13. CtxInv'
  BY <1>1, <1>2, <1>8, <1>12, CtxGrown
<1>14. m'.free \cap Callers' = {} /\ Good(m', Owned', Roots', Edited')
  BY <1>2, <1>7, <1>8, <1>9, <1>10
<1>15. IInv'
  BY <1>11, <1>13, <1>14, InvGood
<1>16. Steady
  BY <1>7, <1>8, <1>12, SteadyGood
<1> QED BY <1>15, <1>16

LEMMA InvNew ==
  ASSUME IInv, New
  PROVE  IInv' /\ Steady
<1> DEFINE r == NewTable(m)
<1>1. /\ Running(m) /\ ctx = << >> /\ m' = r.m
      /\ inactive' = IF r.p = None \/ ~Running(r.m) THEN inactive ELSE inactive \cup {r.f}
      /\ UNCHANGED <<setup, held, mapped, ctx>>
  BY DEF New
<1>2. /\ Base /\ Good(m, Owned, Roots, Edited) /\ CtxInv /\ m.free \cap Callers = {}
      /\ Active \in Owned \ m.free
  BY <1>1, StateFacts
<1>3. Edited = m.cr3 /\ Good(m, Owned, Roots, m.cr3)
  BY <1>1, <1>2 DEF Edited, Active
<1>4. NewDone(m, r, Owned, Roots, m.cr3)
  BY <1>3, NewTableFacts, Zenon
<1> HIDE DEF r
<1>5. Managed' = Managed /\ Callers' = Callers
  BY <1>1 DEF Managed, Callers
<1>6. Base' /\ Owned' = Owned
  BY <1>1, <1>2, <1>5 DEF Base, Owned
<1>7. CASE r.m = m /\ r.p = None
  <2>1. m' = m /\ inactive' = inactive
    BY <1>1, <1>7
  <2>2. Roots' = Roots /\ Edited' = Edited /\ Active' = Active
    BY <1>1, <2>1 DEF Roots, Edited, Active
  <2>3. CtxInv'
    BY <1>1, <1>2, <2>1, <2>2 DEF CtxInv
  <2>4. m'.free \cap Callers' = {} /\ Good(m', Owned', Roots', Edited')
    BY <1>2, <1>5, <1>6, <2>1, <2>2
  <2>5. Kept(m, m', Owned)
    BY <2>1 DEF Kept
  <2>6. Steady
    BY <1>2, <2>1, <2>5, SteadyGood
  <2> QED BY <1>6, <2>3, <2>4, <2>6, InvGood
<1>8. CASE Made(m, r, Owned, Roots, m.cr3)
  <2>1. /\ r.f \in m.free /\ r.p # None /\ m'.cr3 = m.cr3 /\ m'.free \subseteq m.free
        /\ Good(m', Owned, Roots \cup {r.f}, m.cr3)
    BY <1>1, <1>8 DEF Made
  <2>2. Running(r.m)
    BY <1>1, <2>1, GoodFacts
  <2>3. inactive' = inactive \cup {r.f}
    BY <1>1, <2>1, <2>2
  <2>4. Roots' = Roots \cup {r.f} /\ Edited' = m.cr3 /\ Active' = Active
    BY <1>1, <2>1, <2>3 DEF Roots, Edited, Active
  <2>5. CtxInv'
    BY <1>1, <1>2, <2>1, <2>3, <2>4 DEF CtxInv
  <2>6. m'.free \cap Callers' = {} /\ Good(m', Owned', Roots', Edited')
    BY <1>2, <1>5, <1>6, <2>1, <2>4
  <2>7. Kept(m, m', Owned)
    BY <1>1, <1>8 DEF Made
  <2>8. Steady
    BY <1>3, <2>1, <2>7, SteadyGood
  <2> QED BY <1>6, <2>5, <2>6, <2>8, InvGood
<1>9. ASSUME Kept(m, r.m, Owned), r.m.cr3 = m.cr3, NEW V, Halted(r.m, V, Roots, m.cr3)
      PROVE  IInv' /\ Steady
  <2>1. Stop(m')
    BY <1>1, <1>9, HaltFacts
  <2>2. Steady
    BY <1>1, <1>3, <1>9, SteadyHalt
  <2> QED BY <1>6, <2>1, <2>2, InvStop
<1> QED BY <1>4, <1>7, <1>8, <1>9 DEF NewDone

LEMMA InvBeginWith ==
  ASSUME IInv, NEW t \in inactive, BeginWith(t)
  PROVE  IInv'
<1> DEFINE r == WithBegin(m, t)
<1>1. /\ Running(m) /\ ctx = << >> /\ m' = r.m
      /\ ctx' = IF r.r = "Ok" THEN <<t, r.p>> ELSE << >>
      /\ UNCHANGED <<setup, held, mapped, inactive>>
  BY DEF BeginWith
<1>2. /\ Base /\ Good(m, Owned, Roots, Edited) /\ CtxInv /\ m.free \cap Callers = {}
  BY <1>1, StateFacts
<1>3. Edited = m.cr3 /\ Good(m, Owned, Roots, m.cr3) /\ t \in Roots
  BY <1>1, <1>2 DEF Edited, Active, Roots
<1>4. BeginDone(m, r, t, Owned, Roots)
  BY <1>3, BeginFacts, Zenon
<1> HIDE DEF r
<1>5. Managed' = Managed /\ Callers' = Callers
  BY <1>1 DEF Managed, Callers
<1>6. Base' /\ Owned' = Owned
  BY <1>1, <1>2, <1>5 DEF Base, Owned
<1>7. m'.cr3 = m.cr3 /\ Active' = Active /\ Roots' = Roots /\ Active \notin inactive
  BY <1>1, <1>2, <1>4 DEF BeginDone, Active, Roots, CtxInv
<1>8. CASE r.r = "NoEntry" /\ Good(r.m, Owned, Roots, m.cr3) /\ Grown(m, r.m, Owned)
  <2>1. ctx' = << >>
    BY <1>1, <1>8
  <2>2. Edited' = m.cr3
    BY <1>7, <2>1 DEF Edited, Active
  <2>3. CtxInv'
    BY <1>1, <1>7, <2>1 DEF CtxInv
  <2>4. m'.free \subseteq m.free
    BY <1>1, <1>8 DEF Grown
  <2>5. m'.free \cap Callers' = {} /\ Good(m', Owned', Roots', Edited')
    BY <1>1, <1>2, <1>5, <1>6, <1>7, <1>8, <2>2, <2>4
  <2> QED BY <1>6, <2>3, <2>5, InvGood
<1>9. CASE r.r = "Ok" /\ Begun(m, r, t, Owned, Roots)
  <2>1. /\ Good(m', Owned, Roots, t) /\ m'.tlb = {} /\ m'.free \subseteq m.free
        /\ Chain(m'.mem, m.cr3, r.p, m.cr3)
        /\ r.p[1] < Half \/ Crowded(m'.mem, m.cr3)
    BY <1>1, <1>9 DEF Begun
  <2>2. ctx' = <<t, r.p>>
    BY <1>1, <1>9
  <2>3. ctx' # << >> /\ ctx'[1] = t /\ ctx'[2] = r.p
    BY <2>2
  <2>4. Edited' = t
    BY <2>3 DEF Edited
  <2>5. Active = m.cr3 /\ inactive' = inactive
    BY <1>1 DEF Active
  <2>6. CtxInv'
    BY <1>7, <2>1, <2>3, <2>5 DEF CtxInv
  <2>7. m'.free \cap Callers' = {} /\ Good(m', Owned', Roots', Edited')
    BY <1>2, <1>5, <1>6, <1>7, <2>1, <2>4
  <2> QED BY <1>6, <2>6, <2>7, InvGood
<1> QED BY <1>4, <1>8, <1>9 DEF BeginDone

LEMMA EndCall ==
  ASSUME IInv, EndWith
  PROVE  EndDone(m, m', Owned, Roots, Edited)
<1>1. Running(m) /\ ctx # << >> /\ m' = WithEnd(m, ctx[2], m.cr3)
  BY DEF EndWith, Active
<1>2. Good(m, Owned, Roots, Edited) /\ CtxInv
  BY <1>1, StateFacts
<1>3. /\ Chain(m.mem, m.cr3, ctx[2], m.cr3)
      /\ ctx[2][1] < Half \/ Crowded(m.mem, m.cr3)
      /\ \A x \in m.tlb : x[1] = ctx[2] => x[2] = m.cr3
  BY <1>1, <1>2 DEF CtxInv, Active
<1>4. EndDone(m, WithEnd(m, ctx[2], m.cr3), Owned, Roots, Edited)
  BY <1>2, <1>3, EndFacts, Zenon
<1> QED BY <1>1, <1>4

LEMMA InvEndWith ==
  ASSUME IInv, EndWith
  PROVE  IInv'
<1>1. /\ Running(m) /\ ctx # << >> /\ ctx' = (IF Running(m') THEN << >> ELSE ctx)
      /\ UNCHANGED <<setup, held, mapped, inactive>>
  BY DEF EndWith
<1>2. EndDone(m, m', Owned, Roots, Edited)
  BY EndCall
<1>3. /\ Base /\ Good(m, Owned, Roots, Edited) /\ CtxInv /\ m.free \cap Callers = {}
  BY <1>1, StateFacts
<1>4. Managed' = Managed /\ Callers' = Callers
  BY <1>1 DEF Managed, Callers
<1>5. Base' /\ Owned' = Owned
  BY <1>1, <1>3, <1>4 DEF Base, Owned
<1>6. CASE Redirected(m, m', Owned, Roots, m.cr3)
  <2>1. Good(m', Owned, Roots, m.cr3) /\ m'.free = m.free /\ m'.cr3 = m.cr3
    BY <1>6 DEF Redirected
  <2>2. ctx' = << >>
    BY <1>1, <2>1, GoodFacts
  <2>3. Edited' = m.cr3 /\ Active' = Active /\ Roots' = Roots
    BY <1>1, <2>1, <2>2 DEF Edited, Active, Roots
  <2>4. CtxInv'
    BY <1>1, <1>3, <2>2, <2>3 DEF CtxInv
  <2>5. m'.free \cap Callers' = {} /\ Good(m', Owned', Roots', Edited')
    BY <1>3, <1>4, <1>5, <2>1, <2>3
  <2> QED BY <1>5, <2>4, <2>5, InvGood
<1>7. CASE Halted(m', Owned, Roots, Edited)
  <2>1. Stop(m')
    BY <1>7, HaltFacts
  <2> QED BY <1>5, <2>1, InvStop
<1> QED BY <1>2, <1>6, <1>7 DEF EndDone

LEMMA InvSwitchTo ==
  ASSUME IInv, NEW t \in inactive, SwitchTo(t)
  PROVE  IInv'
<1>1. /\ Running(m) /\ ctx = << >> /\ m' = Switch(m, t)
      /\ inactive' = (inactive \ {t}) \cup {Active}
      /\ UNCHANGED <<setup, held, mapped, ctx>>
  BY DEF SwitchTo
<1>2. /\ Base /\ Good(m, Owned, Roots, Edited) /\ CtxInv /\ m.free \cap Callers = {}
  BY <1>1, StateFacts
<1>3. Edited = m.cr3 /\ Good(m, Owned, Roots, m.cr3) /\ t \in Roots
  BY <1>1, <1>2 DEF Edited, Active, Roots
<1>4. Good(m', Owned, Roots, t) /\ m'.cr3 = t /\ m'.free = m.free
  <2>1. /\ Good(Switch(m, t), Owned, Roots, t) /\ Switch(m, t).cr3 = t
        /\ Switch(m, t).free = m.free
    BY <1>3, SwitchGood
  <2> QED BY <1>1, <2>1
<1>5. Managed' = Managed /\ Callers' = Callers
  BY <1>1 DEF Managed, Callers
<1>6. Base' /\ Owned' = Owned
  BY <1>1, <1>2, <1>5 DEF Base, Owned
<1>7. Active' = t /\ Active \notin inactive /\ Edited' = t
  BY <1>1, <1>2, <1>4 DEF Active, CtxInv, Edited
<1>8. Roots' = Roots
  BY <1>1, <1>7 DEF Roots
<1>9. CtxInv'
  BY <1>1, <1>7 DEF CtxInv
<1>10. m'.free \cap Callers' = {} /\ Good(m', Owned', Roots', Edited')
  BY <1>2, <1>4, <1>5, <1>6, <1>7, <1>8
<1> QED BY <1>6, <1>9, <1>10, InvGood

(* A use of a page that the active table maps. *)
Used(n, n2, p) ==
  /\ n2.mem = n.mem /\ n2.free = n.free /\ n2.cr3 = n.cr3
  /\ n2.tlb = n.tlb \/ n2.tlb = n.tlb \cup {<<p, Walk(n.mem, n.cr3, p)>>}

LEMMA UseGood ==
  ASSUME NEW n, NEW U, NEW roots, NEW ed, Good(n, U, roots, ed), NEW p, Plain(p),
         Walk(n.mem, n.cr3, p) # NoFrame, NEW n2,
         n2 = [n EXCEPT !.tlb = IF \E t \in @ : t[1] = p THEN @
                                ELSE @ \cup {<<p, Walk(n.mem, n.cr3, p)>>}]
  PROVE  /\ Good(n2, U, roots, ed) /\ Used(n, n2, p)
         /\ Chain(n.mem, n.cr3, p, Walk(n.mem, n.cr3, p))
<1> DEFINE w == Walk(n.mem, n.cr3, p)
           T == IF \E t \in n.tlb : t[1] = p THEN n.tlb ELSE n.tlb \cup {<<p, w>>}
<1>1. /\ n \in Machines /\ n.mem \in Mems /\ n.cr3 \in roots /\ Running(n) /\ ~n.stale
      /\ n.free \subseteq U /\ TlbOk(n, ed)
  BY GoodFacts
<1>2. PICK lv : Tree(n.mem, U \ n.free, lv, roots, n.cr3, ed)
  BY DEF Good
<1>3. Chain(n.mem, n.cr3, p, w)
  BY <1>1, <1>2, WalkChain
<1>4. PICK u \in Frames : Path(n.mem, n.cr3, p[1], p[2], p[3], u) /\ Edge(n.mem, u, p[4], w)
  BY <1>3 DEF Chain
<1>5. PICK s : Edge(n.mem, n.cr3, p[1], s)
  BY <1>4 DEF Path
<1>6. n.mem[n.cr3][p[1]].p
  BY <1>5, EdgeFacts
<1>7. w \in Nat
  <2>1. p[4] \in Idx /\ n.mem[u][p[4]].f = w
    BY <1>4, EdgeFacts
  <2> HIDE DEF w
  <2> QED BY <1>1, <2>1 DEF Mems, Ents
<1>8. p \in Pages
  BY DEF Plain
<1> HIDE DEF w
<1>9. n.tlb \subseteq Pages \X Nat
  BY <1>1, MachineFacts
<1>10. (T = n.tlb \/ T = n.tlb \cup {<<p, w>>}) /\ T \subseteq Pages \X Nat
  BY <1>7, <1>8, <1>9
<1>11. n2 = [n EXCEPT !.tlb = T]
  BY DEF w
<1> HIDE DEF T
<1>12. /\ n2 \in Machines /\ n2.mem = n.mem /\ n2.free = n.free /\ n2.cr3 = n.cr3
       /\ n2.tlb = T /\ n2.stale = n.stale /\ n2.fault = n.fault
  BY <1>1, <1>10, <1>11 DEF Machines
<1>13. TlbOk(n2, ed)
  <2> SUFFICES ASSUME NEW x \in n2.tlb
               PROVE  \/ x[1][1] = R /\ \E l \in 1 .. 4 : RefAt(n2.mem, ed, l, x[1], x[2])
                      \/ Plain(x[1]) /\ n2.mem[n2.cr3][x[1][1]].p
    BY DEF TlbOk
  <2>1. CASE x \in n.tlb
    BY <1>1, <1>12, <2>1 DEF TlbOk
  <2>2. CASE x = <<p, w>>
    <3>1. x[1] = p
      BY <2>2
    <3> QED BY <1>6, <1>12, <3>1
  <2> QED BY <1>10, <1>12, <2>1, <2>2
<1>14. Running(n2) /\ ~n2.stale /\ n2.free \subseteq U
  BY <1>1, <1>12 DEF Running
<1>15. Tree(n2.mem, U \ n2.free, lv, roots, n2.cr3, ed)
  BY <1>2, <1>12
<1>16. Good(n2, U, roots, ed)
  BY <1>12, <1>13, <1>14, <1>15 DEF Good
<1>17. Used(n, n2, p)
  BY <1>10, <1>12 DEF Used, w
<1> QED BY <1>3, <1>16, <1>17 DEF w

LEMMA InvUse ==
  ASSUME IInv, NEW p \in UserPages, Use(p)
  PROVE  IInv' /\ Steady
<1>1. /\ Running(m) /\ Walk(m.mem, m.cr3, p) # NoFrame
      /\ m' = [m EXCEPT !.tlb = IF \E t \in @ : t[1] = p THEN @
                             ELSE @ \cup {<<p, Walk(m.mem, m.cr3, p)>>}]
      /\ UNCHANGED <<setup, held, mapped, inactive, ctx>>
  BY DEF Use, Active
<1>2. /\ Base /\ Good(m, Owned, Roots, Edited) /\ CtxInv /\ m.free \cap Callers = {}
  BY <1>1, StateFacts
<1>3. Plain(p)
  BY <1>2, SetupFacts
<1>4. /\ Good(m', Owned, Roots, Edited) /\ Used(m, m', p)
      /\ Chain(m.mem, m.cr3, p, Walk(m.mem, m.cr3, p))
  BY <1>1, <1>2, <1>3, UseGood
<1>5. /\ m'.mem = m.mem /\ m'.free = m.free /\ m'.cr3 = m.cr3
      /\ m'.tlb = m.tlb \/ m'.tlb = m.tlb \cup {<<p, Walk(m.mem, m.cr3, p)>>}
  BY <1>4 DEF Used
<1>6. /\ Managed' = Managed /\ Roots' = Roots /\ Edited' = Edited /\ Callers' = Callers
      /\ Active' = Active /\ Active = m.cr3
  BY <1>1, <1>5 DEF Managed, Roots, Edited, Active, Callers
<1>7. Base' /\ Owned' = Owned
  BY <1>1, <1>2, <1>6 DEF Base, Owned
<1>8. CtxInv'
  <2>1. ASSUME ctx # << >> PROVE \A x \in m'.tlb : x[1] = ctx[2] => x[2] = Active
    <3> SUFFICES ASSUME NEW x \in m'.tlb, x[1] = ctx[2] PROVE x[2] = Active
      OBVIOUS
    <3>1. CASE x \in m.tlb
      BY <1>2, <2>1, <3>1 DEF CtxInv
    <3>2. CASE x = <<p, Walk(m.mem, m.cr3, p)>>
      <4>1. p = ctx[2] /\ x[2] = Walk(m.mem, m.cr3, p)
        BY <3>2
      <4>2. Chain(m.mem, Active, p, Active)
        BY <1>2, <2>1, <4>1 DEF CtxInv
      <4>3. m.mem \in Mems /\ m.cr3 \in Frames
        BY <1>2, GoodFacts
      <4>4. Walk(m.mem, m.cr3, p) = Active
        BY <1>6, <4>2, <4>3, ChainWalk
      <4> QED BY <4>1, <4>4
    <3> QED BY <1>5, <3>1, <3>2
  <2> QED BY <1>1, <1>2, <1>5, <1>6, <2>1 DEF CtxInv
<1>9. m'.free \cap Callers' = {} /\ Good(m', Owned', Roots', Edited')
  BY <1>2, <1>4, <1>5, <1>6, <1>7
<1>10. IInv'
  BY <1>7, <1>8, <1>9, InvGood
<1>11. Kept(m, m', Owned)
  BY <1>5 DEF Kept
<1>12. Steady
  BY <1>4, <1>5, <1>11, SteadyGood
<1> QED BY <1>10, <1>12

(* The tables that the boot code leaves. *)
LEMMA BootTree ==
  ASSUME NEW free, free \subseteq Frames, free \cap (0 .. 3) = {}
  PROVE  /\ BootTables(free) \in Mems
         /\ \E lv : Tree(BootTables(free), {1, 3}, lv, {1}, 1, 1)
<1> DEFINE mem == BootTables(free)
           lv  == [s \in {1, 3} |-> IF s = 1 THEN 4 ELSE 3]
<1>1. R \in Idx /\ Half \in Low /\ Half \in Idx /\ R # Half /\ 0 \in Idx /\ R # 0 /\ Low \subseteq Idx
  BY Indices
<1>2. Blank \in [Idx -> Ents] /\ \A i \in Idx : Blank[i] = Empty
  BY EntryFacts DEF Blank
<1>3. /\ Entry(0) \in Ents /\ Entry(1) \in Ents /\ Entry(3) \in Ents /\ HugeEntry(0) \in Ents
      /\ IsTable(Entry(3)) /\ Entry(3).f = 3 /\ ~Entry(3).h /\ ~Entry(1).h
      /\ ~IsTable(Empty) /\ ~Empty.h
  BY EntryFacts
<1>4. Junk \in [Idx -> Ents]
  BY <1>3 DEF Junk
<1>5. mem \in Mems
  BY <1>2, <1>3, <1>4 DEF BootTables, Mems
<1>6. 1 \in Frames /\ 3 \in Frames
  BY Frame03
<1>7. /\ mem[1] = [Blank EXCEPT ![Half] = Entry(3), ![R] = Entry(1)]
      /\ mem[3] = [Blank EXCEPT ![0] = HugeEntry(0)]
  BY <1>6 DEF BootTables
<1> HIDE DEF mem
<1>8. /\ mem[1][Half] = Entry(3) /\ mem[1][R] = Entry(1)
      /\ \A i \in Idx : i # Half /\ i # R => mem[1][i] = Empty
  BY <1>1, <1>2, <1>7
<1>9. mem[3][0] = HugeEntry(0) /\ \A i \in Idx : i # 0 => mem[3][i] = Empty
  BY <1>1, <1>2, <1>7
<1>10. \A i, t : Edge(mem, 1, i, t) => i = Half /\ t = 3
  BY <1>1, <1>3, <1>8 DEF Edge, Low
<1>11. \A i, t : ~Edge(mem, 3, i, t)
  <2>1. ~IsTable(HugeEntry(0))
    BY DEF HugeEntry, IsTable
  <2> QED BY <1>1, <1>3, <1>9, <2>1 DEF Edge
<1>12. Edge(mem, 1, Half, 3)
  BY <1>1, <1>3, <1>8 DEF Edge
<1>13. lv[1] = 4 /\ lv[3] = 3 /\ lv \in [{1, 3} -> 1 .. 4]
  OBVIOUS
<1> HIDE DEF lv
<1>14. Levels({1, 3}, lv, {1})
  <2>1. \A s \in {1, 3} : lv[s] = 4 <=> s \in {1}
    BY <1>13
  <2> QED BY <1>6, <1>13, <2>1 DEF Levels
<1>15. BootPart(mem, {1, 3}, {1})
  BY <1>7, <1>8 DEF BootPart
<1>16. Selves(mem, {1, 3}, 1, 1)
  <2>1. \A i \in Idx : ~mem[1][i].h
    BY <1>3, <1>8
  <2> QED BY <1>8, <2>1 DEF Selves
<1>17. Children(mem, {1, 3}, lv)
  <2> SUFFICES ASSUME NEW s \in {1, 3}, NEW i, NEW t, Edge(mem, s, i, t)
               PROVE  t \in {1, 3} /\ lv[t] = lv[s] - 1
    BY DEF Children
  <2>1. s = 1 /\ t = 3
    BY <1>10, <1>11
  <2> QED BY <1>13, <2>1
<1>18. OneParent(mem, {1, 3}, lv)
  BY <1>10, <1>11 DEF OneParent
<1>19. Parents(mem, {1, 3}, lv)
  <2> SUFFICES ASSUME NEW s \in {1, 3}, lv[s] < 4
               PROVE  \E t \in {1, 3}, i \in Low : lv[t] = lv[s] + 1 /\ Edge(mem, t, i, s)
    BY DEF Parents
  <2>1. s = 3
    BY <1>13
  <2> QED BY <1>1, <1>12, <1>13, <2>1
<1>20. Tree(mem, {1, 3}, lv, {1}, 1, 1)
  BY <1>14, <1>15, <1>16, <1>17, <1>18, <1>19 DEF Tree
<1> QED BY <1>5, <1>20 DEF mem

LEMMA InvInit ==
  ASSUME Init
  PROVE  IInv
<1>1. /\ setup \in Setups /\ m = BootMachine(Managed) /\ held = {} /\ mapped = {} /\ inactive = {}
      /\ ctx = << >>
  BY DEF Init
<1>2. Base
  BY <1>1 DEF Base
<1>3. Managed \subseteq Frames /\ Managed \cap (0 .. 3) = {}
  BY <1>1, SetupAssumption DEF Managed
<1>4. BootTables(Managed) \in Mems /\ \E lv : Tree(BootTables(Managed), {1, 3}, lv, {1}, 1, 1)
  BY <1>3, BootTree
<1>5. /\ m.mem = BootTables(Managed) /\ m.free = Managed /\ m.cr3 = 1 /\ m.tlb = {}
      /\ ~m.stale /\ m.fault = "none"
  BY <1>1 DEF BootMachine
<1>6. m \in Machines
  BY <1>1, <1>3, <1>4, Frame03 DEF BootMachine, Machines, Mems
<1>7. Callers = {} /\ Owned = Managed \cup {1, 3} /\ Roots = {1} /\ Edited = 1 /\ Active = 1
  BY <1>1, <1>5 DEF Callers, Owned, Roots, Edited, Active
<1>8. 1 \in 0 .. 3 /\ 3 \in 0 .. 3
  OBVIOUS
<1>9. Owned \ m.free = {1, 3}
  BY <1>3, <1>5, <1>7, <1>8
<1>10. TlbOk(m, Edited)
  BY <1>5 DEF TlbOk
<1>11. Good(m, Owned, Roots, Edited)
  <2>1. \E lv : Tree(m.mem, Owned \ m.free, lv, Roots, m.cr3, Edited)
    BY <1>4, <1>5, <1>7, <1>9
  <2>2. Running(m) /\ m.free \subseteq Owned
    BY <1>5, <1>7 DEF Running
  <2> QED BY <1>5, <1>6, <1>10, <2>1, <2>2 DEF Good
<1>12. CtxInv
  BY <1>1 DEF CtxInv
<1>13. TablesReachable /\ StopsOnlyExhausted /\ m.free \cap Callers = {}
  BY <1>5, <1>7 DEF TablesReachable, StopsOnlyExhausted, Running
<1> QED BY <1>2, <1>11, <1>12, <1>13 DEF IInv

LEMMA InvNext ==
  ASSUME IInv, [Next]_vars
  PROVE  IInv'
<1>1. CASE AllocOne
  BY <1>1, InvAllocOne
<1>2. ASSUME NEW p \in UserPages, Use(p) PROVE IInv'
  BY <1>2, InvUse
<1>3. ASSUME NEW p \in UserPages, UnmapPage(p) PROVE IInv'
  BY <1>3, InvUnmapPage
<1>4. ASSUME NEW p \in UserPages, NEW f \in held \cup Device, MapPage(p, f) PROVE IInv'
  BY <1>4, InvMapPage
<1>5. CASE AutoMap(BlockSize)
  BY <1>5, InvAutoMap
<1>6. CASE New
  BY <1>6, InvNew
<1>7. CASE EndWith
  BY <1>7, InvEndWith
<1>8. ASSUME NEW t \in inactive, BeginWith(t) PROVE IInv'
  BY <1>8, InvBeginWith
<1>9. ASSUME NEW t \in inactive, SwitchTo(t) PROVE IInv'
  BY <1>9, InvSwitchTo
<1>10. CASE UNCHANGED vars
  <2>1. /\ setup' = setup /\ m' = m /\ held' = held /\ mapped' = mapped /\ inactive' = inactive
        /\ ctx' = ctx
    BY <1>10 DEF vars
  <2>2. Owned' = Owned /\ Callers' = Callers /\ Managed' = Managed
    BY <2>1 DEF Owned, Callers, Managed
  <2>3. Active' = Active /\ Roots' = Roots /\ Edited' = Edited
    BY <2>1 DEF Active, Roots, Edited
  <2>4. Base' /\ TablesReachable' /\ StopsOnlyExhausted'
    BY <2>1, <2>2, <2>3 DEF IInv, Base, TablesReachable, StopsOnlyExhausted
  <2>5. CtxInv => CtxInv'
    BY <2>1, <2>3 DEF CtxInv
  <2> QED BY <2>1, <2>2, <2>3, <2>4, <2>5 DEF IInv
<1> QED BY <1>1, <1>2, <1>3, <1>4, <1>5, <1>6, <1>7, <1>8, <1>9, <1>10 DEF Next
-------------------------------------------------------------------------------
(***************************************************************************)
(* The paths of tables, by entries.                                        *)
(***************************************************************************)
LowBelow(mem, t) == {<<i, mem[t][i]>> : i \in {x \in Low : mem[t][x].p}}

LEMMA BelowFacts ==
  ASSUME NEW mem \in Mems, NEW S, NEW lv, NEW roots, NEW a, NEW ed, Tree(mem, S, lv, roots, a, ed),
         NEW t \in S
  PROVE  /\ t \notin roots => Below(mem, t) = LowBelow(mem, t)
         /\ t \in roots => {y \in Below(mem, t) : y[1] # R} = LowBelow(mem, t)
<1>1. t \in Frames /\ t \in Nat /\ a \in roots /\ 3 \notin roots
  BY TreeFacts
<1>2. TableIn(mem, t) = mem[t]
  BY <1>1 DEF TableIn, Mems
<1> DEFINE P == {i \in Idx : mem[t][i].p /\ ~(i = R /\ mem[t][i].f = t)}
<1>3. Below(mem, t) = {<<i, mem[t][i]>> : i \in P}
  BY <1>2 DEF Below
<1>4. ASSUME t \notin roots PROVE R \notin P
  <2>1. CASE t = 3
    <3>1. mem[3][R] = Empty
      BY BootTable, Indices
    <3> QED BY <2>1, <3>1, EntryFacts
  <2>2. CASE t # 3
    <3>1. mem[t][R] = Entry(t)
      BY <1>1, <1>4, <2>2 DEF Tree, Selves
    <3>2. mem[t][R].f = t
      BY <1>1, <3>1, EntryFacts
    <3> QED BY <3>2
  <2> QED BY <2>1, <2>2
<1>5. ASSUME NEW i \in Low PROVE i \in P <=> mem[t][i].p
  BY Indices
<1>6. P \subseteq Idx
  OBVIOUS
<1> HIDE DEF P
<1>7. ASSUME t \notin roots PROVE Below(mem, t) = LowBelow(mem, t)
  <2>1. P = {x \in Low : mem[t][x].p}
    BY <1>4, <1>5, <1>6, <1>7 DEF Low
  <2> QED BY <1>3, <2>1 DEF LowBelow
<1>8. {y \in Below(mem, t) : y[1] # R} = LowBelow(mem, t)
  <2>1. ASSUME NEW y, y \in Below(mem, t), y[1] # R PROVE y \in LowBelow(mem, t)
    <3>1. PICK i \in P : y = <<i, mem[t][i]>>
      BY <1>3, <2>1
    <3>2. i # R
      BY <2>1, <3>1
    <3>3. i \in Low
      BY <1>6, <3>2 DEF Low
    <3>4. mem[t][i].p
      BY <1>5, <3>3
    <3> QED BY <3>1, <3>3, <3>4 DEF LowBelow
  <2>2. ASSUME NEW y \in LowBelow(mem, t) PROVE y \in Below(mem, t) /\ y[1] # R
    <3>1. PICK i \in Low : mem[t][i].p /\ y = <<i, mem[t][i]>>
      BY <2>2 DEF LowBelow
    <3>2. i \in P /\ i # R /\ y[1] = i
      BY <1>5, <3>1, Indices
    <3> QED BY <1>3, <3>1, <3>2
  <2> QED BY <2>1, <2>2
<1> QED BY <1>7, <1>8

LEMMA LowBelowFacts ==
  ASSUME NEW mem, NEW t, NEW y
  PROVE  y \in LowBelow(mem, t) <=> \E i \in Low : y = <<i, mem[t][i]>> /\ mem[t][i].p
  BY DEF LowBelow

LEMMA LongerFacts ==
  ASSUME NEW mem, NEW paths, NEW y
  PROVE  y \in Longer(mem, paths) <=>
           \E x \in paths : ~x[2].h /\ \E z \in Below(mem, x[2].f) : y = <<Append(x[1], z[1]), z[2]>>
  BY DEF Longer

LEMMA NonHuge ==
  ASSUME NEW mem, NEW t, NEW i \in Low, mem[t][i].p, ~mem[t][i].h
  PROVE  Edge(mem, t, i, mem[t][i].f)
  BY DEF Edge, IsTable

(* One index. *)
At1(mem, r, y) == \E i \in Low : y = <<<<i>>, mem[r][i]>> /\ mem[r][i].p
(* Two indices. *)
At2(mem, r, y) ==
  \E i, j \in Low : \E s : Edge(mem, r, i, s) /\ y = <<<<i, j>>, mem[s][j]>> /\ mem[s][j].p
(* Three. *)
At3(mem, r, y) ==
  \E i, j, k \in Low : \E s, t :
    Edge(mem, r, i, s) /\ Edge(mem, s, j, t) /\ y = <<<<i, j, k>>, mem[t][k]>> /\ mem[t][k].p

LEMMA Paths1Facts ==
  ASSUME NEW mem \in Mems, NEW S, NEW lv, NEW roots, NEW a, NEW ed, Tree(mem, S, lv, roots, a, ed),
         NEW r \in roots, NEW y
  PROVE  y \in Paths1(mem, r) <=> At1(mem, r, y)
<1>1. r \in S
  BY TreeFacts
<1>2. {z \in Below(mem, r) : z[1] # R} = LowBelow(mem, r)
  BY <1>1, BelowFacts
<1>3. Paths1(mem, r) = {<<<<x[1]>>, x[2]>> : x \in LowBelow(mem, r)}
  BY <1>2 DEF Paths1
<1>4. ASSUME y \in Paths1(mem, r) PROVE At1(mem, r, y)
  <2>1. PICK x \in LowBelow(mem, r) : y = <<<<x[1]>>, x[2]>>
    BY <1>3, <1>4
  <2>2. PICK i \in Low : x = <<i, mem[r][i]>> /\ mem[r][i].p
    BY <2>1, LowBelowFacts
  <2>3. x[1] = i /\ x[2] = mem[r][i]
    BY <2>2
  <2> QED BY <2>1, <2>2, <2>3 DEF At1
<1>5. ASSUME At1(mem, r, y) PROVE y \in Paths1(mem, r)
  <2>1. PICK i \in Low : y = <<<<i>>, mem[r][i]>> /\ mem[r][i].p
    BY <1>5 DEF At1
  <2> DEFINE x == <<i, mem[r][i]>>
  <2>2. x[1] = i /\ x[2] = mem[r][i]
    OBVIOUS
  <2>3. x \in LowBelow(mem, r)
    BY <2>1, LowBelowFacts
  <2> HIDE DEF x
  <2> QED BY <1>3, <2>1, <2>2, <2>3
<1> QED BY <1>4, <1>5

LEMMA Paths2Facts ==
  ASSUME NEW mem \in Mems, NEW S, NEW lv, NEW roots, NEW a, NEW ed, Tree(mem, S, lv, roots, a, ed),
         NEW r \in roots, NEW y
  PROVE  y \in Longer(mem, Paths1(mem, r)) <=> At2(mem, r, y)
<1>1. r \in S /\ lv[r] = 4 /\ \A s \in S : lv[s] = 3 => s \notin roots
  BY TreeFacts
<1>2. \A i, s : Edge(mem, r, i, s) => Below(mem, s) = LowBelow(mem, s)
  <2> SUFFICES ASSUME NEW i, NEW s, Edge(mem, r, i, s) PROVE Below(mem, s) = LowBelow(mem, s)
    OBVIOUS
  <2>1. s \in S /\ lv[s] = 3
    BY <1>1, Down
  <2> QED BY <1>1, <2>1, BelowFacts
<1>3. ASSUME y \in Longer(mem, Paths1(mem, r)) PROVE At2(mem, r, y)
  <2>1. PICK x \in Paths1(mem, r) :
          ~x[2].h /\ \E z \in Below(mem, x[2].f) : y = <<Append(x[1], z[1]), z[2]>>
    BY <1>3, LongerFacts
  <2>2. PICK z \in Below(mem, x[2].f) : y = <<Append(x[1], z[1]), z[2]>>
    BY <2>1
  <2>3. PICK i \in Low : x = <<<<i>>, mem[r][i]>> /\ mem[r][i].p
    BY <2>1, Paths1Facts DEF At1
  <2> DEFINE s == mem[r][i].f
  <2>4. x[1] = <<i>> /\ x[2] = mem[r][i] /\ x[2].f = s
    BY <2>3
  <2>5. Edge(mem, r, i, s)
    BY <2>1, <2>3, <2>4, NonHuge
  <2> HIDE DEF s
  <2>6. PICK j \in Low : z = <<j, mem[s][j]>> /\ mem[s][j].p
    BY <1>2, <2>2, <2>4, <2>5, LowBelowFacts
  <2>7. z[1] = j /\ z[2] = mem[s][j]
    BY <2>6
  <2>8. Append(<<i>>, j) = <<i, j>>
    BY Append1, Indices
  <2>9. y = <<<<i, j>>, mem[s][j]>>
    BY <2>2, <2>4, <2>7, <2>8
  <2> QED BY <2>5, <2>6, <2>9 DEF At2
<1>4. ASSUME At2(mem, r, y) PROVE y \in Longer(mem, Paths1(mem, r))
  <2>1. PICK i, j \in Low : \E s :
          Edge(mem, r, i, s) /\ y = <<<<i, j>>, mem[s][j]>> /\ mem[s][j].p
    BY <1>4 DEF At2
  <2>2. PICK s : Edge(mem, r, i, s) /\ y = <<<<i, j>>, mem[s][j]>> /\ mem[s][j].p
    BY <2>1
  <2> DEFINE x == <<<<i>>, mem[r][i]>>
             z == <<j, mem[s][j]>>
  <2>3. x[1] = <<i>> /\ x[2] = mem[r][i] /\ z[1] = j /\ z[2] = mem[s][j]
    OBVIOUS
  <2>4. ~x[2].h /\ x[2].f = s /\ mem[r][i].p
    BY <2>2, EdgeFacts
  <2>5. x \in Paths1(mem, r)
    <3>1. At1(mem, r, x)
      BY <2>4 DEF At1
    <3> QED BY <3>1, Paths1Facts
  <2>6. z \in Below(mem, s)
    BY <1>2, <2>2, LowBelowFacts
  <2> HIDE DEF x, z
  <2>7. Append(<<i>>, j) = <<i, j>>
    BY Append1, Indices
  <2>8. y = <<Append(x[1], z[1]), z[2]>>
    BY <2>2, <2>3, <2>7
  <2> QED BY <2>4, <2>5, <2>6, <2>8, LongerFacts
<1> QED BY <1>3, <1>4

LEMMA Paths3Facts ==
  ASSUME NEW mem \in Mems, NEW S, NEW lv, NEW roots, NEW a, NEW ed, Tree(mem, S, lv, roots, a, ed),
         NEW r \in roots, NEW y
  PROVE  y \in Longer(mem, Longer(mem, Paths1(mem, r))) <=> At3(mem, r, y)
<1> DEFINE l2 == Longer(mem, Paths1(mem, r))
<1>1. r \in S /\ lv[r] = 4 /\ \A s \in S : lv[s] = 2 => s \notin roots
  BY TreeFacts
<1>2. \A x : x \in l2 <=> At2(mem, r, x)
  BY Paths2Facts
<1> HIDE DEF l2
<1>3. \A i, s, j, t : Edge(mem, r, i, s) /\ Edge(mem, s, j, t) => Below(mem, t) = LowBelow(mem, t)
  <2> SUFFICES ASSUME NEW i, NEW s, NEW j, NEW t, Edge(mem, r, i, s), Edge(mem, s, j, t)
               PROVE  Below(mem, t) = LowBelow(mem, t)
    OBVIOUS
  <2>1. s \in S /\ lv[s] = 3
    BY <1>1, Down
  <2>2. t \in S /\ lv[t] = 2
    BY <2>1, Down
  <2> QED BY <1>1, <2>2, BelowFacts
<1>4. ASSUME y \in Longer(mem, l2) PROVE At3(mem, r, y)
  <2>1. PICK x \in l2 : ~x[2].h /\ \E z \in Below(mem, x[2].f) : y = <<Append(x[1], z[1]), z[2]>>
    BY <1>4, LongerFacts
  <2>2. PICK z \in Below(mem, x[2].f) : y = <<Append(x[1], z[1]), z[2]>>
    BY <2>1
  <2>3. PICK i, j \in Low : \E s : Edge(mem, r, i, s) /\ x = <<<<i, j>>, mem[s][j]>> /\ mem[s][j].p
    BY <1>2, <2>1 DEF At2
  <2>4. PICK s : Edge(mem, r, i, s) /\ x = <<<<i, j>>, mem[s][j]>> /\ mem[s][j].p
    BY <2>3
  <2> DEFINE t == mem[s][j].f
  <2>5. x[1] = <<i, j>> /\ x[2] = mem[s][j] /\ x[2].f = t
    BY <2>4
  <2>6. Edge(mem, s, j, t)
    BY <2>1, <2>4, <2>5, NonHuge
  <2> HIDE DEF t
  <2>7. PICK k \in Low : z = <<k, mem[t][k]>> /\ mem[t][k].p
    BY <1>3, <2>2, <2>4, <2>5, <2>6, LowBelowFacts
  <2>8. z[1] = k /\ z[2] = mem[t][k]
    BY <2>7
  <2>9. Append(<<i, j>>, k) = <<i, j, k>>
    BY Append2, Indices
  <2>10. y = <<<<i, j, k>>, mem[t][k]>>
    BY <2>2, <2>5, <2>8, <2>9
  <2> QED BY <2>4, <2>6, <2>7, <2>10 DEF At3
<1>5. ASSUME At3(mem, r, y) PROVE y \in Longer(mem, l2)
  <2>1. PICK i, j, k \in Low : \E s, t :
          Edge(mem, r, i, s) /\ Edge(mem, s, j, t) /\ y = <<<<i, j, k>>, mem[t][k]>> /\ mem[t][k].p
    BY <1>5 DEF At3
  <2>2. PICK s, t :
          Edge(mem, r, i, s) /\ Edge(mem, s, j, t) /\ y = <<<<i, j, k>>, mem[t][k]>> /\ mem[t][k].p
    BY <2>1
  <2> DEFINE x == <<<<i, j>>, mem[s][j]>>
             z == <<k, mem[t][k]>>
  <2>3. x[1] = <<i, j>> /\ x[2] = mem[s][j] /\ z[1] = k /\ z[2] = mem[t][k]
    OBVIOUS
  <2>4. ~x[2].h /\ x[2].f = t /\ mem[s][j].p
    BY <2>2, EdgeFacts
  <2>5. x \in l2
    <3>1. At2(mem, r, x)
      BY <2>2, <2>4 DEF At2
    <3> QED BY <1>2, <3>1
  <2>6. z \in Below(mem, t)
    BY <1>3, <2>2, LowBelowFacts
  <2> HIDE DEF x, z
  <2>7. Append(<<i, j>>, k) = <<i, j, k>>
    BY Append2, Indices
  <2>8. y = <<Append(x[1], z[1]), z[2]>>
    BY <2>2, <2>3, <2>7
  <2> QED BY <2>4, <2>5, <2>6, <2>8, LongerFacts
<1> QED BY <1>4, <1>5 DEF l2

(* The indices q lead from the root r to the table g. *)
Reach(mem, r, q, g) ==
  \/ q = << >> /\ g = r
  \/ \E i : q = <<i>> /\ Edge(mem, r, i, g)
  \/ \E i, j, s : q = <<i, j>> /\ Edge(mem, r, i, s) /\ Edge(mem, s, j, g)
  \/ \E i, j, k, s, t :
       q = <<i, j, k>> /\ Edge(mem, r, i, s) /\ Edge(mem, s, j, t) /\ Edge(mem, t, k, g)

LEMMA TablePathsFacts ==
  ASSUME NEW mem \in Mems, NEW S, NEW lv, NEW roots, NEW a, NEW ed, Tree(mem, S, lv, roots, a, ed),
         NEW r \in roots, NEW x
  PROVE  x \in TablePaths(mem, r) <=> \E q, g : x = <<q, g>> /\ Reach(mem, r, q, g)
<1> DEFINE l3 == Paths1(mem, r)
           l2 == Longer(mem, l3)
           l1 == Longer(mem, l2)
<1>1. \A y : /\ y \in l3 <=> At1(mem, r, y)
             /\ y \in l2 <=> At2(mem, r, y)
             /\ y \in l1 <=> At3(mem, r, y)
  BY Paths1Facts, Paths2Facts, Paths3Facts
<1>2. TablePaths(mem, r) =
        {<<<< >>, r>>} \cup {<<y[1], y[2].f>> : y \in {z \in l3 \cup l2 \cup l1 : ~z[2].h}}
  BY DEF TablePaths
<1> HIDE DEF l3, l2, l1
<1>3. ASSUME x \in TablePaths(mem, r) PROVE \E q, g : x = <<q, g>> /\ Reach(mem, r, q, g)
  <2>1. CASE x = <<<< >>, r>>
    BY <2>1 DEF Reach
  <2>2. ASSUME NEW y \in l3 \cup l2 \cup l1, ~y[2].h, x = <<y[1], y[2].f>>
        PROVE  Reach(mem, r, y[1], y[2].f)
    <3>1. CASE y \in l3
      <4>1. PICK i \in Low : y = <<<<i>>, mem[r][i]>> /\ mem[r][i].p
        BY <1>1, <3>1 DEF At1
      <4>2. y[1] = <<i>> /\ y[2] = mem[r][i]
        BY <4>1
      <4>3. Edge(mem, r, i, y[2].f)
        BY <2>2, <4>1, <4>2, NonHuge
      <4> QED BY <4>2, <4>3 DEF Reach
    <3>2. CASE y \in l2
      <4>1. PICK i, j \in Low : \E s : Edge(mem, r, i, s) /\ y = <<<<i, j>>, mem[s][j]>> /\ mem[s][j].p
        BY <1>1, <3>2 DEF At2
      <4>2. PICK s : Edge(mem, r, i, s) /\ y = <<<<i, j>>, mem[s][j]>> /\ mem[s][j].p
        BY <4>1
      <4>3. y[1] = <<i, j>> /\ y[2] = mem[s][j]
        BY <4>2
      <4>4. Edge(mem, s, j, y[2].f)
        BY <2>2, <4>2, <4>3, NonHuge
      <4> QED BY <4>2, <4>3, <4>4 DEF Reach
    <3>3. CASE y \in l1
      <4>1. PICK i, j, k \in Low : \E s, t :
              /\ Edge(mem, r, i, s) /\ Edge(mem, s, j, t) /\ y = <<<<i, j, k>>, mem[t][k]>>
              /\ mem[t][k].p
        BY <1>1, <3>3 DEF At3
      <4>2. PICK s, t : /\ Edge(mem, r, i, s) /\ Edge(mem, s, j, t) /\ y = <<<<i, j, k>>, mem[t][k]>>
                        /\ mem[t][k].p
        BY <4>1
      <4>3. y[1] = <<i, j, k>> /\ y[2] = mem[t][k]
        BY <4>2
      <4>4. Edge(mem, t, k, y[2].f)
        BY <2>2, <4>2, <4>3, NonHuge
      <4> QED BY <4>2, <4>3, <4>4 DEF Reach
    <3> QED BY <2>2, <3>1, <3>2, <3>3
  <2> QED BY <1>2, <1>3, <2>1, <2>2
<1>4. ASSUME NEW q, NEW g, x = <<q, g>>, Reach(mem, r, q, g) PROVE x \in TablePaths(mem, r)
  <2>1. ASSUME NEW y, y \in l3 \cup l2 \cup l1, ~y[2].h, y[1] = q, y[2].f = g
        PROVE  x \in TablePaths(mem, r)
    BY <1>2, <1>4, <2>1
  <2>2. CASE q = << >> /\ g = r
    BY <1>2, <1>4, <2>2
  <2>3. CASE \E i : q = <<i>> /\ Edge(mem, r, i, g)
    <3>1. PICK i : q = <<i>> /\ Edge(mem, r, i, g)
      BY <2>3
    <3> DEFINE y == <<<<i>>, mem[r][i]>>
    <3>2. y[1] = <<i>> /\ y[2] = mem[r][i]
      OBVIOUS
    <3>3. i \in Low /\ mem[r][i].p /\ ~y[2].h /\ y[2].f = g
      BY <3>1, EdgeFacts
    <3>4. At1(mem, r, y)
      BY <3>3 DEF At1
    <3> HIDE DEF y
    <3> QED BY <1>1, <2>1, <3>1, <3>2, <3>3, <3>4
  <2>4. CASE \E i, j, s : q = <<i, j>> /\ Edge(mem, r, i, s) /\ Edge(mem, s, j, g)
    <3>1. PICK i, j, s : q = <<i, j>> /\ Edge(mem, r, i, s) /\ Edge(mem, s, j, g)
      BY <2>4
    <3> DEFINE y == <<<<i, j>>, mem[s][j]>>
    <3>2. y[1] = <<i, j>> /\ y[2] = mem[s][j]
      OBVIOUS
    <3>3. i \in Low /\ j \in Low /\ mem[s][j].p /\ ~y[2].h /\ y[2].f = g
      BY <3>1, EdgeFacts
    <3>4. At2(mem, r, y)
      BY <3>1, <3>3 DEF At2
    <3> HIDE DEF y
    <3> QED BY <1>1, <2>1, <3>1, <3>2, <3>3, <3>4
  <2>5. CASE \E i, j, k, s, t :
               q = <<i, j, k>> /\ Edge(mem, r, i, s) /\ Edge(mem, s, j, t) /\ Edge(mem, t, k, g)
    <3>1. PICK i, j, k, s, t :
               q = <<i, j, k>> /\ Edge(mem, r, i, s) /\ Edge(mem, s, j, t) /\ Edge(mem, t, k, g)
      BY <2>5
    <3> DEFINE y == <<<<i, j, k>>, mem[t][k]>>
    <3>2. y[1] = <<i, j, k>> /\ y[2] = mem[t][k]
      OBVIOUS
    <3>3. i \in Low /\ j \in Low /\ k \in Low /\ mem[t][k].p /\ ~y[2].h /\ y[2].f = g
      BY <3>1, EdgeFacts
    <3>4. At3(mem, r, y)
      BY <3>1, <3>3 DEF At3
    <3> HIDE DEF y
    <3> QED BY <1>1, <2>1, <3>1, <3>2, <3>3, <3>4
  <2> QED BY <1>4, <2>2, <2>3, <2>4, <2>5 DEF Reach
<1> QED BY <1>3, <1>4

(* The tables of the tree are the ones that paths lead to, each by one path. *)
LEMMA ReachLevel ==
  ASSUME NEW mem, NEW S, NEW lv, NEW roots, NEW a, NEW ed, Tree(mem, S, lv, roots, a, ed),
         NEW r \in roots, NEW q, NEW g, Reach(mem, r, q, g)
  PROVE  /\ g \in S
         /\ lv[g] = 4 => q = << >> /\ g = r
         /\ lv[g] = 3 => \E i : q = <<i>> /\ Edge(mem, r, i, g)
         /\ lv[g] = 2 => \E i, j : \E s \in S : /\ q = <<i, j>> /\ Edge(mem, r, i, s) /\ Edge(mem, s, j, g)
                                               /\ lv[s] = 3
         /\ lv[g] = 1 => \E i, j, k : \E s, t \in S :
                           /\ q = <<i, j, k>> /\ Edge(mem, r, i, s) /\ Edge(mem, s, j, t)
                           /\ Edge(mem, t, k, g) /\ lv[s] = 3 /\ lv[t] = 2
<1>1. r \in S /\ lv[r] = 4
  BY TreeFacts
<1>2. CASE q = << >> /\ g = r
  BY <1>1, <1>2
<1>3. CASE \E i : q = <<i>> /\ Edge(mem, r, i, g)
  <2>1. g \in S /\ lv[g] = 3
    BY <1>1, <1>3, Down
  <2> QED BY <1>3, <2>1
<1>4. CASE \E i, j, s : q = <<i, j>> /\ Edge(mem, r, i, s) /\ Edge(mem, s, j, g)
  <2>1. PICK i, j, s : q = <<i, j>> /\ Edge(mem, r, i, s) /\ Edge(mem, s, j, g)
    BY <1>4
  <2>2. s \in S /\ lv[s] = 3
    BY <1>1, <2>1, Down
  <2>3. g \in S /\ lv[g] = 2
    BY <2>1, <2>2, Down
  <2> QED BY <2>1, <2>2, <2>3
<1>5. CASE \E i, j, k, s, t :
             q = <<i, j, k>> /\ Edge(mem, r, i, s) /\ Edge(mem, s, j, t) /\ Edge(mem, t, k, g)
  <2>1. PICK i, j, k, s, t :
             q = <<i, j, k>> /\ Edge(mem, r, i, s) /\ Edge(mem, s, j, t) /\ Edge(mem, t, k, g)
    BY <1>5
  <2>2. s \in S /\ lv[s] = 3
    BY <1>1, <2>1, Down
  <2>3. t \in S /\ lv[t] = 2
    BY <2>1, <2>2, Down
  <2>4. g \in S /\ lv[g] = 1
    BY <2>1, <2>3, Down
  <2> QED BY <2>1, <2>2, <2>3, <2>4
<1> QED BY <1>2, <1>3, <1>4, <1>5 DEF Reach

LEMMA ReachUnique ==
  ASSUME NEW mem, NEW S, NEW lv, NEW roots, NEW a, NEW ed, Tree(mem, S, lv, roots, a, ed),
         NEW g, NEW r \in roots, NEW q, Reach(mem, r, q, g),
         NEW r2 \in roots, NEW q2, Reach(mem, r2, q2, g)
  PROVE  r = r2 /\ q = q2
<1>1. r \in S /\ r2 \in S /\ lv[r] = 4 /\ lv[r2] = 4
  BY TreeFacts
<1>2. \A c, d \in S : \A b, e, x :
          (lv[c] > 1 /\ lv[d] > 1 /\ Edge(mem, c, b, x) /\ Edge(mem, d, e, x)) => c = d /\ b = e
  BY DEF Tree, OneParent
<1>3. g \in S /\ lv[g] \in 1 .. 4
  BY TreeFacts, ReachLevel
<1>4. CASE lv[g] = 4
  BY <1>4, ReachLevel
<1>5. CASE lv[g] = 3
  <2>1. PICK i : q = <<i>> /\ Edge(mem, r, i, g)
    BY <1>5, ReachLevel
  <2>2. PICK x : q2 = <<x>> /\ Edge(mem, r2, x, g)
    BY <1>5, ReachLevel
  <2>3. r = r2 /\ i = x
    BY <1>1, <1>2, <2>1, <2>2
  <2> QED BY <2>1, <2>2, <2>3
<1>6. CASE lv[g] = 2
  <2>1. PICK i, j : \E s \in S : q = <<i, j>> /\ Edge(mem, r, i, s) /\ Edge(mem, s, j, g) /\ lv[s] = 3
    BY <1>6, ReachLevel
  <2>2. PICK s \in S : q = <<i, j>> /\ Edge(mem, r, i, s) /\ Edge(mem, s, j, g) /\ lv[s] = 3
    BY <2>1
  <2>3. PICK x, y : \E z \in S : q2 = <<x, y>> /\ Edge(mem, r2, x, z) /\ Edge(mem, z, y, g) /\ lv[z] = 3
    BY <1>6, ReachLevel
  <2>4. PICK z \in S : q2 = <<x, y>> /\ Edge(mem, r2, x, z) /\ Edge(mem, z, y, g) /\ lv[z] = 3
    BY <2>3
  <2>5. s = z /\ j = y
    BY <1>2, <2>2, <2>4
  <2>6. r = r2 /\ i = x
    BY <1>1, <1>2, <2>2, <2>4, <2>5
  <2> QED BY <2>2, <2>4, <2>5, <2>6
<1>7. CASE lv[g] = 1
  <2>1. PICK i, j, k : \E s, t \in S :
          /\ q = <<i, j, k>> /\ Edge(mem, r, i, s) /\ Edge(mem, s, j, t)
          /\ Edge(mem, t, k, g) /\ lv[s] = 3 /\ lv[t] = 2
    BY <1>7, ReachLevel
  <2>2. PICK s, t \in S :
          /\ q = <<i, j, k>> /\ Edge(mem, r, i, s) /\ Edge(mem, s, j, t)
          /\ Edge(mem, t, k, g) /\ lv[s] = 3 /\ lv[t] = 2
    BY <2>1
  <2>3. PICK x, y, z : \E v, w \in S :
          /\ q2 = <<x, y, z>> /\ Edge(mem, r2, x, v) /\ Edge(mem, v, y, w)
          /\ Edge(mem, w, z, g) /\ lv[v] = 3 /\ lv[w] = 2
    BY <1>7, ReachLevel
  <2>4. PICK v, w \in S :
          /\ q2 = <<x, y, z>> /\ Edge(mem, r2, x, v) /\ Edge(mem, v, y, w)
          /\ Edge(mem, w, z, g) /\ lv[v] = 3 /\ lv[w] = 2
    BY <2>3
  <2>5. t = w /\ k = z
    BY <1>2, <2>2, <2>4
  <2>6. s = v /\ j = y
    BY <1>2, <2>2, <2>4, <2>5
  <2>7. r = r2 /\ i = x
    BY <1>1, <1>2, <2>2, <2>4, <2>6
  <2> QED BY <2>2, <2>4, <2>5, <2>6, <2>7
<1> QED BY <1>3, <1>4, <1>5, <1>6, <1>7

LEMMA ReachAll ==
  ASSUME NEW mem, NEW S, NEW lv, NEW roots, NEW a, NEW ed, Tree(mem, S, lv, roots, a, ed),
         NEW g \in S
  PROVE  \E r \in roots : \E q : Reach(mem, r, q, g)
<1>1. \A s \in S : lv[s] \in 1 .. 4 /\ (lv[s] = 4 <=> s \in roots)
  BY TreeFacts
<1>2. \A s \in S : lv[s] < 4 => \E t \in S, i \in Low : lv[t] = lv[s] + 1 /\ Edge(mem, t, i, s)
  BY DEF Tree, Parents
<1>3. ASSUME NEW s \in S, lv[s] = 4 PROVE \E r \in roots : \E q : Reach(mem, r, q, s)
  BY <1>1, <1>3 DEF Reach
<1>4. ASSUME NEW s \in S, lv[s] = 3 PROVE \E r \in roots : \E i : Edge(mem, r, i, s)
  <2>1. PICK t \in S, i \in Low : lv[t] = lv[s] + 1 /\ Edge(mem, t, i, s)
    BY <1>2, <1>4
  <2>2. t \in roots
    BY <1>1, <1>4, <2>1
  <2> QED BY <2>1, <2>2
<1>5. ASSUME NEW s \in S, lv[s] = 2
      PROVE  \E r \in roots : \E i, t, j : Edge(mem, r, i, t) /\ Edge(mem, t, j, s)
  <2>1. PICK t \in S, j \in Low : lv[t] = lv[s] + 1 /\ Edge(mem, t, j, s)
    BY <1>2, <1>5
  <2>2. lv[t] = 3
    BY <1>5, <2>1
  <2> QED BY <1>4, <2>1, <2>2
<1>6. ASSUME NEW s \in S, lv[s] = 1
      PROVE  \E r \in roots : \E i, t, j, u, k :
               Edge(mem, r, i, t) /\ Edge(mem, t, j, u) /\ Edge(mem, u, k, s)
  <2>1. PICK u \in S, k \in Low : lv[u] = lv[s] + 1 /\ Edge(mem, u, k, s)
    BY <1>2, <1>6
  <2>2. lv[u] = 2
    BY <1>6, <2>1
  <2> QED BY <1>5, <2>1, <2>2
<1>7. CASE lv[g] = 4
  BY <1>3, <1>7
<1>8. CASE lv[g] = 3
  <2>1. PICK r \in roots : \E i : Edge(mem, r, i, g)
    BY <1>4, <1>8
  <2>2. PICK i : Edge(mem, r, i, g)
    BY <2>1
  <2>3. Reach(mem, r, <<i>>, g)
    BY <2>2 DEF Reach
  <2> QED BY <2>3
<1>9. CASE lv[g] = 2
  <2>1. PICK r \in roots : \E i, t, j : Edge(mem, r, i, t) /\ Edge(mem, t, j, g)
    BY <1>5, <1>9
  <2>2. PICK i, t, j : Edge(mem, r, i, t) /\ Edge(mem, t, j, g)
    BY <2>1
  <2>3. Reach(mem, r, <<i, j>>, g)
    BY <2>2 DEF Reach
  <2> QED BY <2>3
<1>10. CASE lv[g] = 1
  <2>1. PICK r \in roots : \E i, t, j, u, k :
               Edge(mem, r, i, t) /\ Edge(mem, t, j, u) /\ Edge(mem, u, k, g)
    BY <1>6, <1>10
  <2>2. PICK i, t, j, u, k : Edge(mem, r, i, t) /\ Edge(mem, t, j, u) /\ Edge(mem, u, k, g)
    BY <2>1
  <2>3. Reach(mem, r, <<i, j, k>>, g)
    BY <2>2 DEF Reach
  <2> QED BY <2>3
<1> QED BY <1>1, <1>7, <1>8, <1>9, <1>10

LEMMA Accounted ==
  ASSUME IInv
  PROVE  FramesAccounted
<1> SUFFICES ASSUME Running(m) PROVE FramesAccounted
  BY DEF FramesAccounted
<1> DEFINE S == Owned \ m.free
           tables == {x[2][2] : x \in AllTables}
<1>1. /\ Base /\ Good(m, Owned, Roots, Edited) /\ m.free \cap Callers = {}
      /\ m.free \subseteq Owned /\ m.free \subseteq Managed
  BY StateFacts
<1>2. m.mem \in Mems
  BY <1>1, GoodFacts
<1>3. PICK lv : Tree(m.mem, S, lv, Roots, m.cr3, Edited)
  BY <1>1 DEF Good
<1>4. \A z : z \in AllTables <=>
        \E t \in Roots : \E q, g : z = <<t, <<q, g>>>> /\ Reach(m.mem, t, q, g)
  <2>1. ASSUME NEW t \in Roots, NEW x
        PROVE  x \in TablePaths(m.mem, t) <=> \E q, g : x = <<q, g>> /\ Reach(m.mem, t, q, g)
    BY <1>2, <1>3, TablePathsFacts
  <2>2. \A z : z \in AllTables <=> \E t \in Roots : \E x \in TablePaths(m.mem, t) : z = <<t, x>>
    BY DEF AllTables
  <2>3. ASSUME NEW z, z \in AllTables
        PROVE  \E t \in Roots : \E q, g : z = <<t, <<q, g>>>> /\ Reach(m.mem, t, q, g)
    <3>1. PICK t \in Roots : \E x \in TablePaths(m.mem, t) : z = <<t, x>>
      BY <2>2, <2>3
    <3>2. PICK x \in TablePaths(m.mem, t) : z = <<t, x>>
      BY <3>1
    <3>3. PICK q, g : x = <<q, g>> /\ Reach(m.mem, t, q, g)
      BY <2>1, <3>2
    <3> QED BY <3>2, <3>3
  <2>4. ASSUME NEW z, NEW t \in Roots, NEW q, NEW g, z = <<t, <<q, g>>>>, Reach(m.mem, t, q, g)
        PROVE  z \in AllTables
    <3>1. <<q, g>> \in TablePaths(m.mem, t)
      BY <2>1, <2>4
    <3> QED BY <2>2, <2>4, <3>1
  <2> QED BY <2>3, <2>4
<1>5. ASSUME NEW x \in AllTables, NEW y \in AllTables, x[2][2] = y[2][2] PROVE x = y
  <2>1a. PICK t \in Roots : \E q, g : x = <<t, <<q, g>>>> /\ Reach(m.mem, t, q, g)
    BY <1>4
  <2>1. PICK q, g : x = <<t, <<q, g>>>> /\ Reach(m.mem, t, q, g)
    BY <2>1a
  <2>2a. PICK t2 \in Roots : \E q2, g2 : y = <<t2, <<q2, g2>>>> /\ Reach(m.mem, t2, q2, g2)
    BY <1>4
  <2>2. PICK q2, g2 : y = <<t2, <<q2, g2>>>> /\ Reach(m.mem, t2, q2, g2)
    BY <2>2a
  <2>3. g = g2
    BY <1>5, <2>1, <2>2
  <2>4. t = t2 /\ q = q2
    BY <1>3, <2>1, <2>2, <2>3, ReachUnique
  <2> QED BY <2>1, <2>2, <2>3, <2>4
<1>6. tables = S
  <2>1. ASSUME NEW x \in AllTables PROVE x[2][2] \in S
    <3>1a. PICK t \in Roots : \E q, g : x = <<t, <<q, g>>>> /\ Reach(m.mem, t, q, g)
      BY <1>4
    <3>1. PICK q, g : x = <<t, <<q, g>>>> /\ Reach(m.mem, t, q, g)
      BY <3>1a
    <3>2. g \in S
      BY <1>3, <3>1, ReachLevel
    <3> QED BY <3>1, <3>2
  <2>2. ASSUME NEW g \in S PROVE g \in tables
    <3>1. PICK t \in Roots : \E q : Reach(m.mem, t, q, g)
      BY <1>3, ReachAll
    <3>2. PICK q : Reach(m.mem, t, q, g)
      BY <3>1
    <3> DEFINE x == <<t, <<q, g>>>>
    <3>3. x \in AllTables /\ x[2][2] = g
      BY <1>4, <3>2
    <3> HIDE DEF x
    <3> QED BY <3>3
  <2> QED BY <2>1, <2>2
<1> HIDE DEF tables
<1>7. held \subseteq Managed /\ mapped \subseteq Managed \cup Device
  BY <1>1 DEF Base
<1>8. Managed \cup Device \cup {1, 3} = m.free \cup (held \cup mapped) \cup tables \cup Device
  BY <1>1, <1>6, <1>7 DEF Owned, Callers
<1>9. /\ m.free \cap (held \cup mapped) = {}
      /\ (m.free \cup (held \cup mapped)) \cap tables = {}
  BY <1>1, <1>6 DEF Owned, Callers
<1> QED BY <1>5, <1>8, <1>9 DEF FramesAccounted, tables

LEMMA Recursion ==
  ASSUME IInv
  PROVE  RecursionRestored
<1> SUFFICES ASSUME Running(m), NEW t \in Roots
             PROVE  m.mem[t][R] = Entry(IF t = Active THEN Edited ELSE t)
  BY DEF RecursionRestored
<1>1. Good(m, Owned, Roots, Edited)
  BY StateFacts
<1>2. PICK lv : Tree(m.mem, Owned \ m.free, lv, Roots, m.cr3, Edited)
  BY <1>1 DEF Good
<1>3. t \in Owned \ m.free /\ t # 3
  BY <1>2, TreeFacts
<1> QED BY <1>2, <1>3 DEF Tree, Selves, Active

-------------------------------------------------------------------------------
(* The invariant holds: the tables form trees that share no table, one for each
   root, every recursive entry leads where `with` and `new` left it, and the
   processor keeps no translation of a table reference that the tables deny. *)
THEOREM Invariant == Spec => []IInv
<1>1. Init => IInv
  BY InvInit
<1>2. IInv /\ [Next]_vars => IInv'
  BY InvNext
<1> QED BY <1>1, <1>2, PTL DEF Spec

(* No frame is lost or used twice: each is free, with a caller, or a table that one path of
   one root leads to (map, unmap, next_level_table_create_mut and InActivePageTable::new). *)
THEOREM NoFrameLost == Spec => []FramesAccounted
<1>1. IInv => FramesAccounted
  BY Accounted
<1> QED BY <1>1, Invariant, PTL

(* `with` leaves every recursive entry as it found it, whatever its closure did. *)
THEOREM WithRestores == Spec => []RecursionRestored
<1>1. IInv => RecursionRestored
  BY Recursion
<1> QED BY <1>1, Invariant, PTL

(* No access of table.rs through the recursive entries faults or uses a stale translation. *)
THEOREM NeverUnreachable == Spec => []TablesReachable
<1>1. IInv => TablesReachable
  BY DEF IInv
<1> QED BY <1>1, Invariant, PTL

(* The unwraps, the debug assertion and the panic of table.rs stop the kernel only when frames
   or canonical free pages have run out. *)
THEOREM NeverStopsEarly == Spec => []StopsOnlyExhausted
<1>1. IInv => StopsOnlyExhausted
  BY DEF IInv
<1> QED BY <1>1, Invariant, PTL

-------------------------------------------------------------------------------
(* What the processor keeps of the active table, over one step. *)
LEMMA SteadyWalk ==
  ASSUME IInv, Running(m), Steady, NEW x \in m.tlb, Walk(m.mem, m.cr3, x[1]) = x[2]
  PROVE  Walk(m'.mem, m'.cr3, x[1]) = x[2]
<1>1. Good(m, Owned, Roots, Edited)
  BY StateFacts
<1>2. /\ m \in Machines /\ m.mem \in Mems /\ TlbOk(m, Edited) /\ m.cr3 \in Frames /\ m.cr3 \in Roots
      /\ Edited \in Frames /\ m'.mem \in Mems /\ m'.cr3 = m.cr3 /\ Kept(m, m', Owned)
      /\ m'.mem[m.cr3][R] = Entry(Edited) /\ m'.mem[Edited][R] = Entry(Edited)
  BY <1>1, GoodFacts DEF Steady
<1>3. PICK lv : Tree(m.mem, Owned \ m.free, lv, Roots, m.cr3, Edited)
  BY <1>1 DEF Good
<1>4. CASE \E l \in 1 .. 4 : RefAt(m.mem, Edited, l, x[1], x[2])
  <2>1. PICK l \in 1 .. 4 : RefAt(m.mem, Edited, l, x[1], x[2])
    BY <1>4
  <2>2. \A s \in Owned \ m.free : \A i, y : lv[s] > 1 /\ Edge(m.mem, s, i, y) => Edge(m'.mem, s, i, y)
    <3> SUFFICES ASSUME NEW s \in Owned \ m.free, NEW i, NEW y, Edge(m.mem, s, i, y)
                 PROVE  Edge(m'.mem, s, i, y)
      OBVIOUS
    <3>1. i \in Low /\ m.mem[s][i].p
      BY EdgeFacts
    <3>2. m'.mem[s][i] = m.mem[s][i]
      BY <1>2, <3>1 DEF Kept
    <3> QED BY <3>2 DEF Edge
  <2>3. RefAt(m'.mem, Edited, l, x[1], x[2])
    BY <1>3, <2>1, <2>2, RefKept
  <2> QED BY <1>2, <2>3, RefWalk
<1>5. CASE Plain(x[1])
  <2>1. x[2] \in Nat
    BY <1>2, MachineFacts
  <2>2. Walk(m.mem, m.cr3, x[1]) # NoFrame
    BY <2>1 DEF NoFrame
  <2>3. Chain(m.mem, m.cr3, x[1], x[2])
    BY <1>2, <1>3, <1>5, <2>2, WalkChain
  <2>4. Chain(m'.mem, m.cr3, x[1], x[2])
    BY <1>1, <1>2, <2>3, KeptChain
  <2> QED BY <1>2, <2>4, ChainWalk
<1> QED BY <1>2, <1>4, <1>5 DEF TlbOk

LEMMA UnmapWalk ==
  ASSUME IInv, NEW p \in UserPages, UnmapPage(p), NEW x \in m.tlb, x \in m'.tlb,
         Walk(m.mem, m.cr3, x[1]) = x[2]
  PROVE  Walk(m'.mem, m'.cr3, x[1]) = x[2] \/ OutdatedBy(x[1])
<1> DEFINE r == Unmap(m, p)
<1>1. Running(m) /\ m' = r.m /\ ret' = Returned(r.m, "unmap", p, r.r)
  BY DEF UnmapPage
<1>2. UnmapDone(m, r, p, Owned, Roots, Edited)
  BY UnmapCall
<1> HIDE DEF r
<1>3. Base /\ Good(m, Owned, Roots, Edited)
  BY <1>1, StateFacts
<1>4. /\ m \in Machines /\ m.mem \in Mems /\ TlbOk(m, Edited) /\ m.cr3 \in Frames /\ m.cr3 \in Roots
  BY <1>3, GoodFacts
<1>5. PICK lv : Tree(m.mem, Owned \ m.free, lv, Roots, m.cr3, Edited)
  BY <1>3 DEF Good
<1>6. CASE Grown(m, r.m, Owned) /\ r.m.mem = m.mem
  BY <1>1, <1>6 DEF Grown
<1>7. ASSUME NEW f, Cut(m, r, p, f, Owned, Roots, Edited)
      PROVE  Walk(m'.mem, m'.cr3, x[1]) = x[2] \/ OutdatedBy(x[1])
  <2>1. /\ r.r = "Ok" /\ m'.cr3 = m.cr3 /\ Good(m', Owned \cup {f}, Roots, Edited)
    BY <1>1, <1>7 DEF Cut
  <2>2. m' \in Machines /\ m'.mem \in Mems /\ TlbOk(m', Edited) /\ Running(r.m)
    BY <1>1, <2>1, GoodFacts
  <2>3. CASE \E l \in 1 .. 4 : RefAt(m'.mem, Edited, l, x[1], x[2])
    <3>1. PICK l \in 1 .. 4 : RefAt(m'.mem, Edited, l, x[1], x[2])
      BY <2>3
    <3>2. RefOk(m', Owned \cup {f}, l, x[1], x[2])
      BY <2>1, <3>1, GoodRef
    <3> QED BY <3>2 DEF RefOk
  <2>4. CASE Plain(x[1])
    <3>1. x[2] \in Nat
      BY <1>4, MachineFacts
    <3>2. Walk(m.mem, m.cr3, x[1]) # NoFrame
      BY <3>1 DEF NoFrame
    <3>3. Chain(m.mem, m.cr3, x[1], x[2])
      BY <1>4, <1>5, <2>4, <3>2, WalkChain
    <3>4. p \in Pages
      BY <1>3, SetupFacts DEF Plain
    <3>5. Chain(r.m.mem, m.cr3, x[1], x[2]) \/ (x[1] = p /\ m.cr3 = Edited /\ x[2] = f)
      <4>1. Good(m, Owned, Roots, Edited) /\ m.cr3 \in Roots
        BY <1>3, <1>4
      <4> DEFINE q == x[1]
                 g == x[2]
                 c == m.cr3
      <4>2. Chain(m.mem, c, q, g) /\ c \in Roots
        BY <3>3, <4>1
      <4> HIDE DEF q, g, c
      <4>3. Chain(r.m.mem, c, q, g) \/ (q = p /\ c = Edited /\ g = f)
        BY <1>7, <3>4, <4>1, <4>2, CutChain
      <4> QED BY <4>3 DEF q, g, c
    <3>6. CASE Chain(r.m.mem, m.cr3, x[1], x[2])
      BY <1>1, <1>4, <2>1, <2>2, <3>6, ChainWalk
    <3>7. CASE x[1] = p
      <4>1. ret' = Ret("unmap", p, "Ok")
        BY <1>1, <2>1, <2>2 DEF Returned
      <4> QED BY <3>7, <4>1 DEF OutdatedBy, Ret
    <3> QED BY <3>5, <3>6, <3>7
  <2> QED BY <2>2, <2>3, <2>4 DEF TlbOk
<1> QED BY <1>2, <1>6, <1>7 DEF UnmapDone

LEMMA BeginWalk ==
  ASSUME IInv, NEW t \in inactive, BeginWith(t)
  PROVE  Steady \/ m'.tlb = {}
<1> DEFINE r == WithBegin(m, t)
<1>1. Running(m) /\ ctx = << >> /\ m' = r.m
  BY DEF BeginWith
<1>2. Good(m, Owned, Roots, Edited)
  BY <1>1, StateFacts
<1>3. Edited = m.cr3 /\ Good(m, Owned, Roots, m.cr3) /\ t \in Roots
  BY <1>1, <1>2 DEF Edited, Active, Roots
<1>4. BeginDone(m, r, t, Owned, Roots)
  BY <1>3, BeginFacts, Zenon
<1> HIDE DEF r
<1>5. Kept(m, m', Owned) /\ m'.cr3 = m.cr3
  BY <1>1, <1>4 DEF BeginDone
<1>6. CASE Good(r.m, Owned, Roots, m.cr3)
  BY <1>1, <1>3, <1>5, <1>6, SteadyGood
<1>7. CASE Begun(m, r, t, Owned, Roots)
  BY <1>1, <1>7 DEF Begun
<1> QED BY <1>4, <1>6, <1>7 DEF BeginDone

LEMMA EndWalk ==
  ASSUME IInv, EndWith
  PROVE  m'.tlb = {} \/ (m'.mem = m.mem /\ m'.cr3 = m.cr3)
  BY EndCall DEF EndDone, Redirected

LEMMA SwitchWalk ==
  ASSUME IInv, NEW t \in inactive, SwitchTo(t)
  PROVE  m'.tlb = {}
<1>1. Running(m) /\ ctx = << >> /\ m' = Switch(m, t)
  BY DEF SwitchTo
<1>2. Good(m, Owned, Roots, Edited)
  BY <1>1, StateFacts
<1>3. Good(m, Owned, Roots, m.cr3) /\ t \in Roots
  BY <1>1, <1>2 DEF Edited, Active, Roots
<1>4. Switch(m, t).tlb = {}
  BY <1>3, SwitchGood
<1> QED BY <1>1, <1>4

LEMMA StaleStep ==
  ASSUME IInv, Next, NEW x \in m.tlb, x \in m'.tlb, Walk(m.mem, m.cr3, x[1]) = x[2]
  PROVE  Walk(m'.mem, m'.cr3, x[1]) = x[2] \/ OutdatedBy(x[1])
<1> DEFINE Goal == Walk(m'.mem, m'.cr3, x[1]) = x[2] \/ OutdatedBy(x[1])
<1>1. ASSUME Running(m), Steady PROVE Goal
  BY <1>1, SteadyWalk
<1> HIDE DEF Goal
<1>2. CASE AllocOne
  <2>1. Steady
    BY <1>2, InvAllocOne
  <2>2. Running(m)
    BY <1>2 DEF AllocOne
  <2> QED BY <1>1, <2>1, <2>2 DEF Goal
<1>3. ASSUME NEW p \in UserPages, Use(p) PROVE Goal
  BY <1>1, <1>3, InvUse DEF Use
<1>4. ASSUME NEW p \in UserPages, UnmapPage(p) PROVE Goal
  BY <1>4, UnmapWalk DEF Goal
<1>5. ASSUME NEW p \in UserPages, NEW f \in held \cup Device, MapPage(p, f) PROVE Goal
  <2>1. Steady
    BY <1>5, InvMapPage
  <2>2. Running(m)
    BY <1>5 DEF MapPage
  <2> QED BY <1>1, <2>1, <2>2
<1>6. CASE AutoMap(BlockSize)
  <2>1. Steady
    BY <1>6, InvAutoMap
  <2>2. Running(m)
    BY <1>6 DEF AutoMap
  <2> QED BY <1>1, <2>1, <2>2 DEF Goal
<1>7. CASE New
  <2>1. Steady
    BY <1>7, InvNew
  <2>2. Running(m)
    BY <1>7 DEF New
  <2> QED BY <1>1, <2>1, <2>2 DEF Goal
<1>8. CASE EndWith
  BY <1>8, EndWalk DEF Goal
<1>9. ASSUME NEW t \in inactive, BeginWith(t) PROVE Goal
  <2>1. Steady
    BY <1>9, BeginWalk
  <2> QED BY <1>1, <1>9, <2>1 DEF BeginWith
<1>10. ASSUME NEW t \in inactive, SwitchTo(t) PROVE Goal
  BY <1>10, SwitchWalk
<1> QED BY <1>2, <1>3, <1>4, <1>5, <1>6, <1>7, <1>8, <1>9, <1>10 DEF Next, Goal

(* A cached translation goes out of date only by an unmap of its own page: map,
   auto_continuous_map and InActivePageTable::new change none, `with` and switch flush. *)
THEOREM OnlyUnmapOutdates == Spec => StaleOnlyByUnmap
<1> DEFINE A == \A x \in m.tlb \cap m'.tlb :
                  (/\ Walk(m.mem, m.cr3, x[1]) = x[2]
                   /\ Walk(m'.mem, m'.cr3, x[1]) # x[2]) => OutdatedBy(x[1])
<1>1. IInv /\ [Next]_vars => [A]_vars
  BY StaleStep
<1>2. StaleOnlyByUnmap <=> [][A]_vars
  BY DEF StaleOnlyByUnmap
<1> HIDE DEF A
<1> QED BY <1>1, <1>2, Invariant, PTL DEF Spec
-------------------------------------------------------------------------------
(***************************************************************************)
(* paging::init.                                                           *)
(***************************************************************************)

(* The place of a frame in its level 1 table. *)
LEMMA DivFacts ==
  ASSUME NEW f \in Nat
  PROVE  /\ f \div E \in Nat /\ f % E \in Idx /\ f % E \in Nat /\ (f \div E) * E + (f % E) = f
         /\ f < E + Half => f \div E \in Low
<1>1. E \in Nat /\ E > 0 /\ E >= 4 /\ Half \in Nat /\ Half < E
  BY EntriesAssumption, Indices
<1>2. f \div E \in Nat /\ f % E \in 0 .. (E - 1) /\ (f \div E) * E + (f % E) = f
  BY <1>1
<1>3. f < E => f \div E = 0
  BY <1>1
<1>4. f >= E /\ f < E + E => f \div E = 1
  BY <1>1
<1>5. f < E + Half => f < E \/ (f >= E /\ f < E + E)
  BY <1>1
<1> QED BY <1>2, <1>3, <1>4, <1>5, Indices DEF Idx

(* The tables that the boot code left translate the kernel's addresses. *)
LEMMA HugeUnder ==
  ASSUME NEW mem, NEW f \in Nat, NEW i, NEW n, i * n \in Nat
  PROVE  Under(mem, HugeEntry(f), i, n) = HugeEntry(f + i * n)
<1> DEFINE e == HugeEntry(f)
           z == i * n
<1>1. e \in Ents /\ e.f = f /\ e.p = TRUE /\ e.h = TRUE
  BY EntryFacts DEF HugeEntry
<1>2. Under(mem, e, i, n) = [e EXCEPT !.f = @ + z]
  BY <1>1, Zenon DEF Under
<1>3. f + z \in Nat
  OBVIOUS
<1> HIDE DEF e, z
<1>4. [e EXCEPT !.f = @ + z] = [f |-> f + z, p |-> e.p, h |-> e.h]
  BY <1>1, <1>3 DEF Ents
<1> QED BY <1>1, <1>2, <1>4 DEF HugeEntry, e, z

LEMMA BootWalk ==
  ASSUME NEW mem \in Mems, NEW S, NEW lv, NEW roots, NEW ed, Tree(mem, S, lv, roots, 1, ed), NEW f \in Nat
  PROVE  Walk(mem, 1, Virtual(f)) = f
<1>1. mem[1][Half] = Entry(3) /\ mem[3][0] = HugeEntry(0)
  BY BootTable DEF Tree, BootPart
<1>2. 1 \in Frames /\ 3 \in Frames /\ Half \in Idx
  BY Frame03, Indices
<1>3. DOMAIN mem = Frames
  BY DEF Mems
<1> DEFINE va == Virtual(f)
           x == f \div E
           y == f % E
<1>4. va[1] = Half /\ va[2] = 0 /\ va[3] = x /\ va[4] = y
  BY DEF Virtual
<1>5. x \in Nat /\ y \in Nat /\ x * E + y = f
  BY DivFacts
<1> HIDE DEF va, x, y
<1>6. TableIn(mem, 1)[va[1]] = Entry(3)
  BY <1>1, <1>2, <1>3, <1>4 DEF TableIn
<1>7. Under(mem, Entry(3), va[2], E * E) = HugeEntry(0)
  BY <1>1, <1>2, <1>3, <1>4 DEF Under, TableIn, Entry
<1>8. x * E \in Nat /\ 0 + x * E = x * E /\ y * 1 = y
  BY <1>5, EntriesAssumption
<1>9. Under(mem, HugeEntry(0), va[3], E) = HugeEntry(x * E)
  <2>1. Under(mem, HugeEntry(0), x, E) = HugeEntry(0 + x * E)
    BY <1>8, HugeUnder
  <2> QED BY <1>4, <1>8, <2>1
<1>11. Under(mem, HugeEntry(x * E), va[4], 1) = HugeEntry(x * E + y)
  BY <1>4, <1>5, <1>8, HugeUnder
<1>10. FrameOf(HugeEntry(x * E + y)) = f
  BY <1>5 DEF FrameOf, HugeEntry
<1> QED BY <1>6, <1>7, <1>9, <1>10, <1>11 DEF Walk, va

-------------------------------------------------------------------------------
(* The inductive invariant. *)

NoPath(mem, r, k) == \A u : ~Path(mem, r, 0, 0, k, u)
InPlace(mem, t, K) == \A f \in K : Chain(mem, t, Virtual(f), f)

(* What the panic handler can rely on too. *)
Sound(n, K) ==
  /\ n.mem \in Mems /\ n.cr3 \in Frames
  /\ \E S, lv, roots, ed : Tree(n.mem, S, lv, roots, n.cr3, ed)
  /\ NoPath(n.mem, n.cr3, 0)
  /\ n.cr3 # 1 => InPlace(n.mem, n.cr3, K)
  /\ n.fault # "page_fault" /\ ~n.stale

Inside     == {"remap", "fit", "restore"}
Early      == {"test_alloc", "test_map", "test_write", "test_unmap", "new"}
Fixed      == Kernel \cup Range(Remaps)
Root       == IF table = NoFrame THEN {1} ELSE {1, table}
InitEdited == IF pc \in Inside THEN table ELSE mach.cr3
InitOwned  == (given \cup {1, 3}) \ (TestFrame \cup HeapBlock)

(* The managed frames follow the kernel. *)
Place == kend \in KernelEnds /\ \E n \in FrameCounts : given = kend .. (kend + n - 1)

(* Where only the test page of the boot table may go. *)
Untouched(n, t) ==
  /\ NoPath(n.mem, 1, 0)
  /\ t # NoFrame => t \in Frames /\ t # 1 /\ \A k : NoPath(n.mem, t, k)

(* Only references to tables are cached. *)
OnlyRefs(n) == \A x \in n.tlb : x[1][1] = R

(* What each statement finds done: by runtime_test, about the two roots, in the
   closure of `with`, and for the heap. *)
StageTest ==
  /\ pc \in Early => table = NoFrame
  /\ pc \in {"test_alloc", "new"} => todo = << >>
  /\ pc \in {"test_map", "test_write", "test_unmap"} => todo # << >>
  /\ pc \in {"test_write", "test_unmap"} => Chain(mach.mem, 1, TestPage, todo[1])
StageRoots ==
  /\ pc \notin Early \cup {"err"} => table # NoFrame
  /\ pc \in {"heap", "done"} => mach.cr3 = table
  /\ pc \notin {"heap", "done", "err"} => mach.cr3 = 1
  /\ heap # << >> => pc \in {"done", "err"} /\ table # NoFrame
  /\ pc \in {"test_alloc", "test_map", "test_write", "heap"} \cup Inside => OnlyRefs(mach)
StageWith ==
  /\ pc \in Inside => Chain(mach.mem, 1, temp, 1) /\ (temp[1] < Half \/ Crowded(mach.mem, 1))
  /\ pc = "remap" =>
       /\ todo \in Seq(4 .. (Half - 1))
       /\ \A f \in Range(Remaps) : f \in Range(todo) \/ Chain(mach.mem, table, Virtual(f), f)
  /\ pc = "fit" =>
       /\ kend - Half < E /\ todo \in Seq(Kernel)
       /\ \A f \in Fixed : f \in Range(todo) \/ Chain(mach.mem, table, Virtual(f), f)
  /\ (pc = "restore" /\ result = "Ok") \/ pc = "switch" => InPlace(mach.mem, table, Fixed)
StageHeap ==
  pc = "done" =>
    /\ heap # << >>
    /\ \A k \in 0 .. (HeapFrames - 1) : Chain(mach.mem, table, PageAfter(heap[1], k), heap[2] + k)

(* While init runs, the invariant of Paging holds of the tables too. *)
Live ==
  /\ TestFrame \cup HeapBlock \subseteq given
  /\ Good(mach, InitOwned, Root, InitEdited)
  /\ Untouched(mach, table)
  /\ StageTest /\ StageRoots /\ StageWith /\ StageHeap

InitInv == Place /\ Sound(mach, Fixed) /\ (pc # "stopped" => Live)

-------------------------------------------------------------------------------
LEMMA SoundGood ==
  ASSUME NEW n, NEW U, NEW roots, NEW ed, Good(n, U, roots, ed),
         NoPath(n.mem, n.cr3, 0), NEW K, n.cr3 # 1 => InPlace(n.mem, n.cr3, K)
  PROVE  Sound(n, K) /\ \A w \in {"panic", "general_protection"} : Sound(Fault(n, w), K)
<1>1. /\ n \in Machines /\ n.mem \in Mems /\ n.cr3 \in Frames
      /\ n.fault = "none" /\ ~n.stale
  BY GoodFacts
<1>2. \E S, lv, rs, x : Tree(n.mem, S, lv, rs, n.cr3, x)
  BY DEF Good
<1>3. Sound(n, K)
  BY <1>1, <1>2 DEF Sound
<1>4. ASSUME NEW w \in {"panic", "general_protection"} PROVE Sound(Fault(n, w), K)
  <2> DEFINE n2 == Fault(n, w)
  <2>1. n2.mem = n.mem /\ n2.cr3 = n.cr3 /\ n2.stale = n.stale /\ n2.fault = w
    BY <1>1, FaultFacts
  <2> HIDE DEF n2
  <2> QED BY <1>1, <1>2, <2>1 DEF Sound, n2
<1> QED BY <1>3, <1>4

LEMMA SoundHalted ==
  ASSUME NEW n, NEW U, NEW roots, NEW ed, Halted(n, U, roots, ed),
         NoPath(n.mem, n.cr3, 0), NEW K, n.cr3 # 1 => InPlace(n.mem, n.cr3, K)
  PROVE  Sound(n, K) /\ ~Running(n)
<1>1. PICK n1 : \E w \in {"panic", "general_protection"} : n = Fault(n1, w) /\ Good(n1, U, roots, ed)
  BY DEF Halted
<1> PICK w \in {"panic", "general_protection"} : n = Fault(n1, w) /\ Good(n1, U, roots, ed)
  BY <1>1
<1>2. n1 \in Machines
  BY <1>1, GoodFacts
<1>3. n.mem = n1.mem /\ n.cr3 = n1.cr3
  BY <1>1, <1>2, FaultFacts
<1>4. NoPath(n1.mem, n1.cr3, 0) /\ (n1.cr3 # 1 => InPlace(n1.mem, n1.cr3, K))
  BY <1>3
<1>5. Sound(Fault(n1, w), K)
  BY <1>1, <1>4, SoundGood
<1>6. ~Running(n)
  BY HaltFacts
<1> QED BY <1>1, <1>5, <1>6

LEMMA KeptPlace ==
  ASSUME NEW n, NEW U, NEW roots, NEW ed, Good(n, U, roots, ed), NEW n2, Kept(n, n2, U),
         NEW t \in roots, NEW K, InPlace(n.mem, t, K)
  PROVE  InPlace(n2.mem, t, K)
BY KeptChain DEF InPlace

LEMMA ApartUntouched ==
  ASSUME NEW n, NEW U, NEW roots, NEW ed, Good(n, U, roots, ed), NEW n2, NEW x \in roots,
         Apart(n, n2, x), NEW t, 1 \in roots, t # NoFrame => t \in roots, Untouched(n, t)
  PROVE  Untouched(n2, t)
<1>1. \A r \in roots : \A k, u : Path(n2.mem, r, 0, 0, k, u) => Path(n.mem, r, 0, 0, k, u)
  BY ApartPath
<1> QED BY <1>1 DEF Untouched, NoPath

LEMMA MapUntouched ==
  ASSUME NEW n, NEW n2, NEW roots, NEW ed, NEW A, NewPaths(n, n2, roots, ed, A),
         \A y : <<0, 0, y>> \in A => ed = 1 /\ y # 0,
         NEW t, 1 \in roots, t # NoFrame => t \in roots, Untouched(n, t)
  PROVE  Untouched(n2, t)
<1>1. \A r \in roots : \A y, u : Path(n2.mem, r, 0, 0, y, u) =>
        Path(n.mem, r, 0, 0, y, u) \/ (r = 1 /\ y # 0)
  BY DEF NewPaths
<1> QED BY <1>1 DEF Untouched, NoPath

(* An access to a page that leads to the frame f. *)
Visited(n, n2, U, roots, ed) ==
  /\ Good(n2, U, roots, ed) /\ n2.mem = n.mem /\ n2.free = n.free /\ n2.cr3 = n.cr3

LEMMA TouchPlain ==
  ASSUME NEW n, NEW U, NEW roots, NEW ed, Good(n, U, roots, ed),
         NEW p, NEW f, Plain(p), Chain(n.mem, n.cr3, p, f), \A x \in n.tlb : x[1] # p
  PROVE  Visited(n, Touch(n, p), U, roots, ed) /\ Walk(n.mem, n.cr3, p) = f
<1> DEFINE n2 == Touch(n, p)
<1>1. /\ n \in Machines /\ n.mem \in Mems /\ n.cr3 \in Frames /\ Running(n) /\ ~n.stale
      /\ n.free \subseteq U /\ TlbOk(n, ed)
  BY GoodFacts
<1>2. PICK lv : Tree(n.mem, U \ n.free, lv, roots, n.cr3, ed)
  BY DEF Good
<1>3. PICK u \in Frames : Path(n.mem, n.cr3, p[1], p[2], p[3], u) /\ Edge(n.mem, u, p[4], f)
  BY DEF Chain
<1>4. PICK s : Edge(n.mem, n.cr3, p[1], s)
  BY <1>3 DEF Path
<1>5. n.mem[n.cr3][p[1]].p
  BY <1>4, EdgeFacts
<1>6. f \in Nat
  <2>1. p[4] \in Idx /\ n.mem[u][p[4]].f = f
    BY <1>3, EdgeFacts
  <2> QED BY <1>1, <2>1 DEF Mems, Ents
<1>7. Walk(n.mem, n.cr3, p) = f /\ p \in Pages
  BY <1>1, ChainWalk DEF Plain
<1>8. n2 = Access(n, p, f)
  BY <1>7 DEF Touch
<1>9. /\ n2 \in Machines /\ n2.mem = n.mem /\ n2.free = n.free /\ n2.cr3 = n.cr3
      /\ n2.tlb = n.tlb \cup {<<p, f>>} /\ n2.stale = n.stale /\ n2.fault = n.fault
  BY <1>1, <1>6, <1>7, <1>8, AccessFacts
<1> HIDE DEF n2
<1>10. TlbOk(n2, ed)
  <2> SUFFICES ASSUME NEW x \in n2.tlb
               PROVE  \/ x[1][1] = R /\ \E l \in 1 .. 4 : RefAt(n2.mem, ed, l, x[1], x[2])
                      \/ Plain(x[1]) /\ n2.mem[n2.cr3][x[1][1]].p
    BY DEF TlbOk
  <2>1. CASE x \in n.tlb
    BY <1>1, <1>9, <2>1 DEF TlbOk
  <2>2. CASE x = <<p, f>>
    <3>1. x[1] = p
      BY <2>2
    <3> QED BY <1>5, <1>9, <3>1
  <2> QED BY <1>9, <2>1, <2>2
<1>11. Running(n2) /\ ~n2.stale /\ n2.free \subseteq U
  BY <1>1, <1>9 DEF Running
<1>12. Tree(n2.mem, U \ n2.free, lv, roots, n2.cr3, ed)
  BY <1>2, <1>9
<1>13. Good(n2, U, roots, ed)
  BY <1>9, <1>10, <1>11, <1>12 DEF Good
<1> QED BY <1>7, <1>9, <1>13 DEF Visited, n2

(* A tree says nothing of the frames that are not its tables. *)
LEMMA TreeOutside ==
  ASSUME NEW mem, NEW S, NEW lv, NEW roots, NEW a, NEW ed, Tree(mem, S, lv, roots, a, ed),
         NEW mem2, \A s \in S : mem2[s] = mem[s]
  PROVE  Tree(mem2, S, lv, roots, a, ed)
<1>1. Levels(S, lv, roots) /\ a \in roots /\ ed \in roots /\ 1 \in S /\ 3 \in S
  BY TreeFacts DEF Tree
<1>2. \A s \in S : \A i, t : Edge(mem2, s, i, t) <=> Edge(mem, s, i, t)
  BY DEF Edge
<1>3. BootPart(mem2, S, roots)
  BY <1>1 DEF Tree, BootPart
<1>4. Selves(mem2, S, a, ed)
  BY DEF Tree, Selves
<1>5. Children(mem2, S, lv)
  BY <1>2 DEF Tree, Children
<1>6. OneParent(mem2, S, lv)
  BY <1>2 DEF Tree, OneParent
<1>7. Parents(mem2, S, lv)
  BY <1>2 DEF Tree, Parents
<1> QED BY <1>1, <1>3, <1>4, <1>5, <1>6, <1>7 DEF Tree

(* A store into a frame that is not a table. *)
LEMMA StoreOutside ==
  ASSUME NEW n, NEW U, NEW roots, NEW ed, Good(n, U, roots, ed), NEW va, NEW f \in Frames \ U,
         Walk(n.mem, n.cr3, va) = f, NEW tab \in [Idx -> Ents]
  PROVE  LET n2 == StoreTable(n, va, tab) IN
         /\ Good(n2, U, roots, ed) /\ n2.cr3 = n.cr3 /\ n2.free = n.free /\ n2.tlb = n.tlb
         /\ Kept(n, n2, U) /\ \A A : NewPaths(n, n2, roots, ed, A)
<1> DEFINE n2 == StoreTable(n, va, tab)
<1>1. /\ n \in Machines /\ n.mem \in Mems /\ Running(n) /\ ~n.stale
      /\ n.free \subseteq U /\ TlbOk(n, ed) /\ U \ n.free \subseteq Frames
  BY GoodFacts
<1>2. PICK lv : Tree(n.mem, U \ n.free, lv, roots, n.cr3, ed)
  BY DEF Good
<1>3. /\ n2 \in Machines /\ \A s \in Frames \ {f} : n2.mem[s] = n.mem[s]
      /\ n2.free = n.free /\ SameRest(n, n2)
  BY <1>1, StoreTableFacts
<1> HIDE DEF n2
<1>4. n2.cr3 = n.cr3 /\ n2.tlb = n.tlb /\ n2.stale = n.stale /\ n2.fault = n.fault
  BY <1>3 DEF SameRest
<1>5. \A s \in U \ n.free : n2.mem[s] = n.mem[s]
  BY <1>1, <1>3
<1>6. Tree(n2.mem, U \ n2.free, lv, roots, n2.cr3, ed)
  BY <1>2, <1>3, <1>4, <1>5, TreeOutside
<1>7. TlbOk(n2, ed)
  <2>1. \A s \in U \ n.free, j \in Idx : lv[s] > 1 => n2.mem[s][j] = n.mem[s][j]
    BY <1>5
  <2>2. n2.tlb = n.tlb /\ n2.cr3 = n.cr3 /\ TlbOk(n, ed)
    BY <1>1, <1>4
  <2> DEFINE S == U \ n.free
  <2>3. Tree(n.mem, S, lv, roots, n.cr3, ed) /\ \A s \in S, j \in Idx : lv[s] > 1 => n2.mem[s][j] = n.mem[s][j]
    BY <1>2, <2>1
  <2> HIDE DEF S
  <2> QED BY <2>2, <2>3, TlbKept
<1>8. Good(n2, U, roots, ed)
  BY <1>1, <1>3, <1>4, <1>6, <1>7 DEF Good, Running
<1>9. Kept(n, n2, U)
  BY <1>5 DEF Kept
<1>10. \A A : NewPaths(n, n2, roots, ed, A)
  BY <1>2, <1>5, PathsBack DEF NewPaths
<1> QED BY <1>3, <1>4, <1>8, <1>9, <1>10 DEF n2

(* map over the self entry of the level 1 table. *)
MapRefused(n, r, p, U, roots, ed) ==
  /\ Good(r.m, U, roots, ed) /\ Grown(n, r.m, U)
  /\ r.r \in {"NoPageTable", "AlreadyMapped"}
  /\ NewPaths(n, r.m, roots, ed, {<<p[1], p[2], p[3]>>})

LEMMA MapSelf ==
  ASSUME NEW n, NEW U, NEW roots, NEW ed, Good(n, U, roots, ed),
         NEW p, p[1] \in Low, p[2] \in Low, p[3] \in Low, p[4] = R, Clear(n.mem, ed, p), NEW f
  PROVE  MapRefused(n, Map(n, p, f), p, U, roots, ed)
<1> DEFINE c == Level1(n, p, TRUE)
           r == Map(n, p, f)
           A == {<<p[1], p[2], p[3]>>}
<1>1. Reached(n, c, p, U, roots, ed)
  BY Level1Facts, Zenon
<1>2. r = MapEntry(c, R, f)
  BY DEF Map
<1> HIDE DEF c, r
<1>3. Good(c.m, U, roots, ed) /\ Grown(n, c.m, U) /\ NewPaths(n, c.m, roots, ed, A)
  BY <1>1 DEF Reached
<1>4. Running(c.m) /\ c.m \in Machines /\ c.m.mem \in Mems
  BY <1>3, GoodFacts
<1>5. CASE c.at = None
  <2>1. r = [m |-> c.m, r |-> "NoPageTable"]
    BY <1>2, <1>4, <1>5 DEF MapEntry, Result
  <2> QED BY <1>3, <2>1 DEF MapRefused, r
<1>6. CASE c.at # None
  <2>1. PICK u \in Frames : RefAt(c.m.mem, ed, 1, c.at, u)
    BY <1>1, <1>6 DEF Reached
  <2> DEFINE n1 == Touch(c.m, c.at)
  <2>2. Good(n1, U, roots, ed) /\ Grown(c.m, n1, U) /\ Touched(c.m, n1, c.at, u)
    BY <1>3, <2>1, TouchRef, Zenon
  <2>3. PICK lv : Tree(c.m.mem, U \ c.m.free, lv, roots, c.m.cr3, ed)
    BY <1>3 DEF Good
  <2>4. u \in U \ c.m.free /\ lv[u] = 1 /\ Walk(c.m.mem, c.m.cr3, c.at) = u
    BY <1>4, <2>1, <2>3, RefFacts
  <2>5. u # 3 /\ u # c.m.cr3 /\ u \in Nat
    BY <2>3, <2>4, BootTable, TreeFacts
  <2>6. c.m.mem[u][R] = Entry(u)
    BY <2>3, <2>4, <2>5 DEF Tree, Selves
  <2>7. TableAt(c.m, c.at)[R].p
    <3>1. TableAt(c.m, c.at) = c.m.mem[u]
      BY <1>4, <2>4, TableAtFacts
    <3> QED BY <2>5, <2>6, <3>1, EntryFacts
  <2>8. Running(n1)
    BY <2>2, GoodFacts
  <2>9. r = [m |-> n1, r |-> "AlreadyMapped"]
    BY <1>2, <1>4, <1>6, <2>7, <2>8 DEF MapEntry, Result
  <2> HIDE DEF n1
  <2>10. r.m = n1 /\ r.r = "AlreadyMapped"
    BY <2>9
  <2>11. Grown(n, n1, U)
    BY <1>3, <2>2, GrownTrans
  <2>12. NewPaths(n, n1, roots, ed, A)
    BY <1>3, <2>2 DEF NewPaths, Touched
  <2> QED BY <2>2, <2>10, <2>11, <2>12 DEF MapRefused, r
<1> QED BY <1>5, <1>6

(* map of a frame at its kernel address in a table other than the boot code's. *)
Virtually(n, r, f, U, roots, ed) ==
  /\ Good(r.m, U, roots, ed) /\ Grown(n, r.m, U)
  /\ r.r = "Ok" => Chain(r.m.mem, ed, Virtual(f), f)
  /\ NewPaths(n, r.m, roots, ed, {<<Half, 0, f \div E>>})

LEMMA MapVirtual ==
  ASSUME NEW n, NEW U, NEW roots, NEW ed, Good(n, U, roots, ed), ed # 1,
         NEW f \in Nat, f < E + Half
  PROVE  Virtually(n, Map(n, Virtual(f), f), f, U, roots, ed)
<1> DEFINE p == Virtual(f)
<1>1. /\ p = <<Half, 0, f \div E, f % E>>
      /\ p[1] = Half /\ p[2] = 0 /\ p[3] = f \div E /\ p[4] = f % E
  BY DEF Virtual
<1>2. f \div E \in Low /\ f % E \in Idx /\ Half \in Low /\ 0 \in Low /\ Low \subseteq Idx /\ Low = Idx \ {R}
  BY DivFacts, Indices DEF Low
<1>3. p \in Pages
  BY <1>1, <1>2 DEF Pages
<1> HIDE DEF p
<1>4. Clear(n.mem, ed, p)
  <2>1. PICK lv : Tree(n.mem, U \ n.free, lv, roots, n.cr3, ed)
    BY DEF Good
  <2>2. ed \in U \ n.free /\ lv[ed] = 4
    BY <2>1, TreeFacts
  <2>3. lv[ed] > 1
    BY <2>2
  <2> QED BY <2>1, <2>2, <2>3, BootTable DEF Clear
<1>5. CASE f % E = R
  <2>1. p[1] \in Low /\ p[2] \in Low /\ p[3] \in Low /\ p[4] = R
    BY <1>1, <1>2, <1>5
  <2>2. MapRefused(n, Map(n, p, f), p, U, roots, ed)
    BY <1>4, <2>1, MapSelf, Zenon
  <2> QED BY <1>1, <2>2 DEF MapRefused, Virtually, p
<1>6. CASE f % E # R
  <2>1. \A k \in 1 .. 4 : p[k] \in Low
    BY <1>1, <1>2, <1>6
  <2>2. Lows(p)
    BY <1>3, <2>1 DEF Lows
  <2>3. MapDone(n, Map(n, p, f), p, f, U, roots, ed)
    BY <1>4, <2>2, MapFacts, Zenon
  <2> QED BY <1>1, <2>3 DEF MapDone, Virtually, p
<1> QED BY <1>5, <1>6

-------------------------------------------------------------------------------
(* The states of the invariant. *)

All  == given \cup {1, 3}
Late == {"with", "remap", "fit", "restore", "switch", "heap"}

LEMMA SeqRange ==
  ASSUME NEW S, NEW s \in Seq(S)
  PROVE  Range(s) \subseteq S
<1>1. Range(s) = {s[x] : x \in DOMAIN s}
  BY DEF Range
<1>2. \A x \in DOMAIN s : s[x] \in S
  OBVIOUS
<1> QED BY <1>1, <1>2

LEMMA TailRange ==
  ASSUME NEW S, NEW s \in Seq(S), s # << >>
  PROVE  Tail(s) \in Seq(S) /\ s[1] \in S /\ \A y \in Range(s) : y = s[1] \/ y \in Range(Tail(s))
<1>1. Tail(s) \in Seq(S) /\ s[1] \in S /\ Len(s) >= 1 /\ Len(Tail(s)) = Len(s) - 1
  OBVIOUS
<1> SUFFICES ASSUME NEW y \in Range(s), y # s[1]
             PROVE  y \in Range(Tail(s))
  BY <1>1
<1>2. PICK x \in DOMAIN s : y = s[x]
  BY DEF Range
<1>3. x \in 2 .. Len(s)
  BY <1>2
<1>4. x - 1 \in 1 .. Len(Tail(s)) /\ Tail(s)[x - 1] = s[x]
  BY <1>1, <1>3
<1>5. x - 1 \in DOMAIN Tail(s)
  BY <1>1, <1>4
<1> QED BY <1>2, <1>4, <1>5 DEF Range

LEMMA EmptyRange == Range(<< >>) = {}
BY DEF Range

LEMMA PlaceFacts ==
  ASSUME Place
  PROVE  /\ given \subseteq Frames /\ given \cap (0 .. 3) = {} /\ 1 \notin given /\ 3 \notin given
         /\ kend \in Nat /\ kend > Half /\ kend > 3
         /\ \E n \in Nat : given = kend .. (kend + n - 1)
         /\ Half .. (kend - 1) \subseteq Frames
         /\ Range(Remaps) \subseteq 4 .. (Half - 1)
         /\ Fixed \subseteq Nat
<1>1. PICK n \in FrameCounts : given = kend .. (kend + n - 1)
  BY DEF Place
<1>2. kend \in Nat /\ n \in Nat /\ kend > Half /\ kend > 3 /\ Half .. (kend + n) \subseteq Frames
  BY <1>1, EndsAssumption DEF Place
<1>3. Half \in Nat /\ Frames \subseteq Nat
  BY Indices, Frame03
<1>4. given \subseteq Frames /\ given \cap (0 .. 3) = {} /\ 1 \notin given /\ 3 \notin given
  BY <1>1, <1>2, <1>3
<1>5. Half .. (kend - 1) \subseteq Frames
  BY <1>2, <1>3
<1>6. Range(Remaps) \subseteq 4 .. (Half - 1)
  BY RemapsAssumption, SeqRange
<1>7. Fixed \subseteq Nat
  BY <1>3, <1>5, <1>6 DEF Fixed, Kernel
<1> QED BY <1>1, <1>2, <1>4, <1>5, <1>6, <1>7

LEMMA LiveFacts ==
  ASSUME InitInv, pc # "stopped"
  PROVE  /\ Live /\ Place /\ Sound(mach, Fixed) /\ Good(mach, InitOwned, Root, InitEdited)
         /\ mach \in Machines /\ mach.mem \in Mems /\ Running(mach)
         /\ mach.free \subseteq given /\ mach.free \subseteq Nat /\ mach.free \subseteq Frames
         /\ 1 \in Root /\ (table # NoFrame => table \in Root) /\ Untouched(mach, table)
<1>1. Live /\ Place /\ Sound(mach, Fixed) /\ Good(mach, InitOwned, Root, InitEdited)
  BY DEF InitInv, Live
<1>2. mach \in Machines /\ mach.mem \in Mems /\ Running(mach) /\ mach.free \subseteq InitOwned
  BY <1>1, GoodFacts
<1>3. PICK lv : Tree(mach.mem, InitOwned \ mach.free, lv, Root, mach.cr3, InitEdited)
  BY <1>1 DEF Good
<1>4. 1 \in InitOwned \ mach.free /\ 3 \in InitOwned \ mach.free
  BY <1>3, TreeFacts
<1>5. mach.free \subseteq given
  BY <1>2, <1>4 DEF InitOwned
<1>6. mach.free \subseteq Nat /\ mach.free \subseteq Frames
  BY <1>2, MachineFacts
<1> QED BY <1>1, <1>2, <1>5, <1>6 DEF Root, Live

LEMMA EarlyFacts ==
  ASSUME InitInv, pc \in Early
  PROVE  /\ table = NoFrame /\ heap = << >> /\ mach.cr3 = 1 /\ Root = {1} /\ InitEdited = 1
         /\ TestFrame = (IF todo = << >> THEN {} ELSE {todo[1]}) /\ HeapBlock = {}
         /\ InitOwned = All \ TestFrame /\ TestFrame \subseteq given
         /\ Good(mach, All \ TestFrame, {1}, 1) /\ NoPath(mach.mem, 1, 0)
<1>1. pc # "stopped" /\ pc \notin Inside /\ pc \notin {"heap", "done", "err"}
  BY DEF Early, Inside
<1>2. Live
  BY <1>1, LiveFacts
<1>3. table = NoFrame /\ heap = << >> /\ mach.cr3 = 1
  BY <1>1, <1>2 DEF Live, StageTest, StageRoots
<1>4. Root = {1} /\ InitEdited = 1 /\ HeapBlock = {}
  BY <1>1, <1>3 DEF Root, InitEdited, HeapBlock
<1>5. TestFrame = (IF todo = << >> THEN {} ELSE {todo[1]}) /\ TestFrame \subseteq given
  BY <1>2, <1>3 DEF TestFrame, Live
<1>6. InitOwned = All \ TestFrame
  BY <1>4 DEF InitOwned, All
<1>7. Good(mach, All \ TestFrame, {1}, 1) /\ NoPath(mach.mem, 1, 0)
  BY <1>2, <1>4, <1>6 DEF Live, Untouched
<1> QED BY <1>3, <1>4, <1>5, <1>6, <1>7

LEMMA LateFacts ==
  ASSUME InitInv, pc \in Late
  PROVE  /\ table # NoFrame /\ heap = << >> /\ table \in Frames /\ table # 1
         /\ Root = {1, table} /\ TestFrame = {} /\ HeapBlock = {} /\ InitOwned = All
         /\ Good(mach, All, {1, table}, InitEdited) /\ Untouched(mach, table)
         /\ pc \in Inside => InitEdited = table /\ mach.cr3 = 1
         /\ pc \notin Inside => InitEdited = mach.cr3
<1>1. pc # "stopped" /\ pc \notin Early /\ pc \notin {"done", "err"}
  BY DEF Early, Late
<1>2. Live
  BY <1>1, LiveFacts
<1>3. table # NoFrame /\ heap = << >>
  BY <1>1, <1>2 DEF Live, StageRoots
<1>4. table \in Frames /\ table # 1 /\ Untouched(mach, table)
  BY <1>2, <1>3 DEF Live, Untouched
<1>5. Root = {1, table} /\ TestFrame = {} /\ HeapBlock = {}
  BY <1>3 DEF Root, TestFrame, HeapBlock
<1>6. InitOwned = All
  BY <1>5 DEF InitOwned, All
<1>7. Good(mach, All, {1, table}, InitEdited)
  BY <1>2, <1>5, <1>6 DEF Live
<1>8. pc \in Inside => InitEdited = table /\ mach.cr3 = 1
  BY <1>2 DEF Live, StageRoots, InitEdited, Inside
<1>9. pc \notin Inside => InitEdited = mach.cr3
  BY DEF InitEdited
<1> QED BY <1>3, <1>4, <1>5, <1>6, <1>7, <1>8, <1>9

LEMMA ToEarly ==
  ASSUME pc' \in Early, table' = NoFrame, heap' = << >>, given' = given,
         NEW T, T = (IF todo' = << >> THEN {} ELSE {todo'[1]}), T \subseteq given,
         Good(mach', All \ T, {1}, 1), mach'.cr3 = 1, NoPath(mach'.mem, 1, 0), StageTest',
         pc' \in {"test_unmap", "new"} \/ OnlyRefs(mach')
  PROVE  Live'
<1>1. pc' \notin Inside /\ pc' \notin {"heap", "done", "err", "remap", "fit", "restore", "switch"}
  BY DEF Early, Inside
<1>2. Root' = {1} /\ InitEdited' = 1 /\ HeapBlock' = {} /\ TestFrame' = T
  BY <1>1 DEF Root, InitEdited, HeapBlock, TestFrame
<1>3. InitOwned' = All \ T
  BY <1>2 DEF InitOwned, All
<1>4. Good(mach', InitOwned', Root', InitEdited')
  BY <1>2, <1>3
<1>5. Untouched(mach', table')
  BY DEF Untouched
<1>6. StageRoots'
  BY <1>1 DEF StageRoots, Inside
<1>7. StageWith' /\ StageHeap'
  BY <1>1 DEF StageWith, StageHeap, Inside
<1>8. (TestFrame \cup HeapBlock \subseteq given)'
  BY <1>2
<1> QED BY <1>4, <1>5, <1>6, <1>7, <1>8 DEF Live

LEMMA ToLate ==
  ASSUME pc' \in Late, table' # NoFrame, heap' = << >>, given' = given,
         Good(mach', All, {1, table'}, InitEdited'), Untouched(mach', table'),
         StageRoots', StageWith'
  PROVE  Live'
<1>1. pc' \notin Early /\ pc' # "done"
  BY DEF Early, Late
<1>2. Root' = {1, table'} /\ HeapBlock' = {} /\ TestFrame' = {}
  BY DEF Root, HeapBlock, TestFrame
<1>3. InitOwned' = All
  BY <1>2 DEF InitOwned, All
<1>4. Good(mach', InitOwned', Root', InitEdited')
  BY <1>2, <1>3
<1>5. StageTest' /\ StageHeap'
  BY <1>1 DEF StageTest, StageHeap, Early
<1>6. (TestFrame \cup HeapBlock \subseteq given)'
  BY <1>2
<1> QED BY <1>4, <1>5, <1>6 DEF Live

LEMMA ToErr ==
  ASSUME pc' = "err", (TestFrame \cup HeapBlock \subseteq given)', heap' = << >> \/ table' # NoFrame,
         Good(mach', InitOwned', Root', mach'.cr3), Untouched(mach', table')
  PROVE  Live'
<1>1. pc' \notin Inside /\ pc' \notin Early
  BY DEF Early, Inside
<1>2. InitEdited' = mach'.cr3
  BY <1>1 DEF InitEdited
<1>3. StageTest' /\ StageHeap' /\ StageWith' /\ StageRoots'
  BY <1>1 DEF StageTest, StageHeap, StageWith, StageRoots
<1> QED BY <1>2, <1>3 DEF Live

LEMMA Step ==
  ASSUME Place, kend' = kend, given' = given, Sound(mach', Fixed), pc' # "stopped" => Live'
  PROVE  InitInv'
<1>1. Fixed' = Fixed
  BY DEF Fixed, Kernel
<1>2. Place'
  BY DEF Place
<1> QED BY <1>1, <1>2 DEF InitInv

-------------------------------------------------------------------------------
(* The steps of runtime_test. *)

LEMMA TestPageFacts ==
  /\ TestPage[1] = 0 /\ TestPage[2] = 0 /\ TestPage[3] = 1 /\ TestPage[4] = 0
  /\ TestPage \in Pages /\ Plain(TestPage) /\ Lows(TestPage) /\ 0 # R
<1>1. 0 \in Low /\ 1 \in Low /\ Low \subseteq Idx /\ Half # 0 /\ R # 0
  BY Indices
<1>2. TestPage[1] = 0 /\ TestPage[2] = 0 /\ TestPage[3] = 1 /\ TestPage[4] = 0
  BY DEF TestPage
<1>3. TestPage \in Pages
  BY <1>1 DEF TestPage, Pages
<1>4. \A k \in 1 .. 4 : TestPage[k] \in Low
  BY <1>1, <1>2
<1> QED BY <1>1, <1>2, <1>3, <1>4 DEF Plain, Lows

LEMMA InvTestAlloc ==
  ASSUME InitInv, TestAlloc
  PROVE  InitInv'
<1>1. pc = "test_alloc" /\ kend' = kend /\ given' = given /\ table' = table /\ heap' = heap
  BY DEF TestAlloc
<1>2. pc \in Early /\ pc # "stopped"
  BY <1>1 DEF Early
<1>3. /\ table = NoFrame /\ heap = << >> /\ mach.cr3 = 1
      /\ Good(mach, All \ TestFrame, {1}, 1) /\ NoPath(mach.mem, 1, 0)
  BY <1>2, EarlyFacts
<1>4. Live /\ Place /\ mach.free \subseteq given /\ Sound(mach, Fixed)
  BY <1>2, LiveFacts
<1>5. todo = << >> /\ OnlyRefs(mach)
  BY <1>1, <1>4 DEF Live, StageTest, StageRoots
<1>6. TestFrame = {} /\ HeapBlock = {}
  BY <1>3, <1>5 DEF TestFrame, HeapBlock
<1>7. CASE mach.free = {}
  <2>1. pc' = "err" /\ mach' = mach /\ todo' = todo
    BY <1>7 DEF TestAlloc
  <2>2. TestFrame' = {} /\ HeapBlock' = {} /\ Root' = {1}
    BY <1>1, <1>3, <1>5, <2>1 DEF TestFrame, HeapBlock, Root
  <2>3. InitOwned' = All \ TestFrame
    BY <1>1, <1>6, <2>2 DEF InitOwned, All
  <2>4. Good(mach', InitOwned', Root', mach'.cr3)
    BY <1>3, <2>1, <2>2, <2>3
  <2>5. Untouched(mach', table')
    BY <1>1, <1>3, <2>1 DEF Untouched
  <2>6. Live'
    BY <1>1, <1>3, <2>1, <2>2, <2>4, <2>5, ToErr
  <2> QED BY <1>1, <1>4, <2>1, <2>6, Step
<1>8. CASE mach.free # {}
  <2> DEFINE f == Taken(mach)
             U == All \ TestFrame
  <2>1. mach' = TakeOne(mach) /\ todo' = <<f>> /\ pc' = "test_map"
    BY <1>8 DEF TestAlloc
  <2>2. /\ Good(TakeOne(mach), U \ {f}, {1}, 1) /\ f \in mach.free
        /\ TakeOne(mach).mem = mach.mem /\ TakeOne(mach).cr3 = mach.cr3 /\ TakeOne(mach).tlb = mach.tlb
    BY <1>3, <1>8, TakenGood
  <2> HIDE DEF f
  <2>3. Good(mach', All \ {f}, {1}, 1)
    <3>1. U \ {f} = All \ {f}
      BY <1>6
    <3> QED BY <2>1, <2>2, <3>1
  <2>4. {f} = (IF todo' = << >> THEN {} ELSE {todo'[1]}) /\ {f} \subseteq given /\ todo' # << >>
    BY <1>4, <2>1, <2>2
  <2>5. NoPath(mach'.mem, 1, 0) /\ mach'.cr3 = 1 /\ OnlyRefs(mach')
    BY <1>3, <1>5, <2>1, <2>2 DEF OnlyRefs
  <2>6. StageTest'
    BY <1>1, <1>3, <2>1, <2>4 DEF StageTest
  <2>7. Live'
    <3>1. pc' \in Early
      BY <2>1 DEF Early
    <3> QED BY <1>1, <1>3, <2>3, <2>4, <2>5, <2>6, <3>1, ToEarly
  <2>8. Sound(mach', Fixed)
    BY <2>3, <2>5, SoundGood
  <2> QED BY <1>1, <1>4, <2>7, <2>8, Step
<1> QED BY <1>7, <1>8

LEMMA InvTestMap ==
  ASSUME InitInv, TestMap
  PROVE  InitInv'
<1> DEFINE f == todo[1]
           r == Map(mach, TestPage, f)
           U == All \ TestFrame
<1>1. /\ pc = "test_map" /\ kend' = kend /\ given' = given /\ table' = table /\ heap' = heap
      /\ todo' = todo /\ mach' = r.m /\ Goto(r.m, IF r.r = "Ok" THEN "test_write" ELSE "err")
  BY DEF TestMap
<1>2. pc \in Early /\ pc # "stopped"
  BY <1>1 DEF Early
<1>3. /\ table = NoFrame /\ heap = << >> /\ mach.cr3 = 1 /\ TestFrame \subseteq given
      /\ TestFrame = (IF todo = << >> THEN {} ELSE {todo[1]}) /\ HeapBlock = {}
      /\ Good(mach, U, {1}, 1) /\ NoPath(mach.mem, 1, 0)
  BY <1>2, EarlyFacts
<1>4. Live /\ Place /\ Sound(mach, Fixed)
  BY <1>2, LiveFacts
<1>5. todo # << >> /\ OnlyRefs(mach)
  BY <1>1, <1>4 DEF Live, StageTest, StageRoots
<1>6. f \in given /\ f \in Nat
  <2>1. given \subseteq Nat
    BY <1>4, PlaceFacts, Frame03
  <2> QED BY <1>3, <1>5, <2>1
<1>7. MapDone(mach, r, TestPage, f, U, {1}, 1)
  <2>1. Clear(mach.mem, 1, TestPage)
    BY <1>3, TestPageFacts, UserClear
  <2> HIDE DEF f, U
  <2> QED BY <1>3, <1>6, <2>1, TestPageFacts, MapFacts
<1> HIDE DEF r, f, U
<1>8. /\ Good(r.m, U, {1}, 1) /\ Grown(mach, r.m, U)
      /\ r.r = "Ok" => Chain(r.m.mem, 1, TestPage, f)
      /\ NewPaths(mach, r.m, {1}, 1, {<<0, 0, 1>>})
  BY <1>7, TestPageFacts DEF MapDone
<1>9. Running(r.m) /\ r.m.cr3 = 1 /\ OnlyRefs(r.m)
  BY <1>3, <1>5, <1>8, GoodFacts DEF Grown, OnlyRefs
<1>10. Untouched(r.m, NoFrame) /\ NoPath(r.m.mem, 1, 0)
  <2>1. Untouched(mach, NoFrame)
    BY <1>3 DEF Untouched
  <2>2. Untouched(r.m, NoFrame)
    <3> DEFINE A == {<<0, 0, 1>>}
    <3>1. \A y : <<0, 0, y>> \in A => y # 0
      OBVIOUS
    <3>2. NewPaths(mach, r.m, {1}, 1, A) /\ 1 \in {1}
      BY <1>8
    <3> HIDE DEF A
    <3> QED BY <2>1, <3>1, <3>2, MapUntouched
  <2> QED BY <2>2 DEF Untouched
<1>11. Sound(mach', Fixed)
  BY <1>1, <1>8, <1>9, <1>10, SoundGood
<1>12. CASE r.r = "Ok"
  <2>1. pc' = "test_write"
    BY <1>1, <1>9, <1>12 DEF Goto
  <2>2. StageTest'
    BY <1>1, <1>3, <1>5, <1>8, <1>12, <2>1 DEF StageTest, f
  <2>3. pc' \in Early
    BY <2>1 DEF Early
  <2>4. Good(mach', All \ TestFrame, {1}, 1)
    BY <1>1, <1>8 DEF U
  <2>5. TestFrame = (IF todo' = << >> THEN {} ELSE {todo'[1]})
    BY <1>1, <1>3
  <2>6. Live'
    BY <1>1, <1>3, <1>9, <1>10, <2>2, <2>3, <2>4, <2>5, ToEarly
  <2> QED BY <1>1, <1>4, <1>11, <2>6, Step
<1>13. CASE r.r # "Ok"
  <2>1. pc' = "err"
    BY <1>1, <1>9, <1>13 DEF Goto
  <2>2. TestFrame' = TestFrame /\ HeapBlock' = {} /\ Root' = {1}
    BY <1>1, <1>3 DEF TestFrame, HeapBlock, Root
  <2>3. InitOwned' = U
    BY <1>1, <2>2 DEF InitOwned, All, U
  <2>4. Good(mach', InitOwned', Root', mach'.cr3)
    BY <1>1, <1>8, <1>9, <2>2, <2>3
  <2>5. Live'
    BY <1>1, <1>3, <1>10, <2>1, <2>2, <2>4, ToErr
  <2> QED BY <1>1, <1>4, <1>11, <2>5, Step
<1> QED BY <1>12, <1>13

LEMMA InvTestWrite ==
  ASSUME InitInv, TestWrite
  PROVE  InitInv'
<1> DEFINE f == todo[1]
           n == Touch(mach, TestPage)
           n2 == StoreTable(n, TestPage, Junk)
           U == All \ TestFrame
<1>1. /\ pc = "test_write" /\ kend' = kend /\ given' = given /\ table' = table /\ heap' = heap
      /\ todo' = todo /\ mach' = (IF Running(n) THEN n2 ELSE n) /\ Goto(n, "test_unmap")
  BY DEF TestWrite
<1>2. pc \in Early /\ pc # "stopped"
  BY <1>1 DEF Early
<1>3. /\ table = NoFrame /\ heap = << >> /\ mach.cr3 = 1 /\ TestFrame \subseteq given
      /\ TestFrame = (IF todo = << >> THEN {} ELSE {todo[1]})
      /\ Good(mach, U, {1}, 1) /\ NoPath(mach.mem, 1, 0)
  BY <1>2, EarlyFacts
<1>4. Live /\ Place /\ Sound(mach, Fixed)
  BY <1>2, LiveFacts
<1>5. todo # << >> /\ OnlyRefs(mach) /\ Chain(mach.mem, 1, TestPage, f)
  BY <1>1, <1>4 DEF Live, StageTest, StageRoots
<1>6. f \in Frames \ U
  <2>1. given \subseteq Frames
    BY <1>4, PlaceFacts
  <2> QED BY <1>3, <1>5, <2>1
<1>7. Visited(mach, n, U, {1}, 1) /\ Walk(mach.mem, mach.cr3, TestPage) = f
  <2>1. \A x \in mach.tlb : x[1] # TestPage
    BY <1>5, TestPageFacts DEF OnlyRefs
  <2>2. Chain(mach.mem, mach.cr3, TestPage, f)
    BY <1>3, <1>5
  <2> HIDE DEF f, U
  <2> QED BY <1>3, <2>1, <2>2, TestPageFacts, TouchPlain
<1> HIDE DEF n, f, U
<1>8. /\ Good(n, U, {1}, 1) /\ n.mem = mach.mem /\ n.cr3 = 1 /\ Running(n)
      /\ Walk(n.mem, n.cr3, TestPage) = f
  BY <1>3, <1>7, GoodFacts DEF Visited
<1>9. Junk \in [Idx -> Ents]
  BY EntryFacts DEF Junk
<1>10. /\ Good(n2, U, {1}, 1) /\ n2.cr3 = n.cr3
       /\ Kept(n, n2, U) /\ \A A : NewPaths(n, n2, {1}, 1, A)
  BY <1>6, <1>8, <1>9, StoreOutside
<1> HIDE DEF n2
<1>11. mach' = n2 /\ pc' = "test_unmap"
  BY <1>1, <1>8 DEF Goto
<1>12. NoPath(n2.mem, 1, 0)
  <2>1. NewPaths(n, n2, {1}, 1, {})
    BY <1>10
  <2> QED BY <1>3, <1>8, <2>1 DEF NewPaths, NoPath
<1>13. Sound(mach', Fixed)
  BY <1>8, <1>10, <1>11, <1>12, SoundGood
<1>14. Chain(n2.mem, 1, TestPage, f)
  <2>1. Chain(n.mem, 1, TestPage, f) /\ 1 \in {1}
    BY <1>5, <1>8
  <2> QED BY <1>8, <1>10, <2>1, KeptChain
<1>15. StageTest'
  BY <1>1, <1>3, <1>5, <1>11, <1>14 DEF StageTest, f
<1>16. Live'
  <2>1. pc' \in Early
    BY <1>11 DEF Early
  <2>2. Good(mach', All \ TestFrame, {1}, 1)
    BY <1>10, <1>11 DEF U
  <2>3. TestFrame = (IF todo' = << >> THEN {} ELSE {todo'[1]})
    BY <1>1, <1>3
  <2> QED BY <1>1, <1>3, <1>8, <1>10, <1>11, <1>12, <1>15, <2>1, <2>2, <2>3, ToEarly
<1> QED BY <1>1, <1>4, <1>13, <1>16, Step

LEMMA InvTestUnmap ==
  ASSUME InitInv, TestUnmap
  PROVE  InitInv'
<1> DEFINE f == todo[1]
           r == Unmap(mach, TestPage)
           U == All \ TestFrame
<1>1. /\ pc = "test_unmap" /\ kend' = kend /\ given' = given /\ table' = table /\ heap' = heap
      /\ todo' = << >> /\ mach' = r.m /\ Goto(r.m, IF r.r = "Ok" THEN "new" ELSE "err")
  BY DEF TestUnmap
<1>2. pc \in Early /\ pc # "stopped"
  BY <1>1 DEF Early
<1>3. /\ table = NoFrame /\ heap = << >> /\ mach.cr3 = 1 /\ TestFrame \subseteq given
      /\ TestFrame = (IF todo = << >> THEN {} ELSE {todo[1]})
      /\ Good(mach, U, {1}, 1) /\ NoPath(mach.mem, 1, 0)
  BY <1>2, EarlyFacts
<1>4. Live /\ Place /\ Sound(mach, Fixed) /\ mach.mem \in Mems
  BY <1>2, LiveFacts
<1>5. todo # << >> /\ Chain(mach.mem, 1, TestPage, f)
  BY <1>1, <1>4 DEF Live, StageTest
<1>6. f \in Frames \ U /\ U \cup {f} = All
  <2>1. given \subseteq Frames
    BY <1>4, PlaceFacts
  <2> QED BY <1>3, <1>5, <2>1 DEF All
<1>7. \A g : Chain(mach.mem, 1, TestPage, g) => g = f
  BY <1>4, <1>5, Frame03, ChainWalk
<1>8. UnmapDone(mach, r, TestPage, U, {1}, 1)
  <2> HIDE DEF f, U
  <2> QED BY <1>3, <1>6, <1>7, TestPageFacts, UnmapFacts
<1> HIDE DEF r, f, U
<1>9. Cut(mach, r, TestPage, f, U, {1}, 1)
  <2>1. PICK g : Cut(mach, r, TestPage, g, U, {1}, 1)
    BY <1>5, <1>8 DEF UnmapDone
  <2>2. PICK u \in U \ mach.free :
          Path(mach.mem, 1, TestPage[1], TestPage[2], TestPage[3], u) /\ Edge(mach.mem, u, TestPage[4], g)
    BY <2>1 DEF Cut
  <2>3. u \in Frames
    BY <1>3, GoodFacts
  <2>4. Chain(mach.mem, 1, TestPage, g)
    BY <2>2, <2>3, TestPageFacts DEF Chain
  <2> QED BY <1>7, <2>1, <2>4
<1>10. /\ r.r = "Ok" /\ r.m.cr3 = 1 /\ Good(r.m, All, {1}, 1)
  BY <1>3, <1>6, <1>9 DEF Cut
<1>11. PICK u \in U \ mach.free : /\ Path(mach.mem, 1, TestPage[1], TestPage[2], TestPage[3], u)
                                  /\ Wrote(mach.mem, r.m.mem, u, TestPage[4], Empty)
  BY <1>9 DEF Cut
<1>12. NoPath(r.m.mem, 1, 0)
  <2>1. PICK lv : Tree(mach.mem, U \ mach.free, lv, {1}, mach.cr3, 1)
    BY <1>3 DEF Good
  <2>2. lv[u] = 1
    <3>1. RefAt(mach.mem, 1, 1, <<R, TestPage[1], TestPage[2], TestPage[3]>>, u)
      BY <1>11, PathRef
    <3> QED BY <1>4, <2>1, <3>1, RefFacts
  <2>3. U \ mach.free \subseteq Frames /\ Low \subseteq Idx
    BY <1>3, GoodFacts, Indices
  <2>4. \A s \in U \ mach.free, j \in Low : lv[s] > 1 => r.m.mem[s][j] = mach.mem[s][j]
    BY <1>11, <2>2, <2>3 DEF Wrote
  <2>5. \A v : Path(r.m.mem, 1, 0, 0, 0, v) => Path(mach.mem, 1, 0, 0, 0, v)
    <3> DEFINE S == U \ mach.free
    <3>1. Tree(mach.mem, S, lv, {1}, mach.cr3, 1) /\ 1 \in {1}
          /\ \A s \in S, j \in Low : lv[s] > 1 => r.m.mem[s][j] = mach.mem[s][j]
      BY <2>1, <2>4
    <3> HIDE DEF S
    <3> QED BY <3>1, PathsBack
  <2> QED BY <1>3, <2>5 DEF NoPath
<1>13. Sound(mach', Fixed)
  BY <1>1, <1>10, <1>12, SoundGood
<1>14. pc' = "new"
  <2>1. Running(r.m)
    BY <1>10, GoodFacts
  <2> QED BY <1>1, <1>10, <2>1 DEF Goto
<1>15. StageTest'
  BY <1>1, <1>3, <1>14 DEF StageTest
<1>16. Live'
  <2>1. pc' \in Early
    BY <1>14 DEF Early
  <2>2. Good(mach', All \ {}, {1}, 1)
    BY <1>1, <1>10
  <2>3. {} = (IF todo' = << >> THEN {} ELSE {todo'[1]}) /\ {} \subseteq given
    BY <1>1
  <2> QED BY <1>1, <1>3, <1>10, <1>12, <1>14, <1>15, <2>1, <2>2, <2>3, ToEarly
<1> QED BY <1>1, <1>4, <1>13, <1>16, Step

-------------------------------------------------------------------------------
(* The new table, made, filled and switched to. *)

LEMMA InvNewRoot ==
  ASSUME InitInv, NewRoot
  PROVE  InitInv'
<1> DEFINE r == NewTable(mach)
<1>1. /\ pc = "new" /\ kend' = kend /\ given' = given /\ table' = r.f /\ heap' = heap
      /\ todo' = todo /\ mach' = r.m /\ Goto(r.m, IF r.f = NoFrame THEN "err" ELSE "with")
  BY DEF NewRoot
<1>2. pc \in Early /\ pc # "stopped"
  BY <1>1 DEF Early
<1>3. /\ table = NoFrame /\ heap = << >> /\ mach.cr3 = 1
      /\ Good(mach, All \ TestFrame, {1}, 1) /\ NoPath(mach.mem, 1, 0)
  BY <1>2, EarlyFacts
<1>4. Live /\ Place /\ Sound(mach, Fixed) /\ Running(mach)
  BY <1>2, LiveFacts
<1>5. todo = << >>
  BY <1>1, <1>4 DEF Live, StageTest
<1>6. TestFrame = {} /\ Good(mach, All, {1}, mach.cr3)
  BY <1>3, <1>5 DEF TestFrame
<1>7. NewDone(mach, r, All, {1}, mach.cr3)
  BY <1>6, NewTableFacts
<1> HIDE DEF r
<1>8. Untouched(mach, NoFrame)
  BY <1>3 DEF Untouched
<1>9. Apart(mach, r.m, 1) => NoPath(r.m.mem, 1, 0)
  <2> SUFFICES ASSUME Apart(mach, r.m, 1) PROVE NoPath(r.m.mem, 1, 0)
    OBVIOUS
  <2>1. Good(mach, All, {1}, 1) /\ 1 \in {1}
    BY <1>3, <1>6
  <2>2. Untouched(r.m, NoFrame)
    BY <1>8, <2>1, ApartUntouched
  <2> QED BY <2>2 DEF Untouched
<1>10. CASE r.m = mach /\ r.f = NoFrame
  <2>1. pc' = "err" /\ mach' = mach /\ table' = NoFrame
    BY <1>1, <1>4, <1>10 DEF Goto
  <2>2. TestFrame' = {} /\ HeapBlock' = {} /\ Root' = {1}
    BY <1>1, <1>3, <1>5, <2>1 DEF TestFrame, HeapBlock, Root
  <2>3. InitOwned' = All
    BY <1>1, <2>2 DEF InitOwned, All
  <2>4. Good(mach', InitOwned', Root', mach'.cr3) /\ Untouched(mach', table')
    BY <1>6, <1>8, <2>1, <2>2, <2>3
  <2>5. Live'
    BY <1>1, <1>3, <2>1, <2>2, <2>4, ToErr
  <2> QED BY <1>1, <1>4, <2>1, <2>5, Step
<1>11. CASE Made(mach, r, All, {1}, mach.cr3)
  <2>1. /\ r.f \in Frames /\ r.f \in mach.free /\ r.m.cr3 = 1 /\ Good(r.m, All, {1} \cup {r.f}, 1)
        /\ Apart(mach, r.m, 1) /\ r.m.mem[r.f] = FreshTable(r.f)
    BY <1>3, <1>11 DEF Made
  <2>2. r.f # 1 /\ r.f # NoFrame
    <3>1. 1 \in All \ mach.free
      BY <1>3, <1>6, GoodFacts
    <3> QED BY <2>1, <3>1, Frame03 DEF NoFrame
  <2>3. Running(r.m) /\ pc' = "with"
    BY <1>1, <2>1, <2>2, GoodFacts DEF Goto
  <2>4. \A k : NoPath(r.m.mem, r.f, k)
    <3>1. r.f \in Nat /\ 0 \in Low
      BY <2>1, Frame03, Indices
    <3>2. ~IsTable(r.m.mem[r.f][0])
      BY <2>1, <3>1, FreshFacts, EntryFacts
    <3>3. \A s : ~Edge(r.m.mem, r.f, 0, s)
      BY <3>2 DEF Edge
    <3> QED BY <3>3 DEF NoPath, Path
  <2>5. NoPath(r.m.mem, 1, 0)
    BY <1>9, <2>1
  <2>6. Untouched(mach', table')
    BY <1>1, <2>1, <2>2, <2>4, <2>5 DEF Untouched
  <2>7. InitEdited' = 1
    BY <1>1, <2>1, <2>3 DEF InitEdited, Inside
  <2>8. Good(mach', All, {1, table'}, InitEdited')
    <3>1. {1} \cup {r.f} = {1, r.f}
      OBVIOUS
    <3> QED BY <1>1, <2>1, <2>7, <3>1
  <2>9. StageRoots' /\ StageWith'
    BY <1>1, <1>3, <2>1, <2>2, <2>3 DEF StageRoots, StageWith, Inside, Early
  <2>10. pc' \in Late
    BY <2>3 DEF Late
  <2>11. Live'
    BY <1>1, <1>3, <2>2, <2>6, <2>8, <2>9, <2>10, ToLate
  <2>12. Sound(mach', Fixed)
    BY <1>1, <2>1, <2>5, SoundGood
  <2> QED BY <1>1, <1>4, <2>11, <2>12, Step
<1>12. CASE Apart(mach, r.m, mach.cr3) /\ r.m.cr3 = mach.cr3 /\ \E V : Halted(r.m, V, {1}, mach.cr3)
  <2>1. PICK V : Halted(r.m, V, {1}, mach.cr3)
    BY <1>12
  <2>2. NoPath(r.m.mem, r.m.cr3, 0) /\ r.m.cr3 = 1
    BY <1>3, <1>9, <1>12
  <2>3. Sound(mach', Fixed) /\ ~Running(r.m)
    BY <1>1, <2>1, <2>2, SoundHalted
  <2>4. pc' = "stopped"
    BY <1>1, <2>3 DEF Goto
  <2> QED BY <1>1, <1>4, <2>3, <2>4, Step
<1> QED BY <1>7, <1>10, <1>11, <1>12 DEF NewDone

LEMMA InvWith ==
  ASSUME InitInv, With
  PROVE  InitInv'
<1> DEFINE r == WithBegin(mach, table)
<1>1. /\ pc = "with" /\ kend' = kend /\ given' = given /\ table' = table /\ heap' = heap
      /\ todo' = Remaps /\ mach' = r.m /\ Goto(r.m, IF r.r = "Ok" THEN "remap" ELSE "err")
      /\ temp' = (IF r.r = "Ok" THEN r.p ELSE << >>) /\ result' = r.r
  BY DEF With
<1>2. pc \in Late /\ pc # "stopped" /\ pc \notin Inside
  BY <1>1 DEF Late, Inside
<1>3. /\ table # NoFrame /\ heap = << >> /\ table \in Frames /\ table # 1
      /\ Good(mach, All, {1, table}, mach.cr3) /\ Untouched(mach, table)
  BY <1>2, LateFacts
<1>4. Live /\ Place /\ Sound(mach, Fixed)
  BY <1>2, LiveFacts
<1>5. mach.cr3 = 1
  BY <1>1, <1>4 DEF Live, StageRoots
<1>6. BeginDone(mach, r, table, All, {1, table})
  BY <1>3, BeginFacts
<1> HIDE DEF r
<1>7. Kept(mach, r.m, All) /\ r.m.cr3 = 1 /\ Running(r.m) /\ Apart(mach, r.m, 1)
  BY <1>5, <1>6 DEF BeginDone
<1>8. Untouched(r.m, table)
  <2>1. 1 \in {1, table} /\ table \in {1, table}
    OBVIOUS
  <2> QED BY <1>3, <1>7, <2>1, ApartUntouched
<1>9. NoPath(r.m.mem, 1, 0)
  BY <1>8 DEF Untouched
<1>10. CASE r.r = "NoEntry" /\ Good(r.m, All, {1, table}, mach.cr3)
  <2>1. pc' = "err"
    BY <1>1, <1>7, <1>10 DEF Goto
  <2>2. TestFrame' = {} /\ HeapBlock' = {} /\ Root' = {1, table}
    BY <1>1, <1>3 DEF TestFrame, HeapBlock, Root
  <2>3. InitOwned' = All
    BY <1>1, <2>2 DEF InitOwned, All
  <2>4. Good(mach', InitOwned', Root', mach'.cr3) /\ Untouched(mach', table')
    BY <1>1, <1>5, <1>7, <1>8, <1>10, <2>2, <2>3
  <2>5. Live'
    BY <1>1, <1>3, <2>1, <2>2, <2>4, ToErr
  <2>6. Sound(mach', Fixed)
    BY <1>1, <1>7, <1>9, <1>10, SoundGood
  <2> QED BY <1>1, <1>4, <2>5, <2>6, Step
<1>11. CASE r.r = "Ok" /\ Begun(mach, r, table, All, {1, table})
  <2>1. pc' = "remap" /\ temp' = r.p
    BY <1>1, <1>7, <1>11 DEF Goto
  <2>2. /\ Good(r.m, All, {1, table}, table) /\ r.m.tlb = {}
        /\ Chain(r.m.mem, 1, r.p, 1) /\ (r.p[1] < Half \/ Crowded(r.m.mem, 1))
    BY <1>5, <1>11 DEF Begun
  <2>3. InitEdited' = table
    BY <1>1, <2>1 DEF InitEdited, Inside
  <2>4. StageRoots'
    BY <1>1, <1>3, <1>7, <2>1, <2>2 DEF StageRoots, OnlyRefs
  <2>5. StageWith'
    BY <1>1, <2>1, <2>2, RemapsAssumption DEF StageWith
  <2>6. pc' \in Late
    BY <2>1 DEF Late
  <2>7. Good(mach', All, {1, table'}, InitEdited') /\ Untouched(mach', table')
    BY <1>1, <1>8, <2>2, <2>3
  <2>8. Live'
    BY <1>1, <1>3, <2>4, <2>5, <2>6, <2>7, ToLate
  <2>9. Sound(mach', Fixed)
    BY <1>1, <1>7, <1>9, <2>2, SoundGood
  <2> QED BY <1>1, <1>4, <2>8, <2>9, Step
<1> QED BY <1>6, <1>10, <1>11 DEF BeginDone

(* A map of the closure of `with`. *)
Edits ==
  /\ Good(mach', All, {1, table}, table) /\ mach'.cr3 = 1 /\ OnlyRefs(mach') /\ Running(mach')
  /\ Untouched(mach', table) /\ Sound(mach', Fixed)
  /\ Chain(mach'.mem, 1, temp, 1) /\ (temp[1] < Half \/ Crowded(mach'.mem, 1))
  /\ \A p, g : Chain(mach.mem, table, p, g) => Chain(mach'.mem, table, p, g)

LEMMA MapNextFacts ==
  ASSUME InitInv, pc \in Inside, NEW next, MapNext(next), todo[1] \in Nat, todo[1] < E + Half
  PROVE  /\ Edits
         /\ LET r == Map(mach, Virtual(todo[1]), todo[1]) IN
            r.r = "Ok" => Chain(mach'.mem, table, Virtual(todo[1]), todo[1])
<1> DEFINE f == todo[1]
           r == Map(mach, Virtual(f), f)
           U == All
<1>1. mach' = r.m
  BY DEF MapNext
<1>2. pc \in Late /\ pc # "stopped"
  BY DEF Late, Inside
<1>3. /\ table # NoFrame /\ table \in Frames /\ table # 1 /\ mach.cr3 = 1
      /\ Good(mach, U, {1, table}, table) /\ Untouched(mach, table)
  BY <1>2, LateFacts
<1>4. Live /\ Place
  BY <1>2, LiveFacts
<1>5. /\ OnlyRefs(mach)
      /\ Chain(mach.mem, 1, temp, 1) /\ (temp[1] < Half \/ Crowded(mach.mem, 1))
  BY <1>4 DEF Live, StageRoots, StageWith
<1>6. Virtually(mach, r, f, U, {1, table}, table)
  <2> HIDE DEF f, U
  <2> QED BY <1>3, MapVirtual DEF f
<1> HIDE DEF r, U
<1>7. /\ Good(r.m, U, {1, table}, table) /\ Grown(mach, r.m, U)
      /\ r.r = "Ok" => Chain(r.m.mem, table, Virtual(f), f)
      /\ NewPaths(mach, r.m, {1, table}, table, {<<Half, 0, f \div E>>})
  BY <1>6 DEF Virtually
<1>8. r.m.cr3 = 1 /\ OnlyRefs(r.m) /\ Running(r.m) /\ Kept(mach, r.m, U)
  BY <1>3, <1>5, <1>7, GoodFacts, GrownKept DEF Grown, OnlyRefs
<1>9. 1 \in {1, table} /\ table \in {1, table} /\ Half # 0
  BY Indices
<1>10. Untouched(r.m, table)
  <2> DEFINE A == {<<Half, 0, f \div E>>}
  <2>1. \A y : <<0, 0, y>> \notin A
    BY <1>9
  <2>2. NewPaths(mach, r.m, {1, table}, table, A)
    BY <1>7
  <2> HIDE DEF A
  <2> QED BY <1>3, <1>9, <2>1, <2>2, MapUntouched
<1>11. NoPath(r.m.mem, 1, 0)
  BY <1>10 DEF Untouched
<1>12. Sound(r.m, Fixed)
  BY <1>7, <1>8, <1>11, SoundGood
<1>13. \A t \in {1, table} : \A p, g : Chain(mach.mem, t, p, g) => Chain(r.m.mem, t, p, g)
  BY <1>3, <1>8, KeptChain
<1>14. Crowded(mach.mem, 1) => Crowded(r.m.mem, 1)
  <2>1. 1 \in U \ mach.free
    BY <1>3, GoodFacts
  <2> QED BY <1>8, <2>1, KeptCrowded
<1>15. Chain(r.m.mem, 1, temp, 1) /\ (temp[1] < Half \/ Crowded(r.m.mem, 1))
  BY <1>5, <1>9, <1>13, <1>14
<1>16. Edits
  BY <1>1, <1>7, <1>8, <1>10, <1>12, <1>13, <1>15 DEF Edits, U
<1> QED BY <1>1, <1>7, <1>16 DEF r

(* The rest of a step inside `with`. *)
LEMMA InsideLive ==
  ASSUME InitInv, pc \in Inside, pc' \in Inside, UNCHANGED <<kend, given, table, temp, heap>>,
         Edits, StageWith'
  PROVE  InitInv'
<1>1. pc \in Late /\ pc # "stopped" /\ pc' \in Late /\ pc' # "stopped"
  BY DEF Late, Inside
<1>2. table # NoFrame /\ heap = << >> /\ Place
  BY <1>1, LateFacts, LiveFacts
<1>3. InitEdited' = table
  BY DEF InitEdited
<1>4. StageRoots'
  BY <1>2 DEF StageRoots, Edits, Inside
<1>5. Good(mach', All, {1, table'}, InitEdited') /\ Untouched(mach', table')
  BY <1>3 DEF Edits
<1>6. Live'
  BY <1>1, <1>2, <1>4, <1>5, ToLate
<1> QED BY <1>2, <1>6, Step DEF Edits

LEMMA InvRemap ==
  ASSUME InitInv, Remap
  PROVE  InitInv'
<1> DEFINE f == todo[1]
           r == Map(mach, Virtual(f), f)
<1>1. /\ pc = "remap" /\ MapNext("remap") /\ todo # << >>
      /\ UNCHANGED <<kend, given, table, temp, heap>>
      /\ mach' = r.m /\ todo' = (IF r.r = "Ok" THEN Tail(todo) ELSE todo)
      /\ Goto(r.m, IF r.r = "Ok" THEN "remap" ELSE "restore") /\ result' = r.r
  BY DEF Remap, MapNext
<1>2. pc \in Inside /\ pc # "stopped"
  BY <1>1 DEF Inside
<1>3. /\ todo \in Seq(4 .. (Half - 1))
      /\ \A g \in Range(Remaps) : g \in Range(todo) \/ Chain(mach.mem, table, Virtual(g), g)
  BY <1>1, <1>2, LiveFacts DEF Live, StageWith
<1>4. /\ Tail(todo) \in Seq(4 .. (Half - 1)) /\ f \in 4 .. (Half - 1)
      /\ \A y \in Range(todo) : y = f \/ y \in Range(Tail(todo))
  BY <1>1, <1>3, TailRange
<1>5. f \in Nat /\ f < E + Half
  BY <1>4, Indices
<1>6. Edits /\ (r.r = "Ok" => Chain(mach'.mem, table, Virtual(f), f))
  BY <1>1, <1>2, <1>5, MapNextFacts
<1> HIDE DEF r, f
<1>7. /\ Chain(mach'.mem, 1, temp, 1) /\ (temp[1] < Half \/ Crowded(mach'.mem, 1)) /\ Running(r.m)
      /\ \A p, g : Chain(mach.mem, table, p, g) => Chain(mach'.mem, table, p, g)
  BY <1>1, <1>6 DEF Edits
<1>8. CASE r.r = "Ok"
  <2>1. pc' = "remap" /\ todo' = Tail(todo)
    BY <1>1, <1>7, <1>8 DEF Goto
  <2>2. \A g \in Range(Remaps) : g \in Range(todo') \/ Chain(mach'.mem, table, Virtual(g), g)
    BY <1>3, <1>4, <1>6, <1>7, <1>8, <2>1
  <2>3. StageWith'
    BY <1>1, <1>4, <1>7, <2>1, <2>2 DEF StageWith
  <2> QED BY <1>1, <1>2, <1>6, <2>1, <2>3, InsideLive DEF Inside
<1>9. CASE r.r # "Ok"
  <2>1. pc' = "restore" /\ result' # "Ok"
    BY <1>1, <1>7, <1>9 DEF Goto
  <2>2. StageWith'
    BY <1>1, <1>7, <2>1 DEF StageWith
  <2> QED BY <1>1, <1>2, <1>6, <2>1, <2>2, InsideLive DEF Inside
<1> QED BY <1>8, <1>9

LEMMA InvMapKernel ==
  ASSUME InitInv, MapKernel
  PROVE  InitInv'
<1> DEFINE f == todo[1]
           r == Map(mach, Virtual(f), f)
<1>1. /\ pc = "fit" /\ MapNext("fit") /\ todo # << >>
      /\ UNCHANGED <<kend, given, table, temp, heap>>
      /\ mach' = r.m /\ todo' = (IF r.r = "Ok" THEN Tail(todo) ELSE todo)
      /\ Goto(r.m, IF r.r = "Ok" THEN "fit" ELSE "restore") /\ result' = r.r
  BY DEF MapKernel, MapNext
<1>2. pc \in Inside /\ pc # "stopped"
  BY <1>1 DEF Inside
<1>3. /\ todo \in Seq(Kernel) /\ kend - Half < E
      /\ \A g \in Fixed : g \in Range(todo) \/ Chain(mach.mem, table, Virtual(g), g)
  BY <1>1, <1>2, LiveFacts DEF Live, StageWith
<1>4. /\ Tail(todo) \in Seq(Kernel) /\ f \in Kernel
      /\ \A y \in Range(todo) : y = f \/ y \in Range(Tail(todo))
  BY <1>1, <1>3, TailRange
<1>5. f \in Nat /\ f < E + Half
  <2>1. kend \in Nat /\ Half \in Nat /\ E \in Nat
    BY <1>2, LiveFacts, PlaceFacts, Indices
  <2> QED BY <1>3, <1>4, <2>1 DEF Kernel
<1>6. Edits /\ (r.r = "Ok" => Chain(mach'.mem, table, Virtual(f), f))
  BY <1>1, <1>2, <1>5, MapNextFacts
<1> HIDE DEF r, f
<1>7. /\ Chain(mach'.mem, 1, temp, 1) /\ (temp[1] < Half \/ Crowded(mach'.mem, 1)) /\ Running(r.m)
      /\ \A p, g : Chain(mach.mem, table, p, g) => Chain(mach'.mem, table, p, g)
  BY <1>1, <1>6 DEF Edits
<1>8. CASE r.r = "Ok"
  <2>1. pc' = "fit" /\ todo' = Tail(todo)
    BY <1>1, <1>7, <1>8 DEF Goto
  <2>2. \A g \in Fixed : g \in Range(todo') \/ Chain(mach'.mem, table, Virtual(g), g)
    BY <1>3, <1>4, <1>6, <1>7, <1>8, <2>1
  <2>3. Fixed' = Fixed /\ Kernel' = Kernel
    BY <1>1 DEF Fixed, Kernel
  <2>4. StageWith'
    BY <1>1, <1>3, <1>4, <1>7, <2>1, <2>2, <2>3 DEF StageWith
  <2> QED BY <1>1, <1>2, <1>6, <2>1, <2>4, InsideLive DEF Inside
<1>9. CASE r.r # "Ok"
  <2>1. pc' = "restore" /\ result' # "Ok"
    BY <1>1, <1>7, <1>9 DEF Goto
  <2>2. StageWith'
    BY <1>1, <1>7, <2>1 DEF StageWith
  <2> QED BY <1>1, <1>2, <1>6, <2>1, <2>2, InsideLive DEF Inside
<1> QED BY <1>8, <1>9

LEMMA InsideSame ==
  ASSUME InitInv, pc \in Inside, mach' = mach
  PROVE  Edits
<1>1. pc \in Late /\ pc # "stopped"
  BY DEF Late, Inside
<1>2. Good(mach, All, {1, table}, table) /\ mach.cr3 = 1 /\ Untouched(mach, table)
  BY <1>1, LateFacts
<1>3. Live /\ Sound(mach, Fixed) /\ Running(mach)
  BY <1>1, LiveFacts
<1>4. OnlyRefs(mach) /\ Chain(mach.mem, 1, temp, 1) /\ (temp[1] < Half \/ Crowded(mach.mem, 1))
  BY <1>3 DEF Live, StageRoots, StageWith
<1> QED BY <1>2, <1>3, <1>4 DEF Edits

LEMMA KernelFramesFacts ==
  ASSUME Place
  PROVE  /\ KernelFrames \in Seq(Kernel) /\ \A f \in Kernel : f \in Range(KernelFrames)
         /\ Cardinality(Kernel) = kend - Half
<1>1. kend \in Nat /\ kend > Half /\ Half \in Nat
  BY PlaceFacts, Indices
<1> DEFINE n == kend - Half
<1>2. n \in Nat
  BY <1>1
<1>3. KernelFrames \in [1 .. n -> Kernel]
  BY <1>1 DEF KernelFrames, Kernel
<1>4. KernelFrames \in Seq(Kernel)
  <2> HIDE DEF n
  <2> QED BY <1>2, <1>3, SeqDef
<1>5. ASSUME NEW f \in Kernel PROVE f \in Range(KernelFrames)
  <2>1. f - Half + 1 \in 1 .. n /\ Half + (f - Half + 1) - 1 = f
    BY <1>1 DEF Kernel
  <2>2. f - Half + 1 \in DOMAIN KernelFrames /\ KernelFrames[f - Half + 1] = f
    BY <2>1 DEF KernelFrames
  <2> QED BY <2>2 DEF Range
<1>6. Cardinality(Kernel) = kend - Half
  <2>1. Half \in Int /\ kend - 1 \in Int /\ ~(Half > kend - 1) /\ (kend - 1) - Half + 1 = kend - Half
    BY <1>1
  <2>2. Cardinality(Half .. (kend - 1)) =
          IF Half > kend - 1 THEN 0 ELSE (kend - 1) - Half + 1
    BY <2>1, FS_Interval
  <2> QED BY <2>1, <2>2 DEF Kernel
<1> QED BY <1>4, <1>5, <1>6

LEMMA InvMapFitting ==
  ASSUME InitInv, MapFitting
  PROVE  InitInv'
<1>1. pc = "remap" /\ todo = << >> /\ UNCHANGED <<kend, given, table, temp, result, heap>>
  BY DEF MapFitting
<1>2. pc \in Inside /\ pc # "stopped" /\ pc \in Late
  BY <1>1 DEF Inside, Late
<1>3. Live /\ Place /\ Sound(mach, Fixed)
  BY <1>2, LiveFacts
<1>4. Good(mach, All, {1, table}, table) /\ mach.cr3 = 1 /\ Untouched(mach, table)
  BY <1>2, LateFacts
<1>5. CASE Cardinality(Kernel) >= E
  <2>1. mach' = Fault(mach, "panic") /\ pc' = "stopped"
    BY <1>5 DEF MapFitting
  <2>2. NoPath(mach.mem, mach.cr3, 0)
    BY <1>4 DEF Untouched
  <2>3. Sound(mach', Fixed)
    BY <1>4, <2>1, <2>2, SoundGood
  <2> QED BY <1>1, <1>3, <2>1, <2>3, Step
<1>6. CASE ~(Cardinality(Kernel) >= E)
  <2>1. todo' = KernelFrames /\ pc' = "fit" /\ mach' = mach
    BY <1>6 DEF MapFitting
  <2>2. /\ KernelFrames \in Seq(Kernel) /\ \A f \in Kernel : f \in Range(KernelFrames)
        /\ Cardinality(Kernel) = kend - Half
    BY <1>3, KernelFramesFacts
  <2>3. kend - Half < E
    <3>1. kend \in Nat /\ Half \in Nat /\ E \in Nat
      BY <1>3, PlaceFacts, Indices
    <3> QED BY <1>6, <2>2, <3>1
  <2>4. \A f \in Fixed : f \in Range(KernelFrames) \/ Chain(mach.mem, table, Virtual(f), f)
    BY <1>1, <1>3, <2>2, EmptyRange DEF Live, StageWith, Fixed
  <2>5. Chain(mach.mem, 1, temp, 1) /\ (temp[1] < Half \/ Crowded(mach.mem, 1))
    BY <1>2, <1>3 DEF Live, StageWith
  <2>6. Fixed' = Fixed /\ Kernel' = Kernel
    BY <1>1 DEF Fixed, Kernel
  <2>7. StageWith'
    BY <1>1, <2>1, <2>2, <2>3, <2>4, <2>5, <2>6 DEF StageWith
  <2>8. Edits
    BY <1>2, <2>1, InsideSame
  <2> QED BY <1>1, <1>2, <2>1, <2>7, <2>8, InsideLive DEF Inside
<1> QED BY <1>5, <1>6

LEMMA InvClosureOk ==
  ASSUME InitInv, ClosureOk
  PROVE  InitInv'
<1>1. /\ pc = "fit" /\ todo = << >> /\ pc' = "restore"
      /\ UNCHANGED <<mach, kend, given, todo, table, temp, result, heap>>
  BY DEF ClosureOk
<1>2. pc \in Inside /\ pc' \in Inside /\ pc # "stopped"
  BY <1>1 DEF Inside
<1>3. Live
  BY <1>2, LiveFacts
<1>4. InPlace(mach.mem, table, Fixed)
  BY <1>1, <1>3, EmptyRange DEF Live, StageWith, InPlace
<1>5. Chain(mach.mem, 1, temp, 1) /\ (temp[1] < Half \/ Crowded(mach.mem, 1))
  BY <1>2, <1>3 DEF Live, StageWith
<1>6. Fixed' = Fixed
  BY <1>1 DEF Fixed, Kernel
<1>7. StageWith'
  BY <1>1, <1>4, <1>5, <1>6 DEF StageWith
<1>8. Edits
  BY <1>1, <1>2, InsideSame
<1> QED BY <1>1, <1>2, <1>7, <1>8, InsideLive

LEMMA InvRestore ==
  ASSUME InitInv, Restore
  PROVE  InitInv'
<1> DEFINE n == WithEnd(mach, temp, mach.cr3)
<1>1. /\ pc = "restore" /\ UNCHANGED <<kend, given, todo, table, temp, result, heap>>
      /\ mach' = n /\ Goto(n, IF result = "Ok" THEN "switch" ELSE "err")
  BY DEF Restore
<1>2. pc \in Inside /\ pc # "stopped" /\ pc \in Late
  BY <1>1 DEF Inside, Late
<1>3. Live /\ Place
  BY <1>2, LiveFacts
<1>4. /\ table # NoFrame /\ heap = << >> /\ table \in Frames /\ table # 1
      /\ Good(mach, All, {1, table}, table) /\ mach.cr3 = 1 /\ Untouched(mach, table)
  BY <1>2, LateFacts
<1>5. OnlyRefs(mach) /\ Chain(mach.mem, 1, temp, 1) /\ (temp[1] < Half \/ Crowded(mach.mem, 1))
  BY <1>2, <1>3 DEF Live, StageRoots, StageWith
<1>6. \A x \in mach.tlb : x[1] # temp
  <2>1. temp[1] \in Low
    BY <1>5 DEF Chain, Path, Edge
  <2> QED BY <1>5, <2>1, Indices DEF OnlyRefs
<1>7. EndDone(mach, n, All, {1, table}, table)
  <2>1. Chain(mach.mem, mach.cr3, temp, mach.cr3) /\ (temp[1] < Half \/ Crowded(mach.mem, mach.cr3))
    BY <1>4, <1>5
  <2> QED BY <1>4, <1>6, <2>1, EndFacts
<1> HIDE DEF n
<1>8. CASE Redirected(mach, n, All, {1, table}, mach.cr3)
  <2>1. /\ Good(n, All, {1, table}, 1) /\ n.cr3 = 1 /\ Kept(mach, n, All) /\ Apart(mach, n, 1)
    BY <1>4, <1>8 DEF Redirected
  <2>2. Untouched(n, table)
    <3>1. 1 \in {1, table} /\ table \in {1, table}
      OBVIOUS
    <3> QED BY <1>4, <2>1, <3>1, ApartUntouched
  <2>3. NoPath(n.mem, 1, 0) /\ Running(n)
    BY <2>1, <2>2, GoodFacts DEF Untouched
  <2>4. Sound(mach', Fixed)
    BY <1>1, <2>1, <2>3, SoundGood
  <2>5. CASE result = "Ok"
    <3>1. pc' = "switch"
      BY <1>1, <2>3, <2>5 DEF Goto
    <3>2. InPlace(mach.mem, table, Fixed)
      BY <1>1, <1>3, <2>5 DEF Live, StageWith
    <3>3. InPlace(mach'.mem, table, Fixed)
      BY <1>1, <1>4, <2>1, <3>2, KeptPlace
    <3>4. Fixed' = Fixed
      BY <1>1 DEF Fixed, Kernel
    <3>5. StageWith' /\ StageRoots'
      BY <1>1, <1>4, <2>1, <3>1, <3>3, <3>4 DEF StageWith, StageRoots, Inside, Early
    <3>6. InitEdited' = 1
      BY <1>1, <2>1, <3>1 DEF InitEdited, Inside
    <3>7. Good(mach', All, {1, table'}, InitEdited') /\ Untouched(mach', table')
      BY <1>1, <2>1, <2>2, <3>6
    <3>8. pc' \in Late
      BY <3>1 DEF Late
    <3>9. Live'
      BY <1>1, <1>4, <3>5, <3>7, <3>8, ToLate
    <3> QED BY <1>1, <1>3, <2>4, <3>9, Step
  <2>6. CASE result # "Ok"
    <3>1. pc' = "err"
      BY <1>1, <2>3, <2>6 DEF Goto
    <3>2. TestFrame' = {} /\ HeapBlock' = {} /\ Root' = {1, table}
      BY <1>1, <1>4 DEF TestFrame, HeapBlock, Root
    <3>3. InitOwned' = All
      BY <1>1, <3>2 DEF InitOwned, All
    <3>4. Good(mach', InitOwned', Root', mach'.cr3) /\ Untouched(mach', table')
      BY <1>1, <2>1, <2>2, <3>2, <3>3
    <3>5. Live'
      BY <1>1, <1>4, <3>1, <3>2, <3>4, ToErr
    <3> QED BY <1>1, <1>3, <2>4, <3>5, Step
  <2> QED BY <2>5, <2>6
<1>9. CASE Halted(n, All, {1, table}, table) /\ n.mem = mach.mem /\ n.cr3 = mach.cr3
  <2>1. NoPath(n.mem, n.cr3, 0) /\ n.cr3 = 1
    BY <1>4, <1>9 DEF Untouched
  <2>2. Sound(mach', Fixed) /\ ~Running(n)
    BY <1>1, <1>9, <2>1, SoundHalted
  <2>3. pc' = "stopped"
    BY <1>1, <2>2 DEF Goto
  <2> QED BY <1>1, <1>3, <2>2, <2>3, Step
<1> QED BY <1>7, <1>8, <1>9 DEF EndDone

LEMMA InvSwitchTable ==
  ASSUME InitInv, SwitchTable
  PROVE  InitInv'
<1>1. /\ pc = "switch" /\ pc' = "heap" /\ UNCHANGED <<kend, given, todo, table, temp, result, heap>>
      /\ mach' = Switch(mach, table)
  BY DEF SwitchTable
<1>2. pc \notin Inside /\ pc # "stopped" /\ pc \in Late
  BY <1>1 DEF Inside, Late
<1>3. Live /\ Place
  BY <1>2, LiveFacts
<1>4. /\ table # NoFrame /\ heap = << >> /\ table \in Frames /\ table # 1
      /\ Good(mach, All, {1, table}, mach.cr3) /\ Untouched(mach, table)
  BY <1>2, LateFacts
<1>5. InPlace(mach.mem, table, Fixed)
  BY <1>1, <1>3 DEF Live, StageWith
<1>6. /\ Good(mach', All, {1, table}, table) /\ mach'.tlb = {} /\ mach'.cr3 = table
      /\ mach'.mem = mach.mem
  <2> DEFINE roots == {1, table}
             n     == Switch(mach, table)
  <2>1. table \in roots /\ Good(mach, All, roots, mach.cr3)
    BY <1>4
  <2> HIDE DEF roots
  <2>2. /\ Good(Switch(mach, table), All, roots, table) /\ Switch(mach, table).tlb = {}
        /\ Switch(mach, table).cr3 = table /\ Switch(mach, table).mem = mach.mem
    <3>1. Good(Switch(mach, table), All, roots, table)
      BY <2>1, SwitchGood, Zenon
    <3>2. Switch(mach, table).tlb = {} /\ Switch(mach, table).cr3 = table /\ Switch(mach, table).mem = mach.mem
      BY <2>1, SwitchGood
    <3> QED BY <3>1, <3>2
  <2> HIDE DEF n
  <2> QED BY <1>1, <2>2 DEF n, roots
<1>7. Untouched(mach', table') /\ NoPath(mach'.mem, table, 0)
  BY <1>1, <1>4, <1>6 DEF Untouched
<1>8. Sound(mach', Fixed)
  BY <1>5, <1>6, <1>7, SoundGood
<1>9. InitEdited' = table
  BY <1>1, <1>6 DEF InitEdited, Inside
<1>10. StageWith' /\ StageRoots'
  BY <1>1, <1>4, <1>6 DEF StageWith, StageRoots, Inside, Early, OnlyRefs
<1>11. Live'
  <2>1. pc' \in Late /\ Good(mach', All, {1, table'}, InitEdited')
    BY <1>1, <1>6, <1>9 DEF Late
  <2> QED BY <1>1, <1>4, <1>7, <1>10, <2>1, ToLate
<1> QED BY <1>1, <1>3, <1>8, <1>11, Step

LEMMA HeapBlockFacts ==
  ASSUME HeapBlocks # {}, mach.free \subseteq Nat
  PROVE  /\ Min(HeapBlocks) \in Nat
         /\ Min(HeapBlocks) .. (Min(HeapBlocks) + HeapFrames - 1) \subseteq mach.free
<1>1. HeapBlocks \in SUBSET Nat
  BY DEF HeapBlocks
<1>2. Min(HeapBlocks) \in HeapBlocks
  BY <1>1, MinFacts
<1> QED BY <1>1, <1>2 DEF HeapBlocks

(* What HeapAllocator::new leaves, from the machine to the one after the mapping. *)
HeapMapped(n, p, f, block) ==
  /\ Good(n, All \ block, {1, table}, table) /\ n.cr3 = table /\ OnlyRefs(n)
  /\ Untouched(n, table) /\ InPlace(n.mem, table, Fixed)
  /\ p # None =>
       /\ \E i \in Low : p = <<i, 1, 1, 1>>
       /\ \A y \in 0 .. (HeapFrames - 1) : Chain(n.mem, table, PageAfter(p, y), f + y)

LEMMA HeapMapFacts ==
  ASSUME InitInv, pc = "heap", NEW f \in Nat, NEW block, block \subseteq mach.free
  PROVE  LET r == AutoContinuousMap([mach EXCEPT !.free = @ \ block], f, HeapFrames)
         IN HeapMapped(r.m, r.p, f, block)
<1> DEFINE n0 == [mach EXCEPT !.free = @ \ block]
           r  == AutoContinuousMap(n0, f, HeapFrames)
           U  == All \ block
           roots == {1, table}
<1>1. pc \notin Inside /\ pc # "stopped" /\ pc \in Late
  BY DEF Inside, Late
<1>2. Live /\ Sound(mach, Fixed)
  BY <1>1, LiveFacts
<1>3. mach.cr3 = table /\ OnlyRefs(mach)
  BY <1>2 DEF Live, StageRoots
<1>4. table # 1 /\ Good(mach, All, roots, table) /\ Untouched(mach, table)
  BY <1>1, <1>3, LateFacts
<1>5. /\ Good(n0, U, roots, table) /\ n0.mem = mach.mem /\ n0.cr3 = mach.cr3 /\ n0.tlb = mach.tlb
  BY <1>4, BlockGood
<1> HIDE DEF n0, U
<1>6. AutoDone(n0, r, f, HeapFrames, U, roots, table)
  <2>1. HeapFrames \in Nat \ {0}
    BY HeapAssumption
  <2> HIDE DEF roots
  <2> QED BY <1>5, <2>1, AutoFacts
<1> HIDE DEF r
<1>7. /\ Good(r.m, U, roots, table) /\ Grown(n0, r.m, U) /\ Apart(n0, r.m, table)
      /\ r.p # None =>
           /\ \E i \in Low : r.p = <<i, 1, 1, 1>>
           /\ \A y \in 0 .. (HeapFrames - 1) : Chain(r.m.mem, table, PageAfter(r.p, y), f + y)
  BY <1>6 DEF AutoDone
<1>8. r.m.cr3 = table /\ OnlyRefs(r.m) /\ Kept(n0, r.m, U)
  BY <1>3, <1>5, <1>7, GrownKept DEF Grown, OnlyRefs
<1>9. 1 \in roots /\ table \in roots
  OBVIOUS
<1> HIDE DEF roots
<1>10. Untouched(r.m, table)
  <2>1. Untouched(n0, table)
    BY <1>4, <1>5 DEF Untouched
  <2> QED BY <1>5, <1>7, <1>9, <2>1, ApartUntouched
<1>11. InPlace(r.m.mem, table, Fixed)
  <2>1. InPlace(n0.mem, table, Fixed)
    BY <1>2, <1>3, <1>4, <1>5 DEF Sound
  <2> QED BY <1>5, <1>8, <1>9, <2>1, KeptPlace
<1> QED BY <1>7, <1>8, <1>10, <1>11 DEF HeapMapped, U, roots, r, n0

LEMMA InvHeap ==
  ASSUME InitInv, Heap
  PROVE  InitInv'
<1> DEFINE f == Min(HeapBlocks)
           block == f .. (f + HeapFrames - 1)
           r == AutoContinuousMap([mach EXCEPT !.free = @ \ block], f, HeapFrames)
           some == HeapBlocks # {} /\ r.p # None
<1>1. /\ pc = "heap" /\ UNCHANGED <<kend, given, todo, table, temp>>
      /\ mach' = IF HeapBlocks = {} THEN mach
                 ELSE IF Running(r.m) /\ some THEN TouchFound(r.m, r.p) ELSE r.m
      /\ heap' = IF HeapBlocks = {} THEN << >> ELSE <<r.p, f>>
      /\ Goto(mach', IF some THEN "done" ELSE "err")
  BY DEF Heap
<1>2. pc \notin Inside /\ pc # "stopped" /\ pc \in Late
  BY <1>1 DEF Inside, Late
<1>3. /\ Live /\ Place /\ Sound(mach, Fixed) /\ Running(mach)
      /\ mach.free \subseteq given /\ mach.free \subseteq Nat
  BY <1>2, LiveFacts
<1>4. mach.cr3 = table
  BY <1>1, <1>3 DEF Live, StageRoots
<1>5. /\ table # NoFrame /\ table \in Frames /\ table # 1
      /\ Good(mach, All, {1, table}, table) /\ Untouched(mach, table)
  BY <1>2, <1>4, LateFacts
<1>6. TestFrame' = {} /\ Root' = {1, table}
  BY <1>1, <1>5 DEF TestFrame, Root
<1>7. CASE HeapBlocks = {}
  <2>1. mach' = mach /\ heap' = << >> /\ pc' = "err"
    BY <1>1, <1>3, <1>7 DEF Goto
  <2>2. HeapBlock' = {}
    BY <2>1 DEF HeapBlock
  <2>3. InitOwned' = All
    BY <1>1, <1>6, <2>2 DEF InitOwned, All
  <2>4. Good(mach', InitOwned', Root', mach'.cr3) /\ Untouched(mach', table')
    BY <1>1, <1>4, <1>5, <1>6, <2>1, <2>3
  <2>5. Live'
    BY <1>1, <1>6, <2>1, <2>2, <2>4, ToErr
  <2> QED BY <1>1, <1>3, <2>1, <2>5, Step
<1>8. CASE HeapBlocks # {}
  <2>1. f \in Nat /\ block \subseteq mach.free
    BY <1>3, <1>8, HeapBlockFacts
  <2>2. HeapMapped(r.m, r.p, f, block)
    <3> HIDE DEF f, block
    <3> QED BY <1>1, <2>1, HeapMapFacts
  <2> HIDE DEF r
  <2>3. /\ Good(r.m, All \ block, {1, table}, table) /\ r.m.cr3 = table /\ OnlyRefs(r.m)
        /\ Untouched(r.m, table) /\ InPlace(r.m.mem, table, Fixed)
    BY <2>2 DEF HeapMapped
  <2>4. Running(r.m) /\ NoPath(r.m.mem, table, 0)
    BY <1>5, <2>3, GoodFacts DEF Untouched
  <2>5. heap' = <<r.p, f>> /\ heap' # << >> /\ heap'[1] = r.p /\ heap'[2] = f
    BY <1>1, <1>8
  <2>6. HeapBlock' = block
    BY <2>5 DEF HeapBlock
  <2>7. InitOwned' = All \ block /\ (TestFrame \cup HeapBlock \subseteq given)'
    BY <1>1, <1>3, <1>6, <2>1, <2>6 DEF InitOwned, All
  <2> HIDE DEF f, block
  <2>8. CASE r.p = None
    <3>1. mach' = r.m /\ pc' = "err"
      BY <1>1, <1>8, <2>4, <2>8 DEF Goto
    <3>2. Good(mach', InitOwned', Root', mach'.cr3) /\ Untouched(mach', table')
      BY <1>1, <1>6, <2>3, <2>7, <3>1
    <3>3. Live'
      BY <1>1, <1>5, <2>7, <3>1, <3>2, ToErr
    <3>4. Sound(mach', Fixed)
      BY <2>3, <2>4, <3>1, SoundGood
    <3> QED BY <1>1, <1>3, <3>3, <3>4, Step
  <2>9. CASE r.p # None
    <3>1. mach' = TouchFound(r.m, r.p) /\ Goto(mach', "done")
      BY <1>1, <1>8, <2>4, <2>9
    <3>2. PICK i \in Low : r.p = <<i, 1, 1, 1>>
      BY <2>2, <2>9 DEF HeapMapped
    <3>3. \A y \in 0 .. (HeapFrames - 1) : Chain(r.m.mem, table, PageAfter(r.p, y), f + y)
      BY <2>2, <2>9 DEF HeapMapped
    <3>4. r.p[1] = i
      BY <3>2
    <3>5. CASE i < Half
      <4>1. mach' = Touch(r.m, r.p)
        BY <3>1, <3>4, <3>5 DEF TouchFound
      <4>2. Plain(r.p)
        <5>1. 1 \in Low /\ i # Half /\ Low \subseteq Idx
          BY <3>5, Indices
        <5>2. Lows(r.p)
          BY <3>2, <5>1, FoundPageFacts
        <5> QED BY <3>4, <5>1, <5>2 DEF Lows, Plain
      <4>3. Chain(r.m.mem, r.m.cr3, r.p, f)
        <5>1. 0 \in 0 .. (HeapFrames - 1) /\ f + 0 = f /\ PageAfter(<<i, 1, 1, 1>>, 0) = <<i, 1, 1, 1 + 0>>
          BY <2>1, HeapAssumption, PageAfterFacts
        <5>2. PageAfter(r.p, 0) = r.p
          BY <3>2, <5>1
        <5>3. Chain(r.m.mem, table, PageAfter(r.p, 0), f + 0)
          BY <3>3, <5>1
        <5> QED BY <2>3, <5>1, <5>2, <5>3
      <4>4. \A x \in r.m.tlb : x[1] # r.p
        BY <2>3, <3>4, Indices DEF OnlyRefs
      <4>5. Visited(r.m, mach', All \ block, {1, table}, table)
        BY <2>3, <4>1, <4>2, <4>3, <4>4, TouchPlain
      <4>6. Good(mach', All \ block, {1, table}, table) /\ mach'.mem = r.m.mem /\ mach'.cr3 = table
        BY <2>3, <4>5 DEF Visited
      <4>7. pc' = "done"
        <5>1. Running(mach')
          BY <4>6, GoodFacts
        <5> QED BY <3>1, <5>1 DEF Goto
      <4>8. Sound(mach', Fixed)
        BY <2>3, <2>4, <4>6, SoundGood
      <4>9. InitEdited' = table
        BY <4>6, <4>7 DEF InitEdited, Inside
      <4>10. Good(mach', InitOwned', Root', InitEdited') /\ Untouched(mach', table')
        BY <1>1, <1>6, <2>3, <2>7, <4>6, <4>9 DEF Untouched
      <4>11. StageTest' /\ StageRoots' /\ StageWith'
        BY <1>1, <1>5, <4>6, <4>7 DEF StageTest, StageRoots, StageWith, Inside, Early
      <4>12. StageHeap'
        BY <1>1, <2>5, <3>3, <4>6 DEF StageHeap
      <4>13. Live'
        BY <2>7, <4>10, <4>11, <4>12 DEF Live
      <4> QED BY <1>1, <1>3, <4>8, <4>13, Step
    <3>6. CASE ~(i < Half)
      <4>1. mach' = Fault(r.m, "general_protection")
        BY <3>1, <3>4, <3>6 DEF TouchFound
      <4>2. Sound(mach', Fixed)
        BY <2>3, <2>4, <4>1, SoundGood
      <4>3. ~Running(mach')
        <5>1. r.m \in Machines
          BY <2>3, GoodFacts
        <5> QED BY <4>1, <5>1, FaultFacts
      <4>4. pc' = "stopped"
        BY <3>1, <4>3 DEF Goto
      <4> QED BY <1>1, <1>3, <4>2, <4>4, Step
    <3> QED BY <3>5, <3>6
  <2> QED BY <2>8, <2>9
<1> QED BY <1>7, <1>8

LEMMA InvHalt ==
  ASSUME InitInv, UNCHANGED initVars
  PROVE  InitInv'
<1>1. UNCHANGED <<mach, pc, kend, given, todo, table, temp, result, heap>>
  BY DEF initVars
<1>2. Fixed' = Fixed /\ Root' = Root /\ InitEdited' = InitEdited /\ TestFrame' = TestFrame
      /\ HeapBlock' = HeapBlock /\ Place' = Place /\ Kernel' = Kernel
  BY <1>1 DEF Fixed, Kernel, Root, InitEdited, TestFrame, HeapBlock, Place
<1>3. InitOwned' = InitOwned
  BY <1>1, <1>2 DEF InitOwned
<1>4. StageTest' = StageTest /\ StageRoots' = StageRoots /\ StageHeap' = StageHeap
  BY <1>1 DEF StageTest, StageRoots, StageHeap
<1>5. StageWith' = StageWith
  BY <1>1, <1>2 DEF StageWith
<1>6. Live' = Live
  BY <1>1, <1>2, <1>3, <1>4, <1>5 DEF Live
<1> QED BY <1>1, <1>2, <1>6 DEF InitInv

LEMMA BootRoot ==
  ASSUME NEW free, 1 \notin free
  PROVE  BootTables(free)[1] = [Blank EXCEPT ![Half] = Entry(3), ![R] = Entry(1)]
<1>1. 1 \in Frames
  BY Frame03
<1> QED BY <1>1 DEF BootTables

LEMMA InvStart ==
  ASSUME Start
  PROVE  InitInv
<1>1. /\ kend \in KernelEnds /\ \E n \in FrameCounts : given = kend .. (kend + n - 1)
      /\ mach = BootMachine(given) /\ pc = "test_alloc" /\ todo = << >> /\ heap = << >>
      /\ table = NoFrame
  BY DEF Start
<1>2. Place
  BY <1>1 DEF Place
<1>3. given \subseteq Frames /\ given \cap (0 .. 3) = {} /\ 1 \notin given /\ 3 \notin given
  BY <1>2, PlaceFacts
<1>4. BootTables(given) \in Mems
  BY <1>3, BootTree
<1>5. PICK lv : Tree(BootTables(given), {1, 3}, lv, {1}, 1, 1)
  BY <1>3, BootTree
<1>6. /\ mach.mem = BootTables(given) /\ mach.free = given /\ mach.cr3 = 1 /\ mach.tlb = {}
      /\ mach.stale = FALSE /\ mach.fault = "none"
  BY <1>1 DEF BootMachine
<1>7. mach \in Machines
  <2>1. BootTables(given) \in [Frames -> [Idx -> Ents]]
    BY <1>4 DEF Mems
  <2> HIDE DEF BootTables
  <2> QED BY <1>1, <1>3, <2>1, Frame03 DEF BootMachine, Machines
<1>8. TestFrame = {} /\ HeapBlock = {} /\ Root = {1} /\ InitEdited = 1
  BY <1>1, <1>6 DEF TestFrame, HeapBlock, Root, InitEdited, Inside
<1>9. InitOwned = All /\ InitOwned \ mach.free = {1, 3}
  BY <1>3, <1>6, <1>8 DEF InitOwned, All
<1>10. Good(mach, InitOwned, Root, InitEdited)
  <2>1. TlbOk(mach, 1)
    BY <1>6 DEF TlbOk
  <2>2. mach.free \subseteq InitOwned
    BY <1>6, <1>9 DEF All
  <2> QED BY <1>5, <1>6, <1>7, <1>8, <1>9, <2>1, <2>2 DEF Good, Running
<1>11. NoPath(mach.mem, 1, 0)
  <2>1. 1 \in Frames /\ 0 \in Idx /\ 0 # Half /\ 0 # R
    BY Frame03, Indices
  <2>2. mach.mem[1] = [Blank EXCEPT ![Half] = Entry(3), ![R] = Entry(1)]
    BY <1>3, <1>6, BootRoot
  <2>3. Blank[0] = Empty /\ DOMAIN Blank = Idx
    BY <2>1 DEF Blank
  <2>4. mach.mem[1][0] = Empty
    BY <2>1, <2>2, <2>3
  <2>5. \A s : ~Edge(mach.mem, 1, 0, s)
    BY <2>4, EntryFacts DEF Edge
  <2> QED BY <2>5 DEF NoPath, Path
<1>12. Untouched(mach, table)
  BY <1>1, <1>11 DEF Untouched
<1>13. StageTest /\ StageRoots /\ StageWith /\ StageHeap
  BY <1>1, <1>6 DEF StageTest, StageRoots, StageWith, StageHeap, Early, Inside, OnlyRefs
<1>14. Live
  BY <1>8, <1>10, <1>12, <1>13 DEF Live
<1>15. Sound(mach, Fixed)
  BY <1>6, <1>10, <1>11, SoundGood
<1> QED BY <1>2, <1>14, <1>15 DEF InitInv

LEMMA InvInitNext ==
  ASSUME InitInv, [InitNext]_initVars
  PROVE  InitInv'
<1>1. CASE InitNext
  BY <1>1, InvTestAlloc, InvTestMap, InvTestWrite, InvTestUnmap, InvNewRoot, InvWith, InvRemap,
     InvMapFitting, InvMapKernel, InvClosureOk, InvRestore, InvSwitchTable, InvHeap, InvHalt
     DEF InitNext, Halt
<1>2. CASE UNCHANGED initVars
  BY <1>2, InvHalt
<1> QED BY <1>1, <1>2

(* The inductive invariant holds throughout paging::init, for any table size,
   end of the kernel and number of frames. *)
THEOREM InitInvariant == InitSpec => []InitInv
<1>1. Start => InitInv
  BY InvStart
<1>2. InitInv /\ [InitNext]_initVars => InitInv'
  BY InvInitNext
<1> QED BY <1>1, <1>2, PTL DEF InitSpec

-------------------------------------------------------------------------------
(* What the invariant says of paging::init. *)

LEMMA SoundWalk ==
  ASSUME NEW n, NEW K, Sound(n, K), NEW p, Plain(p), \A u : ~Path(n.mem, n.cr3, p[1], p[2], p[3], u)
  PROVE  Walk(n.mem, n.cr3, p) = NoFrame
<1>1. PICK S, lv, roots, ed : Tree(n.mem, S, lv, roots, n.cr3, ed)
  BY DEF Sound
<1>2. n.mem \in Mems /\ n.cr3 \in roots
  BY <1>1, TreeFacts DEF Sound
<1> SUFFICES ASSUME Walk(n.mem, n.cr3, p) # NoFrame PROVE FALSE
  OBVIOUS
<1>3. Chain(n.mem, n.cr3, p, Walk(n.mem, n.cr3, p))
  BY <1>1, <1>2, WalkChain
<1> QED BY <1>3 DEF Chain

LEMMA KernelMapped ==
  ASSUME InitInv
  PROVE  KernelAlwaysMapped
<1>1. Place /\ Sound(mach, Fixed)
  BY DEF InitInv
<1> SUFFICES ASSUME NEW f \in Fixed PROVE Walk(mach.mem, mach.cr3, Virtual(f)) = f
  BY DEF KernelAlwaysMapped, Fixed
<1>2. PICK S, lv, roots, ed : Tree(mach.mem, S, lv, roots, mach.cr3, ed)
  BY <1>1 DEF Sound
<1>3. mach.mem \in Mems /\ mach.cr3 \in Frames
  BY <1>1 DEF Sound
<1>4. CASE mach.cr3 = 1
  <2>1. f \in Nat
    BY <1>1, PlaceFacts
  <2>2. Tree(mach.mem, S, lv, roots, 1, ed)
    BY <1>2, <1>4
  <2> QED BY <1>3, <1>4, <2>1, <2>2, BootWalk
<1>5. CASE mach.cr3 # 1
  <2>1. Chain(mach.mem, mach.cr3, Virtual(f), f)
    BY <1>1, <1>5 DEF Sound, InPlace
  <2> QED BY <1>3, <2>1, ChainWalk
<1> QED BY <1>4, <1>5

LEMMA NullUnmapped ==
  ASSUME InitInv
  PROVE  NullNeverMapped
<1>1. Sound(mach, Fixed)
  BY DEF InitInv
<1> DEFINE p == <<0, 0, 0, 0>>
<1>2. 0 \in Low /\ Low \subseteq Idx /\ Half # 0
  BY Indices
<1>3. p \in Pages /\ p[1] = 0 /\ p[2] = 0 /\ p[3] = 0 /\ p[4] = 0
  BY <1>2 DEF Pages
<1> HIDE DEF p
<1>4. Plain(p)
  BY <1>2, <1>3 DEF Plain
<1>5. \A u : ~Path(mach.mem, mach.cr3, p[1], p[2], p[3], u)
  BY <1>1, <1>3 DEF Sound, NoPath
<1> QED BY <1>1, <1>4, <1>5, SoundWalk DEF NullNeverMapped, p

LEMMA Outcome ==
  ASSUME InitInv
  PROVE  InitOutcome
<1>1. ASSUME pc \in {"done", "err"} PROVE mach.mem[mach.cr3][R] = Entry(mach.cr3)
  <2>1. pc # "stopped" /\ pc \notin Inside
    BY <1>1 DEF Inside
  <2>2. Good(mach, InitOwned, Root, mach.cr3)
    BY <2>1, LiveFacts DEF InitEdited
  <2> QED BY <2>2, GoodFacts
<1>2. ASSUME pc = "done"
      PROVE  /\ mach.cr3 = table
             /\ \A k \in 0 .. (HeapFrames - 1) :
                  Walk(mach.mem, mach.cr3, PageAfter(heap[1], k)) = heap[2] + k
             /\ Walk(mach.mem, mach.cr3, TestPage) = NoFrame
  <2>1. Live /\ Sound(mach, Fixed) /\ mach.mem \in Mems /\ mach.cr3 \in Frames
    BY <1>2, LiveFacts DEF Sound
  <2>2. mach.cr3 = table /\ table # NoFrame
    BY <1>2, <2>1 DEF Live, StageRoots, Early
  <2>3. \A k \in 0 .. (HeapFrames - 1) : Chain(mach.mem, table, PageAfter(heap[1], k), heap[2] + k)
    BY <1>2, <2>1 DEF Live, StageHeap
  <2>4. \A k \in 0 .. (HeapFrames - 1) :
          Walk(mach.mem, mach.cr3, PageAfter(heap[1], k)) = heap[2] + k
    BY <2>1, <2>2, <2>3, ChainWalk
  <2>5. \A u : ~Path(mach.mem, mach.cr3, TestPage[1], TestPage[2], TestPage[3], u)
    BY <2>1, <2>2, TestPageFacts DEF Live, Untouched, NoPath
  <2>6. Walk(mach.mem, mach.cr3, TestPage) = NoFrame
    BY <2>1, <2>5, TestPageFacts, SoundWalk
  <2> QED BY <2>2, <2>4, <2>6
<1> QED BY <1>1, <1>2 DEF InitOutcome

LEMMA TableFramesFacts ==
  ASSUME InitInv, pc # "stopped"
  PROVE  TableFrames = InitOwned \ mach.free
<1> DEFINE S == InitOwned \ mach.free
           mem == mach.mem
<1>1. Good(mach, InitOwned, Root, InitEdited) /\ mem \in Mems
  BY LiveFacts
<1>2. PICK lv : Tree(mem, S, lv, Root, mach.cr3, InitEdited)
  BY <1>1 DEF Good
<1> HIDE DEF S, mem
<1>3. \A r \in Root : \A x : x \in TablePaths(mem, r) <=> \E q, g : x = <<q, g>> /\ Reach(mem, r, q, g)
  BY <1>1, <1>2, TablePathsFacts
<1>4. \A g : g \in TableFrames <=> \E r \in Root : \E x \in TablePaths(mem, r) : g = x[2]
  BY DEF TableFrames, Root, mem
<1>5. ASSUME NEW g \in TableFrames PROVE g \in S
  <2>1. PICK r \in Root : \E x \in TablePaths(mem, r) : g = x[2]
    BY <1>4
  <2>2. PICK x \in TablePaths(mem, r) : g = x[2]
    BY <2>1
  <2>3. PICK q, h : x = <<q, h>> /\ Reach(mem, r, q, h)
    BY <1>3
  <2>4. h = g
    BY <2>2, <2>3
  <2> QED BY <1>2, <2>3, <2>4, ReachLevel
<1>6. ASSUME NEW g \in S PROVE g \in TableFrames
  <2>1. PICK r \in Root : \E q : Reach(mem, r, q, g)
    BY <1>2, ReachAll
  <2>2. PICK q : Reach(mem, r, q, g)
    BY <2>1
  <2>3. <<q, g>> \in TablePaths(mem, r) /\ <<q, g>>[2] = g
    BY <1>3, <2>2
  <2> QED BY <1>4, <2>3
<1> QED BY <1>5, <1>6 DEF S

LEMMA DisjointSum ==
  ASSUME NEW A, NEW B, IsFiniteSet(A), IsFiniteSet(B), A \cap B = {}
  PROVE  IsFiniteSet(A \cup B) /\ Cardinality(A \cup B) = Cardinality(A) + Cardinality(B)
<1>1. IsFiniteSet(A \cup B) /\ Cardinality(A \cup B) = Cardinality(A) + Cardinality(B) - Cardinality(A \cap B)
  BY FS_Union
<1>2. Cardinality(A \cap B) = 0 /\ Cardinality(A) \in Nat /\ Cardinality(B) \in Nat
  BY FS_EmptySet, FS_CardinalityType
<1> QED BY <1>1, <1>2

LEMMA InitAccounted ==
  ASSUME InitInv
  PROVE  InitFramesAccounted
<1> SUFFICES ASSUME pc # "stopped"
             PROVE  /\ given \cup {1, 3} = mach.free \cup TestFrame \cup TableFrames \cup HeapBlock
                    /\ Cardinality(given) + 2 = Cardinality(mach.free) + Cardinality(TestFrame)
                          + Cardinality(TableFrames) + Cardinality(HeapBlock)
  BY DEF InitFramesAccounted
<1> DEFINE F == mach.free
           T == TestFrame
           B == TableFrames
           H == HeapBlock
<1>1. Live /\ Place /\ F \subseteq given /\ Good(mach, InitOwned, Root, InitEdited)
  BY LiveFacts
<1>2. B = ((given \cup {1, 3}) \ (T \cup H)) \ F
  BY TableFramesFacts DEF InitOwned
<1>3. T \subseteq given /\ H \subseteq given
  BY <1>1 DEF Live
<1>4. F \cap (T \cup H) = {}
  <2>1. F \subseteq InitOwned
    BY <1>1, GoodFacts
  <2> QED BY <2>1 DEF InitOwned
<1>5. T \cap H = {}
  BY <1>1 DEF Live, StageRoots, TestFrame, HeapBlock
<1>6. 1 \notin given /\ 3 \notin given /\ \E n \in Nat : given = kend .. (kend + n - 1) /\ kend \in Nat
  BY <1>1, PlaceFacts
<1>7. IsFiniteSet(given)
  <2>1. PICK n \in Nat : given = kend .. (kend + n - 1) /\ kend \in Nat
    BY <1>6
  <2>2. kend \in Int /\ kend + n - 1 \in Int
    BY <2>1
  <2> QED BY <2>1, <2>2, FS_Interval
<1> HIDE DEF F, T, B, H
<1>8. given \cup {1, 3} = ((F \cup T) \cup B) \cup H
  BY <1>1, <1>2, <1>3
<1>9. IsFiniteSet(given \cup {1}) /\ Cardinality(given \cup {1}) = Cardinality(given) + 1
  BY <1>6, <1>7, FS_AddElement
<1>10. /\ IsFiniteSet((given \cup {1}) \cup {3})
       /\ Cardinality((given \cup {1}) \cup {3}) = Cardinality(given) + 1 + 1
  <2>1. 3 \notin given \cup {1}
    BY <1>6
  <2> QED BY <1>9, <2>1, FS_AddElement
<1>11. (given \cup {1}) \cup {3} = given \cup {1, 3}
  OBVIOUS
<1>12. IsFiniteSet(given \cup {1, 3}) /\ Cardinality(given \cup {1, 3}) = Cardinality(given) + 2
  <2>1. Cardinality(given) \in Nat
    BY <1>7, FS_CardinalityType
  <2> QED BY <1>10, <1>11, <2>1
<1>13. /\ F \in SUBSET (given \cup {1, 3}) /\ T \in SUBSET (given \cup {1, 3})
       /\ B \in SUBSET (given \cup {1, 3}) /\ H \in SUBSET (given \cup {1, 3})
  BY <1>1, <1>2, <1>3 DEF F
<1>14. IsFiniteSet(F) /\ IsFiniteSet(T) /\ IsFiniteSet(B) /\ IsFiniteSet(H)
  BY <1>12, <1>13, FS_Subset
<1>15. F \cap T = {} /\ (F \cup T) \cap B = {} /\ ((F \cup T) \cup B) \cap H = {}
  BY <1>2, <1>4, <1>5
<1>16. IsFiniteSet(F \cup T) /\ Cardinality(F \cup T) = Cardinality(F) + Cardinality(T)
  BY <1>14, <1>15, DisjointSum
<1>17. /\ IsFiniteSet((F \cup T) \cup B)
       /\ Cardinality((F \cup T) \cup B) = Cardinality(F) + Cardinality(T) + Cardinality(B)
  BY <1>14, <1>15, <1>16, DisjointSum
<1>18. Cardinality(((F \cup T) \cup B) \cup H)
         = Cardinality(F) + Cardinality(T) + Cardinality(B) + Cardinality(H)
  BY <1>14, <1>15, <1>17, DisjointSum
<1> QED BY <1>8, <1>12, <1>18 DEF F, T, B, H

-------------------------------------------------------------------------------
(* The code, the stack, the console and the IDT keep their addresses while the
   tables are built, when they are switched and where init gives up. *)
THEOREM KernelStaysMapped == InitSpec => []KernelAlwaysMapped
BY InitInvariant, KernelMapped, PTL

(* No call of init makes the page of address 0 accessible. *)
THEOREM NullStaysUnmapped == InitSpec => []NullNeverMapped
BY InitInvariant, NullUnmapped, PTL

(* Every frame is free, the test's, a table or the heap's, and one of them only. *)
THEOREM InitLosesNoFrame == InitSpec => []InitFramesAccounted
BY InitInvariant, InitAccounted, PTL

(* A successful init leaves a heap whose pages lead to its frames, and every
   result leaves tables that can be edited. *)
THEOREM InitLeavesTables == InitSpec => []InitOutcome
BY InitInvariant, Outcome, PTL

(* init never meets a missing table or a translation from before an edit of the
   recursive entry. *)
THEOREM InitNeverUnreachable == InitSpec => []InitTablesReachable
<1>1. InitInv => InitTablesReachable
  BY DEF InitInv, Sound, InitTablesReachable
<1> QED BY <1>1, InitInvariant, PTL
===============================================================================
