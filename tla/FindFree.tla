------------------------------- MODULE FindFree -------------------------------
(***************************************************************************)
(* Table::find_free_entry_index_with (src/src/memory/paging/table.rs) as   *)
(* the loop it is, against the summary that PageTable uses.                *)
(***************************************************************************)
EXTENDS PageTable

(* One iteration: c entries are still missing, `index` is the first free
   entry met.  A used entry resets c and not index. *)
Iteration(t, count, s, i) ==
  CASE s.c = 0            -> s
    [] s.c # 0 /\ t[i].p  -> [s EXCEPT !.c = count]
    [] OTHER -> [c |-> s.c - 1, index |-> IF s.index = NoFrame THEN i ELSE s.index]

find_free_entry_index_with(t, count) ==
  LET iterate(s, i) == Iteration(t, count, s, i)
      end == FoldLeft(iterate, [c |-> count, index |-> NoFrame], [k \in 1 .. (E - 1) |-> k])
  IN IF end.c = 0 THEN end.index ELSE NoFrame

(* For every pattern of used entries and every count the loop returns what
   PageTable takes it to return. *)
ASSUME LoopIsFindFreeWith ==
  \A t \in [Idx -> {Empty, Entry(0)}], count \in 1 .. E :
    find_free_entry_index_with(t, count) = FindFreeWith(t, count)
==============================================================================
