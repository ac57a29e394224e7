---------------------------- MODULE AddressSpaces ----------------------------
(***************************************************************************)
(* What the page tables promise their users: every table is a set of       *)
(* translations.  `map` adds the one asked for and no other, `unmap` takes *)
(* away the one asked for, a page handed out by a search was free, and     *)
(* whatever fails changes no translation.                                  *)
(***************************************************************************)
EXTENDS Integers, Sequences

CONSTANTS
  Tables,     \* the tables there may be
  Page,       \* the virtual pages
  Frame,      \* the frames
  BlockSizes      \* the numbers of frames that a block may have

VARIABLES
  space,      \* the translations of every table, pairs of a page and a frame
  active,     \* the table the processor uses
  edited,     \* the table that calls change
  ret         \* the last call, its arguments and its result

vars == <<space, active, edited, ret>>

(* A call: its name, its arguments as numbers, and what it returned. *)
Ret(op, arg, res) == [op |-> op, arg |-> arg, res |-> res]

Mapped(t)    == {x[1] : x \in space[t]}
PageRun(p, n) == {[p EXCEPT ![4] = @ + k] : k \in 0 .. (n - 1)}

(* Between `with` and its end, `edited` is not `active`. *)
Outside == edited = active

Map(p, f) ==
  /\ ret' = Ret("map", Append(p, f), "Ok")
  /\ p \notin Mapped(edited)
  /\ space' = [space EXCEPT ![edited] = @ \cup {<<p, f>>}]
  /\ UNCHANGED <<active, edited>>

MapAlready(p, f) ==
  /\ ret' = Ret("map", Append(p, f), "AlreadyMapped")
  /\ p \in Mapped(edited)
  /\ UNCHANGED <<space, active, edited>>

Unmap(p) ==
  /\ ret' = Ret("unmap", p, "Ok")
  /\ \E f \in Frame : <<p, f>> \in space[edited]
                      /\ space' = [space EXCEPT ![edited] = @ \ {<<p, f>>}]
  /\ UNCHANGED <<active, edited>>

UnmapNoEntry(p) ==
  /\ ret' = Ret("unmap", p, "NoEntry")
  /\ p \notin Mapped(edited)
  /\ UNCHANGED <<space, active, edited>>

AutoMap(p, f, n) ==
  /\ ret' = Ret("auto_continuous_map", p \o <<f, n>>, "Ok")
  /\ Mapped(edited) \cap PageRun(p, n) = {}
  /\ space' = [space EXCEPT ![edited] =
        @ \cup {<<[p EXCEPT ![4] = @ + k], f + k>> : k \in 0 .. (n - 1)}]
  /\ UNCHANGED <<active, edited>>

NewTable(t, p) ==
  /\ ret' = Ret("new", <<t>>, "Ok")
  /\ Outside /\ t \notin DOMAIN space /\ p \notin Mapped(active)
  /\ space' = [u \in DOMAIN space \cup {t} |->
                 IF u = t THEN {}
                 ELSE IF u = active THEN space[u] \cup {<<p, t>>}
                 ELSE space[u]]
  /\ UNCHANGED <<active, edited>>

With(t, p) ==
  /\ ret' = Ret("with", <<t>>, "Ok")
  /\ Outside /\ t \in DOMAIN space \ {active} /\ p \notin Mapped(active)
  /\ space' = [space EXCEPT ![active] = @ \cup {<<p, active>>}]
  /\ edited' = t
  /\ UNCHANGED active

EndWith ==
  /\ ret' = Ret("end", << >>, "Ok")
  /\ ~Outside
  /\ edited' = active
  /\ UNCHANGED <<space, active>>

Switch(t) ==
  /\ ret' = Ret("switch", <<active>>, "Ok")
  /\ Outside /\ t \in DOMAIN space
  /\ active' = t /\ edited' = t
  /\ UNCHANGED space

(* No memory for a table, no place for a page: nothing changes. *)
Fails(op) ==
  /\ ret' = Ret(op, << >>, "None")
  /\ UNCHANGED <<space, active, edited>>

(* The kernel stops: what was translated before still is. *)
Crash ==
  /\ ret' = Ret("crash", << >>, "None")
  /\ \A t \in DOMAIN space : space[t] \subseteq space'[t]
  /\ UNCHANGED <<active, edited>>

Init ==
  /\ space \in [{active} -> SUBSET (Seq(Int) \X Frame)]
  /\ edited = active
  /\ ret = Ret("init", << >>, "Ok")

(* The call's name says which of these a step may be. *)
Next ==
  \/ ret'.op = "map" /\ \E p \in Page, f \in Frame : Map(p, f) \/ MapAlready(p, f)
  \/ ret'.op = "unmap" /\ \E p \in Page : Unmap(p) \/ UnmapNoEntry(p)
  \/ ret'.op = "auto_continuous_map"
     /\ \E p \in Page, f \in Frame, n \in BlockSizes : AutoMap(p, f, n)
  \/ ret'.op = "new" /\ \E t \in Tables, p \in Page : NewTable(t, p)
  \/ ret'.op = "with" /\ \E t \in Tables, p \in Page : With(t, p)
  \/ EndWith
  \/ \E t \in Tables : Switch(t)
  \/ Crash
  \/ \E op \in {"map", "auto_continuous_map", "new", "with"} : Fails(op)

Spec == Init /\ [][Next]_vars
==============================================================================
