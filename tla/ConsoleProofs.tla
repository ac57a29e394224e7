---------------------------- MODULE ConsoleProofs ----------------------------
(***************************************************************************)
(* The console under exceptions, for every depth of nesting, every number  *)
(* of exceptions and every length of a message.                            *)
(*                                                                         *)
(* The properties are about the innermost context; an interrupt moves      *)
(* them one level down and its return up again, so the invariant speaks of *)
(* every level: `Boot` of the boot program, which is the lowest, `Lock` of *)
(* who writes, `Frames` of the stack pointer each context was entered      *)
(* with, and `Quiet` of what is possible before the first exception.       *)
(* `Ports`, which rests on these, is about the timer's handlers: who holds *)
(* the command port, and that all but the innermost one are past their end *)
(* of interrupt.                                                           *)
(***************************************************************************)
EXTENDS Console, SequenceTheorems, TLAPS

Codes    == {"main", "panic", "default", "default_with_error_code", "timer"}
Contexts ==
  [code : Codes, pc : Nat, at : {"start", "init", "lock", "write"}, n : 0 .. Chars,
   rsp : Nat, flag : BOOLEAN, fault : Faults \cup {NoVector}]

(* A context is at an operation of its code, and inside a print only where
   that is a print. *)
Placed(c) ==
  /\ c.pc \in 1 .. Len(Program(c.code))
  /\ c.at # "start" => Program(c.code)[c.pc] = "print"

Shape ==
  /\ stack \in Seq(Contexts) /\ Depth >= 1 /\ Depth <= MaxDepth
  /\ \A k \in 1 .. Depth : /\ Placed(stack[k])
                           /\ stack[k].code \in {"main", "panic"} <=> k = 1
  /\ IF_flag \in BOOLEAN /\ exceptions \in 0 .. MaxExceptions

InMain(pc) == stack[1].code = "main" /\ stack[1].pc > pc

Boot ==
  /\ idt <=> InMain(9)
  /\ ~InMain(9) => Depth = 1
  /\ once \in {"none", "running", "done"}
  /\ once = "none" => stack[1].code = "main" /\ stack[1].pc = 1 /\ stack[1].at = "start"
  /\ once = "running" => stack[1].code = "main" /\ stack[1].pc = 1 /\ stack[1].at = "init"
  /\ once = "done" => \A k \in 1 .. Depth : stack[k].at # "init"
  /\ IF_flag => InMain(13)
  /\ \A k \in 1 .. Depth : stack[k].flag => InMain(13)

Lock ==
  /\ holder \in 0 .. Depth
  /\ \A k \in 1 .. Depth : stack[k].at = "write" <=> holder = k
  /\ line \in Seq(Nat)
  /\ \A i \in 1 .. Len(line) : line[i] = holder
  /\ holder = NoOne => line = << >>

Frames ==
  /\ rsp = stack[Depth].rsp
  /\ \A k \in 1 .. (Depth - 1) : stack[k + 1].rsp = stack[k].rsp + Popped(stack[k + 1].code)

Quiet ==
  exceptions = 0 =>
    /\ \A k \in 1 .. Depth : stack[k].fault = NoVector
    /\ \/ \A k \in 2 .. Depth : stack[k].code = "timer"
       \/ Depth = 2 /\ stack[2].code = "default" /\ stack[1].at = "start" /\ ~IF_flag

IInv == Shape /\ Boot /\ Lock /\ Frames /\ Quiet

IsTimer(c) == c.code = "timer"
HasPort(c) == IsTimer(c) /\ c.pc \in {3, 4}

Ports ==
  /\ port \in 0 .. Depth
  /\ \A k \in 1 .. Depth : HasPort(stack[k]) <=> port = k
  /\ \A j, k \in 1 .. Depth : j < k /\ IsTimer(stack[j]) /\ IsTimer(stack[k]) => stack[j].pc >= 4

-------------------------------------------------------------------------------
(* The programs: the operations that do not go on are the last ones, and the
   operations of interrupt::init and its checks are at their places in main. *)
LEMMA Ops ==
  ASSUME NEW code \in Codes, NEW k \in 1 .. Len(Program(code))
  PROVE  LET op == Program(code)[k] IN
         /\ op \notin {"hlt", "loop", "iret"} => k + 1 \in 1 .. Len(Program(code))
         /\ op = "check" => code = "main" /\ k \in {2, 5, 7}
         /\ op = "lidt" => code = "main" /\ k = 9
         /\ op = "int"  => code = "main" /\ k = 10
         /\ op = "sti"  => code = "main" /\ k = 13
         /\ op = "iret" => code \notin {"main", "panic"}
         /\ op = "print" => code # "timer"
         /\ op = "switch_context" => code = "timer" /\ k = 1
         /\ op = "lock_port" => code = "timer" /\ k = 2
         /\ op = "eoi" => code = "timer" /\ k = 3
         /\ op = "unlock_port" => code = "timer" /\ k = 4
         /\ op = "iret" /\ code = "timer" => k = 5
         /\ code = "main" /\ k = 1 => op = "print"
         /\ code = "main" /\ k = 9 => op = "lidt"
<1>1. CASE code = "main"
  BY <1>1 DEF Program, Main
<1>2. CASE code = "panic"
  BY <1>2 DEF Program, panic_impl
<1>3. CASE code = "default"
  BY <1>3 DEF Program, default_handler
<1>4. CASE code = "default_with_error_code"
  BY <1>4 DEF Program, default_handler_with_error_code
<1>5. CASE code = "timer"
  BY <1>5 DEF Program, timer_handler
<1> QED BY <1>1, <1>2, <1>3, <1>4, <1>5 DEF Codes

(* Every program begins with an operation. *)
LEMMA Begins == \A code \in Codes : 1 \in 1 .. Len(Program(code))
<1> SUFFICES ASSUME NEW code \in Codes PROVE 1 \in 1 .. Len(Program(code))
  OBVIOUS
<1>1. CASE code = "main"
  BY <1>1 DEF Program, Main
<1>2. CASE code = "panic"
  BY <1>2 DEF Program, panic_impl
<1>3. CASE code = "default"
  BY <1>3 DEF Program, default_handler
<1>4. CASE code = "default_with_error_code"
  BY <1>4 DEF Program, default_handler_with_error_code
<1>5. CASE code = "timer"
  BY <1>5 DEF Program, timer_handler
<1> QED BY <1>1, <1>2, <1>3, <1>4, <1>5 DEF Codes

(* The contexts that the steps make of a context. *)
LEMMA Changed ==
  ASSUME NEW c \in Contexts
  PROVE  /\ \A a \in {"start", "init", "lock", "write"} :
              LET d == [c EXCEPT !.at = a] IN
              /\ d \in Contexts /\ d.code = c.code /\ d.pc = c.pc /\ d.at = a
              /\ d.rsp = c.rsp /\ d.flag = c.flag /\ d.fault = c.fault
         /\ c.n < Chars =>
              LET d == [c EXCEPT !.n = @ + 1] IN
              /\ d \in Contexts /\ d.code = c.code /\ d.pc = c.pc /\ d.at = c.at
              /\ d.rsp = c.rsp /\ d.flag = c.flag /\ d.fault = c.fault
         /\ LET d == Past(c) IN
              /\ d \in Contexts /\ d.code = c.code /\ d.pc = c.pc + 1 /\ d.at = "start"
              /\ d.rsp = c.rsp /\ d.flag = c.flag /\ d.fault = c.fault
<1>1. Chars \in Nat
  BY BoundsAssumption
<1>2. ASSUME NEW a \in {"start", "init", "lock", "write"}
      PROVE  LET d == [c EXCEPT !.at = a] IN
              /\ d \in Contexts /\ d.code = c.code /\ d.pc = c.pc /\ d.at = a
              /\ d.rsp = c.rsp /\ d.flag = c.flag /\ d.fault = c.fault
  BY DEF Contexts
<1>3. ASSUME c.n < Chars
      PROVE  LET d == [c EXCEPT !.n = @ + 1] IN
              /\ d \in Contexts /\ d.code = c.code /\ d.pc = c.pc /\ d.at = c.at
              /\ d.rsp = c.rsp /\ d.flag = c.flag /\ d.fault = c.fault
  BY <1>1, <1>3 DEF Contexts
<1>4. LET d == Past(c) IN
              /\ d \in Contexts /\ d.code = c.code /\ d.pc = c.pc + 1 /\ d.at = "start"
              /\ d.rsp = c.rsp /\ d.flag = c.flag /\ d.fault = c.fault
  <2>1. Past(c) = [c EXCEPT !.pc = c.pc + 1, !.at = "start", !.n = 0]
    BY DEF Past
  <2>2. c.pc + 1 \in Nat /\ 0 \in 0 .. Chars
    BY <1>1 DEF Contexts
  <2>3. Past(c) \in Contexts
    BY <2>1, <2>2 DEF Contexts
  <2>4. /\ Past(c).code = c.code /\ Past(c).pc = c.pc + 1 /\ Past(c).at = "start"
        /\ Past(c).rsp = c.rsp /\ Past(c).flag = c.flag /\ Past(c).fault = c.fault
    BY <2>1 DEF Contexts
  <2> QED BY <2>3, <2>4
<1> QED BY <1>2, <1>3, <1>4

(* A context that begins. *)
LEMMA Fresh ==
  ASSUME NEW code \in Codes, NEW base \in Nat, NEW flag \in BOOLEAN
  PROVE  LET d == Context(code, base, flag) IN
         /\ d \in Contexts /\ d.code = code /\ d.pc = 1 /\ d.at = "start"
         /\ d.rsp = base /\ d.flag = flag /\ d.fault = NoVector
         /\ Placed(d)
<1> DEFINE d == Context(code, base, flag)
<1>1. Chars \in Nat
  BY BoundsAssumption
<1>2. /\ d \in Contexts /\ d.code = code /\ d.pc = 1 /\ d.at = "start"
      /\ d.rsp = base /\ d.flag = flag /\ d.fault = NoVector
  BY <1>1 DEF Contexts, Context
<1>3. Placed(d)
  BY <1>2, Begins DEF Placed
<1> QED BY <1>2, <1>3

(* The handlers pop what the processor pushed. *)
LEMMA HandlerFrame ==
  /\ \A v : Handler(v) \in Codes \ {"main", "panic"}
  /\ \A v \in Faults \cup Traps : Popped(Handler(v)) = Pushed(v)
  /\ Handler(TIMER_VECTOR) = "timer" /\ Popped(Handler(TIMER_VECTOR)) = 5
  /\ Handler(TEST_VECTOR) = "default" /\ Popped(Handler(TEST_VECTOR)) = 5
<1>1. \A v : Handler(v) \in Codes \ {"main", "panic"}
  BY DEF Handler, Codes
<1>2. ASSUME NEW v \in Faults \cup Traps PROVE Popped(Handler(v)) = Pushed(v)
  <2>1. v \in 0 .. 31
    BY VectorsAssumption
  <2> QED BY <2>1 DEF Handler, Popped, Pushed, TIMER_VECTOR
<1>3. Handler(TIMER_VECTOR) = "timer" /\ Handler(TEST_VECTOR) = "default"
  BY DEF Handler, TIMER_VECTOR, TEST_VECTOR
<1> QED BY <1>1, <1>2, <1>3 DEF Popped

(* A sequence without its last element. *)
LEMMA FrontProperties ==
  ASSUME NEW S, NEW s \in Seq(S), Len(s) > 0
  PROVE  /\ Front(s) \in Seq(S) /\ Len(Front(s)) = Len(s) - 1
         /\ \A j \in 1 .. (Len(s) - 1) : Front(s)[j] = s[j]
<1> DEFINE n == Len(s) - 1
<1>1. n \in Nat /\ \A j \in 1 .. n : s[j] \in S
  OBVIOUS
<1>2. Front(s) = SubSeq(s, 1, n)
  BY DEF Front
<1> HIDE DEF n
<1>3. /\ SubSeq(s, 1, n) \in Seq(S)
      /\ Len(SubSeq(s, 1, n)) = IF 1 <= n THEN n - 1 + 1 ELSE 0
      /\ \A j \in 1 .. (n - 1 + 1) : SubSeq(s, 1, n)[j] = s[1 + j - 1]
  BY <1>1, SubSeqProperties
<1>4. Front(s) \in Seq(S) /\ Len(Front(s)) = n
  BY <1>1, <1>2, <1>3
<1>5. ASSUME NEW j \in 1 .. n PROVE Front(s)[j] = s[j]
  <2>1. j \in 1 .. (n - 1 + 1) /\ 1 + j - 1 = j
    BY <1>1
  <2> QED BY <1>2, <1>3, <2>1
<1> QED BY <1>4, <1>5 DEF n

(* The innermost context. *)
LEMMA TopFacts ==
  ASSUME IInv
  PROVE  /\ stack \in Seq(Contexts) /\ Depth \in Nat /\ Depth >= 1 /\ Depth <= MaxDepth
         /\ Depth = Len(stack) /\ Top = stack[Depth] /\ Top \in Contexts /\ Placed(Top)
         /\ Top.code \in Codes /\ MaxDepth \in Nat
         /\ Top.code \in {"main", "panic"} <=> Depth = 1
<1>1. stack \in Seq(Contexts) /\ Depth \in Nat /\ Depth >= 1 /\ Depth <= MaxDepth
  BY DEF IInv, Shape, Depth
<1>2. Depth = Len(stack) /\ Top = stack[Depth]
  BY DEF Depth, Top, Last
<1>3. Top \in Contexts
  BY <1>1, <1>2
<1>4. Placed(Top) /\ (Top.code \in {"main", "panic"} <=> Depth = 1)
  <2>1. Depth \in 1 .. Depth
    BY <1>1
  <2> QED BY <1>2, <2>1 DEF IInv, Shape
<1>5. Top.code \in Codes
  BY <1>3 DEF Contexts
<1> QED BY <1>1, <1>2, <1>3, <1>4, <1>5, BoundsAssumption

-------------------------------------------------------------------------------
(* Steps of the innermost context that change only itself. *)

LEMMA Replaced ==
  ASSUME IInv, NEW c \in Contexts, stack' = Become(c)
  PROVE  /\ stack' \in Seq(Contexts) /\ Depth' = Depth /\ stack'[Depth] = c
         /\ \A k \in 1 .. Depth : k # Depth => stack'[k] = stack[k]
<1>1. stack \in Seq(Contexts) /\ Depth \in 1 .. Len(stack) /\ Depth = Len(stack)
  BY TopFacts
<1>2. stack' = [stack EXCEPT ![Depth] = c]
  BY DEF Become
<1> QED BY <1>1, <1>2, ExceptSeq DEF Depth

(* The stack pointers, and what is possible before an exception, stay as
   they were; only the boot program becomes another, the panic. *)
LEMMA Stays ==
  ASSUME IInv, NEW c \in Contexts, stack' = Become(c), Placed(c),
         rsp' = rsp, c.rsp = Top.rsp,
         c.code = Top.code \/ (Depth = 1 /\ c.code = "panic"),
         exceptions' \in 0 .. MaxExceptions,
         exceptions' = 0 => exceptions = 0 /\ c.fault = Top.fault,
         IF_flag' \in BOOLEAN, IF_flag' => (IF_flag \/ Depth = 1)
  PROVE  Shape' /\ Frames' /\ Quiet'
<1>1. /\ stack' \in Seq(Contexts) /\ Depth' = Depth /\ stack'[Depth] = c
      /\ \A k \in 1 .. Depth : k # Depth => stack'[k] = stack[k]
  BY Replaced
<1>2. Depth \in Nat /\ Depth >= 1 /\ Depth <= MaxDepth /\ MaxDepth \in Nat
  BY TopFacts
<1>3. Top = stack[Depth] /\ (Top.code \in {"main", "panic"} <=> Depth = 1)
  BY TopFacts
<1>4. c.code \in {"main", "panic"} <=> Depth = 1
  BY <1>3
<1>5. \A k \in 1 .. Depth : /\ Placed(stack'[k])
                            /\ stack'[k].code \in {"main", "panic"} <=> k = 1
  <2> SUFFICES ASSUME NEW k \in 1 .. Depth
               PROVE  /\ Placed(stack'[k])
                      /\ stack'[k].code \in {"main", "panic"} <=> k = 1
    OBVIOUS
  <2>1. CASE k = Depth
    BY <1>1, <1>4, <2>1
  <2>2. CASE k # Depth
    BY <1>1, <2>2 DEF IInv, Shape
  <2> QED BY <2>1, <2>2
<1>6. Shape'
  <2>1. (\A k \in 1 .. Depth : /\ Placed(stack[k])
                               /\ stack[k].code \in {"main", "panic"} <=> k = 1)'
    BY <1>1, <1>5 DEF Placed
  <2>2. (Depth >= 1 /\ Depth <= MaxDepth)'
    BY <1>1, <1>2
  <2> QED BY <1>1, <2>1, <2>2 DEF Shape
<1>7. Frames'
  <2>1. rsp' = stack'[Depth].rsp
    BY <1>1, <1>3 DEF IInv, Frames
  <2>2. ASSUME NEW k \in 1 .. (Depth - 1)
        PROVE  stack'[k + 1].rsp = stack'[k].rsp + Popped(stack'[k + 1].code)
    <3>1. k \in 1 .. Depth /\ k # Depth /\ k + 1 \in 1 .. Depth
      BY <1>2
    <3>2. stack[k + 1].rsp = stack[k].rsp + Popped(stack[k + 1].code)
      BY DEF IInv, Frames
    <3>3. stack'[k] = stack[k]
      BY <1>1, <3>1
    <3>4. CASE k + 1 = Depth
      BY <1>1, <1>2, <1>3, <3>2, <3>3, <3>4
    <3>5. CASE k + 1 # Depth
      BY <1>1, <3>1, <3>2, <3>3, <3>5
    <3> QED BY <3>4, <3>5
  <2> QED BY <1>1, <2>1, <2>2 DEF Frames
<1>8. Quiet'
  <2> SUFFICES ASSUME exceptions' = 0
               PROVE  (/\ \A k \in 1 .. Depth : stack[k].fault = NoVector
                       /\ \/ \A k \in 2 .. Depth : stack[k].code = "timer"
                          \/ /\ Depth = 2 /\ stack[2].code = "default"
                             /\ stack[1].at = "start" /\ ~IF_flag)'
    BY DEF Quiet
  <2>1. /\ \A k \in 1 .. Depth : stack[k].fault = NoVector
        /\ \/ \A k \in 2 .. Depth : stack[k].code = "timer"
           \/ /\ Depth = 2 /\ stack[2].code = "default"
              /\ stack[1].at = "start" /\ ~IF_flag
    BY DEF IInv, Quiet
  <2>2. \A k \in 1 .. Depth : stack'[k].fault = NoVector
    BY <1>1, <1>2, <1>3, <2>1
  <2>3. CASE \A k \in 2 .. Depth : stack[k].code = "timer"
    <3>1. \A k \in 2 .. Depth : stack'[k].code = "timer"
      BY <1>1, <1>2, <1>3, <2>3
    <3> QED BY <1>1, <2>2, <3>1
  <2>4. CASE Depth = 2 /\ stack[2].code = "default" /\ stack[1].at = "start" /\ ~IF_flag
    <3>1. stack'[1] = stack[1] /\ stack'[2].code = "default" /\ ~IF_flag'
      BY <1>1, <1>3, <2>4
    <3> QED BY <1>1, <2>2, <2>4, <3>1
  <2> QED BY <2>1, <2>3, <2>4
<1> QED BY <1>6, <1>7, <1>8

(* A context above the boot program does not change how far boot is. *)
LEMMA BootAbove ==
  ASSUME IInv, Depth # 1, NEW c \in Contexts, stack' = Become(c),
         c.flag = Top.flag, c.at # "init", once' = once,
         idt' <=> idt, IF_flag' <=> IF_flag
  PROVE  Boot' /\ once = "done"
<1>1. /\ Depth' = Depth /\ stack'[Depth] = c
      /\ \A k \in 1 .. Depth : k # Depth => stack'[k] = stack[k]
  BY Replaced
<1>2. Depth \in Nat /\ Depth >= 1 /\ Top = stack[Depth]
  BY TopFacts
<1>3. stack'[1] = stack[1] /\ 1 \in 1 .. Depth
  BY <1>1, <1>2
<1>4. InMain(9) /\ (InMain(9) => InMain(9)') /\ (InMain(13) <=> InMain(13)')
  <2>1. InMain(9)
    BY DEF IInv, Boot
  <2> QED BY <1>3, <2>1 DEF InMain
<1>5. once = "done"
  BY <1>4 DEF IInv, Boot, InMain
<1>6. \A k \in 1 .. Depth : stack'[k].at # "init"
  BY <1>1, <1>5 DEF IInv, Boot
<1>7. \A k \in 1 .. Depth : stack'[k].flag => InMain(13)'
  <2>1. \A k \in 1 .. Depth : stack[k].flag => InMain(13)
    BY DEF IInv, Boot
  <2> QED BY <1>1, <1>2, <1>4, <2>1
<1>8. idt /\ (IF_flag => InMain(13))
  BY <1>4 DEF IInv, Boot
<1> QED BY <1>1, <1>4, <1>5, <1>6, <1>7, <1>8 DEF Boot

(* The boot program alone. *)
LEMMA BootAlone ==
  ASSUME IInv, Depth = 1, NEW c \in Contexts, stack' = Become(c),
         once' \in {"none", "running", "done"},
         idt' <=> (c.code = "main" /\ c.pc > 9),
         once' = "none" => c.code = "main" /\ c.pc = 1 /\ c.at = "start",
         once' = "running" => c.code = "main" /\ c.pc = 1 /\ c.at = "init",
         once' = "done" => c.at # "init",
         IF_flag' => c.code = "main" /\ c.pc > 13,
         c.flag => c.code = "main" /\ c.pc > 13
  PROVE  Boot'
<1>1. Depth' = 1 /\ stack'[1] = c
  BY Replaced
<1>2. /\ InMain(9)' <=> (c.code = "main" /\ c.pc > 9)
      /\ InMain(13)' <=> (c.code = "main" /\ c.pc > 13)
  BY <1>1 DEF InMain
<1>3. \A k \in 1 .. Depth' : stack'[k] = c
  BY <1>1
<1> QED BY <1>1, <1>2, <1>3 DEF Boot

(* The writer is another only when a context begins or ends to write. *)
LEMMA Writers ==
  ASSUME IInv, NEW c \in Contexts, stack' = Become(c),
         holder' \in {holder, NoOne, Depth}, holder # Depth => holder' \in {holder, Depth},
         holder' # holder => holder \in {NoOne, Depth},
         c.at = "write" <=> holder' = Depth
  PROVE  /\ (holder \in 0 .. Depth)'
         /\ (\A k \in 1 .. Depth : stack[k].at = "write" <=> holder = k)'
<1>1. /\ Depth' = Depth /\ stack'[Depth] = c
      /\ \A k \in 1 .. Depth : k # Depth => stack'[k] = stack[k]
  BY Replaced
<1>2. Depth \in Nat /\ Depth >= 1
  BY TopFacts
<1>3. /\ holder \in 0 .. Depth
      /\ \A k \in 1 .. Depth : stack[k].at = "write" <=> holder = k
  BY DEF IInv, Lock
<1>4. (holder \in 0 .. Depth)'
  BY <1>1, <1>2, <1>3 DEF NoOne
<1>5. ASSUME NEW k \in 1 .. Depth PROVE stack'[k].at = "write" <=> holder' = k
  <2>1. CASE k = Depth
    BY <1>1, <2>1
  <2>2. CASE k # Depth
    BY <1>1, <1>2, <1>3, <2>2 DEF NoOne
  <2> QED BY <2>1, <2>2
<1> QED BY <1>1, <1>4, <1>5

LEMMA LockStays ==
  ASSUME IInv, NEW c \in Contexts, stack' = Become(c),
         holder' = holder, line' = line, c.at = "write" <=> Top.at = "write"
  PROVE  Lock'
<1>1. Top.at = "write" <=> holder = Depth
  <2>1. Depth \in 1 .. Depth /\ Top = stack[Depth]
    BY TopFacts
  <2> QED BY <2>1 DEF IInv, Lock
<1>2. /\ (holder \in 0 .. Depth)'
      /\ (\A k \in 1 .. Depth : stack[k].at = "write" <=> holder = k)'
  BY <1>1, Writers
<1> QED BY <1>2 DEF IInv, Lock

(* The boot program between two steps. *)
LEMMA AloneFacts ==
  ASSUME IInv, Depth = 1
  PROVE  /\ stack[1] = Top /\ Top.code \in {"main", "panic"}
         /\ idt <=> (Top.code = "main" /\ Top.pc > 9)
         /\ once = "none" => Top.code = "main" /\ Top.pc = 1 /\ Top.at = "start"
         /\ once = "running" => Top.code = "main" /\ Top.pc = 1 /\ Top.at = "init"
         /\ once = "done" => Top.at # "init"
         /\ IF_flag => Top.code = "main" /\ Top.pc > 13
         /\ Top.flag => Top.code = "main" /\ Top.pc > 13
<1>1. stack[1] = Top /\ Top.code \in {"main", "panic"} /\ 1 \in 1 .. Depth
  BY TopFacts
<1> QED BY <1>1 DEF IInv, Boot, InMain

(* An operation that is not the last of its program is followed by one. *)
LEMMA PastFacts ==
  ASSUME IInv, Op \notin {"hlt", "loop", "iret"}
  PROVE  /\ Past(Top) \in Contexts /\ Placed(Past(Top))
         /\ Past(Top).code = Top.code /\ Past(Top).pc = Top.pc + 1
         /\ Past(Top).at = "start" /\ Past(Top).rsp = Top.rsp
         /\ Past(Top).flag = Top.flag /\ Past(Top).fault = Top.fault
<1>1. Top \in Contexts /\ Top.code \in Codes /\ Top.pc \in 1 .. Len(Program(Top.code))
  BY TopFacts DEF Placed
<1>2. /\ Past(Top) \in Contexts
      /\ Past(Top).code = Top.code /\ Past(Top).pc = Top.pc + 1
      /\ Past(Top).at = "start" /\ Past(Top).rsp = Top.rsp
      /\ Past(Top).flag = Top.flag /\ Past(Top).fault = Top.fault
  BY <1>1, Changed, Zenon
<1>3. Top.pc + 1 \in 1 .. Len(Program(Top.code))
  BY <1>1, Ops DEF Op
<1> QED BY <1>2, <1>3 DEF Placed

(* A stage of a print. *)
LEMMA AtFacts ==
  ASSUME IInv, Op = "print", NEW a \in {"start", "init", "lock", "write"}
  PROVE  LET d == [Top EXCEPT !.at = a] IN
         /\ d \in Contexts /\ Placed(d) /\ d.code = Top.code /\ d.pc = Top.pc /\ d.at = a
         /\ d.rsp = Top.rsp /\ d.flag = Top.flag /\ d.fault = Top.fault
<1> DEFINE d == [Top EXCEPT !.at = a]
<1>1. Top \in Contexts /\ Placed(Top)
  BY TopFacts
<1>2. /\ d \in Contexts /\ d.code = Top.code /\ d.pc = Top.pc /\ d.at = a
      /\ d.rsp = Top.rsp /\ d.flag = Top.flag /\ d.fault = Top.fault
  <2>1. \A b \in {"start", "init", "lock", "write"} :
          LET e == [Top EXCEPT !.at = b] IN
          /\ e \in Contexts /\ e.code = Top.code /\ e.pc = Top.pc /\ e.at = b
          /\ e.rsp = Top.rsp /\ e.flag = Top.flag /\ e.fault = Top.fault
    BY <1>1, Changed, Zenon
  <2> QED BY <2>1, Zenon
<1>3. Placed(d)
  BY <1>1, <1>2 DEF Placed, Op
<1> QED BY <1>2, <1>3

(* What a step that leaves the processor alone leaves to the lemmas above. *)
LEMMA Calm ==
  ASSUME IInv, UNCHANGED processor
  PROVE  /\ idt' = idt /\ IF_flag' = IF_flag /\ IF_flag' \in BOOLEAN
         /\ exceptions' = exceptions /\ exceptions' \in 0 .. MaxExceptions
         /\ port' = port
  BY DEF IInv, Shape, processor

LEMMA UseContextIInv == ASSUME IInv, UseContext PROVE IInv'
<1> DEFINE a == IF once = "none" THEN "init" ELSE "lock"
           c == [Top EXCEPT !.at = a]
<1>1. /\ Op = "print" /\ Top.at = "start" /\ once # "running"
      /\ once' = IF once = "none" THEN "running" ELSE once
      /\ stack' = Become(c) /\ rsp' = rsp /\ holder' = holder /\ line' = line
      /\ UNCHANGED processor
  BY DEF UseContext, Runs
<1>2. once \in {"none", "running", "done"}
  BY DEF IInv, Boot
<1> HIDE DEF c
<1>3. /\ c \in Contexts /\ Placed(c) /\ c.code = Top.code /\ c.pc = Top.pc /\ c.at = a
      /\ c.rsp = Top.rsp /\ c.flag = Top.flag /\ c.fault = Top.fault
  BY <1>1, AtFacts DEF c
<1>4. Shape' /\ Frames' /\ Quiet'
  BY <1>1, <1>3, Calm, Stays
<1>5. Lock'
  BY <1>1, <1>3, LockStays
<1>6. Boot'
  <2>1. CASE Depth = 1
    BY <1>1, <1>2, <1>3, <2>1, Calm, AloneFacts, BootAlone
  <2>2. CASE Depth # 1
    <3>1. once = "done"
      BY <2>2 DEF IInv, Boot, InMain
    <3>2. once' = once /\ c.at # "init"
      BY <1>1, <1>3, <3>1
    <3> QED BY <1>1, <1>3, <2>2, <3>2, Calm, BootAbove
  <2> QED BY <2>1, <2>2
<1> QED BY <1>4, <1>5, <1>6 DEF IInv

LEMMA ObtainKernelConsoleIInv == ASSUME IInv, ObtainKernelConsole PROVE IInv'
<1> DEFINE c == [Top EXCEPT !.at = "lock"]
<1>1. /\ Op = "print" /\ Top.at = "init" /\ once' = "done"
      /\ stack' = Become(c) /\ rsp' = rsp /\ holder' = holder /\ line' = line
      /\ UNCHANGED processor
  BY DEF ObtainKernelConsole, Runs
<1> HIDE DEF c
<1>2. /\ c \in Contexts /\ Placed(c) /\ c.code = Top.code /\ c.pc = Top.pc /\ c.at = "lock"
      /\ c.rsp = Top.rsp /\ c.flag = Top.flag /\ c.fault = Top.fault
  BY <1>1, AtFacts DEF c
<1>3. Shape' /\ Frames' /\ Quiet'
  BY <1>1, <1>2, Calm, Stays
<1>4. Lock'
  BY <1>1, <1>2, LockStays
<1>5. Depth = 1
  <2>1. SUFFICES ASSUME Depth # 1 PROVE FALSE
    OBVIOUS
  <2>2. once = "done"
    BY <2>1 DEF IInv, Boot, InMain
  <2>3. Depth \in 1 .. Depth /\ Top = stack[Depth]
    BY TopFacts
  <2> QED BY <1>1, <2>2, <2>3 DEF IInv, Boot
<1>6. Boot'
  BY <1>1, <1>2, <1>5, Calm, AloneFacts, BootAlone
<1> QED BY <1>3, <1>4, <1>6 DEF IInv

(* Whoever waits for the lock or writes has a console. *)
LEMMA ConsoleMade ==
  ASSUME IInv, Top.at \in {"lock", "write"} PROVE once = "done"
<1>1. CASE Depth = 1
  BY <1>1, AloneFacts DEF IInv, Boot
<1>2. CASE Depth # 1
  BY <1>2 DEF IInv, Boot, InMain
<1> QED BY <1>1, <1>2

(* The operation of the innermost context, by its place. *)
LEMMA OpFacts ==
  ASSUME IInv
  PROVE  /\ Op = "check" => Top.code = "main" /\ Top.pc \in {2, 5, 7}
         /\ Op = "lidt" => Top.code = "main" /\ Top.pc = 9
         /\ Op = "int"  => Top.code = "main" /\ Top.pc = 10
         /\ Op = "sti"  => Top.code = "main" /\ Top.pc = 13
         /\ Op = "iret" => Top.code \notin {"main", "panic"}
         /\ Op = "print" => Top.code # "timer"
         /\ Op = "switch_context" => Top.code = "timer" /\ Top.pc = 1
         /\ Op = "lock_port" => Top.code = "timer" /\ Top.pc = 2
         /\ Op = "eoi" => Top.code = "timer" /\ Top.pc = 3
         /\ Op = "unlock_port" => Top.code = "timer" /\ Top.pc = 4
         /\ Op = "iret" /\ Top.code = "timer" => Top.pc = 5
         /\ Top.code = "main" /\ Top.pc = 1 => Op = "print"
         /\ Top.code = "main" /\ Top.pc = 9 => Op = "lidt"
         /\ Top.pc \in Nat
<1>1. Top.code \in Codes /\ Top.pc \in 1 .. Len(Program(Top.code)) /\ Top \in Contexts
  BY TopFacts DEF Placed
<1>2. Top.pc \in Nat
  BY <1>1 DEF Contexts
<1> QED BY <1>1, <1>2, Ops DEF Op

(* The end of an operation. *)
LEMMA BootPast ==
  ASSUME IInv, Op \notin {"hlt", "loop", "iret"}, stack' = Become(Past(Top)),
         Op = "print" => Top.at = "write", once' = once,
         idt' <=> (idt \/ Op = "lidt"), IF_flag' <=> (IF_flag \/ Op = "sti")
  PROVE  Boot'
<1> DEFINE c == Past(Top)
<1>1. /\ c \in Contexts /\ c.code = Top.code /\ c.pc = Top.pc + 1
      /\ c.at = "start" /\ c.flag = Top.flag
  BY PastFacts
<1>2. once \in {"none", "running", "done"}
  BY DEF IInv, Boot
<1> HIDE DEF c
<1>3. CASE Depth = 1
  <2>1. once = "done"
    <3>1. once \in {"none", "running"} => Top.code = "main" /\ Top.pc = 1 /\ Top.at # "write"
      BY <1>3, AloneFacts
    <3> QED BY <1>2, <3>1, OpFacts
  <2>2. idt' <=> (c.code = "main" /\ c.pc > 9)
    BY <1>1, <1>3, AloneFacts, OpFacts
  <2>3. IF_flag' => c.code = "main" /\ c.pc > 13
    BY <1>1, <1>3, AloneFacts, OpFacts
  <2>4. c.flag => c.code = "main" /\ c.pc > 13
    BY <1>1, <1>3, AloneFacts, OpFacts
  <2>5. stack' = Become(c)
    BY DEF c
  <2> QED BY <1>1, <1>3, <2>1, <2>2, <2>3, <2>4, <2>5, BootAlone
<1>4. CASE Depth # 1
  <2>1. Op \notin {"lidt", "sti"}
    BY <1>4, OpFacts, TopFacts
  <2>2. (idt' <=> idt) /\ (IF_flag' <=> IF_flag)
    BY <2>1
  <2>3. stack' = Become(c)
    BY DEF c
  <2> QED BY <1>1, <1>4, <2>2, <2>3, BootAbove
<1> QED BY <1>3, <1>4

LEMMA LockConsoleIInv == ASSUME IInv, LockConsole PROVE IInv'
<1> DEFINE c == [Top EXCEPT !.at = "write"]
<1>1. /\ Op = "print" /\ Top.at = "lock" /\ holder = NoOne /\ holder' = Depth
      /\ stack' = Become(c) /\ rsp' = rsp /\ once' = once /\ line' = line
      /\ UNCHANGED processor
  BY DEF LockConsole, Runs
<1> HIDE DEF c
<1>2. /\ c \in Contexts /\ Placed(c) /\ c.code = Top.code /\ c.pc = Top.pc /\ c.at = "write"
      /\ c.rsp = Top.rsp /\ c.flag = Top.flag /\ c.fault = Top.fault
  BY <1>1, AtFacts DEF c
<1>3. Shape' /\ Frames' /\ Quiet'
  BY <1>1, <1>2, Calm, Stays
<1>4. Lock'
  <2>1. /\ (holder \in 0 .. Depth)'
        /\ (\A k \in 1 .. Depth : stack[k].at = "write" <=> holder = k)'
    BY <1>1, <1>2, Writers
  <2>2. line' = << >> /\ line' \in Seq(Nat)
    BY <1>1 DEF IInv, Lock
  <2> QED BY <2>1, <2>2 DEF Lock
<1>5. Boot'
  <2>1. once' = "done"
    BY <1>1, ConsoleMade
  <2>2. CASE Depth = 1
    BY <1>1, <1>2, <2>1, <2>2, Calm, AloneFacts, BootAlone
  <2>3. CASE Depth # 1
    BY <1>1, <1>2, <2>3, Calm, BootAbove
  <2> QED BY <2>2, <2>3
<1> QED BY <1>3, <1>4, <1>5 DEF IInv

LEMMA WriteCharIInv == ASSUME IInv, WriteChar PROVE IInv'
<1> DEFINE c == [Top EXCEPT !.n = @ + 1]
<1>1. /\ Op = "print" /\ Top.at = "write" /\ Top.n < Chars /\ holder' = holder
      /\ stack' = Become(c) /\ rsp' = rsp /\ once' = once /\ line' = Append(line, Depth)
      /\ UNCHANGED processor
  BY DEF WriteChar, Runs
<1>2. Top \in Contexts /\ Placed(Top) /\ Depth \in Nat /\ Depth >= 1 /\ Top = stack[Depth]
  BY TopFacts
<1>3. /\ c \in Contexts /\ c.code = Top.code /\ c.pc = Top.pc /\ c.at = "write"
      /\ c.rsp = Top.rsp /\ c.flag = Top.flag /\ c.fault = Top.fault
  <2>1. /\ c \in Contexts /\ c.code = Top.code /\ c.pc = Top.pc /\ c.at = Top.at
        /\ c.rsp = Top.rsp /\ c.flag = Top.flag /\ c.fault = Top.fault
    BY <1>1, <1>2, Changed, Zenon
  <2> QED BY <1>1, <2>1
<1> HIDE DEF c
<1>4. Placed(c)
  BY <1>1, <1>2, <1>3 DEF Placed, Op
<1>5. Shape' /\ Frames' /\ Quiet'
  BY <1>1, <1>3, <1>4, Calm, Stays
<1>6. Lock'
  <2>1. holder = Depth
    <3>1. Depth \in 1 .. Depth
      BY <1>2
    <3> QED BY <1>1, <1>2, <3>1 DEF IInv, Lock
  <2>2. /\ (holder \in 0 .. Depth)'
        /\ (\A k \in 1 .. Depth : stack[k].at = "write" <=> holder = k)'
    BY <1>1, <1>3, <2>1, Writers
  <2>3. line \in Seq(Nat) /\ \A i \in 1 .. Len(line) : line[i] = Depth
    BY <2>1 DEF IInv, Lock
  <2>4. line' \in Seq(Nat) /\ \A i \in 1 .. Len(line') : line'[i] = Depth
    BY <1>1, <1>2, <2>3
  <2>5. holder' # NoOne
    BY <1>1, <1>2, <2>1 DEF NoOne
  <2> QED BY <1>1, <2>1, <2>2, <2>4, <2>5 DEF Lock
<1>7. Boot'
  <2>1. once' = "done"
    BY <1>1, ConsoleMade
  <2>2. CASE Depth = 1
    BY <1>1, <1>3, <2>1, <2>2, Calm, AloneFacts, BootAlone
  <2>3. CASE Depth # 1
    BY <1>1, <1>3, <2>3, Calm, BootAbove
  <2> QED BY <2>2, <2>3
<1> QED BY <1>5, <1>6, <1>7 DEF IInv

LEMMA EndPrintIInv == ASSUME IInv, EndPrint PROVE IInv'
<1> DEFINE c == Past(Top)
<1>1. /\ Op = "print" /\ Top.at = "write" /\ line' = << >> /\ holder' = NoOne
      /\ stack' = Become(c) /\ rsp' = rsp /\ once' = once
      /\ UNCHANGED processor
  BY DEF EndPrint, Runs
<1>2. /\ c \in Contexts /\ Placed(c) /\ c.code = Top.code /\ c.at = "start"
      /\ c.rsp = Top.rsp /\ c.fault = Top.fault
  BY <1>1, PastFacts
<1>3. Boot'
  BY <1>1, Calm, BootPast
<1> HIDE DEF c
<1>4. Shape' /\ Frames' /\ Quiet'
  BY <1>1, <1>2, Calm, Stays
<1>5. Lock'
  <2>1. Depth \in Nat /\ Depth >= 1 /\ Top = stack[Depth] /\ Depth \in 1 .. Depth
    BY TopFacts
  <2>2. holder = Depth
    BY <1>1, <2>1 DEF IInv, Lock
  <2>3. /\ (holder \in 0 .. Depth)'
        /\ (\A k \in 1 .. Depth : stack[k].at = "write" <=> holder = k)'
    BY <1>1, <1>2, <2>1, <2>2, Writers DEF NoOne
  <2> QED BY <1>1, <2>3 DEF Lock
<1> QED BY <1>3, <1>4, <1>5 DEF IInv

(* An operation, not a print, that ends in one step. *)
LEMMA OneStep ==
  ASSUME IInv,
         NEW op \in {"check", "lidt", "sti", "switch_context", "lock_port", "eoi", "unlock_port"},
         Runs(op, "start"), stack' = Become(Past(Top)), rsp' = rsp,
         UNCHANGED console, exceptions' = exceptions,
         idt' <=> (idt \/ Op = "lidt"), IF_flag' <=> (IF_flag \/ Op = "sti"),
         IF_flag' \in BOOLEAN
  PROVE  IInv'
<1> DEFINE c == Past(Top)
<1>1. /\ Op = op /\ Top.at = "start" /\ once' = once /\ holder' = holder /\ line' = line
      /\ stack' = Become(c) /\ exceptions' \in 0 .. MaxExceptions
  BY DEF Runs, console, IInv, Shape
<1>2. /\ c \in Contexts /\ Placed(c) /\ c.code = Top.code /\ c.at = "start"
      /\ c.rsp = Top.rsp /\ c.fault = Top.fault
  BY <1>1, PastFacts
<1>3. Boot'
  BY <1>1, BootPast
<1>4. Op = "sti" => Depth = 1
  BY OpFacts, TopFacts
<1> HIDE DEF c
<1>5. Shape' /\ Frames' /\ Quiet'
  BY <1>1, <1>2, <1>4, Stays
<1>6. Lock'
  BY <1>1, <1>2, LockStays
<1> QED BY <1>3, <1>5, <1>6 DEF IInv

LEMMA CheckIInv == ASSUME IInv, Check PROVE IInv'
<1>1. /\ Runs("check", "start") /\ Op = "check" /\ Top.at = "start" /\ rsp' = rsp
      /\ UNCHANGED console /\ UNCHANGED processor
  BY DEF Check, Runs
<1>2. CASE stack' = Become(Past(Top))
  BY <1>1, <1>2, Calm, OneStep
<1>3. CASE stack' = Become(Context("panic", Top.rsp, Top.flag))
  <2> DEFINE c == Context("panic", Top.rsp, Top.flag)
  <2>1. Top \in Contexts /\ Top.code = "main" /\ Top.pc \in {2, 5, 7} /\ Depth = 1
    BY <1>1, OpFacts, TopFacts
  <2>2. Top.rsp \in Nat /\ Top.flag \in BOOLEAN /\ Top.fault = NoVector
    BY <1>1, <2>1 DEF Contexts, Runs
  <2>3. /\ c \in Contexts /\ Placed(c) /\ c.code = "panic" /\ c.at = "start"
        /\ c.rsp = Top.rsp /\ c.flag = Top.flag /\ c.fault = Top.fault
    BY <2>2, Fresh DEF Codes
  <2>4. stack' = Become(c)
    BY <1>3
  <2> HIDE DEF c
  <2>5. once' = once /\ holder' = holder /\ line' = line
    BY <1>1 DEF console
  <2>6. Shape' /\ Frames' /\ Quiet'
    BY <1>1, <2>1, <2>3, <2>4, Calm, Stays
  <2>7. Lock'
    BY <1>1, <2>3, <2>4, <2>5, LockStays
  <2>8. ~idt /\ ~IF_flag /\ ~Top.flag /\ once = "done"
    BY <2>1, AloneFacts DEF IInv, Boot
  <2>9. Boot'
    BY <1>1, <2>1, <2>3, <2>4, <2>5, <2>8, Calm, BootAlone
  <2> QED BY <2>6, <2>7, <2>9 DEF IInv
<1> QED BY <1>2, <1>3 DEF Check

LEMMA LidtIInv == ASSUME IInv, Lidt PROVE IInv'
<1>1. IF_flag \in BOOLEAN
  BY DEF IInv, Shape
<1>2. Op = "lidt"
  BY DEF Lidt, Runs
<1> QED BY <1>1, <1>2, OneStep DEF Lidt

LEMMA StiIInv == ASSUME IInv, Sti PROVE IInv'
<1>1. Op = "sti"
  BY DEF Sti, Runs
<1> QED BY <1>1, OneStep DEF Sti

LEMMA TimerWorkIInv == ASSUME IInv, TimerWork PROVE IInv'
<1>1. CASE Runs("switch_context", "start")
  <2>1. Op = "switch_context"
    BY <1>1 DEF Runs
  <2> QED BY <1>1, <2>1, Calm, OneStep DEF TimerWork
<1>2. CASE Runs("eoi", "start")
  <2>1. Op = "eoi"
    BY <1>2 DEF Runs
  <2> QED BY <1>2, <2>1, Calm, OneStep DEF TimerWork
<1> QED BY <1>1, <1>2 DEF TimerWork

LEMMA LockPortIInv == ASSUME IInv, LockPort PROVE IInv'
<1>1. Op = "lock_port" /\ IF_flag \in BOOLEAN
  BY DEF LockPort, Runs, IInv, Shape
<1> QED BY <1>1, OneStep DEF LockPort

LEMMA UnlockPortIInv == ASSUME IInv, UnlockPort PROVE IInv'
<1>1. Op = "unlock_port" /\ IF_flag \in BOOLEAN
  BY DEF UnlockPort, Runs, IInv, Shape
<1> QED BY <1>1, OneStep DEF UnlockPort

(* A fault changes nothing yet but that there is one. *)
LEMMA BeginFaultIInv == ASSUME IInv, NEW v \in Faults, BeginFault(v) PROVE IInv'
<1> DEFINE c == [Top EXCEPT !.fault = v]
<1>1. /\ exceptions < MaxExceptions /\ exceptions' = exceptions + 1
      /\ stack' = Become(c) /\ rsp' = rsp /\ idt' = idt /\ IF_flag' = IF_flag
      /\ once' = once /\ holder' = holder /\ line' = line /\ idt
  BY DEF BeginFault, console, Interruptible
<1>2. Top \in Contexts /\ Placed(Top) /\ Depth \in Nat /\ Depth >= 1 /\ Top = stack[Depth]
  BY TopFacts
<1>3. /\ c \in Contexts /\ c.code = Top.code /\ c.pc = Top.pc /\ c.at = Top.at
      /\ c.rsp = Top.rsp /\ c.flag = Top.flag
  BY <1>2 DEF Contexts
<1> HIDE DEF c
<1>4. Placed(c)
  BY <1>2, <1>3 DEF Placed
<1>5. exceptions' \in 0 .. MaxExceptions /\ exceptions' # 0 /\ IF_flag' \in BOOLEAN
  BY <1>1, BoundsAssumption DEF IInv, Shape
<1>6. Shape' /\ Frames' /\ Quiet'
  BY <1>1, <1>3, <1>4, <1>5, Stays
<1>7. Lock'
  BY <1>1, <1>3, LockStays
<1>8. once = "done"
  BY <1>1 DEF IInv, Boot, InMain
<1>9. Boot'
  <2>1. CASE Depth = 1
    BY <1>1, <1>3, <1>8, <2>1, AloneFacts, BootAlone
  <2>2. CASE Depth # 1
    <3>1. Depth \in 1 .. Depth
      BY <1>2
    <3>2. Top.at # "init"
      BY <1>2, <1>8, <3>1 DEF IInv, Boot
    <3> QED BY <1>1, <1>3, <2>2, <3>2, BootAbove
  <2> QED BY <2>1, <2>2
<1> QED BY <1>6, <1>7, <1>9 DEF IInv

-------------------------------------------------------------------------------
(* Interrupts: a context more. *)

(* What an interrupt leaves of the contexts below: all, but that the int
   instruction is over. *)
Alike(below) ==
  /\ below \in Seq(Contexts) /\ Len(below) = Depth
  /\ \A k \in 1 .. Depth :
       /\ Placed(below[k]) /\ below[k].code = stack[k].code /\ below[k].at = stack[k].at
       /\ below[k].rsp = stack[k].rsp /\ below[k].flag = stack[k].flag
       /\ below[k].fault = stack[k].fault
  /\ below[1].pc > 9 <=> stack[1].pc > 9
  /\ below[1].pc > 13 <=> stack[1].pc > 13

LEMMA EnterIInv ==
  ASSUME IInv, idt, Depth < MaxDepth, NEW below, NEW v, NEW words,
         Alike(below), words = Popped(Handler(v)), Enter(below, v, words),
         UNCHANGED console, idt' = idt, exceptions' \in 0 .. MaxExceptions,
         exceptions' = 0 => /\ exceptions = 0
                            /\ \/ Handler(v) = "timer" /\ IF_flag
                               \/ /\ Handler(v) = "default" /\ Depth = 1
                                  /\ stack[1].at = "start" /\ ~IF_flag
  PROVE  IInv'
<1> DEFINE c == Context(Handler(v), rsp + words, IF_flag)
<1>1. Depth \in Nat /\ Depth >= 1 /\ MaxDepth \in Nat /\ rsp \in Nat /\ IF_flag \in BOOLEAN
  <2>1. Top \in Contexts /\ rsp = Top.rsp
    BY TopFacts DEF IInv, Frames
  <2> QED BY <2>1, TopFacts DEF Contexts, IInv, Shape
<1>2. words \in Nat /\ Handler(v) \in Codes /\ Handler(v) \notin {"main", "panic"}
  BY HandlerFrame DEF Popped
<1>3. /\ c \in Contexts /\ c.code = Handler(v) /\ c.at = "start" /\ c.rsp = rsp + words
      /\ c.flag = IF_flag /\ c.fault = NoVector /\ Placed(c)
  BY <1>1, <1>2, Fresh
<1>4. /\ stack' = Append(below, c) /\ rsp' = rsp + words
      /\ IF_flag' \in BOOLEAN /\ (IF_flag' => IF_flag)
  BY <1>1 DEF Enter
<1> HIDE DEF c
<1>5. below \in Seq(Contexts) /\ Len(below) = Depth
  BY DEF Alike
<1>6. /\ stack' \in Seq(Contexts) /\ Len(stack') = Depth + 1 /\ stack'[Depth + 1] = c
      /\ \A k \in 1 .. Depth : stack'[k] = below[k]
  BY <1>3, <1>4, <1>5, AppendProperties
<1>7. /\ Depth' = Depth + 1
      /\ \A k \in 1 .. Depth :
           /\ Placed(stack'[k]) /\ stack'[k].code = stack[k].code /\ stack'[k].at = stack[k].at
           /\ stack'[k].rsp = stack[k].rsp /\ stack'[k].flag = stack[k].flag
           /\ stack'[k].fault = stack[k].fault
  BY <1>6 DEF Alike, Depth
<1>8. \A k \in 1 .. (Depth + 1) : k \in 1 .. Depth \/ k = Depth + 1
  BY <1>1
<1>9. Shape'
  <2>1. \A k \in 1 .. (Depth + 1) : /\ Placed(stack'[k])
                                    /\ stack'[k].code \in {"main", "panic"} <=> k = 1
    <3>1. \A k \in 1 .. Depth : stack[k].code \in {"main", "panic"} <=> k = 1
      BY DEF IInv, Shape
    <3>2. Depth + 1 # 1
      BY <1>1
    <3> QED BY <1>2, <1>3, <1>6, <1>7, <1>8, <3>1, <3>2
  <2>2. (\A k \in 1 .. Depth : /\ Placed(stack[k])
                               /\ stack[k].code \in {"main", "panic"} <=> k = 1)'
    BY <1>7, <2>1 DEF Placed
  <2>3. (Depth >= 1 /\ Depth <= MaxDepth)'
    BY <1>1, <1>7
  <2> QED BY <1>4, <1>6, <2>2, <2>3 DEF Shape
<1>10. Boot'
  <2>1. InMain(9) /\ once = "done"
    BY DEF IInv, Boot, InMain
  <2>2. InMain(9)' /\ (InMain(13) => InMain(13)')
    <3>1. 1 \in 1 .. Depth
      BY <1>1
    <3>2. stack'[1] = below[1] /\ stack'[1].code = stack[1].code
      BY <1>6, <1>7, <3>1
    <3>3. /\ below[1].pc > 9 <=> stack[1].pc > 9
          /\ below[1].pc > 13 <=> stack[1].pc > 13
      BY DEF Alike
    <3> QED BY <2>1, <3>2, <3>3 DEF InMain
  <2>3. \A k \in 1 .. Depth : stack[k].at # "init" /\ (stack[k].flag => InMain(13))
    BY <2>1 DEF IInv, Boot
  <2>4. IF_flag => InMain(13)
    BY DEF IInv, Boot
  <2>5. \A k \in 1 .. (Depth + 1) : stack'[k].at # "init" /\ (stack'[k].flag => InMain(13)')
    BY <1>3, <1>6, <1>7, <1>8, <2>2, <2>3, <2>4
  <2>6. once' = "done"
    BY <2>1 DEF console
  <2> QED BY <1>4, <1>7, <2>2, <2>4, <2>5, <2>6 DEF Boot
<1>11. Lock'
  <2>1. holder' = holder /\ line' = line
    BY DEF console
  <2>2. /\ holder \in 0 .. Depth
        /\ \A k \in 1 .. Depth : stack[k].at = "write" <=> holder = k
    BY DEF IInv, Lock
  <2>3. \A k \in 1 .. (Depth + 1) : stack'[k].at = "write" <=> holder = k
    BY <1>1, <1>3, <1>6, <1>7, <1>8, <2>2
  <2>4. holder \in 0 .. (Depth + 1)
    BY <1>1, <2>2
  <2> QED BY <1>7, <2>1, <2>3, <2>4 DEF IInv, Lock
<1>12. Frames'
  <2>1. rsp' = stack'[Depth + 1].rsp
    BY <1>3, <1>4, <1>6
  <2>2. ASSUME NEW k \in 1 .. Depth
        PROVE  stack'[k + 1].rsp = stack'[k].rsp + Popped(stack'[k + 1].code)
    <3>1. CASE k = Depth
      BY <1>3, <1>6, <1>7, <3>1 DEF IInv, Frames
    <3>2. CASE k # Depth
      <4>1. k \in 1 .. (Depth - 1) /\ k + 1 \in 1 .. Depth
        BY <1>1, <3>2
      <4>2. stack[k + 1].rsp = stack[k].rsp + Popped(stack[k + 1].code)
        BY <4>1 DEF IInv, Frames
      <4> QED BY <1>7, <4>1, <4>2
    <3> QED BY <3>1, <3>2
  <2>3. (Depth - 1)' = Depth
    BY <1>1, <1>7
  <2> QED BY <1>7, <2>1, <2>2, <2>3 DEF Frames
<1>13. Quiet'
  <2> SUFFICES ASSUME exceptions' = 0
               PROVE  (/\ \A k \in 1 .. Depth : stack[k].fault = NoVector
                       /\ \/ \A k \in 2 .. Depth : stack[k].code = "timer"
                          \/ /\ Depth = 2 /\ stack[2].code = "default"
                             /\ stack[1].at = "start" /\ ~IF_flag)'
    BY DEF Quiet
  <2>1. /\ \A k \in 1 .. Depth : stack[k].fault = NoVector
        /\ \/ \A k \in 2 .. Depth : stack[k].code = "timer"
           \/ ~IF_flag
    BY DEF IInv, Quiet
  <2>2. \A k \in 1 .. (Depth + 1) : stack'[k].fault = NoVector
    BY <1>3, <1>6, <1>7, <1>8, <2>1
  <2>3. CASE Handler(v) = "timer" /\ IF_flag
    <3>1. ASSUME NEW k \in 2 .. (Depth + 1) PROVE stack'[k].code = "timer"
      <4>1. k = Depth + 1 \/ (k \in 2 .. Depth /\ k \in 1 .. Depth)
        BY <1>1
      <4> QED BY <1>3, <1>6, <1>7, <2>1, <2>3, <4>1
    <3> QED BY <1>7, <2>2, <3>1
  <2>4. CASE Handler(v) = "default" /\ Depth = 1 /\ stack[1].at = "start" /\ ~IF_flag
    <3>1. Depth' = 2 /\ 1 \in 1 .. Depth
      BY <1>7, <2>4
    <3>2. stack'[2].code = "default" /\ stack'[1].at = "start" /\ ~IF_flag'
      BY <1>3, <1>4, <1>6, <1>7, <2>4, <3>1
    <3> QED BY <1>7, <2>2, <3>1, <3>2
  <2> QED BY <2>3, <2>4
<1> QED BY <1>9, <1>10, <1>11, <1>12, <1>13 DEF IInv

(* An interrupt between two instructions leaves the contexts as they are. *)
LEMMA AlikeStack == ASSUME IInv PROVE Alike(stack)
<1>1. stack \in Seq(Contexts) /\ Len(stack) = Depth
  BY TopFacts
<1>2. \A k \in 1 .. Depth : Placed(stack[k])
  BY DEF IInv, Shape
<1> QED BY <1>1, <1>2 DEF Alike

LEMMA TrapIInv == ASSUME IInv, NEW v \in Traps, Trap(v) PROVE IInv'
<1>1. /\ idt /\ Depth < MaxDepth /\ exceptions < MaxExceptions /\ exceptions' = exceptions + 1
      /\ Enter(stack, v, Pushed(v)) /\ UNCHANGED console /\ idt' = idt
  BY DEF Trap, Interruptible
<1>2. exceptions' \in 0 .. MaxExceptions /\ exceptions' # 0
  BY <1>1, BoundsAssumption DEF IInv, Shape
<1>3. Pushed(v) = Popped(Handler(v))
  BY HandlerFrame
<1> QED BY <1>1, <1>2, <1>3, AlikeStack, EnterIInv

LEMMA RaiseFaultIInv == ASSUME IInv, RaiseFault PROVE IInv'
<1>1. /\ idt /\ Depth < MaxDepth /\ exceptions' = exceptions /\ Top.fault # NoVector
      /\ Enter(stack, Top.fault, Pushed(Top.fault)) /\ UNCHANGED console /\ idt' = idt
  BY DEF RaiseFault, Interruptible
<1>2. Top \in Contexts /\ Top = stack[Depth] /\ Depth \in 1 .. Depth
  BY TopFacts
<1>3. Top.fault \in Faults
  BY <1>1, <1>2 DEF Contexts
<1>4. exceptions' \in 0 .. MaxExceptions /\ exceptions' # 0
  BY <1>1, <1>2 DEF IInv, Shape, Quiet
<1>5. Pushed(Top.fault) = Popped(Handler(Top.fault))
  BY <1>3, HandlerFrame
<1> QED BY <1>1, <1>4, <1>5, AlikeStack, EnterIInv

LEMMA TimerIInv == ASSUME IInv, Timer PROVE IInv'
<1>1. /\ idt /\ Depth < MaxDepth /\ exceptions' = exceptions /\ IF_flag
      /\ Enter(stack, TIMER_VECTOR, 5) /\ UNCHANGED console /\ idt' = idt
  BY DEF Timer, Interruptible
<1>2. exceptions' \in 0 .. MaxExceptions
  BY <1>1 DEF IInv, Shape
<1>3. Handler(TIMER_VECTOR) = "timer" /\ Popped(Handler(TIMER_VECTOR)) = 5
  BY HandlerFrame
<1> QED BY <1>1, <1>2, <1>3, AlikeStack, EnterIInv

(* The interrupt that tests the table comes from the boot program alone. *)
LEMMA TestInterruptIInv == ASSUME IInv, TestInterrupt PROVE IInv'
<1> DEFINE c == Past(Top)
           below == Become(c)
<1>1. /\ Op = "int" /\ Top.at = "start" /\ Depth < MaxDepth /\ exceptions' = exceptions
      /\ Enter(below, TEST_VECTOR, 5) /\ UNCHANGED console /\ idt' = idt
  BY DEF TestInterrupt, Runs
<1>2. /\ Top.code = "main" /\ Top.pc = 10 /\ Depth = 1 /\ Len(stack) = 1
      /\ stack \in Seq(Contexts) /\ Top = stack[1]
  BY <1>1, OpFacts, TopFacts
<1>3. /\ c \in Contexts /\ Placed(c) /\ c.code = Top.code /\ c.pc = 11
      /\ c.at = Top.at /\ c.rsp = Top.rsp /\ c.flag = Top.flag /\ c.fault = Top.fault
  BY <1>1, <1>2, PastFacts
<1>4. below = [stack EXCEPT ![1] = c]
  BY <1>2 DEF Become
<1> HIDE DEF c
<1>5. below \in Seq(Contexts) /\ Len(below) = 1 /\ below[1] = c
  BY <1>2, <1>3, <1>4, ExceptSeq
<1> HIDE DEF below
<1>6. Alike(below)
  <2>1. \A k \in 1 .. Depth : k = 1
    BY <1>2
  <2> QED BY <1>2, <1>3, <1>5, <2>1 DEF Alike
<1>7. idt /\ ~IF_flag /\ stack[1].at = "start"
  BY <1>1, <1>2, AloneFacts
<1>8. exceptions' \in 0 .. MaxExceptions
  BY <1>1 DEF IInv, Shape
<1>9. Handler(TEST_VECTOR) = "default" /\ Popped(Handler(TEST_VECTOR)) = 5
  BY HandlerFrame
<1> QED BY <1>1, <1>2, <1>6, <1>7, <1>8, <1>9, EnterIInv

(* The return: the context below goes on. *)
LEMMA IretIInv == ASSUME IInv, Iret PROVE IInv'
<1>1. /\ Op = "iret" /\ Top.at = "start" /\ stack' = Front(stack)
      /\ rsp' = rsp - Popped(Top.code) /\ IF_flag' = Top.flag
      /\ UNCHANGED console /\ idt' = idt /\ exceptions' = exceptions
  BY DEF Iret, Runs
<1>2. /\ stack \in Seq(Contexts) /\ Depth = Len(stack) /\ Depth \in Nat /\ Depth > 1
      /\ Top = stack[Depth] /\ Top \in Contexts /\ Depth <= MaxDepth /\ MaxDepth \in Nat
  BY <1>1, OpFacts, TopFacts
<1>3. /\ stack' \in Seq(Contexts) /\ Len(stack') = Depth - 1
      /\ \A k \in 1 .. (Depth - 1) : stack'[k] = stack[k]
  BY <1>1, <1>2, FrontProperties
<1>4. Depth' = Depth - 1
  BY <1>3 DEF Depth
<1>5. \A k \in 1 .. (Depth - 1) : k \in 1 .. Depth
  BY <1>2
<1>6. Shape'
  <2>1. (\A k \in 1 .. Depth : /\ Placed(stack[k])
                               /\ stack[k].code \in {"main", "panic"} <=> k = 1)'
    BY <1>3, <1>4, <1>5 DEF Placed, IInv, Shape
  <2>2. (Depth >= 1 /\ Depth <= MaxDepth)'
    BY <1>2, <1>4
  <2>3. IF_flag' \in BOOLEAN /\ exceptions' \in 0 .. MaxExceptions
    BY <1>1, <1>2 DEF Contexts, IInv, Shape
  <2> QED BY <1>3, <2>1, <2>2, <2>3 DEF Shape
<1>7. Boot'
  <2>1. InMain(9) /\ once = "done" /\ idt
    BY <1>2 DEF IInv, Boot, InMain
  <2>2. stack'[1] = stack[1]
    BY <1>2, <1>3
  <2>3. InMain(9)' /\ (InMain(13) => InMain(13)')
    BY <2>1, <2>2 DEF InMain
  <2>4. \A k \in 1 .. Depth : stack[k].at # "init" /\ (stack[k].flag => InMain(13))
    BY <2>1 DEF IInv, Boot
  <2>5. \A k \in 1 .. (Depth - 1) : stack'[k].at # "init" /\ (stack'[k].flag => InMain(13)')
    BY <1>3, <1>5, <2>3, <2>4
  <2>6. IF_flag' => InMain(13)'
    <3>1. Depth \in 1 .. Depth
      BY <1>2
    <3> QED BY <1>1, <1>2, <2>3, <2>4, <3>1
  <2>7. once' = "done" /\ idt'
    BY <1>1, <2>1 DEF console
  <2> QED BY <1>4, <2>3, <2>5, <2>6, <2>7 DEF Boot
<1>8. Lock'
  <2>1. holder' = holder /\ line' = line
    BY <1>1 DEF console
  <2>2. /\ holder \in 0 .. Depth
        /\ \A k \in 1 .. Depth : stack[k].at = "write" <=> holder = k
    BY DEF IInv, Lock
  <2>3. holder # Depth
    BY <1>1, <1>2, <2>2
  <2>4. holder \in 0 .. (Depth - 1)
    BY <1>2, <2>2, <2>3
  <2>5. \A k \in 1 .. (Depth - 1) : stack'[k].at = "write" <=> holder = k
    BY <1>3, <1>5, <2>2
  <2> QED BY <1>4, <2>1, <2>4, <2>5 DEF IInv, Lock
<1>9. Frames'
  <2>1. \A k \in 1 .. (Depth - 1) : stack[k + 1].rsp = stack[k].rsp + Popped(stack[k + 1].code)
    BY DEF IInv, Frames
  <2>2. stack[Depth].rsp = stack[Depth - 1].rsp + Popped(stack[Depth].code)
    <3>1. Depth - 1 \in 1 .. (Depth - 1) /\ Depth - 1 + 1 = Depth
      BY <1>2
    <3> QED BY <2>1, <3>1
  <2>3. stack[Depth - 1] \in Contexts /\ stack'[Depth - 1] = stack[Depth - 1]
    BY <1>2, <1>3
  <2>4. rsp' = stack'[Depth - 1].rsp
    <3>1. stack[Depth - 1].rsp \in Nat /\ Popped(Top.code) \in Nat
      BY <2>3 DEF Contexts, Popped
    <3> QED BY <1>1, <1>2, <2>2, <2>3, <3>1 DEF IInv, Frames
  <2>5. ASSUME NEW k \in 1 .. (Depth - 1 - 1)
        PROVE  stack'[k + 1].rsp = stack'[k].rsp + Popped(stack'[k + 1].code)
    <3>1. k \in 1 .. (Depth - 1) /\ k + 1 \in 1 .. (Depth - 1)
      BY <1>2
    <3> QED BY <1>3, <2>1, <3>1
  <2> QED BY <1>4, <2>4, <2>5 DEF Frames
<1>10. Quiet'
  <2> SUFFICES ASSUME exceptions = 0
               PROVE  (/\ \A k \in 1 .. Depth : stack[k].fault = NoVector
                       /\ \A k \in 2 .. Depth : stack[k].code = "timer")'
    BY <1>1 DEF Quiet
  <2>1. /\ \A k \in 1 .. Depth : stack[k].fault = NoVector
        /\ (\A k \in 2 .. Depth : stack[k].code = "timer") \/ Depth = 2
    BY DEF IInv, Quiet
  <2>2. \A k \in 1 .. (Depth - 1) : stack'[k].fault = NoVector
    BY <1>3, <1>5, <2>1
  <2>3. ASSUME NEW k \in 2 .. (Depth - 1) PROVE stack'[k].code = "timer"
    <3>1. k \in 1 .. (Depth - 1) /\ k \in 2 .. Depth /\ Depth # 2
      BY <1>2
    <3> QED BY <1>3, <2>1, <3>1
  <2> QED BY <1>4, <2>2, <2>3
<1> QED BY <1>6, <1>7, <1>8, <1>9, <1>10 DEF IInv

-------------------------------------------------------------------------------
(* The boot program begins. *)
LEMMA InitIInv == Init => IInv
<1> SUFFICES ASSUME Init PROVE IInv
  OBVIOUS
<1> DEFINE c == Context("main", 0, FALSE)
<1>1. /\ c \in Contexts /\ c.code = "main" /\ c.pc = 1 /\ c.at = "start"
      /\ c.rsp = 0 /\ c.flag = FALSE /\ c.fault = NoVector /\ Placed(c)
  BY Fresh DEF Codes
<1>2. stack = <<c>>
  BY DEF Init
<1> HIDE DEF c
<1>3. stack \in Seq(Contexts) /\ Depth = 1 /\ stack[1] = c /\ Len(stack) = 1
  BY <1>1, <1>2 DEF Depth
<1>4. \A k \in 1 .. Depth : stack[k] = c /\ k = 1
  BY <1>3
<1>5. /\ rsp = 0 /\ once = "none" /\ holder = 0 /\ line = << >>
      /\ ~idt /\ ~IF_flag /\ IF_flag \in BOOLEAN /\ exceptions = 0
  BY DEF Init, NoOne
<1>6. Shape
  <2>1. Depth >= 1 /\ Depth <= MaxDepth /\ 0 \in 0 .. MaxExceptions
    BY <1>3, BoundsAssumption
  <2> QED BY <1>1, <1>3, <1>4, <1>5, <2>1 DEF Shape
<1>7. Boot
  BY <1>1, <1>3, <1>4, <1>5 DEF Boot, InMain
<1>8. Lock
  BY <1>1, <1>3, <1>4, <1>5 DEF Lock
<1>9. Frames /\ Quiet
  BY <1>1, <1>3, <1>4, <1>5 DEF Frames, Quiet
<1> QED BY <1>6, <1>7, <1>8, <1>9 DEF IInv

(* Every step preserves the invariant. *)
LEMMA NextIInv == IInv /\ [Next]_vars => IInv'
<1> SUFFICES ASSUME IInv, [Next]_vars PROVE IInv'
  OBVIOUS
<1>1. CASE PrintStep
  BY <1>1, UseContextIInv, ObtainKernelConsoleIInv, LockConsoleIInv, WriteCharIInv, EndPrintIInv
     DEF PrintStep
<1>2. CASE Check \/ Lidt \/ Sti \/ TestInterrupt \/ Iret \/ RaiseFault
  BY <1>2, CheckIInv, LidtIInv, StiIInv, TestInterruptIInv, IretIInv, RaiseFaultIInv
<1>7. CASE TimerWork \/ LockPort \/ UnlockPort
  BY <1>7, TimerWorkIInv, LockPortIInv, UnlockPortIInv
<1>3. CASE Timer
  BY <1>3, TimerIInv
<1>4. CASE \E v \in Traps : Trap(v)
  BY <1>4, TrapIInv
<1>5. CASE \E v \in Faults : BeginFault(v)
  BY <1>5, BeginFaultIInv
<1>6. CASE UNCHANGED vars
  <2>1. UNCHANGED <<stack, rsp, once, holder, line, port, idt, IF_flag, exceptions>>
    BY <1>6 DEF vars
  <2>2. Depth' = Depth /\ (InMain(9) <=> InMain(9)') /\ (InMain(13) <=> InMain(13)')
    BY <2>1 DEF Depth, InMain
  <2>3. Shape' /\ Frames'
    BY <2>1, <2>2 DEF IInv, Shape, Frames, Placed
  <2>4. Boot'
    BY <2>1, <2>2 DEF IInv, Boot
  <2>5. Lock' /\ Quiet'
    BY <2>1, <2>2 DEF IInv, Lock, Quiet
  <2> QED BY <2>3, <2>4, <2>5 DEF IInv
<1> QED BY <1>1, <1>2, <1>3, <1>4, <1>5, <1>6, <1>7 DEF Next, Step

-------------------------------------------------------------------------------
(* The timer's handlers and the command port. *)

(* A step of the innermost context: if the port changes hands, the context
   takes it when it is free or gives it up. *)
LEMMA PortsBecome ==
  ASSUME IInv, Ports, NEW c \in Contexts, stack' = Become(c),
         IsTimer(c) => IsTimer(Top), HasPort(c) <=> port' = Depth,
         \/ port' = port
         \/ port' \in {NoOne, Depth} /\ port \in {NoOne, Depth}
  PROVE  Ports'
<1>1. /\ Depth' = Depth /\ stack'[Depth] = c
      /\ \A k \in 1 .. Depth : k # Depth => stack'[k] = stack[k]
  BY Replaced
<1>2. Depth \in Nat /\ Depth >= 1 /\ Top = stack[Depth]
  BY TopFacts
<1>3. /\ port \in 0 .. Depth
      /\ \A k \in 1 .. Depth : HasPort(stack[k]) <=> port = k
      /\ \A j, k \in 1 .. Depth :
           j < k /\ IsTimer(stack[j]) /\ IsTimer(stack[k]) => stack[j].pc >= 4
  BY DEF Ports
<1>4. port' \in 0 .. Depth
  BY <1>2, <1>3 DEF NoOne
<1>5. ASSUME NEW k \in 1 .. Depth PROVE HasPort(stack'[k]) <=> port' = k
  <2>1. CASE k = Depth
    BY <1>1, <2>1
  <2>2. CASE k # Depth
    BY <1>1, <1>2, <1>3, <2>2 DEF NoOne
  <2> QED BY <2>1, <2>2
<1>6. ASSUME NEW j \in 1 .. Depth, NEW k \in 1 .. Depth,
             j < k, IsTimer(stack'[j]), IsTimer(stack'[k])
      PROVE  stack'[j].pc >= 4
  <2>1. j # Depth /\ stack'[j] = stack[j]
    BY <1>1, <1>2, <1>6
  <2>2. IsTimer(stack[k])
    BY <1>1, <1>2, <1>6
  <2> QED BY <1>3, <1>6, <2>1, <2>2
<1>7. (\A k \in 1 .. Depth : HasPort(stack[k]) <=> port = k)'
  BY <1>1, <1>5 DEF HasPort, IsTimer
<1>8. (\A j, k \in 1 .. Depth :
         j < k /\ IsTimer(stack[j]) /\ IsTimer(stack[k]) => stack[j].pc >= 4)'
  BY <1>1, <1>6 DEF IsTimer
<1> QED BY <1>1, <1>4, <1>7, <1>8 DEF Ports

(* The innermost context holds the port from its lock to its unlock. *)
LEMMA TopPort ==
  ASSUME IInv, Ports
  PROVE  HasPort(Top) <=> port = Depth
<1>1. Depth \in 1 .. Depth /\ Top = stack[Depth]
  BY TopFacts
<1> QED BY <1>1 DEF Ports

(* Code other than the timer's handler. *)
LEMMA PortsPlain ==
  ASSUME IInv, Ports, NEW c \in Contexts, stack' = Become(c),
         ~IsTimer(Top), ~IsTimer(c), port' = port
  PROVE  Ports'
<1>1. ~HasPort(c) /\ port' # Depth
  BY TopPort DEF HasPort
<1> QED BY <1>1, PortsBecome

LEMMA PrintPorts == ASSUME IInv, Ports, PrintStep PROVE Ports'
<1>1. Op = "print" /\ UNCHANGED processor
  BY DEF PrintStep, UseContext, ObtainKernelConsole, LockConsole, WriteChar, EndPrint, Runs
<1>2. port' = port /\ ~IsTimer(Top) /\ Top \in Contexts
  BY <1>1, Calm, OpFacts, TopFacts DEF IsTimer
<1>3. ASSUME NEW c \in Contexts, stack' = Become(c), c.code = Top.code PROVE Ports'
  BY <1>2, <1>3, PortsPlain DEF IsTimer
<1>4. ASSUME NEW a \in {"start", "init", "lock", "write"},
             stack' = Become([Top EXCEPT !.at = a])
      PROVE  Ports'
  BY <1>1, <1>3, <1>4, AtFacts
<1>5. CASE UseContext
  <2>1. CASE once = "none"
    BY <1>4, <1>5, <2>1 DEF UseContext
  <2>2. CASE once # "none"
    BY <1>4, <1>5, <2>2 DEF UseContext
  <2> QED BY <2>1, <2>2
<1>6. CASE ObtainKernelConsole
  BY <1>4, <1>6 DEF ObtainKernelConsole
<1>7. CASE LockConsole
  BY <1>4, <1>7 DEF LockConsole
<1>8. CASE WriteChar
  <2> DEFINE c == [Top EXCEPT !.n = @ + 1]
  <2>1. stack' = Become(c) /\ Top.n < Chars
    BY <1>8 DEF WriteChar
  <2>2. c \in Contexts /\ c.code = Top.code
    BY <1>2, <2>1, Changed, Zenon
  <2> QED BY <1>3, <2>1, <2>2
<1>9. CASE EndPrint
  BY <1>1, <1>3, <1>9, PastFacts DEF EndPrint
<1> QED BY <1>5, <1>6, <1>7, <1>8, <1>9 DEF PrintStep

(* The boot program's own operations. *)
LEMMA MainPorts == ASSUME IInv, Ports, Check \/ Lidt \/ Sti PROVE Ports'
<1>1. Op \in {"check", "lidt", "sti"} /\ port' = port
  BY Calm DEF Check, Lidt, Sti, Runs
<1>2. ~IsTimer(Top) /\ Top \in Contexts
  BY <1>1, OpFacts, TopFacts DEF IsTimer
<1>3. CASE stack' = Become(Past(Top))
  BY <1>1, <1>2, <1>3, PastFacts, PortsPlain DEF IsTimer
<1>4. CASE stack' = Become(Context("panic", Top.rsp, Top.flag))
  <2> DEFINE c == Context("panic", Top.rsp, Top.flag)
  <2>1. Top.rsp \in Nat /\ Top.flag \in BOOLEAN
    BY <1>2 DEF Contexts
  <2>2. c \in Contexts /\ c.code = "panic"
    BY <2>1, Fresh DEF Codes
  <2> QED BY <1>1, <1>2, <1>4, <2>2, PortsPlain DEF IsTimer
<1> QED BY <1>3, <1>4 DEF Check, Lidt, Sti

(* The timer's handler: the lock before the end of interrupt, its release
   after it. *)
LEMMA HandlerPorts ==
  ASSUME IInv, Ports, TimerWork \/ LockPort \/ UnlockPort PROVE Ports'
<1> DEFINE c == Past(Top)
<1>1. Op \in {"switch_context", "lock_port", "eoi", "unlock_port"} /\ stack' = Become(c)
  BY DEF TimerWork, LockPort, UnlockPort, Runs
<1>2. c \in Contexts /\ c.code = Top.code /\ c.pc = Top.pc + 1
  BY <1>1, PastFacts
<1>3. IsTimer(Top)
  BY <1>1, OpFacts DEF IsTimer
<1> HIDE DEF c
<1>4. HasPort(c) <=> c.pc \in {3, 4}
  BY <1>2, <1>3 DEF HasPort, IsTimer
<1>5. HasPort(Top) <=> Top.pc \in {3, 4}
  BY <1>3 DEF HasPort
<1>6. Depth # NoOne
  BY TopFacts DEF NoOne
<1>7. CASE TimerWork
  <2>1. port' = port /\ Top.pc \in {1, 3}
    BY <1>7, Calm, OpFacts DEF TimerWork, Runs
  <2>2. HasPort(c) <=> HasPort(Top)
    BY <1>2, <1>4, <1>5, <2>1
  <2> QED BY <1>1, <1>2, <1>3, <2>1, <2>2, TopPort, PortsBecome
<1>8. CASE LockPort
  <2>1. port = NoOne /\ port' = Depth /\ Top.pc = 2
    BY <1>8, OpFacts DEF LockPort, Runs
  <2>2. HasPort(c)
    BY <1>2, <1>4, <2>1
  <2> QED BY <1>1, <1>2, <1>3, <2>1, <2>2, PortsBecome
<1>9. CASE UnlockPort
  <2>1. port' = NoOne /\ Top.pc = 4
    BY <1>9, OpFacts DEF UnlockPort, Runs
  <2>2. ~HasPort(c) /\ port = Depth
    BY <1>2, <1>4, <1>5, <2>1, TopPort
  <2> QED BY <1>1, <1>2, <1>3, <1>6, <2>1, <2>2, PortsBecome
<1> QED BY <1>7, <1>8, <1>9

LEMMA BeginFaultPorts == ASSUME IInv, Ports, NEW v \in Faults, BeginFault(v) PROVE Ports'
<1> DEFINE c == [Top EXCEPT !.fault = v]
<1>1. stack' = Become(c) /\ port' = port
  BY DEF BeginFault
<1>2. c \in Contexts /\ c.code = Top.code /\ c.pc = Top.pc
  BY TopFacts DEF Contexts
<1> HIDE DEF c
<1>3. (IsTimer(c) <=> IsTimer(Top)) /\ (HasPort(c) <=> HasPort(Top))
  BY <1>2 DEF IsTimer, HasPort
<1> QED BY <1>1, <1>2, <1>3, TopPort, PortsBecome

(* A context more: a tick only when no other one is in service. *)
LEMMA EnterPorts ==
  ASSUME IInv, Ports, NEW below \in Seq(Contexts), NEW v, NEW words, Len(below) = Depth,
         \A k \in 1 .. Depth : below[k] = stack[k] \/ ~(IsTimer(below[k]) \/ IsTimer(stack[k])),
         words = Popped(Handler(v)), Enter(below, v, words), port' = port,
         Handler(v) = "timer" => ~InService
  PROVE  Ports'
<1> DEFINE c == Context(Handler(v), rsp + words, IF_flag)
<1>1. Depth \in Nat /\ Depth >= 1 /\ rsp \in Nat /\ IF_flag \in BOOLEAN
  <2>1. Top \in Contexts /\ rsp = Top.rsp
    BY TopFacts DEF IInv, Frames
  <2> QED BY <2>1, TopFacts DEF Contexts, IInv, Shape
<1>2. words \in Nat /\ Handler(v) \in Codes
  BY HandlerFrame DEF Popped
<1>3. c \in Contexts /\ c.code = Handler(v) /\ c.pc = 1
  BY <1>1, <1>2, Fresh
<1>4. stack' = Append(below, c)
  BY DEF Enter
<1> HIDE DEF c
<1>5. /\ Len(stack') = Depth + 1 /\ stack'[Depth + 1] = c
      /\ \A k \in 1 .. Depth : stack'[k] = below[k]
  BY <1>3, <1>4, AppendProperties
<1>6. Depth' = Depth + 1
  BY <1>5 DEF Depth
<1>7. \A k \in 1 .. Depth : stack'[k] = stack[k] \/ ~(IsTimer(stack'[k]) \/ IsTimer(stack[k]))
  BY <1>5 DEF IsTimer
<1>8. /\ port \in 0 .. Depth
      /\ \A k \in 1 .. Depth : HasPort(stack[k]) <=> port = k
      /\ \A j, k \in 1 .. Depth :
           j < k /\ IsTimer(stack[j]) /\ IsTimer(stack[k]) => stack[j].pc >= 4
  BY DEF Ports
<1>9. ASSUME NEW k \in 1 .. (Depth + 1) PROVE HasPort(stack'[k]) <=> port' = k
  <2>1. CASE k = Depth + 1
    <3>1. ~HasPort(c) /\ port # k
      BY <1>1, <1>3, <1>8, <2>1 DEF HasPort
    <3> QED BY <1>5, <2>1, <3>1
  <2>2. CASE k # Depth + 1
    <3>1. k \in 1 .. Depth
      BY <1>1, <2>2
    <3>2. HasPort(stack'[k]) <=> HasPort(stack[k])
      BY <1>7, <3>1 DEF HasPort
    <3> QED BY <1>8, <3>1, <3>2
  <2> QED BY <2>1, <2>2
<1>10. ASSUME NEW j \in 1 .. (Depth + 1), NEW k \in 1 .. (Depth + 1),
              j < k, IsTimer(stack'[j]), IsTimer(stack'[k])
       PROVE  stack'[j].pc >= 4
  <2>1. j \in 1 .. Depth /\ stack'[j] = stack[j] /\ IsTimer(stack[j])
    BY <1>1, <1>7, <1>10
  <2>2. CASE k = Depth + 1
    <3>1. Handler(v) = "timer"
      BY <1>3, <1>5, <1>10, <2>2 DEF IsTimer
    <3>2. ~(stack[j].pc <= 3) /\ stack[j].pc \in Nat
      <4>1. stack[j] \in Contexts
        BY <2>1, TopFacts
      <4> QED BY <2>1, <3>1, <4>1 DEF InService, IsTimer, Contexts
    <3> QED BY <2>1, <3>2
  <2>3. CASE k # Depth + 1
    <3>1. k \in 1 .. Depth /\ IsTimer(stack[k])
      BY <1>1, <1>7, <1>10, <2>3
    <3> QED BY <1>8, <1>10, <2>1, <3>1
  <2> QED BY <2>2, <2>3
<1>11. (\A k \in 1 .. Depth : HasPort(stack[k]) <=> port = k)'
  BY <1>6, <1>9 DEF HasPort, IsTimer
<1>12. (\A j, k \in 1 .. Depth :
          j < k /\ IsTimer(stack[j]) /\ IsTimer(stack[k]) => stack[j].pc >= 4)'
  BY <1>6, <1>10 DEF IsTimer
<1>13. port' \in 0 .. Depth'
  BY <1>1, <1>6, <1>8
<1> QED BY <1>11, <1>12, <1>13 DEF Ports

(* An interrupt between two instructions. *)
LEMMA EnterStack ==
  ASSUME IInv, Ports, NEW v, Enter(stack, v, Popped(Handler(v))), port' = port,
         Handler(v) = "timer" => ~InService
  PROVE  Ports'
<1> DEFINE words == Popped(Handler(v))
<1>1. stack \in Seq(Contexts) /\ Len(stack) = Depth
  BY TopFacts
<1>2. Enter(stack, v, words) /\ words = Popped(Handler(v))
  OBVIOUS
<1> HIDE DEF words
<1> QED BY <1>1, <1>2, EnterPorts, Zenon

(* Ticks, exceptions and the interrupt that tests the table. *)
LEMMA InterruptPorts ==
  ASSUME IInv, Ports, Timer \/ RaiseFault \/ TestInterrupt \/ \E v \in Traps : Trap(v)
  PROVE  Ports'
<1>1. stack \in Seq(Contexts) /\ Len(stack) = Depth
  BY TopFacts
<1>2. \A v \in Faults \cup Traps : Handler(v) # "timer" /\ Pushed(v) = Popped(Handler(v))
  <2>1. \A v \in Faults \cup Traps : v \in 0 .. 31
    BY VectorsAssumption
  <2> QED BY <2>1, HandlerFrame DEF Handler, TIMER_VECTOR
<1>3. CASE Timer
  <2>1. Enter(stack, TIMER_VECTOR, 5) /\ port' = port /\ ~InService
    BY <1>3 DEF Timer
  <2>2. Popped(Handler(TIMER_VECTOR)) = 5
    BY HandlerFrame
  <2>3. Enter(stack, TIMER_VECTOR, Popped(Handler(TIMER_VECTOR)))
    BY <2>1, <2>2
  <2> QED BY <2>1, <2>3, EnterStack
<1>4. CASE RaiseFault
  <2>1. Enter(stack, Top.fault, Pushed(Top.fault)) /\ port' = port /\ Top.fault \in Faults
    BY <1>4, TopFacts DEF RaiseFault, Contexts
  <2> QED BY <1>2, <2>1, EnterStack
<1>5. ASSUME NEW v \in Traps, Trap(v) PROVE Ports'
  <2>1. Enter(stack, v, Pushed(v)) /\ port' = port
    BY <1>5 DEF Trap
  <2> QED BY <1>2, <2>1, EnterStack
<1>6. CASE TestInterrupt
  <2> DEFINE c == Past(Top)
             below == Become(c)
  <2>1. Op = "int" /\ Enter(below, TEST_VECTOR, 5) /\ port' = port
    BY <1>6 DEF TestInterrupt, Runs
  <2>2. c \in Contexts /\ c.code = Top.code /\ ~IsTimer(Top) /\ Depth = 1 /\ Top = stack[1]
    BY <2>1, PastFacts, OpFacts, TopFacts DEF IsTimer
  <2>3. below = [stack EXCEPT ![1] = c]
    BY <2>2 DEF Become
  <2> HIDE DEF c
  <2>4. below \in Seq(Contexts) /\ Len(below) = Depth /\ below[1] = c
    BY <1>1, <2>2, <2>3, ExceptSeq
  <2> HIDE DEF below
  <2>5. \A k \in 1 .. Depth : ~IsTimer(below[k]) /\ ~IsTimer(stack[k])
    BY <2>2, <2>4 DEF IsTimer
  <2> QED BY <2>1, <2>4, <2>5, HandlerFrame, EnterPorts
<1> QED BY <1>3, <1>4, <1>5, <1>6

(* The timer's handler returns without the port. *)
LEMMA IretPorts == ASSUME IInv, Ports, Iret PROVE Ports'
<1>1. Op = "iret" /\ stack' = Front(stack) /\ port' = port
  BY DEF Iret, Runs
<1>2. /\ stack \in Seq(Contexts) /\ Depth = Len(stack) /\ Depth \in Nat /\ Depth >= 1
      /\ Top = stack[Depth]
  BY TopFacts
<1>3. Len(stack') = Depth - 1 /\ \A k \in 1 .. (Depth - 1) : stack'[k] = stack[k]
  BY <1>1, <1>2, FrontProperties
<1>4. Depth' = Depth - 1
  BY <1>3 DEF Depth
<1>5. port # Depth
  BY <1>1, OpFacts, TopPort DEF HasPort, IsTimer
<1>6. /\ port \in 0 .. Depth
      /\ \A k \in 1 .. Depth : HasPort(stack[k]) <=> port = k
      /\ \A j, k \in 1 .. Depth :
           j < k /\ IsTimer(stack[j]) /\ IsTimer(stack[k]) => stack[j].pc >= 4
  BY DEF Ports
<1>7. \A k \in 1 .. (Depth - 1) : k \in 1 .. Depth
  BY <1>2
<1>8. port' \in 0 .. Depth'
  BY <1>1, <1>2, <1>4, <1>5, <1>6
<1>9. \A k \in 1 .. (Depth - 1) : HasPort(stack'[k]) <=> port' = k
  BY <1>1, <1>3, <1>6, <1>7
<1>10. \A j, k \in 1 .. (Depth - 1) :
         j < k /\ IsTimer(stack'[j]) /\ IsTimer(stack'[k]) => stack'[j].pc >= 4
  BY <1>3, <1>6, <1>7
<1>11. (\A k \in 1 .. Depth : HasPort(stack[k]) <=> port = k)'
  BY <1>4, <1>9 DEF HasPort, IsTimer
<1>12. (\A j, k \in 1 .. Depth :
          j < k /\ IsTimer(stack[j]) /\ IsTimer(stack[k]) => stack[j].pc >= 4)'
  BY <1>4, <1>10 DEF IsTimer
<1> QED BY <1>8, <1>11, <1>12 DEF Ports

LEMMA NextPorts == IInv /\ Ports /\ [Next]_vars => Ports'
<1> SUFFICES ASSUME IInv, Ports, [Next]_vars PROVE Ports'
  OBVIOUS
<1>1. CASE PrintStep
  BY <1>1, PrintPorts
<1>2. CASE Check \/ Lidt \/ Sti
  BY <1>2, MainPorts
<1>3. CASE TimerWork \/ LockPort \/ UnlockPort
  BY <1>3, HandlerPorts
<1>4. CASE Timer \/ RaiseFault \/ TestInterrupt \/ \E v \in Traps : Trap(v)
  BY <1>4, InterruptPorts
<1>5. CASE Iret
  BY <1>5, IretPorts
<1>6. CASE \E v \in Faults : BeginFault(v)
  BY <1>6, BeginFaultPorts
<1>7. CASE UNCHANGED vars
  <2>1. UNCHANGED <<stack, port>> /\ Depth' = Depth
    BY <1>7 DEF vars, Depth
  <2> QED BY <2>1 DEF Ports, HasPort, IsTimer
<1> QED BY <1>1, <1>2, <1>3, <1>4, <1>5, <1>6, <1>7 DEF Next, Step

LEMMA InitPorts == Init => Ports
<1> SUFFICES ASSUME Init PROVE Ports
  OBVIOUS
<1> DEFINE c == Context("main", 0, FALSE)
<1>1. c.code = "main"
  BY DEF Context
<1>2. stack = <<c>> /\ port = 0
  BY DEF Init, NoOne
<1> HIDE DEF c
<1>3. Depth = 1 /\ \A k \in 1 .. Depth : stack[k] = c /\ k = 1
  BY <1>2 DEF Depth
<1> QED BY <1>1, <1>2, <1>3 DEF Ports, HasPort, IsTimer

(* The invariant holds in every state that boot, the handlers and the
   exceptions reach. *)
THEOREM InvariantHolds == Spec => [](IInv /\ Ports)
  BY InitIInv, InitPorts, NextIInv, NextPorts, PTL DEF Spec

(* The contexts of the handlers, of print! and of the lock have the values
   that the code gives them, at every depth. *)
THEOREM TypeCorrect == Spec => []TypeOK
<1>1. IInv /\ Ports => TypeOK
  <2> SUFFICES ASSUME IInv, Ports PROVE TypeOK
    OBVIOUS
  <2>1. Depth \in 1 .. MaxDepth /\ rsp \in Nat
    <3>1. rsp = Top.rsp /\ Top \in Contexts
      BY TopFacts DEF IInv, Frames
    <3> QED BY <3>1, TopFacts DEF Contexts
  <2>2. ASSUME NEW k \in 1 .. Depth PROVE stack[k] \in Contexts
    BY TopFacts
  <2>3. \A k \in 1 .. Depth :
          /\ stack[k].code \in {"main", "panic", "default", "default_with_error_code", "timer"}
          /\ stack[k].at \in {"start", "init", "lock", "write"} /\ stack[k].n \in 0 .. Chars
          /\ stack[k].fault \in Faults \cup {NoVector}
    BY <2>2 DEF Contexts, Codes
  <2>4. once \in {"none", "running", "done"} /\ exceptions \in 0 .. MaxExceptions
    BY DEF IInv, Boot, Shape
  <2>5. holder \in 0 .. MaxDepth
    <3>1. holder \in 0 .. Depth
      BY DEF IInv, Lock
    <3> QED BY <3>1, TopFacts
  <2>6. port \in 0 .. MaxDepth
    <3>1. port \in 0 .. Depth
      BY DEF Ports
    <3> QED BY <3>1, TopFacts
  <2> QED BY <2>1, <2>3, <2>4, <2>5, <2>6 DEF TypeOK
<1> QED BY <1>1, InvariantHolds, PTL

(* print! holds the console for a whole message: whatever interrupts it, the
   line has the characters of one message only. *)
THEOREM MessagesNeverMix == Spec => []MessagesWhole
<1>1. IInv => MessagesWhole
  <2> SUFFICES ASSUME IInv, NEW i \in DOMAIN line PROVE line[i] = line[1]
    BY DEF MessagesWhole
  <2>1. line \in Seq(Nat) /\ \A j \in 1 .. Len(line) : line[j] = holder
    BY DEF IInv, Lock
  <2>2. i \in 1 .. Len(line) /\ 1 \in 1 .. Len(line)
    BY <2>1
  <2> QED BY <2>1, <2>2
<1> QED BY <1>1, InvariantHolds, PTL

(* Who waits for the console interrupted a message with an exception. *)
LEMMA WaitsForConsole ==
  ASSUME IInv, Stuck
  PROVE  /\ Top.code \in {"default", "default_with_error_code"}
         /\ holder \in 1 .. (Depth - 1) /\ once = "done"
         /\ exceptions > 0
<1>1. /\ Depth \in Nat /\ Depth >= 1 /\ Depth \in 1 .. Depth /\ Top = stack[Depth]
      /\ Top.code \in Codes /\ (Top.code \in {"main", "panic"} <=> Depth = 1)
  BY TopFacts
<1>2. Top.at = "lock" /\ holder # NoOne
  <2>1. CASE Top.at = "start" /\ once = "running"
    <3>1. Depth = 1
      BY <2>1 DEF IInv, Boot, InMain
    <3> QED BY <2>1, <3>1, AloneFacts
  <2> QED BY <2>1 DEF Stuck
<1>3. once = "done"
  BY <1>2, ConsoleMade
<1>4. holder \in 1 .. (Depth - 1)
  <2>1. holder \in 0 .. Depth /\ holder # Depth
    BY <1>1, <1>2 DEF IInv, Lock
  <2> QED BY <1>1, <1>2, <2>1 DEF NoOne
<1>5. Top.code \notin {"main", "panic", "timer"}
  BY <1>1, <1>4, OpFacts DEF Stuck
<1>6. exceptions # 0
  <2>1. SUFFICES ASSUME exceptions = 0 PROVE FALSE
    OBVIOUS
  <2>2. Depth \in 2 .. Depth
    BY <1>1, <1>4
  <2>3. Depth = 2 /\ stack[1].at = "start"
    BY <1>1, <1>5, <2>1, <2>2 DEF IInv, Quiet
  <2>4. holder = 1
    BY <1>4, <2>3
  <2>5. 1 \in 1 .. Depth
    BY <2>3
  <2> QED BY <2>3, <2>4, <2>5 DEF IInv, Lock
<1>7. exceptions > 0
  BY <1>6, BoundsAssumption DEF IInv, Shape
<1> QED BY <1>1, <1>3, <1>4, <1>5, <1>7 DEF Codes

(* Only the report of an exception that interrupted a message spins on the
   console; boot, a panic and the timer never do.  And a tick spins on the
   command port only where it interrupted another tick's handler between its
   end of interrupt and the end of its guard. *)
THEOREM OnlyReportsSpin == Spec => []StuckOnlyInReport
<1>1. ASSUME IInv, Ports, PortStuck
      PROVE  /\ port \in 1 .. (Depth - 1) /\ stack[port].code = "timer"
             /\ timer_handler[stack[port].pc] = "unlock_port"
  <2>1. Op = "lock_port" /\ port # NoOne
    BY <1>1 DEF PortStuck
  <2>2. Top.code = "timer" /\ Top.pc = 2 /\ Depth \in 1 .. Depth /\ Top = stack[Depth]
    BY <1>1, <2>1, OpFacts, TopFacts
  <2>3. port # Depth
    BY <1>1, <2>2, TopPort DEF HasPort
  <2>4. port \in 1 .. (Depth - 1) /\ port \in 1 .. Depth /\ port < Depth
    BY <1>1, <2>1, <2>2, <2>3 DEF Ports, NoOne
  <2>5. HasPort(stack[port])
    BY <1>1, <2>4 DEF Ports
  <2>6. stack[port].pc >= 4
    BY <1>1, <2>2, <2>4, <2>5 DEF Ports, HasPort, IsTimer
  <2>7. stack[port].code = "timer" /\ stack[port].pc = 4
    BY <2>5, <2>6 DEF HasPort, IsTimer
  <2> QED BY <2>4, <2>7 DEF timer_handler
<1>2. IInv /\ Ports => StuckOnlyInReport
  BY <1>1, WaitsForConsole DEF StuckOnlyInReport
<1> QED BY <1>2, InvariantHolds, PTL

(* However deep the exceptions nest, the innermost context runs with the
   stack pointer it was entered with: each return pops what its entry pushed. *)
THEOREM FramesBalance == Spec => []StackBalanced
<1>1. IInv => StackBalanced
  BY TopFacts DEF IInv, Frames, StackBalanced
<1> QED BY <1>1, InvariantHolds, PTL
=============================================================================
