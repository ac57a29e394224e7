------------------------------- MODULE Console -------------------------------
(***************************************************************************)
(* The console shared by the boot program, the exception handlers and the  *)
(* panic handler: print! (src/src/log.rs), the lazily made GLOBAL_CONTEXT  *)
(* (context.rs), main and panic_impl (kernel.rs), the default handlers and *)
(* the interrupt descriptor table (arch/x86_64/interrupt/*.rs).            *)
(*                                                                         *)
(* One processor runs a stack of contexts, the innermost last: the boot    *)
(* program, and the handlers that interrupted it and each other.  The      *)
(* console and the PIC's command port are behind spin locks: a context     *)
(* that finds one held by a context that it interrupted spins for ever.    *)
(*                                                                         *)
(* Whether memory initialization fails is open here (MemoryInit and        *)
(* PagingInit say when), and of the timer's handler only the order of the  *)
(* switch, of the command port's lock and of the end of interrupt is kept  *)
(* (see Interrupts).                                                       *)
(***************************************************************************)
EXTENDS Integers, Sequences, SequencesExt

CONSTANTS
  Chars,          \* the characters of a message, each a write to the screen
  Faults,         \* exceptions that return to the instruction that raised them
  Traps,          \* exceptions and NMIs that return past it
  MaxExceptions,  \* bound: exceptions that are not a fault's repetition
  MaxDepth        \* bound: contexts on the stack

ASSUME VectorsAssumption == Faults \cup Traps \subseteq 0 .. 31
ASSUME BoundsAssumption  ==
  Chars \in Nat \ {0} /\ MaxExceptions \in Nat /\ MaxDepth \in Nat \ {0}

TEST_VECTOR  == 250     \* int 0xFA
TIMER_VECTOR == 32      \* IRQ_NUMBER_TIMER
NoOne        == 0       \* no context
NoVector     == -1

VARIABLES
  stack,       \* the contexts, see Context
  rsp,         \* the words the processor pushed on the kernel's stack
  once,        \* GLOBAL_CONTEXT: "none", "running" or "done"
  holder,      \* the depth of the context that holds the console, or NoOne
  line,        \* the writers of the characters on the current line
  port,        \* the depth of the context that holds MASTER_COMMAND_PORT, or NoOne
  idt,         \* whether the descriptor table is loaded
  IF_flag,     \* the interrupt flag
  exceptions   \* how many exceptions there were

vars == <<stack, rsp, once, holder, line, port, idt, IF_flag, exceptions>>
console == <<once, holder, line>>
processor == <<port, idt, IF_flag, exceptions>>

-------------------------------------------------------------------------------
(* What each piece of code does, as far as the console is concerned. *)

(* main, with memory::init, paging::init and interrupt::init.  "check" is
   where one of them fails: its caller panics. *)
Main ==
  <<"print", "check", "print", "print", "check", "print", "check",
    "print", "lidt", "int", "print", "print", "sti", "print", "hlt">>

panic_impl == <<"print", "print", "print", "loop">>
(* mutant: the handler does not return *)
default_handlerHalts == <<"print", "print", "loop">>
default_handler == <<"print", "print", "iret">>
default_handler_with_error_code == <<"print", "print", "print", "iret">>
(* The guard of the port lives to the end of the statement that writes the
   end of interrupt. *)
timer_handler == <<"switch_context", "lock_port", "eoi", "unlock_port", "iret">>

Program(code) ==
  CASE code = "main"    -> Main
    [] code = "panic"   -> panic_impl
    [] code = "default" -> default_handler
    [] code = "default_with_error_code" -> default_handler_with_error_code
    [] code = "timer"   -> timer_handler

(* mutants: a vector without the handler for its frame; no timer_handler *)
HandlerNoAlignmentCheck(v) ==
  CASE v \in {8, 10, 11, 12, 13, 14} -> "default_with_error_code"
    [] v = TIMER_VECTOR -> "timer"
    [] OTHER -> "default"
HandlerTimerDefault(v) ==
  IF v \in {8, 10, 11, 12, 13, 14, 17} THEN "default_with_error_code" ELSE "default"

(* InterruptDescriptorTable::init, then pic::set_handlers. *)
Handler(v) ==
  CASE v \in {8, 10, 11, 12, 13, 14, 17} -> "default_with_error_code"
    [] v = TIMER_VECTOR -> "timer"
    [] OTHER -> "default"

(* Descriptor::new: the flags of every gate, present and a trap gate, and
   what the processor reads in them. *)
TRAP_GATE     == 15
GateFlags     == 2^15 + TRAP_GATE * 2^8
Present(flags) == (flags \div 2^15) % 2 = 1
KeepsIF(flags) == (flags \div 2^8) % 16 = TRAP_GATE

(* The frame that the processor pushes, and that a handler's return pops. *)
Pushed(v)    == IF v \in {8, 17} \cup (10 .. 14) THEN 6 ELSE 5
Popped(code) == IF code = "default_with_error_code" THEN 6 ELSE 5

(* A context: its code, the next operation, the stage of a print, the
   characters written, the stack pointer it runs with, the interrupt flag
   that it returns with, and the vector of a fault that its next instruction
   raises, again and again. *)
Context(code, base, flag) ==
  [code |-> code, pc |-> 1, at |-> "start", n |-> 0, rsp |-> base, flag |-> flag,
   fault |-> NoVector]

Init ==
  /\ stack = <<Context("main", 0, FALSE)>>
  /\ rsp = 0
  /\ once = "none" /\ holder = NoOne /\ line = << >> /\ port = NoOne
  /\ idt = FALSE /\ IF_flag = FALSE /\ exceptions = 0

Depth == Len(stack)
Top   == Last(stack)
Op    == Program(Top.code)[Top.pc]
Runs(op, at) == Top.fault = NoVector /\ Op = op /\ Top.at = at

Become(c) == [stack EXCEPT ![Depth] = c]
Past(c)   == [c EXCEPT !.pc = @ + 1, !.at = "start", !.n = 0]

-------------------------------------------------------------------------------
(* print!: the context, its lock, the characters, the end of the guard. *)

(* The first use of GLOBAL_CONTEXT makes the console; a use during that
   spins. *)
UseContext ==
  /\ Runs("print", "start") /\ once # "running"
  /\ once' = IF once = "none" THEN "running" ELSE once
  /\ stack' = Become([Top EXCEPT !.at = IF once = "none" THEN "init" ELSE "lock"])
  /\ UNCHANGED <<rsp, holder, line, processor>>

ObtainKernelConsole ==
  /\ Runs("print", "init")
  /\ once' = "done"
  /\ stack' = Become([Top EXCEPT !.at = "lock"])
  /\ UNCHANGED <<rsp, holder, line, processor>>

(* mutant: the lock is not waited for *)
LockConsoleAnyway ==
  /\ Runs("print", "lock")
  /\ holder' = Depth
  /\ stack' = Become([Top EXCEPT !.at = "write"])
  /\ UNCHANGED <<rsp, once, line, processor>>

LockConsole ==
  /\ Runs("print", "lock") /\ holder = NoOne
  /\ holder' = Depth
  /\ stack' = Become([Top EXCEPT !.at = "write"])
  /\ UNCHANGED <<rsp, once, line, processor>>

(* mutant: one character too many *)
WriteCharMore ==
  /\ Runs("print", "write") /\ Top.n <= Chars
  /\ line' = Append(line, Depth)
  /\ stack' = Become([Top EXCEPT !.n = @ + 1])
  /\ UNCHANGED <<rsp, once, holder, processor>>

WriteChar ==
  /\ Runs("print", "write") /\ Top.n < Chars
  /\ line' = Append(line, Depth)
  /\ stack' = Become([Top EXCEPT !.n = @ + 1])
  /\ UNCHANGED <<rsp, once, holder, processor>>

(* The message ended with a new line. *)
EndPrint ==
  /\ Runs("print", "write") /\ Top.n = Chars
  /\ line' = << >> /\ holder' = NoOne
  /\ stack' = Become(Past(Top))
  /\ UNCHANGED <<rsp, once, processor>>

-------------------------------------------------------------------------------
(* The other operations. *)

(* An assertion, an unwrap, or an Err that main turns into a panic. *)
Check ==
  /\ Runs("check", "start")
  /\ \/ stack' = Become(Past(Top))
     \/ stack' = Become(Context("panic", Top.rsp, Top.flag))
  /\ UNCHANGED <<rsp, console, processor>>

Lidt ==
  /\ Runs("lidt", "start")
  /\ idt' = TRUE
  /\ stack' = Become(Past(Top))
  /\ UNCHANGED <<rsp, console, port, IF_flag, exceptions>>

Sti ==
  /\ Runs("sti", "start")
  /\ IF_flag' = TRUE
  /\ stack' = Become(Past(Top))
  /\ UNCHANGED <<rsp, console, port, idt, exceptions>>

(* Through the gate of vector v: the processor pushes words and flag. *)
Enter(below, v, words) ==
  /\ Present(GateFlags)
  /\ stack' = Append(below, Context(Handler(v), rsp + words, IF_flag))
  /\ rsp' = rsp + words
  /\ IF_flag' = IF KeepsIF(GateFlags) THEN IF_flag ELSE FALSE

(* int 0xFA pushes no error code. *)
TestInterrupt ==
  /\ Runs("int", "start") /\ Depth < MaxDepth
  /\ Enter(Become(Past(Top)), TEST_VECTOR, 5)
  /\ UNCHANGED <<console, port, idt, exceptions>>

(* thread::switch_context, then send_end_of_interrupt. *)
TimerWork ==
  /\ Runs("switch_context", "start") \/ Runs("eoi", "start")
  /\ stack' = Become(Past(Top))
  /\ UNCHANGED <<rsp, console, processor>>

LockPort ==
  /\ Runs("lock_port", "start") /\ port = NoOne
  /\ port' = Depth
  /\ stack' = Become(Past(Top))
  /\ UNCHANGED <<rsp, console, idt, IF_flag, exceptions>>

UnlockPort ==
  /\ Runs("unlock_port", "start")
  /\ port' = NoOne
  /\ stack' = Become(Past(Top))
  /\ UNCHANGED <<rsp, console, idt, IF_flag, exceptions>>

Iret ==
  /\ Runs("iret", "start")
  /\ stack' = Front(stack)
  /\ rsp' = rsp - Popped(Top.code)
  /\ IF_flag' = Top.flag
  /\ UNCHANGED <<console, port, idt, exceptions>>

-------------------------------------------------------------------------------
(* What interrupts a context, between any two of its steps. *)

Interruptible == idt /\ Depth < MaxDepth

Trap(v) ==
  /\ Interruptible /\ Top.fault = NoVector
  /\ exceptions < MaxExceptions /\ exceptions' = exceptions + 1
  /\ Enter(stack, v, Pushed(v))
  /\ UNCHANGED <<console, port, idt>>

(* An instruction cannot complete, and the handlers repair nothing. *)
BeginFault(v) ==
  /\ Interruptible /\ Top.fault = NoVector
  /\ exceptions < MaxExceptions /\ exceptions' = exceptions + 1
  /\ stack' = Become([Top EXCEPT !.fault = v])
  /\ UNCHANGED <<rsp, console, port, idt, IF_flag>>

RaiseFault ==
  /\ Interruptible /\ Top.fault # NoVector
  /\ Enter(stack, Top.fault, Pushed(Top.fault))
  /\ UNCHANGED <<console, port, idt, exceptions>>

(* The timer, unless one of its interrupts is in service. *)
InService == \E k \in 1 .. Depth : stack[k].code = "timer" /\ stack[k].pc <= 3
Timer ==
  /\ Interruptible /\ IF_flag /\ ~InService
  /\ Enter(stack, TIMER_VECTOR, 5)
  /\ UNCHANGED <<console, port, idt, exceptions>>

PrintStep == UseContext \/ ObtainKernelConsole \/ LockConsole \/ WriteChar \/ EndPrint
Step ==
  \/ PrintStep \/ Check \/ Lidt \/ Sti \/ TestInterrupt \/ Iret \/ RaiseFault
  \/ TimerWork \/ LockPort \/ UnlockPort

Next ==
  \/ Step \/ Timer
  \/ \E v \in Traps : Trap(v)
  \/ \E v \in Faults : BeginFault(v)

(* The processor executes; the timer's period is longer than its handler,
   so a context that it interrupts gets on however often it is. *)
Spec == Init /\ [][Next]_vars /\ \A k \in 1 .. MaxDepth : SF_vars(Depth = k /\ Step)

-------------------------------------------------------------------------------
(* The values the variables range over. *)
TypeOK ==
  /\ Depth \in 1 .. MaxDepth /\ rsp \in Nat
  /\ \A k \in 1 .. Depth :
       /\ stack[k].code \in {"main", "panic", "default", "default_with_error_code", "timer"}
       /\ stack[k].at \in {"start", "init", "lock", "write"} /\ stack[k].n \in 0 .. Chars
       /\ stack[k].fault \in Faults \cup {NoVector}
  /\ once \in {"none", "running", "done"} /\ holder \in 0 .. MaxDepth
  /\ port \in 0 .. MaxDepth
  /\ exceptions \in 0 .. MaxExceptions

(* The characters on a line are of one message: no handler writes into a
   message that it interrupted. *)
MessagesWhole == \A i \in DOMAIN line : line[i] = line[1]

(* The innermost context spins on something that it interrupted. *)
Stuck ==
  /\ Top.fault = NoVector /\ Op = "print"
  /\ (Top.at = "start" /\ once = "running") \/ (Top.at = "lock" /\ holder # NoOne)

PortStuck == Top.fault = NoVector /\ Op = "lock_port" /\ port # NoOne

(***************************************************************************)
(* Only a handler's report of an exception ever waits for the console, and *)
(* only for a message that it interrupted.  Neither the timer, nor the     *)
(* boot program, nor a panic waits for it, and nobody waits for it to be   *)
(* made.  The timer's handler waits for the command port only where it     *)
(* came between another one's end of interrupt and the end of its guard    *)
(* (pic.rs:67).                                                            *)
(***************************************************************************)
StuckOnlyInReport ==
  /\ Stuck => /\ Top.code \in {"default", "default_with_error_code"}
              /\ holder \in 1 .. (Depth - 1) /\ once = "done"
              /\ exceptions > 0
  /\ PortStuck => /\ port \in 1 .. (Depth - 1)
                  /\ stack[port].code = "timer"
                  /\ timer_handler[stack[port].pc] = "unlock_port"

(* Every context runs with the stack pointer it was interrupted with: a
   handler pops the error code exactly when the processor pushed one. *)
StackBalanced == rsp = Top.rsp

(***************************************************************************)
(* Boot comes to its end, or to a panic whose three messages are out,      *)
(* unless an exception interrupted a message, an instruction faults for    *)
(* ever (the handlers return to it without a repair), or a tick came while *)
(* another one's handler still held the command port after its end of      *)
(* interrupt.                                                              *)
(***************************************************************************)
Ended == Depth = 1 /\ Op \in {"hlt", "loop"}
BootEnds ==
  <>(\/ Ended
     \/ Stuck /\ holder < Depth
     \/ PortStuck
     \/ \E k \in 1 .. Depth : stack[k].fault # NoVector)
==============================================================================
