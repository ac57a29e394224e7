----------------------------- MODULE Interrupts -----------------------------
(***************************************************************************)
(* Interrupts on x86_64: interrupt::init, pic::init, pit::init and the     *)
(* timer handler (src/src/arch/x86_64/interrupt.rs and interrupt/*.rs),    *)
(* with thread::switch_context and process::switch_context.                *)
(*                                                                         *)
(* One processor runs the boot code and the handlers that interrupt it and *)
(* each other.  `stack` is what it is doing, the innermost handler last;   *)
(* below it, the boot code at `pc`.  Handlers are entered through trap     *)
(* gates, which leave the interrupt flag set: only the PIC, which holds    *)
(* back an interrupt until the end of the last one is announced, keeps the *)
(* timer's handler from interrupting itself.                               *)
(*                                                                         *)
(* The two 8259A PICs and the 8254 PIT are modelled by how they react to   *)
(* the writes that the code makes.                                         *)
(***************************************************************************)
EXTENDS Integers, Sequences, FiniteSets, SequencesExt

CONSTANTS
  BiosMaster, BiosSlave,   \* the vector offsets before pic::init (8, 112)
  Frequencies,             \* the tick frequencies asked for in Hz: 100 in
                           \* pit::init, the others are the range of mode 2
  MaxDepth                 \* bound: handlers nested in each other

ASSUME DepthAssumption == MaxDepth \in Nat \ {0}
ASSUME FrequenciesAssumption ==
  \A hz \in Frequencies : hz \in Nat /\ 19 <= hz /\ hz <= 596590

IRQ_OFFSET_MASTER == 32
IRQ_OFFSET_SLAVE  == IRQ_OFFSET_MASTER + 8
IRQ_NUMBER_TIMER  == IRQ_OFFSET_MASTER

AllMasked  == 0 .. 7       \* 0b1111_1111
NotTimer   == 1 .. 7       \* 0b1111_1110

VARIABLES
  timer_frequency_hz,   \* the tick frequency, for good
  pc,        \* the next write of the boot code, by number; see BootWrites
  master, slave,   \* the PICs
  pit,       \* the timer
  idt,       \* whether the table is loaded, with timer_handler at 32
  IF_flag,   \* the interrupt flag
  stack,     \* the handlers that run, each at its next step
  locks,     \* the holder (a depth, 0 is the boot code) of every lock held
  vectors    \* the vectors delivered so far

vars == <<timer_frequency_hz, pc, master, slave, pit, idt, IF_flag, stack, locks, vectors>>

-------------------------------------------------------------------------------
(***************************************************************************)
(* A PIC: `icw` is the initialization word it expects next on its data     *)
(* port (2, 3 or 4), or 0 when a write there sets the mask; `offset` is    *)
(* its vector offset; `irr` and `isr` are the requested and the serviced   *)
(* lines.                                                                  *)
(***************************************************************************)
Pic(offset) == [icw |-> 0, offset |-> offset, mask |-> {}, irr |-> {}, isr |-> {}]

PicCommand(p, c) ==
  CASE c = "ICW1" -> [p EXCEPT !.icw = 2, !.mask = {}, !.irr = {}, !.isr = {}]
    [] c = "EOI"  -> [p EXCEPT !.isr = IF @ = {} THEN {}
                                 ELSE @ \ {CHOOSE x \in @ : \A y \in @ : x <= y}]

(* A data byte, as the number it is or the lines it masks. *)
PicData(p, byte) ==
  CASE p.icw = 2 -> [p EXCEPT !.offset = byte.number, !.icw = 3]
    [] p.icw = 3 -> [p EXCEPT !.icw = 4]
    [] p.icw = 4 -> [p EXCEPT !.icw = 0]
    [] p.icw = 0 -> [p EXCEPT !.mask = byte.lines]

(* The lines whose bits are set in the bytes that are sent. *)
Bit == [b \in 0 .. 7 |-> <<1, 2, 4, 8, 16, 32, 64, 128>>[b + 1]]
Byte(n) ==
  [number |-> n,
   lines |-> {b \in 0 .. 7 : (n \div Bit[b]) % 2 = 1}]

(***************************************************************************)
(* Channel 0 of the PIT.  The mode register has the operating mode in bits *)
(* 1 to 3 and the access mode in bits 4 and 5.  In lo/hi access the first  *)
(* write is the low byte, and the rate is set once both have arrived.      *)
(***************************************************************************)
LoHi == 3
PitCommand(b) ==
  [mode |-> (b \div 2) % 8, access |-> (b \div 16) % 4,
   half |-> "low", low |-> 0, count |-> 0]
PitData(t, b) ==
  IF t.half = "low" THEN [t EXCEPT !.low = b, !.half = "high"]
  ELSE [t EXCEPT !.count = b * 256 + t.low, !.half = "low"]

-------------------------------------------------------------------------------
(* The writes of the boot code, in program order.  Each locks the port for
   the one write. *)
W(port, val) == <<port, val>>

(* mutant: initialization begins with the vector offset *)
PicInitNoCommand ==
  <<W("master_data", IRQ_OFFSET_MASTER), W("slave_data", IRQ_OFFSET_SLAVE),
    W("master_data", 4), W("slave_data", 2),
    W("master_data", 1), W("slave_data", 1),
    W("master_data", 255), W("slave_data", 255)>>

(* pic::init *)
PicInit ==
  <<W("master_command", "ICW1"), W("master_command", "ICW1"),
    W("master_data", IRQ_OFFSET_MASTER), W("slave_data", IRQ_OFFSET_SLAVE),
    W("master_data", 4), W("slave_data", 2),
    W("master_data", 1), W("slave_data", 1),
    W("master_data", 255), W("slave_data", 255)>>

(* mutant: divided by a rounded clock *)
make_asymptotic_counter_valueRounded(hz) ==
  LET c == (1193000 \div hz) % 65536 IN <<c \div 256, c % 256>>

(* The high and the low byte of the 16-bit counter. *)
make_asymptotic_counter_value(hz) ==
  LET c == ((3579545 \div 3) \div hz) % 65536 IN <<c \div 256, c % 256>>

(* ModeCommandRegister: set_operating_mode(0b010), set_access_mode(0b11). *)
ModeCommandRegister == 2 * 2 + LoHi * 16

(* pit::init, with enable_timer_interrupt *)
PitInit ==
  LET hl == make_asymptotic_counter_value(timer_frequency_hz)
  IN <<W("pit_mode", ModeCommandRegister), W("pit", hl[2]), W("pit", hl[1]),
       W("master_data", 254), W("sti", 0)>>

BootWrites == <<W("lidt", 0)>> \o PicInit \o PitInit

Init ==
  /\ timer_frequency_hz \in Frequencies
  /\ pc = 1
  /\ master = Pic(BiosMaster) /\ slave = Pic(BiosSlave)
  /\ pit = [mode |-> 3, access |-> LoHi, half |-> "low", low |-> 0, count |-> 0]
  /\ idt = FALSE
  /\ IF_flag = FALSE
  /\ stack = << >>
  /\ locks = {}
  /\ vectors = {}

Depth == Len(stack)

Boot ==
  LET w == BootWrites[pc] IN
    /\ pc <= Len(BootWrites) /\ stack = << >>
    /\ pc' = pc + 1
    /\ master' = CASE w[1] = "master_command" -> PicCommand(master, w[2])
                   [] w[1] = "master_data" -> PicData(master, Byte(w[2]))
                   [] OTHER -> master
    /\ slave'  = IF w[1] = "slave_data" THEN PicData(slave, Byte(w[2])) ELSE slave
    /\ pit' = CASE w[1] = "pit_mode" -> PitCommand(w[2])
                [] w[1] = "pit" -> PitData(pit, w[2])
                [] OTHER -> pit
    /\ idt' = IF w[1] = "lidt" THEN TRUE ELSE idt
    /\ IF_flag' = IF w[1] = "sti" THEN TRUE ELSE IF_flag
    /\ UNCHANGED <<timer_frequency_hz, stack, locks, vectors>>

(* The PIT raises line 0, at any time.  A second tick is lost. *)
Tick ==
  /\ 0 \notin master.irr
  /\ master' = [master EXCEPT !.irr = @ \cup {0}]
  /\ UNCHANGED <<timer_frequency_hz, pc, slave, pit, idt, IF_flag, stack, locks, vectors>>

-------------------------------------------------------------------------------
(* timer_handler.  Locks are spin locks: a step that needs one that is held
   is not enabled. *)

(* mutant: the end of interrupt before the switch *)
HandlerStepsEoiFirst ==
  <<"lock_port", "eoi", "unlock_port", "switch_context", "unlock_manager", "iret">>

(* The order of the handler's steps. *)
HandlerSteps ==
  <<"switch_context", "unlock_manager", "lock_port", "eoi", "unlock_port", "iret">>

(* The processor accepts the interrupt between two instructions. *)
Deliver ==
  /\ IF_flag /\ master.icw = 0
  /\ 0 \in master.irr \ (master.mask \cup master.isr)
  /\ Depth < MaxDepth
  /\ master' = [master EXCEPT !.irr = @ \ {0}, !.isr = @ \cup {0}]
  /\ vectors' = vectors \cup {master.offset}
  /\ stack' = Append(stack, HandlerSteps[1])
  /\ UNCHANGED <<timer_frequency_hz, pc, slave, pit, idt, IF_flag, locks>>

At(s)   == Depth > 0 /\ Last(stack) = s
Advance ==
  LET k == CHOOSE i \in DOMAIN HandlerSteps : HandlerSteps[i] = Last(stack)
  IN stack' = [stack EXCEPT ![Depth] = HandlerSteps[k + 1]]
Held(l) == \E x \in locks : x[1] = l
Lock(l)   == ~Held(l) /\ locks' = locks \cup {<<l, Depth>>}
Unlock(l) == locks' = {x \in locks : x[1] # l}

(* process::switch_context: there is no process to switch to, the manager's
   slots are all None. *)
LockManager ==
  /\ At("switch_context") /\ Lock("PROCESS_MANAGER")
  /\ Advance
  /\ UNCHANGED <<timer_frequency_hz, pc, master, slave, pit, idt, IF_flag, vectors>>

UnlockManager ==
  /\ At("unlock_manager") /\ Unlock("PROCESS_MANAGER")
  /\ Advance
  /\ UNCHANGED <<timer_frequency_hz, pc, master, slave, pit, idt, IF_flag, vectors>>

(* send_end_of_interrupt(IRQ_NUMBER_TIMER): the master only. *)
LockPort ==
  /\ At("lock_port") /\ Lock("MASTER_COMMAND_PORT")
  /\ Advance
  /\ UNCHANGED <<timer_frequency_hz, pc, master, slave, pit, idt, IF_flag, vectors>>

EndOfInterrupt ==
  /\ At("eoi")
  /\ master' = PicCommand(master, "EOI")
  /\ Advance
  /\ UNCHANGED <<timer_frequency_hz, pc, slave, pit, idt, IF_flag, locks, vectors>>

(* mutant: the guard is forgotten, not dropped *)
UnlockPortForgotten ==
  /\ At("unlock_port")
  /\ Advance
  /\ UNCHANGED <<timer_frequency_hz, pc, master, slave, pit, idt, IF_flag, locks, vectors>>

UnlockPort ==
  /\ At("unlock_port") /\ Unlock("MASTER_COMMAND_PORT")
  /\ Advance
  /\ UNCHANGED <<timer_frequency_hz, pc, master, slave, pit, idt, IF_flag, vectors>>

Iret ==
  /\ At("iret")
  /\ stack' = Front(stack)
  /\ UNCHANGED <<timer_frequency_hz, pc, master, slave, pit, idt, IF_flag, locks, vectors>>

Handler ==
  LockManager \/ UnlockManager \/ LockPort \/ EndOfInterrupt \/ UnlockPort \/ Iret

Next == Boot \/ Tick \/ Deliver \/ Handler

(* The processor executes what it can; ticks need not come. *)
Spec == Init /\ [][Next]_vars /\ WF_vars(Boot) /\ WF_vars(Handler) /\ WF_vars(Deliver)

-------------------------------------------------------------------------------
(* The values the variables range over. *)
TypeOK ==
  /\ pc \in 1 .. (Len(BootWrites) + 1)
  /\ master.icw \in {0, 2, 3, 4} /\ master.irr \subseteq {0} /\ master.isr \subseteq {0}
  /\ Depth <= MaxDepth
  /\ \A x \in locks : x[2] \in 0 .. Depth

(***************************************************************************)
(* The timer only ever arrives at the vector of its handler.  Before       *)
(* pic::init the lines are at the vectors of processor exceptions (line 0  *)
(* at the double fault), so an interrupt accepted too early, or after an   *)
(* initialization that the PIC did not follow, would be taken for one.     *)
(***************************************************************************)
TimerVectorOnly == vectors \subseteq {IRQ_NUMBER_TIMER} /\ (vectors # {} => idt)

(***************************************************************************)
(* Interrupts are enabled only when every line but the timer's is masked   *)
(* and the timer ticks in mode 2 at the rate asked for: it counts as many  *)
(* whole cycles of its clock (3579545 / 3 Hz) as fit a period, at least 2, *)
(* as that mode requires, and in 16 bits.                                  *)
(***************************************************************************)
EnabledWhenReady ==
  IF_flag => /\ pit.mode = 2 /\ pit.access = LoHi /\ pit.half = "low"
             /\ 2 <= pit.count /\ pit.count < 65536
             /\ 3 * timer_frequency_hz * pit.count <= 3579545
             /\ 3 * timer_frequency_hz * (pit.count + 1) > 3579545
             /\ master.mask = NotTimer /\ slave.mask = AllMasked

(***************************************************************************)
(* Handlers nest: a tick may come between the end of interrupt and the     *)
(* return.  It never does while the process manager is locked, so that the *)
(* nested handler's switch_context never waits for the one it interrupted. *)
(***************************************************************************)
ManagerNeverContended ==
  At("switch_context") => ~Held("PROCESS_MANAGER")

(* "If the IRQ came from the slave PIC, it is necessary to issue end of
   interrupt to both PICs" (pic.rs:61), and to the master alone for one of its
   own lines: every interrupt in service at the master is ended. *)
EveryInterruptEnded == (0 \in master.isr) ~> (0 \notin master.isr)
==============================================================================
