-------------------------- MODULE InterruptsProofs --------------------------
(***************************************************************************)
(* The timer's interrupts, for every depth of nesting and every frequency: *)
(* they come at their own vector, after everything is set up, and never    *)
(* while the process manager is locked.                                    *)
(*                                                                         *)
(* None of this is inductive.  `Progress` ties the devices to the write    *)
(* that the boot code makes next; `Nesting` says that only the innermost   *)
(* handler can be before its end of interrupt, because the PIC holds the   *)
(* next interrupt back until then; `Holders` ties a lock to the step of    *)
(* the handler that took it.                                               *)
(***************************************************************************)
EXTENDS Interrupts, SequenceTheorems, TLAPS

Steps     == {"switch_context", "unlock_manager", "lock_port", "eoi", "unlock_port", "iret"}
BeforeEoi == {"switch_context", "unlock_manager", "lock_port", "eoi"}

Pics ==
  [icw : {0, 2, 3, 4}, offset : {BiosMaster, BiosSlave, IRQ_OFFSET_MASTER},
   mask : SUBSET (0 .. 7), irr : SUBSET {0}, isr : SUBSET {0}]

Types ==
  /\ pc \in 1 .. 17
  /\ master \in Pics /\ slave \in Pics
  /\ pit \in [mode : Int, access : Int, half : {"low", "high"}, low : Int, count : Int]
  /\ timer_frequency_hz \in Frequencies
  /\ stack \in Seq(Steps) /\ Depth <= MaxDepth

(* What the boot code has set up before write number pc. *)
Counter == make_asymptotic_counter_value(timer_frequency_hz)
Progress ==
  /\ idt <=> (pc > 1)
  /\ IF_flag <=> (pc = 17)
  /\ master.icw = CASE pc \in {3, 4} -> 2 [] pc \in {5, 6} -> 3 [] pc \in {7, 8} -> 4
                    [] OTHER -> 0
  /\ pc > 4 => master.offset = IRQ_OFFSET_MASTER
  /\ slave.icw = 0
  /\ pc > 11 => slave.mask = AllMasked
  /\ pc > 12 => pit.mode = 2 /\ pit.access = LoHi
  /\ pc > 12 => pit.half = IF pc = 14 THEN "high" ELSE "low"
  /\ pc > 13 => pit.low = Counter[2]
  /\ pc > 14 => pit.count = Counter[1] * 256 + Counter[2]
  /\ pc > 15 => master.mask = NotTimer
  /\ pc < 17 => stack = << >> /\ vectors = {} /\ master.isr = {} /\ locks = {}
  /\ vectors \subseteq {IRQ_NUMBER_TIMER}

(* Interrupted handlers have announced their end. *)
Nesting ==
  /\ \A k \in 1 .. (Depth - 1) : stack[k] \notin BeforeEoi
  /\ 0 \in master.isr <=> (Depth > 0 /\ stack[Depth] \in BeforeEoi)

(* A lock is held by a handler that runs, between its lock and its unlock. *)
Holders ==
  \A h \in locks :
    /\ h[2] \in 1 .. Depth
    /\ \/ h[1] = "PROCESS_MANAGER" /\ stack[h[2]] = "unlock_manager"
       \/ h[1] = "MASTER_COMMAND_PORT" /\ stack[h[2]] \in {"eoi", "unlock_port"}

IInv == Types /\ Progress /\ Nesting /\ Holders

-------------------------------------------------------------------------------
(* The sixteen writes of the boot code, by number. *)
LEMMA Writes ==
  /\ Len(BootWrites) = 16
  /\ BootWrites[1] = W("lidt", 0)
  /\ BootWrites[2] = W("master_command", "ICW1")
  /\ BootWrites[3] = W("master_command", "ICW1")
  /\ BootWrites[4] = W("master_data", IRQ_OFFSET_MASTER)
  /\ BootWrites[5] = W("slave_data", IRQ_OFFSET_SLAVE)
  /\ BootWrites[6] = W("master_data", 4)
  /\ BootWrites[7] = W("slave_data", 2)
  /\ BootWrites[8] = W("master_data", 1)
  /\ BootWrites[9] = W("slave_data", 1)
  /\ BootWrites[10] = W("master_data", 255)
  /\ BootWrites[11] = W("slave_data", 255)
  /\ BootWrites[12] = W("pit_mode", ModeCommandRegister)
  /\ BootWrites[13] = W("pit", Counter[2])
  /\ BootWrites[14] = W("pit", Counter[1])
  /\ BootWrites[15] = W("master_data", 254)
  /\ BootWrites[16] = W("sti", 0)
  BY DEF BootWrites, PicInit, PitInit, Counter

(* What the masks that are sent stand for. *)
LEMMA Masks ==
  /\ Byte(255).lines = AllMasked /\ Byte(254).lines = NotTimer
  /\ \A n : Byte(n).number = n
<1>1. Bit[0] = 1 /\ Bit[1] = 2 /\ Bit[2] = 4 /\ Bit[3] = 8
  BY DEF Bit
<1>2. Bit[4] = 16 /\ Bit[5] = 32 /\ Bit[6] = 64 /\ Bit[7] = 128
  BY DEF Bit
<1>3. Byte(255).lines = AllMasked
  BY <1>1, <1>2 DEF Byte, AllMasked
<1>4. Byte(254).lines = NotTimer
  BY <1>1, <1>2 DEF Byte, NotTimer
<1> QED BY <1>3, <1>4 DEF Byte

(* The counter: as many whole cycles as fit a period, in two bytes. *)
LEMMA CounterValue ==
  ASSUME NEW hz \in Frequencies
  PROVE  \E c \in Nat :
           /\ make_asymptotic_counter_value(hz)[1] * 256
                + make_asymptotic_counter_value(hz)[2] = c
           /\ 2 <= c /\ c < 65536
           /\ 3 * hz * c <= 3579545 /\ 3 * hz * (c + 1) > 3579545
<1> DEFINE c == 1193181 \div hz
           b == make_asymptotic_counter_value(hz)
<1>1. hz \in Nat /\ 19 <= hz /\ hz <= 596590
  BY FrequenciesAssumption, SMT
<1>2. c \in Int /\ hz * c <= 1193181 /\ 1193181 < hz * (c + 1)
  BY <1>1, SMT
<1>3. c >= 2
  BY <1>1, <1>2, SMT
<1>4. c <= 62799
  BY <1>1, <1>2, SMT
<1>5. 3579545 \div 3 = 1193181
  BY SMT
<1>6. b = <<(c % 65536) \div 256, (c % 65536) % 256>>
  BY <1>5, SMT DEF make_asymptotic_counter_value
<1> HIDE DEF c
<1>7. c % 65536 = c
  BY <1>2, <1>3, <1>4, SMT
<1>8. b[1] * 256 + b[2] = c
  <2>1. b[1] = c \div 256 /\ b[2] = c % 256
    BY <1>6, <1>7, SMT
  <2> QED BY <2>1, <1>2, <1>3, SMT
<1>9. 3 * hz * c <= 3579545 /\ 3 * hz * (c + 1) > 3579545
  BY <1>1, <1>2, SMT
<1>10. c \in Nat /\ c < 65536
  BY <1>2, <1>3, <1>4, SMT
<1> QED BY <1>3, <1>8, <1>9, <1>10, SMT

-------------------------------------------------------------------------------
(* The state at the beginning of interrupt::init. *)
LEMMA InitIInv == Init => IInv
<1> SUFFICES ASSUME Init PROVE IInv
  OBVIOUS
<1>1. Types
  <2>1. master \in Pics /\ slave \in Pics
    BY DEF Init, Pics, Pic
  <2>2. pit \in [mode : Int, access : Int, half : {"low", "high"}, low : Int, count : Int]
    BY DEF Init, LoHi
  <2>3. stack \in Seq(Steps) /\ Depth <= MaxDepth
    BY DepthAssumption DEF Init, Depth
  <2>4. pc \in 1 .. 17 /\ timer_frequency_hz \in Frequencies
    BY DEF Init
  <2> QED BY <2>1, <2>2, <2>3, <2>4 DEF Types
<1>2. Progress
  BY DEF Init, Progress, Pic
<1>3. Nesting /\ Holders
  BY DEF Init, Nesting, Holders, Pic, Depth
<1> QED BY <1>1, <1>2, <1>3 DEF IInv

(* A write of the boot code. *)
LEMMA BootIInv == ASSUME IInv, Boot PROVE IInv'
<1>1. pc \in 1 .. 16 /\ pc' = pc + 1 /\ stack = << >> /\ stack' = << >>
  BY Writes DEF IInv, Types, Boot
<1>2. /\ timer_frequency_hz' = timer_frequency_hz /\ locks' = {} /\ vectors' = {}
      /\ Counter' = Counter /\ master.isr = {}
  BY <1>1 DEF Boot, Counter, IInv, Progress
<1>3. idt' /\ (IF_flag' <=> pc' = 17)
  <2>1. pc = 1 => idt'
    BY Writes DEF Boot, W
  <2>2. ASSUME pc # 1 PROVE idt' = idt
    <3>1. BootWrites[pc][1] # "lidt"
      BY <1>1, <2>2, Writes DEF W
    <3> QED BY <3>1 DEF Boot
  <2>3. pc = 16 => IF_flag' = TRUE
    BY Writes DEF Boot, W
  <2>4. ASSUME pc # 16 PROVE IF_flag' = IF_flag
    <3>1. BootWrites[pc][1] # "sti"
      BY <1>1, <2>4, Writes DEF W
    <3> QED BY <3>1 DEF Boot
  <2>5. (pc > 1 => idt) /\ (IF_flag <=> pc = 17)
    BY DEF IInv, Progress
  <2>6. idt'
    BY <1>1, <2>1, <2>2, <2>5
  <2>7. IF_flag' <=> pc' = 17
    BY <1>1, <2>3, <2>4, <2>5
  <2> QED BY <2>6, <2>7
<1>4. /\ master' \in Pics /\ master'.isr = {}
      /\ master'.icw = CASE pc' \in {3, 4} -> 2 [] pc' \in {5, 6} -> 3
                         [] pc' \in {7, 8} -> 4 [] OTHER -> 0
      /\ pc' > 4 => master'.offset = IRQ_OFFSET_MASTER
      /\ pc' > 15 => master'.mask = NotTimer
  <2>1. master \in Pics
    BY DEF IInv, Types
  <2>2. CASE pc \in {1, 5, 7, 9, 11, 12, 13, 14, 16}
    <3>1. master' = master
      BY <2>2, Writes DEF Boot, W
    <3> QED BY <1>1, <1>2, <2>1, <2>2, <3>1 DEF IInv, Progress
  <2>3. CASE pc \in {2, 3}
    <3>1. master' = PicCommand(master, "ICW1")
      BY <2>3, Writes DEF Boot, W
    <3>2. master' = [master EXCEPT !.icw = 2, !.mask = {}, !.irr = {}, !.isr = {}]
      BY <3>1 DEF PicCommand
    <3>3. master' \in Pics /\ master'.isr = {} /\ master'.icw = 2
      BY <2>1, <3>2 DEF Pics
    <3> QED BY <1>1, <2>3, <3>3
  <2>4. CASE pc = 4
    <3>1. master' = PicData(master, Byte(IRQ_OFFSET_MASTER)) /\ master.icw = 2
      BY <2>4, Writes DEF Boot, W, IInv, Progress
    <3>2. master' = [master EXCEPT !.offset = IRQ_OFFSET_MASTER, !.icw = 3]
      <4>1. Byte(IRQ_OFFSET_MASTER).number = IRQ_OFFSET_MASTER
        BY DEF Byte
      <4> QED BY <3>1, <4>1 DEF PicData
    <3>3. master' \in Pics /\ master'.isr = {} /\ master'.icw = 3
          /\ master'.offset = IRQ_OFFSET_MASTER
      BY <1>2, <2>1, <3>2 DEF Pics
    <3> QED BY <1>1, <2>4, <3>3
  <2>5. CASE pc = 6
    <3>1. master' = PicData(master, Byte(4)) /\ master.icw = 3
      BY <2>5, Writes DEF Boot, W, IInv, Progress
    <3> QED BY <1>1, <1>2, <2>1, <2>5, <3>1 DEF PicData, Pics, IInv, Progress
  <2>6. CASE pc = 8
    <3>1. master' = PicData(master, Byte(1)) /\ master.icw = 4
      BY <2>6, Writes DEF Boot, W, IInv, Progress
    <3> QED BY <1>1, <1>2, <2>1, <2>6, <3>1 DEF PicData, Pics, IInv, Progress
  <2>7. CASE pc = 10
    <3>1. master' = PicData(master, Byte(255)) /\ master.icw = 0
      BY <2>7, Writes DEF Boot, W, IInv, Progress
    <3> QED BY <1>1, <1>2, <2>1, <2>7, <3>1, Masks DEF PicData, Pics, IInv, Progress, AllMasked
  <2>8. CASE pc = 15
    <3>1. master' = PicData(master, Byte(254)) /\ master.icw = 0
      BY <2>8, Writes DEF Boot, W, IInv, Progress
    <3>2. master' = [master EXCEPT !.mask = NotTimer]
      BY <3>1, Masks DEF PicData
    <3>3. master.offset = IRQ_OFFSET_MASTER
      BY <2>8 DEF IInv, Progress
    <3>4. /\ master' \in Pics /\ master'.isr = {} /\ master'.icw = 0
          /\ master'.offset = IRQ_OFFSET_MASTER /\ master'.mask = NotTimer
      BY <1>2, <2>1, <3>1, <3>2, <3>3 DEF Pics, NotTimer
    <3> QED BY <1>1, <2>8, <3>4
  <2> QED BY <1>1, <2>2, <2>3, <2>4, <2>5, <2>6, <2>7, <2>8
<1>5. /\ slave' \in Pics /\ slave'.icw = 0
      /\ pc' > 11 => slave'.mask = AllMasked
  <2>1. slave \in Pics /\ slave.icw = 0
    BY DEF IInv, Types, Progress
  <2>2. CASE pc \notin {5, 7, 9, 11}
    <3>1. slave' = slave
      BY <1>1, <2>2, Writes DEF Boot, W
    <3> QED BY <1>1, <2>1, <2>2, <3>1 DEF IInv, Progress
  <2>3. CASE pc \in {5, 7, 9}
    <3>1. PICK n : slave' = PicData(slave, Byte(n))
      BY <2>3, Writes DEF Boot, W
    <3> QED BY <1>1, <2>1, <2>3, <3>1 DEF PicData, Pics, Byte
  <2>4. CASE pc = 11
    <3>1. slave' = PicData(slave, Byte(255))
      BY <2>4, Writes DEF Boot, W
    <3> QED BY <2>1, <3>1, Masks DEF PicData, Pics, AllMasked
  <2> QED BY <2>2, <2>3, <2>4
<1>6. /\ pit' \in [mode : Int, access : Int, half : {"low", "high"}, low : Int, count : Int]
      /\ pc' > 12 => pit'.mode = 2 /\ pit'.access = LoHi
      /\ pc' > 12 => pit'.half = IF pc' = 14 THEN "high" ELSE "low"
      /\ pc' > 13 => pit'.low = Counter[2]
      /\ pc' > 14 => pit'.count = Counter[1] * 256 + Counter[2]
  <2>1. pit \in [mode : Int, access : Int, half : {"low", "high"}, low : Int, count : Int]
    BY DEF IInv, Types
  <2>2. Counter[1] \in Int /\ Counter[2] \in Int
    BY FrequenciesAssumption, SMT
    DEF IInv, Types, Counter, make_asymptotic_counter_value
  <2>3. CASE pc \notin {12, 13, 14}
    <3>1. pit' = pit
      BY <1>1, <2>3, Writes DEF Boot, W
    <3>2. CASE pc < 12
      BY <1>1, <2>1, <3>1, <3>2
    <3>3. CASE pc > 14
      <4>1. /\ pit.mode = 2 /\ pit.access = LoHi /\ pit.half = "low"
            /\ pit.low = Counter[2] /\ pit.count = Counter[1] * 256 + Counter[2]
        BY <1>1, <3>3 DEF IInv, Progress
      <4> QED BY <1>1, <2>1, <3>1, <3>3, <4>1
    <3> QED BY <1>1, <2>3, <3>2, <3>3
  <2>4. CASE pc = 12
    <3>1. pit' = PitCommand(ModeCommandRegister)
      BY <2>4, Writes DEF Boot, W
    <3>2. pit' = [mode |-> 2, access |-> LoHi, half |-> "low", low |-> 0, count |-> 0]
      BY <3>1 DEF PitCommand, ModeCommandRegister, LoHi
    <3> QED BY <1>1, <2>4, <3>2 DEF LoHi
  <2>5. CASE pc = 13
    <3>1. pit' = PitData(pit, Counter[2])
      BY <2>5, Writes DEF Boot, W
    <3>2. pit.half = "low" /\ pit.mode = 2 /\ pit.access = LoHi
      BY <2>5 DEF IInv, Progress
    <3>3. pit' = [pit EXCEPT !.low = Counter[2], !.half = "high"]
      BY <3>1, <3>2 DEF PitData
    <3>4. /\ pit' \in [mode : Int, access : Int, half : {"low", "high"}, low : Int, count : Int]
          /\ pit'.mode = 2 /\ pit'.access = LoHi /\ pit'.half = "high"
          /\ pit'.low = Counter[2]
      BY <2>1, <2>2, <3>2, <3>3
    <3> QED BY <1>1, <2>5, <3>4
  <2>6. CASE pc = 14
    <3>1. pit' = PitData(pit, Counter[1])
      BY <2>6, Writes DEF Boot, W
    <3>2. /\ pit.half = "high" /\ pit.mode = 2 /\ pit.access = LoHi
          /\ pit.low = Counter[2]
      BY <2>6 DEF IInv, Progress
    <3> DEFINE n == Counter[1] * 256 + Counter[2]
    <3>3. pit' = [pit EXCEPT !.count = n, !.half = "low"]
      BY <3>1, <3>2 DEF PitData
    <3>4. n \in Int
      BY <2>2
    <3> HIDE DEF n
    <3>5. /\ pit' \in [mode : Int, access : Int, half : {"low", "high"}, low : Int, count : Int]
          /\ pit'.mode = 2 /\ pit'.access = LoHi /\ pit'.half = "low"
          /\ pit'.low = Counter[2] /\ pit'.count = n
      BY <2>1, <3>2, <3>3, <3>4
    <3> QED BY <1>1, <2>6, <3>5 DEF n
  <2> QED BY <2>3, <2>4, <2>5, <2>6
<1>7. Types'
  <2>1. pc' \in 1 .. 17 /\ (timer_frequency_hz \in Frequencies)'
    BY <1>1, <1>2 DEF IInv, Types
  <2>2. (stack \in Seq(Steps) /\ Depth <= MaxDepth)'
    BY <1>1, DepthAssumption DEF Depth
  <2> QED BY <1>4, <1>5, <1>6, <2>1, <2>2 DEF Types
<1>8. Progress'
  <2>1. pc' \in Int /\ pc' > 1
    BY <1>1
  <2>2. (idt <=> (pc > 1))' /\ (IF_flag <=> (pc = 17))'
    BY <1>3, <2>1, Zenon
  <2>3. (master.icw = CASE pc \in {3, 4} -> 2 [] pc \in {5, 6} -> 3 [] pc \in {7, 8} -> 4
                        [] OTHER -> 0)'
    BY <1>4, Zenon
  <2>4. (pc > 4 => master.offset = IRQ_OFFSET_MASTER)' /\ (pc > 15 => master.mask = NotTimer)'
    BY <1>4, Zenon DEF IRQ_OFFSET_MASTER, NotTimer
  <2>5. (slave.icw = 0)' /\ (pc > 11 => slave.mask = AllMasked)'
    BY <1>5, Zenon DEF AllMasked
  <2>6. /\ (pc > 12 => pit.mode = 2 /\ pit.access = LoHi)'
        /\ (pc > 12 => pit.half = IF pc = 14 THEN "high" ELSE "low")'
    BY <1>6, Zenon DEF LoHi
  <2>7. (pc > 13 => pit.low = Counter[2])' /\ (pc > 14 => pit.count = Counter[1] * 256 + Counter[2])'
    BY <1>2, <1>6, Zenon
  <2>8. /\ (pc < 17 => stack = << >> /\ vectors = {} /\ master.isr = {} /\ locks = {})'
        /\ (vectors \subseteq {IRQ_NUMBER_TIMER})'
    BY <1>1, <1>2, <1>4, Zenon
  <2> QED BY <2>2, <2>3, <2>4, <2>5, <2>6, <2>7, <2>8, Zenon DEF Progress
<1>9. Nesting' /\ Holders'
  BY <1>1, <1>2, <1>4 DEF Nesting, Holders, Depth
<1> QED BY <1>7, <1>8, <1>9 DEF IInv

(* A tick changes irr only. *)
LEMMA TickIInv == ASSUME IInv, Tick PROVE IInv'
<1>1. master \in Pics /\ master' = [master EXCEPT !.irr = @ \cup {0}]
  BY DEF IInv, Types, Tick
<1>2. /\ master' \in Pics /\ master'.icw = master.icw /\ master'.offset = master.offset
      /\ master'.mask = master.mask /\ master'.isr = master.isr
  BY <1>1 DEF Pics
<1>3. UNCHANGED <<timer_frequency_hz, pc, slave, pit, idt, IF_flag, stack, locks, vectors>>
  BY DEF Tick
<1>4. Counter' = Counter /\ Depth' = Depth
  BY <1>3 DEF Counter, Depth
<1>5. Types'
  BY <1>2, <1>3, <1>4 DEF IInv, Types
<1>6. Progress'
  BY <1>2, <1>3, <1>4 DEF IInv, Progress
<1>7. Nesting' /\ Holders'
  BY <1>2, <1>3, <1>4 DEF IInv, Nesting, Holders
<1> QED BY <1>5, <1>6, <1>7 DEF IInv

(* The PIC delivers only when nothing is in service. *)
LEMMA DeliverIInv == ASSUME IInv, Deliver PROVE IInv'
<1>1. master \in Pics /\ stack \in Seq(Steps) /\ pc \in 1 .. 17
  BY DEF IInv, Types
<1>2. master' = [master EXCEPT !.irr = @ \ {0}, !.isr = @ \cup {0}]
  BY DEF Deliver
<1>3. /\ master' \in Pics /\ master'.icw = master.icw /\ master'.offset = master.offset
      /\ master'.mask = master.mask /\ 0 \in master'.isr
  BY <1>1, <1>2 DEF Pics
<1>4. UNCHANGED <<timer_frequency_hz, pc, slave, pit, idt, IF_flag, locks>>
  BY DEF Deliver
<1>5. Counter' = Counter
  BY <1>4 DEF Counter
<1>6. pc = 17
  BY DEF Deliver, IInv, Progress
<1>7. 0 \notin master.isr /\ Depth < MaxDepth
  BY DEF Deliver
<1>8. stack' = Append(stack, "switch_context")
  BY DEF Deliver, HandlerSteps
<1>9. /\ stack' \in Seq(Steps) /\ Depth' = Depth + 1 /\ Depth \in Nat
      /\ stack'[Depth'] = "switch_context"
      /\ \A k \in 1 .. Depth : stack'[k] = stack[k]
  BY <1>1, <1>8 DEF Depth, Steps
<1>10. \A k \in 1 .. Depth : stack[k] \notin BeforeEoi
  BY <1>7, <1>9 DEF IInv, Nesting
<1>11. Types'
  <2>1. (Depth <= MaxDepth)'
    BY <1>7, <1>9, DepthAssumption
  <2> QED BY <1>3, <1>4, <1>9, <2>1 DEF IInv, Types
<1>12. vectors' \subseteq {IRQ_NUMBER_TIMER}
  BY <1>6 DEF Deliver, IInv, Progress, IRQ_NUMBER_TIMER, IRQ_OFFSET_MASTER
<1>13. Progress'
  BY <1>3, <1>4, <1>5, <1>6, <1>12 DEF IInv, Progress
<1>14. Nesting'
  BY <1>3, <1>9, <1>10 DEF Nesting, BeforeEoi
<1>15. Holders'
  BY <1>4, <1>9 DEF IInv, Holders
<1> QED BY <1>11, <1>13, <1>14, <1>15 DEF IInv

-------------------------------------------------------------------------------
(* The innermost handler goes from step k to step k + 1. *)
LEMMA AdvanceTop ==
  ASSUME IInv, NEW k \in 1 .. 5, At(HandlerSteps[k]), Advance
  PROVE  /\ Depth \in Nat \ {0} /\ stack[Depth] = HandlerSteps[k]
         /\ stack' \in Seq(Steps) /\ Depth' = Depth
         /\ stack'[Depth] = HandlerSteps[k + 1]
         /\ \A j \in 1 .. (Depth - 1) : stack'[j] = stack[j]
<1>1. stack \in Seq(Steps) /\ Depth \in Nat /\ Depth > 0
  BY DEF IInv, Types, At, Depth
<1>2. stack[Depth] = HandlerSteps[k] /\ Last(stack) = HandlerSteps[k]
  BY <1>1 DEF At, Last, Depth
<1>3. DOMAIN HandlerSteps = 1 .. 6
  BY DEF HandlerSteps
<1>4. \A j \in 1 .. 6 : HandlerSteps[j] = HandlerSteps[k] => j = k
  BY DEF HandlerSteps
<1>5. (CHOOSE j \in DOMAIN HandlerSteps : HandlerSteps[j] = Last(stack)) = k
  BY <1>2, <1>3, <1>4
<1>6. stack' = [stack EXCEPT ![Depth] = HandlerSteps[k + 1]]
  BY <1>5 DEF Advance
<1>7. HandlerSteps[k + 1] \in Steps
  BY DEF HandlerSteps, Steps
<1> HIDE DEF HandlerSteps
<1> QED BY <1>1, <1>2, <1>6, <1>7 DEF Depth

(* What remains to be shown of a step of the innermost handler: a step that
   leaves the PIC alone does not cross its end of interrupt, and a lock is
   held across exactly the steps between its lock and its unlock. *)
LEMMA HandlerStepIInv ==
  ASSUME IInv, NEW k \in 1 .. 5, At(HandlerSteps[k]), Advance,
         UNCHANGED <<timer_frequency_hz, pc, slave, pit, idt, IF_flag, vectors>>,
         master' \in Pics, master'.icw = master.icw, master'.offset = master.offset,
         master'.mask = master.mask,
         0 \in master'.isr <=> HandlerSteps[k + 1] \in BeforeEoi,
         \A h \in locks' :
           \/ h \in locks /\ h[2] # Depth
           \/ /\ h[2] = Depth
              /\ \/ h[1] = "PROCESS_MANAGER" /\ k = 1
                 \/ h[1] = "MASTER_COMMAND_PORT" /\ k \in {3, 4}
  PROVE  IInv'
<1>1. /\ Depth \in Nat \ {0} /\ stack[Depth] = HandlerSteps[k]
      /\ stack' \in Seq(Steps) /\ Depth' = Depth
      /\ stack'[Depth] = HandlerSteps[k + 1]
      /\ \A j \in 1 .. (Depth - 1) : stack'[j] = stack[j]
  BY AdvanceTop
<1>2. Counter' = Counter
  BY DEF Counter
<1>3. pc = 17
  <2>1. Depth = 0 => ~(Depth \in Nat \ {0})
    OBVIOUS
  <2>2. stack = << >> => Depth = 0
    BY DEF Depth
  <2>3. pc \in 1 .. 17 /\ (pc < 17 => stack = << >>)
    BY DEF IInv, Progress, Types
  <2>4. ~(pc < 17)
    BY <1>1, <2>1, <2>2, <2>3
  <2> QED BY <2>3, <2>4
<1>4. Types'
  BY <1>1 DEF IInv, Types
<1>5. Progress'
  BY <1>2, <1>3 DEF IInv, Progress
<1>6. Nesting'
  BY <1>1 DEF IInv, Nesting
<1>7. Holders'
  <2> SUFFICES ASSUME NEW h \in locks'
               PROVE  /\ h[2] \in 1 .. Depth
                      /\ \/ h[1] = "PROCESS_MANAGER" /\ stack'[h[2]] = "unlock_manager"
                         \/ /\ h[1] = "MASTER_COMMAND_PORT"
                            /\ stack'[h[2]] \in {"eoi", "unlock_port"}
    BY <1>1 DEF Holders
  <2>1. CASE h \in locks /\ h[2] # Depth
    BY <1>1, <2>1 DEF IInv, Holders
  <2>2. CASE h[2] = Depth /\ h[1] = "PROCESS_MANAGER" /\ k = 1
    BY <1>1, <2>2 DEF HandlerSteps
  <2>3. CASE h[2] = Depth /\ h[1] = "MASTER_COMMAND_PORT" /\ k \in {3, 4}
    BY <1>1, <2>3 DEF HandlerSteps
  <2> QED BY <2>1, <2>2, <2>3
<1> QED BY <1>4, <1>5, <1>6, <1>7 DEF IInv

(* What the innermost handler's step says about the PIC and the locks. *)
LEMMA TopFacts ==
  ASSUME IInv, NEW k \in 1 .. 6, At(HandlerSteps[k])
  PROVE  /\ stack[Depth] = HandlerSteps[k] /\ Depth \in Nat \ {0}
         /\ 0 \in master.isr <=> HandlerSteps[k] \in BeforeEoi
         /\ \A h \in locks :
              h[2] = Depth => \/ h[1] = "PROCESS_MANAGER" /\ k = 2
                              \/ h[1] = "MASTER_COMMAND_PORT" /\ k \in {4, 5}
<1>1. stack[Depth] = HandlerSteps[k] /\ Depth \in Nat \ {0}
  BY DEF IInv, Types, At, Depth, Last
<1>2. 0 \in master.isr <=> HandlerSteps[k] \in BeforeEoi
  BY <1>1 DEF IInv, Nesting
<1>3. ASSUME NEW h \in locks, h[2] = Depth
      PROVE  \/ h[1] = "PROCESS_MANAGER" /\ k = 2
             \/ h[1] = "MASTER_COMMAND_PORT" /\ k \in {4, 5}
  BY <1>1, <1>3 DEF IInv, Holders, HandlerSteps
<1> QED BY <1>1, <1>2, <1>3

(* process::switch_context takes the lock and gives it back, while the
   interrupt is in service. *)
LEMMA ManagerIInv == ASSUME IInv, LockManager \/ UnlockManager PROVE IInv'
<1>1. /\ UNCHANGED <<timer_frequency_hz, pc, slave, pit, idt, IF_flag, vectors>>
      /\ master' = master /\ master \in Pics /\ Advance
  BY DEF LockManager, UnlockManager, IInv, Types
<1>2. CASE LockManager
  <2>1. At(HandlerSteps[1]) /\ locks' = locks \cup {<<"PROCESS_MANAGER", Depth>>}
    BY <1>2 DEF LockManager, Lock, HandlerSteps
  <2>2. 0 \in master'.isr <=> HandlerSteps[1 + 1] \in BeforeEoi
    BY <1>1, <2>1, TopFacts DEF HandlerSteps, BeforeEoi
  <2>3. \A h \in locks : h[2] # Depth
    BY <2>1, TopFacts
  <2> QED BY <1>1, <2>1, <2>2, <2>3, HandlerStepIInv
<1>3. CASE UnlockManager
  <2>1. At(HandlerSteps[2]) /\ locks' = {x \in locks : x[1] # "PROCESS_MANAGER"}
    BY <1>3 DEF UnlockManager, Unlock, HandlerSteps
  <2>2. 0 \in master'.isr <=> HandlerSteps[2 + 1] \in BeforeEoi
    BY <1>1, <2>1, TopFacts DEF HandlerSteps, BeforeEoi
  <2>3. \A h \in locks' : h \in locks /\ h[2] # Depth
    BY <2>1, TopFacts
  <2> QED BY <1>1, <2>1, <2>2, <2>3, HandlerStepIInv
<1> QED BY <1>2, <1>3

(* send_end_of_interrupt: the lock of the port, the write, the unlock. *)
LEMMA PortIInv ==
  ASSUME IInv, LockPort \/ EndOfInterrupt \/ UnlockPort PROVE IInv'
<1>1. /\ UNCHANGED <<timer_frequency_hz, pc, slave, pit, idt, IF_flag, vectors>>
      /\ master \in Pics /\ Advance
  BY DEF LockPort, EndOfInterrupt, UnlockPort, IInv, Types
<1>2. CASE LockPort
  <2>1. /\ At(HandlerSteps[3]) /\ locks' = locks \cup {<<"MASTER_COMMAND_PORT", Depth>>}
        /\ master' = master
    BY <1>2 DEF LockPort, Lock, HandlerSteps
  <2>2. 0 \in master'.isr <=> HandlerSteps[3 + 1] \in BeforeEoi
    BY <2>1, TopFacts DEF HandlerSteps, BeforeEoi
  <2>3. \A h \in locks : h[2] # Depth
    BY <2>1, TopFacts
  <2> QED BY <1>1, <2>1, <2>2, <2>3, HandlerStepIInv
<1>3. CASE EndOfInterrupt
  <2>1. At(HandlerSteps[4]) /\ locks' = locks
    BY <1>3 DEF EndOfInterrupt, HandlerSteps
  <2>2. master' = [master EXCEPT !.isr = {}]
    <3>1. master.isr = {0}
      BY <1>1, <2>1, TopFacts DEF HandlerSteps, BeforeEoi, Pics
    <3>2. (CHOOSE x \in {0} : \A y \in {0} : x <= y) = 0
      OBVIOUS
    <3>3. master' = [master EXCEPT !.isr = IF @ = {} THEN {}
                                 ELSE @ \ {CHOOSE x \in @ : \A y \in @ : x <= y}]
      BY <1>3 DEF EndOfInterrupt, PicCommand
    <3> QED BY <3>1, <3>2, <3>3
  <2>3. /\ master' \in Pics /\ master'.icw = master.icw /\ master'.offset = master.offset
        /\ master'.mask = master.mask /\ master'.isr = {}
    BY <1>1, <2>2 DEF Pics
  <2>4. 0 \in master'.isr <=> HandlerSteps[4 + 1] \in BeforeEoi
    BY <2>3 DEF HandlerSteps, BeforeEoi
  <2>5. \A h \in locks' :
          h[2] = Depth => h[1] = "MASTER_COMMAND_PORT"
    BY <2>1, TopFacts
  <2> QED BY <1>1, <2>1, <2>3, <2>4, <2>5, HandlerStepIInv
<1>4. CASE UnlockPort
  <2>1. /\ At(HandlerSteps[5]) /\ locks' = {x \in locks : x[1] # "MASTER_COMMAND_PORT"}
        /\ master' = master
    BY <1>4 DEF UnlockPort, Unlock, HandlerSteps
  <2>2. 0 \in master'.isr <=> HandlerSteps[5 + 1] \in BeforeEoi
    BY <2>1, TopFacts DEF HandlerSteps, BeforeEoi
  <2>3. \A h \in locks' : h \in locks /\ h[2] # Depth
    BY <2>1, TopFacts
  <2> QED BY <1>1, <2>1, <2>2, <2>3, HandlerStepIInv
<1> QED BY <1>2, <1>3, <1>4

(* What is left of a stack when its top is gone. *)
LEMMA FrontProperties ==
  ASSUME NEW S, NEW s \in Seq(S), Len(s) > 0
  PROVE  /\ Front(s) \in Seq(S) /\ Len(Front(s)) = Len(s) - 1
         /\ \A j \in 1 .. (Len(s) - 1) : Front(s)[j] = s[j]
<1> DEFINE n == Len(s) - 1
<1>1. n \in Nat /\ \A j \in 1 .. n : s[j] \in S
  OBVIOUS
<1>2. Front(s) = SubSeq(s, 1, n)
  BY DEF Front
<1> HIDE DEF n
<1>3. /\ SubSeq(s, 1, n) \in Seq(S)
      /\ Len(SubSeq(s, 1, n)) = IF 1 <= n THEN n - 1 + 1 ELSE 0
      /\ \A j \in 1 .. (n - 1 + 1) : SubSeq(s, 1, n)[j] = s[1 + j - 1]
  BY <1>1, SubSeqProperties
<1>4. Front(s) \in Seq(S) /\ Len(Front(s)) = n
  BY <1>1, <1>2, <1>3
<1>5. ASSUME NEW j \in 1 .. n PROVE Front(s)[j] = s[j]
  <2>1. j \in 1 .. (n - 1 + 1) /\ 1 + j - 1 = j
    BY <1>1
  <2> QED BY <1>2, <1>3, <2>1
<1> QED BY <1>4, <1>5 DEF n

(* The return: the handler below, if any, has announced its end. *)
LEMMA IretIInv == ASSUME IInv, Iret PROVE IInv'
<1>1. UNCHANGED <<timer_frequency_hz, pc, master, slave, pit, idt, IF_flag, locks, vectors>>
  BY DEF Iret
<1>2. At(HandlerSteps[6])
  BY DEF Iret, HandlerSteps
<1>3. stack \in Seq(Steps) /\ Depth \in Nat \ {0} /\ 0 \notin master.isr
  BY <1>2, TopFacts DEF IInv, Types, HandlerSteps, BeforeEoi
<1>4. /\ stack' \in Seq(Steps) /\ Depth' = Depth - 1
      /\ \A j \in 1 .. (Depth - 1) : stack'[j] = stack[j]
  BY <1>3, FrontProperties DEF Iret, Depth
<1>5. \A h \in locks : h[2] \in 1 .. (Depth - 1)
  BY <1>2, <1>3, TopFacts DEF IInv, Holders
<1>6. Counter' = Counter
  BY <1>1 DEF Counter
<1>7. Types'
  <2>1. (Depth <= MaxDepth)'
    BY <1>3, <1>4, DepthAssumption DEF IInv, Types
  <2> QED BY <1>1, <1>4, <2>1 DEF IInv, Types
<1>8. pc = 17
  <2>1. pc \in 1 .. 17 /\ (pc < 17 => stack = << >>)
    BY DEF IInv, Progress, Types
  <2>2. stack # << >>
    BY <1>3 DEF Depth
  <2> QED BY <2>1, <2>2
<1>9. Progress'
  BY <1>1, <1>6, <1>8 DEF IInv, Progress
<1>10. Nesting'
  <2>1. \A j \in 1 .. (Depth - 1) : stack[j] \notin BeforeEoi
    BY DEF IInv, Nesting
  <2> QED BY <1>1, <1>3, <1>4, <2>1 DEF Nesting
<1>11. Holders'
  BY <1>1, <1>3, <1>4, <1>5 DEF IInv, Holders
<1> QED BY <1>7, <1>9, <1>10, <1>11 DEF IInv

(* Every step preserves the invariant. *)
LEMMA NextIInv == IInv /\ [Next]_vars => IInv'
<1> SUFFICES ASSUME IInv, [Next]_vars PROVE IInv'
  OBVIOUS
<1>1. CASE UNCHANGED vars
  <2>1. Counter' = Counter /\ Depth' = Depth
    BY <1>1 DEF vars, Counter, Depth
  <2>2. Types'
    BY <1>1, <2>1 DEF vars, IInv, Types
  <2>3. Progress'
    BY <1>1, <2>1 DEF vars, IInv, Progress
  <2>4. Nesting' /\ Holders'
    BY <1>1, <2>1 DEF vars, IInv, Nesting, Holders
  <2> QED BY <2>2, <2>3, <2>4 DEF IInv
<1> QED BY <1>1, BootIInv, TickIInv, DeliverIInv, ManagerIInv, PortIInv, IretIInv
        DEF Next, Handler

(* The invariant above holds in every state. *)
THEOREM InvariantHolds == Spec => []IInv
  BY InitIInv, NextIInv, PTL DEF Spec

-------------------------------------------------------------------------------
(* Every lock is held by a context that runs, the nesting stays bounded, and
   the PIC is in a state the boot code put it in. *)
THEOREM TypeCorrect == Spec => []TypeOK
<1>1. IInv => TypeOK
  <2> SUFFICES ASSUME IInv PROVE TypeOK
    OBVIOUS
  <2>1. pc \in 1 .. (Len(BootWrites) + 1)
    BY Writes DEF IInv, Types
  <2>2. master.icw \in {0, 2, 3, 4} /\ master.irr \subseteq {0} /\ master.isr \subseteq {0}
    BY DEF IInv, Types, Pics
  <2>3. Depth <= MaxDepth /\ \A h \in locks : h[2] \in 0 .. Depth
    BY DEF IInv, Types, Holders
  <2> QED BY <2>1, <2>2, <2>3 DEF TypeOK
<1> QED BY <1>1, InvariantHolds, PTL

(* pic::init and interrupt::init: the timer never arrives at the vector of an
   exception, and not before the descriptor table is loaded. *)
THEOREM TimerAtItsVector == Spec => []TimerVectorOnly
<1>1. IInv => TimerVectorOnly
  <2> SUFFICES ASSUME IInv PROVE TimerVectorOnly
    OBVIOUS
  <2>1. pc \in 1 .. 17 /\ (pc < 17 => vectors = {})
    BY DEF IInv, Types, Progress
  <2>2. pc > 1 => idt
    BY DEF IInv, Progress
  <2>3. vectors \subseteq {IRQ_NUMBER_TIMER}
    BY DEF IInv, Progress
  <2> QED BY <2>1, <2>2, <2>3 DEF TimerVectorOnly
<1> QED BY <1>1, InvariantHolds, PTL

(* pit::init: interrupts are enabled only with the masks set and the timer at
   the rate asked for, for every frequency that mode 2 can be set to. *)
THEOREM ReadyBeforeEnabled == Spec => []EnabledWhenReady
<1>1. IInv => EnabledWhenReady
  <2> SUFFICES ASSUME IInv, IF_flag PROVE EnabledWhenReady
    BY DEF EnabledWhenReady
  <2>1. pc = 17
    BY DEF IInv, Progress
  <2>2. pit.mode = 2 /\ pit.access = LoHi /\ pit.half = "low"
    BY <2>1 DEF IInv, Progress
  <2>3. master.mask = NotTimer /\ slave.mask = AllMasked
    BY <2>1 DEF IInv, Progress
  <2>4. pit.count = Counter[1] * 256 + Counter[2] /\ timer_frequency_hz \in Frequencies
    BY <2>1 DEF IInv, Progress, Types
  <2>5. PICK c \in Nat :
          /\ Counter[1] * 256 + Counter[2] = c
          /\ 2 <= c /\ c < 65536
          /\ 3 * timer_frequency_hz * c <= 3579545
          /\ 3 * timer_frequency_hz * (c + 1) > 3579545
    BY <2>4, CounterValue, SMT DEF Counter
  <2>6. pit.count = c
    BY <2>4, <2>5, SMT
  <2> QED BY <2>2, <2>3, <2>5, <2>6, SMT DEF EnabledWhenReady
<1> QED BY <1>1, InvariantHolds, PTL

(* timer_handler: a nested handler never waits for the process manager, for
   every depth of nesting. *)
THEOREM ManagerFree == Spec => []ManagerNeverContended
<1>1. IInv => ManagerNeverContended
  <2> SUFFICES ASSUME IInv, At("switch_context"), NEW h \in locks,
                      h[1] = "PROCESS_MANAGER"
               PROVE  FALSE
    BY DEF ManagerNeverContended, Held
  <2>1. Depth \in Nat \ {0} /\ stack[Depth] = "switch_context"
    BY DEF IInv, Types, At, Depth, Last
  <2>2. h[2] \in 1 .. Depth /\ stack[h[2]] = "unlock_manager"
    BY DEF IInv, Holders
  <2>3. h[2] = Depth
    BY <2>1, <2>2 DEF IInv, Nesting, BeforeEoi
  <2> QED BY <2>1, <2>2, <2>3
<1> QED BY <1>1, InvariantHolds, PTL
=============================================================================
