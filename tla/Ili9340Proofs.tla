---------------------------- MODULE Ili9340Proofs ----------------------------
(***************************************************************************)
(* The waits of the arm11 port, for every length of a wait and every width *)
(* of the counter's low half, as the display's driver makes them.          *)
(*                                                                         *)
(* `Ordered` puts what the reader has read so far, the beginning of its    *)
(* wait and the counter in order.  Nothing is left of it once a carry came *)
(* between the reads of two halves, and `torn` remembers that.             *)
(***************************************************************************)
EXTENDS Ili9340, TLAPS

Places == {"idle", "begin_lo", "begin_hi", "now_lo", "now_hi", "done", "panic"}

Ordered ==
  /\ clock \in Nat
  /\ reader \in [at : Places, lo : Nat, hi : Nat, begin : Nat, start : Nat]
  /\ reader.at # "panic"
  /\ reader.start <= clock \/ reader.at = "idle"
  /\ reader.at = "begin_hi" => reader.start <= reader.hi * L + reader.lo
  /\ reader.at \in {"begin_hi", "now_hi"} => reader.hi * L + reader.lo <= clock
  /\ reader.at \in {"now_lo", "now_hi"} => reader.start <= reader.begin /\ reader.begin <= clock
  /\ reader.at = "now_hi" => reader.begin <= reader.hi * L + reader.lo
  /\ reader.at = "done" => Usec <= clock - reader.start

WInv == torn \/ Ordered

(* The two halves of a counter make up its value. *)
LEMMA Halves ==
  ASSUME NEW c \in Nat
  PROVE  \E q, r \in Nat : q = c \div L /\ r = c % L /\ q * L + r = c
<1>1. L \in Nat \ {0}
  BY TimerAssumption
<1>2. c \div L \in Nat /\ c % L \in Nat
  BY <1>1
<1>3. c % L = c - L * (c \div L)
  BY <1>1
<1>4. PICK q \in Nat : q = c \div L
  BY <1>2
<1>5. PICK r \in Nat : r = c % L
  BY <1>2
<1>6. r = c - L * q
  BY <1>3, <1>4, <1>5, Zenon
<1>7. q * L + r = c
  BY <1>1, <1>6
<1> QED BY <1>4, <1>5, <1>7, Zenon

LEMMA StartWaitWInv == ASSUME WInv, StartWait PROVE WInv'
<1>1. CASE torn
  BY <1>1 DEF StartWait, WInv
<1>2. CASE ~torn
  <2>1. PICK c \in 0 .. (L - 1) :
          clock' = c /\ reader' = [NotWaiting EXCEPT !.at = "begin_lo", !.start = c]
    BY DEF StartWait
  <2>2. c \in Nat
    BY TimerAssumption
  <2>3. reader' = [at |-> "begin_lo", lo |-> 0, hi |-> 0, begin |-> 0, start |-> c]
    BY <2>1 DEF NotWaiting
  <2>4. Ordered'
    BY <2>1, <2>2, <2>3 DEF Ordered, Places
  <2> QED BY <2>4 DEF WInv
<1> QED BY <1>1, <1>2

LEMMA LoadLoWInv == ASSUME WInv, LoadLo PROVE WInv'
<1>1. CASE torn
  BY <1>1 DEF LoadLo, WInv
<1>2. CASE ~torn
  <2>1. Ordered
    BY <1>2 DEF WInv
  <2>2. clock \in Nat /\ clock' = clock
    BY <2>1 DEF Ordered, LoadLo
  <2>3. PICK q, m \in Nat : q = clock \div L /\ m = clock % L /\ q * L + m = clock
    BY <2>2, Halves
  <2> DEFINE at == IF reader.at = "begin_lo" THEN "begin_hi" ELSE "now_hi"
  <2>4. reader' = [reader EXCEPT !.lo = m, !.hi = q, !.at = at]
    BY <2>3, Zenon DEF LoadLo
  <2>5. reader.at \in {"begin_lo", "now_lo"} /\ reader.begin \in Nat /\ reader.start \in Nat
    BY <2>1 DEF LoadLo, Ordered
  <2>6. /\ reader' \in [at : Places, lo : Nat, hi : Nat, begin : Nat, start : Nat]
        /\ reader'.at = at /\ reader'.begin = reader.begin /\ reader'.start = reader.start
        /\ reader'.hi * L + reader'.lo = clock
    <3>1. reader' = [at |-> at, lo |-> m, hi |-> q,
                     begin |-> reader.begin, start |-> reader.start]
      BY <2>1, <2>4 DEF Ordered
    <3>2. at \in Places
      BY DEF Places
    <3> HIDE DEF at
    <3> QED BY <2>3, <2>5, <3>1, <3>2
  <2>7. /\ reader.start <= clock
        /\ reader.at = "now_lo" => reader.start <= reader.begin /\ reader.begin <= clock
    BY <2>1, <2>5 DEF Ordered
  <2>8. Ordered'
    BY <2>2, <2>5, <2>6, <2>7 DEF Ordered
  <2> QED BY <2>8 DEF WInv
<1> QED BY <1>1, <1>2

(* The whole value is in order with the beginning, unless the carry came. *)
LEMMA LoadHiWInv == ASSUME WInv, LoadHi PROVE WInv'
<1>1. SUFFICES ASSUME ~torn' PROVE WInv'
  BY DEF WInv
<1>2. ~torn /\ clock \div L = reader.hi
  BY <1>1 DEF LoadHi
<1>3. Ordered
  BY <1>2 DEF WInv
<1> DEFINE v == reader.hi * L + reader.lo
<1>4. /\ reader.at \in {"begin_hi", "now_hi"} /\ clock' = clock /\ reader' = Read(v)
  BY <1>2 DEF LoadHi, Value
<1>5. /\ v \in Nat /\ clock \in Nat /\ reader.begin \in Nat /\ reader.start \in Nat
      /\ v <= clock /\ reader.start <= clock /\ Usec \in Nat
  BY <1>3, <1>4, TimerAssumption DEF Ordered
<1>6. reader \in [at : Places, lo : Nat, hi : Nat, begin : Nat, start : Nat]
  BY <1>3 DEF Ordered
<1>7. CASE reader.at = "begin_hi"
  <2>1. reader' = [at |-> "now_lo", lo |-> 0, hi |-> 0, begin |-> v, start |-> reader.start]
    BY <1>4, <1>6, <1>7 DEF Read
  <2>2. reader.start <= v
    BY <1>3, <1>7 DEF Ordered
  <2> HIDE DEF v
  <2>3. Ordered'
    BY <1>4, <1>5, <2>1, <2>2 DEF Ordered, Places
  <2> QED BY <2>3 DEF WInv
<1>8. CASE reader.at = "now_hi"
  <2>1. reader.begin <= v /\ reader.start <= reader.begin /\ reader.begin <= clock
    BY <1>3, <1>8 DEF Ordered
  <2> DEFINE at == IF Usec <= v - reader.begin THEN "done" ELSE "now_lo"
  <2>2. ~(v < reader.begin)
    BY <1>5, <2>1
  <2>3. reader' = [at |-> at, lo |-> 0, hi |-> 0, begin |-> reader.begin,
                   start |-> reader.start]
    BY <1>4, <1>6, <1>8, <2>2 DEF Read
  <2> HIDE DEF v
  <2>4. Ordered'
    BY <1>4, <1>5, <2>1, <2>3 DEF Ordered, Places
  <2> QED BY <2>4 DEF WInv
<1> QED BY <1>4, <1>7, <1>8

LEMMA EndWaitWInv == ASSUME WInv, EndWait PROVE WInv'
<1>1. reader' = [at |-> "idle", lo |-> 0, hi |-> 0, begin |-> 0, start |-> 0] /\ clock' = 0
  BY DEF EndWait, NotWaiting
<1>2. Ordered'
  BY <1>1 DEF Ordered, Places
<1> QED BY <1>2 DEF WInv

LEMMA TickWInv == ASSUME WInv, Tick PROVE WInv'
<1>1. /\ clock' = clock + 1 /\ reader' = reader /\ torn' = torn
      /\ reader.at \notin {"idle", "done", "panic"}
  BY DEF Tick, Waiting
<1>2. CASE torn
  BY <1>1, <1>2 DEF WInv
<1>3. CASE ~torn
  <2>1. Ordered
    BY <1>3 DEF WInv
  <2>2. /\ clock \in Nat /\ L \in Nat
        /\ reader.lo \in Nat /\ reader.hi \in Nat /\ reader.begin \in Nat /\ reader.start \in Nat
    BY <2>1, TimerAssumption DEF Ordered
  <2> DEFINE v == reader.hi * L + reader.lo
  <2>3. v \in Nat
    BY <2>2
  <2> HIDE DEF v
  <2>4. Ordered'
    BY <1>1, <2>1, <2>2, <2>3 DEF Ordered, v
  <2> QED BY <2>4 DEF WInv
<1> QED BY <1>2, <1>3

LEMMA InitWInv == Init => WInv
<1> SUFFICES ASSUME Init PROVE Ordered
  BY DEF WInv
<1>1. reader = [at |-> "idle", lo |-> 0, hi |-> 0, begin |-> 0, start |-> 0] /\ clock = 0
  BY DEF Init, TimerInit, NotWaiting
<1> QED BY <1>1 DEF Ordered, Places

(* Only the waits, and time, touch the timer. *)
LEMMA NextWInv == WInv /\ [Next]_vars => WInv'
<1> SUFFICES ASSUME WInv, [Next]_vars PROVE WInv'
  OBVIOUS
<1>1. CASE UNCHANGED timer
  BY <1>1 DEF timer, WInv, Ordered
<1>2. CASE BeginWaiting \/ ReadTimer \/ EndWaiting
  BY <1>2, StartWaitWInv, LoadLoWInv, LoadHiWInv, EndWaitWInv
     DEF BeginWaiting, ReadTimer, EndWaiting, TimerStep
<1>3. CASE TimePasses
  BY <1>3, TickWInv DEF TimePasses
<1>4. ASSUME set_pin_function \/ SetDc \/ Start \/ PollTxd \/ WriteFifo \/ PollDone \/ Stop
      PROVE  UNCHANGED timer
  BY <1>4 DEF set_pin_function, SetDc, Start, PollTxd, WriteFifo, PollDone, Stop
<1>5. ASSUME LedClear \/ LedSet \/ Draw PROVE UNCHANGED timer
  BY <1>5 DEF LedClear, LedSet, Blink, Draw
<1>6. ASSUME Controller \/ Recover PROVE UNCHANGED timer
  BY <1>6 DEF Controller, ShiftOut, Arrive, Recover
<1>7. ASSUME UNCHANGED vars PROVE UNCHANGED timer
  BY <1>7 DEF vars
<1> QED BY <1>1, <1>2, <1>3, <1>4, <1>5, <1>6, <1>7 DEF Next, Driver

(* wait_usec returns no earlier than it was asked to and never panics, also
   across an overflow of the low half, unless the carry came between its two
   reads. *)
THEOREM WaitsLastLongEnough == Spec => []WaitsFull
<1>1. WInv => WaitsFull
  BY DEF WInv, Ordered, WaitsFull, Elapsed
<1>2. Init /\ [][Next]_vars => []WInv
  BY InitWInv, NextWInv, PTL
<1> QED BY <1>1, <1>2, PTL DEF Spec
==============================================================================
