------------------------------ MODULE ArmTimer ------------------------------
(***************************************************************************)
(* Waiting on the arm11 port, src/src/arch/arm11/peripheral/timer.rs.      *)
(*                                                                         *)
(* The 64-bit counter of microseconds is read as two registers, the low    *)
(* half first, while it runs.  `clock` is the counter from the beginning   *)
(* of a wait on, taken modulo what happened before: any low half, and a    *)
(* high half that only counts the carries since.                           *)
(***************************************************************************)
EXTENDS Integers

CONSTANTS
  L,        \* the values of the low half (2^32)
  Usec,     \* the length of a wait, in ticks of the counter
  Delay     \* bound: ticks before the first read of a wait is over

ASSUME TimerAssumption ==
  L \in Nat \ {0} /\ Usec \in Nat \ {0} /\ Delay \in Nat

VARIABLES
  clock,    \* the counter
  reader,   \* wait_usec: where it is, the half it read, when it began
  torn      \* whether a carry ever came between the reads of two halves

timer == <<clock, reader, torn>>

NotWaiting == [at |-> "idle", lo |-> 0, hi |-> 0, begin |-> 0, start |-> 0]

TimerInit == clock = 0 /\ reader = NotWaiting /\ torn = FALSE

Waiting == reader.at # "idle"

StartWait ==
  /\ ~Waiting
  /\ \E c \in 0 .. (L - 1) :
       /\ clock' = c
       /\ reader' = [NotWaiting EXCEPT !.at = "begin_lo", !.start = c]
  /\ UNCHANGED torn

(* get_time_counter_value: the low half, then the high half.  `hi` is what
   the high half was then, for torn. *)
LoadLo ==
  /\ reader.at \in {"begin_lo", "now_lo"}
  /\ reader' = [reader EXCEPT !.lo = clock % L, !.hi = clock \div L,
                  !.at = IF @ = "begin_lo" THEN "begin_hi" ELSE "now_hi"]
  /\ UNCHANGED <<clock, torn>>

ValueLowOnly(hi, lo) == lo             \* mutant: hi << 32 is lost
Value(hi, lo) == hi * L + lo

(* wait_usec, when it has read the time v: the beginning, or the time to
   compare with it.  A negative difference panics. *)
Read(v) ==
  [reader EXCEPT
    !.lo = 0, !.hi = 0,
    !.begin = IF reader.at = "begin_hi" THEN v ELSE @,
    !.at = CASE reader.at = "begin_hi"   -> "now_lo"
             [] reader.at = "now_hi" /\ v < reader.begin -> "panic"
             [] reader.at = "now_hi" /\ Usec <= v - reader.begin -> "done"
             [] OTHER -> "now_lo"]

LoadHi ==
  /\ reader.at \in {"begin_hi", "now_hi"}
  /\ reader' = Read(Value(clock \div L, reader.lo))
  /\ torn' = (torn \/ clock \div L # reader.hi)
  /\ UNCHANGED clock

EndWait ==
  /\ reader.at = "done"
  /\ clock' = 0 /\ reader' = NotWaiting
  /\ UNCHANGED torn

(* The counter runs by itself, up to where every wait is over: a torn
   beginning is L too late. *)
Began == reader.at \notin {"begin_lo", "begin_hi"}
Tick ==
  /\ Waiting /\ reader.at \notin {"done", "panic"}
  /\ clock < reader.start + Delay + (IF Began THEN Usec + L ELSE 0)
  /\ clock' = clock + 1
  /\ UNCHANGED <<reader, torn>>

TimerStep == LoadLo \/ LoadHi
Elapsed   == clock - reader.start

(***************************************************************************)
(* A wait lasts as long as it was asked to, and never panics, also when    *)
(* the low half overflows during it, unless the carry came just between    *)
(* the reads of the two halves.                                            *)
(***************************************************************************)
WaitsFull ==
  ~torn => (reader.at # "panic" /\ (reader.at = "done" => Usec <= Elapsed))
=============================================================================
