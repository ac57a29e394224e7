------------------------------- MODULE Ili9340 -------------------------------
(***************************************************************************)
(* The display of the arm11 port, src/src/arch/arm11/peripheral/: spi.rs   *)
(* (spi_transfer and the module ili9340), set_pin_function and             *)
(* write_output_pin of gpio.rs, and the loop of mod.rs.                    *)
(*                                                                         *)
(* Four things run at once: the driver, the timer, the SPI controller that *)
(* shifts a byte out, and the display that takes the byte for a command or *)
(* for data by the level of the D/C pin at that moment.  A call of the     *)
(* driver is the sequence of what it does (`todo`): pins to set up, bytes  *)
(* to send, waits.  A byte is the write of the pin and spi_transfer's      *)
(* accesses to the controller.  Waits are those of ArmTimer; they give the *)
(* display the time it needs after some commands.                          *)
(*                                                                         *)
(* Left out: the clock divider, which init writes before the first byte;   *)
(* select_chip and draw_dot, which nothing calls; the values of the        *)
(* settings that do not change where a pixel goes.                         *)
(***************************************************************************)
EXTENDS Integers, Sequences, SequencesExt, ArmTimer

CONSTANTS
  WIDTH, HEIGHT,             \* 320 by 240
  GIRL_COLORS,               \* the picture, a sequence of colours
  FONT_WIDTH, FONT_HEIGHT,   \* 8 by 13
  FONTS,                     \* the rows of each character, as numbers
  Aart, TextX, TextY,        \* the string of draw_aa and its place
  OkLed                      \* the pin of the LED: 16 or 47, by the board

Colour == 0 .. 65535
Byte   == 0 .. 255
Newline == 10
Spi0Ce0N  == 8
Spi0Mosi  == 10
Spi0Sclk  == 11
Ili9340Dc == 25
Output     == 1
Alternate0 == 4

ASSUME ScreenAssumption == WIDTH \in Nat \ {0} /\ HEIGHT \in Nat \ {0}
ASSUME PictureAssumption ==
  GIRL_COLORS \in Seq(Colour) /\ Len(GIRL_COLORS) = WIDTH * HEIGHT
ASSUME LedAssumption == OkLed \in {16, 47}

VARIABLES
  phase,    \* where the loop of mod.rs is
  switch,   \* what the loop draws next
  todo,     \* what the current call has still to do
  step,     \* the statement of write_command, write_data, spi_transfer
  fsel,     \* the function select registers, ten pins each
  pins,     \* the levels of the two output pins
  ta,       \* TA of the controller's CS register
  tx,       \* the transmit FIFO
  shift,    \* the byte on the wire, if any
  disp,     \* the display
  meant     \* what the calls so far asked for

vars == <<phase, switch, todo, step, fsel, pins, ta, tx, shift, disp, meant, timer>>

-------------------------------------------------------------------------------
(* The bytes of each call. *)

hi(v) == v \div 256
lo(v) == v % 256
Command(c) == <<[op |-> "send", dc |-> 0, v |-> c]>>
Data(d)    == <<[op |-> "send", dc |-> 1, v |-> d]>>
Func(p, f) == <<[op |-> "func", dc |-> p, v |-> f]>>
Wait       == <<[op |-> "wait", dc |-> 0, v |-> 0]>>
Concat(ss) == FoldLeft(\o, << >>, ss)

(* A command with n settings. *)
Setting(c, n) == Command(c) \o Concat([k \in 1 .. n |-> Data(0)])

(* The commands of the display that matter here. *)
NOP     == 0
SWRESET == 1
SLPOUT  == 17
DISPOFF == 40
DISPON  == 41
CASET   == 42
PASET   == 43
RAMWR   == 44
MADCTL  == 54
COLMOD  == 58

U16(v) == Data(hi(v)) \o Data(lo(v))

set_draw_area(x0, x1, y0, y1) ==
  Command(NOP) \o Command(CASET) \o U16(x0) \o U16(x1 - 1)
               \o Command(PASET) \o U16(y0) \o U16(y1 - 1) \o Command(RAMWR)

set_colors(colours) == Concat([k \in 1 .. Len(colours) |-> U16(colours[k])])

fill_screen(c) ==
  set_draw_area(0, WIDTH, 0, HEIGHT) \o set_colors([k \in 1 .. (WIDTH * HEIGHT) |-> c])

draw_girl == set_draw_area(0, WIDTH, 0, HEIGHT) \o set_colors(GIRL_COLORS)

(* The colour of column j of row i of a character. *)
Ink(c, i, j, bg, fg) ==
  IF (FONTS[c][i + 1] \div 2^(FONT_WIDTH - j - 1)) % 2 = 1 THEN fg ELSE bg

draw_char(x, y, c, bg, fg) ==
  Command(NOP) \o set_draw_area(x, x + FONT_WIDTH, y, y + FONT_HEIGHT)
  \o set_colors([k \in 1 .. (FONT_WIDTH * FONT_HEIGHT) |->
                   Ink(c, (k - 1) \div FONT_WIDTH, (k - 1) % FONT_WIDTH, bg, fg)])

(* The characters of a string, each with its place. *)
Placed(x0, y0, string) ==
  LET place(s, c) ==
        IF c = Newline THEN [s EXCEPT !.x = x0, !.y = @ + FONT_HEIGHT]
        ELSE [x |-> s.x + FONT_WIDTH, y |-> s.y,
              out |-> Append(s.out, [x |-> s.x, y |-> s.y, c |-> c])]
  IN FoldLeft(place, [x |-> x0, y |-> y0, out |-> << >>], string).out

draw_string(x0, y0, string, bg, fg) ==
  Concat([k \in DOMAIN Placed(x0, y0, string) |->
            LET ch == Placed(x0, y0, string)[k] IN draw_char(ch.x, ch.y, ch.c, bg, fg)])

Red == 63488
draw_aa == draw_string(TextX, TextY, Aart, 0, Red)

init ==
  Func(Spi0Ce0N, Alternate0) \o Func(Spi0Mosi, Alternate0)
  \o Func(Spi0Sclk, Alternate0) \o Func(Ili9340Dc, Output)
  \o Command(SWRESET) \o Wait
  \o Command(DISPOFF)
  \o Setting(192, 2) \o Setting(193, 1) \o Setting(197, 2) \o Setting(199, 1)
  \o Command(COLMOD) \o Data(85)
  \o Setting(177, 2) \o Setting(182, 3) \o Setting(38, 1)
  \o Setting(224, 15) \o Setting(225, 15)
  \o Command(MADCTL) \o Data(40)
  \o Command(SLPOUT) \o Wait
  \o Command(DISPON)
  \o fill_screen(0)

-------------------------------------------------------------------------------
(* The display. *)

Pixels == (0 .. (WIDTH - 1)) \X (0 .. (HEIGHT - 1))

PoweredOn ==
  [cmd |-> NOP, args |-> << >>, busy |-> FALSE, awake |-> FALSE, on |-> FALSE,
   format |-> 102, access |-> 0, win |-> <<0, 0, 0, 0>>, at |-> <<0, 0>>,
   screen |-> [p \in Pixels |-> 0]]

(* The place after the pixel at <<x, y>> of the window <<x0, x1, y0, y1>>. *)
NextPixel(at, w) ==
  CASE at[1] < w[2]                  -> <<at[1] + 1, at[2]>>
    [] at[1] >= w[2] /\ at[2] < w[4] -> <<w[1], at[2] + 1>>
    [] OTHER                         -> <<w[1], w[3]>>

(* A reset takes a while, during which commands are lost. *)
TakeCommand(d, c) ==
  IF d.busy THEN d
  ELSE [d EXCEPT !.cmd = c, !.args = << >>,
                 !.busy = (c \in {SWRESET, SLPOUT}),
                 !.awake = (@ \/ c = SLPOUT) /\ c # SWRESET,
                 !.on = (@ \/ c = DISPON) /\ c \notin {SWRESET, DISPOFF},
                 !.at = IF c = RAMWR THEN <<d.win[1], d.win[3]>> ELSE @]

Word(a, k) == a[k] * 256 + a[k + 1]

(* The arguments of the last command with the byte that came; a byte more
   than it takes is dropped. *)
TakeArgs(d, a) ==
  CASE d.cmd = CASET /\ Len(a) = 4 ->
         [d EXCEPT !.win[1] = Word(a, 1), !.win[2] = Word(a, 3), !.args = << >>]
    [] d.cmd = PASET /\ Len(a) = 4 ->
         [d EXCEPT !.win[3] = Word(a, 1), !.win[4] = Word(a, 3), !.args = << >>]
    [] d.cmd = RAMWR /\ Len(a) = 2 ->
         [d EXCEPT !.screen = [p \in Pixels |-> IF p = d.at THEN Word(a, 1) ELSE @[p]],
                   !.at = NextPixel(d.at, d.win), !.args = << >>]
    [] d.cmd = COLMOD -> [d EXCEPT !.format = a[1]]
    [] d.cmd = MADCTL -> [d EXCEPT !.access = a[1]]
    [] d.cmd \in {CASET, PASET, RAMWR} /\ Len(a) < 4 -> [d EXCEPT !.args = a]
    [] OTHER -> d

Received(d, dc, v) ==
  IF dc = 0 THEN TakeCommand(d, v) ELSE TakeArgs(d, Append(d.args, v))

-------------------------------------------------------------------------------
(* The driver. *)

Init ==
  /\ phase = "init" /\ switch = TRUE
  /\ todo = init \o Func(OkLed, Output) /\ step = "next"
  /\ \E left \in {0, 2^30 - 1} : fsel = [n \in 0 .. 4 |-> left]
  /\ pins = [p \in {Ili9340Dc, OkLed} |-> 0]
  /\ ta = FALSE /\ tx = << >> /\ shift = << >>
  /\ disp = PoweredOn
  /\ meant = [p \in Pixels |-> 0]
  /\ TimerInit

(* mutant: the other nine pins of the register are lost *)
WithFunctionOnly(reg, pin, f) == f * 2^(3 * (pin % 10))

(* The register with the three bits of the pin replaced. *)
FunctionIn(reg, pin) == (reg \div 2^(3 * (pin % 10))) % 8
WithFunction(reg, pin, f) == reg + (f - FunctionIn(reg, pin)) * 2^(3 * (pin % 10))
Function(pin) == FunctionIn(fsel[pin \div 10], pin)

set_pin_function ==
  /\ step = "next" /\ todo # << >> /\ todo[1].op = "func"
  /\ fsel' = [fsel EXCEPT ![todo[1].dc \div 10] = WithFunction(@, todo[1].dc, todo[1].v)]
  /\ todo' = Tail(todo)
  /\ UNCHANGED <<phase, switch, step, pins, ta, tx, shift, disp, meant, timer>>

(* write_output_pin reads the set or clear register of the pin's bank, which
   is write-only: what it reads it writes back, for any of the bank's pins. *)
Bank(p) == p \div 32
WriteOutputPin(pin, level) ==
  \E others \in SUBSET {p \in DOMAIN pins : Bank(p) = Bank(pin)} :
    pins' = [p \in DOMAIN pins |-> IF p \in others \cup {pin} THEN level ELSE pins[p]]

(* write_command and write_data *)
SetDc ==
  /\ step = "next" /\ todo # << >> /\ todo[1].op = "send"
  /\ WriteOutputPin(Ili9340Dc, todo[1].dc)
  /\ step' = "start"
  /\ UNCHANGED <<fsel, phase, switch, todo, ta, tx, shift, disp, meant, timer>>

(* mutant: the transfer is not made active *)
StartInactive ==
  /\ step = "start"
  /\ tx' = << >> /\ ta' = FALSE
  /\ step' = "poll_txd"
  /\ UNCHANGED <<fsel, phase, switch, todo, pins, shift, disp, meant, timer>>

(* spi_transfer: clear the FIFOs, TA = 1. *)
Start ==
  /\ step = "start"
  /\ tx' = << >> /\ ta' = TRUE
  /\ step' = "poll_txd"
  /\ UNCHANGED <<fsel, phase, switch, todo, pins, shift, disp, meant, timer>>

(* The FIFO has room for 16 words. *)
TXD  == ta /\ Len(tx) < 16
DONE == ta /\ tx = << >> /\ shift = << >>

(* The polling loops: one read of CS, and once more if the bit is not set. *)
PollTxd ==
  /\ step = "poll_txd"
  /\ step' = IF TXD THEN "write" ELSE step
  /\ UNCHANGED <<fsel, phase, switch, todo, pins, ta, tx, shift, disp, meant, timer>>

(* The word is written, and a word is read that need not be there yet and
   that no caller uses. *)
WriteFifo ==
  /\ step = "write"
  /\ tx' = Append(tx, todo[1].v)
  /\ step' = "poll_done"
  /\ UNCHANGED <<fsel, phase, switch, todo, pins, ta, shift, disp, meant, timer>>

PollDone ==
  /\ step = "poll_done"
  /\ step' = IF DONE THEN "stop" ELSE step
  /\ UNCHANGED <<fsel, phase, switch, todo, pins, ta, tx, shift, disp, meant, timer>>

(* TA = 0; what is on the wire then is cut off. *)
Stop ==
  /\ step = "stop"
  /\ ta' = FALSE /\ shift' = << >>
  /\ todo' = Tail(todo)
  /\ step' = "next"
  /\ UNCHANGED <<fsel, phase, switch, pins, tx, disp, meant, timer>>

(* timer::wait *)
AtWait  == step = "next" /\ todo # << >> /\ todo[1].op = "wait"
BeginWaiting ==
  /\ AtWait /\ StartWait
  /\ UNCHANGED <<phase, switch, todo, step, fsel, pins, ta, tx, shift, disp, meant>>
ReadTimer ==
  /\ TimerStep
  /\ UNCHANGED <<phase, switch, todo, step, fsel, pins, ta, tx, shift, disp, meant>>
EndWaiting ==
  /\ EndWait
  /\ todo' = Tail(todo)
  /\ UNCHANGED <<phase, switch, step, fsel, pins, ta, tx, shift, disp, meant>>

(* Time passes: the display is ready again when the wait for it is over, if
   not before. *)
TimePasses ==
  /\ Tick
  /\ disp' = [disp EXCEPT !.busy = @ /\ Elapsed + 1 < Usec]
  /\ UNCHANGED <<phase, switch, todo, step, fsel, pins, ta, tx, shift, meant>>
Recover ==
  /\ disp.busy /\ ~Waiting
  /\ disp' = [disp EXCEPT !.busy = FALSE]
  /\ UNCHANGED <<phase, switch, todo, step, fsel, pins, ta, tx, shift, meant, timer>>

-------------------------------------------------------------------------------
(* The controller: a word leaves the FIFO, then the wire. *)

ShiftOut ==
  /\ ta /\ tx # << >> /\ shift = << >>
  /\ shift' = <<Head(tx)>> /\ tx' = Tail(tx)
  /\ UNCHANGED <<phase, switch, todo, step, fsel, pins, ta, disp, meant, timer>>

(* The display hears the controller when the pins are handed to it, and the
   level of the D/C pin when that is an output. *)
Wired ==
  /\ \A p \in {Spi0Ce0N, Spi0Mosi, Spi0Sclk} : Function(p) = Alternate0
  /\ Function(Ili9340Dc) = Output

Arrive ==
  /\ shift # << >>
  /\ disp' = IF Wired THEN Received(disp, pins[Ili9340Dc], shift[1]) ELSE disp
  /\ shift' = << >>
  /\ UNCHANGED <<phase, switch, todo, step, fsel, pins, ta, tx, meant, timer>>

-------------------------------------------------------------------------------
(* The loop of mod.rs. *)

(* What the calls ask for, in terms of the whole screen. *)
Plain(c) == [p \in Pixels |-> c]
Girl     == [p \in Pixels |-> GIRL_COLORS[p[2] * WIDTH + p[1] + 1]]
Covers(ch, p) ==
  /\ p[1] \in ch.x .. (ch.x + FONT_WIDTH - 1)
  /\ p[2] \in ch.y .. (ch.y + FONT_HEIGHT - 1)
Text == [p \in Pixels |->
  LET at == {k \in DOMAIN Placed(TextX, TextY, Aart) :
               Covers(Placed(TextX, TextY, Aart)[k], p)}
  IN IF at = {} THEN 0
     ELSE LET ch == Placed(TextX, TextY, Aart)[CHOOSE k \in at : TRUE]
          IN Ink(ch.c, p[2] - ch.y, p[1] - ch.x, 0, Red)]

Idle == step = "next" /\ todo = << >>

Blink(from, level, to) ==
  /\ Idle /\ phase \in from
  /\ WriteOutputPin(OkLed, level)
  /\ phase' = to
  /\ todo' = Wait
  /\ UNCHANGED <<fsel, switch, step, ta, tx, shift, disp, meant, timer>>
LedClear == Blink({"init", "clear"}, 0, "set")
LedSet   == Blink({"set"}, 1, "draw")

Draw ==
  /\ Idle /\ phase = "draw"
  /\ IF switch THEN todo' = draw_girl /\ meant' = Girl
               ELSE todo' = fill_screen(0) \o draw_aa /\ meant' = Text
  /\ switch' = ~switch
  /\ phase' = "clear"
  /\ UNCHANGED <<step, fsel, pins, ta, tx, shift, disp, timer>>

Driver ==
  \/ set_pin_function \/ SetDc \/ Start \/ PollTxd \/ WriteFifo \/ PollDone \/ Stop
  \/ BeginWaiting \/ ReadTimer \/ EndWaiting
  \/ LedClear \/ LedSet \/ Draw
Controller == ShiftOut \/ Arrive

Next == Driver \/ Controller \/ TimePasses \/ Recover

(* The processor goes on, the controller shifts, and time passes. *)
Spec ==
  /\ Init /\ [][Next]_vars
  /\ WF_vars(Driver) /\ WF_vars(Controller) /\ WF_vars(TimePasses)

-------------------------------------------------------------------------------
(***************************************************************************)
(* When a call has returned, the display is on, in the format the driver   *)
(* uses, and shows what was asked for: every byte arrived, once, in order, *)
(* with the D/C pin as it was meant, and every pixel went to its place.    *)
(***************************************************************************)
ScreenShowsPicture ==
  Idle /\ ~torn =>
          /\ disp.on /\ disp.awake /\ disp.format = 85 /\ disp.access = 40
          /\ disp.screen = meant

(* Every call returns: no polling loop of spi_transfer goes on for ever, and
   no wait, unless a torn read of the time stops it. *)
EveryCallReturns == (todo # << >>) ~> (Idle \/ reader.at = "panic")
==============================================================================
