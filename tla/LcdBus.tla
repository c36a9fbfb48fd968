------------------------------- MODULE LcdBus -------------------------------
(***************************************************************************)
(* The way from the frame to the glass: CharLCD.c sends every byte to the  *)
(* HD44780 as two nibbles over the port B of an MCP23017 expander, one pin *)
(* at a time, and each pin is a read of the output latch and a write of    *)
(* the whole port over I2C.  backlight() drives pin 8 of the same port and *)
(* pins 7 and 6 of port A from other threads.  CharLCD_print() and         *)
(* CharLCD_setBacklight() take disp->mutex, CharLCD_setCursor() does not.  *)
(*                                                                         *)
(* A thread performs a sequence of calls, a call is a sequence of          *)
(* operations; a pin operation takes two steps, the read and the write of  *)
(* its port.  The main thread starts the LCD before the others run.  The   *)
(* daemon may die anywhere and be launched again; LCD and expander keep    *)
(* what they have.                                                         *)
(***************************************************************************)
EXTENDS Integers, Sequences

CONSTANTS
    Text,       \* the two rows of a frame, sequences of characters (bytes)
    MaxDraws,   \* bound on the frames lcd_updater prints
    MaxRestarts, \* bound on the restarts of the daemon
    Callers,    \* the threads that call backlight(), with the requests of each
    FaultyPorts, \* the ports of which one I2C transfer may fail, after the start
    NoOne

PortA == 0..7
PortB == 8..15
Port(pin) == IF pin < 8 THEN PortA ELSE PortB

Threads == {"main", "updater"} \cup DOMAIN Callers

ASSUME NoOneAssumption == NoOne \notin Threads
ASSUME TextAssumption == Len(Text) = 2 /\ \A row \in 1..2 : Text[row] \in Seq(0..255)
ASSUME BoundsAssumption == MaxDraws \in Nat /\ MaxRestarts \in Nat
ASSUME NamesAssumption == {"main", "updater"} \cap DOMAIN Callers = {}
ASSUME PortsAssumption == FaultyPorts \subseteq {PortA, PortB}
ASSUME CallersAssumption == \A t \in DOMAIN Callers : Callers[t] \subseteq {0, 1, 2}

VARIABLES
    call,       \* the call each thread is in, 0 when it has none to make
    step,       \* its next operation in this call
    reg,        \* {}, or {the port value the thread has read and not written yet}
    mutex,      \* the holder of disp->mutex
    latch,      \* the pins whose output latch is high
    width,       \* the width of the LCD's interface, 8 or 4 lines
    half,       \* {}, or {the nibble the LCD keeps until the other half comes}
    got,        \* history: how many bytes it received as they were meant
    intact,     \* history: no byte was wrong
    loc,        \* where each caller is in backlight()
    left,       \* the requests each caller may still make
    clr, tmp,   \* the static counter of backlight(), modulo 2; its copy in clr++, else 0
    chosen,     \* the colour each caller passes to CharLCD_setBacklight(), else BLACK
    colour,     \* history: the colour last passed
    wanted,     \* history: {the colour last asked for}, {} once two calls overlapped
    expected,   \* history: what the daemon meant the LCD to receive: <<RS, byte>>
    raced,      \* history: two pin operations overlapped on one port
    failed,     \* the ports of which a transfer has failed
    restarts    \* how often the daemon was launched again

lcd == <<latch, width, half, got, intact>>
light == <<loc, left, clr, tmp, chosen>>
asked == <<colour, wanted>>
vars == <<call, step, reg, mutex, lcd, light, asked, expected, raced, failed, restarts>>

-----------------------------------------------------------------------------
(* The code, as sequences of calls.                                        *)

RS == 15
RW == 14
EN == 13
BLACK == 0
WHITE == 7
LOW == 0
HIGH == 1

Bit(n, i) == (n \div 2^i) % 2
DataPin(i) == 12 - i                      \* _data_pins: 12, 11, 10, 9

DigitalWrite(pin, v) == [op |-> "pin", pin |-> pin, val |-> v]
Lock == <<[op |-> "lock"]>>
Unlock == <<[op |-> "unlock"]>>

PulseEnable == <<DigitalWrite(EN, LOW), DigitalWrite(EN, HIGH), DigitalWrite(EN, LOW)>>

\* pinMode() before each digitalWrite() rewrites a direction that is already
\* set, in registers no other thread writes.
Write4Bits(n) == [i \in 1..4 |-> DigitalWrite(DataPin(i - 1), Bit(n, i - 1))] \o PulseEnable

Send(value, mode) ==
    <<DigitalWrite(RS, mode), DigitalWrite(RW, LOW)>>
        \o Write4Bits(value \div 16) \o Write4Bits(value % 16)

CursorAddress(row) == 128 + 64 * row      \* LCD_SETDDRAMADDR | row_offsets[row]
SetCursor(row) == <<Send(CursorAddress(row), LOW)>>

\* A row is no longer than the display and is taken to hold no newline; the cursor
\* commands CharLCD_print() sends in these two cases are left out.
PrintText(text) == <<Lock>> \o [i \in DOMAIN text |-> Send(text[i], HIGH)] \o <<Unlock>>

\* Pins are inverted: a low pin lights the LED.
Lights(c) ==
    <<DigitalWrite(8, 1 - Bit(c, 2)), DigitalWrite(7, 1 - Bit(c, 1)), DigitalWrite(6, 1 - Bit(c, 0))>>

\* Faulty: no mutex.
SetBacklightUnlocked(c) == <<Lights(c)>>

\* Faulty: pin 7 is forgotten.
SetBacklightPartial(c) == <<Lock, <<Lights(c)[1], Lights(c)[3]>>, Unlock>>

SetBacklight(c) == <<Lock, Lights(c), Unlock>>

DrawFrame == SetCursor(0) \o PrintText(Text[1]) \o SetCursor(1) \o PrintText(Text[2])

\* What DrawFrame means to the LCD.
FrameBytes ==
    <<<<LOW, CursorAddress(0)>>>> \o [i \in DOMAIN Text[1] |-> <<HIGH, Text[1][i]>>]
        \o <<<<LOW, CursorAddress(1)>>>> \o [i \in DOMAIN Text[2] |-> <<HIGH, Text[2][i]>>]

\* CharLCD_start(), CharLCD_display() and backlight(lcd, 1).  First the four
\* nibbles that bring the LCD from any state to its four-bit mode, then the
\* commands.

\* Faulty: two tries.
TriesFaulty == <<Write4Bits(3), Write4Bits(3)>>

Tries == <<Write4Bits(3), Write4Bits(3), Write4Bits(3)>>

LinesLow == <<DigitalWrite(RS, LOW), DigitalWrite(EN, LOW), DigitalWrite(RW, LOW)>>

Wake == SetBacklight(WHITE) \o <<LinesLow>> \o Tries \o <<Write4Bits(2)>>

\* Function set, display on, clear, entry mode twice, cursor home, display on.
StartCommands == <<40, 12, 1, 6, 6, CursorAddress(0), 12>>
StartBytes == [i \in DOMAIN StartCommands |-> <<LOW, StartCommands[i]>>]

StartUp ==
    Wake \o [i \in DOMAIN StartCommands |-> Send(StartCommands[i], LOW)] \o SetBacklight(WHITE)

-----------------------------------------------------------------------------
Clients == DOMAIN Callers
BacklightOps == [c \in {BLACK, WHITE} |-> SetBacklight(c)]
Ops(t) == CASE t = "main" -> StartUp
            [] t = "updater" -> DrawFrame
            [] OTHER -> BacklightOps[chosen[t]]
Busy(t) == call[t] # 0
Op(t) == Ops(t)[call[t]][step[t]]

TypeOK ==
    /\ call \in [Threads -> Nat] /\ step \in [Threads -> Nat]
    /\ \A t \in Threads : Busy(t) => call[t] <= Len(Ops(t)) /\ step[t] \in 1..Len(Ops(t)[call[t]])
    /\ \A t \in Threads : \A v \in reg[t] : v \subseteq Port(Op(t).pin)
    /\ mutex \in Threads \cup {NoOne}
    /\ latch \subseteq 0..15
    /\ width \in {4, 8} /\ half \in {{}} \cup {{n} : n \in 0..15}
    /\ loc \in [Clients -> {"idle", "load", "store", "test", "write"}]
    /\ \A t \in Clients : left[t] \subseteq Callers[t]
    /\ clr \in 0..1 /\ tmp \in [Clients -> 0..1]
    /\ chosen \in [Clients -> {BLACK, WHITE}] /\ colour \in {BLACK, WHITE}
    /\ wanted \in {{}, {BLACK}, {WHITE}}
    /\ got \in 0..Len(expected) /\ intact \in BOOLEAN
    /\ raced \in BOOLEAN
    /\ failed \subseteq FaultyPorts /\ restarts \in 0..MaxRestarts

Each(S, x) == [t \in S |-> x]
OnlyMain == [t \in Threads |-> IF t = "main" THEN 1 ELSE 0]

\* Power has just come, and the main thread starts the LCD.
Init ==
    /\ call = OnlyMain /\ step = Each(Threads, 1) /\ reg = Each(Threads, {}) /\ mutex = NoOne
    /\ latch = {} /\ width = 8 /\ half = {} /\ got = 0 /\ intact = TRUE
    /\ loc = Each(Clients, "idle") /\ left = Callers
    /\ clr = 1 /\ tmp = Each(Clients, 0) /\ chosen = Each(Clients, BLACK)
    /\ colour = WHITE /\ wanted = {WHITE}
    /\ expected = StartBytes /\ raced = FALSE /\ failed = {} /\ restarts = 0

Draws == (Len(expected) - Len(StartBytes)) \div Len(FrameBytes)

\* lcd_updater woke up with a frame to print.
StartDraw ==
    /\ ~Busy("main") /\ ~Busy("updater") /\ Draws < MaxDraws
    /\ call' = [call EXCEPT !["updater"] = 1]
    /\ expected' = expected \o FrameBytes
    /\ UNCHANGED <<step, reg, mutex, lcd, light, asked, raced, failed, restarts>>
-----------------------------------------------------------------------------
(* backlight(): the counter, then CharLCD_setBacklight().                  *)

\* Faulty: the two requests exchanged.
PresetFaulty(a) == IF a = 2 THEN clr ELSE a

\* 1 sets clr to 0, 0 sets it to 1, 2 leaves it.
Preset(a) == IF a = 2 THEN clr ELSE 1 - a

Begin(t, a) ==
    /\ ~Busy("main") /\ loc[t] = "idle" /\ a \in left[t]
    /\ left' = [left EXCEPT ![t] = @ \ {a}]
    /\ clr' = Preset(a)
    /\ loc' = [loc EXCEPT ![t] = "load"]
    /\ wanted' = IF \E u \in Clients : loc[u] # "idle" THEN {}
                 ELSE {CASE a = 1 -> WHITE [] a = 0 -> BLACK [] OTHER -> WHITE - w : w \in wanted}
    /\ UNCHANGED <<call, step, reg, mutex, lcd, tmp, chosen, colour, expected, raced, failed, restarts>>

LoadClr(t) ==
    /\ loc[t] = "load"
    /\ tmp' = [tmp EXCEPT ![t] = clr]
    /\ loc' = [loc EXCEPT ![t] = "store"]
    /\ UNCHANGED <<call, step, reg, mutex, lcd, left, clr, chosen, asked, expected, raced, failed, restarts>>

StoreClr(t) ==
    /\ loc[t] = "store"
    /\ clr' = (tmp[t] + 1) % 2
    /\ tmp' = [tmp EXCEPT ![t] = 0]
    /\ loc' = [loc EXCEPT ![t] = "test"]
    /\ UNCHANGED <<call, step, reg, mutex, lcd, left, chosen, asked, expected, raced, failed, restarts>>

ChooseColour(t) ==
    /\ loc[t] = "test"
    /\ chosen' = [chosen EXCEPT ![t] = IF clr % 2 = 0 THEN BLACK ELSE WHITE]
    /\ call' = [call EXCEPT ![t] = 1]
    /\ loc' = [loc EXCEPT ![t] = "write"]
    /\ UNCHANGED <<step, reg, mutex, lcd, left, clr, tmp, asked, expected, raced, failed, restarts>>
-----------------------------------------------------------------------------
(* The operations.                                                         *)

CallEnds(t) == step[t] = Len(Ops(t)[call[t]])
AtEnd(t) == CallEnds(t) /\ call[t] = Len(Ops(t))

Advance(t) ==
    /\ step' = [step EXCEPT ![t] = IF CallEnds(t) THEN 1 ELSE @ + 1]
    /\ call' = [call EXCEPT ![t] = IF AtEnd(t) THEN 0 ELSE IF CallEnds(t) THEN @ + 1 ELSE @]
    /\ IF t \in Clients /\ AtEnd(t)
       THEN loc' = [loc EXCEPT ![t] = "idle"] /\ chosen' = [chosen EXCEPT ![t] = BLACK]
       ELSE UNCHANGED <<loc, chosen>>

TakeMutex(t) ==
    /\ Busy(t) /\ Op(t).op = "lock" /\ mutex = NoOne
    /\ mutex' = t
    /\ colour' = IF t \in Clients THEN chosen[t] ELSE colour
    /\ Advance(t)
    /\ UNCHANGED <<reg, lcd, left, clr, tmp, wanted, expected, raced, failed,
                   restarts>>

DropMutex(t) ==
    /\ Busy(t) /\ Op(t).op = "unlock"
    /\ mutex' = NoOne
    /\ Advance(t)
    /\ UNCHANGED <<reg, lcd, left, clr, tmp, asked, expected, raced, failed, restarts>>

InFlight(t, port) == \E v \in reg[t] : Port(Op(t).pin) = port

MayFail(port) == port \in FaultyPorts \ failed /\ ~Busy("main")

\* readRegister(OLAT); the value of a failed transfer is 0xFF.
ReadPort(t) ==
    /\ Busy(t) /\ Op(t).op = "pin" /\ reg[t] = {}
    /\ LET port == Port(Op(t).pin) IN
        /\ \/ reg' = [reg EXCEPT ![t] = {latch \cap port}] /\ UNCHANGED failed
           \/ /\ MayFail(port)
              /\ failed' = failed \cup {port}
              /\ reg' = [reg EXCEPT ![t] = {port}]
        /\ raced' = (raced \/ \E u \in Threads \ {t} : InFlight(u, port))
    /\ UNCHANGED <<call, step, mutex, lcd, light, asked, expected, restarts>>

\* The LCD takes a nibble when its enable line falls, unless it is being read.
Nibble(pins) == (IF DataPin(0) \in pins THEN 1 ELSE 0)
                  + (IF DataPin(1) \in pins THEN 2 ELSE 0)
                  + (IF DataPin(2) \in pins THEN 4 ELSE 0)
                  + (IF DataPin(3) \in pins THEN 8 ELSE 0)

\* A byte has arrived: the next one that is expected, or a wrong one.
Receive(byte) ==
    LET right == intact /\ got < Len(expected) /\ expected[got + 1] = byte
    IN  got' = (IF right THEN got + 1 ELSE 0) /\ intact' = right

\* With eight lines a nibble is a command: 2 and 3 choose the width.  With four
\* lines two nibbles are a byte, and a command from 0x30 on to 0x3F goes back to eight.
Take(n, rs) ==
    CASE width = 8 ->
            IF n = 2 /\ rs = LOW
            THEN width' = 4 /\ got' = 0 /\ intact' = TRUE /\ UNCHANGED half
            ELSE UNCHANGED <<width, half, got, intact>>
      [] width = 4 /\ half = {} -> half' = {n} /\ UNCHANGED <<width, got, intact>>
      [] OTHER ->
            LET high == CHOOSE h \in half : TRUE
            IN  /\ half' = {}
                /\ width' = IF high = 3 /\ rs = LOW THEN 8 ELSE 4
                /\ Receive(<<rs, 16 * high + n>>)

Listen(pins) ==
    IF EN \in latch /\ EN \notin pins /\ RW \notin pins
    THEN Take(Nibble(pins), IF RS \in pins THEN HIGH ELSE LOW)
    ELSE UNCHANGED <<width, half, got, intact>>

\* writeRegister(GPIO) of the whole port; a failed transfer changes nothing.
WritePort(t) ==
    /\ Busy(t) /\ Op(t).op = "pin" /\ reg[t] # {}
    /\ reg' = [reg EXCEPT ![t] = {}]
    /\ \/ LET pin == Op(t).pin
              new == CHOOSE v \in reg[t] : TRUE
              port == IF Op(t).val = HIGH THEN new \cup {pin} ELSE new \ {pin}
          IN  /\ latch' = (latch \ Port(pin)) \cup port
              /\ Listen(latch')
              /\ UNCHANGED failed
       \/ /\ MayFail(Port(Op(t).pin))
          /\ failed' = failed \cup {Port(Op(t).pin)}
          /\ UNCHANGED lcd
    /\ Advance(t)
    /\ UNCHANGED <<mutex, left, clr, tmp, asked, expected, raced, restarts>>
\* The daemon dies and is launched again.  MCP23017_openI2C() makes the lines
\* inputs: an enable line that was high falls, and the LCD may take anything.
StrayNibble ==
    \/ width = 8 /\ width' = 4 /\ UNCHANGED half
    \/ width = 4 /\ half = {} /\ UNCHANGED width /\ \E n \in 0..15 : half' = {n}
    \/ width = 4 /\ half # {} /\ half' = {} /\ width' \in (IF half = {3} THEN {4, 8} ELSE {4})

Restart ==
    /\ restarts < MaxRestarts /\ restarts' = restarts + 1
    /\ call' = OnlyMain /\ step' = Each(Threads, 1)
    /\ reg' = Each(Threads, {}) /\ mutex' = NoOne
    /\ \/ UNCHANGED <<width, half>>
       \/ EN \in latch /\ StrayNibble
    /\ got' = 0 /\ intact' = TRUE /\ UNCHANGED latch
    /\ loc' = Each(Clients, "idle") /\ left' = Each(Clients, {})
    /\ clr' = 1 /\ tmp' = Each(Clients, 0) /\ chosen' = Each(Clients, BLACK)
    /\ colour' = WHITE /\ wanted' = {WHITE}
    /\ expected' = StartBytes /\ raced' = FALSE /\ failed' = {}
-----------------------------------------------------------------------------
Step(t) == TakeMutex(t) \/ DropMutex(t) \/ ReadPort(t) \/ WritePort(t)

Backlight(t) ==
    \/ \E a \in 0..2 : Begin(t, a)
    \/ LoadClr(t) \/ StoreClr(t) \/ ChooseColour(t)

AllDone == /\ ~Busy("main") /\ ~Busy("updater") /\ Draws = MaxDraws
           /\ \A t \in Clients : loc[t] = "idle" /\ left[t] = {}
           /\ UNCHANGED vars

Next ==
    \/ StartDraw \/ (\E t \in Threads : Step(t)) \/ (\E t \in Clients : Backlight(t))
    \/ Restart \/ AllDone

Spec == Init /\ [][Next]_vars
-----------------------------------------------------------------------------
(* Properties.                                                             *)

Waking == call["main"] \in 1..Len(Wake)
AtRest == \A t \in Threads : ~Busy(t)

\* From whatever a dead daemon has left behind, CharLCD_start() gets the LCD into
\* step, and it stays there: it receives the bytes of the start and of the frames
\* in their order, each whole, as long as no two pin operations overlap and no
\* transfer fails on its own port.
BytesIntact ==
    ~raced /\ PortB \notin failed /\ ~Waking =>
        intact /\ (AtRest => got = Len(expected))

\* Two pin operations only overlap while lcd_updater moves the cursor, which it
\* does without the mutex: characters and the backlight never meet.
OverlapOnlyOutsideMutex ==
    [][~raced /\ raced' => mutex # "updater" /\ Busy("updater")]_vars

Lit(pins) == {p \in pins : p \notin latch}
Shows(pins) == Lit(pins) = IF colour = WHITE THEN pins ELSE {}

\* Between calls the colour pins agree with the last call: those on the port of
\* the buttons whatever happens on the port of the LCD, pin 8 unless operations
\* overlapped; a failed transfer only spoils the pins of its own port.
BacklightWhole ==
    mutex = NoOne /\ ~Busy("main") =>
                     /\ PortA \notin failed => Shows({6, 7})
                     /\ ~raced /\ PortB \notin failed => Shows({8})

\* backlight() counts: as long as no two calls overlap, 1 and 0 give the light
\* they ask for and 2 the other one, whatever was asked before and by whom.
LightAsAsked == (\A t \in Clients : loc[t] = "idle") => wanted \subseteq {colour}

\* "write either command or data", says the comment of CharLCD_send(): the LCD
\* receives what was sent.
SentIsReceived == failed = {} /\ ~Waking => intact
=============================================================================
