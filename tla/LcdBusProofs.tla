---------------------------- MODULE LcdBusProofs ----------------------------
(***************************************************************************)
(* Proofs about LcdBus, for every text, any number of frames, restarts and *)
(* callers of backlight(), and faults on either port: operations only      *)
(* overlap around the cursor commands, the start brings the LCD into step  *)
(* and every byte arrives, the colour pins agree with the last call, and   *)
(* the call with the request.                                              *)
(***************************************************************************)
EXTENDS LcdBus, SequenceTheorems, TLAPS

Row1 == Len(Text[1])
Row2 == Len(Text[2])

\* What kind of call each thread is in.
MainKind(c) ==
    CASE c = 0 -> "none"
      [] c \in {1, 16} -> "lock"
      [] c \in {2, 17} -> "lights"
      [] c \in {3, 18} -> "unlock"
      [] c = 4 -> "low"
      [] c \in 5..8 -> "nibble"
      [] OTHER -> "command"
UpdaterKind(c) ==
    CASE c = 0 -> "none"
      [] c \in {1, Row1 + 4} -> "command"
      [] c \in {2, Row1 + 5} -> "lock"
      [] c \in {Row1 + 3, Row1 + Row2 + 6} -> "unlock"
      [] OTHER -> "char"
ClientKind(c) ==
    CASE c = 0 -> "none" [] c = 1 -> "lock" [] c = 2 -> "lights" [] OTHER -> "unlock"
Kind(t) ==
    CASE t = "main" -> MainKind(call[t])
      [] t = "updater" -> UpdaterKind(call[t])
      [] OTHER -> ClientKind(call[t])

Kinds == {"none", "lock", "lights", "unlock", "low", "nibble", "command", "char"}
Bytes == {"command", "char"}
Driving == {"lights", "low", "nibble", "command", "char"}   \* the calls of pin operations

\* The number of operations of a call, the pin each drives, and the calls of each thread.
Steps(k) ==
    CASE k \in {"lights", "low"} -> 3 [] k = "nibble" -> 7 [] k \in Bytes -> 16 [] OTHER -> 1
PinAt(k, j) ==
    CASE k = "lights" -> 9 - j
      [] k = "low" -> (CASE j = 1 -> RS [] j = 2 -> EN [] OTHER -> RW)
      [] k = "nibble" -> IF j <= 4 THEN 13 - j ELSE EN
      [] OTHER -> CASE j = 1 -> RS [] j = 2 -> RW [] j \in 3..6 -> 15 - j
                    [] j \in 10..13 -> 22 - j [] OTHER -> EN
LastCall(t) == CASE t = "main" -> 18 [] t = "updater" -> Row1 + Row2 + 6 [] OTHER -> 3

PinOf(t) == PinAt(Kind(t), step[t])

\* The byte of each call of lcd_updater.
RowValue(c) ==
    CASE c = 1 -> 128
      [] c = Row1 + 4 -> 192
      [] c \in 3..(Row1 + 2) -> Text[1][c - 2]
      [] OTHER -> Text[2][c - Row1 - 5]

\* The byte a call sends, its nibble, its colour, and the value each operation gives its pin.
Mode(t) == IF Kind(t) = "char" THEN HIGH ELSE LOW
Value(t) ==
    IF t = "main" THEN StartCommands[call[t] - 8]
    ELSE RowValue(call[t])
Nib(t) == IF call[t] = 8 THEN 2 ELSE 3
Shade(t) == IF t = "main" THEN WHITE ELSE chosen[t]
NibbleVal(n, j) == IF j <= 4 THEN Bit(n, j - 1) ELSE IF j = 6 THEN HIGH ELSE LOW
SendVal(v, m, j) ==
    CASE j = 1 -> m
      [] j \in 3..6 -> Bit(v \div 16, j - 3)
      [] j \in 10..13 -> Bit(v % 16, j - 10)
      [] j \in {8, 15} -> HIGH
      [] OTHER -> LOW
ValOf(t) ==
    CASE Kind(t) = "lights" -> 1 - Bit(Shade(t), 3 - step[t])
      [] Kind(t) = "low" -> LOW
      [] Kind(t) = "nibble" -> NibbleVal(Nib(t), step[t])
      [] OTHER -> SendVal(Value(t), Mode(t), step[t])

Locations == {"idle", "load", "store", "test", "write"}

\* A thread holds a port value only inside a pin operation.
Held(t) ==
    \/ reg[t] = {}
    \/ Kind(t) \in Driving /\ \E v \in SUBSET Port(PinOf(t)) : reg[t] = {v}
Placed ==
    /\ call \in [Threads -> Nat] /\ step \in [Threads -> Nat] /\ DOMAIN reg = Threads
    /\ \A t \in Threads : call[t] <= LastCall(t) /\ 1 <= step[t] /\ step[t] <= Steps(Kind(t))
    /\ \A t \in Threads : Held(t)
LcdType ==
    /\ mutex \in Threads \cup {NoOne} /\ latch \subseteq 0..15
    /\ width \in {4, 8} /\ (half = {} \/ \E n \in 0..15 : half = {n})
    /\ width = 8 => half = {}
    /\ got \in 0..Len(expected) /\ intact \in BOOLEAN
LightType ==
    /\ loc \in [Clients -> Locations] /\ chosen \in [Clients -> {BLACK, WHITE}]
    /\ clr \in 0..1 /\ tmp \in [Clients -> 0..1]
    /\ DOMAIN left = Clients /\ \A t \in Clients : left[t] \subseteq Callers[t]
    /\ colour \in {BLACK, WHITE} /\ wanted \in {{}, {BLACK}, {WHITE}}
HistoryType ==
    /\ expected \in Seq({LOW, HIGH} \X (0..255)) /\ raced \in BOOLEAN
    /\ failed \subseteq FaultyPorts /\ restarts \in 0..MaxRestarts
Shape == Placed /\ LcdType /\ LightType /\ HistoryType

\* While the main thread starts the LCD nobody else is there, and a client is
\* inside a sequence exactly in the last part of backlight().
StartAlone ==
    Busy("main") =>
        /\ call["updater"] = 0 /\ (\A t \in Clients : loc[t] = "idle")
        /\ ~raced /\ failed = {}
        /\ expected = StartBytes /\ colour = WHITE /\ clr = 1 /\ wanted = {WHITE}
ClientsWrite == \A t \in Clients : loc[t] = "write" <=> call[t] # 0

\* The mutex is held between lock and unlock and nowhere else.
Inside(t) == Kind(t) \in {"lights", "char", "unlock"}
Exclusion == \A t \in Threads : Inside(t) <=> mutex = t

Inv == Shape /\ StartAlone /\ ClientsWrite /\ Exclusion

\* Without an overlap no two threads are inside an operation on one port, and
\* what a thread has read is still what the latch holds.  On the port of the
\* buttons the mutex sees to that.
Flying(t, port) == reg[t] # {} /\ Port(PinOf(t)) = port
Trusted(port) == port \notin failed /\ (port = PortB => ~raced)
Transfers ==
    /\ \A t, u \in Threads : \A port \in {PortA, PortB} :
        t # u /\ Flying(t, port) /\ Flying(u, port) => port = PortB /\ raced
    /\ \A t \in Threads : \A port \in {PortA, PortB} :
        Flying(t, port) /\ Trusted(port) => reg[t] = {latch \cap port}

\* The lights: those the holder of the mutex has written agree with the colour
\* that was passed last, and all do when nobody is about to write them.
Agrees(pin) == pin \notin latch <=> colour = WHITE
AllAgree ==
    /\ Trusted(PortB) => Agrees(8)
    /\ Trusted(PortA) => Agrees(7) /\ Agrees(6)
LightsInv ==
    /\ \A t \in Threads : Kind(t) = "lights" =>
        /\ step[t] >= 2 /\ Trusted(PortB) => Agrees(8)
        /\ step[t] >= 3 /\ Trusted(PortA) => Agrees(7)
    /\ \A t \in Threads : Kind(t) = "unlock" => AllAgree
    /\ mutex \in {NoOne, "updater"} /\ ~Busy("main") => AllAgree
    /\ \A t \in Clients : mutex = t => colour = chosen[t]

\* A caller alone in backlight(), and what it is asked for: the counter before
\* and after it is changed, the colour before and after it is passed.
Odd(w) == IF w = WHITE THEN 1 ELSE 0
AskedInv ==
    \A w \in wanted :
        /\ \A t, u \in Clients : loc[t] # "idle" /\ loc[u] # "idle" => t = u
        /\ (\A t \in Clients : loc[t] = "idle") => clr = Odd(w) /\ colour = w
        /\ \A t \in Clients :
            /\ loc[t] = "load" => clr = 1 - Odd(w)
            /\ loc[t] = "store" => tmp[t] = 1 - Odd(w)
            /\ loc[t] \in {"test", "write"} => clr = Odd(w)
            /\ loc[t] = "write" => chosen[t] = w /\ (call[t] >= 2 => colour = w)

\* How many of the expected bytes came before a call.
Before(c) ==
    IF c <= 2 THEN c - 1
    ELSE IF c <= Row1 + 3 THEN c - 2
    ELSE IF c <= Row1 + 5 THEN c - 3
    ELSE c - 4
Received(t) ==
    IF t = "main" THEN (IF call[t] <= 15 THEN call[t] - 9 ELSE 7)
    ELSE IF call[t] = 0 THEN Len(expected)
    ELSE Len(expected) - Len(FrameBytes) + Before(call[t])

FrameExpected ==
    Busy("updater") =>
        /\ Len(FrameBytes) <= Len(expected)
        /\ \A i \in 1..Len(FrameBytes) :
            expected[Len(expected) - Len(FrameBytes) + i] = FrameBytes[i]

\* The first k data lines carry the nibble n.
Carry(n, k) == \A i \in 0..3 : i < k => (DataPin(i) \in latch <=> Bit(n, i) = 1)

\* In front of operation j of CharLCD_send(v, m): the lines, and the nibble
\* the LCD keeps.
Sending(v, m, j) ==
    /\ EN \in latch <=> j \in {9, 16}
    /\ j >= 2 => (RS \in latch <=> m = HIGH)
    /\ j >= 3 => RW \notin latch
    /\ j <= 9 => half = {} /\ Carry(v \div 16, j - 3)
    /\ j >= 10 => half = {v \div 16} /\ Carry(v % 16, j - 10)
Quiet == EN \notin latch /\ half = {}

\* The four nibbles of CharLCD_start().
Tried ==
    /\ Kind("main") = "low" => /\ step["main"] >= 2 => RS \notin latch
                               /\ step["main"] >= 3 => EN \notin latch
    /\ Kind("main") = "nibble" =>
        /\ RS \notin latch /\ RW \notin latch
        /\ EN \in latch <=> step["main"] = 7
        /\ Carry(Nib("main"), step["main"] - 1)
        /\ call["main"] = 6 => width = 8 \/ half = {} \/ half = {3}
        /\ call["main"] = 7 => width = 8 \/ half = {3}
        /\ call["main"] = 8 => width = 8

InStep(t) ==
    /\ width = 4 /\ intact /\ got = Received(t)
    /\ IF Kind(t) \in Bytes THEN Sending(Value(t), Mode(t), step[t]) ELSE Quiet
BytesInv ==
    /\ FrameExpected
    /\ Tried
    /\ Trusted(PortB) /\ call["main"] \notin 1..8 =>
        InStep(IF Busy("main") THEN "main" ELSE "updater")

-----------------------------------------------------------------------------
(* The calls of each thread and their operations.                          *)

LEMMA PortsDiffer == PortA # PortB
BY 0 \in PortA, 0 \notin PortB DEF PortA, PortB

LEMMA ClientsApart == "main" \notin Clients /\ "updater" \notin Clients
BY NamesAssumption DEF Clients

\* Each thread is the main thread, the updater or a client.
LEMMA ThreadKinds ==
    ASSUME NEW t \in Threads
    PROVE  t = "main" \/ t = "updater" \/ (t \in Clients /\ t # "main" /\ t # "updater")
BY ClientsApart DEF Threads, Clients

LEMMA NibbleOps ==
    ASSUME NEW n, NEW s, s = Write4Bits(n)
    PROVE  /\ Len(s) = 7
           /\ s[1] = DigitalWrite(12, Bit(n, 0)) /\ s[2] = DigitalWrite(11, Bit(n, 1))
           /\ s[3] = DigitalWrite(10, Bit(n, 2)) /\ s[4] = DigitalWrite(9, Bit(n, 3))
           /\ s[5] = DigitalWrite(EN, LOW) /\ s[6] = DigitalWrite(EN, HIGH)
           /\ s[7] = DigitalWrite(EN, LOW)
BY DEF Write4Bits, PulseEnable, DataPin

LEMMA SendOps ==
    ASSUME NEW v, NEW m, NEW s, s = Send(v, m)
    PROVE  /\ Len(s) = 16
           /\ s[1] = DigitalWrite(RS, m) /\ s[2] = DigitalWrite(RW, LOW)
           /\ s[3] = DigitalWrite(12, Bit(v \div 16, 0)) /\ s[4] = DigitalWrite(11, Bit(v \div 16, 1))
           /\ s[5] = DigitalWrite(10, Bit(v \div 16, 2)) /\ s[6] = DigitalWrite(9, Bit(v \div 16, 3))
           /\ s[7] = DigitalWrite(EN, LOW) /\ s[8] = DigitalWrite(EN, HIGH)
           /\ s[9] = DigitalWrite(EN, LOW)
           /\ s[10] = DigitalWrite(12, Bit(v % 16, 0)) /\ s[11] = DigitalWrite(11, Bit(v % 16, 1))
           /\ s[12] = DigitalWrite(10, Bit(v % 16, 2)) /\ s[13] = DigitalWrite(9, Bit(v % 16, 3))
           /\ s[14] = DigitalWrite(EN, LOW) /\ s[15] = DigitalWrite(EN, HIGH)
           /\ s[16] = DigitalWrite(EN, LOW)
BY DEF Send, Write4Bits, PulseEnable, DataPin

LEMMA MainProgram ==
    /\ Len(StartUp) = 18
    /\ StartUp[1] = Lock /\ StartUp[2] = Lights(WHITE) /\ StartUp[3] = Unlock
    /\ StartUp[4] = LinesLow
    /\ StartUp[5] = Write4Bits(3) /\ StartUp[6] = Write4Bits(3) /\ StartUp[7] = Write4Bits(3)
    /\ StartUp[8] = Write4Bits(2)
    /\ \A c \in 9..15 : StartUp[c] = Send(StartCommands[c - 8], LOW)
    /\ StartUp[16] = Lock /\ StartUp[17] = Lights(WHITE) /\ StartUp[18] = Unlock
BY DEF StartUp, Wake, SetBacklight, Tries, StartCommands

LEMMA PrintProgram ==
    ASSUME NEW text \in Seq(0..255)
    PROVE  /\ PrintText(text) \in Seq({Lock, Unlock} \cup {Send(text[i], HIGH) : i \in 1..Len(text)})
           /\ Len(PrintText(text)) = Len(text) + 2
           /\ PrintText(text)[1] = Lock /\ PrintText(text)[Len(text) + 2] = Unlock
           /\ \A i \in 1..Len(text) : PrintText(text)[i + 1] = Send(text[i], HIGH)
<1> DEFINE m == [i \in DOMAIN text |-> Send(text[i], HIGH)]
           S == {Lock, Unlock} \cup {m[i] : i \in 1..Len(text)}
           a == <<Lock>>
           z == <<Unlock>>
<1>1. Len(text) \in Nat /\ DOMAIN text = 1..Len(text)
  OBVIOUS
<1>2. m \in Seq(S) /\ Len(m) = Len(text) /\ \A i \in 1..Len(text) : m[i] = Send(text[i], HIGH)
  <2>1. m = [i \in 1..Len(text) |-> Send(text[i], HIGH)] /\ \A i \in 1..Len(text) : m[i] \in S
    BY <1>1
  <2>2. QED
    BY <1>1, <2>1
<1>3. a \in Seq(S) /\ Len(a) = 1 /\ a[1] = Lock
  OBVIOUS
<1>4. z \in Seq(S) /\ Len(z) = 1 /\ z[1] = Unlock
  OBVIOUS
<1>5. PrintText(text) = (a \o m) \o z
  BY DEF PrintText
<1> HIDE DEF S, m, a, z
<1> DEFINE b == a \o m
<1>6. /\ b \in Seq(S) /\ Len(b) = Len(a) + Len(m)
      /\ \A i \in 1..Len(a) + Len(m) : b[i] = IF i <= Len(a) THEN a[i] ELSE m[i - Len(a)]
  BY <1>2, <1>3, ConcatProperties
<1> DEFINE p == b \o z
<1>7. PrintText(text) = p
  BY <1>5
<1> HIDE DEF b
<1>8. /\ Len(p) = Len(b) + Len(z)
      /\ \A i \in 1..Len(b) + Len(z) : p[i] = IF i <= Len(b) THEN b[i] ELSE z[i - Len(b)]
  <2>1. b \in Seq(S) /\ z \in Seq(S)
    BY <1>4, <1>6
  <2>2. QED
    BY <2>1, ConcatProperties
<1> HIDE DEF p
<1>9. Len(b) = Len(text) + 1 /\ b[1] = Lock /\ \A i \in 1..Len(text) : b[i + 1] = Send(text[i], HIGH)
  BY <1>1, <1>2, <1>3, <1>6
<1>10. /\ Len(p) = Len(text) + 2 /\ p[1] = Lock /\ p[Len(text) + 2] = Unlock
       /\ \A i \in 1..Len(text) : p[i + 1] = Send(text[i], HIGH)
  BY <1>1, <1>4, <1>8, <1>9
<1>11. p \in Seq({Lock, Unlock} \cup {Send(text[i], HIGH) : i \in 1..Len(text)})
  <2>1. p \in Seq(S)
    BY <1>4, <1>6, ConcatProperties DEF p
  <2>2. S = {Lock, Unlock} \cup {Send(text[i], HIGH) : i \in 1..Len(text)}
    BY <1>2 DEF S
  <2>3. QED
    BY <2>1, <2>2
<1>12. QED
  BY <1>7, <1>10, <1>11

LEMMA RowLengths == Row1 \in Nat /\ Row2 \in Nat /\ Text[1] \in Seq(0..255) /\ Text[2] \in Seq(0..255)
BY TextAssumption DEF Row1, Row2

LEMMA UpdaterProgram ==
    /\ Len(DrawFrame) = Row1 + Row2 + 6
    /\ DrawFrame[1] = Send(128, LOW) /\ DrawFrame[Row1 + 4] = Send(192, LOW)
    /\ DrawFrame[2] = Lock /\ DrawFrame[Row1 + 5] = Lock
    /\ DrawFrame[Row1 + 3] = Unlock /\ DrawFrame[Row1 + Row2 + 6] = Unlock
    /\ \A i \in 1..Row1 : DrawFrame[i + 2] = Send(Text[1][i], HIGH)
    /\ \A i \in 1..Row2 : DrawFrame[i + Row1 + 5] = Send(Text[2][i], HIGH)
<1> DEFINE S == {Lock, Unlock, Send(128, LOW), Send(192, LOW)}
                  \cup {Send(Text[1][i], HIGH) : i \in 1..Len(Text[1])}
                  \cup {Send(Text[2][i], HIGH) : i \in 1..Len(Text[2])}
           p == PrintText(Text[1])
           q == PrintText(Text[2])
           a == <<Send(128, LOW)>>
           z == <<Send(192, LOW)>>
<1>1. /\ p \in Seq(S) /\ Len(p) = Row1 + 2 /\ p[1] = Lock /\ p[Row1 + 2] = Unlock
      /\ \A i \in 1..Row1 : p[i + 1] = Send(Text[1][i], HIGH)
  <2>1. p \in Seq({Lock, Unlock} \cup {Send(Text[1][i], HIGH) : i \in 1..Len(Text[1])})
    BY RowLengths, PrintProgram
  <2>2. {Lock, Unlock} \cup {Send(Text[1][i], HIGH) : i \in 1..Len(Text[1])} \subseteq S
    OBVIOUS
  <2>3. p \in Seq(S)
    BY <2>1, <2>2
  <2>4. QED
    BY <2>3, RowLengths, PrintProgram DEF Row1
<1>2. /\ q \in Seq(S) /\ Len(q) = Row2 + 2 /\ q[1] = Lock /\ q[Row2 + 2] = Unlock
      /\ \A i \in 1..Row2 : q[i + 1] = Send(Text[2][i], HIGH)
  <2>1. q \in Seq({Lock, Unlock} \cup {Send(Text[2][i], HIGH) : i \in 1..Len(Text[2])})
    BY RowLengths, PrintProgram
  <2>2. {Lock, Unlock} \cup {Send(Text[2][i], HIGH) : i \in 1..Len(Text[2])} \subseteq S
    OBVIOUS
  <2>3. q \in Seq(S)
    BY <2>1, <2>2
  <2>4. QED
    BY <2>3, RowLengths, PrintProgram DEF Row2
<1>3. /\ a \in Seq(S) /\ Len(a) = 1 /\ a[1] = Send(128, LOW)
      /\ z \in Seq(S) /\ Len(z) = 1 /\ z[1] = Send(192, LOW)
  OBVIOUS
<1>4. SetCursor(0) = a /\ SetCursor(1) = z
  BY DEF SetCursor, CursorAddress
<1>5. DrawFrame = ((a \o p) \o z) \o q
  BY <1>4 DEF DrawFrame
<1> HIDE DEF S, a, z, p, q
<1> DEFINE b == a \o p
<1>6. /\ b \in Seq(S) /\ Len(b) = Len(a) + Len(p)
      /\ \A i \in 1..Len(a) + Len(p) : b[i] = IF i <= Len(a) THEN a[i] ELSE p[i - Len(a)]
  <2>1. a \in Seq(S) /\ p \in Seq(S)
    BY <1>1, <1>3
  <2>2. QED
    BY <2>1, ConcatProperties
<1> HIDE DEF b
<1> DEFINE c == b \o z
<1>7. /\ c \in Seq(S) /\ Len(c) = Len(b) + Len(z)
      /\ \A i \in 1..Len(b) + Len(z) : c[i] = IF i <= Len(b) THEN b[i] ELSE z[i - Len(b)]
  <2>1. b \in Seq(S) /\ z \in Seq(S)
    BY <1>3, <1>6
  <2>2. QED
    BY <2>1, ConcatProperties
<1> HIDE DEF c
<1> DEFINE d == c \o q
<1>8. /\ Len(d) = Len(c) + Len(q)
      /\ \A i \in 1..Len(c) + Len(q) : d[i] = IF i <= Len(c) THEN c[i] ELSE q[i - Len(c)]
  BY <1>2, <1>7, ConcatProperties
<1>9. DrawFrame = d
  BY <1>5 DEF b, c, d
<1> HIDE DEF d
<1>10. /\ Len(b) = Row1 + 3 /\ b[1] = Send(128, LOW) /\ b[2] = Lock /\ b[Row1 + 3] = Unlock
       /\ \A i \in 1..Row1 : b[i + 2] = Send(Text[1][i], HIGH)
  BY <1>1, <1>3, <1>6, RowLengths
<1>11. /\ Len(c) = Row1 + 4 /\ c[Row1 + 4] = Send(192, LOW)
       /\ \A i \in 1..Row1 + 3 : c[i] = b[i]
  BY <1>3, <1>7, <1>10, RowLengths
<1>12. /\ Len(d) = Row1 + Row2 + 6
       /\ \A i \in 1..Row1 + 4 : d[i] = c[i]
       /\ \A i \in 1..Row2 + 2 : d[i + Row1 + 4] = q[i]
  BY <1>2, <1>8, <1>11, RowLengths
<1>13. /\ d[1] = Send(128, LOW) /\ d[2] = Lock /\ d[Row1 + 3] = Unlock /\ d[Row1 + 4] = Send(192, LOW)
       /\ \A i \in 1..Row1 : d[i + 2] = Send(Text[1][i], HIGH)
  BY <1>10, <1>11, <1>12, RowLengths
<1>14. d[Row1 + 5] = Lock /\ d[Row1 + Row2 + 6] = Unlock
  BY <1>2, <1>12, RowLengths
<1>15. \A i \in 1..Row2 : d[i + Row1 + 5] = Send(Text[2][i], HIGH)
  BY <1>2, <1>12, RowLengths
<1>16. QED
  BY <1>9, <1>12, <1>13, <1>14, <1>15

LEMMA StepNumbers ==
    /\ Steps("none") = 1 /\ Steps("lock") = 1 /\ Steps("unlock") = 1
    /\ Steps("lights") = 3 /\ Steps("low") = 3 /\ Steps("nibble") = 7
    /\ Steps("command") = 16 /\ Steps("char") = 16
BY DEF Steps, Bytes

LEMMA SendSteps ==
    ASSUME NEW v, NEW m, NEW k \in Bytes
    PROVE  /\ Len(Send(v, m)) = Steps(k)
           /\ \A j \in 1..16 : Send(v, m)[j] = DigitalWrite(PinAt(k, j), SendVal(v, m, j))
<1>1. PICK s : s = Send(v, m)
  OBVIOUS
<1>2. Len(s) = 16
  BY <1>1, SendOps
<1>3. ASSUME NEW j \in 1..16
      PROVE  s[j] = DigitalWrite(PinAt(k, j), SendVal(v, m, j))
  <2>1. CASE j \in {1, 2}
    BY <2>1, <1>1, SendOps DEF PinAt, SendVal, Bytes
  <2>2. CASE j \in {3, 4, 5, 6}
    BY <2>2, <1>1, SendOps DEF PinAt, SendVal, Bytes
  <2>3. CASE j \in {7, 8, 9}
    BY <2>3, <1>1, SendOps DEF PinAt, SendVal, Bytes
  <2>4. CASE j \in {10, 11, 12, 13}
    BY <2>4, <1>1, SendOps DEF PinAt, SendVal, Bytes
  <2>5. CASE j \in {14, 15, 16}
    BY <2>5, <1>1, SendOps DEF PinAt, SendVal, Bytes
  <2>6. QED
    BY <2>1, <2>2, <2>3, <2>4, <2>5
<1>4. QED
  BY <1>1, <1>2, <1>3 DEF Steps, Bytes

LEMMA NibbleSteps ==
    ASSUME NEW n
    PROVE  /\ Len(Write4Bits(n)) = Steps("nibble")
           /\ \A j \in 1..7 : Write4Bits(n)[j] = DigitalWrite(PinAt("nibble", j), NibbleVal(n, j))
<1>1. PICK s : s = Write4Bits(n)
  OBVIOUS
<1>2. ASSUME NEW j \in 1..7
      PROVE  s[j] = DigitalWrite(PinAt("nibble", j), NibbleVal(n, j))
  <2>1. CASE j \in {1, 2, 3, 4}
    BY <2>1, <1>1, NibbleOps DEF PinAt, NibbleVal
  <2>2. CASE j \in {5, 6, 7}
    BY <2>2, <1>1, NibbleOps DEF PinAt, NibbleVal
  <2>3. QED
    BY <2>1, <2>2
<1>3. QED
  BY <1>1, <1>2, NibbleOps DEF Steps, Bytes

LEMMA LightsSteps ==
    ASSUME NEW c
    PROVE  /\ Len(Lights(c)) = Steps("lights")
           /\ \A j \in 1..3 : Lights(c)[j] = DigitalWrite(PinAt("lights", j), 1 - Bit(c, 3 - j))
BY DEF Steps, Bytes, PinAt, Lights

LEMMA LowSteps ==
    /\ Len(LinesLow) = Steps("low")
    /\ \A j \in 1..3 : LinesLow[j] = DigitalWrite(PinAt("low", j), LOW)
BY DEF Steps, Bytes, PinAt, LinesLow

LEMMA LockSteps ==
    /\ Len(Lock) = 1 /\ Lock[1].op = "lock"
    /\ Len(Unlock) = 1 /\ Unlock[1].op = "unlock"
BY DEF Lock, Unlock

LEMMA MainCalls ==
    ASSUME NEW c \in 1..18, NEW k, k = MainKind(c)
    PROVE  /\ k = "lock" => StartUp[c] = Lock
           /\ k = "unlock" => StartUp[c] = Unlock
           /\ k = "lights" => StartUp[c] = Lights(WHITE)
           /\ k = "low" => StartUp[c] = LinesLow
           /\ k = "nibble" => StartUp[c] = Write4Bits(IF c = 8 THEN 2 ELSE 3)
           /\ k = "command" => StartUp[c] = Send(StartCommands[c - 8], LOW)
           /\ k \in Kinds \ {"none", "char"}
<1>1. CASE c \in {1, 2, 3, 4}
  BY <1>1, MainProgram DEF MainKind, Kinds
<1>2. CASE c \in {5, 6, 7, 8}
  BY <1>2, MainProgram DEF MainKind, Kinds
<1>3. CASE c \in 9..15
  BY <1>3, MainProgram DEF MainKind, Kinds
<1>4. CASE c \in {16, 17, 18}
  BY <1>4, MainProgram DEF MainKind, Kinds
<1>5. QED
  BY <1>1, <1>2, <1>3, <1>4

LEMMA UpdaterCalls ==
    ASSUME NEW c \in 1..(Row1 + Row2 + 6), NEW k, k = UpdaterKind(c)
    PROVE  /\ k = "lock" => DrawFrame[c] = Lock
           /\ k = "unlock" => DrawFrame[c] = Unlock
           /\ k = "command" => DrawFrame[c] = Send(RowValue(c), LOW)
           /\ k = "char" => DrawFrame[c] = Send(RowValue(c), HIGH)
           /\ k \in {"lock", "unlock", "command", "char"}
<1>1. CASE c \in {1, 2, Row1 + 3, Row1 + 4, Row1 + 5, Row1 + Row2 + 6}
  <2>1. CASE c = 1
    <3>1. k = "command" /\ RowValue(c) = 128
      BY <2>1, RowLengths DEF UpdaterKind, RowValue
    <3>2. QED
      BY <2>1, <3>1, UpdaterProgram
  <2>2. CASE c = 2
    BY <2>2, RowLengths, UpdaterProgram DEF UpdaterKind
  <2>3. CASE c = Row1 + 3
    BY <2>3, RowLengths, UpdaterProgram DEF UpdaterKind
  <2>4. CASE c = Row1 + 4
    <3>1. k = "command" /\ RowValue(c) = 192
      BY <2>4, RowLengths DEF UpdaterKind, RowValue
    <3>2. QED
      BY <2>4, <3>1, UpdaterProgram
  <2>5. CASE c = Row1 + 5
    BY <2>5, RowLengths, UpdaterProgram DEF UpdaterKind
  <2>6. CASE c = Row1 + Row2 + 6
    BY <2>6, RowLengths, UpdaterProgram DEF UpdaterKind
  <2>7. QED
    BY <1>1, <2>1, <2>2, <2>3, <2>4, <2>5, <2>6
<1>2. CASE c \in 3..(Row1 + 2)
  <2>1. c - 2 \in 1..Row1 /\ (c - 2) + 2 = c
    BY <1>2, RowLengths
  <2>2. DrawFrame[c] = Send(Text[1][c - 2], HIGH)
    <3>1. DrawFrame[(c - 2) + 2] = Send(Text[1][c - 2], HIGH)
      BY <2>1, UpdaterProgram
    <3>2. QED
      BY <2>1, <3>1
  <2>3. k = "char" /\ RowValue(c) = Text[1][c - 2]
    BY <1>2, RowLengths DEF UpdaterKind, RowValue
  <2>4. QED
    BY <2>2, <2>3
<1>3. CASE c \in (Row1 + 6)..(Row1 + Row2 + 5)
  <2>1. c - Row1 - 5 \in 1..Row2 /\ (c - Row1 - 5) + Row1 + 5 = c
    BY <1>3, RowLengths
  <2>2. DrawFrame[c] = Send(Text[2][c - Row1 - 5], HIGH)
    <3>1. DrawFrame[(c - Row1 - 5) + Row1 + 5] = Send(Text[2][c - Row1 - 5], HIGH)
      BY <2>1, UpdaterProgram
    <3>2. QED
      BY <2>1, <3>1
  <2>3. c # 1 /\ c # Row1 + 4 /\ c \notin 3..(Row1 + 2)
    BY <1>3, RowLengths
  <2>4. k = "char"
    BY <1>3, RowLengths DEF UpdaterKind
  <2>5. RowValue(c) = Text[2][c - Row1 - 5]
    BY <2>3 DEF RowValue
  <2>6. QED
    BY <2>2, <2>4, <2>5
<1>4. QED
  BY <1>1, <1>2, <1>3, RowLengths

\* The shape of the calls, in every state of the right type.
LEMMA CallShape ==
    ASSUME Shape, NEW t \in Threads, Busy(t)
    PROVE  /\ Len(Ops(t)) = LastCall(t)
           /\ Len(Ops(t)[call[t]]) = Steps(Kind(t))
           /\ Kind(t) \in Kinds \ {"none"}
           /\ Kind(t) = "lock" => Op(t).op = "lock"
           /\ Kind(t) = "unlock" => Op(t).op = "unlock"
           /\ Kind(t) \in Driving => Op(t) = DigitalWrite(PinOf(t), ValOf(t))
<1>1. call[t] \in 1..LastCall(t) /\ step[t] \in 1..Steps(Kind(t))
  BY DEF Shape, Placed, Busy, LastCall
<1>2. CASE t = "main"
  <2> DEFINE c == call["main"]
             k == Kind("main")
  <2>1. c \in 1..18 /\ k = MainKind(c) /\ Ops("main") = StartUp /\ Op("main") = StartUp[c][step["main"]]
    BY <1>1, <1>2 DEF LastCall, Kind, Ops, Op
  <2>2. Len(Ops(t)) = LastCall(t)
    BY <1>2, <2>1, MainProgram DEF LastCall
  <2> HIDE DEF c, k
  <2>3. CASE k = "lock" \/ k = "unlock"
    <3>1. step["main"] = 1
      BY <1>1, <1>2, <2>3, StepNumbers DEF k
    <3>2. /\ k = "lock" => Op("main") = Lock[1] /\ StartUp[c] = Lock
          /\ k = "unlock" => Op("main") = Unlock[1] /\ StartUp[c] = Unlock
      BY <2>1, <3>1, MainCalls
    <3>3. QED
      BY <1>2, <2>1, <2>2, <2>3, <3>2, LockSteps, StepNumbers DEF c, k, Kinds, Driving
  <2>4. CASE k = "lights"
    <3>1. StartUp[c] = Lights(WHITE) /\ step["main"] \in 1..3
      BY <1>1, <1>2, <2>1, <2>4, MainCalls, StepNumbers DEF k
    <3>2. ValOf("main") = 1 - Bit(WHITE, 3 - step["main"])
      BY <2>4 DEF ValOf, Shade, k
    <3>3. Op("main") = DigitalWrite(PinOf("main"), ValOf("main"))
      BY <2>1, <2>4, <3>1, <3>2, LightsSteps DEF PinOf, k
    <3>4. QED
      BY <1>2, <2>1, <2>2, <2>4, <3>1, <3>3, LightsSteps DEF Kinds, k, c
  <2>5. CASE k = "low"
    <3>1. StartUp[c] = LinesLow /\ step["main"] \in 1..3
      BY <1>1, <1>2, <2>1, <2>5, MainCalls, StepNumbers DEF k
    <3>2. ValOf("main") = LOW
      BY <2>5 DEF ValOf, k
    <3>3. Op("main") = DigitalWrite(PinOf("main"), ValOf("main"))
      BY <2>1, <2>5, <3>1, <3>2, LowSteps DEF PinOf, k
    <3>4. QED
      BY <1>2, <2>1, <2>2, <2>5, <3>1, <3>3, LowSteps DEF Kinds, k, c
  <2>6. CASE k = "nibble"
    <3>1. StartUp[c] = Write4Bits(Nib("main")) /\ step["main"] \in 1..7
      BY <1>1, <1>2, <2>1, <2>6, MainCalls, StepNumbers DEF k, c, Nib
    <3>2. ValOf("main") = NibbleVal(Nib("main"), step["main"])
      BY <2>6 DEF ValOf, k
    <3>3. Op("main") = DigitalWrite(PinOf("main"), ValOf("main"))
      BY <2>1, <2>6, <3>1, <3>2, NibbleSteps DEF PinOf, k
    <3>4. QED
      BY <1>2, <2>1, <2>2, <2>6, <3>1, <3>3, NibbleSteps DEF Kinds, k, c
  <2>7. CASE k = "command"
    <3>0. k \in Bytes
      BY <2>7 DEF Bytes
    <3>1. StartUp[c] = Send(Value("main"), Mode("main")) /\ step["main"] \in 1..16
      BY <1>1, <1>2, <2>1, <2>7, MainCalls, StepNumbers DEF k, c, Value, Mode
    <3>2. ValOf("main") = SendVal(Value("main"), Mode("main"), step["main"])
      BY <2>7 DEF ValOf, k
    <3>3. Op("main") = DigitalWrite(PinOf("main"), ValOf("main"))
      BY <2>1, <2>7, <3>0, <3>1, <3>2, SendSteps DEF PinOf, k
    <3>4. Len(StartUp[c]) = Steps(k)
      BY <3>0, <3>1, SendSteps
    <3>5. QED
      BY <1>2, <2>1, <2>2, <2>7, <3>3, <3>4 DEF Kinds, k, c
  <2>8. QED
    BY <2>1, <2>3, <2>4, <2>5, <2>6, <2>7, MainCalls DEF Kinds
<1>3. CASE t = "updater"
  <2> DEFINE c == call["updater"]
             k == Kind("updater")
  <2>1. /\ c \in 1..Row1 + Row2 + 6 /\ k = UpdaterKind(c)
        /\ Ops("updater") = DrawFrame /\ Op("updater") = DrawFrame[c][step["updater"]]
    BY <1>1, <1>3 DEF LastCall, Kind, Ops, Op
  <2>2. Len(Ops(t)) = LastCall(t)
    BY <1>3, <2>1, UpdaterProgram DEF LastCall
  <2> HIDE DEF c, k
  <2>3. CASE k = "lock" \/ k = "unlock"
    <3>1. step["updater"] = 1
      BY <1>1, <1>3, <2>3, StepNumbers DEF k
    <3>2. /\ k = "lock" => Op("updater") = Lock[1] /\ DrawFrame[c] = Lock
          /\ k = "unlock" => Op("updater") = Unlock[1] /\ DrawFrame[c] = Unlock
      BY <2>1, <3>1, UpdaterCalls
    <3>3. QED
      BY <1>3, <2>1, <2>2, <2>3, <3>2, LockSteps, StepNumbers DEF c, k, Kinds, Driving
  <2>4. CASE k \in Bytes
    <3>1. DrawFrame[c] = Send(Value("updater"), Mode("updater")) /\ step["updater"] \in 1..16
      BY <1>1, <1>3, <2>1, <2>4, UpdaterCalls, StepNumbers DEF k, c, Value, Mode, Bytes
    <3>2. ValOf("updater") = SendVal(Value("updater"), Mode("updater"), step["updater"])
      BY <2>4 DEF ValOf, k, Bytes
    <3>3. Op("updater") = DigitalWrite(PinOf("updater"), ValOf("updater"))
      BY <2>1, <2>4, <3>1, <3>2, SendSteps DEF PinOf, k
    <3>4. Len(DrawFrame[c]) = Steps(k)
      BY <2>4, <3>1, SendSteps
    <3>5. QED
      BY <1>3, <2>1, <2>2, <2>4, <3>3, <3>4 DEF Kinds, k, c, Bytes
  <2>5. QED
    BY <2>1, <2>3, <2>4, UpdaterCalls DEF Bytes
<1>4. CASE t \in Clients /\ t # "main" /\ t # "updater"
  <2>1. call[t] \in {1, 2, 3} /\ Kind(t) = ClientKind(call[t]) /\ LastCall(t) = 3
    BY <1>1, <1>4 DEF LastCall, Kind
  <2>2. chosen[t] \in {BLACK, WHITE} /\ Shade(t) = chosen[t]
    BY <1>4 DEF Shape, LightType, Shade
  <2>3. Ops(t) = SetBacklight(chosen[t])
    BY <1>4, <2>2 DEF Ops, BacklightOps
  <2>4. /\ Len(Ops(t)) = 3 /\ Ops(t)[1] = Lock /\ Ops(t)[2] = Lights(Shade(t)) /\ Ops(t)[3] = Unlock
    BY <2>2, <2>3 DEF SetBacklight
  <2>5. CASE call[t] \in {1, 3}
    <3>1. (Kind(t) = "lock" /\ call[t] = 1) \/ (Kind(t) = "unlock" /\ call[t] = 3)
      BY <2>1, <2>5 DEF ClientKind
    <3>2. step[t] = 1
      BY <1>1, <3>1, StepNumbers
    <3>3. QED
      BY <2>1, <2>4, <3>1, <3>2, LockSteps, StepNumbers DEF Op, Kinds, Driving
  <2>6. CASE call[t] = 2
    <3>1. Kind(t) = "lights" /\ step[t] \in 1..3 /\ Op(t) = Lights(Shade(t))[step[t]]
      <4>1. Kind(t) = "lights"
        BY <2>1, <2>6 DEF ClientKind
      <4>2. QED
        BY <1>1, <2>4, <2>6, <4>1, StepNumbers DEF Op
    <3>2. ValOf(t) = 1 - Bit(Shade(t), 3 - step[t])
      BY <3>1 DEF ValOf
    <3>3. Op(t) = DigitalWrite(PinOf(t), ValOf(t))
      BY <3>1, <3>2, LightsSteps DEF PinOf
    <3>4. QED
      BY <2>1, <2>4, <2>6, <3>1, <3>3, LightsSteps DEF Kinds
  <2>7. QED
    BY <2>1, <2>5, <2>6
<1>5. QED
  BY <1>2, <1>3, <1>4, ThreadKinds

-----------------------------------------------------------------------------
(* What follows an operation and a call.                                   *)

\* The kind of call that may follow one.
After(k) ==
    CASE k = "lock" -> {"lights", "char", "unlock"}
      [] k = "unlock" -> {"none", "low", "command"}
      [] k = "lights" -> {"unlock"}
      [] k = "low" -> {"nibble"}
      [] k = "nibble" -> {"nibble", "command"}
      [] k = "command" -> {"command", "lock"}
      [] OTHER -> {"char", "unlock"}

LEMMA MainNext ==
    ASSUME NEW c \in 1..18
    PROVE  /\ MainKind(IF c = 18 THEN 0 ELSE c + 1) \in After(MainKind(c))
           /\ MainKind(c) = "lock" => MainKind(IF c = 18 THEN 0 ELSE c + 1) = "lights"
<1>1. CASE c \in {1, 2, 3, 4}
  BY <1>1 DEF MainKind, After
<1>2. CASE c \in {5, 6, 7, 8}
  BY <1>2 DEF MainKind, After
<1>3. CASE c \in 9..15
  BY <1>3 DEF MainKind, After
<1>4. CASE c \in {16, 17, 18}
  BY <1>4 DEF MainKind, After
<1>5. QED
  BY <1>1, <1>2, <1>3, <1>4

LEMMA ClientNext ==
    ASSUME NEW c \in 1..3
    PROVE  /\ ClientKind(IF c = 3 THEN 0 ELSE c + 1) \in After(ClientKind(c))
           /\ ClientKind(c) = "lock" => ClientKind(IF c = 3 THEN 0 ELSE c + 1) = "lights"
BY DEF ClientKind, After

LEMMA UpdaterNext ==
    ASSUME NEW c \in 1..(Row1 + Row2 + 6)
    PROVE  UpdaterKind(IF c = Row1 + Row2 + 6 THEN 0 ELSE c + 1) \in After(UpdaterKind(c))
<1> USE RowLengths
<1>1. CASE c = 1
  BY <1>1 DEF UpdaterKind, After
<1>2. CASE c = 2
  BY <1>2 DEF UpdaterKind, After
<1>3. CASE c \in 3..(Row1 + 2)
  BY <1>3 DEF UpdaterKind, After
<1>4. CASE c = Row1 + 3
  BY <1>4 DEF UpdaterKind, After
<1>5. CASE c = Row1 + 4
  BY <1>5 DEF UpdaterKind, After
<1>6. CASE c = Row1 + 5
  BY <1>6 DEF UpdaterKind, After
<1>7. CASE c \in (Row1 + 6)..(Row1 + Row2 + 5)
  <2>1. UpdaterKind(c) = "char"
    BY <1>7 DEF UpdaterKind
  <2>2. c + 1 # 0 /\ c + 1 \notin {1, Row1 + 4} /\ c + 1 \notin {2, Row1 + 5} /\ c + 1 # Row1 + 3
    BY <1>7
  <2>3. UpdaterKind(c + 1) \in {"char", "unlock"}
    BY <2>2 DEF UpdaterKind
  <2>4. c # Row1 + Row2 + 6
    BY <1>7
  <2>5. QED
    BY <2>1, <2>3, <2>4 DEF After
<1>8. CASE c = Row1 + Row2 + 6
  BY <1>8 DEF UpdaterKind, After
<1>9. QED
  BY <1>1, <1>2, <1>3, <1>4, <1>5, <1>6, <1>7, <1>8

\* The others stay where they are.
LEMMA OthersStay ==
    ASSUME Shape, NEW t \in Threads, Advance(t)
    PROVE  \A u \in Threads \ {t} :
               call'[u] = call[u] /\ step'[u] = step[u] /\ Kind(u)' = Kind(u)
BY DEF Shape, Placed, Advance, Kind

\* Inside a call, and from one call to the next.
LEMMA Onward ==
    ASSUME Shape, NEW t \in Threads, Busy(t), Advance(t)
    PROVE  /\ call' \in [Threads -> Nat] /\ step' \in [Threads -> Nat]
           /\ call'[t] <= LastCall(t)
           /\ step[t] < Steps(Kind(t)) =>
                call'[t] = call[t] /\ step'[t] = step[t] + 1 /\ Kind(t)' = Kind(t)
           /\ step[t] = Steps(Kind(t)) =>
                /\ step'[t] = 1 /\ call'[t] = (IF call[t] = LastCall(t) THEN 0 ELSE call[t] + 1)
                /\ Kind(t)' \in After(Kind(t))
                /\ Kind(t) = "lock" /\ t # "updater" => Kind(t)' = "lights"
<1>1. /\ Len(Ops(t)) = LastCall(t) /\ Len(Ops(t)[call[t]]) = Steps(Kind(t))
      /\ call \in [Threads -> Nat] /\ step \in [Threads -> Nat] /\ call[t] # 0
      /\ call[t] <= LastCall(t) /\ step[t] <= Steps(Kind(t))
  BY CallShape DEF Shape, Placed, Busy
<1>2. LastCall(t) \in Nat
  BY RowLengths DEF LastCall
<1>3. /\ step' = [step EXCEPT ![t] = IF CallEnds(t) THEN 1 ELSE step[t] + 1]
      /\ call' = [call EXCEPT ![t] = IF AtEnd(t) THEN 0
                                     ELSE IF CallEnds(t) THEN call[t] + 1 ELSE call[t]]
      /\ CallEnds(t) <=> step[t] = Steps(Kind(t))
      /\ AtEnd(t) <=> step[t] = Steps(Kind(t)) /\ call[t] = LastCall(t)
  BY <1>1 DEF Advance, CallEnds, AtEnd
<1>4. /\ step'[t] = (IF CallEnds(t) THEN 1 ELSE step[t] + 1)
      /\ call'[t] = (IF AtEnd(t) THEN 0 ELSE IF CallEnds(t) THEN call[t] + 1 ELSE call[t])
      /\ call' \in [Threads -> Nat] /\ step' \in [Threads -> Nat]
  BY <1>1, <1>3
<1>5. call'[t] <= LastCall(t)
  BY <1>1, <1>2, <1>3, <1>4
<1>6. ASSUME step[t] < Steps(Kind(t))
      PROVE  call'[t] = call[t] /\ step'[t] = step[t] + 1 /\ Kind(t)' = Kind(t)
  <2>1. step[t] # Steps(Kind(t))
    BY <1>1, <1>6
  <2>2. call'[t] = call[t] /\ step'[t] = step[t] + 1
    BY <2>1, <1>3, <1>4
  <2>3. QED
    BY <2>2 DEF Kind
<1>7. ASSUME step[t] = Steps(Kind(t))
      PROVE  /\ step'[t] = 1 /\ call'[t] = (IF call[t] = LastCall(t) THEN 0 ELSE call[t] + 1)
             /\ Kind(t)' \in After(Kind(t))
             /\ Kind(t) = "lock" /\ t # "updater" => Kind(t)' = "lights"
  <2>1. step'[t] = 1 /\ call'[t] = (IF call[t] = LastCall(t) THEN 0 ELSE call[t] + 1)
    BY <1>3, <1>4, <1>7
  <2>2. CASE t = "main"
    <3>1. call[t] \in 1..18 /\ LastCall(t) = 18 /\ Kind(t) = MainKind(call[t]) /\ Kind(t)' = MainKind(call'[t])
      BY <1>1, <2>2 DEF LastCall, Kind
    <3>2. QED
      BY <2>1, <3>1, MainNext
  <2>3. CASE t = "updater"
    <3>1. /\ LastCall(t) = Row1 + Row2 + 6
          /\ Kind(t) = UpdaterKind(call[t]) /\ Kind(t)' = UpdaterKind(call'[t])
      BY <2>3 DEF LastCall, Kind
    <3>2. call[t] \in 1..Row1 + Row2 + 6
      BY <1>1, <3>1, RowLengths
    <3>3. QED
      BY <2>1, <2>3, <3>1, <3>2, UpdaterNext
  <2>4. CASE t \in Clients /\ t # "main" /\ t # "updater"
    <3>1. call[t] \in 1..3 /\ LastCall(t) = 3 /\ Kind(t) = ClientKind(call[t]) /\ Kind(t)' = ClientKind(call'[t])
      BY <1>1, <2>4 DEF LastCall, Kind
    <3>2. QED
      BY <2>1, <3>1, ClientNext
  <2>5. QED
    BY <2>1, <2>2, <2>3, <2>4, ThreadKinds
<1>8. QED
  BY <1>4, <1>5, <1>6, <1>7

LEMMA KindsOf ==
    ASSUME Shape, NEW t \in Threads
    PROVE  /\ Busy(t) <=> Kind(t) # "none"
           /\ Kind(t) \in Kinds
           /\ Kind(t) \in {"low", "nibble"} => t = "main"
           /\ Kind(t) = "char" => t = "updater"
           /\ Kind(t) = "command" => t \in {"main", "updater"}
           /\ Kind(t) = "lights" => t # "updater"
<1>1. call[t] \in Nat /\ call[t] <= LastCall(t)
  BY DEF Shape, Placed
<1>2. CASE t = "main"
  <2>1. call[t] \in Nat /\ call[t] <= 18 /\ Kind(t) = MainKind(call[t])
    BY <1>1, <1>2 DEF LastCall, Kind
  <2>2. CASE call[t] = 0
    BY <1>2, <2>1, <2>2 DEF MainKind, Kinds, Busy
  <2>3. CASE call[t] # 0
    <3>1. MainKind(call[t]) \in Kinds \ {"none", "char"}
      BY <2>1, <2>3, MainCalls
    <3>2. QED
      BY <1>2, <2>1, <2>3, <3>1 DEF Busy, Kinds
  <2>4. QED
    BY <2>2, <2>3
<1>3. CASE t = "updater"
  <2>1. call[t] \in Nat /\ call[t] <= Row1 + Row2 + 6 /\ Kind(t) = UpdaterKind(call[t])
    BY <1>1, <1>3 DEF LastCall, Kind
  <2>2. CASE call[t] = 0
    <3>1. UpdaterKind(0) = "none"
      BY RowLengths DEF UpdaterKind
    <3>2. QED
      BY <1>3, <2>1, <2>2, <3>1 DEF Kinds, Busy
  <2>3. CASE call[t] # 0
    <3>1. call[t] \in 1..(Row1 + Row2 + 6)
      BY <2>1, <2>3, RowLengths
    <3>2. UpdaterKind(call[t]) \in {"lock", "unlock", "command", "char"}
      BY <3>1, UpdaterCalls
    <3>3. QED
      BY <1>3, <2>1, <2>3, <3>2 DEF Busy, Kinds
  <2>4. QED
    BY <2>2, <2>3
<1>4. CASE t \in Clients /\ t # "main" /\ t # "updater"
  <2>1. call[t] \in {0, 1, 2, 3} /\ Kind(t) = ClientKind(call[t])
    BY <1>1, <1>4 DEF LastCall, Kind
  <2>2. QED
    BY <1>4, <2>1 DEF ClientKind, Kinds, Busy
<1>5. QED
  BY <1>2, <1>3, <1>4, ThreadKinds

\* The pins of the operations, and the port of each.
LEMMA PinRange ==
    ASSUME Shape, NEW t \in Threads, Kind(t) \in Driving
    PROVE  /\ PinOf(t) \in 6..15 /\ PinOf(t) \in Port(PinOf(t)) /\ Port(PinOf(t)) \in {PortA, PortB}
           /\ Kind(t) # "lights" => PinOf(t) \in 9..15
           /\ Kind(t) = "lights" => PinOf(t) = 9 - step[t] /\ step[t] \in 1..3
           /\ Port(PinOf(t)) = PortA => Kind(t) = "lights"
           /\ Port(PinOf(t)) = (IF PinOf(t) < 8 THEN PortA ELSE PortB)
<1>1. step[t] \in Nat /\ 1 <= step[t] /\ step[t] <= Steps(Kind(t))
  BY DEF Shape, Placed
<1>2. /\ Kind(t) = "lights" => PinOf(t) = 9 - step[t] /\ step[t] \in 1..3
      /\ Kind(t) # "lights" => PinOf(t) \in 9..15
  <2>1. CASE Kind(t) = "lights"
    BY <1>1, <2>1, StepNumbers DEF PinOf, PinAt
  <2>2. CASE Kind(t) = "low"
    BY <1>1, <2>2, StepNumbers DEF PinOf, PinAt, RS, RW, EN
  <2>3. CASE Kind(t) = "nibble"
    BY <1>1, <2>3, StepNumbers DEF PinOf, PinAt, EN
  <2>4. CASE Kind(t) \in {"command", "char"}
    <3>1. step[t] \in 1..16
      BY <1>1, <2>4, StepNumbers
    <3>2. PinOf(t) = (CASE step[t] = 1 -> RS [] step[t] = 2 -> RW [] step[t] \in 3..6 -> 15 - step[t]
                        [] step[t] \in 10..13 -> 22 - step[t] [] OTHER -> EN)
      BY <2>4 DEF PinOf, PinAt
    <3>3. PinOf(t) \in 9..15
      BY <3>1, <3>2 DEF RS, RW, EN
    <3>4. QED
      BY <2>4, <3>3
  <2>5. QED
    BY <2>1, <2>2, <2>3, <2>4 DEF Driving
<1>3. QED
  BY <1>2, PortsDiffer DEF Port, PortA, PortB

\* Which thread performs an operation, and of which kind.
LEMMA OpKind ==
    ASSUME Shape, NEW t \in Threads, Busy(t)
    PROVE  /\ Op(t).op = "lock" => Kind(t) = "lock"
           /\ Op(t).op = "unlock" => Kind(t) = "unlock"
           /\ Op(t).op = "pin" => Kind(t) \in Driving /\ Op(t).pin = PinOf(t) /\ Op(t).val = ValOf(t)
<1>1. Kind(t) \in Driving => Op(t).op = "pin" /\ Op(t).pin = PinOf(t) /\ Op(t).val = ValOf(t)
  BY CallShape DEF DigitalWrite
<1>2. QED
  BY <1>1, CallShape DEF Kinds, Driving

LEMMA NibbleRange == ASSUME NEW pins PROVE Nibble(pins) \in 0..15
<1>1. \A a, b, c, d \in 0..1 : a + 2 * b + 4 * c + 8 * d \in 0..15
  OBVIOUS
<1>2. QED
  BY DEF Nibble

\* The LCD keeps its type whatever it takes.
LEMMA TakeType ==
    ASSUME LcdType, expected \in Seq({LOW, HIGH} \X (0..255)), NEW n \in 0..15, NEW rs, Take(n, rs)
    PROVE  /\ width' \in {4, 8} /\ (half' = {} \/ \E m \in 0..15 : half' = {m})
           /\ width' = 8 => half' = {}
           /\ got' \in 0..Len(expected) /\ intact' \in BOOLEAN
<1>1. CASE width = 8
  <2>1. half' = half /\ half = {}
    BY <1>1 DEF Take, LcdType
  <2>2. \/ width' = 4 /\ got' = 0 /\ intact' = TRUE
        \/ width' = width /\ got' = got /\ intact' = intact
    BY <1>1 DEF Take
  <2>3. 0 \in 0..Len(expected)
    OBVIOUS
  <2>4. QED
    BY <2>1, <2>2, <2>3 DEF LcdType
<1>2. CASE width = 4 /\ half = {}
  BY <1>2 DEF Take, LcdType
<1>3. CASE width = 4 /\ half # {}
  <2>1. half' = {} /\ width' \in {4, 8} /\ \E byte : Receive(byte)
    BY <1>3 DEF Take
  <2>2. got' \in 0..Len(expected) /\ intact' \in BOOLEAN
    BY <2>1 DEF Receive, LcdType
  <2>3. QED
    BY <2>1, <2>2
<1>4. QED
  BY <1>1, <1>2, <1>3 DEF LcdType

LEMMA ListenType ==
    ASSUME LcdType, expected \in Seq({LOW, HIGH} \X (0..255)), NEW pins, Listen(pins)
    PROVE  /\ width' \in {4, 8} /\ (half' = {} \/ \E m \in 0..15 : half' = {m})
           /\ width' = 8 => half' = {}
           /\ got' \in 0..Len(expected) /\ intact' \in BOOLEAN
<1>1. CASE Take(Nibble(pins), IF RS \in pins THEN HIGH ELSE LOW)
  BY <1>1, NibbleRange, TakeType
<1>2. CASE UNCHANGED <<width, half, got, intact>>
  BY <1>2 DEF LcdType
<1>3. QED
  BY <1>1, <1>2 DEF Listen

\* The two outcomes of the second half of a pin operation.
Written(t, v) == IF ValOf(t) = HIGH THEN v \cup {PinOf(t)} ELSE v \ {PinOf(t)}
LEMMA WriteEffect ==
    ASSUME Shape, NEW t \in Threads, WritePort(t)
    PROVE  /\ Busy(t) /\ Kind(t) \in Driving /\ Advance(t) /\ reg' = [reg EXCEPT ![t] = {}]
           /\ \E v \in SUBSET Port(PinOf(t)) :
                /\ reg[t] = {v}
                /\ \/ /\ latch' = (latch \ Port(PinOf(t))) \cup Written(t, v)
                      /\ Listen(latch') /\ failed' = failed
                   \/ /\ MayFail(Port(PinOf(t))) /\ failed' = failed \cup {Port(PinOf(t))}
                      /\ UNCHANGED lcd
<1>1. /\ Busy(t) /\ Op(t).op = "pin" /\ reg[t] # {} /\ Advance(t) /\ reg' = [reg EXCEPT ![t] = {}]
  BY DEF WritePort
<1>2. Kind(t) \in Driving /\ Op(t).pin = PinOf(t) /\ Op(t).val = ValOf(t)
  BY <1>1, OpKind
<1>3. PICK v \in SUBSET Port(PinOf(t)) : reg[t] = {v}
  BY <1>1 DEF Shape, Placed, Held
<1>4. (CHOOSE x \in reg[t] : TRUE) = v
  BY <1>3
<1>5. \/ /\ latch' = (latch \ Port(PinOf(t))) \cup Written(t, v)
         /\ Listen(latch') /\ failed' = failed
      \/ /\ MayFail(Port(PinOf(t))) /\ failed' = failed \cup {Port(PinOf(t))}
         /\ UNCHANGED lcd
  BY <1>2, <1>4 DEF WritePort, Written
<1>6. QED
  BY <1>1, <1>2, <1>3, <1>5

-----------------------------------------------------------------------------
(* Inv is inductive: types, the start alone, and mutual exclusion.         *)

LEMMA StepsPositive == \A k : Steps(k) \in Nat /\ 1 <= Steps(k)
BY DEF Steps

\* Outside a pin operation a thread holds no port value.
LEMMA IdleHoldsNothing ==
    ASSUME Shape, NEW t \in Threads, Kind(t) \notin Driving
    PROVE  reg[t] = {}
BY DEF Shape, Placed, Held

\* During the start every step is one of the main thread.
LEMMA OnlyMainSteps ==
    ASSUME Inv, Busy("main"), NEW t \in Threads, t # "main"
    PROVE  ~Busy(t) /\ reg[t] = {}
<1>1. ~Busy(t)
  BY ThreadKinds DEF Inv, StartAlone, ClientsWrite, Busy
<1>2. Kind(t) = "none"
  BY <1>1, KindsOf DEF Inv
<1>3. QED
  BY <1>1, <1>2, IdleHoldsNothing DEF Inv, Driving

LEMMA AdvancePlaced ==
    ASSUME Shape, NEW t \in Threads, Busy(t), Advance(t),
           DOMAIN reg' = Threads, reg'[t] = {}, \A u \in Threads \ {t} : reg'[u] = reg[u]
    PROVE  Placed'
<1>1. call' \in [Threads -> Nat] /\ step' \in [Threads -> Nat]
  BY Onward
<1>2. ASSUME NEW u \in Threads
      PROVE  call'[u] <= LastCall(u) /\ 1 <= step'[u] /\ step'[u] <= Steps(Kind(u)')
  <2>1. CASE u = t
    <3>1. call'[t] <= LastCall(t)
      BY Onward
    <3>2. step[t] \in Nat /\ 1 <= step[t] /\ step[t] <= Steps(Kind(t)) /\ Steps(Kind(t)) \in Nat
      BY StepsPositive DEF Shape, Placed
    <3>3. CASE step[t] < Steps(Kind(t))
      <4>1. step'[t] = step[t] + 1 /\ Kind(t)' = Kind(t)
        BY <3>3, Onward
      <4>2. QED
        BY <2>1, <3>1, <3>2, <3>3, <4>1
    <3>4. CASE step[t] = Steps(Kind(t))
      <4>1. step'[t] = 1
        BY <3>4, Onward
      <4>2. QED
        BY <2>1, <3>1, <4>1, StepsPositive
    <3>5. QED
      BY <3>2, <3>3, <3>4
  <2>2. CASE u # t
    BY <2>2, OthersStay DEF Shape, Placed
  <2>3. QED
    BY <2>1, <2>2
<1>3. ASSUME NEW u \in Threads
      PROVE  Held(u)'
  <2>1. CASE u = t
    BY <2>1 DEF Held
  <2>2. CASE u # t
    <3>1. reg'[u] = reg[u] /\ Kind(u)' = Kind(u) /\ PinOf(u)' = PinOf(u)
      BY <2>2, OthersStay DEF PinOf
    <3>2. Held(u)
      BY DEF Shape, Placed
    <3>3. QED
      BY <3>1, <3>2 DEF Held
  <2>3. QED
    BY <2>1, <2>2
<1>4. QED
  BY <1>1, <1>2, <1>3 DEF Placed

\* The end of a client's sequence is the end of its call of backlight().
LEMMA AdvanceClients ==
    ASSUME Inv, NEW t \in Threads, Busy(t), Advance(t)
    PROVE  /\ ClientsWrite'
           /\ loc' \in [Clients -> Locations] /\ chosen' \in [Clients -> {BLACK, WHITE}]
           /\ t \notin Clients => loc' = loc /\ chosen' = chosen
           /\ \A u \in Clients : u # t => loc'[u] = loc[u] /\ chosen'[u] = chosen[u]
           /\ t \in Clients => loc'[t] = IF call'[t] = 0 THEN "idle" ELSE "write"
           /\ t \in Clients /\ call'[t] # 0 => chosen'[t] = chosen[t]
<1>1. /\ call \in [Threads -> Nat] /\ loc \in [Clients -> Locations]
      /\ chosen \in [Clients -> {BLACK, WHITE}] /\ Clients \subseteq Threads
      /\ \A u \in Clients : loc[u] = "write" <=> call[u] # 0
  BY DEF Inv, Shape, Placed, LightType, ClientsWrite, Threads, Clients
<1>2. AtEnd(t) <=> step[t] = Steps(Kind(t)) /\ call[t] = LastCall(t)
  BY CallShape DEF Inv, AtEnd, CallEnds
<1>3. AtEnd(t) <=> call'[t] = 0
  <2>1. step[t] \in Nat /\ step[t] <= Steps(Kind(t)) /\ Steps(Kind(t)) \in Nat /\ call[t] \in Nat \ {0}
    BY StepsPositive DEF Inv, Shape, Placed, Busy
  <2>2. CASE step[t] < Steps(Kind(t))
    <3>1. call'[t] = call[t]
      BY <2>2, Onward DEF Inv
    <3>2. QED
      BY <1>2, <2>1, <2>2, <3>1
  <2>3. CASE step[t] = Steps(Kind(t))
    <3>1. call'[t] = (IF call[t] = LastCall(t) THEN 0 ELSE call[t] + 1)
      BY <2>3, Onward DEF Inv
    <3>2. QED
      BY <1>2, <2>1, <2>3, <3>1
  <2>4. QED
    BY <2>1, <2>2, <2>3
<1>4. \A u \in Threads \ {t} : call'[u] = call[u]
  BY OthersStay DEF Inv
<1>5. CASE t \in Clients /\ AtEnd(t)
  <2>1. loc' = [loc EXCEPT ![t] = "idle"] /\ chosen' = [chosen EXCEPT ![t] = BLACK]
    BY <1>5 DEF Advance
  <2>2. QED
    BY <1>1, <1>3, <1>4, <1>5, <2>1 DEF ClientsWrite, Locations
<1>6. CASE ~(t \in Clients /\ AtEnd(t))
  <2>1. loc' = loc /\ chosen' = chosen
    BY <1>6 DEF Advance
  <2>2. call[t] # 0
    BY DEF Busy
  <2>3. QED
    BY <1>1, <1>3, <1>4, <1>6, <2>1, <2>2 DEF ClientsWrite
<1>7. QED
  BY <1>5, <1>6

\* A step of a thread, as far as the start and the mutex see it.
LEMMA StepAlone ==
    ASSUME Inv, NEW t \in Threads, Busy(t), Advance(t), Busy("main")'
    PROVE  t = "main" /\ Busy("main") /\ call'["updater"] = 0 /\ \A u \in Clients : loc'[u] = "idle"
<1>1. Busy("main")
  <2>1. CASE t # "main"
    BY <2>1, OthersStay DEF Inv, Busy, Threads
  <2>2. QED
    BY <2>1
<1>2. t = "main"
  BY <1>1, OnlyMainSteps
<1>3. call'["updater"] = call["updater"]
  BY <1>2, OthersStay DEF Inv, Threads
<1>4. loc' = loc
  BY <1>2, AdvanceClients, ClientsApart
<1>5. QED
  BY <1>1, <1>2, <1>3, <1>4 DEF Inv, StartAlone

LEMMA TakeMutexInv == ASSUME Inv, NEW t \in Threads, TakeMutex(t) PROVE Inv'
<1>1. /\ Busy(t) /\ Op(t).op = "lock" /\ mutex = NoOne /\ mutex' = t /\ Advance(t)
      /\ colour' = (IF t \in Clients THEN chosen[t] ELSE colour)
      /\ UNCHANGED <<reg, lcd, left, clr, tmp, wanted, expected, raced, failed, restarts>>
  BY DEF TakeMutex
<1>2. Kind(t) = "lock" /\ step[t] = Steps(Kind(t))
  <2>1. Kind(t) = "lock"
    BY <1>1, OpKind DEF Inv
  <2>2. QED
    BY <2>1, StepNumbers DEF Inv, Shape, Placed
<1>3. Kind(t)' \in {"lights", "char", "unlock"}
  BY <1>1, <1>2, Onward DEF Inv, After
<1>4. reg[t] = {}
  BY <1>2, IdleHoldsNothing DEF Inv, Driving
<1>5. Placed'
  BY <1>1, <1>4, AdvancePlaced DEF Inv, Shape, Placed
<1>6. LcdType'
  BY <1>1 DEF Inv, Shape, LcdType, lcd
<1>7. LightType'
  BY <1>1, AdvanceClients DEF Inv, Shape, LightType
<1>8. HistoryType'
  BY <1>1 DEF Inv, Shape, HistoryType
<1>9. StartAlone'
  <2>1. ASSUME Busy("main")'
        PROVE  /\ call'["updater"] = 0 /\ (\A u \in Clients : loc'[u] = "idle") /\ ~raced' /\ failed' = {}
               /\ expected' = StartBytes /\ colour' = WHITE /\ clr' = 1 /\ wanted' = {WHITE}
    <3>1. t = "main" /\ Busy("main") /\ call'["updater"] = 0 /\ \A u \in Clients : loc'[u] = "idle"
      BY <1>1, <2>1, StepAlone
    <3>2. QED
      BY <1>1, <3>1, ClientsApart DEF Inv, StartAlone
  <2>2. QED
    BY <2>1 DEF StartAlone
<1>10. ClientsWrite'
  BY <1>1, AdvanceClients
<1>11. Exclusion'
  <2>1. \A u \in Threads : ~Inside(u)
    BY <1>1, NoOneAssumption DEF Inv, Exclusion
  <2>2. Inside(t)'
    BY <1>3 DEF Inside
  <2>3. \A u \in Threads \ {t} : ~Inside(u)'
    BY <1>1, <2>1, OthersStay DEF Inv, Inside
  <2>4. QED
    BY <1>1, <2>2, <2>3 DEF Exclusion
<1>12. QED
  BY <1>5, <1>6, <1>7, <1>8, <1>9, <1>10, <1>11 DEF Inv, Shape

LEMMA DropMutexInv == ASSUME Inv, NEW t \in Threads, DropMutex(t) PROVE Inv'
<1>1. /\ Busy(t) /\ Op(t).op = "unlock" /\ mutex' = NoOne /\ Advance(t)
      /\ UNCHANGED <<reg, lcd, left, clr, tmp, asked, expected, raced, failed, restarts>>
  BY DEF DropMutex
<1>2. Kind(t) = "unlock" /\ step[t] = Steps(Kind(t))
  <2>1. Kind(t) = "unlock"
    BY <1>1, OpKind DEF Inv
  <2>2. QED
    BY <2>1, StepNumbers DEF Inv, Shape, Placed
<1>3. Kind(t)' \in {"none", "low", "command"}
  BY <1>1, <1>2, Onward DEF Inv, After
<1>4. reg[t] = {}
  BY <1>2, IdleHoldsNothing DEF Inv, Driving
<1>5. Placed'
  BY <1>1, <1>4, AdvancePlaced DEF Inv, Shape, Placed
<1>6. LcdType'
  BY <1>1 DEF Inv, Shape, LcdType, lcd
<1>7. LightType'
  BY <1>1, AdvanceClients DEF Inv, Shape, LightType, asked
<1>8. HistoryType'
  BY <1>1 DEF Inv, Shape, HistoryType
<1>9. StartAlone'
  <2>1. ASSUME Busy("main")'
        PROVE  /\ call'["updater"] = 0 /\ (\A u \in Clients : loc'[u] = "idle") /\ ~raced' /\ failed' = {}
               /\ expected' = StartBytes /\ colour' = WHITE /\ clr' = 1 /\ wanted' = {WHITE}
    <3>1. t = "main" /\ Busy("main") /\ call'["updater"] = 0 /\ \A u \in Clients : loc'[u] = "idle"
      BY <1>1, <2>1, StepAlone
    <3>2. QED
      BY <1>1, <3>1 DEF Inv, StartAlone, asked
  <2>2. QED
    BY <2>1 DEF StartAlone
<1>10. ClientsWrite'
  BY <1>1, AdvanceClients
<1>11. Exclusion'
  <2>1. mutex = t /\ \A u \in Threads \ {t} : ~Inside(u)
    BY <1>2 DEF Inv, Exclusion, Inside
  <2>2. ~Inside(t)'
    BY <1>3 DEF Inside
  <2>3. \A u \in Threads \ {t} : ~Inside(u)'
    BY <1>1, <2>1, OthersStay DEF Inv, Inside
  <2>4. QED
    BY <1>1, <2>2, <2>3, NoOneAssumption DEF Exclusion
<1>12. QED
  BY <1>5, <1>6, <1>7, <1>8, <1>9, <1>10, <1>11 DEF Inv, Shape

LEMMA WritePortInv == ASSUME Inv, NEW t \in Threads, WritePort(t) PROVE Inv'
<1>1. /\ Busy(t) /\ Kind(t) \in Driving /\ Advance(t) /\ reg' = [reg EXCEPT ![t] = {}]
  BY WriteEffect DEF Inv
<1>2. UNCHANGED <<mutex, left, clr, tmp, asked, expected, raced, restarts>>
  BY DEF WritePort
<1>3. PICK v \in SUBSET Port(PinOf(t)) :
         \/ /\ latch' = (latch \ Port(PinOf(t))) \cup Written(t, v)
            /\ Listen(latch') /\ failed' = failed
         \/ /\ MayFail(Port(PinOf(t))) /\ failed' = failed \cup {Port(PinOf(t))}
            /\ UNCHANGED lcd
  BY WriteEffect DEF Inv
<1>4. /\ PinOf(t) \in 6..15 /\ Port(PinOf(t)) \in {PortA, PortB}
  BY <1>1, PinRange DEF Inv
<1>5. Placed'
  <2>1. DOMAIN reg' = Threads /\ reg'[t] = {} /\ \A u \in Threads \ {t} : reg'[u] = reg[u]
    BY <1>1 DEF Inv, Shape, Placed
  <2>2. QED
    BY <1>1, <2>1, AdvancePlaced DEF Inv
<1>6. LcdType'
  <2>1. CASE latch' = (latch \ Port(PinOf(t))) \cup Written(t, v) /\ Listen(latch')
    <3>1. Port(PinOf(t)) \subseteq 0..15
      BY <1>4 DEF PortA, PortB
    <3>2. latch' \subseteq 0..15
      <4>1. PinOf(t) \in 0..15
        BY <1>4
      <4>2. Written(t, v) \subseteq 0..15
        BY <3>1, <4>1 DEF Written
      <4>3. QED
        BY <2>1, <4>2 DEF Inv, Shape, LcdType
    <3>3. QED
      BY <1>2, <2>1, <3>2, ListenType DEF Inv, Shape, LcdType, HistoryType
  <2>2. CASE UNCHANGED lcd
    BY <1>2, <2>2 DEF Inv, Shape, LcdType, lcd
  <2>3. QED
    BY <1>3, <2>1, <2>2
<1>7. LightType'
  BY <1>1, <1>2, AdvanceClients DEF Inv, Shape, LightType, asked
<1>8. HistoryType'
  BY <1>2, <1>3 DEF Inv, Shape, HistoryType, MayFail
<1>9. StartAlone'
  <2>1. ASSUME Busy("main")'
        PROVE  /\ call'["updater"] = 0 /\ (\A u \in Clients : loc'[u] = "idle") /\ ~raced' /\ failed' = {}
               /\ expected' = StartBytes /\ colour' = WHITE /\ clr' = 1 /\ wanted' = {WHITE}
    <3>1. t = "main" /\ Busy("main") /\ call'["updater"] = 0 /\ \A u \in Clients : loc'[u] = "idle"
      BY <1>1, <2>1, StepAlone
    <3>2. failed' = failed
      BY <1>3, <3>1 DEF MayFail
    <3>3. QED
      BY <1>2, <3>1, <3>2 DEF Inv, StartAlone, asked
  <2>2. QED
    BY <2>1 DEF StartAlone
<1>10. ClientsWrite'
  BY <1>1, AdvanceClients
<1>11. Exclusion'
  <2>1. Inside(t)' <=> Inside(t)
    <3>1. step[t] \in Nat /\ step[t] <= Steps(Kind(t)) /\ Steps(Kind(t)) \in Nat
      BY StepsPositive DEF Inv, Shape, Placed
    <3>2. CASE step[t] < Steps(Kind(t))
      BY <1>1, <3>2, Onward DEF Inv, Inside
    <3>3. CASE step[t] = Steps(Kind(t))
      BY <1>1, <3>3, Onward DEF Inv, Inside, After, Driving
    <3>4. QED
      BY <3>1, <3>2, <3>3
  <2>2. \A u \in Threads \ {t} : Inside(u)' <=> Inside(u)
    BY <1>1, OthersStay DEF Inv, Inside
  <2>3. QED
    BY <1>2, <2>1, <2>2 DEF Inv, Exclusion
<1>12. QED
  BY <1>5, <1>6, <1>7, <1>8, <1>9, <1>10, <1>11 DEF Inv, Shape

LEMMA ReadPortInv == ASSUME Inv, NEW t \in Threads, ReadPort(t) PROVE Inv'
<1>1. /\ Busy(t) /\ Kind(t) \in Driving /\ Op(t).pin = PinOf(t) /\ reg[t] = {}
      /\ UNCHANGED <<call, step, mutex, lcd, light, asked, expected, restarts>>
  BY OpKind DEF ReadPort, Inv
<1>2. PICK v \in SUBSET Port(PinOf(t)) :
        /\ reg' = [reg EXCEPT ![t] = {v}]
        /\ failed' = failed \/ (MayFail(Port(PinOf(t))) /\ failed' = failed \cup {Port(PinOf(t))})
  BY <1>1 DEF ReadPort
<1>3. raced' = (raced \/ \E u \in Threads \ {t} : InFlight(u, Port(PinOf(t))))
  BY <1>1 DEF ReadPort
<1>4. /\ \A u \in Threads : Kind(u)' = Kind(u) /\ PinOf(u)' = PinOf(u) /\ Busy(u)' = Busy(u)
      /\ Busy("main")' = Busy("main")
  BY <1>1 DEF Kind, PinOf, Busy
<1>5. Placed'
  <2>1. ASSUME NEW u \in Threads PROVE Held(u)'
    <3>1. CASE u = t
      <4>1. reg'[t] = {v}
        BY <1>2 DEF Inv, Shape, Placed
      <4>2. Kind(t)' \in Driving /\ v \in SUBSET Port(PinOf(t)')
        BY <1>1, <1>4
      <4>3. QED
        BY <3>1, <4>1, <4>2 DEF Held
    <3>2. CASE u # t
      <4>1. reg'[u] = reg[u]
        BY <1>2, <3>2 DEF Inv, Shape, Placed
      <4>2. QED
        BY <1>4, <4>1 DEF Inv, Shape, Placed, Held
    <3>3. QED
      BY <3>1, <3>2
  <2>2. QED
    BY <1>1, <1>2, <1>4, <2>1 DEF Inv, Shape, Placed
<1>6. LcdType' /\ LightType'
  BY <1>1 DEF Inv, Shape, LcdType, LightType, lcd, light, asked
<1>7. HistoryType'
  <2>1. raced' \in BOOLEAN
    BY <1>3
  <2>2. failed' \subseteq FaultyPorts
    BY <1>2 DEF Inv, Shape, HistoryType, MayFail
  <2>3. QED
    BY <1>1, <2>1, <2>2 DEF Inv, Shape, HistoryType
<1>8. StartAlone'
  <2>1. ASSUME Busy("main") PROVE ~raced' /\ failed' = {}
    <3>1. t = "main"
      BY <1>1, <2>1, OnlyMainSteps
    <3>2. \A u \in Threads \ {t} : ~InFlight(u, Port(PinOf(t)))
      BY <2>1, <3>1, OnlyMainSteps DEF InFlight
    <3>3. failed' = failed
      BY <1>2, <2>1 DEF MayFail
    <3>4. QED
      BY <1>3, <2>1, <3>2, <3>3 DEF Inv, StartAlone
  <2>2. QED
    BY <1>1, <1>4, <2>1 DEF Inv, StartAlone, light, asked
<1>9. ClientsWrite' /\ Exclusion'
  BY <1>1, <1>4 DEF Inv, ClientsWrite, Exclusion, Inside, light
<1>10. QED
  BY <1>5, <1>6, <1>7, <1>8, <1>9 DEF Inv, Shape

LEMMA BytesTyped ==
    /\ StartBytes \in Seq({LOW, HIGH} \X (0..255)) /\ Len(StartBytes) = 7
    /\ FrameBytes \in Seq({LOW, HIGH} \X (0..255))
<1>1. StartBytes \in Seq({LOW, HIGH} \X (0..255)) /\ Len(StartBytes) = 7
  BY DEF StartBytes, StartCommands, CursorAddress
<1> DEFINE S == {LOW, HIGH} \X (0..255)
           a == <<<<LOW, CursorAddress(0)>>>>
           z == <<<<LOW, CursorAddress(1)>>>>
           p == [i \in DOMAIN Text[1] |-> <<HIGH, Text[1][i]>>]
           q == [i \in DOMAIN Text[2] |-> <<HIGH, Text[2][i]>>]
<1>2. a \in Seq(S) /\ z \in Seq(S)
  BY DEF CursorAddress, LOW
<1>3. p \in Seq(S) /\ q \in Seq(S)
  <2>1. DOMAIN Text[1] = 1..Row1 /\ DOMAIN Text[2] = 1..Row2
    BY RowLengths DEF Row1, Row2
  <2>2. /\ \A i \in 1..Row1 : Text[1][i] \in 0..255
        /\ \A i \in 1..Row2 : Text[2][i] \in 0..255
    <3>1. /\ Text[1] \in Seq(0..255) /\ DOMAIN Text[1] = 1..Len(Text[1]) /\ Row1 = Len(Text[1])
          /\ Text[2] \in Seq(0..255) /\ DOMAIN Text[2] = 1..Len(Text[2]) /\ Row2 = Len(Text[2])
      BY RowLengths DEF Row1, Row2
    <3>2. /\ \A i \in 1..Len(Text[1]) : Text[1][i] \in 0..255
          /\ \A i \in 1..Len(Text[2]) : Text[2][i] \in 0..255
      BY <3>1, ElementOfSeq
    <3>3. QED
      BY <3>1, <3>2
  <2>3. p = [i \in 1..Row1 |-> <<HIGH, Text[1][i]>>] /\ \A i \in 1..Row1 : <<HIGH, Text[1][i]>> \in S
    BY <2>1, <2>2
  <2>4. q = [i \in 1..Row2 |-> <<HIGH, Text[2][i]>>] /\ \A i \in 1..Row2 : <<HIGH, Text[2][i]>> \in S
    BY <2>1, <2>2
  <2> HIDE DEF S, p, q
  <2>5. p \in [1..Row1 -> S] /\ q \in [1..Row2 -> S]
    BY <2>3, <2>4
  <2>6. QED
    BY <2>5, RowLengths, SeqDef
<1>4. FrameBytes = ((a \o p) \o z) \o q
  BY DEF FrameBytes
<1> HIDE DEF S, a, z, p, q
<1>5. (a \o p) \in Seq(S)
  BY <1>2, <1>3, ConcatProperties
<1>6. ((a \o p) \o z) \in Seq(S)
  BY <1>2, <1>5, ConcatProperties
<1>7. FrameBytes \in Seq(S)
  BY <1>3, <1>4, <1>6, ConcatProperties
<1>8. QED
  BY <1>1, <1>7 DEF S

LEMMA StartDrawInv == ASSUME Inv, StartDraw PROVE Inv'
<1>1. /\ ~Busy("main") /\ ~Busy("updater") /\ call' = [call EXCEPT !["updater"] = 1]
      /\ expected' = expected \o FrameBytes
      /\ UNCHANGED <<step, reg, mutex, lcd, light, asked, raced, failed, restarts>>
  BY DEF StartDraw
<1>2. /\ "updater" \in Threads /\ call \in [Threads -> Nat] /\ call' \in [Threads -> Nat]
      /\ call'["updater"] = 1 /\ \A u \in Threads \ {"updater"} : call'[u] = call[u]
  BY <1>1 DEF Inv, Shape, Placed, Threads
<1>3. \A u \in Threads \ {"updater"} : Kind(u)' = Kind(u) /\ PinOf(u)' = PinOf(u)
  BY <1>1, <1>2 DEF Kind, PinOf
<1>4. Kind("updater") = "none" /\ Kind("updater")' = "command" /\ step["updater"] = 1
  <2>1. Kind("updater") = "none"
    BY <1>1, <1>2, KindsOf DEF Inv
  <2>2. Kind("updater")' = "command"
    BY <1>2, RowLengths DEF Kind, UpdaterKind
  <2>3. QED
    BY <1>2, <2>1, <2>2, StepNumbers DEF Inv, Shape, Placed
<1>5. reg["updater"] = {}
  BY <1>2, <1>4, IdleHoldsNothing DEF Inv, Driving
<1>6. Placed'
  <2>1. \A u \in Threads : Held(u)'
    BY <1>1, <1>3, <1>5 DEF Inv, Shape, Placed, Held
  <2>2. ASSUME NEW u \in Threads
        PROVE  call'[u] <= LastCall(u) /\ 1 <= step'[u] /\ step'[u] <= Steps(Kind(u)')
    <3>1. CASE u = "updater"
      BY <1>1, <1>2, <1>4, <3>1, StepNumbers, RowLengths DEF LastCall
    <3>2. CASE u # "updater"
      BY <1>1, <1>2, <1>3, <3>2 DEF Inv, Shape, Placed
    <3>3. QED
      BY <3>1, <3>2
  <2>3. QED
    BY <1>1, <1>2, <2>1, <2>2 DEF Inv, Shape, Placed
<1>7. expected' \in Seq({LOW, HIGH} \X (0..255)) /\ Len(expected') = Len(expected) + Len(FrameBytes)
  BY <1>1, BytesTyped, ConcatProperties DEF Inv, Shape, HistoryType
<1>8. LcdType'
  <2>1. Len(expected) \in Nat /\ Len(FrameBytes) \in Nat
    BY BytesTyped DEF Inv, Shape, HistoryType
  <2>2. got' \in 0..Len(expected')
    BY <1>1, <1>7, <2>1 DEF Inv, Shape, LcdType, lcd
  <2>3. QED
    BY <1>1, <2>2 DEF Inv, Shape, LcdType, lcd
<1>9. LightType' /\ HistoryType'
  BY <1>1, <1>7 DEF Inv, Shape, LightType, HistoryType, light, asked
<1>10. StartAlone'
  BY <1>1, <1>2 DEF StartAlone, Busy, Threads
<1>11. ClientsWrite'
  BY <1>1, <1>2, ClientsApart DEF Inv, ClientsWrite, light, Threads, Clients
<1>12. Exclusion'
  BY <1>1, <1>3, <1>4 DEF Inv, Exclusion, Inside
<1>13. QED
  BY <1>6, <1>8, <1>9, <1>10, <1>11, <1>12 DEF Inv, Shape

\* The steps of backlight() before the first operation change nothing but the
\* counter and the place of the caller.
LEMMA CounterInv ==
    ASSUME Inv, ~Busy("main"), NEW t \in Clients, loc[t] # "write",
           NEW l \in Locations \ {"write"}, loc' = [loc EXCEPT ![t] = l], LightType',
           UNCHANGED <<call, step, reg, mutex, lcd, expected, raced, failed, restarts>>
    PROVE  Inv'
<1>1. \A u \in Threads : Kind(u)' = Kind(u) /\ PinOf(u)' = PinOf(u)
  BY DEF Kind, PinOf
<1>2. Placed'
  BY <1>1 DEF Inv, Shape, Placed, Held
<1>3. LcdType' /\ HistoryType'
  BY DEF Inv, Shape, LcdType, HistoryType, lcd
<1>4. StartAlone'
  BY DEF StartAlone, Busy
<1>5. ClientsWrite'
  BY DEF Inv, Shape, LightType, ClientsWrite
<1>6. Exclusion'
  BY <1>1 DEF Inv, Exclusion, Inside
<1>7. QED
  BY <1>2, <1>3, <1>4, <1>5, <1>6 DEF Inv, Shape

\* Whoever is in backlight() is there after the start.
LEMMA CallersComeLater == ASSUME Inv, NEW t \in Clients, loc[t] # "idle" PROVE ~Busy("main")
BY DEF Inv, StartAlone

LEMMA BeginInv == ASSUME Inv, NEW t \in Clients, NEW a \in 0..2, Begin(t, a) PROVE Inv'
<1>1. /\ ~Busy("main") /\ loc[t] = "idle" /\ left' = [left EXCEPT ![t] = @ \ {a}]
      /\ clr' = Preset(a) /\ loc' = [loc EXCEPT ![t] = "load"]
      /\ UNCHANGED <<call, step, reg, mutex, lcd, tmp, chosen, colour, expected, raced, failed, restarts>>
  BY DEF Begin
<1>2. clr' \in 0..1
  BY <1>1 DEF Preset, Inv, Shape, LightType
<1>3. wanted' \in {{}, {BLACK}, {WHITE}}
  <2> DEFINE f(w) == CASE a = 1 -> WHITE [] a = 0 -> BLACK [] OTHER -> WHITE - w
  <2>1. wanted' = {} \/ wanted' = {f(w) : w \in wanted}
    BY DEF Begin
  <2>2. f(BLACK) \in {BLACK, WHITE} /\ f(WHITE) \in {BLACK, WHITE}
    BY DEF BLACK, WHITE
  <2>3. wanted \in {{}, {BLACK}, {WHITE}}
    BY DEF Inv, Shape, LightType
  <2> HIDE DEF f
  <2>4. QED
    BY <2>1, <2>2, <2>3
<1>4. LightType'
  BY <1>1, <1>2, <1>3 DEF Inv, Shape, LightType, Locations
<1>5. QED
  BY <1>1, <1>4, CounterInv DEF Locations

LEMMA LoadClrInv == ASSUME Inv, NEW t \in Clients, LoadClr(t) PROVE Inv'
<1>1. LightType'
  BY DEF LoadClr, Inv, Shape, LightType, Locations, asked
<1>2. ~Busy("main")
  BY CallersComeLater DEF LoadClr
<1>3. QED
  BY <1>1, <1>2, CounterInv DEF LoadClr, Locations

LEMMA StoreClrInv == ASSUME Inv, NEW t \in Clients, StoreClr(t) PROVE Inv'
<1>1. clr' \in 0..1
  BY DEF StoreClr, Inv, Shape, LightType
<1>2. LightType'
  BY <1>1 DEF StoreClr, Inv, Shape, LightType, Locations, asked
<1>3. ~Busy("main")
  BY CallersComeLater DEF StoreClr
<1>4. QED
  BY <1>2, <1>3, CounterInv DEF StoreClr, Locations

LEMMA ChooseColourInv == ASSUME Inv, NEW t \in Clients, ChooseColour(t) PROVE Inv'
<1>1. /\ loc[t] = "test" /\ chosen' = [chosen EXCEPT ![t] = IF clr % 2 = 0 THEN BLACK ELSE WHITE]
      /\ call' = [call EXCEPT ![t] = 1] /\ loc' = [loc EXCEPT ![t] = "write"]
      /\ UNCHANGED <<step, reg, mutex, lcd, left, clr, tmp, asked, expected, raced, failed, restarts>>
  BY DEF ChooseColour
<1>2. ~Busy("main") /\ t \in Threads /\ t # "main" /\ t # "updater"
  BY <1>1, CallersComeLater, ClientsApart DEF Threads, Clients
<1>3. /\ call \in [Threads -> Nat] /\ call' \in [Threads -> Nat] /\ call[t] = 0 /\ call'[t] = 1
      /\ \A u \in Threads \ {t} : call'[u] = call[u]
  BY <1>1, <1>2 DEF Inv, Shape, Placed, ClientsWrite
<1>4. \A u \in Threads \ {t} : Kind(u)' = Kind(u) /\ PinOf(u)' = PinOf(u)
  BY <1>1, <1>3 DEF Kind, PinOf
<1>5. Kind(t) = "none" /\ Kind(t)' = "lock" /\ step[t] = 1
  <2>1. Kind(t) = "none" /\ Kind(t)' = "lock"
    BY <1>2, <1>3 DEF Kind, ClientKind
  <2>2. QED
    BY <1>2, <2>1, StepNumbers DEF Inv, Shape, Placed
<1>6. reg[t] = {}
  BY <1>2, <1>5, IdleHoldsNothing DEF Inv, Driving
<1>7. Placed'
  <2>1. \A u \in Threads : Held(u)'
    BY <1>1, <1>4, <1>6 DEF Inv, Shape, Placed, Held
  <2>2. ASSUME NEW u \in Threads
        PROVE  call'[u] <= LastCall(u) /\ 1 <= step'[u] /\ step'[u] <= Steps(Kind(u)')
    <3>1. CASE u = t
      BY <1>1, <1>2, <1>3, <1>5, <3>1, StepNumbers DEF LastCall
    <3>2. CASE u # t
      BY <1>1, <1>3, <1>4, <3>2 DEF Inv, Shape, Placed
    <3>3. QED
      BY <3>1, <3>2
  <2>3. QED
    BY <1>1, <1>3, <2>1, <2>2 DEF Inv, Shape, Placed
<1>8. LcdType' /\ HistoryType'
  BY <1>1 DEF Inv, Shape, LcdType, HistoryType, lcd
<1>9. LightType'
  BY <1>1 DEF Inv, Shape, LightType, Locations, asked
<1>10. StartAlone'
  BY <1>2, <1>3 DEF StartAlone, Busy, Threads
<1>11. ClientsWrite'
  BY <1>1, <1>3 DEF Inv, Shape, LightType, ClientsWrite, Threads, Clients
<1>12. Exclusion'
  BY <1>1, <1>4, <1>5 DEF Inv, Exclusion, Inside
<1>13. QED
  BY <1>7, <1>8, <1>9, <1>10, <1>11, <1>12 DEF Inv, Shape

\* A launch finds the main thread at the first call and everybody else outside.
LEMMA Launched ==
    ASSUME call' = OnlyMain, step' = Each(Threads, 1), reg' = Each(Threads, {}),
           mutex' = NoOne, loc' = Each(Clients, "idle"),
           expected' = StartBytes, raced' = FALSE, failed' = {}, colour' = WHITE, clr' = 1, wanted' = {WHITE}
    PROVE  /\ Placed' /\ StartAlone' /\ ClientsWrite' /\ Exclusion'
<1>1. \A u \in Threads : Kind(u)' = IF u = "main" THEN "lock" ELSE "none"
  BY ThreadKinds, RowLengths DEF Kind, OnlyMain, MainKind, UpdaterKind, ClientKind
<1>2. \A u \in Threads : reg'[u] = {} /\ step'[u] = 1 /\ call'[u] \in 0..1
  BY DEF OnlyMain, Each
<1>3. \A u \in Threads : 1 <= LastCall(u)
  BY RowLengths DEF LastCall
<1>4. Placed'
  <2>1. ASSUME NEW u \in Threads
        PROVE  call'[u] <= LastCall(u) /\ 1 <= step'[u] /\ step'[u] <= Steps(Kind(u)')
    <3>1. Steps(Kind(u)') = 1
      BY <1>1, StepNumbers
    <3>2. LastCall(u) \in Nat
      BY RowLengths DEF LastCall
    <3>3. QED
      BY <1>2, <1>3, <3>1, <3>2
  <2>2. \A u \in Threads : Held(u)'
    BY <1>2 DEF Held
  <2>3. call' \in [Threads -> Nat] /\ step' \in [Threads -> Nat] /\ DOMAIN reg' = Threads
    BY DEF OnlyMain, Each
  <2>4. QED
    BY <2>1, <2>2, <2>3 DEF Placed
<1>5. StartAlone'
  BY DEF StartAlone, OnlyMain, Each, Threads
<1>6. ClientsWrite'
  BY ClientsApart DEF ClientsWrite, OnlyMain, Each, Threads, Clients
<1>7. Exclusion'
  BY <1>1, NoOneAssumption DEF Exclusion, Inside
<1>8. QED
  BY <1>4, <1>5, <1>6, <1>7

LEMMA RestartInv == ASSUME Inv, Restart PROVE Inv'
<1>1. /\ Placed' /\ StartAlone' /\ ClientsWrite' /\ Exclusion'
  BY Launched DEF Restart
<1>2. /\ width' \in {4, 8} /\ (half' = {} \/ \E n \in 0..15 : half' = {n}) /\ (width' = 8 => half' = {})
  <2>1. CASE UNCHANGED <<width, half>>
    BY <2>1 DEF Inv, Shape, LcdType
  <2>2. CASE StrayNibble
    BY <2>2 DEF StrayNibble, Inv, Shape, LcdType
  <2>3. QED
    BY <2>1, <2>2 DEF Restart
<1>3. LcdType'
  <2>1. 0 \in 0..Len(StartBytes)
    BY BytesTyped
  <2>2. QED
    BY <1>2, <2>1 DEF Restart, Inv, Shape, LcdType
<1>4. LightType'
  BY DEF Restart, Inv, Shape, LightType, Each, Locations
<1>5. HistoryType'
  <2>1. restarts' \in 0..MaxRestarts
    BY BoundsAssumption DEF Restart, Inv, Shape, HistoryType
  <2>2. expected' = StartBytes /\ raced' = FALSE /\ failed' = {}
    BY DEF Restart
  <2>3. QED
    BY <2>1, <2>2, BytesTyped DEF HistoryType
<1>6. QED
  BY <1>1, <1>3, <1>4, <1>5 DEF Inv, Shape

LEMMA InitInv == ASSUME Init PROVE Inv
<1>1. \A u \in Threads : Kind(u) = IF u = "main" THEN "lock" ELSE "none"
  BY ThreadKinds, RowLengths DEF Init, Kind, OnlyMain, MainKind, UpdaterKind, ClientKind
<1>2. \A u \in Threads : reg[u] = {} /\ step[u] = 1 /\ call[u] \in 0..1
  BY DEF Init, OnlyMain, Each
<1>3. \A u \in Threads : 1 <= LastCall(u)
  BY RowLengths DEF LastCall
<1>4. Placed
  <2>1. ASSUME NEW u \in Threads
        PROVE  call[u] <= LastCall(u) /\ 1 <= step[u] /\ step[u] <= Steps(Kind(u))
    <3>1. Steps(Kind(u)) = 1
      BY <1>1, StepNumbers
    <3>2. LastCall(u) \in Nat
      BY RowLengths DEF LastCall
    <3>3. QED
      BY <1>2, <1>3, <3>1, <3>2
  <2>2. \A u \in Threads : Held(u)
    BY <1>2 DEF Held
  <2>3. call \in [Threads -> Nat] /\ step \in [Threads -> Nat] /\ DOMAIN reg = Threads
    BY DEF Init, OnlyMain, Each
  <2>4. QED
    BY <2>1, <2>2, <2>3 DEF Placed
<1>5. StartAlone
  BY DEF Init, StartAlone, OnlyMain, Each, Threads
<1>6. ClientsWrite
  BY ClientsApart DEF Init, ClientsWrite, OnlyMain, Each, Threads, Clients
<1>7. Exclusion
  BY <1>1, NoOneAssumption DEF Init, Exclusion, Inside
<1>8. LcdType
  <2>1. 0 \in 0..Len(StartBytes)
    BY BytesTyped
  <2>2. QED
    BY <2>1 DEF Init, LcdType
<1>9. LightType
  BY DEF Init, LightType, Each, Locations, Clients
<1>10. HistoryType
  <2>1. restarts \in 0..MaxRestarts
    BY BoundsAssumption DEF Init
  <2>2. expected = StartBytes /\ raced = FALSE /\ failed = {}
    BY DEF Init
  <2>3. QED
    BY <2>1, <2>2, BytesTyped DEF HistoryType
<1>11. QED
  BY <1>4, <1>5, <1>6, <1>7, <1>8, <1>9, <1>10 DEF Inv, Shape

LEMMA SameInv == ASSUME Inv, UNCHANGED vars PROVE Inv'
<1>1. \A u \in Threads : Kind(u)' = Kind(u) /\ PinOf(u)' = PinOf(u)
  BY DEF vars, Kind, PinOf
<1>2. Placed'
  BY <1>1 DEF Inv, Shape, Placed, Held, vars
<1>3. LcdType' /\ LightType' /\ HistoryType'
  BY DEF Inv, Shape, LcdType, LightType, HistoryType, vars, lcd, light, asked
<1>4. StartAlone' /\ ClientsWrite' /\ Exclusion'
  BY <1>1 DEF Inv, StartAlone, Busy, ClientsWrite, Exclusion, Inside, vars, light, asked
<1>5. QED
  BY <1>2, <1>3, <1>4 DEF Inv, Shape

\* Every step keeps the types, the start alone on the bus, the clients in their
\* calls and the mutex held between lock and unlock.
THEOREM StepInv == Inv /\ [Next]_vars => Inv'
<1> SUFFICES ASSUME Inv, [Next]_vars PROVE Inv'
  OBVIOUS
<1>1. CASE StartDraw
  BY <1>1, StartDrawInv
<1>2. ASSUME NEW t \in Threads, Step(t) PROVE Inv'
  BY <1>2, TakeMutexInv, DropMutexInv, ReadPortInv, WritePortInv DEF Step
<1>3. ASSUME NEW t \in Clients, Backlight(t) PROVE Inv'
  BY <1>3, BeginInv, LoadClrInv, StoreClrInv, ChooseColourInv DEF Backlight
<1>4. CASE Restart
  BY <1>4, RestartInv
<1>5. CASE UNCHANGED vars
  BY <1>5, SameInv
<1>6. QED
  BY <1>1, <1>2, <1>3, <1>4, <1>5 DEF Next, AllDone

\* The types hold, the start is alone on the bus, and the mutex is held exactly
\* between lock and unlock.
THEOREM InvCorrect == Spec => []Inv
<1>1. Init => Inv
  BY InitInv
<1>2. QED
  BY <1>1, StepInv, PTL DEF Spec

\* A thread that is in a call is at one of its operations, and what it has read
\* of a port lies within the port of the pin it drives.
THEOREM TypeCorrect == Spec => []TypeOK
<1>1. Inv => TypeOK
  <2> SUFFICES ASSUME Inv PROVE TypeOK
    OBVIOUS
  <2>0. Shape
    BY DEF Inv
  <2>1. ASSUME NEW t \in Threads, Busy(t)
        PROVE  call[t] <= Len(Ops(t)) /\ step[t] \in 1..Len(Ops(t)[call[t]])
    <3>1. Len(Ops(t)) = LastCall(t) /\ Len(Ops(t)[call[t]]) = Steps(Kind(t))
      BY <2>0, <2>1, CallShape
    <3>2. QED
      BY <2>0, <3>1 DEF Shape, Placed
  <2>2. ASSUME NEW t \in Threads, NEW v \in reg[t] PROVE v \subseteq Port(Op(t).pin)
    <3>1. Kind(t) \in Driving /\ v \in SUBSET Port(PinOf(t))
      BY <2>0, <2>2 DEF Shape, Placed, Held
    <3>2. Busy(t)
      BY <2>0, <3>1, KindsOf DEF Driving
    <3>3. Op(t) = DigitalWrite(PinOf(t), ValOf(t))
      BY <2>0, <3>1, <3>2, CallShape
    <3>4. Op(t).pin = PinOf(t)
      BY <3>3 DEF DigitalWrite
    <3>5. QED
      BY <3>1, <3>4
  <2>3. half \in {{}} \cup {{n} : n \in 0..15}
    BY <2>0 DEF Shape, LcdType
  <2>4. QED
    BY <2>0, <2>1, <2>2, <2>3 DEF Shape, Placed, LcdType, LightType, HistoryType, Locations, TypeOK
<1>2. QED
  BY <1>1, InvCorrect, PTL

\* Two pin operations only overlap while lcd_updater sends a cursor command:
\* all other operations on the bus are made by the holder of the mutex.
THEOREM OverlapCorrect == Spec => OverlapOnlyOutsideMutex
<1>1. Inv /\ [Next]_vars => [~raced /\ raced' => mutex # "updater" /\ Busy("updater")]_vars
  <2> SUFFICES ASSUME Inv, Next, ~raced, raced'
               PROVE  mutex # "updater" /\ Busy("updater")
    OBVIOUS
  <2>1. PICK t \in Threads : ReadPort(t)
    <3>1. ~StartDraw /\ ~Restart /\ ~AllDone
      BY DEF StartDraw, Restart, AllDone, vars
    <3>2. \A t \in Clients : ~Backlight(t)
      BY DEF Backlight, Begin, LoadClr, StoreClr, ChooseColour
    <3>3. \A t \in Threads : ~TakeMutex(t) /\ ~DropMutex(t) /\ ~WritePort(t)
      BY DEF TakeMutex, DropMutex, WritePort
    <3>4. QED
      BY <3>1, <3>2, <3>3 DEF Next, Step
  <2>2. Kind(t) \in Driving /\ Busy(t)
    BY <2>1, OpKind DEF ReadPort, Inv
  <2>3. PICK u \in Threads \ {t} : reg[u] # {}
    BY <2>1 DEF ReadPort, InFlight
  <2>4. Kind(u) \in Driving /\ Busy(u)
    <3>1. Kind(u) \in Driving
      BY <2>3, IdleHoldsNothing DEF Inv
    <3>2. QED
      BY <3>1, KindsOf DEF Inv, Driving
  <2>5. ~Busy("main")
    BY <2>2, <2>3, <2>4, OnlyMainSteps
  <2>6. PICK w \in {t, u} : ~Inside(w)
    BY <2>3 DEF Inv, Exclusion
  <2>7. Kind(w) = "command" /\ w = "updater" /\ Busy(w)
    BY <2>2, <2>4, <2>5, <2>6, KindsOf DEF Inv, Inside, Driving
  <2>8. QED
    BY <2>6, <2>7 DEF Inv, Exclusion
<1>2. QED
  BY <1>1, InvCorrect, PTL DEF Spec, OverlapOnlyOutsideMutex

-----------------------------------------------------------------------------
(* Transfers is inductive: what a thread has read is what the latch holds. *)

LEMMA PortParts ==
    /\ PortA \cap PortB = {} /\ PortA \cup PortB = 0..15
    /\ PortA = 0..7 /\ PortB = 8..15
BY DEF PortA, PortB

\* The holder of a port value on the port of the buttons holds the mutex.
LEMMA ButtonPortAlone ==
    ASSUME Inv, NEW t \in Threads, Kind(t) \in Driving, Port(PinOf(t)) = PortA
    PROVE  mutex = t
<1>1. Kind(t) = "lights"
  BY PinRange DEF Inv
<1>2. QED
  BY <1>1 DEF Inv, Exclusion, Inside

LEMMA StillFlying ==
    ASSUME Transfers, latch' = latch, raced' = raced, failed' = failed,
           \A t \in Threads : reg'[t] = reg[t] /\ (reg[t] # {} => PinOf(t)' = PinOf(t))
    PROVE  Transfers'
<1>1. \A t \in Threads : \A port \in {PortA, PortB} : Flying(t, port)' <=> Flying(t, port)
  BY DEF Flying
<1>2. \A port \in {PortA, PortB} : Trusted(port)' <=> Trusted(port)
  BY DEF Trusted
<1>3. QED
  BY <1>1, <1>2 DEF Transfers

\* The mutex moves between operations.
LEMMA MutexStepFlies ==
    ASSUME Inv, Transfers, NEW t \in Threads, TakeMutex(t) \/ DropMutex(t)
    PROVE  Transfers'
<1>1. /\ Busy(t) /\ Op(t).op \in {"lock", "unlock"} /\ Advance(t)
      /\ UNCHANGED <<reg, lcd, raced, failed>>
  BY DEF TakeMutex, DropMutex
<1>2. reg[t] = {}
  <2>1. Kind(t) \in {"lock", "unlock"}
    BY <1>1, OpKind DEF Inv
  <2>2. QED
    BY <2>1, IdleHoldsNothing DEF Inv, Driving
<1>3. \A u \in Threads \ {t} : PinOf(u)' = PinOf(u)
  BY <1>1, OthersStay DEF Inv, PinOf
<1>4. latch' = latch /\ raced' = raced /\ failed' = failed
  BY <1>1 DEF lcd
<1>5. \A u \in Threads : reg'[u] = reg[u] /\ (reg[u] # {} => PinOf(u)' = PinOf(u))
  BY <1>1, <1>2, <1>3
<1>6. QED
  BY <1>4, <1>5, StillFlying

LEMMA InFlightFlying ==
    ASSUME Inv, NEW u \in Threads, NEW port
    PROVE  InFlight(u, port) <=> Flying(u, port)
<1>1. CASE reg[u] = {}
  BY <1>1 DEF InFlight, Flying
<1>2. CASE reg[u] # {}
  <2>1. Kind(u) \in Driving
    BY <1>2, IdleHoldsNothing DEF Inv
  <2>2. Op(u).pin = PinOf(u)
    BY <2>1, KindsOf, CallShape DEF Inv, Driving, DigitalWrite
  <2>3. QED
    BY <1>2, <2>2 DEF InFlight, Flying
<1>3. QED
  BY <1>1, <1>2

LEMMA ReadFlies == ASSUME Inv, Transfers, NEW t \in Threads, ReadPort(t) PROVE Transfers'
<1> DEFINE p == Port(PinOf(t))
<1>1. /\ Busy(t) /\ Kind(t) \in Driving /\ Op(t).pin = PinOf(t) /\ reg[t] = {}
      /\ UNCHANGED <<call, step, mutex, lcd, light, asked, expected, restarts>>
  BY OpKind DEF ReadPort, Inv
<1>2. \/ reg' = [reg EXCEPT ![t] = {latch \cap p}] /\ failed' = failed
      \/ failed' = failed \cup {p} /\ reg' = [reg EXCEPT ![t] = {p}]
  BY <1>1 DEF ReadPort
<1>3. raced' = (raced \/ \E u \in Threads \ {t} : Flying(u, p))
  BY <1>1, InFlightFlying DEF ReadPort
<1>4. latch' = latch /\ \A u \in Threads : PinOf(u)' = PinOf(u) /\ Kind(u)' = Kind(u)
  BY <1>1 DEF Kind, PinOf, lcd
<1>5. p \in {PortA, PortB}
  BY <1>1, PinRange DEF Inv
<1>6. /\ \A u \in Threads \ {t} : reg'[u] = reg[u]
      /\ \A u \in Threads \ {t} : \A port \in {PortA, PortB} : Flying(u, port)' <=> Flying(u, port)
      /\ \A port \in {PortA, PortB} : Flying(t, port)' => port = p
  <2>1. \A u \in Threads \ {t} : reg'[u] = reg[u]
    BY <1>2 DEF Inv, Shape, Placed
  <2>2. QED
    BY <1>4, <2>1 DEF Flying
<1>7. \A port \in {PortA, PortB} : Trusted(port)' => Trusted(port)
  BY <1>2, <1>3 DEF Trusted
<1> HIDE DEF p
<1>8. ASSUME NEW u \in Threads \ {t}, NEW port \in {PortA, PortB}, port = p, Flying(u, port)'
      PROVE  p = PortB /\ raced'
  <2>1. Flying(u, p)
    BY <1>6, <1>8
  <2>2. p # PortA
    <3>1. SUFFICES ASSUME p = PortA PROVE FALSE
      OBVIOUS
    <3>2. Kind(u) \in Driving
      BY <2>1, IdleHoldsNothing DEF Inv, Flying
    <3>3. mutex = u
      BY <2>1, <3>1, <3>2, ButtonPortAlone DEF Flying
    <3>4. mutex = t
      BY <1>1, <3>1, ButtonPortAlone DEF p
    <3>5. QED
      BY <3>3, <3>4
  <2>3. QED
    BY <1>3, <1>5, <2>1, <2>2
<1>9. ASSUME NEW u \in Threads, NEW w \in Threads, NEW port \in {PortA, PortB},
             u # w, Flying(u, port)', Flying(w, port)'
      PROVE  port = PortB /\ raced'
  <2>1. CASE u = t
    BY <1>6, <1>8, <1>9, <2>1
  <2>2. CASE w = t
    BY <1>6, <1>8, <1>9, <2>2
  <2>3. CASE u # t /\ w # t
    BY <1>3, <1>6, <1>9, <2>3 DEF Transfers
  <2>4. QED
    BY <2>1, <2>2, <2>3
<1>10. ASSUME NEW u \in Threads, NEW port \in {PortA, PortB}, Flying(u, port)', Trusted(port)'
       PROVE  reg'[u] = {latch' \cap port}
  <2>1. CASE u = t
    <3>1. port = p /\ p \notin failed'
      BY <1>6, <1>10, <2>1 DEF Trusted
    <3>2. reg' = [reg EXCEPT ![t] = {latch \cap p}]
      BY <1>2, <3>1
    <3>3. QED
      BY <1>4, <2>1, <3>1, <3>2 DEF Inv, Shape, Placed
  <2>2. CASE u # t
    BY <1>4, <1>6, <1>7, <1>10, <2>2 DEF Transfers
  <2>3. QED
    BY <2>1, <2>2
<1>11. QED
  BY <1>9, <1>10 DEF Transfers

\* A write leaves the pins of the other port alone.
LEMMA WriteOwnPort ==
    ASSUME Inv, NEW t \in Threads, WritePort(t), NEW q \in {PortA, PortB}, q # Port(PinOf(t))
    PROVE  latch' \cap q = latch \cap q
<1>1. Kind(t) \in Driving
  BY WriteEffect DEF Inv
<1>2. PinOf(t) \in Port(PinOf(t)) /\ Port(PinOf(t)) \in {PortA, PortB}
  BY <1>1, PinRange DEF Inv
<1>3. PICK v \in SUBSET Port(PinOf(t)) :
         \/ latch' = (latch \ Port(PinOf(t))) \cup Written(t, v)
         \/ UNCHANGED lcd
  BY WriteEffect DEF Inv
<1>4. Written(t, v) \subseteq Port(PinOf(t))
  BY <1>2 DEF Written
<1>5. Port(PinOf(t)) \cap q = {}
  BY <1>2, PortParts
<1>6. QED
  BY <1>3, <1>4, <1>5 DEF lcd

LEMMA WriteFlies == ASSUME Inv, Transfers, NEW t \in Threads, WritePort(t) PROVE Transfers'
<1> DEFINE p == Port(PinOf(t))
<1>1. /\ Busy(t) /\ Kind(t) \in Driving /\ Advance(t) /\ reg' = [reg EXCEPT ![t] = {}] /\ reg[t] # {}
      /\ failed \subseteq failed' /\ raced' = raced
  <2>1. failed \subseteq failed'
    BY WriteEffect DEF Inv
  <2>2. QED
    BY <2>1, WriteEffect DEF Inv, WritePort
<1>2. p \in {PortA, PortB}
  BY <1>1, PinRange DEF Inv
<1>3. \A u \in Threads \ {t} : reg'[u] = reg[u] /\ PinOf(u)' = PinOf(u)
  BY <1>1, OthersStay DEF Inv, Shape, Placed, PinOf
<1>4. reg'[t] = {}
  BY <1>1 DEF Inv, Shape, Placed
<1>5. /\ \A u \in Threads \ {t} : \A port \in {PortA, PortB} : Flying(u, port)' <=> Flying(u, port)
      /\ \A port \in {PortA, PortB} : ~Flying(t, port)'
  BY <1>3, <1>4 DEF Flying
<1>6. \A port \in {PortA, PortB} : Trusted(port)' => Trusted(port)
  BY <1>1 DEF Trusted
<1>7. Flying(t, p)
  BY <1>1 DEF Flying
<1>8. \A q \in {PortA, PortB} : q # p => latch' \cap q = latch \cap q
  BY WriteOwnPort
<1> HIDE DEF p
<1>9. ASSUME NEW u \in Threads, NEW port \in {PortA, PortB}, Flying(u, port)', Trusted(port)'
      PROVE  reg'[u] = {latch' \cap port}
  <2>1. u # t /\ Flying(u, port) /\ Trusted(port)
    BY <1>5, <1>6, <1>9
  <2>2. port # p
    BY <1>2, <1>7, <2>1 DEF Transfers, Trusted
  <2>3. reg[u] = {latch \cap port}
    BY <2>1 DEF Transfers
  <2>4. QED
    BY <1>3, <1>8, <2>1, <2>2, <2>3
<1>10. ASSUME NEW u \in Threads, NEW w \in Threads, NEW port \in {PortA, PortB},
              u # w, Flying(u, port)', Flying(w, port)'
       PROVE  port = PortB /\ raced'
  BY <1>1, <1>5, <1>10 DEF Transfers
<1>11. QED
  BY <1>9, <1>10 DEF Transfers

LEMMA StartDrawFlies == ASSUME Inv, Transfers, StartDraw PROVE Transfers'
<1>1. /\ ~Busy("updater") /\ call' = [call EXCEPT !["updater"] = 1]
      /\ UNCHANGED <<step, reg, lcd, raced, failed>>
  BY DEF StartDraw
<1>2. "updater" \in Threads /\ reg["updater"] = {}
  BY <1>1, KindsOf, IdleHoldsNothing DEF Inv, Driving, Threads
<1>3. \A u \in Threads \ {"updater"} : PinOf(u)' = PinOf(u)
  BY <1>1 DEF Inv, Shape, Placed, PinOf, Kind
<1>4. latch' = latch /\ raced' = raced /\ failed' = failed
  BY <1>1 DEF lcd
<1>5. QED
  BY <1>1, <1>2, <1>3, <1>4, StillFlying

LEMMA BacklightFlies == ASSUME Inv, Transfers, NEW t \in Clients, Backlight(t) PROVE Transfers'
<1>1. UNCHANGED <<step, reg, lcd, raced, failed>> /\ loc[t] # "write" /\ t \in Threads
  BY DEF Backlight, Begin, LoadClr, StoreClr, ChooseColour, Threads, Clients
<1>2. \A u \in Threads \ {t} : call'[u] = call[u]
  BY DEF Backlight, Begin, LoadClr, StoreClr, ChooseColour, Inv, Shape, Placed
<1>3. reg[t] = {}
  BY <1>1, KindsOf, IdleHoldsNothing DEF Inv, ClientsWrite, Driving, Busy
<1>4. \A u \in Threads \ {t} : PinOf(u)' = PinOf(u)
  BY <1>1, <1>2 DEF PinOf, Kind
<1>5. latch' = latch /\ raced' = raced /\ failed' = failed
  BY <1>1 DEF lcd
<1>6. QED
  BY <1>1, <1>3, <1>4, <1>5, StillFlying

\* Every step keeps what is in flight what the latch holds.
THEOREM StepTransfers == Inv /\ Transfers /\ [Next]_vars => Transfers'
<1> SUFFICES ASSUME Inv, Transfers, [Next]_vars PROVE Transfers'
  OBVIOUS
<1>1. CASE StartDraw
  BY <1>1, StartDrawFlies
<1>2. ASSUME NEW t \in Threads, Step(t) PROVE Transfers'
  BY <1>2, MutexStepFlies, ReadFlies, WriteFlies DEF Step
<1>3. ASSUME NEW t \in Clients, Backlight(t) PROVE Transfers'
  BY <1>3, BacklightFlies
<1>4. CASE Restart
  <2>1. \A u \in Threads : reg'[u] = {}
    BY <1>4 DEF Restart, Each
  <2>2. QED
    BY <2>1 DEF Transfers, Flying
<1>5. CASE UNCHANGED vars
  <2>1. latch' = latch /\ raced' = raced /\ failed' = failed /\ reg' = reg /\ call' = call /\ step' = step
    BY <1>5 DEF vars, lcd
  <2>2. QED
    BY <2>1, StillFlying DEF PinOf, Kind
<1>6. QED
  BY <1>1, <1>2, <1>3, <1>4, <1>5 DEF Next, AllDone

\* What a thread has read of a port is still there when it writes it back,
\* unless operations overlapped or a transfer failed.
THEOREM TransfersCorrect == Spec => []Transfers
<1>1. Init => Transfers
  BY DEF Init, Transfers, Flying, Each
<1>2. QED
  BY <1>1, StepTransfers, InvCorrect, PTL DEF Spec

-----------------------------------------------------------------------------
(* LightsInv is inductive: the colour pins and the last call.              *)

\* A write that does not fail, of a value that is still good, sets its pin and
\* nothing else, and the LCD sees it.
LEMMA EffectiveWrite ==
    ASSUME Inv, Transfers, NEW t \in Threads, WritePort(t), Trusted(Port(PinOf(t))),
           Port(PinOf(t)) \notin failed'
    PROVE  /\ failed' = failed /\ Listen(latch')
           /\ \A p \in 0..15 : p \in latch' <=> IF p = PinOf(t) THEN ValOf(t) = HIGH ELSE p \in latch
<1>1. Kind(t) \in Driving /\ reg[t] # {}
  BY WriteEffect DEF Inv, WritePort
<1>2. PinOf(t) \in Port(PinOf(t)) /\ Port(PinOf(t)) \in {PortA, PortB}
  BY <1>1, PinRange DEF Inv
<1>3. PICK v \in SUBSET Port(PinOf(t)) :
         /\ reg[t] = {v}
         /\ latch' = (latch \ Port(PinOf(t))) \cup Written(t, v) /\ Listen(latch') /\ failed' = failed
  BY WriteEffect DEF Inv
<1>4. v = latch \cap Port(PinOf(t))
  <2>1. Flying(t, Port(PinOf(t)))
    BY <1>1 DEF Flying
  <2>2. QED
    BY <1>2, <1>3, <2>1 DEF Transfers
<1>5. \A p \in 0..15 : p \in latch' <=> IF p = PinOf(t) THEN ValOf(t) = HIGH ELSE p \in latch
  BY <1>2, <1>3, <1>4 DEF Written
<1>6. QED
  BY <1>3, <1>5

\* A thread whose next call has a kind is busy.
LEMMA BusyNext ==
    ASSUME NEW t \in Threads, Kind(t)' # "none"
    PROVE  Busy(t)'
<1>1. SUFFICES ASSUME call'[t] = 0 PROVE Kind(t)' = "none"
  BY DEF Busy
<1>2. MainKind(0) = "none" /\ ClientKind(0) = "none" /\ UpdaterKind(0) = "none"
  BY RowLengths DEF MainKind, ClientKind, UpdaterKind
<1>3. QED
  BY <1>1, <1>2 DEF Kind

LEMMA LightBits ==
    ASSUME NEW c \in {BLACK, WHITE}, NEW j \in 1..3
    PROVE  1 - Bit(c, 3 - j) = HIGH <=> c # WHITE
<1>1. /\ Bit(0, 0) = 0 /\ Bit(0, 1) = 0 /\ Bit(0, 2) = 0
      /\ Bit(7, 0) = 1 /\ Bit(7, 1) = 1 /\ Bit(7, 2) = 1
  BY DEF Bit
<1>2. c \in {0, 7} /\ j \in {1, 2, 3}
  BY DEF BLACK, WHITE
<1>3. QED
  BY <1>1, <1>2 DEF BLACK, WHITE, HIGH

\* A step that leaves the colour pins and the calls that write them alone.
LEMMA LightsKept ==
    ASSUME LightsInv, colour' = colour, mutex' = mutex, Busy("main")' <=> Busy("main"),
           \A port \in {PortA, PortB} : Trusted(port)' => Trusted(port),
           8 \in latch' <=> 8 \in latch, 7 \in latch' <=> 7 \in latch, 6 \in latch' <=> 6 \in latch,
           \A t \in Threads : Kind(t)' \in {"lights", "unlock"} => Kind(t)' = Kind(t) /\ step'[t] = step[t],
           \A t \in Clients : mutex = t => chosen'[t] = chosen[t]
    PROVE  LightsInv'
<1>1. (Agrees(8)' <=> Agrees(8)) /\ (Agrees(7)' <=> Agrees(7)) /\ (Agrees(6)' <=> Agrees(6))
  BY DEF Agrees
<1>2. (Trusted(PortA)' => Trusted(PortA)) /\ (Trusted(PortB)' => Trusted(PortB))
  OBVIOUS
<1>3. AllAgree => AllAgree'
  BY <1>1, <1>2 DEF AllAgree
<1>4. ASSUME NEW t \in Threads, Kind(t)' = "lights"
      PROVE  /\ step'[t] >= 2 /\ Trusted(PortB)' => Agrees(8)'
             /\ step'[t] >= 3 /\ Trusted(PortA)' => Agrees(7)'
  BY <1>1, <1>2, <1>4 DEF LightsInv
<1>5. ASSUME NEW t \in Threads, Kind(t)' = "unlock" PROVE AllAgree'
  BY <1>3, <1>5 DEF LightsInv
<1>6. mutex' \in {NoOne, "updater"} /\ ~Busy("main")' => AllAgree'
  BY <1>3 DEF LightsInv
<1>7. \A t \in Clients : mutex' = t => colour' = chosen'[t]
  BY DEF LightsInv
<1>8. QED
  BY <1>4, <1>5, <1>6, <1>7 DEF LightsInv

\* A step that leaves the thread that makes it outside the lights.
LEMMA TrustKept ==
    ASSUME raced => raced', failed \subseteq failed'
    PROVE  \A port \in {PortA, PortB} : Trusted(port)' => Trusted(port)
BY DEF Trusted

LEMMA TakeMutexLights ==
    ASSUME Inv, Inv', LightsInv, NEW t \in Threads, TakeMutex(t) PROVE LightsInv'
<1>1. /\ Busy(t) /\ Op(t).op = "lock" /\ mutex = NoOne /\ mutex' = t /\ Advance(t)
      /\ colour' = (IF t \in Clients THEN chosen[t] ELSE colour)
      /\ UNCHANGED <<lcd, raced, failed>>
  BY DEF TakeMutex
<1>2. Kind(t) = "lock" /\ step[t] = Steps(Kind(t))
  <2>1. Kind(t) = "lock"
    BY <1>1, OpKind DEF Inv
  <2>2. QED
    BY <2>1, StepNumbers DEF Inv, Shape, Placed
<1>3. /\ step'[t] = 1 /\ Kind(t)' \in {"lights", "char", "unlock"}
      /\ t # "updater" => Kind(t)' = "lights"
  BY <1>1, <1>2, Onward DEF Inv, After
<1>4. \A u \in Threads \ {t} : Kind(u)' \notin {"lights", "unlock"}
  BY <1>1, NoOneAssumption DEF Inv, Exclusion, Inside
<1>5. t = "updater" => AllAgree'
  <2>1. SUFFICES ASSUME t = "updater" PROVE AllAgree'
    OBVIOUS
  <2>2. AllAgree
    BY <1>1, <2>1, OnlyMainSteps DEF LightsInv
  <2>3. latch' = latch /\ colour' = colour /\ raced' = raced /\ failed' = failed
    BY <1>1, <2>1, ClientsApart DEF lcd
  <2>4. QED
    BY <2>2, <2>3 DEF AllAgree, Agrees, Trusted
<1>6. \A u \in Clients : mutex' = u => colour' = chosen'[u]
  <2>1. SUFFICES ASSUME t \in Clients PROVE colour' = chosen'[t]
    BY <1>1
  <2>2. call'[t] # 0
    <3>1. t # "updater" /\ Kind(t)' = "lights"
      BY <1>3, <2>1, ClientsApart
    <3>2. Busy(t)'
      BY <3>1, BusyNext
    <3>3. QED
      BY <3>2 DEF Busy
  <2>3. QED
    BY <1>1, <2>1, <2>2, AdvanceClients
<1>7. \A u \in Threads : Kind(u)' = "unlock" => AllAgree'
  BY <1>3, <1>4, <1>5
<1>8. \A u \in Threads : Kind(u)' = "lights" => ~(step'[u] >= 2) /\ ~(step'[u] >= 3)
  BY <1>3, <1>4
<1>9. mutex' \in {NoOne, "updater"} => AllAgree'
  BY <1>1, <1>5, NoOneAssumption
<1>10. QED
  BY <1>6, <1>7, <1>8, <1>9 DEF LightsInv

LEMMA DropMutexLights ==
    ASSUME Inv, Inv', LightsInv, NEW t \in Threads, DropMutex(t) PROVE LightsInv'
<1>1. /\ Busy(t) /\ Op(t).op = "unlock" /\ mutex' = NoOne /\ Advance(t)
      /\ UNCHANGED <<lcd, asked, raced, failed>>
  BY DEF DropMutex
<1>2. Kind(t) = "unlock"
  BY <1>1, OpKind DEF Inv
<1>3. AllAgree'
  <2>1. AllAgree
    BY <1>2 DEF LightsInv
  <2>2. latch' = latch /\ colour' = colour /\ raced' = raced /\ failed' = failed
    BY <1>1 DEF lcd, asked
  <2>3. QED
    BY <2>1, <2>2 DEF AllAgree, Agrees, Trusted
<1>4. \A u \in Threads : Kind(u)' \notin {"lights", "unlock"}
  BY <1>1, NoOneAssumption DEF Inv, Exclusion, Inside
<1>5. \A u \in Clients : mutex' # u
  BY <1>1, NoOneAssumption DEF Threads, Clients
<1>6. QED
  BY <1>3, <1>4, <1>5 DEF LightsInv

\* Only the calls of the lights write the colour pins.
LEMMA OtherWriteLights ==
    ASSUME Inv, Inv', Transfers, LightsInv, NEW t \in Threads, WritePort(t), Kind(t) # "lights"
    PROVE  LightsInv'
<1>1. /\ Busy(t) /\ Kind(t) \in Driving /\ Advance(t) /\ failed \subseteq failed'
  BY WriteEffect DEF Inv
<1>2. raced' = raced /\ colour' = colour /\ mutex' = mutex
  BY DEF WritePort, asked
<1>3. PinOf(t) \in 9..15 /\ Port(PinOf(t)) = PortB /\ PortA # PortB
  BY <1>1, PinRange, PortsDiffer DEF Inv
<1>4. (7 \in latch' <=> 7 \in latch) /\ (6 \in latch' <=> 6 \in latch)
  <2>1. latch' \cap PortA = latch \cap PortA
    BY <1>3, WriteOwnPort
  <2>2. 7 \in PortA /\ 6 \in PortA
    BY DEF PortA
  <2>3. QED
    BY <2>1, <2>2
<1>5. \A port \in {PortA, PortB} : Trusted(port)' => Trusted(port)
  BY <1>1, <1>2, TrustKept
<1>6. Trusted(PortB)' => (8 \in latch' <=> 8 \in latch)
  <2>1. SUFFICES ASSUME Trusted(PortB)' PROVE 8 \in latch' <=> 8 \in latch
    OBVIOUS
  <2>2. Trusted(PortB) /\ PortB \notin failed'
    BY <1>5, <2>1 DEF Trusted
  <2>3. \A p \in 0..15 : p \in latch' <=> IF p = PinOf(t) THEN ValOf(t) = HIGH ELSE p \in latch
    BY <1>3, <2>2, EffectiveWrite
  <2>4. 8 \in 0..15 /\ 8 # PinOf(t)
    BY <1>3
  <2>5. QED
    BY <2>3, <2>4
<1>7. AllAgree => AllAgree'
  <2>1. SUFFICES ASSUME AllAgree PROVE AllAgree'
    OBVIOUS
  <2>2. (Agrees(7)' <=> Agrees(7)) /\ (Agrees(6)' <=> Agrees(6))
    BY <1>2, <1>4 DEF Agrees
  <2>3. Trusted(PortB)' => (Agrees(8)' <=> Agrees(8))
    BY <1>2, <1>6 DEF Agrees
  <2>4. QED
    BY <1>5, <2>1, <2>2, <2>3 DEF AllAgree
<1>8. Kind(t)' \notin {"lights", "none"} /\ (Kind(t)' = "unlock" => Kind(t) = "char")
  <2>1. step[t] \in Nat /\ step[t] <= Steps(Kind(t)) /\ Steps(Kind(t)) \in Nat
    BY StepsPositive DEF Inv, Shape, Placed
  <2>2. CASE step[t] < Steps(Kind(t))
    <3>1. Kind(t)' = Kind(t)
      BY <1>1, <2>2, Onward DEF Inv
    <3>2. QED
      BY <1>1, <3>1 DEF Driving
  <2>3. CASE step[t] = Steps(Kind(t))
    <3>1. Kind(t)' \in After(Kind(t))
      BY <1>1, <2>3, Onward DEF Inv
    <3>2. QED
      BY <1>1, <3>1 DEF Driving, After
  <2>4. QED
    BY <2>1, <2>2, <2>3
<1>9. \A u \in Threads \ {t} : Kind(u)' = Kind(u) /\ step'[u] = step[u] /\ call'[u] = call[u]
  BY <1>1, OthersStay DEF Inv
<1>10. ASSUME NEW u \in Threads, Kind(u)' = "lights"
       PROVE  /\ step'[u] >= 2 /\ Trusted(PortB)' => Agrees(8)'
              /\ step'[u] >= 3 /\ Trusted(PortA)' => Agrees(7)'
  <2>1. u # t
    BY <1>8, <1>10
  <2>2. Kind(u) = "lights" /\ step'[u] = step[u]
    BY <1>9, <1>10, <2>1
  <2>3. (Trusted(PortB)' => (Agrees(8)' <=> Agrees(8))) /\ (Agrees(7)' <=> Agrees(7))
    BY <1>2, <1>4, <1>6 DEF Agrees
  <2>4. QED
    BY <1>5, <2>2, <2>3 DEF LightsInv
<1>11. ASSUME NEW u \in Threads, Kind(u)' = "unlock" PROVE AllAgree'
  <2>1. CASE u = t
    <3>1. Kind(t) = "char" /\ t = "updater"
      BY <1>8, <1>11, <2>1, KindsOf DEF Inv
    <3>2. mutex = t /\ ~Busy("main")
      BY <1>1, <3>1, OnlyMainSteps DEF Inv, Exclusion, Inside
    <3>3. AllAgree
      BY <3>1, <3>2 DEF LightsInv
    <3>4. QED
      BY <1>7, <3>3
  <2>2. CASE u # t
    BY <1>7, <1>9, <1>11, <2>2 DEF LightsInv
  <2>3. QED
    BY <2>1, <2>2
<1>12. mutex' \in {NoOne, "updater"} /\ ~Busy("main")' => AllAgree'
  <2>1. SUFFICES ASSUME mutex' \in {NoOne, "updater"}, ~Busy("main")' PROVE AllAgree'
    OBVIOUS
  <2>2. ~Busy("main")
    <3>1. CASE t = "main"
      <4>1. Busy(t)'
        BY <1>8, BusyNext
      <4>2. QED
        BY <2>1, <3>1, <4>1
    <3>2. CASE t # "main"
      BY <1>9, <2>1, <3>2 DEF Busy, Threads
    <3>3. QED
      BY <3>1, <3>2
  <2>3. QED
    BY <1>2, <1>7, <2>1, <2>2 DEF LightsInv
<1>13. \A u \in Clients : mutex' = u => colour' = chosen'[u]
  <2>1. t \notin Clients
    BY <1>1, KindsOf, ClientsApart DEF Inv, Driving
  <2>2. QED
    BY <1>1, <1>2, <2>1, AdvanceClients DEF LightsInv
<1>14. QED
  BY <1>10, <1>11, <1>12, <1>13 DEF LightsInv

\* The holder of the mutex writes pin 8, pin 7 and pin 6.
LEMMA LightsWriteLights ==
    ASSUME Inv, Inv', Transfers, LightsInv, NEW t \in Threads, WritePort(t), Kind(t) = "lights"
    PROVE  LightsInv'
<1>1. /\ Busy(t) /\ Kind(t) \in Driving /\ Advance(t) /\ failed \subseteq failed'
  BY WriteEffect DEF Inv
<1>2. raced' = raced /\ colour' = colour /\ mutex' = mutex
  BY DEF WritePort, asked
<1>3. PinOf(t) = 9 - step[t] /\ step[t] \in 1..3 /\ Port(PinOf(t)) = (IF PinOf(t) < 8 THEN PortA ELSE PortB)
  BY <1>1, PinRange DEF Inv
<1>4. \A port \in {PortA, PortB} : Trusted(port)' => Trusted(port)
  BY <1>1, <1>2, TrustKept
<1>5. mutex = t /\ t # "updater"
  BY KindsOf DEF Inv, Exclusion, Inside
<1>6. colour = Shade(t) /\ Shade(t) \in {BLACK, WHITE}
  <2>1. CASE t = "main"
    BY <1>1, <2>1 DEF Inv, StartAlone, Shade
  <2>2. CASE t # "main"
    <3>1. t \in Clients
      BY <1>5, <2>2, ThreadKinds
    <3>2. QED
      BY <1>5, <2>2, <3>1 DEF LightsInv, Shade, Inv, Shape, LightType
  <2>3. QED
    BY <2>1, <2>2
<1>7. ValOf(t) = HIGH <=> colour # WHITE
  <2>1. ValOf(t) = 1 - Bit(Shade(t), 3 - step[t])
    BY DEF ValOf
  <2>2. QED
    BY <1>3, <1>6, <2>1, LightBits
<1>8. \A p \in 0..15 : Trusted(Port(PinOf(t))) /\ Port(PinOf(t)) \notin failed' =>
        (p \in latch' <=> IF p = PinOf(t) THEN ValOf(t) = HIGH ELSE p \in latch)
  BY EffectiveWrite
<1>9. \A q \in {PortA, PortB} : q # Port(PinOf(t)) => latch' \cap q = latch \cap q
  BY WriteOwnPort
<1>10. /\ PortA # PortB /\ 8 \in PortB /\ 7 \in PortA /\ 6 \in PortA
       /\ 8 \in 0..15 /\ 7 \in 0..15 /\ 6 \in 0..15
  BY PortsDiffer DEF PortA, PortB
<1>11. (Trusted(PortA)' => PortA \notin failed') /\ (Trusted(PortB)' => PortB \notin failed')
  BY DEF Trusted
<1>12. CASE step[t] = 1
  <2>1. PinOf(t) = 8 /\ Port(PinOf(t)) = PortB
    BY <1>3, <1>12
  <2>2. Trusted(PortB)' => Agrees(8)'
    BY <1>2, <1>4, <1>7, <1>8, <1>10, <1>11, <2>1 DEF Agrees
  <2>3. step'[t] = 2 /\ Kind(t)' = "lights"
    BY <1>1, <1>12, StepNumbers, Onward DEF Inv
  <2>4. /\ \A u \in Threads \ {t} : Kind(u)' \notin {"lights", "unlock"}
        /\ mutex' = t /\ mutex' \notin {NoOne, "updater"}
    BY <1>2, <1>5, NoOneAssumption DEF Inv, Exclusion, Inside
  <2>5. t \in Clients => chosen'[t] = chosen[t]
    <3>1. Busy(t)'
      BY <2>3, BusyNext
    <3>2. QED
      BY <1>1, <3>1, AdvanceClients DEF Busy
  <2>6. \A u \in Clients : mutex' = u => colour' = chosen'[u]
    BY <1>2, <1>5, <2>5 DEF LightsInv
  <2>7. ~(step'[t] >= 3)
    BY <2>3
  <2>8. QED
    BY <2>2, <2>3, <2>4, <2>6, <2>7 DEF LightsInv
<1>13. CASE step[t] = 2
  <2>1. PinOf(t) = 7 /\ Port(PinOf(t)) = PortA
    BY <1>3, <1>13
  <2>2. Trusted(PortA)' => Agrees(7)'
    BY <1>2, <1>4, <1>7, <1>8, <1>10, <1>11, <2>1 DEF Agrees
  <2>3. Trusted(PortB)' => Agrees(8)'
    <3>1. 8 \in latch' <=> 8 \in latch
      BY <1>9, <1>10, <2>1
    <3>2. QED
      BY <1>2, <1>4, <1>13, <3>1 DEF Agrees, LightsInv
  <2>4. step'[t] = 3 /\ Kind(t)' = "lights"
    BY <1>1, <1>13, StepNumbers, Onward DEF Inv
  <2>5. /\ \A u \in Threads \ {t} : Kind(u)' \notin {"lights", "unlock"}
        /\ mutex' = t /\ mutex' \notin {NoOne, "updater"}
    BY <1>2, <1>5, NoOneAssumption DEF Inv, Exclusion, Inside
  <2>6. t \in Clients => chosen'[t] = chosen[t]
    <3>1. Busy(t)'
      BY <2>4, BusyNext
    <3>2. QED
      BY <1>1, <3>1, AdvanceClients DEF Busy
  <2>7. \A u \in Clients : mutex' = u => colour' = chosen'[u]
    BY <1>2, <1>5, <2>6 DEF LightsInv
  <2>8. QED
    BY <2>2, <2>3, <2>4, <2>5, <2>7 DEF LightsInv
<1>14. CASE step[t] = 3
  <2>1. PinOf(t) = 6 /\ Port(PinOf(t)) = PortA
    BY <1>3, <1>14
  <2>2. Trusted(PortA)' => Agrees(6)'
    BY <1>2, <1>4, <1>7, <1>8, <1>10, <1>11, <2>1 DEF Agrees
  <2>3. Trusted(PortA)' => Agrees(7)'
    <3>1. SUFFICES ASSUME Trusted(PortA)' PROVE Agrees(7)'
      OBVIOUS
    <3>2. 7 \in latch' <=> 7 \in latch
      BY <1>4, <1>8, <1>10, <1>11, <2>1, <3>1
    <3>3. Agrees(7)
      BY <1>4, <1>14, <3>1 DEF LightsInv
    <3>4. QED
      BY <1>2, <3>2, <3>3 DEF Agrees
  <2>4. Trusted(PortB)' => Agrees(8)'
    <3>1. 8 \in latch' <=> 8 \in latch
      BY <1>9, <1>10, <2>1
    <3>2. QED
      BY <1>2, <1>4, <1>14, <3>1 DEF Agrees, LightsInv
  <2>5. Kind(t)' = "unlock"
    BY <1>1, <1>14, StepNumbers, Onward DEF Inv, After
  <2>6. /\ \A u \in Threads \ {t} : Kind(u)' \notin {"lights", "unlock"}
        /\ mutex' = t /\ mutex' \notin {NoOne, "updater"}
    BY <1>2, <1>5, NoOneAssumption DEF Inv, Exclusion, Inside
  <2>7. t \in Clients => chosen'[t] = chosen[t]
    <3>1. Busy(t)'
      BY <2>5, BusyNext
    <3>2. QED
      BY <1>1, <3>1, AdvanceClients DEF Busy
  <2>8. \A u \in Clients : mutex' = u => colour' = chosen'[u]
    BY <1>2, <1>5, <2>7 DEF LightsInv
  <2>9. AllAgree'
    BY <2>2, <2>3, <2>4 DEF AllAgree
  <2>10. QED
    BY <2>5, <2>6, <2>8, <2>9 DEF LightsInv
<1>15. QED
  BY <1>3, <1>12, <1>13, <1>14

LEMMA ReadLights == ASSUME Inv, Inv', LightsInv, NEW t \in Threads, ReadPort(t) PROVE LightsInv'
<1>1. UNCHANGED <<call, step, mutex, lcd, light, asked>>
  BY DEF ReadPort
<1>2. \A u \in Threads : Kind(u)' = Kind(u)
  BY <1>1 DEF Kind
<1>3. (raced => raced') /\ failed \subseteq failed'
  BY DEF ReadPort
<1>4. \A port \in {PortA, PortB} : Trusted(port)' => Trusted(port)
  BY <1>3, TrustKept
<1>5. Busy("main")' <=> Busy("main")
  BY <1>1 DEF Busy
<1>6. latch' = latch /\ colour' = colour /\ mutex' = mutex /\ step' = step /\ chosen' = chosen
  BY <1>1 DEF lcd, light, asked
<1>7. QED
  BY <1>2, <1>4, <1>5, <1>6, LightsKept

LEMMA StartDrawLights == ASSUME Inv, Inv', LightsInv, StartDraw PROVE LightsInv'
<1>1. /\ ~Busy("main") /\ call' = [call EXCEPT !["updater"] = 1]
      /\ UNCHANGED <<step, mutex, lcd, light, asked, raced, failed>>
  BY DEF StartDraw
<1>2. call'["updater"] = 1 /\ \A u \in Threads \ {"updater"} : call'[u] = call[u]
  BY <1>1 DEF Inv, Shape, Placed, Threads
<1>3. Kind("updater")' = "command"
  BY <1>2, RowLengths DEF Kind, UpdaterKind
<1>4. \A u \in Threads : Kind(u)' \in {"lights", "unlock"} => Kind(u)' = Kind(u)
  BY <1>2, <1>3 DEF Kind
<1>5. \A port \in {PortA, PortB} : Trusted(port)' => Trusted(port)
  BY <1>1, TrustKept
<1>6. Busy("main")' <=> Busy("main")
  BY <1>2 DEF Busy, Threads
<1>7. latch' = latch /\ colour' = colour /\ mutex' = mutex /\ step' = step /\ chosen' = chosen
  BY <1>1 DEF lcd, light, asked
<1>8. QED
  BY <1>4, <1>5, <1>6, <1>7, LightsKept

LEMMA BacklightLights ==
    ASSUME Inv, Inv', LightsInv, NEW t \in Clients, Backlight(t) PROVE LightsInv'
<1>1. UNCHANGED <<step, mutex, lcd, colour, raced, failed>> /\ loc[t] # "write" /\ t \in Threads /\ t # "main"
  BY ClientsApart DEF Backlight, Begin, LoadClr, StoreClr, ChooseColour, Threads, Clients, asked
<1>2. call[t] = 0 /\ (call'[t] = 0 \/ call'[t] = 1) /\ \A u \in Threads \ {t} : call'[u] = call[u]
  BY <1>1 DEF Backlight, Begin, LoadClr, StoreClr, ChooseColour, Inv, Shape, Placed, ClientsWrite
<1>3. \A u \in Clients \ {t} : chosen'[u] = chosen[u]
  BY DEF Backlight, Begin, LoadClr, StoreClr, ChooseColour, Inv, Shape, LightType
<1>4. mutex # t
  <2>1. Kind(t) = "none"
    BY <1>1, <1>2, KindsOf DEF Inv, Busy
  <2>2. QED
    BY <1>1, <2>1 DEF Inv, Exclusion, Inside
<1>5. Kind(t)' \in {"none", "lock"}
  BY <1>1, <1>2, ClientsApart DEF Kind, ClientKind
<1>6. \A u \in Threads : Kind(u)' \in {"lights", "unlock"} => Kind(u)' = Kind(u)
  BY <1>2, <1>5 DEF Kind
<1>7. \A port \in {PortA, PortB} : Trusted(port)' => Trusted(port)
  BY <1>1, TrustKept
<1>8. Busy("main")' <=> Busy("main")
  BY <1>1, <1>2 DEF Busy, Threads
<1>9. latch' = latch /\ colour' = colour /\ mutex' = mutex /\ step' = step
  BY <1>1 DEF lcd
<1>10. QED
  BY <1>3, <1>4, <1>6, <1>7, <1>8, <1>9, LightsKept

LEMMA LaunchedKinds ==
    ASSUME call' = OnlyMain
    PROVE  \A u \in Threads : Kind(u)' = IF u = "main" THEN "lock" ELSE "none"
BY ThreadKinds, RowLengths DEF Kind, OnlyMain, MainKind, UpdaterKind, ClientKind

LEMMA RestartLights == ASSUME Restart PROVE LightsInv'
<1>1. \A u \in Threads : Kind(u)' \notin {"lights", "unlock"}
  BY LaunchedKinds DEF Restart
<1>2. mutex' = NoOne /\ Busy("main")'
  BY DEF Restart, OnlyMain, Busy, Threads
<1>3. \A u \in Clients : mutex' # u
  BY <1>2, NoOneAssumption DEF Threads, Clients
<1>4. QED
  BY <1>1, <1>2, <1>3 DEF LightsInv

LEMMA InitLights == ASSUME Init PROVE LightsInv
<1>1. \A u \in Threads : Kind(u) \notin {"lights", "unlock"}
  BY ThreadKinds, RowLengths DEF Init, Kind, OnlyMain, MainKind, UpdaterKind, ClientKind
<1>2. mutex = NoOne /\ Busy("main")
  BY DEF Init, OnlyMain, Busy, Threads
<1>3. \A u \in Clients : mutex # u
  BY <1>2, NoOneAssumption DEF Threads, Clients
<1>4. QED
  BY <1>1, <1>2, <1>3 DEF LightsInv

\* Every step keeps the colour pins in agreement with the colour last passed, as
\* far as the holder of the mutex has come.
THEOREM StepLights == Inv /\ Inv' /\ Transfers /\ LightsInv /\ [Next]_vars => LightsInv'
<1> SUFFICES ASSUME Inv, Inv', Transfers, LightsInv, [Next]_vars PROVE LightsInv'
  OBVIOUS
<1>1. CASE StartDraw
  BY <1>1, StartDrawLights
<1>2. ASSUME NEW t \in Threads, Step(t) PROVE LightsInv'
  BY <1>2, TakeMutexLights, DropMutexLights, ReadLights, OtherWriteLights, LightsWriteLights DEF Step
<1>3. ASSUME NEW t \in Clients, Backlight(t) PROVE LightsInv'
  BY <1>3, BacklightLights
<1>4. CASE Restart
  BY <1>4, RestartLights
<1>5. CASE UNCHANGED vars
  <2>1. /\ latch' = latch /\ colour' = colour /\ mutex' = mutex /\ step' = step /\ chosen' = chosen
        /\ raced' = raced /\ failed' = failed /\ call' = call
    BY <1>5 DEF vars, lcd, light, asked
  <2>2. \A port \in {PortA, PortB} : Trusted(port)' => Trusted(port)
    BY <2>1, TrustKept
  <2>3. (\A u \in Threads : Kind(u)' = Kind(u)) /\ (Busy("main")' <=> Busy("main"))
    BY <2>1 DEF Kind, Busy
  <2>4. QED
    BY <2>1, <2>2, <2>3, LightsKept
<1>6. QED
  BY <1>1, <1>2, <1>3, <1>4, <1>5 DEF Next, AllDone

\* So they agree in every reachable state, on each port nothing went wrong on.
THEOREM LightsInvCorrect == Spec => []LightsInv
<1>1. Init => LightsInv
  BY InitLights
<1>2. QED
  BY <1>1, StepLights, InvCorrect, TransfersCorrect, PTL DEF Spec

\* Between calls the colour pins agree with the last call of
\* CharLCD_setBacklight(), on each port as long as nothing went wrong on it.
THEOREM BacklightWholeCorrect == Spec => []BacklightWhole
<1>1. LightsInv => BacklightWhole
  <2> SUFFICES ASSUME LightsInv, mutex = NoOne, ~Busy("main")
               PROVE  /\ PortA \notin failed => Shows({6, 7})
                      /\ ~raced /\ PortB \notin failed => Shows({8})
    BY DEF BacklightWhole
  <2>1. AllAgree
    BY DEF LightsInv
  <2>2. PortA \notin failed => Agrees(7) /\ Agrees(6)
    BY <2>1, PortsDiffer DEF AllAgree, Trusted
  <2>3. ~raced /\ PortB \notin failed => Agrees(8)
    BY <2>1 DEF AllAgree, Trusted
  <2>4. QED
    BY <2>2, <2>3 DEF Agrees, Shows, Lit
<1>2. QED
  BY <1>1, LightsInvCorrect, PTL

-----------------------------------------------------------------------------
(* AskedInv is inductive: the counter, the colour and the request.         *)

LEMMA OddColours ==
    ASSUME NEW w \in {BLACK, WHITE}
    PROVE  /\ Odd(w) \in {0, 1} /\ (Odd(w) % 2 = 0 <=> w = BLACK) /\ (2 - Odd(w)) % 2 = Odd(w)
           /\ WHITE - w \in {BLACK, WHITE} /\ 1 - Odd(WHITE - w) = Odd(w)
           /\ Odd(WHITE) = 1 /\ Odd(BLACK) = 0
BY DEF Odd, WHITE, BLACK

\* A colour that is wanted is all that is wanted of the caller that is inside.
LEMMA AskedOf ==
    ASSUME Inv, AskedInv, NEW w \in wanted, NEW t \in Clients, loc[t] # "idle"
    PROVE  /\ w \in {BLACK, WHITE}
           /\ \A u \in Clients : u # t => loc[u] = "idle"
           /\ loc[t] = "load" => clr = 1 - Odd(w)
           /\ loc[t] = "store" => tmp[t] = 1 - Odd(w)
           /\ loc[t] \in {"test", "write"} => clr = Odd(w)
           /\ loc[t] = "write" => chosen[t] = w /\ (call[t] >= 2 => colour = w)
<1>1. w \in {BLACK, WHITE}
  BY DEF Inv, Shape, LightType
<1>2. QED
  BY <1>1 DEF AskedInv

\* And the other way round: with one caller inside, AskedInv is about it alone.
LEMMA AskedByOne ==
    ASSUME NEW t \in Clients, loc'[t] # "idle" \/ \A w \in wanted' : clr' = Odd(w) /\ colour' = w,
           \A w \in wanted' : \A u \in Clients : u # t => loc'[u] = "idle",
           \A w \in wanted' :
               /\ loc'[t] = "load" => clr' = 1 - Odd(w)
               /\ loc'[t] = "store" => tmp'[t] = 1 - Odd(w)
               /\ loc'[t] \in {"test", "write"} => clr' = Odd(w)
               /\ loc'[t] = "write" => chosen'[t] = w /\ (call'[t] >= 2 => colour' = w)
    PROVE  AskedInv'
<1> SUFFICES ASSUME NEW w \in wanted'
             PROVE  /\ \A u, x \in Clients : loc'[u] # "idle" /\ loc'[x] # "idle" => u = x
                    /\ (\A u \in Clients : loc'[u] = "idle") => clr' = Odd(w) /\ colour' = w
                    /\ \A u \in Clients :
                        /\ loc'[u] = "load" => clr' = 1 - Odd(w)
                        /\ loc'[u] = "store" => tmp'[u] = 1 - Odd(w)
                        /\ loc'[u] \in {"test", "write"} => clr' = Odd(w)
                        /\ loc'[u] = "write" => chosen'[u] = w /\ (call'[u] >= 2 => colour' = w)
  BY DEF AskedInv, Odd
<1>1. \A u \in Clients : u # t => loc'[u] = "idle"
  OBVIOUS
<1>2. \A u, x \in Clients : loc'[u] # "idle" /\ loc'[x] # "idle" => u = x
  BY <1>1
<1>3. (\A u \in Clients : loc'[u] = "idle") => clr' = Odd(w) /\ colour' = w
  OBVIOUS
<1>4. ASSUME NEW u \in Clients
      PROVE  /\ loc'[u] = "load" => clr' = 1 - Odd(w)
             /\ loc'[u] = "store" => tmp'[u] = 1 - Odd(w)
             /\ loc'[u] \in {"test", "write"} => clr' = Odd(w)
             /\ loc'[u] = "write" => chosen'[u] = w /\ (call'[u] >= 2 => colour' = w)
  <2>1. CASE u = t
    BY <2>1
  <2>2. CASE u # t
    BY <1>1, <2>2
  <2>3. QED
    BY <2>1, <2>2
<1>5. QED
  BY <1>2, <1>3, <1>4

LEMMA AskedKept ==
    ASSUME AskedInv, UNCHANGED <<loc, chosen, clr, tmp, asked>>, \A t \in Clients : call'[t] = call[t]
    PROVE  AskedInv'
BY DEF AskedInv, asked, Odd

\* An operation of a caller comes with its colour passed, or passes it.
LEMMA OperationAsked ==
    ASSUME Inv, AskedInv, NEW t \in Threads, Busy(t), Advance(t), UNCHANGED <<clr, tmp, wanted>>,
           t \in Clients => colour' = chosen[t] \/ (colour' = colour /\ call[t] >= 2),
           t \notin Clients => colour' = colour
    PROVE  AskedInv'
<1>1. CASE t \notin Clients
  <2>1. loc' = loc /\ chosen' = chosen
    BY <1>1, AdvanceClients
  <2>2. \A u \in Clients : call'[u] = call[u]
    BY <1>1, OthersStay DEF Inv, Threads, Clients
  <2>3. QED
    BY <1>1, <2>1, <2>2, AskedKept DEF asked
<1>2. CASE t \in Clients
  <2>1. loc[t] = "write"
    BY <1>2 DEF Inv, ClientsWrite, Busy
  <2>2. /\ \A u \in Clients : u # t => loc'[u] = loc[u]
        /\ loc'[t] = IF call'[t] = 0 THEN "idle" ELSE "write"
        /\ call'[t] # 0 => chosen'[t] = chosen[t]
    BY <1>2, AdvanceClients
  <2>3. ASSUME NEW w \in wanted'
        PROVE  /\ clr' = Odd(w) /\ colour' = w /\ chosen[t] = w
               /\ \A u \in Clients : u # t => loc'[u] = "idle"
    <3>1. /\ clr = Odd(w) /\ chosen[t] = w /\ (call[t] >= 2 => colour = w)
          /\ \A u \in Clients : u # t => loc[u] = "idle"
      BY <1>2, <2>1, <2>3, AskedOf
    <3>2. QED
      BY <1>2, <2>2, <3>1
  <2>4. ASSUME NEW w \in wanted'
        PROVE  /\ loc'[t] = "load" => clr' = 1 - Odd(w)
               /\ loc'[t] = "store" => tmp'[t] = 1 - Odd(w)
               /\ loc'[t] \in {"test", "write"} => clr' = Odd(w)
               /\ loc'[t] = "write" => chosen'[t] = w /\ (call'[t] >= 2 => colour' = w)
    BY <2>2, <2>3, <2>4
  <2>5. QED
    BY <1>2, <2>3, <2>4, AskedByOne
<1>3. QED
  BY <1>1, <1>2

\* A caller that makes an operation other than taking the mutex is past it.
LEMMA CallersPastLock ==
    ASSUME Inv, NEW t \in Clients, Busy(t), Kind(t) # "lock"
    PROVE  call[t] >= 2
<1>1. t \in Threads /\ t # "main" /\ t # "updater" /\ call[t] \in Nat /\ call[t] # 0
  BY ClientsApart DEF Inv, Shape, Placed, Busy, Threads, Clients
<1>2. call[t] # 1
  BY <1>1 DEF Kind, ClientKind
<1>3. QED
  BY <1>1, <1>2

LEMMA StepAsked == ASSUME Inv, AskedInv, NEW t \in Threads, Step(t) PROVE AskedInv'
<1>1. CASE TakeMutex(t)
  <2>1. /\ Busy(t) /\ Advance(t) /\ UNCHANGED <<clr, tmp, wanted>>
        /\ colour' = (IF t \in Clients THEN chosen[t] ELSE colour)
    BY <1>1 DEF TakeMutex
  <2>2. QED
    BY <2>1, OperationAsked
<1>2. CASE DropMutex(t)
  <2>1. Busy(t) /\ Advance(t) /\ UNCHANGED <<clr, tmp, wanted, colour>> /\ Op(t).op = "unlock"
    BY <1>2 DEF DropMutex, asked
  <2>2. t \in Clients => call[t] >= 2
    BY <2>1, OpKind, CallersPastLock DEF Inv
  <2>3. QED
    BY <2>1, <2>2, OperationAsked
<1>3. CASE WritePort(t)
  <2>1. Busy(t) /\ Advance(t) /\ UNCHANGED <<clr, tmp, wanted, colour>> /\ Kind(t) \in Driving
    BY <1>3, WriteEffect DEF WritePort, asked, Inv
  <2>2. t \in Clients => call[t] >= 2
    BY <2>1, CallersPastLock DEF Driving
  <2>3. QED
    BY <2>1, <2>2, OperationAsked
<1>4. CASE ReadPort(t)
  BY <1>4, AskedKept DEF ReadPort, light
<1>5. QED
  BY <1>1, <1>2, <1>3, <1>4 DEF Step

\* A request that finds no other: 1 and 0 preset the counter, 2 leaves it.
LEMMA BeginAsked ==
    ASSUME Inv, AskedInv, NEW t \in Clients, NEW a \in 0..2, Begin(t, a) PROVE AskedInv'
<1>1. /\ clr' = Preset(a) /\ loc' = [loc EXCEPT ![t] = "load"]
      /\ wanted' = IF \E u \in Clients : loc[u] # "idle" THEN {}
                   ELSE {CASE a = 1 -> WHITE [] a = 0 -> BLACK [] OTHER -> WHITE - w : w \in wanted}
  BY DEF Begin
<1>2. CASE \E u \in Clients : loc[u] # "idle"
  BY <1>1, <1>2 DEF AskedInv
<1>3. CASE \A u \in Clients : loc[u] = "idle"
  <2>1. loc'[t] = "load" /\ \A u \in Clients : u # t => loc'[u] = "idle"
    BY <1>1, <1>3 DEF Inv, Shape, LightType
  <2>2. ASSUME NEW x \in wanted'
        PROVE  clr' = 1 - Odd(x)
    <3>1. PICK w \in wanted : x = CASE a = 1 -> WHITE [] a = 0 -> BLACK [] OTHER -> WHITE - w
      BY <1>1, <1>3
    <3>2. w \in {BLACK, WHITE} /\ clr = Odd(w)
      BY <1>3 DEF Inv, Shape, LightType, AskedInv
    <3>3. CASE a = 2
      <4>1. clr' = clr /\ x = WHITE - w
        BY <1>1, <3>1, <3>3 DEF Preset
      <4>2. QED
        BY <3>2, <4>1, OddColours
    <3>4. CASE a # 2
      <4>1. clr' = 1 - a /\ x = IF a = 1 THEN WHITE ELSE BLACK
        BY <1>1, <3>1, <3>4 DEF Preset
      <4>2. Odd(x) = a
        BY <3>4, <4>1, OddColours
      <4>3. QED
        BY <4>1, <4>2
    <3>5. QED
      BY <3>3, <3>4
  <2>3. ASSUME NEW w \in wanted'
        PROVE  /\ loc'[t] = "load" => clr' = 1 - Odd(w)
               /\ loc'[t] = "store" => tmp'[t] = 1 - Odd(w)
               /\ loc'[t] \in {"test", "write"} => clr' = Odd(w)
               /\ loc'[t] = "write" => chosen'[t] = w /\ (call'[t] >= 2 => colour' = w)
    BY <2>1, <2>2, <2>3
  <2>4. QED
    BY <2>1, <2>3, AskedByOne
<1>4. QED
  BY <1>2, <1>3

LEMMA BacklightAsked ==
    ASSUME Inv, AskedInv, NEW t \in Clients, Backlight(t) PROVE AskedInv'
<1>1. t \in Threads /\ DOMAIN loc = Clients /\ DOMAIN tmp = Clients /\ DOMAIN chosen = Clients
      /\ DOMAIN call = Threads
  BY DEF Inv, Shape, Placed, LightType, Threads, Clients
<1>2. ASSUME NEW w \in wanted, loc[t] # "idle", loc' = [loc EXCEPT ![t] = loc'[t]]
      PROVE  \A u \in Clients : u # t => loc'[u] = "idle"
  <2>1. \A u \in Clients : u # t => loc[u] = "idle"
    BY <1>2, AskedOf
  <2>2. QED
    BY <1>1, <1>2, <2>1
<1>3. CASE LoadClr(t)
  <2>1. /\ loc[t] = "load" /\ loc' = [loc EXCEPT ![t] = "store"] /\ loc'[t] = "store"
        /\ tmp'[t] = clr /\ wanted' = wanted
    BY <1>1, <1>3 DEF LoadClr, asked
  <2>2. ASSUME NEW w \in wanted
        PROVE  tmp'[t] = 1 - Odd(w) /\ \A u \in Clients : u # t => loc'[u] = "idle"
    <3>1. clr = 1 - Odd(w)
      BY <2>1, AskedOf
    <3>2. QED
      BY <1>2, <2>1, <3>1
  <2>3. QED
    BY <2>1, <2>2, AskedByOne
<1>4. CASE StoreClr(t)
  <2>1. /\ loc[t] = "store" /\ loc' = [loc EXCEPT ![t] = "test"] /\ loc'[t] = "test"
        /\ clr' = (tmp[t] + 1) % 2 /\ wanted' = wanted
    BY <1>1, <1>4 DEF StoreClr, asked
  <2>2. ASSUME NEW w \in wanted
        PROVE  clr' = Odd(w) /\ \A u \in Clients : u # t => loc'[u] = "idle"
    <3>1. tmp[t] = 1 - Odd(w) /\ w \in {BLACK, WHITE}
      BY <2>1, AskedOf
    <3>2. Odd(w) \in {0, 1} /\ (2 - Odd(w)) % 2 = Odd(w)
      BY <3>1, OddColours
    <3>3. clr' = Odd(w)
      BY <2>1, <3>1, <3>2
    <3>4. QED
      BY <1>2, <2>1, <3>3
  <2>3. QED
    BY <2>1, <2>2, AskedByOne
<1>5. CASE ChooseColour(t)
  <2>1. /\ loc[t] = "test" /\ loc' = [loc EXCEPT ![t] = "write"] /\ loc'[t] = "write"
        /\ chosen'[t] = (IF clr % 2 = 0 THEN BLACK ELSE WHITE) /\ call'[t] = 1
        /\ clr' = clr /\ wanted' = wanted
    BY <1>1, <1>5 DEF ChooseColour, asked
  <2>2. ASSUME NEW w \in wanted
        PROVE  clr' = Odd(w) /\ chosen'[t] = w /\ \A u \in Clients : u # t => loc'[u] = "idle"
    <3>1. clr = Odd(w) /\ w \in {BLACK, WHITE}
      BY <2>1, AskedOf
    <3>2. chosen'[t] = w
      BY <2>1, <3>1, OddColours
    <3>3. QED
      BY <1>2, <2>1, <3>1, <3>2
  <2>3. QED
    BY <2>1, <2>2, AskedByOne
<1>6. ASSUME NEW a \in 0..2, Begin(t, a) PROVE AskedInv'
  BY <1>6, BeginAsked
<1>7. QED
  BY <1>3, <1>4, <1>5, <1>6 DEF Backlight

LEMMA LaunchAsked ==
    /\ Init => AskedInv
    /\ Restart => AskedInv'
BY DEF Init, Restart, AskedInv, Each, Odd, WHITE

\* Every step keeps the counter of backlight() in agreement with the request.
THEOREM StepAskedInv == Inv /\ AskedInv /\ [Next]_vars => AskedInv'
<1> SUFFICES ASSUME Inv, AskedInv, [Next]_vars PROVE AskedInv'
  OBVIOUS
<1>1. CASE StartDraw
  <2>1. \A t \in Clients : call'[t] = call[t]
    BY <1>1, ClientsApart DEF StartDraw, Inv, Shape, Placed, Threads, Clients
  <2>2. QED
    BY <1>1, <2>1, AskedKept DEF StartDraw, light
<1>2. ASSUME NEW t \in Threads, Step(t) PROVE AskedInv'
  BY <1>2, StepAsked
<1>3. ASSUME NEW t \in Clients, Backlight(t) PROVE AskedInv'
  BY <1>3, BacklightAsked
<1>4. CASE Restart
  BY <1>4, LaunchAsked
<1>5. CASE UNCHANGED vars
  BY <1>5, AskedKept DEF vars, light
<1>6. QED
  BY <1>1, <1>2, <1>3, <1>4, <1>5 DEF Next, AllDone

\* As long as no two calls of backlight() overlap, the colour last passed is
\* the colour last asked for.
THEOREM LightAsAskedCorrect == Spec => []LightAsAsked
<1>1. Init => AskedInv
  BY LaunchAsked
<1>2. AskedInv => LightAsAsked
  BY DEF AskedInv, LightAsAsked
<1>3. QED
  BY <1>1, <1>2, StepAskedInv, InvCorrect, PTL DEF Spec

-----------------------------------------------------------------------------
(* Numbers: the bits of a nibble, the nibbles of a byte.                   *)

LEMMA BitsOf ==
    ASSUME NEW n \in 0..15
    PROVE  /\ \A i \in 0..3 : Bit(n, i) \in {0, 1}
           /\ Bit(n, 0) + 2 * Bit(n, 1) + 4 * Bit(n, 2) + 8 * Bit(n, 3) = n
<1>1. Bit(n, 0) + 2 * Bit(n, 1) + 4 * Bit(n, 2) + 8 * Bit(n, 3) = n
  BY DEF Bit
<1>2. Bit(n, 0) \in {0, 1} /\ Bit(n, 1) \in {0, 1} /\ Bit(n, 2) \in {0, 1} /\ Bit(n, 3) \in {0, 1}
  BY DEF Bit
<1>3. \A i \in 0..3 : i \in {0, 1, 2, 3}
  OBVIOUS
<1>4. QED
  BY <1>1, <1>2, <1>3

LEMMA NibbleOf ==
    ASSUME NEW n \in 0..15, NEW pins, \A i \in 0..3 : DataPin(i) \in pins <=> Bit(n, i) = 1
    PROVE  Nibble(pins) = n
<1>1. /\ (DataPin(0) \in pins <=> Bit(n, 0) = 1) /\ (DataPin(1) \in pins <=> Bit(n, 1) = 1)
      /\ (DataPin(2) \in pins <=> Bit(n, 2) = 1) /\ (DataPin(3) \in pins <=> Bit(n, 3) = 1)
  OBVIOUS
<1>2. /\ (IF DataPin(0) \in pins THEN 1 ELSE 0) = Bit(n, 0)
      /\ (IF DataPin(1) \in pins THEN 2 ELSE 0) = 2 * Bit(n, 1)
      /\ (IF DataPin(2) \in pins THEN 4 ELSE 0) = 4 * Bit(n, 2)
      /\ (IF DataPin(3) \in pins THEN 8 ELSE 0) = 8 * Bit(n, 3)
  BY <1>1, BitsOf
<1>3. Nibble(pins) = Bit(n, 0) + 2 * Bit(n, 1) + 4 * Bit(n, 2) + 8 * Bit(n, 3)
  BY <1>2 DEF Nibble
<1>4. QED
  BY <1>3, BitsOf

LEMMA NibblesOf ==
    ASSUME NEW v \in 0..255
    PROVE  v \div 16 \in 0..15 /\ v % 16 \in 0..15 /\ 16 * (v \div 16) + (v % 16) = v
<1>1. v \div 16 \in 0..15
  OBVIOUS
<1>2. v % 16 \in 0..15
  OBVIOUS
<1>3. v = 16 * (v \div 16) + (v % 16)
  OBVIOUS
<1>4. QED
  BY <1>1, <1>2, <1>3

LEMMA ModesDiffer == LOW # HIGH /\ LOW \in {0, 1} /\ HIGH \in {0, 1}
BY DEF LOW, HIGH

-----------------------------------------------------------------------------
(* The bytes of the calls and of the frame.                                *)

LEMMA Joined ==
    ASSUME NEW S, NEW s \in Seq(S), NEW u \in Seq(S), NEW b, b = s \o u
    PROVE  /\ b \in Seq(S) /\ Len(b) = Len(s) + Len(u)
           /\ \A i \in 1..Len(s) : b[i] = s[i]
           /\ \A i \in 1..Len(u) : b[i + Len(s)] = u[i]
<1>1. /\ b \in Seq(S) /\ Len(b) = Len(s) + Len(u)
      /\ \A i \in 1..Len(s) + Len(u) : b[i] = IF i <= Len(s) THEN s[i] ELSE u[i - Len(s)]
  BY ConcatProperties
<1>2. Len(s) \in Nat /\ Len(u) \in Nat
  OBVIOUS
<1>3. ASSUME NEW i \in 1..Len(s) PROVE b[i] = s[i]
  <2>1. i \in 1..Len(s) + Len(u) /\ i <= Len(s)
    BY <1>2
  <2>2. QED
    BY <1>1, <2>1
<1>4. ASSUME NEW i \in 1..Len(u) PROVE b[i + Len(s)] = u[i]
  <2>1. i + Len(s) \in 1..Len(s) + Len(u) /\ ~(i + Len(s) <= Len(s)) /\ (i + Len(s)) - Len(s) = i
    BY <1>2
  <2>2. QED
    BY <1>1, <2>1
<1>5. QED
  BY <1>1, <1>3, <1>4

\* The characters of a row, as the LCD receives them.
LEMMA RowBytes ==
    ASSUME NEW text \in Seq(0..255), NEW row, row = [i \in DOMAIN text |-> <<HIGH, text[i]>>]
    PROVE  /\ row \in Seq({LOW, HIGH} \X (0..255)) /\ Len(row) = Len(text)
           /\ \A i \in 1..Len(text) : row[i] = <<HIGH, text[i]>>
<1>1. DOMAIN text = 1..Len(text) /\ Len(text) \in Nat
  OBVIOUS
<1>2. \A i \in 1..Len(text) : text[i] \in 0..255
  BY ElementOfSeq
<1>3. row = [i \in 1..Len(text) |-> <<HIGH, text[i]>>]
  BY <1>1
<1>4. \A i \in 1..Len(text) : row[i] = <<HIGH, text[i]>>
  BY <1>3, Zenon
<1>5. \A i \in 1..Len(text) : <<HIGH, text[i]>> \in {LOW, HIGH} \X (0..255)
  BY <1>2
<1> DEFINE S == {LOW, HIGH} \X (0..255)
<1>6. \A i \in 1..Len(text) : <<HIGH, text[i]>> \in S
  BY <1>5
<1> HIDE DEF S
<1>7. row \in [1..Len(text) -> S]
  BY <1>3, <1>6, Zenon
<1>8. row \in Seq(S) /\ Len(row) = Len(text)
  BY <1>1, <1>7, SeqDef
<1>9. QED
  BY <1>4, <1>8 DEF S

LEMMA FrameOrder ==
    /\ Len(FrameBytes) = Row1 + Row2 + 2
    /\ FrameBytes[1] = <<LOW, 128>> /\ FrameBytes[Row1 + 2] = <<LOW, 192>>
    /\ \A i \in 1..Row1 : FrameBytes[i + 1] = <<HIGH, Text[1][i]>>
    /\ \A i \in 1..Row2 : FrameBytes[i + Row1 + 2] = <<HIGH, Text[2][i]>>
<1> DEFINE S == {LOW, HIGH} \X (0..255)
           a == <<<<LOW, CursorAddress(0)>>>>
           z == <<<<LOW, CursorAddress(1)>>>>
           p == [i \in DOMAIN Text[1] |-> <<HIGH, Text[1][i]>>]
           q == [i \in DOMAIN Text[2] |-> <<HIGH, Text[2][i]>>]
           b == a \o p
           c == b \o z
           d == c \o q
<1>1. a \in Seq(S) /\ z \in Seq(S) /\ Len(a) = 1 /\ Len(z) = 1 /\ a[1] = <<LOW, 128>> /\ z[1] = <<LOW, 192>>
  BY DEF CursorAddress, LOW
<1>0. Text[1] \in Seq(0..255) /\ Text[2] \in Seq(0..255)
  BY RowLengths
<1>2. p \in Seq(S) /\ Len(p) = Row1 /\ \A i \in 1..Row1 : p[i] = <<HIGH, Text[1][i]>>
  <2>1. PICK row : row = p
    OBVIOUS
  <2>2. row \in Seq(S) /\ Len(row) = Row1 /\ \A i \in 1..Row1 : row[i] = <<HIGH, Text[1][i]>>
    <3>1. PICK text \in Seq(0..255) : text = Text[1]
      BY <1>0
    <3>2. row = [i \in DOMAIN text |-> <<HIGH, text[i]>>]
      BY <2>1, <3>1
    <3>3. row \in Seq(S) /\ Len(row) = Len(text) /\ \A i \in 1..Len(text) : row[i] = <<HIGH, text[i]>>
      BY <3>2, RowBytes, Zenon
    <3>4. QED
      BY <3>1, <3>3, Zenon DEF Row1
  <2>3. QED
    BY <2>1, <2>2, Zenon
<1>3. q \in Seq(S) /\ Len(q) = Row2 /\ \A i \in 1..Row2 : q[i] = <<HIGH, Text[2][i]>>
  <2>1. PICK row : row = q
    OBVIOUS
  <2>2. row \in Seq(S) /\ Len(row) = Row2 /\ \A i \in 1..Row2 : row[i] = <<HIGH, Text[2][i]>>
    <3>1. PICK text \in Seq(0..255) : text = Text[2]
      BY <1>0
    <3>2. row = [i \in DOMAIN text |-> <<HIGH, text[i]>>]
      BY <2>1, <3>1
    <3>3. row \in Seq(S) /\ Len(row) = Len(text) /\ \A i \in 1..Len(text) : row[i] = <<HIGH, text[i]>>
      BY <3>2, RowBytes, Zenon
    <3>4. QED
      BY <3>1, <3>3, Zenon DEF Row2
  <2>3. QED
    BY <2>1, <2>2, Zenon
<1>4. FrameBytes = d
  BY DEF FrameBytes
<1> HIDE DEF S, a, z, p, q, b, c, d
<1>5. b = a \o p /\ c = b \o z /\ d = c \o q
  BY DEF b, c, d
<1>6. /\ b \in Seq(S) /\ Len(b) = Len(a) + Len(p)
      /\ \A i \in 1..Len(a) : b[i] = a[i]
      /\ \A i \in 1..Len(p) : b[i + Len(a)] = p[i]
  <2>1. a \in Seq(S) /\ p \in Seq(S) /\ b = a \o p
    BY <1>1, <1>2, <1>5
  <2>2. QED
    BY <2>1, Joined
<1>7. /\ c \in Seq(S) /\ Len(c) = Len(b) + Len(z)
      /\ \A i \in 1..Len(b) : c[i] = b[i]
      /\ \A i \in 1..Len(z) : c[i + Len(b)] = z[i]
  BY <1>1, <1>5, <1>6, Joined
<1>8. /\ d \in Seq(S) /\ Len(d) = Len(c) + Len(q)
      /\ \A i \in 1..Len(c) : d[i] = c[i]
      /\ \A i \in 1..Len(q) : d[i + Len(c)] = q[i]
  <2>1. c \in Seq(S) /\ q \in Seq(S) /\ d = c \o q
    BY <1>3, <1>5, <1>7
  <2>2. QED
    BY <2>1, Joined
<1>9. Len(b) = Row1 + 1 /\ Len(c) = Row1 + 2 /\ Len(d) = Row1 + Row2 + 2
  BY <1>1, <1>2, <1>3, <1>6, <1>7, <1>8, RowLengths
<1>10. d[1] = <<LOW, 128>> /\ d[Row1 + 2] = <<LOW, 192>>
  <2>1. 1 \in 1..Len(c) /\ 1 \in 1..Len(b) /\ 1 \in 1..Len(a) /\ Row1 + 2 \in 1..Len(c)
        /\ 1 \in 1..Len(z) /\ Row1 + 2 = 1 + Len(b)
    BY <1>1, <1>9, RowLengths
  <2>2. d[1] = a[1] /\ d[Row1 + 2] = z[1]
    BY <1>6, <1>7, <1>8, <2>1
  <2>3. QED
    BY <1>1, <2>2
<1>11. ASSUME NEW i \in 1..Row1 PROVE d[i + 1] = <<HIGH, Text[1][i]>>
  <2>1. i + 1 \in 1..Len(c) /\ i + 1 \in 1..Len(b) /\ i \in 1..Len(p) /\ i + 1 = i + Len(a)
    BY <1>1, <1>2, <1>9, RowLengths
  <2>2. d[i + 1] = p[i]
    BY <1>6, <1>7, <1>8, <2>1
  <2>3. QED
    BY <1>2, <2>2
<1>12. ASSUME NEW i \in 1..Row2 PROVE d[i + Row1 + 2] = <<HIGH, Text[2][i]>>
  <2>1. i \in 1..Len(q) /\ i + Row1 + 2 = i + Len(c)
    BY <1>3, <1>9, RowLengths
  <2>2. QED
    BY <1>3, <1>8, <2>1
<1>13. QED
  BY <1>4, <1>9, <1>10, <1>11, <1>12

\* The byte of each call of lcd_updater is the one of the frame that follows those before.
LEMMA FrameCalls ==
    ASSUME NEW c \in 1..(Row1 + Row2 + 6)
    PROVE  /\ Before(c) \in Nat
           /\ c # Row1 + Row2 + 6 =>
                Before(c + 1) = Before(c) + IF UpdaterKind(c) \in Bytes THEN 1 ELSE 0
           /\ UpdaterKind(c) \in Bytes =>
                /\ Before(c) + 1 <= Len(FrameBytes)
                /\ RowValue(c) \in 0..255 /\ (UpdaterKind(c) = "command" => RowValue(c) \in {128, 192})
                /\ FrameBytes[Before(c) + 1]
                     = <<IF UpdaterKind(c) = "char" THEN HIGH ELSE LOW, RowValue(c)>>
<1>0. Row1 \in Nat /\ Row2 \in Nat /\ Len(FrameBytes) = Row1 + Row2 + 2
  BY RowLengths, FrameOrder
<1>1. CASE c = 1
  <2>1. UpdaterKind(c) = "command" /\ RowValue(c) = 128 /\ Before(c) = 0 /\ Before(c + 1) = 1
    BY <1>0, <1>1 DEF UpdaterKind, RowValue, Before
  <2>2. QED
    BY <1>0, <2>1, FrameOrder DEF Bytes
<1>2. CASE c = 2
  <2>1. UpdaterKind(c) = "lock" /\ Before(c) = 1
    BY <1>0, <1>2 DEF UpdaterKind, Before
  <2>2. Before(3) = 1
    BY <1>0 DEF Before
  <2>3. QED
    BY <1>2, <2>1, <2>2 DEF Bytes
<1>3. CASE c \in 3..(Row1 + 2)
  <2>1. PICK i \in 1..Row1 : c = i + 2
    <3>1. c - 2 \in 1..Row1 /\ c = (c - 2) + 2
      BY <1>0, <1>3
    <3>2. QED
      BY <3>1
  <2>2. UpdaterKind(c) = "char" /\ RowValue(c) = Text[1][i]
    <3>1. c - 2 = i
      BY <2>1
    <3>2. UpdaterKind(c) = "char" /\ RowValue(c) = Text[1][c - 2]
      BY <1>0, <1>3 DEF UpdaterKind, RowValue
    <3>3. QED
      BY <3>1, <3>2
  <2>3. Before(c) = i
    BY <1>0, <2>1 DEF Before
  <2>4. Before(c + 1) = i + 1
    <3>1. CASE c + 1 \in 3..(Row1 + 2)
      BY <1>0, <2>1, <3>1 DEF Before
    <3>2. CASE c + 1 = Row1 + 3
      BY <1>0, <2>1, <3>2 DEF Before
    <3>3. QED
      BY <1>0, <2>1, <3>1, <3>2
  <2>5. Text[1][i] \in 0..255
    BY RowLengths, ElementOfSeq DEF Row1
  <2>6. FrameBytes[i + 1] = <<HIGH, Text[1][i]>>
    BY FrameOrder
  <2>7. i \in Nat /\ i + 1 <= Len(FrameBytes)
    BY <1>0
  <2>8. QED
    BY <2>2, <2>3, <2>4, <2>5, <2>6, <2>7 DEF Bytes
<1>4. CASE c = Row1 + 3
  <2>1. UpdaterKind(c) = "unlock"
    BY <1>0, <1>4 DEF UpdaterKind
  <2>2. Before(c) = Row1 + 1 /\ Before(c + 1) = Row1 + 1
    BY <1>0, <1>4 DEF Before
  <2>3. QED
    BY <1>0, <2>1, <2>2 DEF Bytes
<1>5. CASE c = Row1 + 4
  <2>1. UpdaterKind(c) = "command" /\ RowValue(c) = 192
    BY <1>0, <1>5 DEF UpdaterKind, RowValue
  <2>2. Before(c) = Row1 + 1 /\ Before(c + 1) = Row1 + 2
    BY <1>0, <1>5 DEF Before
  <2>3. FrameBytes[(Row1 + 1) + 1] = <<LOW, 192>>
    <3>1. (Row1 + 1) + 1 = Row1 + 2
      BY <1>0
    <3>2. QED
      BY <3>1, FrameOrder
  <2>4. QED
    BY <1>0, <2>1, <2>2, <2>3 DEF Bytes
<1>6. CASE c = Row1 + 5
  <2>1. UpdaterKind(c) = "lock"
    BY <1>0, <1>6 DEF UpdaterKind
  <2>2. Before(c) = Row1 + 2
    BY <1>0, <1>6 DEF Before
  <2>3. Before(Row1 + 6) = Row1 + 2
    BY <1>0 DEF Before
  <2>4. QED
    BY <1>0, <1>6, <2>1, <2>2, <2>3 DEF Bytes
<1>7. CASE c \in (Row1 + 6)..(Row1 + Row2 + 5)
  <2>1. PICK i \in 1..Row2 : c = i + Row1 + 5
    <3>1. c - Row1 - 5 \in 1..Row2 /\ c = (c - Row1 - 5) + Row1 + 5
      BY <1>0, <1>7
    <3>2. QED
      BY <3>1
  <2>2. UpdaterKind(c) = "char" /\ RowValue(c) = Text[2][i]
    <3>1. c - Row1 - 5 = i
      BY <1>0, <2>1
    <3>2. UpdaterKind(c) = "char"
      BY <1>0, <1>7 DEF UpdaterKind
    <3>3. c # 1 /\ c # Row1 + 4 /\ c \notin 3..(Row1 + 2)
      BY <1>0, <1>7
    <3>4. RowValue(c) = Text[2][c - Row1 - 5]
      BY <3>3 DEF RowValue
    <3>5. QED
      BY <3>1, <3>2, <3>4
  <2>3. Before(c) = i + Row1 + 1
    BY <1>0, <2>1 DEF Before
  <2>4. Before(c + 1) = i + Row1 + 2
    <3>1. CASE c + 1 = Row1 + Row2 + 6
      BY <1>0, <2>1, <3>1 DEF Before
    <3>2. CASE c + 1 # Row1 + Row2 + 6
      BY <1>0, <2>1, <3>2 DEF Before
    <3>3. QED
      BY <3>1, <3>2
  <2>5. Text[2][i] \in 0..255
    BY RowLengths, ElementOfSeq DEF Row2
  <2>6. FrameBytes[i + Row1 + 2] = <<HIGH, Text[2][i]>>
    BY FrameOrder
  <2>7. i + Row1 + 1 \in Nat /\ (i + Row1 + 1) + 1 = i + Row1 + 2 /\ i + Row1 + 2 <= Len(FrameBytes)
    BY <1>0
  <2>8. QED
    BY <2>2, <2>3, <2>4, <2>5, <2>6, <2>7 DEF Bytes
<1>8. CASE c = Row1 + Row2 + 6
  <2>1. UpdaterKind(c) = "unlock" /\ Before(c) = Row1 + Row2 + 2
    BY <1>0, <1>8 DEF UpdaterKind, Before
  <2>2. QED
    BY <1>0, <1>8, <2>1 DEF Bytes
<1>9. \/ c = 1 \/ c = 2 \/ c \in 3..(Row1 + 2) \/ c = Row1 + 3 \/ c = Row1 + 4 \/ c = Row1 + 5
      \/ c \in (Row1 + 6)..(Row1 + Row2 + 5) \/ c = Row1 + Row2 + 6
  BY <1>0
<1>10. QED
  BY <1>1, <1>2, <1>3, <1>4, <1>5, <1>6, <1>7, <1>8, <1>9

-----------------------------------------------------------------------------
(* The lines of the LCD while a byte is sent.                              *)

\* The effect of a write that arrives: one pin takes a value.
Sets(pin, x) == \A q \in 0..15 : q \in latch' <=> IF q = pin THEN x = HIGH ELSE q \in latch

LEMMA LinePins ==
    /\ EN \in 0..15 /\ RS \in 0..15 /\ RW \in 0..15 /\ EN # RS /\ EN # RW /\ RS # RW
    /\ \A i \in 0..3 : DataPin(i) \in 9..12 /\ DataPin(i) \notin {EN, RS, RW}
    /\ \A i, k \in 0..3 : DataPin(i) = DataPin(k) => i = k
    /\ EN \in 9..15 /\ RS \in 9..15 /\ RW \in 9..15
BY DEF EN, RS, RW, DataPin

LEMMA SendPins ==
    ASSUME NEW k \in Bytes, NEW j \in 1..16, NEW v, NEW m
    PROVE  /\ PinAt(k, j) = EN <=> j \in {7, 8, 9, 14, 15, 16}
           /\ PinAt(k, j) = EN => (SendVal(v, m, j) = HIGH <=> j \in {8, 15})
           /\ (PinAt(k, j) = RS <=> j = 1) /\ (j = 1 => SendVal(v, m, j) = m)
           /\ (PinAt(k, j) = RW <=> j = 2) /\ (j = 2 => SendVal(v, m, j) = LOW)
           /\ \A i \in 0..3 : PinAt(k, j) = DataPin(i) <=> j = i + 3 \/ j = i + 10
           /\ \A i \in 0..3 : j = i + 3 => SendVal(v, m, j) = Bit(v \div 16, i)
           /\ \A i \in 0..3 : j = i + 10 => SendVal(v, m, j) = Bit(v % 16, i)
<1>1. CASE j = 1
  BY <1>1 DEF PinAt, SendVal, Bytes, EN, RS, RW, DataPin
<1>2. CASE j = 2
  BY <1>2 DEF PinAt, SendVal, Bytes, EN, RS, RW, DataPin
<1>3. CASE j \in 3..6
  <2>1. PinAt(k, j) = 15 - j /\ SendVal(v, m, j) = Bit(v \div 16, j - 3)
    BY <1>3 DEF PinAt, SendVal, Bytes
  <2>2. \A i \in 0..3 : j = i + 3 => j - 3 = i
    OBVIOUS
  <2>3. \A i \in 0..3 : j = i + 3 => SendVal(v, m, j) = Bit(v \div 16, i)
    BY <2>1, <2>2
  <2>4. QED
    BY <1>3, <2>1, <2>3 DEF EN, RS, RW, DataPin
<1>4. CASE j \in {7, 8, 9}
  BY <1>4 DEF PinAt, SendVal, Bytes, EN, RS, RW, DataPin, HIGH, LOW
<1>5. CASE j \in 10..13
  <2>1. PinAt(k, j) = 22 - j /\ SendVal(v, m, j) = Bit(v % 16, j - 10)
    BY <1>5 DEF PinAt, SendVal, Bytes
  <2>2. \A i \in 0..3 : j = i + 10 => j - 10 = i
    OBVIOUS
  <2>3. \A i \in 0..3 : j = i + 10 => SendVal(v, m, j) = Bit(v % 16, i)
    BY <2>1, <2>2
  <2>4. QED
    BY <1>5, <2>1, <2>3 DEF EN, RS, RW, DataPin
<1>6. CASE j \in {14, 15, 16}
  BY <1>6 DEF PinAt, SendVal, Bytes, EN, RS, RW, DataPin, HIGH, LOW
<1>7. QED
  BY <1>1, <1>2, <1>3, <1>4, <1>5, <1>6

LEMMA SendLines ==
    ASSUME NEW k \in Bytes, NEW j \in 1..16, NEW v, NEW m \in {LOW, HIGH},
           Sending(v, m, j), Sets(PinAt(k, j), SendVal(v, m, j))
    PROVE  /\ EN \in latch' <=> j \in {8, 15}
           /\ RS \in latch' <=> m = HIGH
           /\ j >= 2 => RW \notin latch'
           /\ j <= 9 => \A i \in 0..3 : i < j - 2 => (DataPin(i) \in latch' <=> Bit(v \div 16, i) = 1)
           /\ j >= 10 => \A i \in 0..3 : i < j - 9 => (DataPin(i) \in latch' <=> Bit(v % 16, i) = 1)
<1>1. EN \in latch' <=> j \in {8, 15}
  <2>1. EN \in latch' <=> IF PinAt(k, j) = EN THEN SendVal(v, m, j) = HIGH ELSE EN \in latch
    BY LinePins DEF Sets
  <2>2. CASE PinAt(k, j) = EN
    BY <2>1, <2>2, SendPins
  <2>3. CASE PinAt(k, j) # EN
    <3>1. j \notin {7, 8, 9, 14, 15, 16}
      BY <2>3, SendPins
    <3>2. EN \in latch <=> j \in {9, 16}
      BY DEF Sending
    <3>3. QED
      BY <2>1, <2>3, <3>1, <3>2
  <2>4. QED
    BY <2>2, <2>3
<1>2. RS \in latch' <=> m = HIGH
  <2>1. RS \in latch' <=> IF PinAt(k, j) = RS THEN SendVal(v, m, j) = HIGH ELSE RS \in latch
    BY LinePins DEF Sets
  <2>2. CASE j = 1
    BY <2>1, <2>2, SendPins
  <2>3. CASE j # 1
    <3>1. PinAt(k, j) # RS /\ j >= 2
      BY <2>3, SendPins
    <3>2. QED
      BY <2>1, <3>1 DEF Sending
  <2>4. QED
    BY <2>2, <2>3
<1>3. j >= 2 => RW \notin latch'
  <2>1. RW \in latch' <=> IF PinAt(k, j) = RW THEN SendVal(v, m, j) = HIGH ELSE RW \in latch
    BY LinePins DEF Sets
  <2>2. CASE j = 2
    BY <2>1, <2>2, SendPins, ModesDiffer
  <2>3. CASE j > 2
    <3>1. PinAt(k, j) # RW /\ j >= 3
      BY <2>3, SendPins
    <3>2. QED
      BY <2>1, <3>1 DEF Sending
  <2>4. QED
    BY <2>2, <2>3
<1>4. ASSUME NEW i \in 0..3, j <= 9, i < j - 2
      PROVE  DataPin(i) \in latch' <=> Bit(v \div 16, i) = 1
  <2>1. DataPin(i) \in latch' <=> IF PinAt(k, j) = DataPin(i) THEN SendVal(v, m, j) = HIGH ELSE DataPin(i) \in latch
    BY LinePins DEF Sets
  <2>2. CASE j = i + 3
    <3>1. PinAt(k, j) = DataPin(i) /\ SendVal(v, m, j) = Bit(v \div 16, i)
      BY <2>2, SendPins
    <3>2. QED
      BY <2>1, <3>1 DEF HIGH
  <2>3. CASE j # i + 3
    <3>1. j # i + 10 /\ i < j - 3
      BY <1>4, <2>3
    <3>2. PinAt(k, j) # DataPin(i)
      BY <2>3, <3>1, SendPins
    <3>3. Carry(v \div 16, j - 3)
      BY <1>4 DEF Sending
    <3>4. QED
      BY <2>1, <3>1, <3>2, <3>3 DEF Carry
  <2>4. QED
    BY <2>2, <2>3
<1>5. ASSUME NEW i \in 0..3, j >= 10, i < j - 9
      PROVE  DataPin(i) \in latch' <=> Bit(v % 16, i) = 1
  <2>1. DataPin(i) \in latch' <=> IF PinAt(k, j) = DataPin(i) THEN SendVal(v, m, j) = HIGH ELSE DataPin(i) \in latch
    BY LinePins DEF Sets
  <2>2. CASE j = i + 10
    <3>1. PinAt(k, j) = DataPin(i) /\ SendVal(v, m, j) = Bit(v % 16, i)
      BY <2>2, SendPins
    <3>2. QED
      BY <2>1, <3>1 DEF HIGH
  <2>3. CASE j # i + 10
    <3>1. j # i + 3 /\ i < j - 10
      BY <1>5, <2>3
    <3>2. PinAt(k, j) # DataPin(i)
      BY <2>3, <3>1, SendPins
    <3>3. Carry(v % 16, j - 10)
      BY <1>5 DEF Sending
    <3>4. QED
      BY <2>1, <3>1, <3>2, <3>3 DEF Carry
  <2>4. QED
    BY <2>2, <2>3
<1>6. QED
  BY <1>1, <1>2, <1>3, <1>4, <1>5

\* The second nibble completes a byte.
LEMMA SecondNibble ==
    ASSUME NEW n, NEW rs, NEW h, width = 4, half = {h}, Take(n, rs)
    PROVE  /\ half' = {} /\ width' = (IF h = 3 /\ rs = LOW THEN 8 ELSE 4)
           /\ Receive(<<rs, 16 * h + n>>)
<1>1. (CHOOSE g \in half : TRUE) = h /\ half # {} /\ ~(width = 8) /\ ~(width = 4 /\ half = {})
  OBVIOUS
<1> DEFINE high == CHOOSE g \in half : TRUE
<1>2. half' = {} /\ width' = (IF high = 3 /\ rs = LOW THEN 8 ELSE 4) /\ Receive(<<rs, 16 * high + n>>)
  BY <1>1, Zenon DEF Take
<1>3. high = h
  BY <1>1
<1> HIDE DEF high
<1>4. QED
  BY <1>2, <1>3, Zenon

LEMMA SendLevels ==
    ASSUME NEW k \in Bytes, NEW j \in 1..16, NEW v \in 0..255, NEW m \in {LOW, HIGH},
           Sending(v, m, j), Sets(PinAt(k, j), SendVal(v, m, j))
    PROVE  /\ EN \in latch <=> j \in {9, 16}
           /\ EN \in latch' <=> j \in {8, 15}
           /\ RS \in latch' <=> m = HIGH
           /\ j >= 2 => RW \notin latch'
BY SendLines DEF Sending

\* The LCD takes a nibble when the enable line falls, and nothing in between.
LEMMA SendSilent ==
    ASSUME NEW k \in Bytes, NEW j \in 1..16, NEW v \in 0..255, NEW m \in {LOW, HIGH}, j \notin {9, 16},
           Sending(v, m, j), Sets(PinAt(k, j), SendVal(v, m, j)), Listen(latch')
    PROVE  width' = width /\ half' = half /\ got' = got /\ intact' = intact
<1>1. EN \notin latch
  BY DEF Sending
<1>2. QED
  BY <1>1 DEF Listen

LEMMA SendFirst ==
    ASSUME NEW k \in Bytes, NEW v \in 0..255, NEW m \in {LOW, HIGH},
           Sending(v, m, 9), Sets(PinAt(k, 9), SendVal(v, m, 9)), Listen(latch')
    PROVE  Take(v \div 16, m)
<1> DEFINE j == 9
<1>0. j \in 1..16 /\ Sending(v, m, j) /\ Sets(PinAt(k, j), SendVal(v, m, j))
  OBVIOUS
<1> HIDE DEF j
<1>1. /\ EN \in latch <=> j \in {9, 16}
      /\ EN \in latch' <=> j \in {8, 15}
      /\ RS \in latch' <=> m = HIGH
      /\ j >= 2 => RW \notin latch'
  BY <1>0, SendLevels, Zenon
<1>2. EN \in latch /\ EN \notin latch' /\ RW \notin latch'
  BY <1>1 DEF j
<1>3. (IF RS \in latch' THEN HIGH ELSE LOW) = m
  BY <1>1, ModesDiffer
<1>4. Nibble(latch') = v \div 16
  <2>1. \A i \in 0..3 : DataPin(i) \in latch' <=> Bit(v \div 16, i) = 1
    <3>1. \A i \in 0..3 : i < 9 - 2
      OBVIOUS
    <3>2. QED
      BY <3>1, SendLines
  <2>2. QED
    BY <2>1, NibbleOf, NibblesOf
<1>5. QED
  BY <1>2, <1>3, <1>4, Zenon DEF Listen

LEMMA SendSecond ==
    ASSUME NEW k \in Bytes, NEW v \in 0..255, NEW m \in {LOW, HIGH},
           Sending(v, m, 16), Sets(PinAt(k, 16), SendVal(v, m, 16)), Listen(latch')
    PROVE  Take(v % 16, m)
<1> DEFINE j == 16
<1>0. j \in 1..16 /\ Sending(v, m, j) /\ Sets(PinAt(k, j), SendVal(v, m, j))
  OBVIOUS
<1> HIDE DEF j
<1>1. /\ EN \in latch <=> j \in {9, 16}
      /\ EN \in latch' <=> j \in {8, 15}
      /\ RS \in latch' <=> m = HIGH
      /\ j >= 2 => RW \notin latch'
  BY <1>0, SendLevels, Zenon
<1>2. EN \in latch /\ EN \notin latch' /\ RW \notin latch'
  BY <1>1 DEF j
<1>3. (IF RS \in latch' THEN HIGH ELSE LOW) = m
  BY <1>1, ModesDiffer
<1>4. Nibble(latch') = v % 16
  <2>1. \A i \in 0..3 : DataPin(i) \in latch' <=> Bit(v % 16, i) = 1
    <3>1. \A i \in 0..3 : i < 16 - 9
      OBVIOUS
    <3>2. QED
      BY <3>1, SendLines
  <2>2. QED
    BY <2>1, NibbleOf, NibblesOf
<1>5. QED
  BY <1>2, <1>3, <1>4, Zenon DEF Listen

\* The first nibble is kept, the second completes the byte.
LEMMA SendKeeps ==
    ASSUME NEW k \in Bytes, NEW j \in 1..16, NEW v \in 0..255, NEW m \in {LOW, HIGH}, width = 4, j < 16,
           Sending(v, m, j), Sets(PinAt(k, j), SendVal(v, m, j)), Listen(latch')
    PROVE  width' = 4 /\ half' = (IF j = 9 THEN {v \div 16} ELSE half) /\ got' = got /\ intact' = intact
<1>1. CASE j # 9
  <2>1. j \notin {9, 16}
    BY <1>1
  <2>2. width' = width /\ half' = half /\ got' = got /\ intact' = intact
    BY <2>1, SendSilent, Zenon
  <2>3. QED
    BY <1>1, <2>2
<1>2. CASE j = 9
  <2>1. Sending(v, m, 9) /\ Sets(PinAt(k, 9), SendVal(v, m, 9))
    BY <1>2
  <2>2. Take(v \div 16, m)
    BY <2>1, SendFirst, Zenon
  <2>3. half = {}
    BY <2>1 DEF Sending
  <2>4. QED
    BY <1>2, <2>2, <2>3 DEF Take
<1>3. QED
  BY <1>1, <1>2

LEMMA SendReceives ==
    ASSUME NEW k \in Bytes, NEW v \in 0..255, NEW m \in {LOW, HIGH},
           m = LOW => v \div 16 # 3, width = 4,
           Sending(v, m, 16), Sets(PinAt(k, 16), SendVal(v, m, 16)), Listen(latch')
    PROVE  width' = 4 /\ half' = {} /\ Receive(<<m, v>>)
<1>1. Take(v % 16, m)
  BY SendSecond, Zenon
<1>2. half = {v \div 16}
  BY DEF Sending
<1>3. half' = {} /\ width' = (IF v \div 16 = 3 /\ m = LOW THEN 8 ELSE 4)
  BY <1>1, <1>2, SecondNibble
<1>4. Receive(<<m, 16 * (v \div 16) + (v % 16)>>)
  BY <1>1, <1>2, SecondNibble, Zenon
<1>5. 16 * (v \div 16) + (v % 16) = v
  BY NibblesOf
<1>6. width' = 4
  BY <1>3
<1>7. QED
  BY <1>3, <1>4, <1>5, <1>6, Zenon

LEMMA SendOnward ==
    ASSUME NEW k \in Bytes, NEW j \in 1..16, NEW v \in 0..255, NEW m \in {LOW, HIGH},
           m = LOW => v \div 16 # 3, width = 4,
           Sending(v, m, j), Sets(PinAt(k, j), SendVal(v, m, j)), Listen(latch')
    PROVE  /\ j < 16 => Sending(v, m, j + 1)'
           /\ j = 16 => Quiet'
<1>1. /\ EN \in latch' <=> j \in {8, 15}
      /\ RS \in latch' <=> m = HIGH
      /\ j >= 2 => RW \notin latch'
      /\ j <= 9 => \A i \in 0..3 : i < j - 2 => (DataPin(i) \in latch' <=> Bit(v \div 16, i) = 1)
      /\ j >= 10 => \A i \in 0..3 : i < j - 9 => (DataPin(i) \in latch' <=> Bit(v % 16, i) = 1)
  BY SendLines
<1>2. /\ j \notin {9, 16} => half' = half
      /\ j = 9 => half' = {v \div 16}
      /\ j = 16 => half' = {}
  <2>1. j < 16 => half' = (IF j = 9 THEN {v \div 16} ELSE half)
    BY SendKeeps
  <2>2. j = 16 => half' = {}
    BY SendReceives
  <2>3. QED
    BY <2>1, <2>2
<1>3. ASSUME j < 16 PROVE Sending(v, m, j + 1)'
  <2>1. EN \in latch' <=> j + 1 \in {9, 16}
    BY <1>1, <1>3
  <2>2. ASSUME j + 1 <= 9 PROVE half' = {} /\ Carry(v \div 16, (j + 1) - 3)'
    <3>1. half' = {}
      BY <1>2, <2>2 DEF Sending
    <3>2. \A i \in 0..3 : i < (j + 1) - 3 => (DataPin(i) \in latch' <=> Bit(v \div 16, i) = 1)
      BY <1>1, <2>2
    <3>3. QED
      BY <3>1, <3>2 DEF Carry
  <2>3. ASSUME j + 1 >= 10 PROVE half' = {v \div 16} /\ Carry(v % 16, (j + 1) - 10)'
    <3>1. half' = {v \div 16}
      BY <1>2, <1>3, <2>3 DEF Sending
    <3>2. \A i \in 0..3 : i < (j + 1) - 10 => (DataPin(i) \in latch' <=> Bit(v % 16, i) = 1)
      <4>1. CASE j = 9
        BY <4>1
      <4>2. CASE j >= 10
        BY <1>1, <4>2
      <4>3. QED
        BY <2>3, <4>1, <4>2
    <3>3. QED
      BY <3>1, <3>2 DEF Carry
  <2>4. (j + 1 >= 2 => (RS \in latch' <=> m = HIGH)) /\ (j + 1 >= 3 => RW \notin latch')
    BY <1>1
  <2>5. QED
    BY <2>1, <2>2, <2>3, <2>4 DEF Sending
<1>4. j = 16 => Quiet'
  BY <1>1, <1>2 DEF Quiet
<1>5. QED
  BY <1>3, <1>4

-----------------------------------------------------------------------------
(* The start: the lines low, and the four nibbles that wake the LCD.       *)

LEMMA MainKindOf ==
    ASSUME Shape
    PROVE  /\ call["main"] \in 0..18 /\ Kind("main") = MainKind(call["main"]) /\ "main" \in Threads
           /\ Kind("main") = "none" <=> call["main"] = 0
           /\ Kind("main") = "low" <=> call["main"] = 4
           /\ Kind("main") = "nibble" <=> call["main"] \in 5..8
           /\ Kind("main") = "command" <=> call["main"] \in 9..15
           /\ Kind("main") = "lock" <=> call["main"] \in {1, 16}
           /\ Kind("main") = "lights" <=> call["main"] \in {2, 17}
           /\ Kind("main") = "unlock" <=> call["main"] \in {3, 18}
           /\ Kind("main") # "char"
<1>1. call["main"] \in 0..18 /\ Kind("main") = MainKind(call["main"]) /\ "main" \in Threads
  <2>1. "main" \in Threads
    BY DEF Threads
  <2>2. call["main"] \in Nat /\ call["main"] <= LastCall("main")
    BY <2>1 DEF Shape, Placed
  <2>3. QED
    BY <2>1, <2>2 DEF LastCall, Kind
<1>2. CASE call["main"] \in 0..4
  BY <1>1, <1>2 DEF MainKind
<1>3. CASE call["main"] \in 5..8
  BY <1>1, <1>3 DEF MainKind
<1>4. CASE call["main"] \in 9..15
  BY <1>1, <1>4 DEF MainKind
<1>5. CASE call["main"] \in {16, 17, 18}
  BY <1>1, <1>5 DEF MainKind
<1>6. QED
  BY <1>1, <1>2, <1>3, <1>4, <1>5

\* A call of pin operations is never the last one.
LEMMA WritingGoesOn ==
    ASSUME Inv, NEW t \in Threads, WritePort(t)
    PROVE  Busy(t)' /\ Busy(t) /\ Advance(t) /\ Kind(t) \in Driving
<1>1. Busy(t) /\ Kind(t) \in Driving /\ Advance(t)
  BY WriteEffect DEF Inv
<1>2. Kind(t)' # "none"
  <2>1. step[t] \in Nat /\ step[t] <= Steps(Kind(t)) /\ Steps(Kind(t)) \in Nat
    BY StepsPositive DEF Inv, Shape, Placed
  <2>2. CASE step[t] < Steps(Kind(t))
    <3>1. Kind(t)' = Kind(t)
      BY <1>1, <2>2, Onward DEF Inv
    <3>2. QED
      BY <1>1, <3>1 DEF Driving
  <2>3. CASE step[t] = Steps(Kind(t))
    <3>1. Kind(t)' \in After(Kind(t))
      BY <1>1, <2>3, Onward DEF Inv
    <3>2. QED
      BY <1>1, <3>1 DEF Driving, After
  <2>4. QED
    BY <2>1, <2>2, <2>3
<1>3. QED
  BY <1>1, <1>2, BusyNext

\* A write to the lines of the LCD that arrives.
LEMMA LineWrite ==
    ASSUME Inv, Transfers, NEW t \in Threads, WritePort(t), Kind(t) # "lights", Trusted(PortB)'
    PROVE  Sets(PinOf(t), ValOf(t)) /\ Listen(latch')
<1>1. Kind(t) \in Driving /\ failed \subseteq failed' /\ raced' = raced
  BY WriteEffect DEF Inv, WritePort
<1>2. PinOf(t) \in 9..15 /\ Port(PinOf(t)) = PortB
  BY <1>1, PinRange DEF Inv
<1>3. Trusted(PortB) /\ PortB \notin failed'
  BY <1>1 DEF Trusted
<1>4. QED
  BY <1>2, <1>3, EffectiveWrite DEF Sets

\* During the start no transfer fails.
LEMMA StartTrusted ==
    /\ Inv /\ Busy("main") => Trusted(PortA) /\ Trusted(PortB)
    /\ Inv' /\ Busy("main")' => Trusted(PortA)' /\ Trusted(PortB)'
BY DEF Inv, StartAlone, Trusted

LEMMA NibblePins ==
    ASSUME NEW j \in 1..7, NEW n
    PROVE  /\ PinAt("nibble", j) = EN <=> j \in 5..7
           /\ j \in 5..7 => (NibbleVal(n, j) = HIGH <=> j = 6)
           /\ PinAt("nibble", j) # RS /\ PinAt("nibble", j) # RW
           /\ \A i \in 0..3 : PinAt("nibble", j) = DataPin(i) <=> j = i + 1
           /\ \A i \in 0..3 : j = i + 1 => NibbleVal(n, j) = Bit(n, i)
<1>1. CASE j \in 1..4
  <2>1. PinAt("nibble", j) = 13 - j /\ NibbleVal(n, j) = Bit(n, j - 1)
    BY <1>1 DEF PinAt, NibbleVal
  <2>2. \A i \in 0..3 : j = i + 1 => j - 1 = i
    OBVIOUS
  <2>3. \A i \in 0..3 : j = i + 1 => NibbleVal(n, j) = Bit(n, i)
    BY <2>1, <2>2
  <2>4. QED
    BY <1>1, <2>1, <2>3 DEF EN, RS, RW, DataPin
<1>2. CASE j \in {5, 6, 7}
  BY <1>2 DEF PinAt, NibbleVal, EN, RS, RW, DataPin, HIGH, LOW
<1>3. QED
  BY <1>1, <1>2

\* Write4Bits(n), with the lines RS and RW low.
Writing(n, j) ==
    /\ RS \notin latch /\ RW \notin latch
    /\ EN \in latch <=> j = 7
    /\ Carry(n, j - 1)

LEMMA NibbleLines ==
    ASSUME NEW j \in 1..7, NEW n, Writing(n, j), Sets(PinAt("nibble", j), NibbleVal(n, j))
    PROVE  /\ RS \notin latch' /\ RW \notin latch'
           /\ EN \in latch' <=> j = 6
           /\ \A i \in 0..3 : i < j => (DataPin(i) \in latch' <=> Bit(n, i) = 1)
<1>1. RS \notin latch' /\ RW \notin latch'
  BY LinePins, NibblePins DEF Sets, Writing
<1>2. EN \in latch' <=> j = 6
  <2>1. EN \in latch' <=> IF PinAt("nibble", j) = EN THEN NibbleVal(n, j) = HIGH ELSE EN \in latch
    BY LinePins DEF Sets
  <2>2. CASE j \in 5..7
    BY <2>1, <2>2, NibblePins
  <2>3. CASE j \notin 5..7
    BY <2>1, <2>3, NibblePins DEF Writing
  <2>4. QED
    BY <2>2, <2>3
<1>3. ASSUME NEW i \in 0..3, i < j PROVE DataPin(i) \in latch' <=> Bit(n, i) = 1
  <2>1. DataPin(i) \in latch' <=> IF PinAt("nibble", j) = DataPin(i) THEN NibbleVal(n, j) = HIGH ELSE DataPin(i) \in latch
    BY LinePins DEF Sets
  <2>2. CASE j = i + 1
    <3>1. PinAt("nibble", j) = DataPin(i) /\ NibbleVal(n, j) = Bit(n, i)
      BY <2>2, NibblePins
    <3>2. QED
      BY <2>1, <3>1 DEF HIGH
  <2>3. CASE j # i + 1
    <3>1. PinAt("nibble", j) # DataPin(i) /\ i < j - 1
      BY <1>3, <2>3, NibblePins
    <3>2. QED
      BY <2>1, <3>1 DEF Writing, Carry
  <2>4. QED
    BY <2>2, <2>3
<1>4. QED
  BY <1>1, <1>2, <1>3

LEMMA NibbleListen ==
    ASSUME NEW j \in 1..7, NEW n \in 0..15, Writing(n, j), Sets(PinAt("nibble", j), NibbleVal(n, j)),
           Listen(latch')
    PROVE  /\ j < 7 => UNCHANGED <<width, half, got, intact>>
           /\ j = 7 => Take(n, LOW)
<1>1. /\ RS \notin latch' /\ RW \notin latch'
      /\ EN \in latch' <=> j = 6
      /\ EN \in latch <=> j = 7
  BY NibbleLines DEF Writing
<1>2. CASE j < 7
  BY <1>1, <1>2 DEF Listen
<1>3. CASE j = 7
  <2>1. \A i \in 0..3 : DataPin(i) \in latch' <=> Bit(n, i) = 1
    <3>1. \A i \in 0..3 : i < j
      BY <1>3
    <3>2. QED
      BY <3>1, NibbleLines
  <2>2. Nibble(latch') = n
    BY <2>1, NibbleOf
  <2>3. QED
    BY <1>1, <1>3, <2>2 DEF Listen
<1>4. QED
  BY <1>2, <1>3

\* Three tries of the nibble 3 bring the LCD to eight lines from any state, and
\* the nibble 2 to four.
LEMMA Wakes ==
    ASSUME LcdType
    PROVE  /\ Take(3, LOW) => width' = 8 \/ half' = {} \/ half' = {3}
           /\ Take(3, LOW) /\ (width = 8 \/ half = {} \/ half = {3}) => width' = 8 \/ half' = {3}
           /\ Take(3, LOW) /\ (width = 8 \/ half = {3}) => width' = 8
           /\ Take(2, LOW) /\ width = 8 => width' = 4 /\ half' = {} /\ got' = 0 /\ intact' = TRUE
<1>1. CASE width = 8
  BY <1>1 DEF Take, LcdType, LOW
<1>2. CASE width = 4 /\ half = {}
  BY <1>2 DEF Take
<1>3. CASE width = 4 /\ half # {}
  <2>1. PICK h \in 0..15 : half = {h}
    BY <1>3 DEF LcdType
  <2>2. ASSUME Take(3, LOW) PROVE half' = {} /\ width' = (IF h = 3 /\ LOW = LOW THEN 8 ELSE 4)
    BY <1>3, <2>1, <2>2, SecondNibble
  <2>3. half = {3} => h = 3
    BY <2>1
  <2>4. QED
    BY <1>3, <2>2, <2>3
<1>4. QED
  BY <1>1, <1>2, <1>3 DEF LcdType

LEMMA NibbleCall ==
    ASSUME Inv, Inv', Transfers, Tried, WritePort("main"), Kind("main") = "nibble"
    PROVE  Tried' /\ (call'["main"] \notin 1..8 => InStep("main")')
<1> DEFINE j == step["main"]
           c == call["main"]
           n == Nib("main")
<1>1. /\ Busy("main")' /\ Busy("main") /\ Advance("main") /\ "main" \in Threads
      /\ c \in 5..8 /\ j \in 1..7
  <2>1. "main" \in Threads /\ c \in 5..8
    BY MainKindOf DEF Inv
  <2>2. j \in 1..7
    BY <2>1, StepNumbers DEF Inv, Shape, Placed
  <2>3. QED
    BY <2>1, <2>2, WritingGoesOn
<1>2. n \in 0..15 /\ n = (IF c = 8 THEN 2 ELSE 3)
  BY DEF Nib
<1>3. Writing(n, j)
  BY DEF Tried, Writing
<1>4. PinOf("main") = PinAt("nibble", j) /\ ValOf("main") = NibbleVal(n, j)
  BY DEF PinOf, ValOf
<1>5. Sets(PinAt("nibble", j), NibbleVal(n, j)) /\ Listen(latch')
  BY <1>1, <1>4, StartTrusted, LineWrite
<1> HIDE DEF n
<1>6. /\ RS \notin latch' /\ RW \notin latch' /\ (EN \in latch' <=> j = 6)
      /\ \A i \in 0..3 : i < j => (DataPin(i) \in latch' <=> Bit(n, i) = 1)
  BY <1>1, <1>3, <1>5, NibbleLines
<1>7. /\ j < 7 => UNCHANGED <<width, half, got, intact>>
      /\ j = 7 => Take(n, LOW)
  BY <1>1, <1>2, <1>3, <1>5, NibbleListen
<1>8. /\ c = 6 => width = 8 \/ half = {} \/ half = {3}
      /\ c = 7 => width = 8 \/ half = {3}
      /\ c = 8 => width = 8
  BY DEF Tried
<1>9. CASE j < 7
  <2>1. call'["main"] = c /\ step'["main"] = j + 1 /\ Kind("main")' = "nibble"
    BY <1>1, <1>9, StepNumbers, Onward DEF Inv
  <2>2. Nib("main")' = n
    BY <2>1 DEF Nib, n
  <2>4. width' = width /\ half' = half
    BY <1>7, <1>9
  <2>5. (step'["main"] - 1 = j) /\ (EN \in latch' <=> step'["main"] = 7)
    BY <1>1, <1>6, <2>1
  <2>6. Carry(Nib("main"), step["main"] - 1)'
    <3>1. SUFFICES ASSUME NEW i \in 0..3, i < step'["main"] - 1
                   PROVE  DataPin(i) \in latch' <=> Bit(Nib("main")', i) = 1
      BY DEF Carry
    <3>2. QED
      BY <1>6, <2>2, <2>5, <3>1
  <2>7. Tried'
    BY <1>6, <1>8, <2>1, <2>4, <2>5, <2>6 DEF Tried
  <2>8. QED
    BY <1>1, <2>1, <2>7
<1>10. CASE j = 7
  <2>1. call'["main"] = c + 1 /\ step'["main"] = 1
    BY <1>1, <1>10, StepNumbers, Onward DEF Inv, LastCall
  <2>2. Take(n, LOW)
    BY <1>7, <1>10
  <2>3. CASE c < 8
    <3>1. n = 3 /\ c + 1 \in 6..8
      BY <1>1, <1>2, <2>3
    <3>2. /\ c + 1 = 6 => width' = 8 \/ half' = {} \/ half' = {3}
          /\ c + 1 = 7 => width' = 8 \/ half' = {3}
          /\ c + 1 = 8 => width' = 8
      <4>1. /\ c = 5 => width' = 8 \/ half' = {} \/ half' = {3}
            /\ c = 6 => width' = 8 \/ half' = {3}
            /\ c = 7 => width' = 8
        BY <1>8, <2>2, <3>1, Wakes DEF Inv, Shape
      <4>2. QED
        BY <1>1, <4>1
    <3>3. Kind("main")' = "nibble"
      BY <2>1, <3>1 DEF Kind, MainKind
    <3>4. Carry(Nib("main"), step["main"] - 1)'
      BY <2>1 DEF Carry
    <3>5. Tried'
      BY <1>6, <1>10, <2>1, <3>2, <3>3, <3>4 DEF Tried
    <3>6. QED
      BY <2>1, <3>1, <3>5
  <2>4. CASE c = 8
    <3>1. call'["main"] = 9 /\ Kind("main")' = "command"
      BY <2>1, <2>4 DEF Kind, MainKind
    <3>2. Tried'
      BY <3>1 DEF Tried
    <3>3. width' = 4 /\ half' = {} /\ got' = 0 /\ intact' = TRUE
      <4>1. n = 2 /\ width = 8
        BY <1>2, <1>8, <2>4
      <4>2. QED
        BY <2>2, <4>1, Wakes DEF Inv, Shape
    <3>4. EN \notin latch'
      BY <1>6, <1>10
    <3>5. Received("main")' = 0
      BY <3>1 DEF Received
    <3>7. Sending(Value("main"), Mode("main"), step["main"])'
      <4>1. step'["main"] = 1
        BY <2>1
      <4>2. QED
        BY <3>3, <3>4, <4>1 DEF Sending, Carry
    <3>8. InStep("main")'
      BY <3>1, <3>3, <3>5, <3>7 DEF InStep, Bytes
    <3>9. QED
      BY <3>2, <3>8
  <2>5. QED
    BY <1>1, <2>3, <2>4
<1>11. QED
  BY <1>1, <1>9, <1>10

LEMMA LowCall ==
    ASSUME Inv, Inv', Transfers, Tried, WritePort("main"), Kind("main") = "low"
    PROVE  Tried' /\ call'["main"] \in 1..8
<1> DEFINE j == step["main"]
<1>1. /\ Busy("main")' /\ Busy("main") /\ Advance("main") /\ "main" \in Threads
      /\ call["main"] = 4 /\ j \in 1..3
  <2>1. "main" \in Threads /\ call["main"] = 4
    BY MainKindOf DEF Inv
  <2>2. j \in 1..3
    BY <2>1, StepNumbers DEF Inv, Shape, Placed
  <2>3. QED
    BY <2>1, <2>2, WritingGoesOn
<1>2. Sets(PinOf("main"), ValOf("main"))
  BY <1>1, StartTrusted, LineWrite
<1>3. ValOf("main") = LOW /\ PinOf("main") = CASE j = 1 -> RS [] j = 2 -> EN [] OTHER -> RW
  BY DEF ValOf, PinOf, PinAt
<1>4. /\ RS \in latch' => RS \in latch /\ j # 1
      /\ EN \in latch' => EN \in latch /\ j # 2
      /\ RW \in latch' => RW \in latch /\ j # 3
  BY <1>1, <1>2, <1>3, LinePins, ModesDiffer DEF Sets
<1>5. (j >= 2 => RS \notin latch) /\ (j >= 3 => EN \notin latch)
  BY DEF Tried
<1>6. CASE j < 3
  <2>1. call'["main"] = 4 /\ step'["main"] = j + 1 /\ Kind("main")' = "low"
    BY <1>1, <1>6, StepNumbers, Onward DEF Inv
  <2>2. QED
    BY <1>1, <1>4, <1>5, <2>1 DEF Tried
<1>7. CASE j = 3
  <2>1. call'["main"] = 5 /\ step'["main"] = 1
    BY <1>1, <1>7, StepNumbers, Onward DEF Inv, LastCall
  <2>2. Kind("main")' = "nibble"
    BY <2>1 DEF Kind, MainKind
  <2>3. Carry(Nib("main"), step["main"] - 1)'
    BY <2>1 DEF Carry
  <2>4. QED
    BY <1>4, <1>5, <1>7, <2>1, <2>2, <2>3 DEF Tried
<1>8. QED
  BY <1>1, <1>6, <1>7

-----------------------------------------------------------------------------
(* BytesInv is inductive: the LCD is in step with what is sent.            *)

Speaker == IF Busy("main") THEN "main" ELSE "updater"

\* The byte of a call, and that it is the one the LCD is to receive next.
LEMMA ByteOfCall ==
    ASSUME Inv, FrameExpected, NEW t \in Threads, Kind(t) \in Bytes
    PROVE  /\ t \in {"main", "updater"} /\ step[t] \in 1..16
           /\ Value(t) \in 0..255 /\ Mode(t) \in {LOW, HIGH}
           /\ Mode(t) = LOW => Value(t) \div 16 # 3
           /\ Received(t) < Len(expected) /\ expected[Received(t) + 1] = <<Mode(t), Value(t)>>
<1>1. t \in {"main", "updater"} /\ Busy(t)
  BY KindsOf DEF Inv, Bytes
<1>2. step[t] \in 1..16
  BY StepNumbers DEF Inv, Shape, Placed, Bytes
<1>3. CASE t = "main"
  <2>1. Kind(t) = "command" /\ call[t] \in 9..15 /\ Mode(t) = LOW /\ Value(t) = StartCommands[call[t] - 8]
    BY <1>3, MainKindOf DEF Inv, Bytes, Mode, Value
  <2>2. /\ expected = StartBytes /\ Len(expected) = 7 /\ Received(t) = call[t] - 9
    BY <1>1, <1>3, <2>1, BytesTyped DEF Inv, StartAlone, Received
  <2>3. PICK i \in 1..7 : i = call[t] - 8
    BY <2>1
  <2>4. /\ StartCommands[i] \in {40, 12, 1, 6, 128}
        /\ StartBytes[i] = <<LOW, StartCommands[i]>>
    BY DEF StartCommands, StartBytes, CursorAddress
  <2>5. \A v \in {40, 12, 1, 6, 128} : v \in 0..255 /\ v \div 16 # 3
    OBVIOUS
  <2>6. Received(t) + 1 = i /\ Received(t) < Len(expected)
    BY <2>1, <2>2, <2>3
  <2>7. QED
    BY <1>1, <1>2, <2>1, <2>2, <2>3, <2>4, <2>5, <2>6
<1>4. CASE t = "updater"
  <2>1. /\ call[t] \in 1..(Row1 + Row2 + 6) /\ call[t] # 0 /\ Kind(t) = UpdaterKind(call[t])
        /\ Value(t) = RowValue(call[t])
    BY <1>1, <1>4, RowLengths DEF Inv, Shape, Placed, LastCall, Kind, Busy, Value
  <2>2. /\ Len(FrameBytes) <= Len(expected)
        /\ \A i \in 1..Len(FrameBytes) : expected[Len(expected) - Len(FrameBytes) + i] = FrameBytes[i]
    BY <1>1, <1>4 DEF FrameExpected
  <2>3. /\ Before(call[t]) \in Nat /\ Before(call[t]) + 1 <= Len(FrameBytes)
        /\ RowValue(call[t]) \in 0..255 /\ (Kind(t) = "command" => RowValue(call[t]) \in {128, 192})
        /\ FrameBytes[Before(call[t]) + 1] = <<IF Kind(t) = "char" THEN HIGH ELSE LOW, RowValue(call[t])>>
    BY <2>1, FrameCalls
  <2>4. Len(expected) \in Nat /\ Len(FrameBytes) \in Nat
    BY BytesTyped DEF Inv, Shape, HistoryType
  <2>5. Received(t) = Len(expected) - Len(FrameBytes) + Before(call[t])
    BY <1>4, <2>1 DEF Received
  <2>6. Received(t) < Len(expected) /\ expected[Received(t) + 1] = FrameBytes[Before(call[t]) + 1]
    <3>1. Before(call[t]) + 1 \in 1..Len(FrameBytes)
      BY <2>3, <2>4
    <3>2. Received(t) + 1 = Len(expected) - Len(FrameBytes) + (Before(call[t]) + 1)
      BY <2>3, <2>4, <2>5
    <3>3. QED
      BY <2>2, <2>3, <2>4, <2>5, <3>1, <3>2
  <2>7. Mode(t) = (IF Kind(t) = "char" THEN HIGH ELSE LOW)
    BY DEF Mode
  <2>8. 128 \div 16 # 3 /\ 192 \div 16 # 3
    OBVIOUS
  <2>9. Mode(t) = LOW => Value(t) \div 16 # 3
    <3>1. SUFFICES ASSUME Mode(t) = LOW PROVE Value(t) \div 16 # 3
      OBVIOUS
    <3>2. Kind(t) = "command"
      BY <2>7, <3>1, ModesDiffer DEF Bytes
    <3>3. Value(t) \in {128, 192}
      BY <2>1, <2>3, <3>2
    <3>4. QED
      BY <2>8, <3>3
  <2>10. QED
    BY <1>1, <1>2, <2>1, <2>3, <2>6, <2>7, <2>9
<1>5. QED
  BY <1>1, <1>3, <1>4

\* Each call of a byte brings one byte more, the others none.
LEMMA ReceivedNext ==
    ASSUME Inv, NEW t \in {"main", "updater"}, Busy(t), t = "main" => call[t] \in 9..17,
           call'[t] = (IF call[t] = LastCall(t) THEN 0 ELSE call[t] + 1), expected' = expected
    PROVE  Received(t)' = Received(t) + IF Kind(t) \in Bytes THEN 1 ELSE 0
<1>1. CASE t = "main"
  <2>1. call'[t] = call[t] + 1 /\ (Kind(t) \in Bytes <=> call[t] \in 9..15)
    BY <1>1, MainKindOf DEF Inv, LastCall, Bytes
  <2>2. CASE call[t] \in 9..14
    BY <1>1, <2>1, <2>2 DEF Received
  <2>3. CASE call[t] = 15
    BY <1>1, <2>1, <2>3 DEF Received
  <2>4. CASE call[t] \in 16..17
    BY <1>1, <2>1, <2>4 DEF Received
  <2>5. QED
    BY <1>1, <2>2, <2>3, <2>4
<1>2. CASE t = "updater"
  <2>1. /\ call[t] \in 1..(Row1 + Row2 + 6) /\ call[t] # 0 /\ Kind(t) = UpdaterKind(call[t])
        /\ LastCall(t) = Row1 + Row2 + 6 /\ "updater" # "main"
    BY <1>2, RowLengths DEF Inv, Shape, Placed, LastCall, Kind, Busy, Threads
  <2>2. Received(t) = Len(expected) - Len(FrameBytes) + Before(call[t])
    BY <1>2, <2>1 DEF Received
  <2>3. Len(expected) \in Nat /\ Len(FrameBytes) = Row1 + Row2 + 2 /\ Row1 \in Nat /\ Row2 \in Nat
    BY FrameOrder, RowLengths DEF Inv, Shape, HistoryType
  <2>4. Before(call[t]) \in Nat
    BY <2>1, FrameCalls
  <2>5. CASE call[t] = Row1 + Row2 + 6
    <3>1. call'[t] = 0 /\ Received(t)' = Len(expected)
      BY <1>2, <2>1, <2>5 DEF Received
    <3>2. Before(call[t]) = Row1 + Row2 + 2
      BY <2>3, <2>5 DEF Before
    <3>3. UpdaterKind(call[t]) = "unlock"
      BY <2>3, <2>5 DEF UpdaterKind
    <3>4. QED
      BY <2>1, <2>2, <2>3, <3>1, <3>2, <3>3 DEF Bytes
  <2>6. CASE call[t] # Row1 + Row2 + 6
    <3>1. call'[t] = call[t] + 1 /\ call'[t] # 0
      BY <2>1, <2>6
    <3>2. Received(t)' = Len(expected) - Len(FrameBytes) + Before(call[t] + 1)
      BY <1>2, <2>1, <3>1 DEF Received
    <3>3. Before(call[t] + 1) = Before(call[t]) + IF Kind(t) \in Bytes THEN 1 ELSE 0
      BY <2>1, <2>6, FrameCalls
    <3>4. QED
      BY <2>2, <2>3, <2>4, <3>2, <3>3
  <2>7. QED
    BY <2>5, <2>6
<1>3. QED
  BY <1>1, <1>2

\* A step that touches neither the lines nor the thread that uses them.
LEMMA InStepKept ==
    ASSUME NEW t \in {"main", "updater"}, InStep(t),
           call'[t] = call[t], step'[t] = step[t], expected' = expected,
           UNCHANGED <<width, half, got, intact>>, \A q \in 9..15 : q \in latch' <=> q \in latch
    PROVE  InStep(t)'
<1>1. Kind(t)' = Kind(t) /\ Value(t)' = Value(t) /\ Mode(t)' = Mode(t) /\ Received(t)' = Received(t)
  BY DEF Kind, Value, Mode, Received
<1>2. /\ EN \in latch' <=> EN \in latch
      /\ RS \in latch' <=> RS \in latch
      /\ RW \in latch' <=> RW \in latch
      /\ \A i \in 0..3 : DataPin(i) \in latch' <=> DataPin(i) \in latch
  BY LinePins
<1>3. ASSUME NEW v, NEW m, NEW j, Sending(v, m, j)
      PROVE  /\ EN \in latch' <=> j \in {9, 16}
             /\ j >= 2 => (RS \in latch' <=> m = HIGH)
             /\ j >= 3 => RW \notin latch'
             /\ j <= 9 => half' = {} /\ \A i \in 0..3 : i < j - 3 => (DataPin(i) \in latch' <=> Bit(v \div 16, i) = 1)
             /\ j >= 10 => half' = {v \div 16} /\ \A i \in 0..3 : i < j - 10 => (DataPin(i) \in latch' <=> Bit(v % 16, i) = 1)
  BY <1>2, <1>3 DEF Sending, Carry
<1>4. CASE Kind(t) \in Bytes
  <2>1. Sending(Value(t), Mode(t), step[t])
    BY <1>4 DEF InStep
  <2>2. PICK v, m, j : v = Value(t) /\ m = Mode(t) /\ j = step[t]
    OBVIOUS
  <2>3. /\ EN \in latch' <=> j \in {9, 16}
        /\ j >= 2 => (RS \in latch' <=> m = HIGH)
        /\ j >= 3 => RW \notin latch'
        /\ j <= 9 => half' = {} /\ \A i \in 0..3 : i < j - 3 => (DataPin(i) \in latch' <=> Bit(v \div 16, i) = 1)
        /\ j >= 10 => half' = {v \div 16} /\ \A i \in 0..3 : i < j - 10 => (DataPin(i) \in latch' <=> Bit(v % 16, i) = 1)
    BY <1>3, <2>1, <2>2
  <2>4. Value(t)' = v /\ Mode(t)' = m /\ step'[t] = j
    BY <1>1, <2>2
  <2>5. Sending(Value(t), Mode(t), step[t])'
    BY <2>3, <2>4 DEF Sending, Carry
  <2>6. QED
    BY <1>1, <1>4, <2>5 DEF InStep
<1>5. CASE Kind(t) \notin Bytes
  BY <1>1, <1>2, <1>5 DEF InStep, Quiet
<1>6. QED
  BY <1>4, <1>5

\* In front of a call, with the lines at rest, whatever it is.
LEMMA InStepBegins ==
    ASSUME NEW t, width' = 4, intact' = TRUE, got' = Received(t)', step'[t] = 1, EN \notin latch', half' = {}
    PROVE  InStep(t)'
<1>1. Quiet'
  BY DEF Quiet
<1>2. Sending(Value(t), Mode(t), step[t])'
  BY DEF Sending, Carry
<1>3. QED
  BY <1>1, <1>2 DEF InStep

LEMMA TriedKept ==
    ASSUME Tried, call'["main"] = call["main"], step'["main"] = step["main"], width' = width, half' = half,
           \A q \in 9..15 : q \in latch' <=> q \in latch
    PROVE  Tried'
<1>1. Kind("main")' = Kind("main") /\ Nib("main")' = Nib("main")
  BY DEF Kind, Nib
<1>2. /\ EN \in latch' <=> EN \in latch
      /\ RS \in latch' <=> RS \in latch
      /\ RW \in latch' <=> RW \in latch
      /\ \A i \in 0..3 : DataPin(i) \in latch' <=> DataPin(i) \in latch
  BY LinePins
<1>3. ASSUME Carry(Nib("main"), step["main"] - 1) PROVE Carry(Nib("main"), step["main"] - 1)'
  BY <1>1, <1>2, <1>3 DEF Carry
<1>4. QED
  BY <1>1, <1>2, <1>3 DEF Tried

\* Outside its nibbles and its first call the main thread has nothing to keep.
LEMMA TriedElsewhere == Kind("main")' \notin {"low", "nibble"} => Tried'
BY DEF Tried

LEMMA FrameKept ==
    ASSUME FrameExpected, expected' = expected, Busy("updater")' => Busy("updater")
    PROVE  FrameExpected'
BY DEF FrameExpected

\* The mutex moves: the LCD sees nothing of it.
LEMMA MutexStepBytes ==
    ASSUME Inv, Inv', BytesInv, NEW t \in Threads, TakeMutex(t) \/ DropMutex(t)
    PROVE  BytesInv'
<1>1. /\ Busy(t) /\ Op(t).op \in {"lock", "unlock"} /\ Advance(t)
      /\ UNCHANGED <<lcd, expected, raced, failed>>
  BY DEF TakeMutex, DropMutex
<1>2. Kind(t) \in {"lock", "unlock"} /\ step[t] = Steps(Kind(t))
  <2>1. Kind(t) \in {"lock", "unlock"}
    BY <1>1, OpKind DEF Inv
  <2>2. QED
    BY <2>1, StepNumbers DEF Inv, Shape, Placed
<1>3. /\ step'[t] = 1 /\ call'[t] = (IF call[t] = LastCall(t) THEN 0 ELSE call[t] + 1)
      /\ Kind(t)' \in After(Kind(t))
  BY <1>1, <1>2, Onward DEF Inv
<1>4. \A u \in Threads \ {t} : call'[u] = call[u] /\ step'[u] = step[u]
  BY <1>1, OthersStay DEF Inv
<1>5. UNCHANGED <<latch, width, half, got, intact>> /\ (Trusted(PortB)' <=> Trusted(PortB))
      /\ "main" \in Threads /\ "updater" \in Threads
  BY <1>1 DEF lcd, Trusted, Threads
<1>6. FrameExpected'
  <2>1. Busy("updater")' => Busy("updater")
    BY <1>1, <1>4, <1>5 DEF Busy
  <2>2. QED
    BY <1>1, <2>1, FrameKept DEF BytesInv
<1>7. Tried'
  <2>1. CASE t = "main"
    <3>1. call'["main"] \in {0, 2, 4, 17} /\ step'["main"] = 1
      BY <1>2, <1>3, <2>1, MainKindOf DEF Inv, LastCall
    <3>2. Kind("main")' # "nibble"
      BY <3>1 DEF Kind, MainKind
    <3>3. QED
      BY <3>1, <3>2 DEF Tried
  <2>2. CASE t # "main"
    BY <1>4, <1>5, <2>2, TriedKept DEF BytesInv
  <2>3. QED
    BY <2>1, <2>2
<1>8. ASSUME Trusted(PortB)', call'["main"] \notin 1..8 PROVE InStep(Speaker)'
  <2>1. CASE t \notin {"main", "updater"}
    <3>1. /\ call'["main"] = call["main"] /\ step'["main"] = step["main"]
          /\ call'["updater"] = call["updater"] /\ step'["updater"] = step["updater"]
      BY <1>4, <1>5, <2>1
    <3>2. CASE Busy("main")
      <4>1. InStep("main")
        BY <1>5, <1>8, <3>1, <3>2 DEF BytesInv
      <4>2. InStep("main")'
        BY <1>1, <1>5, <3>1, <4>1, InStepKept
      <4>3. QED
        BY <3>1, <3>2, <4>2 DEF Speaker, Busy
    <3>3. CASE ~Busy("main")
      <4>1. InStep("updater")
        BY <1>5, <1>8, <3>1, <3>3 DEF BytesInv
      <4>2. InStep("updater")'
        BY <1>1, <1>5, <3>1, <4>1, InStepKept
      <4>3. QED
        BY <3>1, <3>3, <4>2 DEF Speaker, Busy
    <3>4. QED
      BY <3>2, <3>3
  <2>2. CASE t = "updater"
    <3>1. ~Busy("main") /\ ~Busy("main")'
      BY <1>1, <1>4, <1>5, <2>2, OnlyMainSteps DEF Busy
    <3>2. InStep("updater") /\ Kind("updater") \notin Bytes
      BY <1>2, <1>4, <1>5, <1>8, <2>2, <3>1 DEF BytesInv, Bytes
    <3>3. width = 4 /\ intact /\ got = Received("updater") /\ EN \notin latch /\ half = {}
      BY <3>2 DEF InStep, Quiet
    <3>4. Received("updater")' = Received("updater")
      <4>1. Received("updater")' = Received("updater") + 0
        BY <1>1, <1>3, <2>2, <3>2, ReceivedNext
      <4>2. got \in Int
        BY BytesTyped DEF Inv, Shape, LcdType
      <4>3. QED
        BY <3>3, <4>1, <4>2
    <3>5. InStep("updater")'
      <4>1. intact = TRUE
        BY <3>3 DEF Inv, Shape, LcdType
      <4>2. QED
        BY <1>3, <1>5, <2>2, <3>3, <3>4, <4>1, InStepBegins
    <3>6. QED
      BY <3>1, <3>5 DEF Speaker
  <2>3. CASE t = "main"
    <3>1. call["main"] \in {16, 18} /\ call'["main"] = IF call["main"] = 16 THEN 17 ELSE 0
      BY <1>2, <1>3, <1>8, <2>3, MainKindOf DEF Inv, LastCall
    <3>2. InStep("main") /\ Kind("main") \notin Bytes
      BY <1>1, <1>2, <1>5, <1>8, <2>3, <3>1 DEF BytesInv, Bytes
    <3>3. width = 4 /\ intact = TRUE /\ got = 7 /\ EN \notin latch /\ half = {}
      BY <3>1, <3>2 DEF InStep, Quiet, Received, Inv, Shape, LcdType
    <3>4. CASE call["main"] = 16
      <4>1. call'["main"] = 17 /\ Busy("main")'
        BY <3>1, <3>4 DEF Busy
      <4>2. Received("main")' = 7
        BY <4>1 DEF Received
      <4>3. InStep("main")'
        BY <1>3, <1>5, <2>3, <3>3, <4>2, InStepBegins
      <4>4. QED
        BY <4>1, <4>3 DEF Speaker
    <3>5. CASE call["main"] = 18
      <4>1. call'["main"] = 0 /\ ~Busy("main")'
        BY <3>1, <3>5 DEF Busy
      <4>2. /\ call["updater"] = 0 /\ call'["updater"] = 0 /\ step'["updater"] = step["updater"]
            /\ expected' = StartBytes
        BY <1>1, <1>4, <1>5, <2>3 DEF Inv, StartAlone
      <4>3. Received("updater")' = 7
        BY <4>2, BytesTyped DEF Received
      <4>4. Kind("updater")' = "none"
        BY <4>2, RowLengths DEF Kind, UpdaterKind
      <4>5. InStep("updater")'
        BY <1>5, <3>3, <4>3, <4>4 DEF InStep, Quiet, Bytes
      <4>6. QED
        BY <4>1, <4>5 DEF Speaker
    <3>6. QED
      BY <3>1, <3>4, <3>5
  <2>4. QED
    BY <2>1, <2>2, <2>3
<1>9. QED
  BY <1>6, <1>7, <1>8 DEF BytesInv, Speaker

\* A step that leaves the LCD, its lines and both its threads alone.
LEMMA BytesKept ==
    ASSUME BytesInv, expected' = expected, Trusted(PortB)' => Trusted(PortB),
           \A t \in {"main", "updater"} : call'[t] = call[t] /\ step'[t] = step[t],
           Tried', Trusted(PortB)' => /\ UNCHANGED <<width, half, got, intact>>
                                      /\ \A q \in 9..15 : q \in latch' <=> q \in latch
    PROVE  BytesInv'
<1>1. FrameExpected'
  BY FrameKept DEF BytesInv, Busy
<1>2. Speaker' = Speaker /\ Speaker \in {"main", "updater"}
  BY DEF Speaker, Busy
<1>3. ASSUME Trusted(PortB)', call'["main"] \notin 1..8 PROVE InStep(Speaker)'
  <2>1. ASSUME NEW t \in {"main", "updater"}, InStep(t) PROVE InStep(t)'
    BY <1>3, <2>1, InStepKept
  <2>2. InStep(Speaker)
    BY <1>3 DEF BytesInv, Speaker
  <2>3. CASE Busy("main")
    BY <2>1, <2>2, <2>3 DEF Speaker, Busy
  <2>4. CASE ~Busy("main")
    BY <2>1, <2>2, <2>4 DEF Speaker, Busy
  <2>5. QED
    BY <2>3, <2>4
<1>4. QED
  BY <1>1, <1>3 DEF BytesInv, Speaker

LEMMA ReadBytes == ASSUME Inv, BytesInv, NEW t \in Threads, ReadPort(t) PROVE BytesInv'
<1>1. UNCHANGED <<call, step, latch, width, half, got, intact, expected>>
      /\ (raced => raced') /\ failed \subseteq failed'
  BY DEF ReadPort, lcd
<1>2. Trusted(PortB)' => Trusted(PortB)
  BY <1>1 DEF Trusted
<1>3. Tried'
  BY <1>1, TriedKept DEF BytesInv
<1>4. QED
  BY <1>1, <1>2, <1>3, BytesKept

\* The lights: other pins of the same port.
LEMMA LightsWriteListen ==
    ASSUME Inv, Transfers, NEW t \in Threads, WritePort(t), Kind(t) = "lights", Trusted(PortB)'
    PROVE  /\ UNCHANGED <<width, half, got, intact>>
           /\ \A q \in 9..15 : q \in latch' <=> q \in latch
<1>1. Kind(t) \in Driving /\ failed \subseteq failed' /\ raced' = raced
  BY WriteEffect DEF Inv, WritePort
<1>2. PinOf(t) \notin 9..15 /\ Port(PinOf(t)) \in {PortA, PortB} /\ (Trusted(PortB) /\ PortB \notin failed')
  BY <1>1, PinRange DEF Inv, Trusted
<1>3. \A q \in 9..15 : q \in latch' <=> q \in latch
  <2>1. CASE Port(PinOf(t)) = PortB
    <3>1. \A q \in 0..15 : q \in latch' <=> IF q = PinOf(t) THEN ValOf(t) = HIGH ELSE q \in latch
      BY <1>2, <2>1, EffectiveWrite
    <3>2. \A q \in 9..15 : q \in 0..15 /\ q # PinOf(t)
      BY <1>2
    <3>3. QED
      BY <3>1, <3>2
  <2>2. CASE Port(PinOf(t)) = PortA
    <3>1. latch' \cap PortB = latch \cap PortB
      BY <2>2, PortsDiffer, WriteOwnPort
    <3>2. \A q \in 9..15 : q \in PortB
      BY DEF PortB
    <3>3. QED
      BY <3>1, <3>2
  <2>3. QED
    BY <1>2, <2>1, <2>2
<1>4. Listen(latch') \/ UNCHANGED lcd
  BY WriteEffect DEF Inv
<1>5. EN \in latch' <=> EN \in latch
  BY <1>3, LinePins
<1>6. UNCHANGED <<width, half, got, intact>>
  BY <1>4, <1>5 DEF Listen, lcd
<1>7. QED
  BY <1>3, <1>6

LEMMA LightsWriteBytes ==
    ASSUME Inv, Inv', Transfers, BytesInv, NEW t \in Threads, WritePort(t), Kind(t) = "lights"
    PROVE  BytesInv'
<1>1. /\ Busy(t) /\ Busy(t)' /\ Advance(t) /\ t # "updater" /\ expected' = expected
      /\ failed \subseteq failed' /\ raced' = raced
  BY WritingGoesOn, WriteEffect, KindsOf DEF Inv, WritePort
<1>2. Trusted(PortB)' => Trusted(PortB)
  BY <1>1 DEF Trusted
<1>3. \A u \in Threads \ {t} : call'[u] = call[u] /\ step'[u] = step[u] /\ Kind(u)' = Kind(u)
  BY <1>1, OthersStay DEF Inv
<1>4. Trusted(PortB)' => /\ UNCHANGED <<width, half, got, intact>>
                         /\ \A q \in 9..15 : q \in latch' <=> q \in latch
  BY LightsWriteListen
<1>5. "main" \in Threads /\ "updater" \in Threads
  BY DEF Threads
<1>6. CASE t # "main"
  <2>1. \A u \in {"main", "updater"} : call'[u] = call[u] /\ step'[u] = step[u]
    BY <1>1, <1>3, <1>5, <1>6
  <2>2. ~Busy("main")
    BY <1>1, <1>6, OnlyMainSteps
  <2>3. Kind("main")' \notin {"low", "nibble"}
    <3>1. Kind("main") = "none"
      BY <1>5, <2>2, KindsOf DEF Inv
    <3>2. QED
      BY <1>3, <1>5, <1>6, <3>1
  <2>4. Tried'
    BY <2>3, TriedElsewhere
  <2>5. QED
    BY <1>1, <1>2, <1>4, <2>1, <2>4, BytesKept
<1>7. CASE t = "main"
  <2>1. step[t] \in Nat /\ step[t] <= Steps(Kind(t)) /\ Steps(Kind(t)) \in Nat
    BY StepsPositive DEF Inv, Shape, Placed
  <2>2. \/ call'[t] = call[t] /\ Kind(t)' = "lights"
        \/ call'[t] = call[t] + 1 /\ Kind(t)' = "unlock" /\ step'[t] = 1
    <3>1. CASE step[t] < Steps(Kind(t))
      BY <1>1, <3>1, Onward DEF Inv
    <3>2. CASE step[t] = Steps(Kind(t))
      <4>1. call[t] # LastCall(t)
        BY <1>7, MainKindOf DEF LastCall, Inv
      <4>2. QED
        BY <1>1, <3>2, <4>1, Onward DEF Inv, After
    <3>3. QED
      BY <2>1, <3>1, <3>2
  <2>3. Tried'
    BY <1>7, <2>2, TriedElsewhere
  <2>4. FrameExpected'
    <3>1. Busy("updater")' => Busy("updater")
      BY <1>3, <1>5, <1>7 DEF Busy
    <3>2. QED
      BY <1>1, <3>1, FrameKept DEF BytesInv
  <2>5. ASSUME Trusted(PortB)', call'["main"] \notin 1..8 PROVE InStep("main")'
    <3>1. call["main"] = 17 /\ call'["main"] \in {17, 18}
      BY <1>7, <2>2, <2>5, MainKindOf DEF Inv
    <3>2. InStep("main")
      BY <1>1, <1>2, <1>7, <2>5, <3>1 DEF BytesInv
    <3>3. width = 4 /\ intact /\ got = 7 /\ EN \notin latch /\ half = {}
      BY <1>7, <3>1, <3>2 DEF InStep, Received, Bytes, Quiet
    <3>4. Received("main")' = 7 /\ EN \notin latch'
      BY <1>4, <2>5, <3>1, <3>3, LinePins DEF Received
    <3>5. QED
      BY <1>4, <1>7, <2>2, <2>5, <3>3, <3>4 DEF InStep, Bytes, Quiet
  <2>6. QED
    BY <1>1, <1>7, <2>3, <2>4, <2>5 DEF BytesInv
<1>8. QED
  BY <1>6, <1>7

\* An operation of CharLCD_send().
LEMMA SendWriteInStep ==
    ASSUME Inv, Transfers, FrameExpected, NEW t \in Threads, WritePort(t), Kind(t) \in Bytes,
           Trusted(PortB)', InStep(t), t = "main" => call[t] \in 9..15
    PROVE  InStep(t)'
<1>1. /\ t \in {"main", "updater"} /\ step[t] \in 1..16 /\ Value(t) \in 0..255 /\ Mode(t) \in {LOW, HIGH}
      /\ Mode(t) = LOW => Value(t) \div 16 # 3
      /\ Received(t) < Len(expected) /\ expected[Received(t) + 1] = <<Mode(t), Value(t)>>
  BY ByteOfCall
<1>2. /\ Busy(t) /\ Advance(t) /\ expected' = expected
  BY WritingGoesOn DEF WritePort
<1>3. PICK v \in 0..255, m \in {LOW, HIGH}, j \in 1..16, k \in Bytes :
         v = Value(t) /\ m = Mode(t) /\ j = step[t] /\ k = Kind(t)
  BY <1>1
<1>4. /\ width = 4 /\ intact /\ got = Received(t) /\ Sending(v, m, j) /\ (m = LOW => v \div 16 # 3)
      /\ Received(t) < Len(expected) /\ expected[Received(t) + 1] = <<m, v>>
  BY <1>1, <1>3 DEF InStep
<1>5. Sets(PinAt(k, j), SendVal(v, m, j)) /\ Listen(latch')
  <2>1. PinOf(t) = PinAt(k, j) /\ ValOf(t) = SendVal(v, m, j)
    BY <1>3 DEF PinOf, ValOf, Bytes
  <2>2. Kind(t) # "lights"
    BY DEF Bytes
  <2>3. QED
    BY <2>1, <2>2, LineWrite
<1>6. Steps(Kind(t)) = 16
  BY StepNumbers DEF Bytes
<1>7. j < 16 => width' = 4 /\ got' = got /\ intact' = intact
  BY <1>4, <1>5, SendKeeps
<1>8. j = 16 => width' = 4 /\ Receive(<<m, v>>)
  BY <1>4, <1>5, SendReceives
<1>9. /\ j < 16 => Sending(v, m, j + 1)'
      /\ j = 16 => Quiet'
  BY <1>4, <1>5, SendOnward
<1>10. CASE j < 16
  <2>1. call'[t] = call[t] /\ step'[t] = j + 1 /\ Kind(t)' = Kind(t)
    BY <1>2, <1>3, <1>6, <1>10, Onward DEF Inv
  <2>2. Value(t)' = v /\ Mode(t)' = m /\ Received(t)' = Received(t)
    BY <1>2, <1>3, <2>1 DEF Value, Mode, Received
  <2>3. Sending(Value(t), Mode(t), step[t])'
    BY <1>9, <1>10, <2>1, <2>2
  <2>4. intact' = intact /\ got' = got
    BY <1>7, <1>10
  <2>5. QED
    BY <1>4, <1>7, <1>10, <2>1, <2>2, <2>3, <2>4 DEF InStep
<1>11. CASE j = 16
  <2>1. step'[t] = 1 /\ call'[t] = (IF call[t] = LastCall(t) THEN 0 ELSE call[t] + 1)
    <3>1. step[t] = Steps(Kind(t))
      BY <1>3, <1>6, <1>11
    <3>2. QED
      BY <1>2, <3>1, Onward DEF Inv
  <2>2. Received(t)' = Received(t) + 1
    <3>1. t = "main" => call[t] \in 9..17
      OBVIOUS
    <3>2. QED
      BY <1>1, <1>2, <2>1, <3>1, ReceivedNext
  <2>3. got' = got + 1 /\ intact' = TRUE
    BY <1>4, <1>8, <1>11 DEF Receive
  <2>4. Quiet'
    BY <1>9, <1>11
  <2>5. QED
    BY <1>8, <1>11, <2>1, <2>2, <2>3, <2>4, <1>4, InStepBegins DEF Quiet
<1>12. QED
  BY <1>10, <1>11

LEMMA SendWriteBytes ==
    ASSUME Inv, Inv', Transfers, BytesInv, NEW t \in Threads, WritePort(t), Kind(t) \in Bytes
    PROVE  BytesInv'
<1>1. /\ Busy(t) /\ Busy(t)' /\ Advance(t) /\ t \in {"main", "updater"} /\ expected' = expected
      /\ failed \subseteq failed' /\ raced' = raced
  BY WritingGoesOn, WriteEffect, KindsOf DEF Inv, WritePort, Bytes
<1>2. Trusted(PortB)' => Trusted(PortB)
  BY <1>1 DEF Trusted
<1>3. \A u \in Threads \ {t} : call'[u] = call[u] /\ step'[u] = step[u] /\ Kind(u)' = Kind(u)
  BY <1>1, OthersStay DEF Inv
<1>4. "main" \in Threads /\ "updater" \in Threads
  BY DEF Threads
<1>5. FrameExpected'
  <2>1. Busy("updater")' => Busy("updater")
    BY <1>1, <1>3, <1>4 DEF Busy
  <2>2. QED
    BY <1>1, <2>1, FrameKept DEF BytesInv
<1>6. CASE t = "main"
  <2>1. call["main"] \in 9..15 /\ Kind("main") = "command"
    BY <1>6, MainKindOf DEF Inv, Bytes
  <2>2. Tried'
    <3>1. step[t] \in Nat /\ step[t] <= Steps(Kind(t)) /\ Steps(Kind(t)) \in Nat
      BY StepsPositive DEF Inv, Shape, Placed
    <3>2. CASE step[t] < Steps(Kind(t))
      <4>1. Kind(t)' = "command"
        BY <1>1, <1>6, <2>1, <3>2, Onward DEF Inv
      <4>2. QED
        BY <1>6, <4>1, TriedElsewhere
    <3>3. CASE step[t] = Steps(Kind(t))
      <4>1. Kind(t)' \in {"command", "lock"}
        BY <1>1, <1>6, <2>1, <3>3, Onward DEF Inv, After
      <4>2. QED
        BY <1>6, <4>1, TriedElsewhere
    <3>4. QED
      BY <3>1, <3>2, <3>3
  <2>3. ASSUME Trusted(PortB)' PROVE InStep("main")'
    <3>1. InStep("main")
      BY <1>1, <1>2, <1>6, <2>1, <2>3 DEF BytesInv
    <3>2. QED
      BY <1>6, <2>1, <2>3, <3>1, SendWriteInStep DEF BytesInv
  <2>4. QED
    BY <1>1, <1>5, <1>6, <2>2, <2>3 DEF BytesInv
<1>7. CASE t = "updater"
  <2>1. ~Busy("main") /\ ~Busy("main")' /\ t # "main"
    BY <1>1, <1>3, <1>4, <1>7, OnlyMainSteps DEF Busy
  <2>2. Tried'
    <3>1. Kind("main") = "none"
      BY <1>4, <2>1, KindsOf DEF Inv
    <3>2. Kind("main")' = "none"
      BY <1>3, <1>4, <2>1, <3>1
    <3>3. QED
      BY <3>2, TriedElsewhere
  <2>3. ASSUME Trusted(PortB)' PROVE InStep("updater")'
    <3>1. InStep("updater")
      BY <1>2, <2>1, <2>3 DEF BytesInv, Busy
    <3>2. QED
      BY <1>7, <2>1, <2>3, <3>1, SendWriteInStep DEF BytesInv
  <2>4. QED
    BY <1>5, <2>1, <2>2, <2>3 DEF BytesInv
<1>8. QED
  BY <1>1, <1>6, <1>7

LEMMA WriteBytes ==
    ASSUME Inv, Inv', Transfers, BytesInv, NEW t \in Threads, WritePort(t) PROVE BytesInv'
<1>1. Kind(t) \in Driving /\ Busy(t) /\ Busy(t)' /\ Advance(t) /\ expected' = expected
  BY WritingGoesOn DEF WritePort
<1>2. CASE Kind(t) = "lights"
  BY <1>2, LightsWriteBytes
<1>3. CASE Kind(t) \in Bytes
  BY <1>3, SendWriteBytes
<1>4. CASE Kind(t) \in {"low", "nibble"}
  <2>1. t = "main" /\ "updater" \in Threads /\ "updater" # "main"
    BY <1>4, KindsOf DEF Inv, Threads
  <2>2. FrameExpected'
    <3>1. Busy("updater")' => Busy("updater")
      BY <1>1, <2>1, OthersStay DEF Inv, Busy
    <3>2. QED
      BY <1>1, <3>1, FrameKept DEF BytesInv
  <2>3. Tried' /\ (call'["main"] \notin 1..8 => InStep("main")')
    BY <1>4, <2>1, NibbleCall, LowCall DEF BytesInv
  <2>4. QED
    BY <1>1, <2>1, <2>2, <2>3 DEF BytesInv
<1>5. QED
  BY <1>1, <1>2, <1>3, <1>4 DEF Driving, Bytes

\* A frame is expected, and the updater in front of its first byte.
LEMMA StartDrawBytes == ASSUME Inv, Inv', BytesInv, StartDraw PROVE BytesInv'
<1>1. /\ ~Busy("main") /\ ~Busy("updater") /\ call' = [call EXCEPT !["updater"] = 1]
      /\ expected' = expected \o FrameBytes
      /\ UNCHANGED <<step, lcd, raced, failed>>
  BY DEF StartDraw
<1>2. /\ "updater" \in Threads /\ call'["updater"] = 1 /\ call'["main"] = 0 /\ call["updater"] = 0
      /\ call["main"] = 0
  BY <1>1 DEF Inv, Shape, Placed, Threads, Busy
<1>3. /\ Len(expected) \in Nat /\ Len(FrameBytes) \in Nat /\ Len(expected') = Len(expected) + Len(FrameBytes)
      /\ \A i \in 1..Len(FrameBytes) : expected'[i + Len(expected)] = FrameBytes[i]
  <2>1. expected \in Seq({LOW, HIGH} \X (0..255)) /\ FrameBytes \in Seq({LOW, HIGH} \X (0..255))
    BY BytesTyped DEF Inv, Shape, HistoryType
  <2>2. QED
    BY <1>1, <2>1, Joined
<1>4. FrameExpected'
  <2>1. \A i \in 1..Len(FrameBytes) : Len(expected') - Len(FrameBytes) + i = i + Len(expected)
    BY <1>3
  <2>2. Len(FrameBytes) <= Len(expected')
    BY <1>3
  <2>3. QED
    BY <1>3, <2>1, <2>2 DEF FrameExpected
<1>5. Tried'
  <2>1. Kind("main")' = "none"
    BY <1>2 DEF Kind, MainKind
  <2>2. QED
    BY <2>1, TriedElsewhere
<1>6. ASSUME Trusted(PortB)' PROVE InStep("updater")'
  <2>1. Trusted(PortB)
    BY <1>1, <1>6 DEF Trusted
  <2>2. InStep("updater")
    BY <1>1, <1>2, <2>1 DEF BytesInv
  <2>3. Kind("updater") = "none" /\ step["updater"] = 1
    <3>1. Kind("updater") = "none"
      BY <1>1, <1>2, KindsOf DEF Inv
    <3>2. QED
      BY <1>2, <3>1, StepNumbers DEF Inv, Shape, Placed
  <2>4. width = 4 /\ intact = TRUE /\ got = Len(expected) /\ EN \notin latch /\ half = {}
    BY <1>2, <2>2, <2>3 DEF InStep, Quiet, Bytes, Received, Inv, Shape, LcdType
  <2>5. Received("updater")' = Len(expected)
    <3>1. Before(1) = 0
      BY RowLengths DEF Before
    <3>2. Received("updater")' = Len(expected') - Len(FrameBytes) + Before(call'["updater"])
      BY <1>2 DEF Received
    <3>3. QED
      BY <1>2, <1>3, <3>1, <3>2
  <2>6. QED
    BY <1>1, <2>3, <2>4, <2>5, InStepBegins DEF lcd
<1>7. QED
  BY <1>2, <1>4, <1>5, <1>6 DEF BytesInv, Busy

LEMMA BacklightBytes == ASSUME Inv, BytesInv, NEW t \in Clients, Backlight(t) PROVE BytesInv'
<1>1. /\ UNCHANGED <<step, lcd, expected, raced, failed>>
      /\ \A u \in Threads \ {t} : call'[u] = call[u]
  BY DEF Backlight, Begin, LoadClr, StoreClr, ChooseColour, Inv, Shape, Placed
<1>2. \A u \in {"main", "updater"} : call'[u] = call[u] /\ step'[u] = step[u]
  BY <1>1, ClientsApart DEF Threads
<1>3. UNCHANGED <<latch, width, half, got, intact>> /\ (Trusted(PortB)' => Trusted(PortB))
  BY <1>1 DEF lcd, Trusted
<1>4. Tried'
  BY <1>2, <1>3, TriedKept DEF BytesInv
<1>5. QED
  BY <1>1, <1>2, <1>3, <1>4, BytesKept

LEMMA RestartBytes == ASSUME Restart PROVE BytesInv'
<1>1. call'["main"] = 1 /\ call'["updater"] = 0 /\ Kind("main")' = "lock"
  BY LaunchedKinds DEF Restart, OnlyMain, Threads
<1>2. QED
  BY <1>1 DEF BytesInv, FrameExpected, Tried, Busy

LEMMA InitBytes == ASSUME Init PROVE BytesInv
<1>1. call["main"] = 1 /\ call["updater"] = 0 /\ Kind("main") = "lock"
  BY DEF Init, OnlyMain, Threads, Kind, MainKind
<1>2. QED
  BY <1>1 DEF BytesInv, FrameExpected, Tried, Busy

\* Every step keeps the LCD in step with what is sent.
THEOREM StepBytes == Inv /\ Inv' /\ Transfers /\ BytesInv /\ [Next]_vars => BytesInv'
<1> SUFFICES ASSUME Inv, Inv', Transfers, BytesInv, [Next]_vars PROVE BytesInv'
  OBVIOUS
<1>1. CASE StartDraw
  BY <1>1, StartDrawBytes
<1>2. ASSUME NEW t \in Threads, Step(t) PROVE BytesInv'
  BY <1>2, MutexStepBytes, ReadBytes, WriteBytes DEF Step
<1>3. ASSUME NEW t \in Clients, Backlight(t) PROVE BytesInv'
  BY <1>3, BacklightBytes
<1>4. CASE Restart
  BY <1>4, RestartBytes
<1>5. CASE UNCHANGED vars
  <2>1. UNCHANGED <<call, step, latch, width, half, got, intact, expected>>
        /\ (Trusted(PortB)' => Trusted(PortB))
    BY <1>5 DEF vars, lcd, Trusted
  <2>2. Tried'
    BY <2>1, TriedKept DEF BytesInv
  <2>3. QED
    BY <2>1, <2>2, BytesKept
<1>6. QED
  BY <1>1, <1>2, <1>3, <1>4, <1>5 DEF Next, AllDone

\* The LCD is in step with the daemon in every reachable state after the four
\* nibbles of CharLCD_start(), as long as the port of the LCD can be trusted.
THEOREM BytesInvCorrect == Spec => []BytesInv
<1>1. Init => BytesInv
  BY InitBytes
<1>2. QED
  BY <1>1, StepBytes, InvCorrect, TransfersCorrect, PTL DEF Spec

LEMMA WakeLength == Len(Wake) = 8
BY DEF Wake, SetBacklight, Tries

\* From whatever a dead daemon has left behind the start brings the LCD into
\* step, and every byte of the start and of the frames arrives, in order.
THEOREM BytesIntactCorrect == Spec => []BytesIntact
<1>1. BytesInv => BytesIntact
  <2> SUFFICES ASSUME BytesInv, ~raced, PortB \notin failed, ~Waking
               PROVE  intact /\ (AtRest => got = Len(expected))
    BY DEF BytesIntact
  <2>1. Trusted(PortB) /\ call["main"] \notin 1..8
    BY WakeLength DEF Trusted, Waking
  <2>2. InStep(Speaker)
    BY <2>1 DEF BytesInv, Speaker
  <2>3. AtRest => Speaker = "updater" /\ call["updater"] = 0
    BY DEF AtRest, Speaker, Busy, Threads
  <2>4. QED
    BY <2>2, <2>3 DEF InStep, Received
<1>2. QED
  BY <1>1, BytesInvCorrect, PTL
=============================================================================
