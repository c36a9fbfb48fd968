----------------------------- MODULE Publishing -----------------------------
(***************************************************************************)
(* publish_state() and what it publishes: the voltage of the power supply, *)
(* asked for over the serial line (faraday_serial.c) or measured by an     *)
(* INA219 (ina219.c).  publish_state() runs in main_loop and, from         *)
(* on_connect(), in the MQTT thread; both share the static timer, the      *)
(* static reply, the pointer faraday_reply that the weather page reads,    *)
(* and the input queue of the serial port.                                 *)
(*                                                                         *)
(* A byte on the line is 0 in an echo and i in byte i of a reply.  The     *)
(* program is built without optimisation, so that a shared variable is     *)
(* loaded at each use.                                                     *)
(***************************************************************************)
EXTENDS Ina219, FiniteSets, SequencesExt

CONSTANTS
    CmdSize,    \* bytes of a request, for each power supply (13 and 17)
    ReplySize,  \* bytes of a reply (16)
    BusWords,   \* bus voltage registers of the sensor after a conversion
    MaxFds,     \* descriptors the process may have open on the port
    Setups      \* power supplies, and whether an INA219 measures beside them

Supplies == {"normal", "fire"}
Threads == {"main", "mqtt"}

ASSUME SizesAssumption ==
    CmdSize \in [Supplies -> Nat \ {0}] /\ ReplySize \in Nat \ {0, 1}
ASSUME WordsAssumption == \A word \in BusWords : word \in Word /\ ConversionReady(word)
ASSUME FdsAssumption == MaxFds \in Nat \ {0}
ASSUME SetupsAssumption == Setups \subseteq (Supplies \cup {"unknown"}) \X BOOLEAN

VARIABLES
    psu,        \* --faraday-psu: a supply, or "unknown" when it is not given
    ina,        \* is the program compiled for an INA219, and one there?
    at,         \* where each thread is
    due,        \* timer_publish_state has expired
    fds,        \* open descriptors of the port
    line,       \* bytes that have arrived at the port or are on their way to it
    reply,      \* the static reply: that of the supply, or other (zeros, a medley)
    result,     \* what read_faraday_data() returned to each thread
    faraday_reply,
    ina_voltage, ina_current,   \* {} for NAN
    sensor,     \* the bus voltage register, 0 before the first conversion
    shared,     \* history: a publication began while another was under way
    garbled,    \* history: the last answer was repeated although bytes before were lost
    watched     \* history: the MQTT thread published while the page was composed

config == <<psu, ina>>
port == <<fds, line>>
memory == <<reply, faraday_reply>>
meter == <<ina_voltage, ina_current, sensor>>
history == <<shared, garbled, watched>>
vars == <<config, at, due, port, memory, result, meter, history>>

Contents == {"reply", "other"}
Asking == {"request", "echo", "reply", "close"}
Publishing == {"stamp", "choose", "open", "assign", "test", "use", "print"} \cup Asking
Measuring == {"bus", "current"}
Showing == {"show", "deref"}

Inside(t) == at[t] \in Publishing
Other(t) == IF t = "main" THEN "mqtt" ELSE "main"

TypeOK ==
    /\ psu \in Supplies \cup {"unknown"} /\ ina \in BOOLEAN
    /\ at["main"] \in {"idle", "check", "crashed"} \cup Publishing \cup Measuring \cup Showing
    /\ at["mqtt"] \in {"idle", "crashed"} \cup Publishing
    /\ due \in BOOLEAN
    /\ fds \in 0..MaxFds
    /\ reply \in Contents
    /\ result \in [Threads -> {"NULL", "reply"}] /\ faraday_reply \in {"NULL", "reply"}
    /\ ina_voltage \subseteq Int /\ ina_current \subseteq {"amperes"}
    /\ sensor \in BusWords \cup {0}
    /\ shared \in BOOLEAN /\ garbled \in BOOLEAN /\ watched \in BOOLEAN

Init ==
    /\ \E setup \in Setups : psu = setup[1] /\ ina = setup[2]
    /\ at = [t \in Threads |-> "idle"]
    /\ due = TRUE
    /\ fds = 0 /\ line = <<>>
    /\ reply = "other" /\ result = [t \in Threads |-> "NULL"] /\ faraday_reply = "NULL"
    /\ ina_voltage = {} /\ ina_current = {} /\ sensor = 0
    /\ shared = FALSE /\ garbled = FALSE /\ watched = FALSE

At(t, l) == at[t] = l
Goto(t, l) == at' = [at EXCEPT ![t] = l]
Return(t, r) == result' = [result EXCEPT ![t] = r]
-----------------------------------------------------------------------------
(* The serial line and the power supply.                                   *)

Echo == [i \in 1..CmdSize[psu] |-> 0]
Reply == [i \in 1..ReplySize |-> i]

\* What comes back for a request: the line echoes it and the supply replies, once or
\* twice.  Any bytes of either may get lost.
Echoes == {[i \in 1..n |-> 0] : n \in 0..CmdSize[psu]}
InOrder(s) == \A i, j \in DOMAIN s : i < j => s[i] < s[j]
Replies ==
    {Reply} \cup UNION {{s \in [1..n -> 1..ReplySize] : InOrder(s)} : n \in 0..(ReplySize - 1)}

Without(n) == SubSeq(line, n + 1, Len(line))

\* STATE_PUBLISH_INTERVAL is a minute, and a publication takes two seconds at most:
\* what comes back for it comes before.
IntervalPasses ==
    /\ ~due /\ \A t \in Threads : ~Inside(t)
    /\ due' = TRUE /\ line' = <<>>
    /\ UNCHANGED <<config, at, fds, memory, result, meter, history>>
-----------------------------------------------------------------------------
(* write_command_and_read_reply().                                         *)

\* The static reply is cleared and the command written.
Request(t) ==
    /\ At(t, "request")
    /\ reply' = "other"
    /\ \E echo \in Echoes, once, again \in Replies :
        /\ line' = line \o (echo \o once \o again)
        /\ garbled' = (again # <<>> /\ (echo # Echo \/ once # Reply))
    /\ Goto(t, "echo")
    /\ UNCHANGED <<config, due, fds, faraday_reply, result, meter, shared, watched>>

\* read() with VMIN 0 and VTIME 5: what has arrived, or nothing after half a second.
Arrived(size) == {n \in 0..size : n <= Len(line)}

GiveUp(t) == Goto(t, "close") /\ Return(t, "NULL")

\* Faulty: any echo will do.
ReadEchoFaulty(t) ==
    /\ At(t, "echo")
    /\ \E n \in Arrived(CmdSize[psu]) :
        /\ line' = Without(n)
        /\ IF n > 0 THEN Goto(t, "reply") /\ UNCHANGED result ELSE GiveUp(t)
    /\ UNCHANGED <<config, due, fds, memory, meter, history>>

ReadEcho(t) ==
    /\ At(t, "echo")
    /\ \E n \in Arrived(CmdSize[psu]) :
        /\ line' = Without(n)
        /\ IF n = CmdSize[psu] THEN Goto(t, "reply") /\ UNCHANGED result ELSE GiveUp(t)
    /\ UNCHANGED <<config, due, fds, memory, meter, history>>

\* A whole number of replies, of which the first is taken.  A wrong check sum
\* is only logged.
Acceptable(n) == n >= 2 /\ n % ReplySize = 0

Content == IF IsPrefix(Reply, line) THEN "reply" ELSE "other"

ReadReply(t) ==
    /\ At(t, "reply")
    /\ \E n \in Arrived(Len(line)) :
        /\ line' = Without(n)
        /\ IF Acceptable(n)
           THEN Goto(t, "close") /\ Return(t, "reply") /\ reply' = Content
           ELSE GiveUp(t) /\ UNCHANGED reply
    /\ UNCHANGED <<config, due, fds, faraday_reply, meter, history>>
-----------------------------------------------------------------------------
(* read_faraday_data().                                                    *)

\* A power supply of unknown type ends the call with the port open.
Open(t) ==
    /\ At(t, "open")
    /\ \/ /\ fds < MaxFds
          /\ fds' = fds + 1
          /\ IF psu \in Supplies THEN Goto(t, "request") /\ UNCHANGED result
                                 ELSE Goto(t, "assign") /\ Return(t, "NULL")
       \/ /\ Goto(t, "assign") /\ Return(t, "NULL")
          /\ UNCHANGED fds
    /\ UNCHANGED <<config, due, line, memory, meter, history>>

\* The last close drops what has arrived, and what arrives until the next open is
\* lost too: all of it, unless another publication has already begun.
Flush(t) ==
    IF Inside(Other(t)) THEN \E n \in Arrived(Len(line)) : line' = Without(n)
                        ELSE line' = <<>>

\* Faulty: a failed read leaves the port open.
CloseFaulty(t) ==
    /\ At(t, "close")
    /\ fds' = IF result[t] = "NULL" THEN fds ELSE fds - 1
    /\ IF fds' = 0 THEN Flush(t) ELSE UNCHANGED line
    /\ Goto(t, "assign")
    /\ UNCHANGED <<config, due, memory, result, meter, history>>

Close(t) ==
    /\ At(t, "close")
    /\ fds' = fds - 1
    /\ IF fds' = 0 THEN Flush(t) ELSE UNCHANGED line
    /\ Goto(t, "assign")
    /\ UNCHANGED <<config, due, memory, result, meter, history>>
-----------------------------------------------------------------------------
(* publish_state().                                                        *)

\* main_loop goes on to lcd_update(), which may be at the weather page.
Leave(t) ==
    /\ \/ Goto(t, "idle")
       \/ t = "main" /\ Goto(t, "show")
    /\ watched' = IF t = "main" THEN Inside("mqtt") ELSE watched

\* The timer is tested, then set again.
CheckTimer(t) ==
    /\ At(t, IF t = "main" THEN "check" ELSE "idle")
    /\ \/ /\ due
          /\ Goto(t, "stamp")
          /\ shared' = Inside(Other(t))
          /\ watched' = (watched \/ (t = "mqtt" /\ at["main"] \in Showing))
       \/ ~due /\ t = "main" /\ Leave(t) /\ UNCHANGED shared
    /\ UNCHANGED <<config, due, port, memory, result, meter, garbled>>

StampTimer(t) ==
    /\ At(t, "stamp")
    /\ due' = FALSE
    /\ Goto(t, IF ina THEN "choose" ELSE "open")
    /\ UNCHANGED <<config, port, memory, result, meter, history>>

\* With an INA219 that measures, its values are published as they are.
Choose(t) ==
    /\ At(t, "choose")
    /\ IF {} \in {ina_current, ina_voltage}
       THEN Goto(t, "open") /\ UNCHANGED watched
       ELSE Leave(t)
    /\ UNCHANGED <<config, due, port, memory, result, meter, shared, garbled>>

\* Faulty: a read that failed leaves the pointer to the reply before.
AssignReplyFaulty(t) ==
    /\ At(t, "assign")
    /\ faraday_reply' = IF result[t] = "NULL" THEN faraday_reply ELSE result[t]
    /\ Return(t, "NULL")
    /\ Goto(t, "test")
    /\ UNCHANGED <<config, due, port, reply, meter, history>>

AssignReply(t) ==
    /\ At(t, "assign")
    /\ faraday_reply' = result[t]
    /\ Return(t, "NULL")
    /\ Goto(t, "test")
    /\ UNCHANGED <<config, due, port, reply, meter, history>>

TestReply(t) ==
    /\ At(t, "test")
    /\ Goto(t, IF faraday_reply = "NULL" THEN "print" ELSE "use")
    /\ UNCHANGED <<config, due, port, memory, result, meter, history>>

\* A NULL pointer ends the process.
Crash == at' = [t \in Threads |-> "crashed"]

UseReply(t) ==
    /\ At(t, "use")
    /\ IF faraday_reply = "NULL"
       THEN Crash
       ELSE Goto(t, "print")
    /\ UNCHANGED <<config, due, port, memory, result, meter, history>>

\* The state, with the voltage of the reply or the one published last, if any.
SendState(t) ==
    /\ At(t, "print")
    /\ Leave(t)
    /\ UNCHANGED <<config, due, port, memory, result, meter, shared, garbled>>
-----------------------------------------------------------------------------
(* A round of main_loop: ina_get(), publish_state(), lcd_update().         *)

BeginRound ==
    /\ At("main", "idle")
    /\ Goto("main", IF ina THEN "bus" ELSE "check")
    /\ UNCHANGED <<config, due, port, memory, result, meter, history>>

\* The sensor converts for the first time after ina_init(), then goes on.
Convert ==
    /\ ina
    /\ \E word \in BusWords : sensor' = word
    /\ UNCHANGED <<config, at, due, port, memory, result, ina_voltage, ina_current, history>>

\* ina_219_device_get_bus_voltage(): the loop until a conversion is ready.
MeasureVoltage ==
    /\ At("main", "bus")
    /\ LET word == SwapBytes(OnTheBus(sensor))
       IN  /\ ConversionReady(word)
           /\ ina_voltage' = IF MathOverflow(word) THEN {} ELSE {BusMillivolts(word)}
    /\ Goto("main", "current")
    /\ UNCHANGED <<config, due, port, memory, result, ina_current, sensor, history>>

\* The transfer fails.
BusFails ==
    /\ At("main", "bus")
    /\ ina_voltage' = {}
    /\ Goto("main", "current")
    /\ UNCHANGED <<config, due, port, memory, result, ina_current, sensor, history>>

MeasureCurrent ==
    /\ At("main", "current")
    /\ ina_current' \in {{}, {"amperes"}}
    /\ Goto("main", "check")
    /\ UNCHANGED <<config, due, port, memory, result, ina_voltage, sensor, history>>

\* display_weather_info(), compiled without INA219.
TestShown ==
    /\ At("main", "show")
    /\ Goto("main", IF ina \/ faraday_reply = "NULL" THEN "idle" ELSE "deref")
    /\ UNCHANGED <<config, due, port, memory, result, meter, history>>

ShowVoltage ==
    /\ At("main", "deref")
    /\ IF faraday_reply = "NULL" THEN Crash ELSE Goto("main", "idle")
    /\ UNCHANGED <<config, due, port, memory, result, meter, history>>
-----------------------------------------------------------------------------
Publish(t) ==
    \/ StampTimer(t) \/ Choose(t) \/ Open(t) \/ Request(t) \/ ReadEcho(t) \/ ReadReply(t)
    \/ Close(t) \/ AssignReply(t) \/ TestReply(t) \/ UseReply(t) \/ SendState(t)

Main ==
    \/ CheckTimer("main") \/ Publish("main")
    \/ MeasureVoltage \/ MeasureCurrent \/ TestShown \/ ShowVoltage

Over == At("main", "crashed") /\ UNCHANGED vars

Next ==
    \/ BeginRound \/ Main \/ BusFails \/ CheckTimer("mqtt") \/ Publish("mqtt")
    \/ IntervalPasses \/ Convert \/ Over

Spec == Init /\ [][Next]_vars

\* Both threads are scheduled, and a sensor that is there converts.
Fairness == WF_vars(Main) /\ WF_vars(Publish("mqtt")) /\ WF_vars(Convert)

FairSpec == Spec /\ Fairness
-----------------------------------------------------------------------------
(* Properties.                                                             *)

\* The lengths alone, without framing and check sum, protect the reply from losses,
\* however many bytes of the echo and the reply get lost, and from a reply that is
\* repeated, whole or in part: what is accepted is one whole reply of the supply.  Not
\* from both at once, when the end of one reply and the beginning of the other may
\* make up the length, nor when two publications met on the line.
WholeReply ==
    [][\A t \in Threads :
          At(t, "reply") /\ result'[t] = "reply" => reply' = "reply" \/ shared \/ garbled]_vars

\* The pointer leads to what the last request left.
Loaded == faraday_reply = "reply" /\ (reply = "reply" \/ garbled)

\* Whoever follows faraday_reply finds behind it what was accepted, a reply of the
\* supply unless the line garbled it, although it may have changed since the pointer
\* was tested: publish_state() unless it met the other publication, the display
\* unless the MQTT thread published while the page was composed.
PointerGood ==
    /\ \A t \in Threads : At(t, "use") /\ ~shared => Loaded
    /\ At("main", "deref") /\ ~shared /\ ~watched => Loaded

\* The port is open exactly in the threads that read from it, whichever way a
\* read fails: only a supply of unknown type leaves descriptors behind.
DescriptorsReturned ==
    psu \in Supplies /\ ~At("main", "crashed") =>
        fds = Cardinality({t \in Threads : at[t] \in Asking})

\* The voltage that is shown comes from a conversion that was ready and did not
\* overflow.  It is that of the register up to 16.383 V and 32.768 V too low above.
VoltageMeasured ==
    \A v \in ina_voltage : \E word \in BusWords :
        LET true == 4 * (word \div 8)
        IN  ~MathOverflow(word) /\ v = IF true < 16384 THEN true ELSE true - 32768

\* Every round of main_loop and every call from on_connect() comes to an end: no
\* read waits for ever, and the sensor converts.
PublicationEnds == \A t \in Threads : ~At(t, "idle") ~> at[t] \in {"idle", "crashed"}
=============================================================================
