------------------------------ MODULE Weather -------------------------------
(***************************************************************************)
(* The sensors of one weather log (lcd_cpuinfo.c): another program appends *)
(* lines to the log, main_loop takes the last whole line of it now and     *)
(* then, parses it and replaces its list of sensors by what the line says. *)
(*                                                                         *)
(* The list is an array_t used by one thread; ArrayList shows what that    *)
(* is worth.  The log only changes between two rounds, which shows the     *)
(* reader every log it could see: it looks at the log once per round.      *)
(***************************************************************************)
EXTENDS NxJson

CONSTANTS
    Lines,          \* the lines that may stand in the log, well formed or not
    Window,         \* BUF_SIZE, in tokens
    Pieces          \* bound of TLC: how long the first piece of a line may be

Newline == "\n"

ASSUME LinesAssumption == \A line \in Lines : line \in Seq(Tokens)
ASSUME NewlineAssumption == Newline \notin Names    \* it ends a line, within a string, too
ASSUME WindowAssumption == Window \in Nat \ {0} /\ Pieces \subseteq Nat

VARIABLES
    log,        \* the end of the log, as far as the reader can see
    unwritten,  \* the rest of the line the other program is writing
    phase,      \* "idle", "parse", "walk"
    line,       \* txt_json
    walked,     \* the nodes json_recursive_add_sensors() has visited
    sensors     \* the list of sensors

weather == <<log, unwritten, phase, line, walked, sensors>>
vars == <<parser, weather>>

Sensor == [name : Names \ {""}, type : Types]

TypeOK ==
    /\ ParserTypeOK
    /\ log \in Seq(Tokens \cup {Newline}) /\ Len(log) <= Window
    /\ unwritten \in Seq(Tokens \cup {Newline})
    /\ phase \in {"idle", "parse", "walk"}
    /\ line \in Seq(Tokens)
    /\ walked \in 0..Len(nodes)
    /\ sensors \in Seq(Sensor)

Init ==
    /\ ParserInit
    /\ log = <<>> /\ unwritten = <<>>
    /\ phase = "idle" /\ line = <<>> /\ walked = 0
    /\ sensors = <<>>
-----------------------------------------------------------------------------
\* The other program: a line reaches the log in up to two pieces, and the log
\* may be rotated between them.
\* The reader sees no further back than its buffer, and than two newlines.
Seen(s) ==
    LET Ends == {i \in 1..Len(s) : s[i] = Newline}
        far == IF Cardinality(Ends) < 2 THEN 1 ELSE Max(Ends \ {Max(Ends)})
    IN SubSeq(s, Max({far, Len(s) - Window + 1}), Len(s))

StartLine(l, n) ==
    /\ phase = "idle" /\ unwritten = <<>>
    /\ log' = Seen(log \o SubSeq(l, 1, n))
    /\ unwritten' = SubSeq(l, n + 1, Len(l)) \o <<Newline>>
    /\ UNCHANGED <<parser, phase, line, walked, sensors>>

EndLine ==
    /\ phase = "idle" /\ unwritten # <<>>
    /\ log' = Seen(log \o unwritten)
    /\ unwritten' = <<>>
    /\ UNCHANGED <<parser, phase, line, walked, sensors>>

Rotate ==
    /\ phase = "idle" /\ log' = <<>>
    /\ UNCHANGED <<parser, unwritten, phase, line, walked, sensors>>

\* Any other call of the thread that fails.
ErrnoChanges ==
    /\ phase = "idle" /\ errno' = "other"
    /\ UNCHANGED <<text, stack, nodes, key, mode, weather>>
-----------------------------------------------------------------------------
\* get_last_line_from_file(): what stands between the last two newlines it
\* sees, nothing when there are not two.
Newlines == {i \in 1..Len(log) : log[i] = Newline}
\* Faulty: the line may also begin at the start of the buffer.
LastLineFaulty ==
    IF Newlines = {} THEN <<>>
    ELSE LET end == Max(Newlines)
             begin == Max((Newlines \ {end}) \cup {0})
         IN SubSeq(log, begin + 1, end - 1)
LastLine ==
    IF Cardinality(Newlines) < 2 THEN <<>>
    ELSE LET end == Max(Newlines)
             begin == Max(Newlines \ {end})
         IN SubSeq(log, begin + 1, end - 1)

\* Faulty: weather_clear() before the line is parsed.
ReadLineFaulty ==
    /\ phase = "idle" /\ LastLine # <<>>
    /\ line' = LastLine /\ Begin(LastLine)
    /\ phase' = "parse" /\ sensors' = <<>>
    /\ UNCHANGED <<log, unwritten, walked>>
\* get_weather_info() and the first lines of get_weather_from_json(): without a
\* line, or with an empty one, nothing is done.
ReadLine ==
    /\ phase = "idle" /\ LastLine # <<>>
    /\ line' = LastLine /\ Begin(LastLine)
    /\ phase' = "parse"
    /\ UNCHANGED <<log, unwritten, walked, sensors>>

ParseLine == phase = "parse" /\ Parse /\ UNCHANGED weather

\* The text is no JSON, or holds no value: the sensors stay as they were.
NoTree == mode = "failed" \/ (mode = "done" /\ nodes = <<>>)
Discard ==
    /\ phase = "parse" /\ NoTree
    /\ Release
    /\ phase' = "idle" /\ line' = <<>>
    /\ UNCHANGED <<log, unwritten, walked, sensors>>

\* weather_clear()
Clear ==
    /\ phase = "parse" /\ mode = "done" /\ nodes # <<>>
    /\ sensors' = <<>> /\ walked' = 0
    /\ phase' = "walk"
    /\ UNCHANGED <<parser, log, unwritten, line>>

\* add_sensor_value() for the next node of the walk.
IsSensor(node) ==
    node.type \in {"string", "dbl", "int", "bool"} /\ node.key \notin {NoKey, ""}
AddSensor ==
    LET node == nodes[walked + 1] IN
    /\ phase = "walk" /\ walked < Len(nodes)
    /\ sensors' = IF IsSensor(node) THEN Append(sensors, [name |-> node.key, type |-> node.type])
                                    ELSE sensors
    /\ walked' = walked + 1
    /\ UNCHANGED <<parser, log, unwritten, phase, line>>

EndRound ==
    /\ phase = "walk" /\ walked = Len(nodes)
    /\ Release
    /\ phase' = "idle" /\ line' = <<>> /\ walked' = 0
    /\ UNCHANGED <<log, unwritten, sensors>>

Writer == (\E l \in Lines : \E n \in Pieces : StartLine(l, Min({n, Len(l)}))) \/ EndLine \/ Rotate
Reader == ReadLine \/ ParseLine \/ Discard \/ Clear \/ AddSensor \/ EndRound
Next == Writer \/ ErrnoChanges \/ Reader

Spec == Init /\ [][Next]_vars
\* main_loop goes on; nothing makes the other program write.
FairSpec == Spec /\ WF_vars(ParseLine) /\ WF_vars(Discard \/ Clear \/ AddSensor \/ EndRound)
-----------------------------------------------------------------------------
(* What a line says, by the places of its tokens.  The parser takes more   *)
(* than JSON: a comma may stand, or be missing, between any two values,    *)
(* and an object may end right behind the colon of a key.                  *)

\* How many brackets are open in front of token i, and the innermost one.
Depth(l, i) ==
    Cardinality({k \in 1..i - 1 : l[k] \in {"{", "["}}) - Cardinality({k \in 1..i - 1 : l[k] \in {"}", "]"}})
Within(l, i, mark) ==
    \E k \in 1..i - 1 : /\ l[k] = mark /\ Depth(l, k) = Depth(l, i) - 1
                        /\ \A j \in k + 1..i : Depth(l, j) > Depth(l, k)

\* The colon that only commas separate from token i.
Skipped(l, k, i) == \A j \in k..i - 1 : l[j] = ","
Colons(l, i) == {k \in 1..i - 1 : l[k] = ":" /\ Skipped(l, k + 1, i)}

ValueDue(l, i) == Skipped(l, 1, i) \/ Colons(l, i) # {} \/ Within(l, i, "[")
KeyDue(l, i) == Within(l, i, "{") /\ Colons(l, i) = {}
IsKey(l, i) == KeyDue(l, i) /\ l[i] \in Names /\ i < Len(l) /\ l[i + 1] = ":"

Legal(l, i) ==
    \/ l[i] = ","
    \/ l[i] \in Names \cup {"int", "dbl", "bool", "null", "{", "["} /\ ValueDue(l, i)
    \/ l[i] = "]" /\ Within(l, i, "[")
    \/ l[i] = "}" /\ Within(l, i, "{") /\ (Colons(l, i) = {} \/ l[i - 1] = ":")
    \/ IsKey(l, i)
    \/ l[i] = ":" /\ i > 1 /\ IsKey(l, i - 1)

\* The first n tokens are one value, which ends with the last of them.
IsValue(l, n) ==
    /\ \A i \in 1..n : Legal(l, i)
    /\ \A i \in 2..n : Skipped(l, 1, i) \/ Depth(l, i) > 0
    /\ Depth(l, n + 1) = 0 /\ l[n] # ","
ValueEnds(l) == {n \in 1..Len(l) : IsValue(l, n)}

\* The scalars among the first n tokens that have a name, in their order.
KeyAt(l, i) == l[(CHOOSE k \in Colons(l, i) : TRUE) - 1]
Told(l, n) ==
    {i \in 1..n : l[i] \in Names \cup {"int", "dbl", "bool"} /\ Colons(l, i) # {} /\ KeyAt(l, i) # ""}
TypeOf(token) == IF token \in Names THEN "string" ELSE token
Says(l, n) ==
    [m \in 1..Cardinality(Told(l, n)) |->
        LET i == CHOOSE i \in Told(l, n) : Cardinality(Told(l, i)) = m
        IN  [name |-> KeyAt(l, i), type |-> TypeOf(l[i])]]
Accepted == {l \in Lines : ValueEnds(l) # {}}

\* Only a whole line of the log that begins with a value touches the list: after
\* one that is being written, was cut by the window or by the rotation, or is no
\* JSON, the sensors of the line before stay.  A round that does touch it leaves
\* exactly what that value says, and nothing of the line before.
SensorsOfTheLine ==
    [][/\ sensors' # sensors => line \in Accepted
       /\ EndRound => \E n \in ValueEnds(line) : sensors' = Says(line, n)]_vars

\* A line that begins with a value is only thrown away when an earlier number was
\* out of range and errno still says so.
WellFormedTaken == [][Discard => line \notin Accepted \/ errno = "ERANGE"]_vars

\* The nodes form one tree below the first child of the root, so that freeing
\* this child, as get_weather_from_json() does, frees every node.
OneTree == \A n \in 1..Len(nodes) : nodes[n].parent < n /\ (nodes[n].parent = 0 <=> n = 1)

\* Reading, parsing and walking a line comes to an end, whatever it contains.
RoundEnds == phase # "idle" ~> phase = "idle"
=============================================================================
