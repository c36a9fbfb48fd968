# Verification of w_display / lcd_cpuinfo

This directory holds TLA+ models of `lcd_cpuinfo`, a Unix daemon that shows a
few pages of status on a 16x2 character LCD, talks MQTT, and is controlled by
signals and by a PID file.  TLC checks the models on small instances; TLAPS
proves some of their properties for every value of the constants.  Paths are
relative to the root of the repository.

## The system

### Processes and threads

| who | runs | started by | ended by |
|---|---|---|---|
| launcher | `main()` up to `daemon_retval_wait()` | the user (`-k restart`, ...) | its return value |
| first child | middle part of `daemon_fork()` | launcher | `_exit(0)` |
| daemon, main thread | `main()` from `daemon_pid_file_create()` on; signal loop; `finish` | first child | a signal, or a failed start |
| `main_th` | `main_loop()`: buttons, rotation, sensors, publishing, `lcd_update()` | main thread | `do_exit` |
| `updater_th` | `lcd_updater()`: prints frames | main thread | `do_exit` |
| `mosq_th` | `mosq_thread_loop()` and the callbacks `on_connect`, `on_message` | `mosq_init()` | `do_exit` |

### Components

| component | state | operations | interacts with |
|---|---|---|---|
| PID file (`dpid.c`) | the file, its lock, the pid in it | probe (`is_running`), `kill`, `kill_wait`, `create`, `remove` | other launches, signals, the kernel |
| Daemon commands (`lcd_cpuinfo.c` 151-216, `main`) | the phase of a launch | reconfigure, shutdown, restart, check, plain start | PID file, fork |
| Fork and return value (`dfork.c`) | two pipes and who holds their ends | `daemon_fork`, `daemon_retval_init/send/wait/done` | launcher and daemon |
| Signals (`dsignal.c`) | a pipe that does not block | the handler, `daemon_signal_init/next/done` | signal loop |
| Signal loop and end of `main()` | `do_exit`, thread handles | select loop, joins, releases | every thread |
| Display (`lcd_update`, `boardDataUpdate`, `lcd_updater`) | `DispMode`, `lcdFb`, `lcdFbTD`, buttons, two timers, one mutex, one condition variable | page choice, composing, hand-over, printing | buttons, MQTT events |
| LCD driver (`CharLCD.c`) and expander (`MCP23017.c`) | output latches, `disp->mutex`, width and nibble phase of the HD44780, counter of `backlight()` | start, send, setCursor, print, setBacklight | three threads |
| MQTT session | client, socket, subscriptions, retained LWT | connect, reconnect, publish, message | broker, display, main thread |
| Publishing (`publish_state`, `publish_sensors`, `publish_piaware`) | static timers, the pointer `faraday_reply` | one publication per interval | MQTT, faraday, INA219, weather |
| Weather | two lists of sensors in `array_t` | read the last lines of a file, parse JSON, replace or append a sensor | array, JSON |
| Array (`array.c`) | items, count, size | create, append, insert, getitem, del, pop, clean, destroy | weather |
| JSON parser (`nxjson.c`) | tree of nodes, static dummy | parse, get, item, free | weather, piaware |
| Faraday serial line (`faraday_serial.c`) | open port, static reply | open, request, echo, reply, close | publishing, from two threads |
| INA219 (`ina219.c`) | device handle, calibration, `ina_voltage`, `ina_current` | configure, wait, read registers | publishing (off in the default build) |
| dexec, dlog, dmem, dnonblock, dzip, version | - | logging, thin wrappers; dexec and dzip are not called | - |

### What is hard

* **Launches overlap.**  The probe, the removal of a stale file and the creation
  are separate steps of separate processes, the removal goes by name and the lock
  is on a descriptor.
* **The daemon can die anywhere**, and its pid can be given to another process.
* **Pipes end only when every write end is closed**, and a time limit races
  the value it waits for.
* **Unprotected shared variables**: `DispMode`, `mqtt_display1/2`, the counter of
  `backlight()`, the static timers, the static serial reply.
* **A condition variable without a predicate**: a signal nobody waits for is lost.
* **A port shared bit by bit**: every pin is a read-modify-write over I2C and
  `CharLCD_setCursor()` does it outside the mutex.
* **A serial line without framing**, shared by two threads that may ask at the
  same time.
* **The LCD outlives the daemon**: the next one finds it in the middle of a byte.
* **The order at `finish`**: the regular expression and the MQTT client are
  released before some of the threads that use them have been joined.

PROJECT.json lists these hazards at their lines, with the properties that would
catch them going wrong.

## What makes each part correct

| part | properties |
|---|---|
| PID file and commands | at most one daemon; the file leads to the daemon while it serves; a file whose owner is gone was left by SIGKILL, a crash or a signal before the handlers; nobody unlinks the file of a living daemon; restart ends with a new daemon, but for four named cases |
| Fork and return value | what the launcher reports is true; at most one answer; the launcher never waits for what cannot come; it always ends |
| Display | no torn frame; no NULL event; no old state under a new name but in one window; the LCD only lags after a lost signal; an event is shown |
| LCD bus | the start puts the LCD in step from whatever it finds; every byte arrives whole and in order; the colour pins agree with the last call, and the call with the request; only the cursor commands break the rule of the mutex |
| MQTT session | connected means announced and subscribed; the retained LWT tells the truth in the end; at most one match after the release of the expression; a lost connection is made again; a stop the pipe has taken is obeyed |
| Array | no write outside the memory; each object in one place; a list to its callers |
| JSON and weather | the sensors are what one whole line says; a bad line changes nothing; the tree is freed as a whole; every line comes to an end |
| Publishing | one publication per interval and caller; what is accepted is one whole reply unless it was repeated behind a loss; the pointer to it is good when it is followed; no descriptor is lost; the voltage is that of a conversion; every publication ends |

## The modules

| module | models | composed with |
|---|---|---|
| `SingleInstance` | abstract: at most one daemon in service | implemented by `PidFile` |
| `PidFile` | `dpid.c`, the commands, `main()` around the PID file, the stop signals | `MCPidFile`, `PidFileProofs` |
| `DaemonFork` | `dfork.c` and the branches of `main()` on both sides | `MCDaemonFork`, `DaemonForkProofs` |
| `Display` | the three threads around `DispMode`, `lcdFb` and `lcdFbTD` | `MCDisplay`, `DisplayProofs` |
| `LcdBus` | `CharLCD.c` and `MCP23017.c` down to single port transfers, `backlight()` | `MCLcdBus`, `LcdBusProofs` |
| `MqttSession` | `mosq_thread_loop`, its callbacks, the broker, the signal pipe, `finish` | `MCMqttSession`, `MqttSessionProofs` |
| `Ina219` | the registers of `ina219.c` as operators on 16-bit words | extended by `Publishing` |
| `Publishing` | `publish_state()` in both threads, `faraday_serial.c`, the round of `ina_get()` | `MCPublishing`, `PublishingProofs` |
| `ObjectList` | abstract: the list an `array_t` promises to be | implemented by `ArrayList` |
| `ArrayList` | `array.c` | `MCArrayList`, `ArrayListProofs` |
| `NxJson` | the parser of `nxjson.c` over tokens | extended by `Weather` |
| `Weather` | the weather log, `get_last_line_from_file()`, the round of `get_weather_from_json()` | `MCWeather`, `WeatherProofs` |

PROJECT.json maps every definition to the lines it translates.  A definition
whose name ends in `Faulty` (or `Silent`, `Forgets`, ...) and whose comment
begins with "Faulty" is a plausible mistake in the definition below it; it is
used by no specification and only serves to try the properties.

### PidFile

A process `p` is one run of the program: its launcher and, after the fork, its
daemon.  `pc[p]` walks through `daemon_pid_file_is_running()` (`open`, `lock`,
`unlink`), the kill commands (`signal`, `wait`), `daemon_pid_file_create()`
(`create`, `write`), and the daemon's life (`created`, `handled`, `running`,
`finishing`, `removing`, `exiting`).  `phase` tells which of the calls of a
command is going on, because `-k restart` probes up to three times.  The file
system is `dir` (the inode the path names) and `written` (the inodes that
contain their pid); `fd` is the inode a probe holds open, which need not be the
one the path names.  `foreign` are pids of dead daemons that now belong to
unrelated programs.

A signal is sent in one step and has its effect in another.  `handling` are the
runs whose handlers are in place: from then on SIGINT and SIGTERM go to the pipe
(`stop`), before that they end the process, and SIGKILL always does.  Who met
such a signal is in `doomed`, and ends in a step of its own (`Die`), so that
`kill()` may return, its wait of 0 s run out, and the next probe still find the
process.

Five switches select the environment: `Overlap`, `IOFaults`, `Crashes`,
`PidReuse`, and `JoinReturns`: `finish` joins threads that a failed start never
created, which is undefined; the C library follows the zero handle and crashes,
or returns an error, and then the file is removed by name (`JoinUnstarted`).  Runs differ in nothing but their names, so they take them in a
fixed order (`NextRun`); that saves the instances the states which differ by a
permutation, also where liveness is checked.

### DaemonFork

Three processes with one `pc` each.  A pipe is the sequence of values in it and
the set of processes that hold its write end (`pidWriters`); it reads as ended
only when it is empty and that set is empty.  The launcher keeps a write end of
the return value pipe, so there only the limit of 20 s (`GiveUp`) ends the wait.
Every process in `Deaths` may die at every step.

### Display

One `pc` per thread (`mpc`, `upc`, `qpc`).  `DispMode` is read and written in
separate steps (`LoadMode`, `StoreMode`), as the compiled `DispMode++` and `%`
are; the two strings of an event are written, and read, one after the other.
`td` is `lcdFbTD`, guarded by the mutex except where the code does not take it,
and a frame is two rows: enough to be torn.  An event row carries the number of
its message, so that the two halves of different events can be told apart.  The wait of `lcd_updater()` may end
by signal, by time limit or spuriously; a signal is lost when nobody waits
(`lost`).  A page is what was read from the system when it was composed
(`Readings`).

### LcdBus

A thread performs a sequence of calls (`DrawFrame`, `StartUp`, `SetBacklight`),
a call is the sequence of its pin writes, or takes or drops the mutex; `call` and
`step` say where each thread is.  A pin write is two transfers, a read of the port
into a register of the thread and a write of the whole port; any other thread may
come between.  The main thread runs
`CharLCD_start()` and the first `backlight()` before the others begin.  The LCD
is the width of its interface, its last nibble (`half`) and the bytes it has
completed (`got` of them as the daemon meant them, as long as `intact`).  A
failed read of a port gives all ones; `FaultyPorts` names the ports on which one
transfer may fail once the start is over.  `backlight()` reads and writes its
static counter in separate steps.  `CharLCD_print()` would send a cursor command of
its own for a newline and behind the last column: a row is never longer than the
display (`LCD_COL`), and one with a newline, which only the payload of an MQTT message
could bring in, is left out.

`Restart` is the death of the daemon anywhere, in the start too, and the next
launch: the threads begin anew, expander and LCD keep what they have.
`MCP23017_openI2C()` then makes the lines inputs before they are outputs again;
when the enable line was high, the LCD may take one nibble of anything
(`StrayNibble`).

### MqttSession

Three threads (`main`, `mqtt`, `loop`), the connection with packets on their way
in both directions, and the broker: its session, its subscriptions and the
retained value of the LWT topic.  libmosquitto and the broker are external; what
they do is taken from how the program uses them (QoS 0, clean session, a
retained will).  Resources are released by `finish` in the order of the code:
`regfree()`, join of the MQTT thread, disconnect, destroy, join of `main_loop`.

`pipe` is what the signal handler has written and `daemon_signal_next()` has not
read: it loses what finds it full (`Raise`), and `NextSignal` takes one signal at
a time.  `BreakOff` is the end of the signal loop after a failure, which leaves
`do_exit` as it is.  The LWT topic begins with nothing, an `Offline`, or an `Online` that
an earlier life left behind (`Left`): such an end is the exception `LastWordOffline`
names, and until a will, an `Online` or an `Offline` of this life reaches the broker the
old word stands, which is none of this life's doing.

### ArrayList and ObjectList

`items` is the memory, a function on `0..capacity-1`; what lies beyond `count`
may be anything.  An operation holds the mutex from beginning to end and is one
action; `array_clean()` calls the caller's free function object by object and is
a loop (`FreeItem`, `FreeMemory`).  `owned` is the set of objects the callers
hold: the array is given an object, gives it back, or gives it to the free
function.  A write (`Put`, `MovedUp`, `MovedDown`) outside the memory would add its
position to `items`, which `InBounds` excludes.  Reads are another matter: the one
pointer too many that `array_del()` fetches, from beyond the memory when the array is
full (`array.c:133`), is an arbitrary value; `Conservation` shows that it never
becomes an item.  `MinDelta` is the 16 of `array_grow()`.

### NxJson and Weather

The text is a sequence of tokens; the two functions that call each other are a
stack of open containers.  The subtle part is kept: a `]` met by `parse_value()`
is left to whoever called it.  `errno` is a variable of the thread that outlives
a parse.  In `Weather` another program writes lines in pieces, the log may be
rotated between two pieces, and the reader sees no more than its buffer.  The
log only changes between rounds: the reader looks at it once per round, so a
change during a round is a change after it.

What a line says is defined a second time, without a parser and without
recursion, from the places of its tokens: the brackets open in front of a token
(`Depth`), the container it stands in (`Within`), the colon in front of it
(`Colons`), whether a value or a key is due there, and which token is legal where
(`Legal`).  `ValueEnds(l)` are the places where a value that begins the line ends,
and `Says(l, n)` the scalars with a name up to there.  The grammar is the one
`nxjson.c` has, which is wider than JSON: a comma may be missing, repeated, or
stand in front of everything, an object may end right behind the colon of a key
(`nxjson.c:259`), and what follows the value is never read.  White space matters in
that one place only: `{"a":}` is a value and `{"a": }` is none.  So no token stands for
it, except that a blank between a colon and a `}` is written like a comma, which the
parser skips alike.

### Publishing and Ina219

`publish_state()` runs in `main_loop` and, from `on_connect()`, in the MQTT
thread; each step of each is an action, with the thread as its parameter.  The
static `reply` only is that of the supply, or something else.  The port is a
count of open descriptors and one queue of bytes (`line`), as both threads open
the same device: what one of them asks for, the other may read.  A byte of an
echo is 0 and byte i of a reply is i, enough to see whether what was accepted is
one whole reply.  The line may lose any bytes of the echo and the reply, and may
repeat the reply, of which any bytes may get lost again; a `read()` returns any part
of what has come, because the port gives up after half a second.  `garbled` is the
history of the one combination the lengths cannot see: a repeated reply behind a
loss.  The last close of the port drops what is still on the line.  That the
settings of the port may fail (`tcsetattr()`), after which a read could block for
good, is left out.

The program is built without optimisation, so each use of `faraday_reply` loads
it again: `TestReply` and `UseReply` are two steps, and the pointer may be NULL in
the second.  `CheckTimer` and `StampTimer` are two steps too, through which both
threads may slip.  What follows a NULL pointer is the end of the process.

`Ina219` is arithmetic on words: the swap of the bytes, the two status bits, the
signed shift.  The sensor only appears where it is compiled in, and then only
main_loop reads it.

## The runs

| run | constants | states | question |
|---|---|---|---|
| PidFileSequential | 3 runs, crashes, pid reuse, no overlap | 525,795 | safety, `SingleInstance`, does `-k restart` bring the daemon up? |
| PidFileLaunchEnds | 2 runs, everything on | 51,333 | does every launch end? |
| PidFileOverlap | 3 runs, overlap, crashes, a join that crashes | violation | `OneDaemon` when launches overlap |
| DaemonForkReport | everyone may die | 218 | is the report true, does the launcher end? |
| DisplaySafety | two messages, two readings | 1,048,774 | torn frames, event rows, lost signals, exit |
| DisplayEventShown | one message, one reading | violation | is an MQTT event shown? |
| LcdBusSafety | one frame of two characters, two threads that call `backlight()`, a fault on port A, one restart | 1,571,529 | start, bytes, colours, where operations overlap |
| LcdBusSent | one frame, one caller, no fault, no restart | violation | does the LCD receive what was sent? |
| MqttSession | 2 faults, 2 messages, a pipe for 2 signals | 159,649 | announcements, LWT, releases, exit |
| Publishing | sizes 1 and 3 for a request, 2 for a reply; 3 setups | 521,582 | whole replies, the shared pointer, descriptors, voltage |
| ArrayList | 3 objects, growth by 2, room ahead up to 3 | 1,810 | memory, ownership, `ObjectList` |
| Weather | 7 lines that are values, one with more behind, all their beginnings, 10 other lines | 667,349 | sensors, tree, end of a round |

The inductive invariants of the proof modules were tried with TLC before
they were proved, those of `LcdBusProofs` on three instances (no fault, a fault on
either port, an overlap); they are no property of a run, because the properties
they imply are.  Those about the grammar were also tried on every line of up to
five tokens out of eight, and the grammar itself was compared with the compiled
`nxjson.c` on every line of up to seven: what is accepted, and the named scalars.

Why the bounds are enough.

* *PID file*: a third run is needed for the overlap (one holds a stale
  descriptor, one creates, one left the stale file) and for a restart over a
  file that was left behind; a fourth can only repeat the role of another, as
  the file names one inode and the probe holds one.
* *Fork*: no bound at all, the model is finite.
* *Display*: two messages make the mixture of two events possible, and two
  readings make frames differ from each other.  Two rows are enough for a torn
  frame.
* *LCD bus*: the two characters (90 and 165) change every data line between
  their nibbles; each thread performs one operation, and a byte that is lost
  never comes back, so one frame shows every kind of damage.  One restart is
  enough because the state it starts from is any the LCD can be left in, within
  the start and within the frame.
* *MQTT*: two faults let a connection be lost while another one is being made,
  two messages distinguish "one late match" from "any number".  A pipe for two
  signals can be full, and can hold a signal before the stop.
* *Publishing*: the code has 13 and 17 bytes for a request and 16 for a reply.
  What its checks live on is the order of the three, and that request and reply
  together are no whole number of replies; 1, 3 and 2 keep both.  The three
  setups are a supply whose request is shorter than a reply, one whose request
  is longer, and an INA219 beside a supply of unknown type.  Two descriptors are
  enough for two threads and can run out.  The bus words are an overflow, 12 V and
  16.384 V, the first value that is negative in 16 bits.  `PublishingProofs` covers
  the real sizes and all words.
* *Array*: with growth by 2, three objects fill the first block, force a second
  one and leave gaps at its end; `ArrayListProofs` covers all other sizes.
* *Weather*: the lines contain nesting of both kinds, an empty array, an object
  inside an array, an empty name, commas that are skipped and that are missing,
  marks behind the value, objects that end behind a colon, a number out of range,
  an unfinished string and each kind of wrong mark; an `ASSUME` of `MCWeather` says
  which of them the grammar accepts; the buffer (17 tokens) holds the longest line
  with its two newlines but not two lines.

`CHECK_DEADLOCK FALSE` is used where the modelled program may be over: all
launches done (PidFile) or launcher and daemon gone (DaemonFork).  The other
modules say explicitly when they are over, or never are.

### Fairness

* `PidFile`: `WF(Launcher(p))`, `WF(Daemon(p))`, `WF(Die(p))`: the kernel schedules
  runnable processes, its calls return, and a deadly signal ends its process some
  time.  Launching, stopping, failing and dying are
  never obliged.
* `DaemonFork`: the same for the three processes.  The launcher's `select()` has
  a time limit, so `GiveUp` is part of what it does by itself.
* `Display`: weak fairness for each thread (`ThreadSpec`); for DisplayEventShown
  also strong fairness for `RefreshDue`, because the refresh timer compares with a
  clock that only advances and so expires again and again, though it is not due in
  every round.  A wait of `lcd_updater()` ends by its time limit.
* `LcdBus`: none, only safety is asked.
* `MqttSession`: the threads, the signal loop, the steps of `finish` and the
  broker.  No fairness for signals, messages, faults, or the publication interval.
* `Publishing`: both threads, and a sensor that is there converts: otherwise
  `ina_219_device_get_bus_voltage()` waits for ever.  A read always ends, as the
  port gives up after half a second.
* `Weather`: `main_loop` goes on with a line it has begun.  Nothing obliges the
  other program to write.

## What the checks show

Where launches do not overlap, the PID file keeps its promise through crashes
and reused pids, and `-k restart` works whether the old daemon obeys, must be
killed, or is gone, except in the cases that `RestartBringsUp` names: the
restarting run is killed itself, it met an empty file or a pid that belongs to
another program by now, or the daemon it sent SIGKILL was still there when it
probed for the last time.  Every launch ends, with everything switched on.  The launcher's
report is always true, and it ends whoever dies.  The display tears no frame and
shows no NULL; characters and the backlight never meet on the port outside the
cursor commands.  The start puts the LCD in step from every state a dead daemon
can have left it in, with two tries instead of three it would not.  The lengths
alone make sure that an accepted reply of the power supply is a whole one, however
many bytes the line loses, or when it repeats the reply, as long as it does not do
both and one publication asks at a time.  A connection that is up ends announced and
subscribed whatever was lost before, and a stop signal that the pipe has taken
ends the daemon.  The end of the daemon becomes known, with one exception that
the property names: an `Online` that `on_connect()` publishes after `finish` has
published `Offline`, followed by a clean disconnect, stays.  A weather line is
never mixed with another, and one that is no value leaves the sensors as they were.

### Disagreements with the code's own words

1. **Two daemons** (`PidFileOverlap`).  A launcher that has found a stale file
   unlinks it *by name* (`dpid.c:130`).  If another launcher unlinked the stale
   file and created its own in the meantime, the new file goes, and both daemons
   start, although `main()` refuses to ("Daemon already running").  The stale file
   is that of a daemon that crashed.  `JoinReturns` is off in this run, because the
   removal by name after a failed start (below) is another way to two daemons.
2. **The event page is not shown** (`DisplayEventShown`).  `lcd_cpuinfo.c:105`
   lists page 5 as the last MQTT event; `boardDataUpdate()` reduces the page
   modulo 5 in the next round.
3. **A byte is lost** (`LcdBusSent`).  `CharLCD_setCursor()` sends without the
   mutex; a backlight change in the middle rewrites the port from an older value.

### Met while modelling, no run of their own

* `daemon_pid_file_is_running()` returns 0, not -1, for a file that exists and
  is still empty (`dpid.c:117`); `dpid.h:69-70` knows a pid or a negative value.
* `daemon_pid_file_remove()` at `finish` removes by name (`dpid.c:260`), even
  after a start that failed because another daemon owns the file.
* The two event strings are replaced one after the other (`lcd_cpuinfo.c:1328`):
  the page may show the name of one event with the state of another.
* `CharLCD_setBacklight()` writes pins 8, 7 and 6, of which pin 8 is on the port
  of the LCD, which is why backlight and characters share a port at all.
* The counter of `backlight()` (`lcd_cpuinfo.c:1105-1111`) is changed by three
  threads; two calls that overlap may leave the colour nobody asked for last.
* A daemon that dies between creating its PID file and writing its pid leaves an
  empty file.  Every later probe reads pid 0 in it, `kill(0, 0)` succeeds, and no
  start works until somebody removes the file; `-k shutdown` and `-k restart` send
  their signal to pid 0, their own process group (`dpid.c:117-127`, 158-173).
* Two publications that meet share the static reply and the pointer to it
  (`faraday_serial.c:82-83`, `lcd_cpuinfo.c:930-936`).  In the default build, which
  is not optimised, the pointer is loaded again after its test and may be NULL by
  then: `publish_state()` or the weather page follow it.  The two threads also read
  each other's bytes from the line.
* A power supply of unknown type returns without closing the port
  (`faraday_serial.c:193-194`), one descriptor per publication.
* When the line loses bytes and repeats the reply, the lengths may come out right by
  accident: without the echo, `read()` takes 13 bytes of the first reply for it, and
  16 bytes out of the two replies are accepted as one, since the wrong check sum is
  only logged (`faraday_serial.c:100-141`).
* `faraday_serial.c:160` speaks of 115,200 bps where the line is set to 9600; the
  pause of 120 us per byte (line 95) is that of 115,200 and not of 9600, so the
  reads depend on their own half second.  A `tcsetattr()` that fails, and a wrong
  check sum, are only logged.
* The bus voltage of the INA219 is negative from 16.384 V on although it is set up
  for `INA_219_DEVICE_BUS_VOLTAGE_RANGE_32` (`ina219.c:98`).
* Between the creation of the PID file (`dpid.c:205`) and the last handler
  (`lcd_cpuinfo.c:1724`, `dsignal.c:83`, one by one) a SIGTERM or SIGINT takes its
  default action: the daemon dies and leaves its file, which `CleanExitLeavesNoFile`
  names beside SIGKILL and crashes.
* `daemon_pid_file_kill_wait(SIGKILL, 0)` (`lcd_cpuinfo.c:196`) may give up while
  the process is still going; `-k restart` ignores the result, probes, finds
  "Daemon already running" and brings up nothing.
* A signal that finds the pipe full is lost
  (`dsignal.c:16`), and the handler cannot say so.
* An I2C read that fails in `pinMode()` gives 0xFF, which makes every pin of the
  port but one an input, until the next `pinMode()` of each
  (`MCP23017.c:91`).  When `MCP23017_openI2C()` fails, `CharLCD_start()` returns and
  the program goes on with a display that is not there.
* The return value 0 is sent before the LCD is initialised
  (`lcd_cpuinfo.c:1730`); a daemon without an LCD is reported as started.
* After an error of `select()` the signal loop breaks without setting `do_exit`
  (`lcd_cpuinfo.c:1787`); `finish` then waits for threads that never end.
* `regfree()` comes before the join of the thread that uses the expression
  (`lcd_cpuinfo.c:1854`): at most one match too late, which is undefined.
* `mosquitto_destroy()` comes before the join of `main_loop`
  (`lcd_cpuinfo.c:1424`, `1856`) and `mosq` is not cleared: a round that was begun
  before `do_exit` may still publish with the destroyed client, as the guard
  `if (!mosq)` of `publish_double()` does not see it.  No new round begins.
* `parse_value()` tests `errno` without clearing it (`nxjson.c:293`): after one
  number out of range, later numbers are refused until another call sets `errno`.
* The loop of an object ends at a `}` right behind the colon of a key
  (`nxjson.c:259`): the line `{"a":}`, which is no JSON, is taken and empties the list.
* `get_mps()` frees the child it looked up instead of the root
  (`lcd_cpuinfo.c:793`); when "last1min" is missing, that child is the static dummy.
  The keys it compares lie in the text that `read_and_parse_json()` keeps in its own
  stack frame (`strndupa()`, line 756) and that is gone by then.
* `array_del()` skips the neighbour of a deleted item and `array_resize()` grows
  by one whatever it is asked for; the program calls neither.

## What is proved

TLAPS checks every proof to its leaves.

**PidFileProofs** (assumption `Sequential`: no overlap and no failing system
call; any number of runs, any crashes, any reuse of pids; the type holds without
it).  `OneDaemon` alone is not inductive: that the next launcher finds the
daemon depends on the file being in place and complete.  The invariant `Inv`
therefore says who owns the file at each location (`OwnerNamed`, `WriterNamed`,
`FileOwned`), that a probe looks at the inode the path names (`ProbeCurrent`),
that only a dead owner's file is about to be unlinked (`UnlinkDead`), and that
creation meets no file (`CreateFree`).  `OneLauncher` is what `Sequential` gives.
From it follow `FindableCorrect`, `OneDaemonCorrect`, `CleanExitCorrect`,
`OnlyDeadFilesUnlinkedCorrect` and `Refinement`: `PidFile` implements
`SingleInstance`.  PidFileOverlap shows that the assumption is needed.

**DaemonForkProofs** (for every set of processes that may die).  What the
launcher will say is decided by what is in the pipes, so `Inv` gives the
contents a meaning (`PidMeans`, `ValueMeans`), ties the write ends to the
locations (`WritersAlive`), and orders the births of the processes (`Births`).
`StartedCorrect`, `FailedCorrect`, `OneAnswerCorrect` and `PidComesCorrect` follow.

**ArrayListProofs** (for every set of objects and every positive `MinDelta`).
Every operation is one of two changes, `InsertedAt` and `RemovedAt`, or keeps
the items; two lemmas show that both keep each object in one place, two more
that they are the operations of the list; `PutFacts` and `RoomFacts` keep every write
inside.  `NoArray` is the strengthening:
`array_create()` starts from an empty array, so nothing may be left in the old
one.  Theorems: `InBoundsCorrect`, `ConservationCorrect`, `Refinement`.

**DisplayProofs** (for every number of messages and every set of readings).  A
frame has no row or both (`Filled`), and one that differs from the LCD is on its
way or its signal was lost (`OnItsWay`): that is what makes
`StaleOnlyAfterLostSignal` inductive.  For `EventPair` the invariant follows
the updates of `DispMode` in flight: their last is always the one that brings
the page back into the table (`EndsWell`), so outside them page 5 can only be
that of a message (`EventInv`).  How far `DispMode` strays is a second invariant,
`PageInv`: the updates still due in a round are the rest of one of eight lists
(`Lists`), each list bounds the page it begins from (`From`), and the register
between a load and its store has the same bounds, so that an `on_message()` in
between changes nothing.  A page of -1, the left button on page 0, survives the
updates only in a round in which the refresh is due; its `default` leads back to
page 0.  Theorems: `FrameWholeCorrect`, `StaleCorrect`, `EventPairCorrect`,
`PageCorrect` (every round begins with a page of 0..5), `TypeCorrect`.

**MqttSessionProofs** (for every number of faults and messages and every size of
the pipe).  `TimerInv` counts who has passed the test of the timer and not set
it yet (`Stamping`): together with what was sent they are two at most.
`RegexInv` ties the life of the expression to the signal loop; a late match
leaves the MQTT thread at its test of `do_exit`, which it does not pass again.
`NetInv` is the invariant of the session, beside the other one.  `LinkInv` says
what can lie on a connection in which order (CONNECT in front, DISCONNECT at the
end, nothing on one that is down) and that a session lives on one that is up.
`AnnounceInv` names the four places where an announcement can be on its way
between the answer to CONNECT and the broker.  `FarewellInv` says that a retained
`Online` has a session whose will replaces it, and that `Offline` follows every
`Online` on the connection once `finish` has sent it; the late `Online` is the
exception both the property and the invariant name.
Of the type three parts need an argument of their own: a signal that meets a full
pipe is dropped (`PipeInv`), the socket goes with the client at the latest
(`ClientInv`), and the messages matched and those waiting on the connection are
together no more than those delivered (`CountInv`, over `Waiting`).
Theorems: `OneLateMatchCorrect`, `StateOncePerCallerCorrect`, `AnnouncedCorrect`,
`LastWordOfflineCorrect`, `TypeCorrect`.

**PublishingProofs** (for every size of requests and replies, any words of the
sensor and any number of descriptors).  `TimerInv` says that a publication that
nobody joined is alone, and that nothing is on the line when the timer expires.
From there `LineInv` follows the line: empty, then an answer that is not garbled,
then too little for a reply or a reply first; `AfterEcho` and `AcceptableFacts` are the
arithmetic of the lengths behind it.  `ResultInv` and `DisplayInv` say where the
pointer and the static reply agree, `FdsInv` counts the descriptors, and
`SwapUndone` and `ShiftFacts` are the arithmetic of the registers.  `RestInv` adds
what of the type the others do without, the limit on descriptors first.  Theorems:
`WholeReplyCorrect`, `PointerGoodCorrect`, `DescriptorsReturnedCorrect`,
`VoltageMeasuredCorrect`, `TypeCorrect`.

**WeatherProofs** (for every set of lines and names and every window; a line is a
sequence of tokens and the newline is no name: `LinesAssumption`,
`NewlineAssumption`, `WindowAssumption`, `NamesAssumption`).
`TreeInv` ties the stack of open containers to the nodes: a value outside every
container is the first of its line.  That makes `OneTree` inductive, and with it
the one `nx_json_free()` is enough.  `LogInv` says that the log and the piece still
unwritten together are an end of whole lines; the lemmas about ends of sequences
then show that the search for the last newline finds one whole line, wherever the
buffer cuts and whenever the log is rotated (`WholeLine`).  `FromThisTree` follows
the walk node by node.

The second half of the module shows that the parser and the grammar of the
positions agree, for lines of any length and any nesting.  No induction over the
line is needed, because the state of the parser already contains what such an
induction would carry, and the steps of the parser are the induction.  `TextInv`
says that the text is the rest of the line, so a count of tokens (`Read`) is a place
in it.  `Sound` says that every token read is legal and how many brackets are open
behind them; `Places` gives each node the token it came from, in order, and each
open container the token that opened it and that has been open since; `ModeFits`
ties the mode of the parser to what is due at the next token.  Together they are
`RunAt`, and `Walked` says that the list is `Says` of the line as far as the walk has
come.  What the parser needs to know of the line at each token (`Standing`, `Due`)
then follows from the innermost open container alone (`WithinInnermost`).  One
lemma per kind of step keeps `RunAt` (`CommaSkipped`, `ValueRead`, `KeyRead`,
`ContainerClosed`); `Refused` and `NoValue` show the other direction, that nothing
refused begins with a value, and `OneValue` that no line begins with two.
`GrammarInv` collects this.

Theorems: `OneTreeCorrect`, `WholeLineCorrect`, `FromThisTreeCorrect`, `TypeCorrect`;
`GrammarCorrect`, `SensorsCorrect` (the list only changes for a line that begins with a
value, and the list a round leaves is what its own line says), `WellFormedCorrect` (no
line that begins with a value is thrown away, but for `errno`).

**LcdBusProofs** (for every text of bytes, any number of frames and restarts, any
set of callers of `backlight()` with any requests, and faults on no, either or both
ports; `TextAssumption`, `BoundsAssumption`, `NamesAssumption`, `PortsAssumption`,
`CallersAssumption`).  The programs of the threads are concatenations, so the
first lemmas say for each position of a program what kind of call stands there,
how many operations it has and which pin and value each of them drives (`Kind`,
`Steps`, `PinOf`, `ValOf`); the rest of the proof only speaks of these.  It goes in
five layers, each an invariant that rests on those before it.

* `Inv`: the types, that the start is alone on the bus (`StartAlone`), and that the
  mutex is held exactly between lock and unlock (`Exclusion`).  `OverlapCorrect`
  follows: whoever drives pins and does not hold the mutex is `lcd_updater`, in a
  cursor command.
* `Transfers`: while nothing overlapped or failed on a port, one thread at most is
  between a read and its write there, and what it has read is what the latch
  holds.  It is what makes a read-modify-write of one pin change one pin.
* `LightsInv`: the pins the holder of the mutex has already written agree with the
  colour it passed, and all do when nobody is about to write them
  (`BacklightWholeCorrect`).
* `AskedInv`: while one caller is alone in `backlight()`, how counter, copy and
  chosen colour relate to the request at each place of it (`LightAsAskedCorrect`).
* `BytesInv`: `Sending` says what lines and kept nibble are in front of each of the
  16 operations that send a byte, `Tried` the same for the four nibbles of the
  start, which bring an LCD of unknown width and kept nibble to eight lines and
  then to four, and `InStep` counts the bytes received against those the program
  has sent by its position (`BytesIntactCorrect`).  `BitsOf` and `NibblesOf` are the
  arithmetic that rebuilds a byte from its bits.

**Only model-checked**: liveness under fairness and everything that needs
ENABLED (restart, end of a launch, end of the threads, stop signals,
reconnection, end of a round), because the prover does not reach it; and
the disagreements above, which are violated.

## What is not modelled

* `dexec.c`, `dzip.c`: not called.  `dlog.c`, `dmem.c`, `dnonblock.c`,
  `version.c`: output and wrappers without a state of their own.
* Foreground mode (the launcher is itself the daemon), a read error of the pid
  pipe that is not its end, a child that is stopped instead of ended.  `select()`
  on a return value pipe that was never opened is undefined; the launcher may
  give up or die there, and both are in the model.
* `pthread_join()` of a thread that was never started, after a failed start:
  `JoinUnstarted` allows its two outcomes.
* The pin directions of the expander (a pin that is an output stays one unless a
  transfer fails), the reading of the buttons over it, and the commands of
  `CharLCD.c` that nobody calls.
* The text of a publication, and the voltage and current that are published again
  when the power supply does not answer.  An INA219 value that becomes NAN between
  its test and its use in the MQTT thread is printed as it is.
* The systemctl calls of `on_message()`.
* The second list of sensors, the characters below the tokens of the parser,
  and the values of the sensors.
* `array_resize()`, `array_qsort()` and null items: not used.
* `publish_sensors()` and `publish_piaware()`: main_loop only, their timers are
  nobody else's.  The aircraft statistics free a part of what they parsed and read
  keys that are gone (see above); what follows is undefined, so a model of it would
  promise nothing.
* The calibration of the INA219 and its shunt voltage, which nobody asks for.

## Plan

1. (done) `PidFile`, `SingleInstance`, `DaemonFork` and their proofs.
2. (done) `Display`, `LcdBus`, `MqttSession`.
3. (done) `ArrayList` with `ObjectList` and its proofs; `NxJson` and `Weather`.
4. (done) `Publishing` and `Ina219`; the start and the restart in `LcdBus`; the
   signal pipe in `MqttSession`.
5. `nx_json_get` with its dummy node, as far as the weather lines use the tree;
   the second list of sensors.
6. (done) Proofs about `Display`, `MqttSession` and `Publishing`.
7. (done) Proofs about `Weather` (`OneTree`, whole lines, the grammar), the session of
   `MqttSession`, and `LcdBus` down to the bytes.
8. (done) Proofs of the whole type invariants of `Display`, `MqttSession` and
   `Publishing`, and of the range of the page between rounds.
9. Proofs: safety lemmas towards the end of the threads and of the publications.
