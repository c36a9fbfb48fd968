------------------------------ MODULE Display ------------------------------
(***************************************************************************)
(* What lcd_cpuinfo shows and when: the page number DispMode, shared by    *)
(* main_loop (buttons, rotation, lcd_update) and on_message, and the frame *)
(* lcdFbTD that lcd_update hands to the thread lcd_updater through a mutex *)
(* and a condition variable.                                               *)
(*                                                                         *)
(* Neither DispMode nor mqtt_display1/2 is protected: each of their        *)
(* accesses is a step of its own.  lcd_mutex is held by lcd_updater while  *)
(* it is past the wait; lcd_update holds it for one step.                  *)
(***************************************************************************)
EXTENDS Integers, Sequences

CONSTANTS
    MaxMessages,    \* bound on the accepted MQTT messages
    Readings        \* what a page may show (a date, a temperature, an address...)

ASSUME MessagesAssumption == MaxMessages \in Nat

VARIABLES
    display,        \* is there a display (no_display = 0)?
    do_exit,        \* set by the signal loop of main()
    DispMode,       \* the page
    mpc, ops, reg,  \* main_loop: location, pending updates of DispMode, register
    flag,           \* update_flag of boardDataUpdate()
    press,          \* BUTTON_*_press: buttons seen down in the last round
    fb, td,         \* lcdFb and lcdFbTD
    upc,            \* lcd_updater: location
    screen,         \* the two rows the LCD shows
    qpc, msg,       \* on_message: location, number of the last message
    ev1, ev2,       \* mqtt_display1, mqtt_display2 (0 is NULL)
    lost            \* history: the last signal found nobody in the wait

page == <<DispMode, reg, ops, flag, press>>
frames == <<fb, td, screen, lost>>
events == <<msg, ev1, ev2>>
vars == <<display, do_exit, page, mpc, frames, upc, qpc, events>>

Buttons == {"UP", "DOWN"}
Empty == <<"empty", 0>>      \* the rows of lcdFb before the first page: ""
Blank == <<"blank", 0>>      \* sixteen spaces
Rows == {Empty, Blank} \cup ({"page"} \X Readings) \cup ({"event"} \X (0..MaxMessages))

TypeOK ==
    /\ display \in BOOLEAN /\ do_exit \in BOOLEAN
    /\ DispMode \in -1..6 /\ reg \in -1..6
    /\ mpc \in {"head", "load", "store", "due", "switch", "row2", "push", "done"}
    /\ ops \in Seq({"inc", "dec", "mod", "and"}) /\ Len(ops) \leq 3
    /\ flag \in BOOLEAN /\ press \subseteq Buttons
    /\ {fb[1], fb[2], td[1], td[2], screen[1], screen[2]} \subseteq Rows
    /\ upc \in {"head", "wait", "woken", "timedout", "row1", "row2", "done"}
    /\ qpc \in {"idle", "ev2", "mode", "done"}
    /\ {msg, ev1, ev2} \subseteq 0..MaxMessages
    /\ lost \in BOOLEAN

Init ==
    /\ display \in BOOLEAN
    /\ do_exit = FALSE
    /\ DispMode = 1 /\ reg = 0 /\ ops = <<>> /\ flag = FALSE /\ press = {}
    /\ fb = <<Empty, Empty>> /\ td = fb /\ screen = <<Blank, Blank>> /\ lost = FALSE
    /\ msg = 0 /\ ev1 = 0 /\ ev2 = 0
    /\ mpc = "head" /\ upc = "head" /\ qpc = "idle"

-----------------------------------------------------------------------------
(* main_loop: boardDataUpdate() and the rotation of pages.                 *)

MAX_DISP_MODE == 5

\* The remainder of C truncates towards zero.
Remainder(a, b) == IF a >= 0 THEN a % b ELSE -((-a) % b)

Update(op, m) ==
    CASE op = "inc" -> m + 1
      [] op = "dec" -> m - 1
      [] op = "mod" -> Remainder(m, MAX_DISP_MODE)
      [] op = "and" -> m % 2                        \* DispMode &= 1

\* The updates of a round: the buttons newly pressed, the wrap, and the rotation
\* when timer_auto_sw is due, which a button has just put off.
Updates(new, rotate) ==
    (IF "UP" \in new THEN <<"inc">> ELSE <<>>)
        \o (IF "DOWN" \in new THEN <<"dec">> ELSE <<>>)
        \o <<"mod">>
        \o (IF rotate THEN <<"inc", "and">> ELSE <<>>)

\* The buttons are read and latched; without an LCD all read as pressed.
ReadButtons(down) ==
    /\ mpc = "head" /\ ~do_exit
    /\ ~display => down = Buttons
    /\ press' = down
    /\ flag' = (down \ press # {})
    /\ \E rotate \in BOOLEAN :
        /\ rotate => ~flag'
        /\ ops' = Updates(down \ press, rotate)
    /\ mpc' = "load"
    /\ UNCHANGED <<display, do_exit, DispMode, reg, frames, upc, qpc, events>>

LoadMode ==
    /\ mpc = "load"
    /\ reg' = DispMode
    /\ mpc' = "store"
    /\ UNCHANGED <<display, do_exit, DispMode, ops, flag, press, frames, upc, qpc, events>>

StoreMode ==
    /\ mpc = "store"
    /\ DispMode' = Update(Head(ops), reg)
    /\ ops' = Tail(ops)
    /\ reg' = 0
    /\ mpc' = IF Tail(ops) = <<>> THEN "due" ELSE "load"
    /\ UNCHANGED <<display, do_exit, flag, press, frames, upc, qpc, events>>

\* timer_display: a button has just made it due.
RefreshDue ==
    /\ mpc = "due"
    /\ flag' = FALSE
    /\ mpc' = "switch"
    /\ UNCHANGED <<display, do_exit, DispMode, reg, ops, press, frames, upc, qpc, events>>

RefreshNotDue ==
    /\ mpc = "due" /\ ~flag
    /\ mpc' = "head"
    /\ UNCHANGED <<display, do_exit, page, frames, upc, qpc, events>>
-----------------------------------------------------------------------------
(* main_loop: lcd_update().                                                *)

\* The end of lcd_update(): a frame that differs is handed over.
Compare == mpc' = IF display /\ td # fb' THEN "push" ELSE "head"

\* A page of the table, both rows from one reading of its source.  Which page it
\* is makes no difference to what happens to the frame.
FillPage ==
    /\ mpc = "switch" /\ DispMode \in 0..4
    /\ \E v \in Readings : LET row == <<"page", v>> IN fb' = <<row, row>>
    /\ Compare
    /\ UNCHANGED <<display, do_exit, page, td, screen, lost, upc, qpc, events>>

\* default: back to page 0, the frame stays as it is.
FillDefault ==
    /\ mpc = "switch" /\ DispMode \notin 0..5
    /\ DispMode' = 0
    /\ UNCHANGED frames
    /\ Compare
    /\ UNCHANGED <<display, do_exit, reg, ops, flag, press, upc, qpc, events>>

\* get_mqqt_last_event(): each of the two strings makes a row.
FillEvent ==
    /\ mpc = "switch" /\ DispMode = 5
    /\ fb' = <<<<"event", ev1>>, Blank>>
    /\ mpc' = "row2"
    /\ UNCHANGED <<display, do_exit, page, td, screen, lost, upc, qpc, events>>

FillEventRow2 ==
    /\ mpc = "row2"
    /\ fb' = <<fb[1], <<"event", ev2>>>>
    /\ Compare
    /\ UNCHANGED <<display, do_exit, page, td, screen, lost, upc, qpc, events>>

\* lcd_mutex is held by lcd_updater.
Locked == upc \in {"row1", "row2"}

\* Faulty: the frame is copied without the lock.
PushUnlocked ==
    /\ mpc = "push"
    /\ td' = fb
    /\ upc' = IF upc = "wait" THEN "woken" ELSE upc
    /\ lost' = (upc \notin {"wait", "woken"})
    /\ mpc' = "head"
    /\ UNCHANGED <<display, do_exit, page, fb, screen, qpc, events>>

\* Faulty: the frame is copied without a signal.
PushSilent ==
    /\ mpc = "push" /\ ~Locked
    /\ td' = fb
    /\ lost' = (upc \notin {"wait", "woken"})
    /\ mpc' = "head"
    /\ UNCHANGED <<display, do_exit, page, fb, screen, upc, qpc, events>>

\* Lock, copy the frame, signal, unlock.  The signal reaches lcd_updater only
\* in its wait.
Push ==
    /\ mpc = "push" /\ ~Locked
    /\ td' = fb
    /\ upc' = IF upc = "wait" THEN "woken" ELSE upc
    /\ lost' = (upc \notin {"wait", "woken"})
    /\ mpc' = "head"
    /\ UNCHANGED <<display, do_exit, page, fb, screen, qpc, events>>

LeaveMainLoop ==
    /\ mpc = "head" /\ do_exit
    /\ mpc' = "done"
    /\ UNCHANGED <<display, do_exit, page, frames, upc, qpc, events>>
-----------------------------------------------------------------------------
(* lcd_updater.                                                            *)

UpdaterGoto(l) ==
    upc' = l /\ UNCHANGED <<display, do_exit, page, mpc, frames, qpc, events>>

\* pthread_mutex_lock() and the start of the wait, which releases the mutex.
UpdaterHead == upc = "head" /\ UpdaterGoto(IF do_exit THEN "done" ELSE "wait")

\* Faulty: a wait without a timeout.
WaitTimesOutFaulty == upc = "wait" /\ FALSE /\ UpdaterGoto("timedout")

\* pthread_cond_timedwait() ends without a signal: a second has passed, or a
\* spurious wake-up.
WaitTimesOut == upc = "wait" /\ UpdaterGoto("timedout")
WakesSpuriously == upc = "wait" /\ UpdaterGoto("woken")

\* The wait ends when the mutex is taken again; after a timeout it is released
\* at once.
Reacquire ==
    \/ upc = "woken" /\ UpdaterGoto("row1")
    \/ upc = "timedout" /\ UpdaterGoto("head")

ShowRow(row) ==
    /\ screen' = IF display /\ td[row] # Empty THEN [screen EXCEPT ![row] = td[row]]
                                                ELSE screen
    /\ UNCHANGED <<display, do_exit, page, mpc, fb, td, qpc, events>>

PrintRow1 == upc = "row1" /\ upc' = "row2" /\ ShowRow(1) /\ UNCHANGED lost
PrintRow2 == upc = "row2" /\ upc' = "head" /\ ShowRow(2) /\ lost' = FALSE
-----------------------------------------------------------------------------
(* The MQTT thread and the signal loop.                                    *)

\* Faulty: the page is selected before the strings are there.
ReceiveFaulty ==
    /\ qpc = "idle" /\ ~do_exit /\ msg < MaxMessages
    /\ msg' = msg + 1
    /\ DispMode' = 5
    /\ qpc' = "ev2"
    /\ UNCHANGED <<display, do_exit, reg, ops, flag, press, mpc, frames, upc, ev1, ev2>>

\* on_message() for a topic the regular expression accepts: the name of the
\* device, its state, then the page, in this order.
Receive ==
    /\ qpc = "idle" /\ ~do_exit /\ msg < MaxMessages
    /\ msg' = msg + 1
    /\ ev1' = msg'
    /\ qpc' = "ev2"
    /\ UNCHANGED <<display, do_exit, page, mpc, frames, upc, ev2>>

StoreEvent2 ==
    /\ qpc = "ev2"
    /\ ev2' = msg
    /\ qpc' = "mode"
    /\ UNCHANGED <<display, do_exit, page, mpc, frames, upc, msg, ev1>>

SelectEventPage ==
    /\ qpc = "mode"
    /\ DispMode' = 5
    /\ qpc' = "idle"
    /\ UNCHANGED <<display, do_exit, reg, ops, flag, press, mpc, frames, upc, events>>

LeaveMqtt ==
    /\ qpc = "idle" /\ do_exit
    /\ qpc' = "done"
    /\ UNCHANGED <<display, do_exit, page, mpc, frames, upc, events>>

RequestExit ==
    /\ ~do_exit
    /\ do_exit' = TRUE
    /\ UNCHANGED <<display, page, mpc, frames, upc, qpc, events>>
-----------------------------------------------------------------------------
MainLoop ==
    \/ \E down \in SUBSET Buttons : ReadButtons(down)
    \/ LoadMode \/ StoreMode
    \/ RefreshDue \/ RefreshNotDue
    \/ FillPage \/ FillDefault \/ FillEvent \/ FillEventRow2
    \/ Push \/ LeaveMainLoop

Updater ==
    UpdaterHead \/ WaitTimesOut \/ Reacquire \/ PrintRow1 \/ PrintRow2

OnMessage == Receive \/ StoreEvent2 \/ SelectEventPage \/ LeaveMqtt

Terminated == mpc = "done" /\ upc = "done" /\ qpc = "done" /\ UNCHANGED vars

Next == MainLoop \/ Updater \/ WakesSpuriously \/ OnMessage \/ RequestExit \/ Terminated

Spec == Init /\ [][Next]_vars

\* Every thread is scheduled and a second passes in the wait.  Nothing obliges a
\* message, a button or the exit.
ThreadFairness ==
    WF_vars(MainLoop) /\ WF_vars(Updater)
        /\ WF_vars(qpc # "idle" /\ OnMessage) /\ WF_vars(LeaveMqtt)

ThreadSpec == Spec /\ ThreadFairness

\* The refresh timer expires again and again too, though not in every round.
FairSpec == ThreadSpec /\ SF_vars(RefreshDue)
-----------------------------------------------------------------------------
(* Safety.                                                                 *)

\* When lcd_updater has printed the second row, the two rows on the LCD are of
\* one frame: the mutex keeps lcd_update() from changing it halfway.
PrintedFrameWhole ==
    [][PrintRow2 /\ display /\ td[1] # Empty => screen' = td]_vars

\* The event page is only composed of strings that are there: no NULL reaches
\* strlen(), although no lock orders the two threads.  A name is paired with the
\* state of an older event only while on_message() is between the two strings.
EventPair ==
    [][mpc = "row2" /\ mpc' # "row2" =>
           LET name == fb'[1][2] state == fb'[2][2]
           IN  0 \notin {name, state} /\ (state < name => qpc = "ev2")]_vars

\* The LCD lags behind the last frame only after a signal sent while nobody
\* waited for it.
StaleOnlyAfterLostSignal ==
    upc \in {"head", "wait", "timedout"} /\ td[1] # Empty /\ screen # td => lost
-----------------------------------------------------------------------------
(* Liveness.                                                               *)

\* Once do_exit is set all three threads end: none of them stays in a wait.
ThreadsStop == do_exit ~> (mpc = "done" /\ upc = "done" /\ qpc = "done")

\* A comment of the code promises the last MQTT event on page 5: an event is
\* shown unless a later one, or the exit, comes first.
EventShown ==
    \A n \in 1..MaxMessages :
        (qpc = "mode" /\ msg = n /\ display)
            ~> (screen = <<<<"event", n>>, <<"event", n>>>> \/ msg > n \/ do_exit)
=============================================================================
