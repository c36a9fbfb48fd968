---------------------------- MODULE DisplayProofs ---------------------------
(***************************************************************************)
(* Proofs about Display, for any number of messages and any readings: the  *)
(* frame that is printed is whole, only a lost signal leaves the LCD       *)
(* behind, and the event page is composed of strings that are there.       *)
(***************************************************************************)
EXTENDS Display, SequenceTheorems, TLAPS

Frames == [1..2 -> Rows]
Ops == {"inc", "dec", "mod", "and"}

\* What of the type the invariants below rest on.
Typed ==
    /\ display \in BOOLEAN
    /\ DispMode \in Int /\ reg \in Int
    /\ ops \in Seq(Ops)
    /\ mpc \in {"head", "load", "store", "due", "switch", "row2", "push", "done"}
    /\ fb \in Frames /\ td \in Frames /\ screen \in Frames
    /\ upc \in {"head", "wait", "woken", "timedout", "row1", "row2", "done"}
    /\ qpc \in {"idle", "ev2", "mode", "done"}
    /\ msg \in 0..MaxMessages /\ ev1 \in 0..MaxMessages /\ ev2 \in 0..MaxMessages
    /\ lost \in BOOLEAN
-----------------------------------------------------------------------------
(* The frame.                                                              *)

\* A frame has no row or both.
Filled(frame) == (frame[1] = Empty) = (frame[2] = Empty)

\* What differs from the last frame on the LCD is on its way there, or its signal
\* was lost.
OnItsWay ==
    td[1] # Empty =>
        \/ screen = td
        \/ lost
        \/ upc \in {"woken", "row1", "row2"}

FrameInv ==
    /\ Filled(fb) /\ Filled(td)
    /\ ~display => td = <<Empty, Empty>> /\ mpc # "push"
    /\ OnItsWay
    /\ upc = "row2" /\ td[1] # Empty => screen[1] = td[1]
-----------------------------------------------------------------------------
(* The events.                                                             *)

\* The last update of a round leaves the page in the table.
EndsWell(s) == s # <<>> => s[Len(s)] \in {"mod", "and"}

Updating == mpc \in {"load", "store"}

EventInv ==
    /\ Updating => ops # <<>> /\ EndsWell(ops)
    \* The strings are those of the last message, but between the two.
    /\ ev1 = msg /\ ev2 <= msg /\ (qpc # "ev2" => ev2 = msg)
    /\ qpc \in {"ev2", "mode"} => msg > 0
    \* Outside the updates page 5 is that of a message.
    /\ DispMode = 5 /\ ~Updating => ev1 > 0 /\ ev2 > 0
    /\ mpc = "row2" => /\ fb[1] \in {"event"} \X (1..ev1)
                       /\ ev2 > 0

Inv == FrameInv /\ EventInv
-----------------------------------------------------------------------------
\* Each kind of row is a row, and only Empty is empty.
LEMMA RowFacts ==
    /\ Empty \in Rows /\ Blank \in Rows /\ Blank # Empty
    /\ \A v \in Readings : <<"page", v>> \in Rows /\ <<"page", v>> # Empty
    /\ \A n \in 0..MaxMessages : <<"event", n>> \in Rows /\ <<"event", n>> # Empty
  BY DEF Empty, Blank, Rows

\* So do the updates a round begins with.
LEMMA UpdatesEndWell ==
    ASSUME NEW new, NEW rotate
    PROVE  Updates(new, rotate) \in Seq(Ops) /\ Updates(new, rotate) # <<>>
               /\ EndsWell(Updates(new, rotate))
<1> DEFINE buttons == (IF "UP" \in new THEN <<"inc">> ELSE <<>>)
                        \o (IF "DOWN" \in new THEN <<"dec">> ELSE <<>>)
           wrap == buttons \o <<"mod">>
           rest == IF rotate THEN <<"inc", "and">> ELSE <<>>
<1>1. /\ <<"inc">> \in Seq(Ops) /\ <<"dec">> \in Seq(Ops) /\ <<>> \in Seq(Ops)
      /\ <<"mod">> \in Seq(Ops) /\ <<"inc", "and">> \in Seq(Ops)
  BY DEF Ops
<1>2. buttons \in Seq(Ops)
  BY <1>1, ConcatProperties
<1> HIDE DEF buttons
<1>3. wrap \in Seq(Ops) /\ Len(wrap) > 0 /\ wrap[Len(wrap)] = "mod"
  <2>1. wrap \in Seq(Ops) /\ Len(wrap) = Len(buttons) + 1
    BY <1>1, <1>2, ConcatProperties
  <2>2. Len(buttons) \in Nat
    BY <1>2, LenProperties
  <2>3. wrap[Len(wrap)] = <<"mod">>[Len(wrap) - Len(buttons)]
    BY <1>1, <1>2, <2>1, <2>2, ConcatProperties
  <2>4. QED
    BY <2>1, <2>2, <2>3
<1> HIDE DEF wrap
<1>4. CASE rotate
  <2>1. wrap \o rest \in Seq(Ops) /\ Len(wrap \o rest) = Len(wrap) + 2
    BY <1>1, <1>3, <1>4, ConcatProperties
  <2>2. Len(wrap) \in Nat
    BY <1>3, LenProperties
  <2>3. (wrap \o rest)[Len(wrap) + 2] = <<"inc", "and">>[2]
    BY <1>1, <1>3, <1>4, <2>1, <2>2, ConcatProperties
  <2>4. wrap \o rest # <<>>
    BY <2>1, <2>2, EmptySeq
  <2>5. Updates(new, rotate) = wrap \o rest
    BY DEF Updates, wrap, buttons
  <2>6. QED
    BY <2>1, <2>3, <2>4, <2>5 DEF EndsWell
<1>5. CASE ~rotate
  <2>1. wrap \o rest = wrap
    BY <1>3, <1>5, ConcatEmptySeq
  <2>2. Updates(new, rotate) = wrap \o rest
    BY DEF Updates, wrap, buttons
  <2>3. wrap # <<>>
    BY <1>3, EmptySeq
  <2>4. QED
    BY <1>3, <2>1, <2>2, <2>3 DEF EndsWell
<1>6. QED
  BY <1>4, <1>5

\* An update leaves such a list of updates, or a page that no message selected.
LEMMA UpdateFacts ==
    ASSUME ops \in Seq(Ops), ops # <<>>, EndsWell(ops), reg \in Int
    PROVE  /\ Tail(ops) \in Seq(Ops) /\ EndsWell(Tail(ops))
           /\ Update(Head(ops), reg) \in Int
           /\ Tail(ops) = <<>> => Update(Head(ops), reg) # 5
<1>1. /\ Head(ops) \in Ops /\ Tail(ops) \in Seq(Ops) /\ Len(Tail(ops)) = Len(ops) - 1
      /\ \A i \in 1..Len(Tail(ops)) : Tail(ops)[i] = ops[i + 1]
  BY HeadTailProperties
<1>2. Len(ops) \in Nat \ {0} /\ Head(ops) = ops[1]
  BY EmptySeq
<1>3. EndsWell(Tail(ops))
  <2> SUFFICES ASSUME Tail(ops) # <<>> PROVE Tail(ops)[Len(Tail(ops))] \in {"mod", "and"}
    BY DEF EndsWell
  <2>1. Len(Tail(ops)) \in Nat \ {0}
    BY <1>1, EmptySeq
  <2>2. Tail(ops)[Len(Tail(ops))] = ops[Len(ops)]
    BY <1>1, <1>2, <2>1
  <2>3. QED
    BY <2>2 DEF EndsWell
<1>4. ASSUME Tail(ops) = <<>> PROVE Head(ops) \in {"mod", "and"}
  <2>1. Len(ops) = 1
    BY <1>1, <1>2, <1>4
  <2>2. QED
    BY <1>2, <2>1 DEF EndsWell
<1>5. Remainder(reg, 5) \in Int /\ Remainder(reg, 5) # 5
  BY DEF Remainder
<1>6. reg % 2 \in Int /\ reg % 2 # 5
  OBVIOUS
<1>7. QED
  BY <1>1, <1>3, <1>4, <1>5, <1>6 DEF Update, MAX_DISP_MODE, Ops
-----------------------------------------------------------------------------
(* main_loop.                                                              *)

\* The buttons, the updates of the page and the timers do not touch the frame.
LEMMA RoundStep ==
    ASSUME Typed, Inv,
           \/ \E down \in SUBSET Buttons : ReadButtons(down)
           \/ LoadMode \/ StoreMode \/ RefreshDue \/ RefreshNotDue \/ LeaveMainLoop
    PROVE  Typed' /\ Inv'
<1>1. UNCHANGED <<display, fb, td, screen, lost, upc, qpc, msg, ev1, ev2>>
  BY DEF ReadButtons, LoadMode, StoreMode, RefreshDue, RefreshNotDue, LeaveMainLoop,
     frames, events, page
<1>2. mpc' \in {"head", "load", "store", "due", "switch", "done"}
  BY DEF ReadButtons, LoadMode, StoreMode, RefreshDue, RefreshNotDue, LeaveMainLoop
<1>3. FrameInv'
  BY <1>1, <1>2 DEF Inv, FrameInv, OnItsWay, Filled
<1>4. /\ DispMode' \in Int /\ reg' \in Int /\ ops' \in Seq(Ops)
      /\ Updating' => ops' # <<>> /\ EndsWell(ops)'
      /\ DispMode' = 5 /\ ~Updating' => ev1 > 0 /\ ev2 > 0
  <2>1. ASSUME NEW down \in SUBSET Buttons, ReadButtons(down)
        PROVE  <1>4
    BY <2>1, UpdatesEndWell DEF ReadButtons, Typed, Inv, EventInv, Updating, EndsWell
  <2>2. CASE LoadMode
    BY <2>2 DEF LoadMode, Typed, Inv, EventInv, Updating, EndsWell
  <2>3. CASE StoreMode
    <3>1. ops # <<>> /\ EndsWell(ops)
      BY <2>3 DEF StoreMode, Inv, EventInv, Updating
    <3>2. DispMode' = Update(Head(ops), reg) /\ ops' = Tail(ops) /\ reg' = 0
          /\ mpc' = IF Tail(ops) = <<>> THEN "due" ELSE "load"
      BY <2>3 DEF StoreMode
    <3>3. EndsWell(ops)' = EndsWell(Tail(ops))
      BY <3>2 DEF EndsWell
    <3>4. QED
      BY <3>1, <3>2, <3>3, UpdateFacts DEF Typed, Updating
  <2>4. CASE RefreshDue
    BY <2>4 DEF RefreshDue, Typed, Inv, EventInv, Updating, EndsWell
  <2>5. CASE RefreshNotDue
    BY <2>5 DEF RefreshNotDue, page, Typed, Inv, EventInv, Updating, EndsWell
  <2>6. CASE LeaveMainLoop
    BY <2>6 DEF LeaveMainLoop, page, Typed, Inv, EventInv, Updating, EndsWell
  <2>7. QED
    BY <2>1, <2>2, <2>3, <2>4, <2>5, <2>6
<1>5. EventInv'
  BY <1>1, <1>2, <1>4 DEF Inv, EventInv
<1>6. Typed'
  BY <1>1, <1>2, <1>4 DEF Typed
<1>7. QED
  BY <1>3, <1>5, <1>6 DEF Inv

\* A page fills both rows of lcdFb.
LEMMA FillStep ==
    ASSUME Typed, Inv, FillPage \/ FillDefault \/ FillEvent \/ FillEventRow2
    PROVE  Typed' /\ Inv'
<1>1. UNCHANGED <<display, td, screen, lost, upc, qpc, msg, ev1, ev2, reg, ops>>
  BY DEF FillPage, FillDefault, FillEvent, FillEventRow2, frames, events, page
<1>2. /\ mpc' \in {"head", "row2", "push"} /\ ~Updating'
      /\ ~display => mpc' # "push"
  BY DEF FillPage, FillDefault, FillEvent, FillEventRow2, Compare, Typed, Updating
<1>3. fb' \in Frames /\ Filled(fb')
  <2>1. CASE FillPage
    BY <2>1, RowFacts DEF FillPage, Frames, Filled
  <2>2. CASE FillDefault
    BY <2>2 DEF FillDefault, frames, Typed, Inv, FrameInv, Filled
  <2>3. CASE FillEvent
    BY <2>3, RowFacts DEF FillEvent, Frames, Filled, Typed
  <2>4. CASE FillEventRow2
    <3>1. fb[1] \in Rows /\ fb[1] # Empty
      BY <2>4, RowFacts DEF FillEventRow2, Inv, EventInv, Typed, Frames, Empty
    <3>2. QED
      BY <2>4, <3>1, RowFacts DEF FillEventRow2, Frames, Filled, Typed
  <2>5. QED
    BY <2>1, <2>2, <2>3, <2>4
<1>4. DispMode' \in Int /\ (DispMode' = 5 => ev1 > 0 /\ ev2 > 0)
  BY DEF FillPage, FillDefault, FillEvent, FillEventRow2, page, Typed, Inv, EventInv, Updating
<1>5. mpc' = "row2" => fb'[1] \in {"event"} \X (1..ev1) /\ ev2 > 0
  <2> SUFFICES ASSUME mpc' = "row2" PROVE fb'[1] \in {"event"} \X (1..ev1) /\ ev2 > 0
    OBVIOUS
  <2>1. FillEvent
    BY DEF FillPage, FillDefault, FillEventRow2, Compare
  <2>2. QED
    BY <2>1 DEF FillEvent, Typed, Inv, EventInv, Updating
<1>6. FrameInv'
  BY <1>1, <1>2, <1>3 DEF Inv, FrameInv, OnItsWay, Filled
<1>7. EventInv'
  BY <1>1, <1>2, <1>4, <1>5 DEF Inv, EventInv, EndsWell
<1>8. Typed'
  BY <1>1, <1>2, <1>3, <1>4 DEF Typed
<1>9. QED
  BY <1>6, <1>7, <1>8 DEF Inv

\* The frame is handed over while lcd_updater is not printing.
LEMMA PushStep ==
    ASSUME Typed, Inv, Push
    PROVE  Typed' /\ Inv'
<1>1. /\ UNCHANGED <<display, fb, screen, qpc, msg, ev1, ev2, DispMode, reg, ops>>
      /\ mpc = "push" /\ mpc' = "head" /\ td' = fb
      /\ upc \notin {"row1", "row2"}
      /\ upc' = IF upc = "wait" THEN "woken" ELSE upc
      /\ lost' = (upc \notin {"wait", "woken"})
  BY DEF Push, Locked, page, events
<1>2. display
  BY <1>1 DEF Inv, FrameInv
<1>3. FrameInv'
  BY <1>1, <1>2 DEF Inv, FrameInv, OnItsWay, Filled, Typed
<1>4. EventInv'
  BY <1>1 DEF Inv, EventInv, Updating, EndsWell
<1>5. Typed'
  BY <1>1 DEF Typed
<1>6. QED
  BY <1>3, <1>4, <1>5 DEF Inv
-----------------------------------------------------------------------------
(* lcd_updater and on_message().                                           *)

\* The wait and its ends leave the frames alone.
LEMMA WaitStep ==
    ASSUME Typed, Inv, UpdaterHead \/ WaitTimesOut \/ WakesSpuriously \/ Reacquire
    PROVE  Typed' /\ Inv'
<1>1. UNCHANGED <<display, fb, td, screen, lost, qpc, msg, ev1, ev2, DispMode, reg, ops, mpc>>
  BY DEF UpdaterHead, WaitTimesOut, WakesSpuriously, Reacquire, UpdaterGoto, page, frames, events
<1>2. /\ upc' \in {"head", "wait", "woken", "timedout", "row1", "done"}
      /\ upc = "woken" => upc' = "row1"
      /\ upc \notin {"row1", "row2"}
  BY DEF UpdaterHead, WaitTimesOut, WakesSpuriously, Reacquire, UpdaterGoto
<1>3. FrameInv'
  BY <1>1, <1>2 DEF Inv, FrameInv, OnItsWay, Filled
<1>4. EventInv'
  BY <1>1 DEF Inv, EventInv, Updating, EndsWell
<1>5. Typed'
  BY <1>1, <1>2 DEF Typed
<1>6. QED
  BY <1>3, <1>4, <1>5 DEF Inv

\* The second row completes the frame on the LCD.
LEMMA SecondRow ==
    ASSUME Typed, Inv, PrintRow2
    PROVE  td[1] # Empty => screen' = td
<1> SUFFICES ASSUME td[1] # Empty PROVE screen' = td
  OBVIOUS
<1>1. display /\ td[2] # Empty /\ screen[1] = td[1]
  BY DEF PrintRow2, Inv, FrameInv, Filled
<1>2. screen' = [screen EXCEPT ![2] = td[2]]
  BY <1>1 DEF PrintRow2, ShowRow
<1>3. QED
  BY <1>1, <1>2 DEF Typed, Frames

\* Printing takes the rows of lcdFbTD, which nobody changes meanwhile.
LEMMA PrintStep ==
    ASSUME Typed, Inv, PrintRow1 \/ PrintRow2
    PROVE  Typed' /\ Inv'
<1>1. UNCHANGED <<display, fb, td, qpc, msg, ev1, ev2, DispMode, reg, ops, mpc>>
  BY DEF PrintRow1, PrintRow2, ShowRow, page, events
<1>2. screen' \in Frames /\ upc' \in {"row2", "head"} /\ lost' \in BOOLEAN
  BY DEF PrintRow1, PrintRow2, ShowRow, Typed, Frames
<1>3. FrameInv'
  <2>1. CASE PrintRow1
    <3>1. td[1] # Empty => screen'[1] = td[1]
      BY <2>1 DEF PrintRow1, ShowRow, Inv, FrameInv, Typed, Frames
    <3>2. QED
      BY <1>1, <2>1, <3>1 DEF PrintRow1, Inv, FrameInv, OnItsWay, Filled
  <2>2. CASE PrintRow2
    BY <1>1, <2>2, SecondRow DEF PrintRow2, Inv, FrameInv, OnItsWay, Filled
  <2>3. QED
    BY <2>1, <2>2
<1>4. EventInv'
  BY <1>1 DEF Inv, EventInv, Updating, EndsWell
<1>5. Typed'
  BY <1>1, <1>2 DEF Typed
<1>6. QED
  BY <1>3, <1>4, <1>5 DEF Inv

\* on_message() stores the strings before it selects the page.
LEMMA MessageStep ==
    ASSUME Typed, Inv, OnMessage
    PROVE  Typed' /\ Inv'
<1>1. UNCHANGED <<display, fb, td, screen, lost, upc, mpc, reg, ops>>
  BY DEF OnMessage, Receive, StoreEvent2, SelectEventPage, LeaveMqtt, page, frames
<1>2. FrameInv'
  BY <1>1 DEF Inv, FrameInv, OnItsWay, Filled
<1>3. Typed' /\ EventInv'
  <2>1. CASE Receive
    <3>1. /\ msg' = msg + 1 /\ msg' \in 0..MaxMessages /\ ev1' = msg' /\ ev2' = ev2
          /\ qpc' = "ev2" /\ DispMode' = DispMode
      BY <2>1, MessagesAssumption DEF Receive, page, Typed
    <3>2. Typed'
      BY <1>1, <3>1 DEF Typed
    <3>3. EventInv'
      BY <1>1, <3>1 DEF Typed, Inv, EventInv, Updating, EndsWell
    <3>4. QED
      BY <3>2, <3>3
  <2>2. CASE StoreEvent2
    BY <1>1, <2>2 DEF StoreEvent2, page, Typed, Inv, EventInv, Updating, EndsWell
  <2>3. CASE SelectEventPage
    BY <1>1, <2>3 DEF SelectEventPage, events, Typed, Inv, EventInv, Updating, EndsWell
  <2>4. CASE LeaveMqtt
    BY <1>1, <2>4 DEF LeaveMqtt, page, events, Typed, Inv, EventInv, Updating, EndsWell
  <2>5. QED
    BY <2>1, <2>2, <2>3, <2>4 DEF OnMessage
<1>4. QED
  BY <1>2, <1>3 DEF Inv
-----------------------------------------------------------------------------
\* The inductive invariant.
THEOREM InvCorrect == Spec => [](Typed /\ Inv)
<1>1. Init => Typed /\ Inv
  <2> SUFFICES ASSUME Init PROVE Typed /\ Inv
    OBVIOUS
  <2>1. <<>> \in Seq(Ops)
    BY EmptySeq
  <2>2. fb \in Frames /\ td \in Frames /\ screen \in Frames
    BY RowFacts DEF Init, Frames
  <2>3. ops \in Seq(Ops)
    BY <2>1 DEF Init
  <2>4. Typed
    <3>1. display \in BOOLEAN /\ lost \in BOOLEAN
      BY Zenon DEF Init
    <3>2. DispMode \in Int /\ reg \in Int
          /\ msg \in 0..MaxMessages /\ ev1 \in 0..MaxMessages /\ ev2 \in 0..MaxMessages
      BY MessagesAssumption DEF Init
    <3>3. mpc = "head" /\ upc = "head" /\ qpc = "idle"
      BY DEF Init
    <3>4. QED
      BY <2>2, <2>3, <3>1, <3>2, <3>3 DEF Typed
  <2>5. FrameInv
    BY RowFacts DEF Init, FrameInv, OnItsWay, Filled
  <2>6. EventInv
    BY DEF Init, EventInv, Updating
  <2>7. QED
    BY <2>4, <2>5, <2>6 DEF Inv
<1>2. Typed /\ Inv /\ [Next]_vars => (Typed /\ Inv)'
  <2> SUFFICES ASSUME Typed, Inv, [Next]_vars PROVE (Typed /\ Inv)'
    OBVIOUS
  <2>1. CASE UNCHANGED vars
    BY <2>1 DEF vars, page, frames, events, Typed, Inv, FrameInv, EventInv, OnItsWay, Filled,
       Updating, EndsWell
  <2>2. CASE MainLoop
    BY <2>2, RoundStep, FillStep, PushStep DEF MainLoop
  <2>3. CASE Updater
    BY <2>3, WaitStep, PrintStep DEF Updater
  <2>4. CASE WakesSpuriously
    BY <2>4, WaitStep
  <2>5. CASE OnMessage
    BY <2>5, MessageStep
  <2>6. CASE RequestExit
    BY <2>6 DEF RequestExit, page, frames, events, Typed, Inv, FrameInv, EventInv, OnItsWay, Filled,
       Updating, EndsWell
  <2>7. CASE Terminated
    BY <2>1, <2>7 DEF Terminated
  <2>8. QED
    BY <2>1, <2>2, <2>3, <2>4, <2>5, <2>6, <2>7 DEF Next
<1>3. QED
  BY <1>1, <1>2, PTL DEF Spec

\* The LCD only lags behind the last frame after a signal nobody waited for.
THEOREM StaleCorrect == Spec => []StaleOnlyAfterLostSignal
<1>1. Inv => StaleOnlyAfterLostSignal
  BY DEF Inv, FrameInv, OnItsWay, StaleOnlyAfterLostSignal
<1>2. QED
  BY <1>1, InvCorrect, PTL

\* No frame is torn on the LCD: lcd_mutex keeps lcd_update() out between the rows.
THEOREM FrameWholeCorrect == Spec => PrintedFrameWhole
<1>1. Typed /\ Inv /\ [Next]_vars =>
        [PrintRow2 /\ display /\ td[1] # Empty => screen' = td]_vars
  BY SecondRow
<1>2. QED
  BY <1>1, InvCorrect, PTL DEF Spec, PrintedFrameWhole

\* The event page is composed of strings that are there, and of an old state under
\* a new name only while on_message() is between the two.
THEOREM EventPairCorrect == Spec => EventPair
<1> DEFINE Pair ==
      mpc = "row2" /\ mpc' # "row2" =>
         LET name == fb'[1][2] state == fb'[2][2]
         IN  0 \notin {name, state} /\ (state < name => qpc = "ev2")
<1>1. Typed /\ Inv /\ [Next]_vars => [Pair]_vars
  <2> SUFFICES ASSUME Typed, Inv, Next, mpc = "row2", mpc' # "row2"
               PROVE  LET name == fb'[1][2] state == fb'[2][2]
                      IN  0 \notin {name, state} /\ (state < name => qpc = "ev2")
    BY DEF vars
  <2>1. FillEventRow2
    BY DEF Next, MainLoop, ReadButtons, LoadMode, StoreMode, RefreshDue, RefreshNotDue, FillPage,
       FillDefault, FillEvent, Push, LeaveMainLoop, Updater, UpdaterHead, WaitTimesOut, Reacquire,
       UpdaterGoto, PrintRow1, PrintRow2, ShowRow, WakesSpuriously, OnMessage, Receive,
       StoreEvent2, SelectEventPage, LeaveMqtt, RequestExit, Terminated, vars
  <2>2. PICK name \in 1..ev1 : fb[1] = <<"event", name>>
    BY DEF Inv, EventInv
  <2>3. fb' = <<<<"event", name>>, <<"event", ev2>>>>
    BY <2>1, <2>2 DEF FillEventRow2
  <2>4. QED
    BY <2>2, <2>3 DEF Typed, Inv, EventInv
<1>2. QED
  BY <1>1, InvCorrect, PTL DEF Spec, EventPair
-----------------------------------------------------------------------------
(* The page.                                                               *)

\* What is left of the updates of a round.
Lists ==
    {<<"inc", "dec", "mod">>, <<"inc", "mod">>, <<"dec", "mod">>, <<"mod">>,
     <<"mod", "inc", "and">>, <<"inc", "and">>, <<"and">>, <<>>}

\* The pages these updates may begin from.  Only a button takes the page below 0,
\* and then a refresh is due in the same round.
From(s, f) ==
    IF s \in {<<"dec", "mod">>, <<"and">>} THEN 0..6
    ELSE IF s = <<"mod">> THEN IF f THEN -1..6 ELSE 0..6
    ELSE 0..5

\* The page is in the table whenever main_loop begins a round, whatever on_message()
\* did to it between a load and a store.
PageInv ==
    /\ ops \in Lists /\ (Updating <=> ops # <<>>)
    /\ ops \in {<<"inc", "dec", "mod">>, <<"dec", "mod">>} => flag
    /\ flag \in BOOLEAN
    /\ Updating => DispMode \in From(ops, flag)
    /\ IF mpc = "store" THEN reg \in From(ops, flag) ELSE reg = 0
    /\ mpc = "switch" \/ (mpc = "due" /\ flag) => DispMode \in -1..5
    /\ mpc \in {"head", "row2", "push", "done"} \/ (mpc = "due" /\ ~flag) => DispMode \in 0..5

\* What an update does.
LEMMA Updated ==
    ASSUME NEW m \in -1..6
    PROVE  /\ Update("inc", m) = m + 1 /\ Update("dec", m) = m - 1
           /\ Update("and", m) \in 0..1
           /\ Update("mod", m) \in -1..4 /\ (m >= 0 => Update("mod", m) \in 0..4)
<1>1. m % 2 \in 0..1
  OBVIOUS
<1>2. Remainder(m, 5) \in -1..4 /\ (m >= 0 => Remainder(m, 5) \in 0..4)
  <2>1. CASE m = -1
    BY <2>1 DEF Remainder
  <2>2. CASE m \in 0..6
    BY <2>2 DEF Remainder
  <2>3. QED
    BY <2>1, <2>2
<1>3. QED
  BY <1>1, <1>2 DEF Update, MAX_DISP_MODE

\* The lists, told apart by the provers.
LEMMA ListsDiffer ==
    /\ <<"inc", "dec", "mod">> # <<>> /\ <<"inc", "mod">> # <<>> /\ <<"dec", "mod">> # <<>>
    /\ <<"mod">> # <<>> /\ <<"mod", "inc", "and">> # <<>> /\ <<"inc", "and">> # <<>>
    /\ <<"and">> # <<>>
    /\ \A s \in {<<"inc", "dec", "mod">>, <<"inc", "mod">>, <<"dec", "mod">>,
                 <<"mod", "inc", "and">>, <<"inc", "and">>, <<"and">>} : s # <<"mod">>
    /\ \A s \in {<<"inc", "dec", "mod">>, <<"inc", "mod">>, <<"mod">>,
                 <<"mod", "inc", "and">>, <<"inc", "and">>} : s \notin {<<"dec", "mod">>, <<"and">>}
  OBVIOUS

LEMMA HeadsAndTails ==
    /\ Head(<<"inc", "dec", "mod">>) = "inc" /\ Tail(<<"inc", "dec", "mod">>) = <<"dec", "mod">>
    /\ Head(<<"inc", "mod">>) = "inc" /\ Tail(<<"inc", "mod">>) = <<"mod">>
    /\ Head(<<"dec", "mod">>) = "dec" /\ Tail(<<"dec", "mod">>) = <<"mod">>
    /\ Head(<<"mod">>) = "mod" /\ Tail(<<"mod">>) = <<>>
    /\ Head(<<"mod", "inc", "and">>) = "mod" /\ Tail(<<"mod", "inc", "and">>) = <<"inc", "and">>
    /\ Head(<<"inc", "and">>) = "inc" /\ Tail(<<"inc", "and">>) = <<"and">>
    /\ Head(<<"and">>) = "and" /\ Tail(<<"and">>) = <<>>
  OBVIOUS

LEMMA Joined ==
    /\ \A a, b \in Ops : <<a>> \o <<b>> = <<a, b>>
    /\ \A a, b, c \in Ops : <<a, b>> \o <<c>> = <<a, b, c>>
    /\ \A a, b, c \in Ops : <<a>> \o <<b, c>> = <<a, b, c>>
<1>1. ASSUME NEW a \in Ops, NEW b \in Ops PROVE <<a>> \o <<b>> = <<a, b>>
  <2>1. <<a>> \in Seq(Ops) /\ <<b>> \in Seq(Ops) /\ <<a, b>> \in Seq(Ops)
    OBVIOUS
  <2>2. /\ <<a>> \o <<b>> \in Seq(Ops) /\ Len(<<a>> \o <<b>>) = 2
        /\ (<<a>> \o <<b>>)[1] = a /\ (<<a>> \o <<b>>)[2] = b
    BY <2>1, ConcatProperties
  <2>3. Len(<<a, b>>) = 2 /\ \A i \in 1..2 : (<<a>> \o <<b>>)[i] = <<a, b>>[i]
    BY <2>2
  <2>4. QED
    BY <2>1, <2>2, <2>3, SeqEqual, Zenon
<1>2. ASSUME NEW a \in Ops, NEW b \in Ops, NEW c \in Ops
      PROVE  <<a, b>> \o <<c>> = <<a, b, c>> /\ <<a>> \o <<b, c>> = <<a, b, c>>
  <2>1. <<a>> \in Seq(Ops) /\ <<c>> \in Seq(Ops) /\ <<a, b>> \in Seq(Ops) /\ <<b, c>> \in Seq(Ops)
        /\ <<a, b, c>> \in Seq(Ops)
    OBVIOUS
  <2>2. /\ <<a, b>> \o <<c>> \in Seq(Ops) /\ Len(<<a, b>> \o <<c>>) = 3
        /\ (<<a, b>> \o <<c>>)[1] = a /\ (<<a, b>> \o <<c>>)[2] = b
        /\ (<<a, b>> \o <<c>>)[3] = c
    BY <2>1, ConcatProperties
  <2>3. /\ <<a>> \o <<b, c>> \in Seq(Ops) /\ Len(<<a>> \o <<b, c>>) = 3
        /\ (<<a>> \o <<b, c>>)[1] = a /\ (<<a>> \o <<b, c>>)[2] = b
        /\ (<<a>> \o <<b, c>>)[3] = c
    BY <2>1, ConcatProperties
  <2>4. /\ Len(<<a, b, c>>) = 3
        /\ \A i \in 1..3 : (<<a, b>> \o <<c>>)[i] = <<a, b, c>>[i]
        /\ \A i \in 1..3 : (<<a>> \o <<b, c>>)[i] = <<a, b, c>>[i]
    BY <2>2, <2>3
  <2>5. QED
    BY <2>1, <2>2, <2>3, <2>4, SeqEqual, Zenon
<1>3. QED
  BY <1>1, <1>2

\* A round begins with one of the lists.
LEMMA ListBegun ==
    ASSUME NEW new \in SUBSET Buttons, NEW rotate \in BOOLEAN, rotate => new = {}
    PROVE  /\ Updates(new, rotate) \in Lists /\ 0..5 \subseteq From(Updates(new, rotate), new # {})
           /\ Updates(new, rotate) # <<>>
           /\ Updates(new, rotate) \in {<<"inc", "dec", "mod">>, <<"dec", "mod">>} => new # {}
<1>1. /\ <<>> \o <<>> = <<>> /\ <<"inc">> \o <<>> = <<"inc">> /\ <<>> \o <<"dec">> = <<"dec">>
      /\ <<"inc">> \o <<"dec">> = <<"inc", "dec">>
  BY Joined DEF Ops
<1>2. /\ <<>> \o <<"mod">> = <<"mod">> /\ <<"inc">> \o <<"mod">> = <<"inc", "mod">>
      /\ <<"dec">> \o <<"mod">> = <<"dec", "mod">>
      /\ <<"inc", "dec">> \o <<"mod">> = <<"inc", "dec", "mod">>
  BY Joined DEF Ops
<1>3. /\ <<"mod">> \o <<>> = <<"mod">> /\ <<"inc", "mod">> \o <<>> = <<"inc", "mod">>
      /\ <<"dec", "mod">> \o <<>> = <<"dec", "mod">>
      /\ <<"inc", "dec", "mod">> \o <<>> = <<"inc", "dec", "mod">>
      /\ <<"mod">> \o <<"inc", "and">> = <<"mod", "inc", "and">>
  BY Joined DEF Ops
<1>4. CASE rotate
  <2>1. Updates(new, rotate) = <<"mod", "inc", "and">>
    BY <1>1, <1>2, <1>3, <1>4 DEF Updates
  <2>2. QED
    BY <2>1, ListsDiffer DEF Lists, From
<1>5. CASE ~rotate
  <2>1. Updates(new, rotate) =
          IF "UP" \in new THEN IF "DOWN" \in new THEN <<"inc", "dec", "mod">> ELSE <<"inc", "mod">>
          ELSE IF "DOWN" \in new THEN <<"dec", "mod">> ELSE <<"mod">>
    BY <1>1, <1>2, <1>3, <1>5 DEF Updates
  <2>2. \A s \in {<<"inc", "dec", "mod">>, <<"inc", "mod">>, <<"dec", "mod">>, <<"mod">>} :
            s \in Lists /\ s # <<>> /\ 0..5 \subseteq From(s, new # {})
    BY ListsDiffer DEF Lists, From
  <2>3. <<"mod">> \notin {<<"inc", "dec", "mod">>, <<"dec", "mod">>}
    BY ListsDiffer
  <2>4. QED
    BY <2>1, <2>2, <2>3
<1>6. QED
  BY <1>4, <1>5

\* An update leads from where its list may begin to where the rest may.
LEMMA PageStored ==
    ASSUME PageInv, StoreMode
    PROVE  PageInv'
<1> DEFINE m == Update(Head(ops), reg)
<1>1. /\ mpc = "store" /\ ops \in Lists /\ ops # <<>> /\ reg \in From(ops, flag) /\ flag \in BOOLEAN
      /\ DispMode' = m /\ ops' = Tail(ops) /\ reg' = 0 /\ flag' = flag
      /\ mpc' = IF Tail(ops) = <<>> THEN "due" ELSE "load"
  BY DEF StoreMode, PageInv, Updating
<1>2. reg \in -1..6
  BY <1>1 DEF From
<1>3. /\ Update("inc", reg) = reg + 1 /\ Update("dec", reg) = reg - 1
      /\ Update("and", reg) \in 0..1
      /\ Update("mod", reg) \in -1..4 /\ (reg >= 0 => Update("mod", reg) \in 0..4)
  BY <1>2, Updated
<1>4. ops \in {<<"inc", "dec", "mod">>, <<"dec", "mod">>} => flag
  BY DEF PageInv
<1>5. /\ Tail(ops) \in Lists
      /\ Tail(ops) \in {<<"inc", "dec", "mod">>, <<"dec", "mod">>} => flag
      /\ Tail(ops) # <<>> => m \in From(Tail(ops), flag)
      /\ Tail(ops) = <<>> => IF flag THEN m \in -1..5 ELSE m \in 0..5
  <2>1. CASE ops = <<"inc", "dec", "mod">>
    BY <1>1, <1>3, <1>4, <2>1, HeadsAndTails, ListsDiffer DEF From, Lists
  <2>2. CASE ops = <<"inc", "mod">>
    BY <1>1, <1>3, <1>4, <2>2, HeadsAndTails, ListsDiffer DEF From, Lists
  <2>3. CASE ops = <<"dec", "mod">>
    BY <1>1, <1>3, <1>4, <2>3, HeadsAndTails, ListsDiffer DEF From, Lists
  <2>4. CASE ops = <<"mod">>
    BY <1>1, <1>3, <1>4, <2>4, HeadsAndTails, ListsDiffer DEF From, Lists
  <2>5. CASE ops = <<"mod", "inc", "and">>
    BY <1>1, <1>3, <1>4, <2>5, HeadsAndTails, ListsDiffer DEF From, Lists
  <2>6. CASE ops = <<"inc", "and">>
    BY <1>1, <1>3, <1>4, <2>6, HeadsAndTails, ListsDiffer DEF From, Lists
  <2>7. CASE ops = <<"and">>
    BY <1>1, <1>3, <1>4, <2>7, HeadsAndTails, ListsDiffer DEF From, Lists
  <2>8. QED
    BY <1>1, <2>1, <2>2, <2>3, <2>4, <2>5, <2>6, <2>7 DEF Lists
<1> HIDE DEF m
<1>6. From(ops, flag)' = From(ops', flag')
  BY <1>1 DEF From
<1>7. QED
  BY <1>1, <1>5, <1>6 DEF PageInv, Updating, From

LEMMA PageStep ==
    ASSUME Typed, Inv, PageInv, [Next]_vars
    PROVE  PageInv'
<1>1. ASSUME NEW down \in SUBSET Buttons, ReadButtons(down)
      PROVE  PageInv'
  <2>1. PICK rotate \in BOOLEAN : (rotate => ~flag') /\ ops' = Updates(down \ press, rotate)
    BY <1>1 DEF ReadButtons
  <2>2. /\ mpc = "head" /\ mpc' = "load" /\ flag' = (down \ press # {})
        /\ DispMode' = DispMode /\ reg' = reg
    BY <1>1 DEF ReadButtons
  <2>3. down \ press \in SUBSET Buttons
    OBVIOUS
  <2>4. DispMode \in 0..5 /\ reg = 0
    BY <2>2 DEF PageInv
  <2>5. /\ ops' \in Lists /\ ops' # <<>>
        /\ ops' \in {<<"inc", "dec", "mod">>, <<"dec", "mod">>} => flag'
    BY <2>1, <2>2, <2>3, ListBegun
  <2>6. 0..5 \subseteq From(ops', flag')
    BY <2>1, <2>2, <2>3, ListBegun
  <2>7. QED
    BY <2>2, <2>4, <2>5, <2>6 DEF PageInv, Updating
<1>2. CASE LoadMode
  BY <1>2 DEF LoadMode, PageInv, Updating, From
<1>3. CASE StoreMode
  BY <1>3, PageStored
<1>4. CASE RefreshDue \/ RefreshNotDue
  <2>1. mpc = "due" /\ ops = <<>> /\ ops \in Lists
    BY <1>4 DEF RefreshDue, RefreshNotDue, PageInv, Updating
  <2>2. ops \notin {<<"inc", "dec", "mod">>, <<"dec", "mod">>}
    BY <2>1, ListsDiffer
  <2>3. flag' \in BOOLEAN
    BY <1>4, Zenon DEF RefreshDue, RefreshNotDue, page, PageInv
  <2>4. CASE RefreshDue
    BY <2>1, <2>2, <2>3, <2>4 DEF RefreshDue, PageInv, Updating
  <2>5. CASE RefreshNotDue
    BY <2>1, <2>2, <2>3, <2>5 DEF RefreshNotDue, page, PageInv, Updating
  <2>6. QED
    BY <1>4, <2>4, <2>5
<1>5. CASE FillPage \/ FillDefault \/ FillEvent \/ FillEventRow2
  BY <1>5 DEF FillPage, FillDefault, FillEvent, FillEventRow2, Compare, page, PageInv, Updating, From
<1>6. CASE Push \/ LeaveMainLoop
  BY <1>6 DEF Push, LeaveMainLoop, page, PageInv, Updating, From
<1>7. CASE Updater \/ WakesSpuriously \/ RequestExit \/ UNCHANGED vars
  BY <1>7 DEF Updater, UpdaterHead, WaitTimesOut, Reacquire, PrintRow1, PrintRow2, UpdaterGoto,
     ShowRow, WakesSpuriously, RequestExit, vars, page, PageInv, Updating, From
<1>8. CASE OnMessage
  <2>1. /\ UNCHANGED <<reg, ops, flag, mpc>> /\ DispMode' \in {DispMode, 5}
    BY <1>8 DEF OnMessage, Receive, StoreEvent2, SelectEventPage, LeaveMqtt, page
  <2>2. From(ops, flag)' = From(ops, flag) /\ 5 \in From(ops, flag)
    BY <2>1 DEF From
  <2>3. QED
    BY <2>1, <2>2 DEF PageInv, Updating
<1>9. QED
  BY <1>1, <1>2, <1>3, <1>4, <1>5, <1>6, <1>7, <1>8 DEF Next, MainLoop, Terminated

\* main_loop begins every round with a page of the table or that of the events.  The
\* buttons lead out of it as far as -1 and 6, but only between two updates, or in a
\* round in which the refresh is due and its default leads back to page 0; that
\* on_message() may come between any load and store does not change it.
THEOREM PageCorrect == Spec => []PageInv
<1>1. Init => PageInv
  <2> SUFFICES ASSUME Init PROVE PageInv
    OBVIOUS
  <2>1. DispMode = 1 /\ reg = 0 /\ ops = <<>> /\ flag = FALSE /\ mpc = "head"
    BY DEF Init
  <2>2. <<>> \in Lists /\ <<>> \notin {<<"inc", "dec", "mod">>, <<"dec", "mod">>}
    BY ListsDiffer DEF Lists
  <2>3. flag \in BOOLEAN
    BY <2>1, Zenon
  <2>4. QED
    BY <2>1, <2>2, <2>3 DEF PageInv, Updating
<1>2. Typed /\ Inv /\ PageInv /\ [Next]_vars => PageInv'
  BY PageStep
<1>3. QED
  BY <1>1, <1>2, InvCorrect, PTL DEF Spec

\* What of the type nothing else rests on.
Rest == do_exit \in BOOLEAN /\ press \in SUBSET Buttons

\* Every variable stays within its type: the page within -1..6 and the updates of
\* a round within three, however on_message() and the buttons meet.
THEOREM TypeCorrect == Spec => []TypeOK
<1>1. Init => Rest
  BY Zenon DEF Init, Rest
<1>2. Rest /\ [Next]_vars => Rest'
  <2> SUFFICES ASSUME Rest, [Next]_vars PROVE Rest'
    OBVIOUS
  <2>1. press' \in SUBSET Buttons
    BY DEF Next, MainLoop, ReadButtons, LoadMode, StoreMode, RefreshDue, RefreshNotDue, FillPage,
       FillDefault, FillEvent, FillEventRow2, Push, LeaveMainLoop, Updater, UpdaterHead,
       WaitTimesOut, Reacquire, PrintRow1, PrintRow2, UpdaterGoto, ShowRow, WakesSpuriously,
       OnMessage, Receive, StoreEvent2, SelectEventPage, LeaveMqtt, RequestExit, Terminated, vars,
       page, Rest
  <2>2. do_exit' = do_exit \/ do_exit' = TRUE
    BY DEF Next, MainLoop, ReadButtons, LoadMode, StoreMode, RefreshDue, RefreshNotDue, FillPage,
       FillDefault, FillEvent, FillEventRow2, Push, LeaveMainLoop, Updater, UpdaterHead,
       WaitTimesOut, Reacquire, PrintRow1, PrintRow2, UpdaterGoto, ShowRow, WakesSpuriously,
       OnMessage, Receive, StoreEvent2, SelectEventPage, LeaveMqtt, RequestExit, Terminated, vars
  <2>3. do_exit' \in BOOLEAN
    BY <2>2, Zenon DEF Rest
  <2>4. QED
    BY <2>1, <2>3 DEF Rest
<1>3. Typed /\ PageInv /\ Rest => TypeOK
  <2> SUFFICES ASSUME Typed, PageInv, Rest PROVE TypeOK
    OBVIOUS
  <2>1. DispMode \in -1..6
    BY DEF Typed, PageInv, Updating, From
  <2>2. reg \in -1..6
    BY DEF PageInv, From
  <2>3. ops \in Seq({"inc", "dec", "mod", "and"}) /\ Len(ops) <= 3
    <3>1. /\ Len(<<"inc", "dec", "mod">>) = 3 /\ Len(<<"mod", "inc", "and">>) = 3
          /\ Len(<<"inc", "mod">>) = 2 /\ Len(<<"dec", "mod">>) = 2 /\ Len(<<"inc", "and">>) = 2
          /\ Len(<<"mod">>) = 1 /\ Len(<<"and">>) = 1 /\ Len(<<>>) = 0
      OBVIOUS
    <3>2. Len(ops) \in {0, 1, 2, 3}
      BY <3>1, Zenon DEF PageInv, Lists
    <3>3. \A n \in {0, 1, 2, 3} : n <= 3
      OBVIOUS
    <3>4. QED
      BY <3>2, <3>3, Zenon DEF Typed, Ops
  <2>4. {fb[1], fb[2], td[1], td[2], screen[1], screen[2]} \subseteq Rows
    BY DEF Typed, Frames
  <2>5. flag \in BOOLEAN /\ display \in BOOLEAN /\ lost \in BOOLEAN /\ do_exit \in BOOLEAN
    BY Zenon DEF Typed, PageInv, Rest
  <2>6. QED
    BY <2>1, <2>2, <2>3, <2>4, <2>5 DEF Typed, Rest, TypeOK
<1>4. QED
  BY <1>1, <1>2, <1>3, InvCorrect, PageCorrect, PTL DEF Spec
=============================================================================
