-------------------------- MODULE MqttSessionProofs -------------------------
(***************************************************************************)
(* Proofs about MqttSession, for any number of faults and messages and any *)
(* capacity of the signal pipe: at most one message is matched against the *)
(* released expression once the exit was requested, each caller of         *)
(* publish_state() publishes at most once per interval, every session is   *)
(* announced, and none leaves a retained Online behind.                    *)
(***************************************************************************)
EXTENDS MqttSession, SequenceTheorems, FiniteSetTheorems, TLAPS

Labels ==
    {"signals", "finish", "regfree", "join_mqtt", "disconnect", "destroy", "join_loop",
     "exited", "head", "loop", "lost", "subscribe", "online", "check", "stamp", "done", "dead"}

Places == [{"main", "mqtt", "loop"} -> Labels]

\* Has a caller passed the test of the timer and not set it yet?
Stamping(t) == IF At(t, "stamp") THEN 1 ELSE 0

\* An expired timer has seen no publication yet.  A caller that passed the test
\* before the other set the timer again still publishes.
TimerInv ==
    /\ sent \in Nat
    /\ due => sent = 0
    /\ sent + Stamping("mqtt") + Stamping("loop") <= 2

\* The expression lives as long as the signal loop.  When the exit was requested
\* and a message matched too late, the MQTT thread is back at its test of do_exit.
RegexInv ==
    /\ matched \in Nat
    /\ At("main", "signals") => "regex" \in client
    /\ "regex" \in client => matched = 0
    /\ do_exit /\ matched > 0 => matched = 1 /\ at["mqtt"] \in {"head", "done", "dead"}

Inv == at \in Places /\ TimerInv /\ RegexInv

\* The way packets lie on a connection: CONNECT in front, DISCONNECT at the end,
\* and Offline behind every Online, once finish has published it.
ConnectFirst(s) == \A i \in 1..Len(s) : s[i] = "CONNECT" => i = 1
DisconnectLast(s) == \A i \in 1..Len(s) : s[i] = "DISCONNECT" => i = Len(s)
Parted(s) ==
    \A i \in 1..Len(s) : s[i] = "Online" => \E j \in 1..Len(s) : i < j /\ s[j] = "Offline"

Finishing == at["main"] \notin {"signals", "finish"}
Ending == {"disconnect", "destroy", "join_loop", "exited"}

\* The connection: a session lives on one that is up, and only a CONNECT on it
\* that nobody has answered begins one.
LinkInv ==
    /\ out \in Seq(Packets) /\ in \in Seq({"ack", "refused", "message"})
    /\ session \in {"none", "live", "stale"} /\ (session = "live" => link = "up")
    /\ link # "up" => out = <<>>
    /\ link = "up" /\ at["main"] \notin {"join_loop", "exited", "dead"} => sock
    /\ At("mqtt", "lost") => ~sock
    /\ at["main"] \in Ending => At("mqtt", "done")
    /\ At("main", "dead") <=> At("mqtt", "dead")
    /\ ConnectFirst(out) /\ DisconnectLast(out)
    /\ Contains(out, "CONNECT") => session # "live" /\ in = <<>>
    /\ Contains(in, "refused") => session # "live"
    /\ Contains(out, "Offline") => Finishing
    /\ Contains(out, "DISCONNECT") => at["main"] \in {"destroy", "join_loop", "exited", "dead"}

\* A session that lives before finish is announced or about to be: the answer to
\* CONNECT is under way, or on_connect() is at it, or its packets are.
AnnounceInv ==
    session = "live" /\ At("main", "signals") =>
        \/ Contains(in, "ack") \/ At("mqtt", "subscribe")
        \/ /\ subs \/ Contains(out, "SUBSCRIBE")
           /\ retained = "Online" \/ Contains(out, "Online") \/ At("mqtt", "online")

\* Online that is not to last: a session stands for it, and once finish has
\* published Offline, that comes after it.
FarewellInv ==
    ~late =>
        /\ session = "none" => retained # "Online"
        /\ Finishing => Parted(out)
        /\ Finishing /\ session = "live" /\ retained = "Online" => Contains(out, "Offline")

\* The inductive invariant of the session.
NetInv == at \in Places /\ LinkInv /\ AnnounceInv /\ FarewellInv
-----------------------------------------------------------------------------
\* A step of the MQTT thread outside publish_state() leaves the timer alone, and
\* one that is not a late match leaves the count of them.
LEMMA MqttStep ==
    ASSUME Inv, at' \in Places, UNCHANGED <<do_exit, client, due, sent>>,
           at'["main"] = at["main"], at'["loop"] = at["loop"], at'["mqtt"] # "stamp",
           \/ UNCHANGED matched /\ at'["mqtt"] \in {"head", "done"}
           \/ UNCHANGED matched /\ at["mqtt"] \notin {"head", "done", "dead"}
           \/ /\ At("mqtt", "loop") /\ at'["mqtt"] = "head"
              /\ "regex" \notin client /\ matched' = matched + 1
           \/ UNCHANGED matched /\ ~do_exit
    PROVE  Inv'
<1>1. TimerInv'
  BY DEF Inv, TimerInv, Stamping, At
<1>2. RegexInv'
  BY DEF Inv, RegexInv, At
<1>3. QED
  BY <1>1, <1>2 DEF Inv

\* A step of main() or main_loop outside the timer: main() may end its loop and,
\* after that, release the expression.
LEMMA OtherStep ==
    ASSUME Inv, at' \in Places, UNCHANGED <<due, sent, matched>>,
           at'["mqtt"] = at["mqtt"],
           at'["loop"] = at["loop"] \/ at'["loop"] # "stamp",
           At("main", "signals")' => At("main", "signals"),
           \/ UNCHANGED client
           \/ ~At("main", "signals") /\ client' \subseteq client,
           UNCHANGED do_exit \/ At("main", "signals")
    PROVE  Inv'
<1>1. TimerInv'
  BY DEF Inv, TimerInv, Stamping, At
<1>2. RegexInv'
  BY DEF Inv, RegexInv, At
<1>3. QED
  BY <1>1, <1>2 DEF Inv

\* The timer of publish_state().
LEMMA TimerStep ==
    ASSUME Inv, NEW t \in {"mqtt", "loop"}, CheckTimer(t) \/ StampTimer(t)
    PROVE  Inv'
<1>1. CASE CheckTimer(t)
  <2>1. /\ at' \in Places /\ at'[t] = (IF due THEN "stamp" ELSE "head")
        /\ \A u \in {"main", "mqtt", "loop"} \ {t} : at'[u] = at[u]
    BY <1>1 DEF CheckTimer, Goto, Inv, Places, Labels
  <2>2. At(t, "check") /\ UNCHANGED <<do_exit, client, due, sent, matched>>
    BY <1>1 DEF CheckTimer, signals, state
  <2>3. TimerInv'
    BY <2>1, <2>2 DEF Inv, TimerInv, Stamping, At
  <2>4. RegexInv'
    BY <2>1, <2>2 DEF Inv, RegexInv, At
  <2>5. QED
    BY <2>1, <2>3, <2>4 DEF Inv
<1>2. CASE StampTimer(t)
  <2>1. /\ at' \in Places /\ at'[t] = "head"
        /\ \A u \in {"main", "mqtt", "loop"} \ {t} : at'[u] = at[u]
    BY <1>2 DEF StampTimer, Goto, Inv, Places, Labels
  <2>2. /\ At(t, "stamp") /\ ~due' /\ sent' = sent + 1
        /\ UNCHANGED <<do_exit, client, matched>>
    BY <1>2 DEF StampTimer, signals
  <2>3. TimerInv'
    BY <2>1, <2>2 DEF Inv, TimerInv, Stamping, At
  <2>4. RegexInv'
    BY <2>1, <2>2 DEF Inv, RegexInv, At
  <2>5. QED
    BY <2>1, <2>3, <2>4 DEF Inv
<1>3. QED
  BY <1>1, <1>2
-----------------------------------------------------------------------------
\* The invariant holds in every state.
THEOREM InvCorrect == Spec => []Inv
<1>1. Init => Inv
  BY DEF Init, Inv, Places, Labels, TimerInv, Stamping, RegexInv, At
<1>2. Inv /\ [Next]_vars => Inv'
  <2> SUFFICES ASSUME Inv, [Next]_vars PROVE Inv'
    OBVIOUS
  <2>1. CASE Mqtt
    <3>1. CASE MqttHead
      BY <3>1, MqttStep DEF MqttHead, Goto, At, Inv, Places, Labels, signals, state
    <3>2. CASE NoConn
      BY <3>2, MqttStep DEF NoConn, Goto, At, Inv, Places, Labels, signals, state
    <3>3. CASE ConnLost
      BY <3>3, MqttStep DEF ConnLost, Goto, At, Inv, Places, Labels, signals, state
    <3>4. CASE Reconnect
      BY <3>4, MqttStep DEF Reconnect, Goto, At, Inv, Places, Labels, signals, state
    <3>5. CASE LoopTimeout
      BY <3>5, MqttStep DEF LoopTimeout, Goto, At, Inv, Places, Labels, signals, state
    <3>6. CASE OnRefused
      BY <3>6, MqttStep DEF OnRefused, Goto, At, Inv, Places, Labels, signals, state
    <3>7. CASE OnConnect
      BY <3>7, MqttStep DEF OnConnect, Goto, At, Inv, Places, Labels, signals, state
    <3>8. CASE Subscribe
      BY <3>8, MqttStep DEF Subscribe, Goto, At, Inv, Places, Labels, signals, state
    <3>9. CASE PublishOnline
      BY <3>9, MqttStep DEF PublishOnline, Goto, At, Inv, Places, Labels, signals, state
    <3>10. CASE OnMessage
      BY <3>10, MqttStep DEF OnMessage, Goto, At, Inv, Places, Labels, signals, state
    <3>11. CASE CheckTimer("mqtt") \/ StampTimer("mqtt")
      BY <3>11, TimerStep
    <3>12. QED
      BY <2>1, <3>1, <3>2, <3>3, <3>4, <3>5, <3>6, <3>7, <3>8, <3>9, <3>10, <3>11 DEF Mqtt
  <2>2. CASE Loop
    <3>1. CASE BeginRound
      BY <3>1, OtherStep DEF BeginRound, Goto, At, Inv, Places, Labels, signals, state
    <3>2. CASE LeaveLoop
      BY <3>2, OtherStep DEF LeaveLoop, Goto, At, Inv, Places, Labels, signals, state
    <3>3. CASE CheckTimer("loop") \/ StampTimer("loop")
      BY <3>3, TimerStep
    <3>4. QED
      BY <2>2, <3>1, <3>2, <3>3 DEF Loop
  <2>3. CASE FinishSteps
    <3>1. CASE PublishOffline
      BY <3>1, OtherStep DEF PublishOffline, Goto, At, Inv, Places, Labels, signals, state
    <3>2. CASE FreeRegex
      BY <3>2, OtherStep DEF FreeRegex, Goto, At, Inv, Places, Labels, signals, state
    <3>3. CASE JoinMqtt
      BY <3>3, OtherStep DEF JoinMqtt, Goto, At, Inv, Places, Labels, signals, state
    <3>4. CASE Disconnect
      BY <3>4, OtherStep DEF Disconnect, Goto, At, Inv, Places, Labels, signals, state
    <3>5. CASE Destroy
      BY <3>5, OtherStep DEF Destroy, Goto, At, Inv, Places, Labels, signals, state
    <3>6. CASE JoinLoop
      BY <3>6, OtherStep DEF JoinLoop, Goto, At, Inv, Places, Labels, signals, state
    <3>7. QED
      BY <2>3, <3>1, <3>2, <3>3, <3>4, <3>5, <3>6 DEF FinishSteps
  <2>4. CASE NextSignal
    BY <2>4, OtherStep DEF NextSignal, Goto, At, Inv, Places, Labels, state
  <2>5. CASE BreakOff
    BY <2>5, OtherStep DEF BreakOff, Goto, At, Inv, Places, Labels, state
  <2>6. CASE IntervalPasses
    BY <2>6 DEF IntervalPasses, threads, signals, Inv, TimerInv, Stamping, RegexInv, At
  <2>7. CASE Crash
    BY <2>7 DEF Crash, state, Inv, Places, Labels, TimerInv, Stamping, RegexInv, At
  <2>8. CASE \/ \E signal \in {"stop", "other"} : Raise(signal)
             \/ Broker \/ Deliver \/ Cut \/ Over \/ UNCHANGED vars
    <3>1. UNCHANGED <<do_exit, at, client, due, sent, matched>>
      BY <2>8 DEF Raise, Broker, PublishWill, Accept, Refuse, Serve, Deliver, Cut, Over,
         vars, threads, signals, state
    <3>2. QED
      BY <3>1 DEF Inv, TimerInv, Stamping, RegexInv, At
  <2>9. QED
    BY <2>1, <2>2, <2>3, <2>4, <2>5, <2>6, <2>7, <2>8 DEF Next
<1>3. QED
  BY <1>1, <1>2, PTL DEF Spec

\* Once the exit was requested the MQTT thread matches at most one message against
\* the expression that finish has released (on_message() and regfree()).
THEOREM OneLateMatchCorrect == Spec => []OneLateMatch
<1>1. Inv => OneLateMatch
  BY DEF Inv, RegexInv, OneLateMatch
<1>2. QED
  BY <1>1, InvCorrect, PTL

\* However the two callers of publish_state() meet at its timer, each of them
\* publishes at most once per interval.
THEOREM StateOncePerCallerCorrect == Spec => []StateOncePerCaller
<1>1. Inv => StateOncePerCaller
  BY DEF Inv, TimerInv, Stamping, StateOncePerCaller
<1>2. QED
  BY <1>1, InvCorrect, PTL
-----------------------------------------------------------------------------
(* Packets on a connection.                                                *)

\* A connection without packets.
LEMMA Nothing ==
    /\ <<>> \in Seq(Packets) /\ <<>> \in Seq({"ack", "refused", "message"})
    /\ \A x : ~Contains(<<>>, x)
    /\ ConnectFirst(<<>>) /\ DisconnectLast(<<>>) /\ Parted(<<>>)
<1>1. Len(<<>>) = 0
  BY EmptySeq
<1>2. QED
  BY <1>1, EmptySeq DEF Contains, ConnectFirst, DisconnectLast, Parted

\* A new connection begins with CONNECT.
LEMMA Fresh ==
    ASSUME NEW s, s = <<"CONNECT">>
    PROVE  /\ s \in Seq(Packets) /\ \A x : Contains(s, x) <=> x = "CONNECT"
           /\ ConnectFirst(s) /\ DisconnectLast(s) /\ Parted(s)
<1>1. s \in Seq(Packets) /\ Len(s) = 1 /\ s[1] = "CONNECT"
  BY DEF Packets
<1>2. QED
  BY <1>1 DEF Contains, ConnectFirst, DisconnectLast, Parted

\* A packet more.
LEMMA Sent ==
    ASSUME NEW S, NEW s \in Seq(S), NEW p \in S, NEW t, t = Append(s, p)
    PROVE  /\ t \in Seq(S) /\ \A x : Contains(t, x) <=> Contains(s, x) \/ x = p
           /\ ConnectFirst(s) /\ p # "CONNECT" => ConnectFirst(t)
           /\ ~Contains(s, "DISCONNECT") => DisconnectLast(t)
           /\ p = "Offline" => Parted(t)
           /\ Parted(s) /\ p # "Online" => Parted(t)
<1>1. /\ t \in Seq(S) /\ Len(t) = Len(s) + 1 /\ Len(s) \in Nat
      /\ t[Len(s) + 1] = p
      /\ \A i \in 1..Len(s) : t[i] = s[i] /\ i \in 1..Len(t)
      /\ \A i \in 1..Len(t) : i \in 1..Len(s) \/ i = Len(s) + 1
      /\ Len(s) + 1 \in 1..Len(t)
  OBVIOUS
<1>2. \A x : Contains(t, x) <=> Contains(s, x) \/ x = p
  <2>1. \A x : Contains(t, x) => Contains(s, x) \/ x = p
    BY <1>1, Zenon DEF Contains
  <2>2. \A x : Contains(s, x) => Contains(t, x)
    BY <1>1, Zenon DEF Contains
  <2>3. Contains(t, p)
    BY <1>1, Zenon DEF Contains
  <2>4. QED
    BY <2>1, <2>2, <2>3, Zenon
<1>3. ConnectFirst(s) /\ p # "CONNECT" => ConnectFirst(t)
  BY <1>1 DEF ConnectFirst
<1>4. ~Contains(s, "DISCONNECT") => DisconnectLast(t)
  BY <1>1 DEF DisconnectLast, Contains
<1>5. ASSUME p = "Offline"
      PROVE  Parted(t)
  <2>1. \A i \in 1..Len(t) : t[i] = "Online" => i < Len(s) + 1
    BY <1>1, <1>5
  <2>2. QED
    BY <1>1, <1>5, <2>1 DEF Parted
<1>6. ASSUME Parted(s), p # "Online"
      PROVE  Parted(t)
  <2> SUFFICES ASSUME NEW i \in 1..Len(t), t[i] = "Online"
               PROVE  \E j \in 1..Len(t) : i < j /\ t[j] = "Offline"
    BY DEF Parted
  <2>1. i \in 1..Len(s) /\ s[i] = "Online"
    BY <1>1, <1>6
  <2>2. PICK j \in 1..Len(s) : i < j /\ s[j] = "Offline"
    BY <1>6, <2>1 DEF Parted
  <2>3. QED
    BY <1>1, <2>2
<1>7. QED
  BY <1>1, <1>2, <1>3, <1>4, <1>5, <1>6

\* What the client sends.
LEMMA SentPacket ==
    ASSUME out \in Seq(Packets), NEW p \in Packets, out' = Append(out, p)
    PROVE  /\ out' \in Seq(Packets) /\ \A x : Contains(out', x) <=> Contains(out, x) \/ x = p
           /\ ConnectFirst(out) /\ p # "CONNECT" => ConnectFirst(out')
           /\ ~Contains(out, "DISCONNECT") => DisconnectLast(out')
           /\ p = "Offline" => Parted(out')
           /\ Parted(out) /\ p # "Online" => Parted(out')
<1> DEFINE t == Append(out, p)
<1>1. /\ t \in Seq(Packets) /\ \A x : Contains(t, x) <=> Contains(out, x) \/ x = p
      /\ ConnectFirst(out) /\ p # "CONNECT" => ConnectFirst(t)
      /\ ~Contains(out, "DISCONNECT") => DisconnectLast(t)
      /\ p = "Offline" => Parted(t)
      /\ Parted(out) /\ p # "Online" => Parted(t)
  BY Sent
<1> HIDE DEF t
<1>2. out' = t
  BY DEF t
<1>3. QED
  BY <1>1, <1>2

\* What the broker sends.
LEMMA SentReply ==
    ASSUME in \in Seq({"ack", "refused", "message"}), NEW p \in {"ack", "refused", "message"},
           in' = Append(in, p)
    PROVE  /\ in' \in Seq({"ack", "refused", "message"})
           /\ \A x : Contains(in', x) <=> Contains(in, x) \/ x = p
<1> DEFINE t == Append(in, p)
           S == {"ack", "refused", "message"}
<1>1. in \in Seq(S) /\ p \in S
  OBVIOUS
<1> HIDE DEF S
<1>2. t \in Seq(S) /\ \A x : Contains(t, x) <=> Contains(in, x) \/ x = p
  BY <1>1, Sent
<1> HIDE DEF t
<1>3. in' = t
  BY DEF t
<1>4. QED
  BY <1>2, <1>3 DEF S

\* A packet less.
LEMMA Taken ==
    ASSUME NEW S, NEW s \in Seq(S), s # <<>>, NEW t, t = Tail(s)
    PROVE  /\ t \in Seq(S) /\ \A x : Contains(s, x) <=> Contains(t, x) \/ x = Head(s)
           /\ ConnectFirst(s) => ConnectFirst(t) /\ ~Contains(t, "CONNECT")
           /\ DisconnectLast(s) => DisconnectLast(t) /\ (Head(s) = "DISCONNECT" => t = <<>>)
           /\ Parted(s) => Parted(t) /\ (Head(s) = "Online" => Contains(t, "Offline"))
<1>1. /\ t \in Seq(S) /\ Len(s) = Len(t) + 1 /\ Len(t) \in Nat
      /\ s[1] = Head(s) /\ 1 \in 1..Len(s)
      /\ \A i \in 1..Len(t) : t[i] = s[i + 1] /\ i + 1 \in 1..Len(s)
      /\ \A i \in 1..Len(s) : i = 1 \/ (i - 1 \in 1..Len(t) /\ t[i - 1] = s[i])
  <2>1. t \in Seq(S) /\ Len(t) = Len(s) - 1 /\ Len(s) \in Nat \ {0} /\ s[1] = Head(s)
        /\ \A i \in 1..Len(t) : t[i] = s[i + 1]
    BY HeadTailProperties, EmptySeq
  <2>2. \A i \in 1..Len(s) : i = 1 \/ (i - 1 \in 1..Len(t) /\ (i - 1) + 1 = i)
    BY <2>1
  <2>3. QED
    BY <2>1, <2>2
<1>2. \A x : Contains(s, x) <=> Contains(t, x) \/ x = Head(s)
  <2>1. \A x : Contains(t, x) => Contains(s, x)
    <3>1. \A i \in 1..Len(t) : \E j \in 1..Len(s) : t[i] = s[j]
      BY <1>1, Zenon
    <3>2. QED
      BY <3>1, Zenon DEF Contains
  <2>2. Contains(s, Head(s))
    BY <1>1, Zenon DEF Contains
  <2>3. \A x : Contains(s, x) => Contains(t, x) \/ x = Head(s)
    BY <1>1, Zenon DEF Contains
  <2>4. QED
    BY <2>1, <2>2, <2>3, Zenon
<1>3. ConnectFirst(s) => ConnectFirst(t) /\ ~Contains(t, "CONNECT")
  <2>1. ConnectFirst(s) => \A i \in 1..Len(t) : t[i] # "CONNECT"
    BY <1>1 DEF ConnectFirst
  <2>2. QED
    BY <2>1 DEF ConnectFirst, Contains
<1>4. DisconnectLast(s) => DisconnectLast(t)
  <2>1. ASSUME DisconnectLast(s), NEW i \in 1..Len(t), t[i] = "DISCONNECT"
        PROVE  i = Len(t)
    <3>1. i + 1 = Len(s)
      BY <2>1, <1>1 DEF DisconnectLast
    <3>2. QED
      BY <3>1, <1>1
  <2>2. QED
    BY <2>1 DEF DisconnectLast
<1>5. DisconnectLast(s) /\ Head(s) = "DISCONNECT" => t = <<>>
  <2>1. DisconnectLast(s) /\ Head(s) = "DISCONNECT" => Len(t) = 0
    <3>1. DisconnectLast(s) /\ s[1] = "DISCONNECT" => Len(s) = 1
      BY <1>1, Zenon DEF DisconnectLast
    <3>2. QED
      BY <3>1, <1>1
  <2>2. QED
    BY <1>1, <2>1, EmptySeq
<1>6. ASSUME Parted(s)
      PROVE  Parted(t) /\ (Head(s) = "Online" => Contains(t, "Offline"))
  <2>1. ASSUME NEW i \in 1..Len(t), t[i] = "Online"
        PROVE  \E j \in 1..Len(t) : i < j /\ t[j] = "Offline"
    <3>1. PICK j \in 1..Len(s) : i + 1 < j /\ s[j] = "Offline"
      BY <1>1, <1>6, <2>1 DEF Parted
    <3>2. j - 1 \in 1..Len(t) /\ i < j - 1 /\ t[j - 1] = s[j]
      BY <1>1, <3>1
    <3>3. QED
      BY <3>1, <3>2
  <2>2. ASSUME Head(s) = "Online"
        PROVE  Contains(t, "Offline")
    <3>1. PICK j \in 1..Len(s) : 1 < j /\ s[j] = "Offline"
      BY <1>1, <1>6, <2>2 DEF Parted
    <3>2. j - 1 \in 1..Len(t) /\ t[j - 1] = s[j]
      BY <1>1, <3>1
    <3>3. QED
      BY <3>1, <3>2 DEF Contains
  <2>3. QED
    BY <2>1, <2>2 DEF Parted
<1>7. QED
  BY <1>1, <1>2, <1>3, <1>4, <1>5, <1>6

\* What the broker takes.
LEMMA TakenPacket ==
    ASSUME out \in Seq(Packets), out # <<>>, out' = Tail(out), ConnectFirst(out), DisconnectLast(out)
    PROVE  /\ out' \in Seq(Packets) /\ (\A x : Contains(out, x) <=> Contains(out', x) \/ x = Head(out))
           /\ ConnectFirst(out') /\ ~Contains(out', "CONNECT") /\ DisconnectLast(out')
           /\ (Head(out) = "DISCONNECT" => out' = <<>>)
           /\ (Parted(out) => Parted(out') /\ (Head(out) = "Online" => Contains(out', "Offline")))
<1> DEFINE t == Tail(out)
<1>0. t = Tail(out)
  OBVIOUS
<1> HIDE DEF t
<1>1. /\ t \in Seq(Packets)
      /\ (\A x : Contains(out, x) <=> Contains(t, x) \/ x = Head(out))
      /\ ConnectFirst(out) => ConnectFirst(t) /\ ~Contains(t, "CONNECT")
      /\ DisconnectLast(out) => DisconnectLast(t) /\ (Head(out) = "DISCONNECT" => t = <<>>)
      /\ Parted(out) => Parted(t) /\ (Head(out) = "Online" => Contains(t, "Offline"))
  <2>1. t \in Seq(Packets)
    BY <1>0, Taken
  <2>2. \A x : Contains(out, x) <=> Contains(t, x) \/ x = Head(out)
    BY <1>0, Taken
  <2>3. ConnectFirst(out) => ConnectFirst(t) /\ ~Contains(t, "CONNECT")
    BY <1>0, Taken
  <2>4. DisconnectLast(out) => DisconnectLast(t) /\ (Head(out) = "DISCONNECT" => t = <<>>)
    BY <1>0, Taken
  <2>5. Parted(out) => Parted(t) /\ (Head(out) = "Online" => Contains(t, "Offline"))
    BY <1>0, Taken
  <2>6. QED
    BY <2>1, <2>2, <2>3, <2>4, <2>5
<1>2. out' = t
  BY <1>0
<1>3. QED
  BY <1>1, <1>2

-----------------------------------------------------------------------------
\* A step that only moves a thread, and neither to nor from the places where it
\* has something to send.
LEMMA ThreadMoves ==
    ASSUME NetInv, at' \in Places, UNCHANGED <<net, broker, late>>,
           at'["mqtt"] # at["mqtt"] => /\ at["mqtt"] \notin {"subscribe", "online", "done", "dead"}
                                       /\ at'["mqtt"] \notin {"subscribe", "online", "lost", "dead"},
           at'["main"] # at["main"] =>
               \/ at["main"] = "signals" /\ at'["main"] = "finish"
               \/ at["main"] = "regfree" /\ at'["main"] = "join_mqtt"
               \/ at["main"] = "join_mqtt" /\ at'["main"] = "disconnect" /\ At("mqtt", "done")
               \/ at["main"] = "join_loop" /\ at'["main"] = "exited"
    PROVE  NetInv'
<1>1. UNCHANGED <<sock, link, out, in, session, subs, retained, late>>
  BY DEF net, broker
<1>2. LinkInv'
  BY <1>1 DEF NetInv, LinkInv, Finishing, Ending, At
<1>3. AnnounceInv'
  BY <1>1 DEF NetInv, AnnounceInv, At
<1>4. FarewellInv'
  BY <1>1 DEF NetInv, FarewellInv, Finishing
<1>5. QED
  BY <1>2, <1>3, <1>4 DEF NetInv

\* A sent packet is a change.
LEMMA AppendIsMore ==
    ASSUME NEW S, NEW s \in Seq(S), NEW p \in S
    PROVE  Append(s, p) # s
<1>1. Len(Append(s, p)) = Len(s) + 1 /\ Len(s) \in Nat
  OBVIOUS
<1>2. QED
  BY <1>1

\* Every step keeps the invariant of the session.
LEMMA NetInductive ==
    ASSUME NetInv, [Next]_vars
    PROVE  NetInv'
<1> USE DEF Goto, Places, Labels
<1>1. CASE MqttHead
  BY <1>1, ThreadMoves DEF MqttHead, At, NetInv
<1>2. CASE LoopTimeout
  BY <1>2, ThreadMoves DEF LoopTimeout, At, NetInv
<1>3. CASE CheckTimer("mqtt")
  BY <1>3, ThreadMoves DEF CheckTimer, At, NetInv
<1>4. CASE StampTimer("mqtt")
  BY <1>4, ThreadMoves DEF StampTimer, At, NetInv
<1>5. CASE BeginRound
  BY <1>5, ThreadMoves DEF BeginRound, At, NetInv
<1>6. CASE LeaveLoop
  BY <1>6, ThreadMoves DEF LeaveLoop, At, NetInv
<1>7. CASE CheckTimer("loop")
  BY <1>7, ThreadMoves DEF CheckTimer, At, NetInv
<1>8. CASE StampTimer("loop")
  BY <1>8, ThreadMoves DEF StampTimer, At, NetInv
<1>9. CASE FreeRegex
  BY <1>9, ThreadMoves DEF FreeRegex, At, NetInv
<1>10. CASE JoinMqtt
  BY <1>10, ThreadMoves DEF JoinMqtt, At, NetInv
<1>11. CASE JoinLoop
  BY <1>11, ThreadMoves DEF JoinLoop, At, NetInv
<1>12. CASE NextSignal
  BY <1>12, ThreadMoves DEF NextSignal, At, NetInv
<1>13. CASE BreakOff
  BY <1>13, ThreadMoves DEF BreakOff, At, NetInv
<1>14. CASE NoConn \/ Reconnect
  <2>1. at' \in Places /\ at'["mqtt"] = "head" /\ at'["main"] = at["main"]
        /\ at["mqtt"] \in {"loop", "lost"} /\ ~sock
    BY <1>14 DEF NoConn, Reconnect, At, NetInv, LinkInv
  <2>2. /\ UNCHANGED <<session, subs, retained, late>>
        /\ \/ sock' /\ link' = "up" /\ out' = <<"CONNECT">> /\ in' = <<>>
           \/ UNCHANGED <<sock, link, out, in>>
    BY <1>14 DEF NoConn, Reconnect, Connect, net, broker
  <2>3. link # "up" /\ session # "live"
    BY <2>1 DEF NetInv, LinkInv, Ending, At
  <2>4. out' = <<"CONNECT">> => /\ out' \in Seq(Packets) /\ \A x : Contains(out', x) <=> x = "CONNECT"
                                /\ ConnectFirst(out') /\ DisconnectLast(out') /\ Parted(out')
    BY Fresh
  <2>5. in' = <<>> => in' \in Seq({"ack", "refused", "message"}) /\ \A x : ~Contains(in', x)
    BY Nothing
  <2>6. LinkInv'
    BY <2>1, <2>2, <2>3, <2>4, <2>5 DEF NetInv, LinkInv, Finishing, Ending, At
  <2>7. AnnounceInv'
    BY <2>1, <2>2, <2>3 DEF AnnounceInv, At
  <2>8. FarewellInv'
    BY <2>1, <2>2, <2>3, <2>4 DEF NetInv, FarewellInv, Finishing
  <2>9. QED
    BY <2>1, <2>6, <2>7, <2>8 DEF NetInv
<1>15. CASE ConnLost
  <2>1. at' \in Places /\ at'["mqtt"] = "lost" /\ at'["main"] = at["main"] /\ At("mqtt", "loop")
    BY <1>15 DEF ConnLost, At, NetInv
  <2>2. link = "cut" /\ sock' = FALSE /\ UNCHANGED <<link, out, in, session, subs, retained, late>>
    BY <1>15 DEF ConnLost, broker
  <2>3. LinkInv'
    BY <2>1, <2>2 DEF NetInv, LinkInv, AnnounceInv, FarewellInv, Finishing, Ending, At
  <2>4. AnnounceInv'
    BY <2>1, <2>2 DEF NetInv, LinkInv, AnnounceInv, FarewellInv, Finishing, Ending, At
  <2>5. FarewellInv'
    BY <2>1, <2>2 DEF NetInv, LinkInv, AnnounceInv, FarewellInv, Finishing, Ending, At
  <2>6. QED
    BY <2>1, <2>3, <2>4, <2>5 DEF NetInv
<1>16. CASE OnRefused
  <2>1. at' \in Places /\ at'["mqtt"] = "head" /\ at'["main"] = at["main"] /\ At("mqtt", "loop")
    BY <1>16 DEF OnRefused, At, NetInv
  <2>2. /\ sock' = FALSE /\ link' = "cut" /\ in' = <<>> /\ out' = <<>> /\ in # <<>> /\ Head(in) = "refused"
        /\ UNCHANGED <<session, subs, retained, late>>
    BY <1>16 DEF OnRefused, broker
  <2>3. Contains(in, "refused")
    BY <2>2, Taken DEF NetInv, LinkInv
  <2>4. /\ out' \in Seq(Packets) /\ in' \in Seq({"ack", "refused", "message"})
        /\ (\A x : ~Contains(out', x) /\ ~Contains(in', x))
        /\ ConnectFirst(out') /\ DisconnectLast(out') /\ Parted(out')
    BY <2>2, Nothing
  <2>5. LinkInv'
    BY <2>1, <2>2, <2>3, <2>4 DEF NetInv, LinkInv, AnnounceInv, FarewellInv, Finishing, Ending, At
  <2>6. AnnounceInv'
    BY <2>1, <2>2, <2>3, <2>4 DEF NetInv, LinkInv, AnnounceInv, FarewellInv, Finishing, Ending, At
  <2>7. FarewellInv'
    BY <2>1, <2>2, <2>3, <2>4 DEF NetInv, LinkInv, AnnounceInv, FarewellInv, Finishing, Ending, At
  <2>8. QED
    BY <2>1, <2>5, <2>6, <2>7 DEF NetInv
<1>17. CASE OnConnect
  <2>1. at' \in Places /\ at'["mqtt"] = "subscribe" /\ at'["main"] = at["main"] /\ At("mqtt", "loop")
    BY <1>17 DEF OnConnect, At, NetInv
  <2>2. /\ in # <<>> /\ Head(in) = "ack" /\ in' = Tail(in)
        /\ UNCHANGED <<sock, link, out, session, subs, retained, late>>
    BY <1>17 DEF OnConnect, broker
  <2>3. /\ in' \in Seq({"ack", "refused", "message"})
        /\ \A x : Contains(in, x) <=> Contains(in', x) \/ x = Head(in)
    BY <2>2, Taken DEF NetInv, LinkInv
  <2>4. LinkInv'
    BY <2>1, <2>2, <2>3 DEF NetInv, LinkInv, AnnounceInv, FarewellInv, Finishing, Ending, At
  <2>5. AnnounceInv'
    BY <2>1, <2>2, <2>3 DEF NetInv, LinkInv, AnnounceInv, FarewellInv, Finishing, Ending, At
  <2>6. FarewellInv'
    BY <2>1, <2>2, <2>3 DEF NetInv, LinkInv, AnnounceInv, FarewellInv, Finishing, Ending, At
  <2>7. QED
    BY <2>1, <2>4, <2>5, <2>6 DEF NetInv
<1>18. CASE OnMessage
  <2>1. at' \in Places /\ at'["mqtt"] = "head" /\ at'["main"] = at["main"] /\ At("mqtt", "loop")
    BY <1>18 DEF OnMessage, At, NetInv
  <2>2. /\ in # <<>> /\ Head(in) = "message" /\ in' = Tail(in)
        /\ UNCHANGED <<sock, link, out, session, subs, retained, late>>
    BY <1>18 DEF OnMessage, broker
  <2>3. /\ in' \in Seq({"ack", "refused", "message"})
        /\ \A x : Contains(in, x) <=> Contains(in', x) \/ x = Head(in)
    BY <2>2, Taken DEF NetInv, LinkInv
  <2>4. LinkInv'
    BY <2>1, <2>2, <2>3 DEF NetInv, LinkInv, AnnounceInv, FarewellInv, Finishing, Ending, At
  <2>5. AnnounceInv'
    BY <2>1, <2>2, <2>3 DEF NetInv, LinkInv, AnnounceInv, FarewellInv, Finishing, Ending, At
  <2>6. FarewellInv'
    BY <2>1, <2>2, <2>3 DEF NetInv, LinkInv, AnnounceInv, FarewellInv, Finishing, Ending, At
  <2>7. QED
    BY <2>1, <2>4, <2>5, <2>6 DEF NetInv
<1>19. CASE Subscribe
  <2>1. at' \in Places /\ at'["mqtt"] = "online" /\ at'["main"] = at["main"] /\ At("mqtt", "subscribe")
    BY <1>19 DEF Subscribe, At, NetInv
  <2>2. /\ out' = (IF sock /\ link = "up" THEN Append(out, "SUBSCRIBE") ELSE out)
        /\ UNCHANGED <<sock, link, in, session, subs, retained>> /\ UNCHANGED late
    BY <1>19 DEF Subscribe, Send, broker
  <2>3. out' = out \/ (/\ out' \in Seq(Packets) /\ link = "up" /\ sock
                         /\ (\A x : Contains(out', x) <=> Contains(out, x) \/ x = "SUBSCRIBE")
                         /\ ConnectFirst(out')
                         /\ (~Contains(out, "DISCONNECT") => DisconnectLast(out'))
                         /\ (Parted(out) => Parted(out')))
    BY <2>2, SentPacket DEF NetInv, LinkInv, Packets
  <2>4. link # "up" => Parted(out)
    BY Nothing DEF NetInv, LinkInv
  <2>5. out' = out => ~(sock /\ link = "up")
    BY <2>2, AppendIsMore DEF NetInv, LinkInv, Packets
  <2>6. LinkInv'
    BY <2>1, <2>2, <2>3, <2>4, <2>5 DEF NetInv, LinkInv, AnnounceInv, FarewellInv, Finishing, Ending, At
  <2>7. AnnounceInv'
    BY <2>1, <2>2, <2>3, <2>4, <2>5 DEF NetInv, LinkInv, AnnounceInv, FarewellInv, Finishing, Ending, At
  <2>8. FarewellInv'
    BY <2>1, <2>2, <2>3, <2>4, <2>5 DEF NetInv, LinkInv, AnnounceInv, FarewellInv, Finishing, Ending, At
  <2>9. QED
    BY <2>1, <2>6, <2>7, <2>8 DEF NetInv
<1>20. CASE PublishOnline
  <2>1. at' \in Places /\ at'["mqtt"] = "check" /\ at'["main"] = at["main"] /\ At("mqtt", "online")
    BY <1>20 DEF PublishOnline, At, NetInv
  <2>2. /\ out' = (IF sock /\ link = "up" THEN Append(out, "Online") ELSE out)
        /\ UNCHANGED <<sock, link, in, session, subs, retained>> /\ (Finishing => late') /\ (late => late')
    BY <1>20 DEF PublishOnline, Send, broker, Finishing
  <2>3. out' = out \/ (/\ out' \in Seq(Packets) /\ link = "up" /\ sock
                         /\ (\A x : Contains(out', x) <=> Contains(out, x) \/ x = "Online")
                         /\ ConnectFirst(out')
                         /\ (~Contains(out, "DISCONNECT") => DisconnectLast(out')))
    BY <2>2, SentPacket DEF NetInv, LinkInv, Packets
  <2>4. link # "up" => Parted(out)
    BY Nothing DEF NetInv, LinkInv
  <2>5. out' = out => ~(sock /\ link = "up")
    BY <2>2, AppendIsMore DEF NetInv, LinkInv, Packets
  <2>6. LinkInv'
    BY <2>1, <2>2, <2>3, <2>4, <2>5 DEF NetInv, LinkInv, AnnounceInv, FarewellInv, Finishing, Ending, At
  <2>7. AnnounceInv'
    BY <2>1, <2>2, <2>3, <2>4, <2>5 DEF NetInv, LinkInv, AnnounceInv, FarewellInv, Finishing, Ending, At
  <2>8. FarewellInv'
    BY <2>1, <2>2, <2>3, <2>4, <2>5 DEF NetInv, LinkInv, AnnounceInv, FarewellInv, Finishing, Ending, At
  <2>9. QED
    BY <2>1, <2>6, <2>7, <2>8 DEF NetInv
<1>21. CASE PublishOffline
  <2>1. at' \in Places /\ at'["main"] = "regfree" /\ at'["mqtt"] = at["mqtt"] /\ At("main", "finish")
    BY <1>21 DEF PublishOffline, At, NetInv
  <2>2. /\ out' = (IF sock /\ link = "up" THEN Append(out, "Offline") ELSE out)
        /\ UNCHANGED <<sock, link, in, session, subs, retained>> /\ UNCHANGED late
    BY <1>21 DEF PublishOffline, Send, broker
  <2>3. out' = out \/ (/\ out' \in Seq(Packets) /\ link = "up" /\ sock
                         /\ (\A x : Contains(out', x) <=> Contains(out, x) \/ x = "Offline")
                         /\ ConnectFirst(out')
                         /\ (~Contains(out, "DISCONNECT") => DisconnectLast(out'))
                         /\ Parted(out'))
    BY <2>2, SentPacket DEF NetInv, LinkInv, Packets
  <2>4. link # "up" => Parted(out)
    BY Nothing DEF NetInv, LinkInv
  <2>5. out' = out => ~(sock /\ link = "up")
    BY <2>2, AppendIsMore DEF NetInv, LinkInv, Packets
  <2>6. LinkInv'
    BY <2>1, <2>2, <2>3, <2>4, <2>5 DEF NetInv, LinkInv, AnnounceInv, FarewellInv, Finishing, Ending, At
  <2>7. AnnounceInv'
    BY <2>1, <2>2, <2>3, <2>4, <2>5 DEF NetInv, LinkInv, AnnounceInv, FarewellInv, Finishing, Ending, At
  <2>8. FarewellInv'
    BY <2>1, <2>2, <2>3, <2>4, <2>5 DEF NetInv, LinkInv, AnnounceInv, FarewellInv, Finishing, Ending, At
  <2>9. QED
    BY <2>1, <2>6, <2>7, <2>8 DEF NetInv
<1>22. CASE Disconnect
  <2>1. at' \in Places /\ at'["main"] = "destroy" /\ at'["mqtt"] = at["mqtt"] /\ At("main", "disconnect")
    BY <1>22 DEF Disconnect, At, NetInv
  <2>2. /\ out' = (IF sock /\ link = "up" THEN Append(out, "DISCONNECT") ELSE out)
        /\ UNCHANGED <<sock, link, in, session, subs, retained>> /\ UNCHANGED late
    BY <1>22 DEF Disconnect, Send, broker
  <2>3. out' = out \/ (/\ out' \in Seq(Packets) /\ link = "up" /\ sock
                         /\ (\A x : Contains(out', x) <=> Contains(out, x) \/ x = "DISCONNECT")
                         /\ ConnectFirst(out')
                         /\ (~Contains(out, "DISCONNECT") => DisconnectLast(out'))
                         /\ (Parted(out) => Parted(out')))
    BY <2>2, SentPacket DEF NetInv, LinkInv, Packets
  <2>4. link # "up" => Parted(out)
    BY Nothing DEF NetInv, LinkInv
  <2>5. out' = out => ~(sock /\ link = "up")
    BY <2>2, AppendIsMore DEF NetInv, LinkInv, Packets
  <2>6. LinkInv'
    BY <2>1, <2>2, <2>3, <2>4, <2>5 DEF NetInv, LinkInv, AnnounceInv, FarewellInv, Finishing, Ending, At
  <2>7. AnnounceInv'
    BY <2>1, <2>2, <2>3, <2>4, <2>5 DEF NetInv, LinkInv, AnnounceInv, FarewellInv, Finishing, Ending, At
  <2>8. FarewellInv'
    BY <2>1, <2>2, <2>3, <2>4, <2>5 DEF NetInv, LinkInv, AnnounceInv, FarewellInv, Finishing, Ending, At
  <2>9. QED
    BY <2>1, <2>6, <2>7, <2>8 DEF NetInv
<1>23. CASE Destroy
  <2>1. at' \in Places /\ at'["main"] = "join_loop" /\ at'["mqtt"] = at["mqtt"] /\ At("main", "destroy")
    BY <1>23 DEF Destroy, At, NetInv
  <2>2. UNCHANGED <<link, out, in, session, subs, retained, late>>
    BY <1>23 DEF Destroy, broker
  <2>3. LinkInv'
    BY <2>1, <2>2 DEF NetInv, LinkInv, AnnounceInv, FarewellInv, Finishing, Ending, At
  <2>4. AnnounceInv'
    BY <2>1, <2>2 DEF NetInv, LinkInv, AnnounceInv, FarewellInv, Finishing, Ending, At
  <2>5. FarewellInv'
    BY <2>1, <2>2 DEF NetInv, LinkInv, AnnounceInv, FarewellInv, Finishing, Ending, At
  <2>6. QED
    BY <2>1, <2>3, <2>4, <2>5 DEF NetInv
<1>24. CASE Cut
  <2>1. UNCHANGED at /\ at' \in Places
    BY <1>24 DEF Cut, threads, NetInv
  <2>2. /\ link = "up" /\ link' = "cut" /\ out' = <<>> /\ in' = <<>> /\ session' \in {"none", "stale"}
        /\ (session' = "none" => session = "none") /\ UNCHANGED <<sock, subs, retained, late>>
    BY <1>24 DEF Cut, Lose, Orphan, Will, NetInv, LinkInv
  <2>3. /\ out' \in Seq(Packets) /\ in' \in Seq({"ack", "refused", "message"})
        /\ (\A x : ~Contains(out', x) /\ ~Contains(in', x))
        /\ ConnectFirst(out') /\ DisconnectLast(out') /\ Parted(out')
    BY <2>2, Nothing
  <2>4. LinkInv'
    BY <2>1, <2>2, <2>3 DEF NetInv, LinkInv, AnnounceInv, FarewellInv, Finishing, Ending, At
  <2>5. AnnounceInv'
    BY <2>1, <2>2, <2>3 DEF NetInv, LinkInv, AnnounceInv, FarewellInv, Finishing, Ending, At
  <2>6. FarewellInv'
    BY <2>1, <2>2, <2>3 DEF NetInv, LinkInv, AnnounceInv, FarewellInv, Finishing, Ending, At
  <2>7. QED
    BY <2>1, <2>4, <2>5, <2>6 DEF NetInv
<1>25. CASE Crash
  <2>1. at' \in Places /\ at'["main"] = "dead" /\ at'["mqtt"] = "dead"
    BY <1>25 DEF Crash, NetInv
  <2>2. /\ link' # "up" /\ session' \in {"none", "stale"} /\ (session' = "none" => session = "none")
        /\ out' = <<>> /\ (in' = <<>> \/ in' = in) /\ UNCHANGED <<subs, retained, late>>
    BY <1>25 DEF Crash, Lose, Orphan, Will, NetInv, LinkInv
  <2>3. /\ out' \in Seq(Packets) /\ in' \in Seq({"ack", "refused", "message"})
        /\ (\A x : ~Contains(out', x))
        /\ ConnectFirst(out') /\ DisconnectLast(out') /\ Parted(out')
    BY <2>2, Nothing DEF NetInv, LinkInv
  <2>4. LinkInv'
    BY <2>1, <2>2, <2>3 DEF NetInv, LinkInv, AnnounceInv, FarewellInv, Finishing, Ending, At
  <2>5. AnnounceInv'
    BY <2>1, <2>2, <2>3 DEF NetInv, LinkInv, AnnounceInv, FarewellInv, Finishing, Ending, At
  <2>6. FarewellInv'
    BY <2>1, <2>2, <2>3 DEF NetInv, LinkInv, AnnounceInv, FarewellInv, Finishing, Ending, At
  <2>7. QED
    BY <2>1, <2>4, <2>5, <2>6 DEF NetInv
<1>26. CASE PublishWill
  <2>1. UNCHANGED at /\ at' \in Places
    BY <1>26 DEF PublishWill, threads, NetInv
  <2>2. session = "stale" /\ session' = "none" /\ retained' = "Offline" /\ UNCHANGED <<sock, link, out, in, subs, late>>
    BY <1>26 DEF PublishWill, net
  <2>3. LinkInv'
    BY <2>1, <2>2 DEF NetInv, LinkInv, AnnounceInv, FarewellInv, Finishing, Ending, At
  <2>4. AnnounceInv'
    BY <2>1, <2>2 DEF NetInv, LinkInv, AnnounceInv, FarewellInv, Finishing, Ending, At
  <2>5. FarewellInv'
    BY <2>1, <2>2 DEF NetInv, LinkInv, AnnounceInv, FarewellInv, Finishing, Ending, At
  <2>6. QED
    BY <2>1, <2>3, <2>4, <2>5 DEF NetInv
<1>27. CASE Accept
  <2>1. UNCHANGED at /\ at' \in Places
    BY <1>27 DEF Accept, threads, NetInv
  <2>2. /\ link = "up" /\ out # <<>> /\ Head(out) = "CONNECT" /\ out' = Tail(out) /\ in' = Append(in, "ack")
        /\ UNCHANGED <<sock, link, late>>
        /\ retained' = (IF session = "stale" THEN "Offline" ELSE retained)
        /\ session' = "live" /\ ~subs'
    BY <1>27 DEF Accept, broker
  <2>3. /\ out' \in Seq(Packets) /\ (\A x : Contains(out, x) <=> Contains(out', x) \/ x = Head(out))
        /\ ConnectFirst(out') /\ ~Contains(out', "CONNECT") /\ DisconnectLast(out')
        /\ (Head(out) = "DISCONNECT" => out' = <<>>)
        /\ (Parted(out) => Parted(out') /\ (Head(out) = "Online" => Contains(out', "Offline")))
    BY <2>2, TakenPacket DEF NetInv, LinkInv
  <2>4. in = <<>> /\ session # "live" /\ \A x : ~Contains(in, x)
    BY <2>2, <2>3, Nothing DEF NetInv, LinkInv
  <2>5. /\ in' \in Seq({"ack", "refused", "message"})
        /\ \A x : Contains(in', x) <=> Contains(in, x) \/ x = "ack"
    BY <2>2, SentReply DEF NetInv, LinkInv
  <2>6. LinkInv'
    BY <2>1, <2>2, <2>3, <2>4, <2>5 DEF NetInv, LinkInv, AnnounceInv, FarewellInv, Finishing, Ending, At
  <2>7. AnnounceInv'
    BY <2>1, <2>2, <2>3, <2>4, <2>5 DEF NetInv, LinkInv, AnnounceInv, FarewellInv, Finishing, Ending, At
  <2>8. FarewellInv'
    BY <2>1, <2>2, <2>3, <2>4, <2>5 DEF NetInv, LinkInv, AnnounceInv, FarewellInv, Finishing, Ending, At
  <2>9. QED
    BY <2>1, <2>6, <2>7, <2>8 DEF NetInv
<1>28. CASE Refuse
  <2>1. UNCHANGED at /\ at' \in Places
    BY <1>28 DEF Refuse, threads, NetInv
  <2>2. /\ link = "up" /\ out # <<>> /\ Head(out) = "CONNECT" /\ out' = Tail(out) /\ in' = Append(in, "refused")
        /\ UNCHANGED <<sock, link, late>>
        /\ UNCHANGED <<session, subs, retained>>
    BY <1>28 DEF Refuse, broker
  <2>3. /\ out' \in Seq(Packets) /\ (\A x : Contains(out, x) <=> Contains(out', x) \/ x = Head(out))
        /\ ConnectFirst(out') /\ ~Contains(out', "CONNECT") /\ DisconnectLast(out')
        /\ (Head(out) = "DISCONNECT" => out' = <<>>)
        /\ (Parted(out) => Parted(out') /\ (Head(out) = "Online" => Contains(out', "Offline")))
    BY <2>2, TakenPacket DEF NetInv, LinkInv
  <2>4. in = <<>> /\ session # "live" /\ \A x : ~Contains(in, x)
    BY <2>2, <2>3, Nothing DEF NetInv, LinkInv
  <2>5. /\ in' \in Seq({"ack", "refused", "message"})
        /\ \A x : Contains(in', x) <=> Contains(in, x) \/ x = "refused"
    BY <2>2, SentReply DEF NetInv, LinkInv
  <2>6. LinkInv'
    BY <2>1, <2>2, <2>3, <2>4, <2>5 DEF NetInv, LinkInv, AnnounceInv, FarewellInv, Finishing, Ending, At
  <2>7. AnnounceInv'
    BY <2>1, <2>2, <2>3, <2>4, <2>5 DEF NetInv, LinkInv, AnnounceInv, FarewellInv, Finishing, Ending, At
  <2>8. FarewellInv'
    BY <2>1, <2>2, <2>3, <2>4, <2>5 DEF NetInv, LinkInv, AnnounceInv, FarewellInv, Finishing, Ending, At
  <2>9. QED
    BY <2>1, <2>6, <2>7, <2>8 DEF NetInv
<1>29. CASE Serve
  <2>1. UNCHANGED at /\ at' \in Places
    BY <1>29 DEF Serve, threads, NetInv
  <2>2. /\ link = "up" /\ out # <<>> /\ Head(out) # "CONNECT" /\ out' = Tail(out) /\ UNCHANGED <<sock, in, late>>
    BY <1>29 DEF Serve
  <2>3. /\ out' \in Seq(Packets) /\ (\A x : Contains(out, x) <=> Contains(out', x) \/ x = Head(out))
        /\ ConnectFirst(out') /\ ~Contains(out', "CONNECT") /\ DisconnectLast(out')
        /\ (Head(out) = "DISCONNECT" => out' = <<>>)
        /\ (Parted(out) => Parted(out') /\ (Head(out) = "Online" => Contains(out', "Offline")))
    BY <2>2, TakenPacket DEF NetInv, LinkInv
  <2>4. session = "live" =>
           /\ (subs' <=> subs \/ Head(out) = "SUBSCRIBE")
           /\ retained' = (IF Head(out) \in {"Online", "Offline"} THEN Head(out) ELSE retained)
           /\ session' = (IF Head(out) = "DISCONNECT" THEN "none" ELSE session)
           /\ link' = (IF Head(out) = "DISCONNECT" THEN "cut" ELSE link)
    BY <1>29, Zenon DEF Serve
  <2>5. session # "live" => UNCHANGED <<session, subs, retained, link>>
    BY <1>29 DEF Serve, broker
  <2>6. \A x : ~Contains(<<>>, x)
    BY Nothing
  <2>7. LinkInv'
    BY <2>1, <2>2, <2>3, <2>4, <2>5, <2>6 DEF NetInv, LinkInv, AnnounceInv, FarewellInv, Finishing, Ending, At
  <2>8. AnnounceInv'
    BY <2>1, <2>2, <2>3, <2>4, <2>5, <2>6 DEF NetInv, LinkInv, AnnounceInv, FarewellInv, Finishing, Ending, At
  <2>9. FarewellInv'
    BY <2>1, <2>2, <2>3, <2>4, <2>5, <2>6 DEF NetInv, LinkInv, AnnounceInv, FarewellInv, Finishing, Ending, At
  <2>10. QED
    BY <2>1, <2>7, <2>8, <2>9 DEF NetInv
<1>30. CASE Deliver
  <2>1. UNCHANGED at /\ at' \in Places
    BY <1>30 DEF Deliver, threads, NetInv
  <2>2. /\ session = "live" /\ in' = Append(in, "message") /\ UNCHANGED <<sock, link, out, session, subs, retained, late>>
    BY <1>30 DEF Deliver, broker
  <2>3. /\ in' \in Seq({"ack", "refused", "message"})
        /\ \A x : Contains(in', x) <=> Contains(in, x) \/ x = "message"
    BY <2>2, SentReply DEF NetInv, LinkInv
  <2>4. LinkInv'
    BY <2>1, <2>2, <2>3 DEF NetInv, LinkInv, AnnounceInv, FarewellInv, Finishing, Ending, At
  <2>5. AnnounceInv'
    BY <2>1, <2>2, <2>3 DEF NetInv, LinkInv, AnnounceInv, FarewellInv, Finishing, Ending, At
  <2>6. FarewellInv'
    BY <2>1, <2>2, <2>3 DEF NetInv, LinkInv, AnnounceInv, FarewellInv, Finishing, Ending, At
  <2>7. QED
    BY <2>1, <2>4, <2>5, <2>6 DEF NetInv
<1>31. CASE \/ (\E signal \in {"stop", "other"} : Raise(signal)) \/ IntervalPasses \/ Over
          \/ UNCHANGED vars
  BY <1>31, ThreadMoves DEF Raise, IntervalPasses, Over, vars, threads, NetInv
<1>32. QED
  BY <1>1, <1>2, <1>3, <1>4, <1>5, <1>6, <1>7, <1>8, <1>9, <1>10, <1>11, <1>12, <1>13, <1>14, <1>15, <1>16, <1>17, <1>18, <1>19, <1>20, <1>21, <1>22, <1>23, <1>24, <1>25, <1>26, <1>27, <1>28, <1>29, <1>30, <1>31
     DEF Next, Mqtt, Loop, FinishSteps, Broker

\* It holds in every state.
THEOREM NetInvCorrect == Spec => []NetInv
<1>1. Init => NetInv
  <2> SUFFICES ASSUME Init PROVE NetInv
    OBVIOUS
  <2>1. /\ at \in Places /\ At("main", "signals") /\ At("mqtt", "head") /\ at["main"] \notin Ending
        /\ session = "none" /\ retained # "Online" /\ in = <<>>
        /\ (link = "up" /\ sock /\ out = <<"CONNECT">>) \/ (link = "none" /\ out = <<>>)
    BY DEF Init, Places, Labels, At, Ending
  <2>2. out \in Seq(Packets) /\ ConnectFirst(out) /\ DisconnectLast(out)
        /\ ~Contains(out, "Offline") /\ ~Contains(out, "DISCONNECT")
    BY <2>1, Fresh, Nothing
  <2>3. in \in Seq({"ack", "refused", "message"}) /\ ~Contains(in, "refused")
    BY <2>1, Nothing
  <2>4. LinkInv
    BY <2>1, <2>2, <2>3 DEF LinkInv, At, Ending
  <2>5. AnnounceInv /\ FarewellInv
    BY <2>1 DEF AnnounceInv, FarewellInv, Finishing, At
  <2>6. QED
    BY <2>1, <2>4, <2>5 DEF NetInv
<1>2. NetInv /\ [Next]_vars => NetInv'
  BY NetInductive
<1>3. QED
  BY <1>1, <1>2, PTL DEF Spec

\* On every connection that lives, however many were lost before, on_connect()
\* subscribes and announces the daemon: when nothing is under way any more, the
\* broker has both.
THEOREM AnnouncedCorrect == Spec => []Announced
<1>1. NetInv => Announced
  <2> SUFFICES ASSUME NetInv, session = "live", out = <<>>, in = <<>>,
                      at["mqtt"] \in {"head", "loop"}, At("main", "signals")
               PROVE  retained = "Online" /\ subs
    BY DEF Announced
  <2>1. ~Contains(in, "ack") /\ ~Contains(out, "SUBSCRIBE") /\ ~Contains(out, "Online")
    BY Nothing
  <2>2. QED
    BY <2>1 DEF NetInv, AnnounceInv, At
<1>2. QED
  BY <1>1, NetInvCorrect, PTL

\* Whatever way the daemon ends, and whatever is lost then, the retained LWT does
\* not stay Online once the session is over, unless on_connect() published it
\* after finish had published Offline.
THEOREM LastWordOfflineCorrect == Spec => []LastWordOffline
<1>1. NetInv => LastWordOffline
  BY DEF NetInv, FarewellInv, LastWordOffline
<1>2. QED
  BY <1>1, NetInvCorrect, PTL
-----------------------------------------------------------------------------
(* The types.                                                              *)

\* Where each thread can be.
LabelsInv ==
    /\ at["main"] \in {"signals", "finish", "regfree", "join_mqtt", "disconnect", "destroy",
                       "join_loop", "exited", "dead"}
    /\ at["mqtt"] \in {"head", "loop", "lost", "subscribe", "online", "check", "stamp", "done", "dead"}
    /\ at["loop"] \in {"head", "check", "stamp", "done", "dead"}

LEMMA LabelsStep ==
    ASSUME at \in Places, LabelsInv, [Next]_vars
    PROVE  LabelsInv'
<1> USE DEF Goto, Places, Labels
<1>1. CASE Mqtt
  BY <1>1 DEF Mqtt, MqttHead, NoConn, ConnLost, Reconnect, LoopTimeout, OnRefused, OnConnect,
     Subscribe, PublishOnline, OnMessage, CheckTimer, StampTimer, LabelsInv
<1>2. CASE Loop
  BY <1>2 DEF Loop, BeginRound, LeaveLoop, CheckTimer, StampTimer, LabelsInv
<1>3. CASE FinishSteps \/ NextSignal \/ BreakOff
  BY <1>3 DEF FinishSteps, PublishOffline, FreeRegex, JoinMqtt, Disconnect, Destroy, JoinLoop,
     NextSignal, BreakOff, LabelsInv
<1>4. CASE Crash
  BY <1>4 DEF Crash, LabelsInv
<1>5. CASE \/ (\E signal \in {"stop", "other"} : Raise(signal)) \/ Broker \/ Deliver
           \/ IntervalPasses \/ Cut \/ Over \/ UNCHANGED vars
  BY <1>5 DEF Raise, Broker, PublishWill, Accept, Refuse, Serve, Deliver, IntervalPasses, Cut,
     Over, vars, threads, LabelsInv
<1>6. QED
  BY <1>1, <1>2, <1>3, <1>4, <1>5 DEF Next

\* The pipe holds what it can hold: the handler writes no signal it has no room for.
PipeInv == pipe \in Seq({"stop", "other"}) /\ Len(pipe) <= PipeSize

LEMMA PipeStep ==
    ASSUME PipeInv, [Next]_vars
    PROVE  PipeInv'
<1>1. ASSUME NEW signal \in {"stop", "other"}, Raise(signal)
      PROVE  PipeInv'
  <2>1. CASE Len(pipe) < PipeSize
    <3>1. pipe' = Append(pipe, signal)
      BY <1>1, <2>1 DEF Raise
    <3>2. Append(pipe, signal) \in Seq({"stop", "other"})
          /\ Len(Append(pipe, signal)) = Len(pipe) + 1 /\ Len(pipe) \in Nat
      BY <1>1 DEF PipeInv
    <3>3. QED
      BY <3>1, <3>2, <2>1, PipeAssumption DEF PipeInv
  <2>2. CASE ~(Len(pipe) < PipeSize)
    BY <1>1, <2>2 DEF Raise, PipeInv
  <2>3. QED
    BY <2>1, <2>2
<1>2. <<>> \in Seq({"stop", "other"}) /\ Len(<<>>) <= PipeSize
  BY PipeAssumption
<1>3. CASE NextSignal
  <2>1. pipe # <<>> /\ (pipe' = <<>> \/ pipe' = Tail(pipe))
    BY <1>3 DEF NextSignal
  <2>2. Tail(pipe) \in Seq({"stop", "other"}) /\ Len(Tail(pipe)) = Len(pipe) - 1
        /\ Len(pipe) \in Nat
    BY <2>1, HeadTailProperties DEF PipeInv
  <2>3. CASE pipe' = <<>>
    BY <1>2, <2>3 DEF PipeInv
  <2>4. CASE pipe' = Tail(pipe)
    <3>1. pipe' \in Seq({"stop", "other"}) /\ Len(pipe') = Len(pipe) - 1
      BY <2>2, <2>4
    <3>2. QED
      BY <2>2, <3>1, PipeAssumption DEF PipeInv
  <2>5. QED
    BY <2>1, <2>3, <2>4
<1>4. CASE BreakOff \/ Crash
  BY <1>2, <1>4 DEF BreakOff, Crash, PipeInv
<1>5. CASE \/ Mqtt \/ Loop \/ FinishSteps \/ Broker \/ Deliver \/ IntervalPasses \/ Cut
           \/ Over \/ UNCHANGED vars
  <2>1. UNCHANGED pipe
    BY <1>5 DEF Mqtt, MqttHead, NoConn, ConnLost, Reconnect, LoopTimeout, OnRefused, OnConnect,
       Subscribe, PublishOnline, OnMessage, CheckTimer, StampTimer, Loop, BeginRound, LeaveLoop,
       FinishSteps, PublishOffline, FreeRegex, JoinMqtt, Disconnect, Destroy, JoinLoop,
       Broker, PublishWill, Accept, Refuse, Serve, Deliver, IntervalPasses, Cut, Over, vars,
       threads, signals
  <2>2. QED
    BY <2>1 DEF PipeInv
<1>6. QED
  BY <1>1, <1>3, <1>4, <1>5 DEF Next

\* A socket belongs to a client that is not destroyed; nobody connects afterwards,
\* because the MQTT thread has ended before.
ClientInv ==
    /\ client \subseteq {"mosq", "regex"}
    /\ sock \in BOOLEAN
    /\ sock => "mosq" \in client
    /\ "mosq" \notin client => at["main"] \in {"join_loop", "exited", "dead"}

LEMMA ClientStep ==
    ASSUME NetInv, LabelsInv, ClientInv, [Next]_vars
    PROVE  ClientInv'
<1> USE DEF Goto, Places, Labels
<1>1. CASE NoConn \/ Reconnect
  <2>1. at["mqtt"] \in {"loop", "lost"} /\ at'["main"] = at["main"] /\ UNCHANGED client
    BY <1>1 DEF NoConn, Reconnect, At, NetInv
  <2>2. at["main"] \notin {"join_loop", "exited", "dead"}
    BY <2>1 DEF NetInv, LinkInv, Ending, At
  <2>3. "mosq" \in client
    BY <2>2 DEF ClientInv
  <2>4. sock' \in BOOLEAN
    BY <1>1, Zenon DEF NoConn, Reconnect, Connect, ClientInv, net
  <2>5. QED
    BY <2>1, <2>3, <2>4, Zenon DEF ClientInv
<1>2. CASE ConnLost \/ OnRefused
  <2>1. at'["main"] = at["main"] /\ sock' = FALSE /\ UNCHANGED client
    BY <1>2 DEF ConnLost, OnRefused, NetInv
  <2>2. QED
    BY <2>1, Zenon DEF ClientInv
<1>3. CASE Destroy
  <2>1. client' = client \ {"mosq"} /\ sock' = FALSE /\ at'["main"] = "join_loop"
    BY <1>3 DEF Destroy, NetInv
  <2>2. QED
    BY <2>1, Zenon DEF ClientInv
<1>4. CASE Crash
  <2>1. UNCHANGED client /\ sock' = FALSE /\ at'["main"] = "dead"
    BY <1>4 DEF Crash, NetInv
  <2>2. QED
    BY <2>1, Zenon DEF ClientInv
<1>5. CASE FreeRegex
  <2>1. client' = client \ {"regex"} /\ UNCHANGED sock /\ At("main", "regfree")
    BY <1>5 DEF FreeRegex, net
  <2>2. "mosq" \in client
    BY <2>1 DEF ClientInv, At
  <2>3. "mosq" \in client' /\ client' \subseteq {"mosq", "regex"}
    BY <2>1, <2>2 DEF ClientInv
  <2>4. QED
    BY <2>1, <2>3, Zenon DEF ClientInv
<1>6. CASE \/ MqttHead \/ LoopTimeout \/ OnConnect \/ Subscribe \/ PublishOnline \/ OnMessage
           \/ (\E t \in {"mqtt", "loop"} : CheckTimer(t) \/ StampTimer(t))
           \/ BeginRound \/ LeaveLoop \/ PublishOffline \/ JoinMqtt \/ Disconnect \/ JoinLoop
           \/ NextSignal \/ BreakOff
           \/ (\E signal \in {"stop", "other"} : Raise(signal))
           \/ Broker \/ Deliver \/ IntervalPasses \/ Cut \/ Over \/ UNCHANGED vars
  <2>1. UNCHANGED <<client, sock>>
    BY <1>6 DEF MqttHead, LoopTimeout, OnConnect, Subscribe, PublishOnline, OnMessage, CheckTimer,
       StampTimer, BeginRound, LeaveLoop, PublishOffline, JoinMqtt, Disconnect, JoinLoop,
       NextSignal, BreakOff, Raise, Broker, PublishWill, Accept, Refuse, Serve, Deliver,
       IntervalPasses, Cut, Over, vars, net
  <2>2. at["main"] \in {"join_loop", "exited", "dead"} =>
            at'["main"] \in {"join_loop", "exited", "dead"}
    BY <1>6 DEF MqttHead, LoopTimeout, OnConnect, Subscribe, PublishOnline, OnMessage, CheckTimer,
       StampTimer, BeginRound, LeaveLoop, PublishOffline, JoinMqtt, Disconnect, JoinLoop,
       NextSignal, BreakOff, Raise, Broker, PublishWill, Accept, Refuse, Serve, Deliver,
       IntervalPasses, Cut, Over, vars, threads, At, NetInv
  <2>3. QED
    BY <2>1, <2>2, Zenon DEF ClientInv
<1>7. QED
  BY <1>1, <1>2, <1>3, <1>4, <1>5, <1>6 DEF Next, Mqtt, Loop, FinishSteps

\* How many messages are on their way to the client.
Waiting(s) == Cardinality({i \in 1..Len(s) : s[i] = "message"})

\* No message is matched that the broker has not delivered, and none twice.
CountInv ==
    /\ faults \in 0..MaxFaults /\ messages \in 0..MaxMessages
    /\ matched \in Nat
    /\ matched + Waiting(in) <= messages

LEMMA WaitingFinite ==
    ASSUME NEW s, Len(s) \in Nat
    PROVE  /\ IsFiniteSet({i \in 1..Len(s) : s[i] = "message"})
           /\ Waiting(s) \in Nat
<1>1. IsFiniteSet(1..Len(s))
  BY FS_Interval
<1>2. {i \in 1..Len(s) : s[i] = "message"} \in SUBSET (1..Len(s))
  OBVIOUS
<1>3. IsFiniteSet({i \in 1..Len(s) : s[i] = "message"})
  BY <1>1, <1>2, FS_Subset
<1>4. QED
  BY <1>3, FS_CardinalityType DEF Waiting

LEMMA WaitingNone == Waiting(<<>>) = 0
<1>1. {i \in 1..Len(<<>>) : <<>>[i] = "message"} = {}
  BY Len(<<>>) = 0
<1>2. QED
  BY <1>1, FS_EmptySet DEF Waiting

LEMMA WaitingMore ==
    ASSUME NEW S, NEW s \in Seq(S), NEW p \in S
    PROVE  Waiting(Append(s, p)) = IF p = "message" THEN Waiting(s) + 1 ELSE Waiting(s)
<1> DEFINE now == {i \in 1..Len(s) : s[i] = "message"}
           then == {i \in 1..Len(Append(s, p)) : Append(s, p)[i] = "message"}
<1>1. Len(s) \in Nat /\ Len(Append(s, p)) = Len(s) + 1 /\ Append(s, p)[Len(s) + 1] = p
      /\ \A i \in 1..Len(s) : Append(s, p)[i] = s[i]
  OBVIOUS
<1>2. IsFiniteSet(now) /\ Cardinality(now) \in Nat /\ Len(s) + 1 \notin now
  BY <1>1, WaitingFinite DEF Waiting
<1>3. CASE p = "message"
  <2>1. then = now \cup {Len(s) + 1}
    BY <1>1, <1>3
  <2>2. Cardinality(now \cup {Len(s) + 1}) = Cardinality(now) + 1
    BY <1>2, FS_AddElement
  <2>3. QED
    BY <1>3, <2>1, <2>2 DEF Waiting
<1>4. CASE p # "message"
  <2>1. then = now
    BY <1>1, <1>4
  <2>2. QED
    BY <1>4, <2>1 DEF Waiting
<1>5. QED
  BY <1>3, <1>4

LEMMA WaitingLess ==
    ASSUME NEW S, NEW s \in Seq(S), s # <<>>
    PROVE  Waiting(Tail(s)) <= IF Head(s) = "message" THEN Waiting(s) - 1 ELSE Waiting(s)
<1> DEFINE now == {i \in 1..Len(s) : s[i] = "message"}
           then == {i \in 1..Len(Tail(s)) : Tail(s)[i] = "message"}
           back == [i \in then |-> i + 1]
<1>1. /\ Len(s) \in Nat /\ 1 \in 1..Len(s) /\ s[1] = Head(s)
      /\ Len(Tail(s)) = Len(s) - 1 /\ \A i \in 1..Len(Tail(s)) : Tail(s)[i] = s[i + 1]
  BY HeadTailProperties, EmptySeq
<1>2. IsFiniteSet(now) /\ Cardinality(now) \in Nat
  BY <1>1, WaitingFinite DEF Waiting
<1>3. /\ IsFiniteSet(now \ {1})
      /\ Cardinality(now \ {1}) = IF 1 \in now THEN Cardinality(now) - 1 ELSE Cardinality(now)
  BY <1>2, FS_RemoveElement
<1>4. back \in [then -> now \ {1}] /\ \A i, j \in then : back[i] = back[j] => i = j
  BY <1>1
<1>5. back \in Injection(then, now \ {1})
  BY <1>4 DEF Injection, IsInjective
<1> HIDE DEF now, then, back
<1>6. Cardinality(then) <= Cardinality(now \ {1})
  BY <1>3, <1>5, FS_Injection, Zenon
<1>7. 1 \in now <=> Head(s) = "message"
  BY <1>1 DEF now
<1>8. QED
  BY <1>3, <1>6, <1>7 DEF Waiting, now, then

LEMMA CountStep ==
    ASSUME LinkInv, CountInv, [Next]_vars
    PROVE  CountInv'
<1> DEFINE Replies == {"ack", "refused", "message"}
<1>1. in \in Seq(Replies) /\ Len(in) \in Nat /\ Waiting(in) \in Nat
  <2>1. in \in Seq(Replies)
    BY DEF LinkInv
  <2>2. Len(in) \in Nat
    BY <2>1, LenProperties
  <2>3. QED
    BY <2>1, <2>2, WaitingFinite
<1>2. MaxFaults \in Nat /\ MaxMessages \in Nat
  BY BoundsAssumption
<1>3. ASSUME in' = in \/ in' = <<>> \/ in' = Append(in, "ack") \/ in' = Append(in, "refused"),
             UNCHANGED <<messages, matched>>,
             UNCHANGED faults \/ (faults < MaxFaults /\ faults' = faults + 1)
      PROVE  CountInv'
  <2>1. /\ "ack" \in Replies /\ "refused" \in Replies
        /\ "ack" # "message" /\ "refused" # "message"
    OBVIOUS
  <2>2. Waiting(in') = Waiting(in) \/ Waiting(in') = 0
    BY <1>1, <1>3, <2>1, WaitingMore, WaitingNone
  <2>3. QED
    BY <1>1, <1>2, <1>3, <2>2 DEF CountInv
<1>4. CASE OnMessage \/ OnConnect
  <2>1. /\ in # <<>> /\ in' = Tail(in) /\ UNCHANGED <<messages, faults>>
        /\ \/ matched' = matched
           \/ matched' = matched + 1 /\ Head(in) = "message"
    BY <1>4 DEF OnMessage, OnConnect, counts
  <2>2. Waiting(Tail(in)) <= IF Head(in) = "message" THEN Waiting(in) - 1 ELSE Waiting(in)
    BY <1>1, <2>1, WaitingLess
  <2>3. Tail(in) \in Seq(Replies)
    BY <1>1, <2>1, HeadTailProperties
  <2>4. Waiting(Tail(in)) \in Nat
    <3>1. Len(Tail(in)) \in Nat
      BY <2>3, LenProperties
    <3>2. QED
      BY <3>1, WaitingFinite
  <2>5. Waiting(in') = Waiting(Tail(in))
    BY <2>1
  <2>6. QED
    BY <1>1, <1>2, <2>1, <2>2, <2>4, <2>5 DEF CountInv
<1>5. CASE Deliver
  <2>1. /\ in' = Append(in, "message") /\ messages < MaxMessages /\ messages' = messages + 1
        /\ UNCHANGED <<matched, faults>>
    BY <1>5 DEF Deliver
  <2>2. Waiting(Append(in, "message")) = Waiting(in) + 1
    BY <1>1, WaitingMore
  <2>3. Waiting(in') = Waiting(in) + 1
    BY <2>1, <2>2
  <2>4. QED
    BY <1>1, <1>2, <2>1, <2>3 DEF CountInv
<1> HIDE DEF Replies
<1>6. CASE \/ MqttHead \/ NoConn \/ ConnLost \/ Reconnect \/ LoopTimeout \/ OnRefused
           \/ Subscribe \/ PublishOnline
           \/ (\E t \in {"mqtt", "loop"} : CheckTimer(t) \/ StampTimer(t))
  BY <1>3, <1>6 DEF MqttHead, NoConn, ConnLost, Reconnect, Connect, LoopTimeout, OnRefused,
     Subscribe, PublishOnline, CheckTimer, StampTimer, net, counts
<1>7. CASE BeginRound \/ LeaveLoop \/ FinishSteps \/ NextSignal \/ BreakOff
           \/ (\E signal \in {"stop", "other"} : Raise(signal))
  BY <1>3, <1>7 DEF BeginRound, LeaveLoop, FinishSteps, PublishOffline, FreeRegex, JoinMqtt,
     Disconnect, Destroy, JoinLoop, NextSignal, BreakOff, Raise, net, counts
<1>8. CASE Broker \/ IntervalPasses \/ Cut \/ Crash \/ Over \/ UNCHANGED vars
  BY <1>3, <1>8 DEF Broker, PublishWill, Accept, Refuse, Serve, IntervalPasses, Cut, Crash, Lose,
     Over, vars, net, counts
<1>9. QED
  BY <1>4, <1>5, <1>6, <1>7, <1>8 DEF Next, Mqtt, Loop

\* The rest: two-valued flags and what the broker keeps.
FlagsInv ==
    /\ do_exit \in BOOLEAN /\ subs \in BOOLEAN /\ due \in BOOLEAN /\ late \in BOOLEAN
    /\ link \in {"none", "up", "cut"}
    /\ retained \in {"none", "Left", "Online", "Offline"}

LEMMA FlagsStep ==
    ASSUME FlagsInv, [Next]_vars
    PROVE  FlagsInv'
<1>1. do_exit' \in BOOLEAN
  <2>1. CASE NextSignal
    BY <2>1, Zenon DEF NextSignal
  <2>2. CASE ~NextSignal
    <3>1. UNCHANGED do_exit
      BY <2>2 DEF Next, Mqtt, MqttHead, NoConn, ConnLost, Reconnect, LoopTimeout, OnRefused,
         OnConnect, Subscribe, PublishOnline, OnMessage, CheckTimer, StampTimer, Loop, BeginRound,
         LeaveLoop, FinishSteps, PublishOffline, FreeRegex, JoinMqtt, Disconnect, Destroy, JoinLoop,
         BreakOff, Raise, Broker, PublishWill, Accept, Refuse, Serve, Deliver, IntervalPasses, Cut,
         Crash, Over, vars, threads, signals
    <3>2. QED
      BY <3>1, Zenon DEF FlagsInv
  <2>3. QED
    BY <2>1, <2>2
<1>2. late' \in BOOLEAN
  <2>1. CASE PublishOnline
    BY <2>1, Zenon DEF PublishOnline
  <2>2. CASE ~PublishOnline
    <3>1. UNCHANGED late
      BY <2>2 DEF Next, Mqtt, MqttHead, NoConn, ConnLost, Reconnect, LoopTimeout, OnRefused,
         OnConnect, Subscribe, OnMessage, CheckTimer, StampTimer, Loop, BeginRound,
         LeaveLoop, FinishSteps, PublishOffline, FreeRegex, JoinMqtt, Disconnect, Destroy, JoinLoop,
         NextSignal, BreakOff, Raise, Broker, PublishWill, Accept, Refuse, Serve, Deliver,
         IntervalPasses, Cut, Crash, Over, vars
    <3>2. QED
      BY <3>1, Zenon DEF FlagsInv
  <2>3. QED
    BY <2>1, <2>2
<1>3. due' \in BOOLEAN
  <2>1. CASE (\E t \in {"mqtt", "loop"} : StampTimer(t)) \/ IntervalPasses
    BY <2>1, Zenon DEF StampTimer, IntervalPasses
  <2>2. CASE ~((\E t \in {"mqtt", "loop"} : StampTimer(t)) \/ IntervalPasses)
    <3>1. UNCHANGED due
      BY <2>2 DEF Next, Mqtt, MqttHead, NoConn, ConnLost, Reconnect, LoopTimeout, OnRefused,
         OnConnect, Subscribe, PublishOnline, OnMessage, CheckTimer, Loop, BeginRound,
         LeaveLoop, FinishSteps, PublishOffline, FreeRegex, JoinMqtt, Disconnect, Destroy, JoinLoop,
         NextSignal, BreakOff, Raise, Broker, PublishWill, Accept, Refuse, Serve, Deliver,
         Cut, Crash, Over, vars, state
    <3>2. QED
      BY <3>1, Zenon DEF FlagsInv
  <2>3. QED
    BY <2>1, <2>2
<1>4. subs' \in BOOLEAN /\ retained' \in {"none", "Left", "Online", "Offline"}
  <2>1. CASE Serve
    <3>1. subs' \in BOOLEAN
      BY <2>1, Zenon DEF Serve, broker, FlagsInv
    <3>2. retained' \in {"none", "Left", "Online", "Offline"}
      <4>1. retained' = retained \/ retained' \in {"Online", "Offline"}
        BY <2>1, Zenon DEF Serve, broker
      <4>2. QED
        BY <4>1, Zenon DEF FlagsInv
    <3>3. QED
      BY <3>1, <3>2
  <2>2. CASE PublishWill
    BY <2>2, Zenon DEF PublishWill, FlagsInv
  <2>3. CASE Accept
    BY <2>3, Zenon DEF Accept, FlagsInv
  <2>4. CASE ~(Serve \/ PublishWill \/ Accept)
    <3>1. UNCHANGED <<subs, retained>>
      BY <2>4 DEF Next, Mqtt, MqttHead, NoConn, ConnLost, Reconnect, LoopTimeout, OnRefused,
         OnConnect, Subscribe, PublishOnline, OnMessage, CheckTimer, StampTimer, Loop, BeginRound,
         LeaveLoop, FinishSteps, PublishOffline, FreeRegex, JoinMqtt, Disconnect, Destroy, JoinLoop,
         NextSignal, BreakOff, Raise, Broker, Refuse, Deliver, IntervalPasses, Cut, Crash, Over,
         vars, broker
    <3>2. QED
      BY <3>1, Zenon DEF FlagsInv
  <2>5. QED
    BY <2>1, <2>2, <2>3, <2>4
<1>5. link' \in {"none", "up", "cut"}
  <2>1. link' = link \/ link' \in {"up", "cut"}
    BY DEF Next, Mqtt, MqttHead, NoConn, ConnLost, Reconnect, Connect, LoopTimeout, OnRefused,
       OnConnect, Subscribe, PublishOnline, OnMessage, CheckTimer, StampTimer, Loop, BeginRound,
       LeaveLoop, FinishSteps, PublishOffline, FreeRegex, JoinMqtt, Disconnect, Destroy, JoinLoop,
       NextSignal, BreakOff, Raise, Broker, PublishWill, Accept, Refuse, Serve, Deliver,
       IntervalPasses, Cut, Lose, Crash, Over, vars, net
  <2>2. QED
    BY <2>1, Zenon DEF FlagsInv
<1>6. QED
  BY <1>1, <1>2, <1>3, <1>4, <1>5, Zenon DEF FlagsInv

\* Every variable stays within its type.  The parts that say something: the threads
\* are where their program leads, the pipe is never over-filled, no socket outlives
\* its client, and no message is matched that was not delivered.
THEOREM TypeCorrect == Spec => []TypeOK
<1> DEFINE Parts == LabelsInv /\ PipeInv /\ ClientInv /\ CountInv /\ FlagsInv
<1>1. Init => Parts
  <2> SUFFICES ASSUME Init PROVE Parts
    OBVIOUS
  <2>1. /\ at = [main |-> "signals", mqtt |-> "head", loop |-> "head"]
        /\ client = {"mosq", "regex"} /\ in = <<>> /\ pipe = <<>>
        /\ matched = 0 /\ faults = 0 /\ messages = 0
    BY DEF Init
  <2>2. LabelsInv
    BY <2>1 DEF LabelsInv
  <2>3. PipeInv
    BY <2>1, PipeAssumption DEF PipeInv
  <2>4. ClientInv
    <3>1. sock \in BOOLEAN
      BY Zenon DEF Init
    <3>2. client \subseteq {"mosq", "regex"} /\ "mosq" \in client
      BY <2>1
    <3>3. QED
      BY <3>1, <3>2, Zenon DEF ClientInv
  <2>5. CountInv
    <3>1. Waiting(in) = 0
      BY <2>1, WaitingNone
    <3>2. QED
      BY <2>1, <3>1, BoundsAssumption DEF CountInv
  <2>6. FlagsInv
    BY Zenon DEF Init, FlagsInv
  <2>7. QED
    BY <2>2, <2>3, <2>4, <2>5, <2>6
<1>2. Inv /\ NetInv /\ Parts /\ [Next]_vars => Parts'
  BY LabelsStep, PipeStep, ClientStep, CountStep, FlagsStep DEF NetInv
<1>3. Inv /\ NetInv /\ Parts => TypeOK
  <2> SUFFICES ASSUME Inv, NetInv, LabelsInv, PipeInv, ClientInv, CountInv, FlagsInv
               PROVE  TypeOK
    OBVIOUS
  <2>1. matched \in 0..MaxMessages
    <3>1. Waiting(in) \in Nat
      <4>1. Len(in) \in Nat
        BY LenProperties DEF NetInv, LinkInv
      <4>2. QED
        BY <4>1, WaitingFinite
    <3>2. QED
      BY <3>1, BoundsAssumption DEF CountInv
  <2>2. sent \in Nat
    BY DEF Inv, TimerInv
  <2>3. QED
    BY <2>1, <2>2, Zenon DEF NetInv, LinkInv, LabelsInv, PipeInv, ClientInv, CountInv, FlagsInv, TypeOK
<1> HIDE DEF Parts
<1>4. QED
  BY <1>1, <1>2, <1>3, InvCorrect, NetInvCorrect, PTL DEF Spec
=============================================================================
