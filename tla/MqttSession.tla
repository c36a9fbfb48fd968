----------------------------- MODULE MqttSession -----------------------------
(***************************************************************************)
(* The MQTT session of the daemon and the end of main(): mosq_thread_loop  *)
(* with its callbacks, main_loop as a publisher, the signal pipe that ends *)
(* them, the order in which finish releases what the two threads use, and  *)
(* the retained LWT topic that tells the world whether the daemon is there.*)
(*                                                                         *)
(* libmosquitto and the broker are external: packets of QoS 0 travel in    *)
(* order on one connection and are lost with it, a publication without a   *)
(* socket is an error that is only logged, and the broker publishes the    *)
(* will of a session that ends without DISCONNECT.                         *)
(***************************************************************************)
EXTENDS Integers, SequencesExt

CONSTANTS
    MaxFaults,      \* bound on cut connections, failed and refused connects
    MaxMessages,    \* bound on the messages the broker delivers
    PipeSize        \* signals the pipe of dsignal.c holds (16384)

ASSUME BoundsAssumption == MaxFaults \in Nat /\ MaxMessages \in Nat
ASSUME PipeAssumption == PipeSize \in Nat \ {0}

VARIABLES
    do_exit,
    pipe,       \* the signals the handler has written and main() has not read
    at,         \* where main, mosq_thread_loop ("mqtt") and main_loop ("loop") are
    sock,       \* does the client hold a socket?
    client,     \* mosq and mqtt_topic_regex: which of the two is released
    link,       \* the connection: none, up, or cut
    out, in,    \* packets on their way to the broker and to the client
    session,    \* at the broker: none, live, or stale (its connection is dead)
    subs,       \* are the two topics subscribed to?
    retained,   \* what the broker keeps for tele/<hostname>/LWT; "Left" is an Online
                \* that an earlier life left there
    due,        \* the static timer of publish_state() has expired
    sent,       \* history: states published since it last expired
    late,       \* history: Online was published after Offline
    matched,    \* history: messages matched against the released expression
    faults, messages

signals == <<do_exit, pipe>>
threads == <<signals, at>>
net == <<sock, link, out, in>>
broker == <<session, subs, retained>>
state == <<due, sent>>
counts == <<faults, messages>>
vars == <<threads, client, net, broker, state, late, matched, counts>>

Packets == {"CONNECT", "SUBSCRIBE", "Online", "Offline", "DISCONNECT"}

TypeOK ==
    /\ do_exit \in BOOLEAN
    /\ pipe \in Seq({"stop", "other"}) /\ Len(pipe) <= PipeSize
    /\ at["main"] \in {"signals", "finish", "regfree", "join_mqtt", "disconnect", "destroy",
                       "join_loop", "exited", "dead"}
    /\ at["mqtt"] \in {"head", "loop", "lost", "subscribe", "online", "check", "stamp", "done", "dead"}
    /\ at["loop"] \in {"head", "check", "stamp", "done", "dead"}
    /\ client \subseteq {"mosq", "regex"} /\ (sock => "mosq" \in client)
    /\ sock \in BOOLEAN /\ link \in {"none", "up", "cut"}
    /\ out \in Seq(Packets) /\ in \in Seq({"ack", "refused", "message"})
    /\ session \in {"none", "live", "stale"} /\ subs \in BOOLEAN
    /\ retained \in {"none", "Left", "Online", "Offline"}
    /\ due \in BOOLEAN /\ sent \in Nat
    /\ late \in BOOLEAN /\ matched \in 0..MaxMessages
    /\ faults \in 0..MaxFaults /\ messages \in 0..MaxMessages

\* Faulty: no will.
NoWill == FALSE

\* mosquitto_will_set() before the first connect: the broker publishes a retained
\* Offline for a session whose connection dies.
Will == TRUE

At(t, l) == at[t] = l
Goto(t, l) == at' = [at EXCEPT ![t] = l]

\* A packet is queued on the socket, if there is one; a dead connection loses it.
Send(packet) == out' = IF sock /\ link = "up" THEN Append(out, packet) ELSE out

\* mosquitto_connect(): a new connection that begins with CONNECT, or an error.
Connect ==
    \/ /\ sock' = TRUE /\ link' = "up" /\ out' = <<"CONNECT">> /\ in' = <<>>
       /\ UNCHANGED faults
    \/ /\ faults < MaxFaults /\ faults' = faults + 1
       /\ UNCHANGED net

\* mosq_init() has tried to connect; the retained value is that of an earlier life.
Init ==
    /\ do_exit = FALSE /\ pipe = <<>>
    /\ at = [main |-> "signals", mqtt |-> "head", loop |-> "head"]
    /\ client = {"mosq", "regex"}
    /\ \/ sock = TRUE /\ link = "up" /\ out = <<"CONNECT">>
       \/ sock = FALSE /\ link = "none" /\ out = <<>>
    /\ in = <<>>
    /\ session = "none" /\ subs = FALSE /\ retained \in {"none", "Left", "Offline"}
    /\ due = TRUE /\ sent = 0 /\ late = FALSE /\ matched = 0
    /\ faults = 0 /\ messages = 0
-----------------------------------------------------------------------------
(* mosq_thread_loop(): one mosquitto_loop() per round, at most one packet.   *)

\* Faulty: do_exit is not tested.
MqttHeadFaulty ==
    /\ At("mqtt", "head")
    /\ Goto("mqtt", "loop")
    /\ UNCHANGED <<signals, client, net, broker, state, late, matched, counts>>

MqttHead ==
    /\ At("mqtt", "head")
    /\ Goto("mqtt", IF do_exit THEN "done" ELSE "loop")
    /\ UNCHANGED <<signals, client, net, broker, state, late, matched, counts>>

\* Faulty: only a lost connection is made again.
NoConnFaulty ==
    /\ At("mqtt", "loop") /\ ~sock
    /\ Goto("mqtt", "head")
    /\ UNCHANGED <<signals, client, net, broker, state, late, matched, counts>>

\* MOSQ_ERR_NO_CONN: connect at once, sleep(30) after a failure.
NoConn ==
    /\ At("mqtt", "loop") /\ ~sock
    /\ Connect
    /\ Goto("mqtt", "head")
    /\ UNCHANGED <<signals, client, broker, state, late, matched, messages>>

\* MOSQ_ERR_CONN_LOST: the library has closed the socket, mosquitto_disconnect()
\* changes nothing any more.
ConnLost ==
    /\ At("mqtt", "loop") /\ sock /\ link = "cut"
    /\ sock' = FALSE
    /\ Goto("mqtt", "lost")
    /\ UNCHANGED <<signals, client, link, out, in, broker, state, late, matched, counts>>

\* sleep(10) and mosquitto_connect().
Reconnect ==
    /\ At("mqtt", "lost")
    /\ Connect
    /\ Goto("mqtt", "head")
    /\ UNCHANGED <<signals, client, broker, state, late, matched, messages>>

\* A second without a packet.
LoopTimeout ==
    /\ At("mqtt", "loop") /\ sock /\ link # "cut" /\ in = <<>>
    /\ Goto("mqtt", "head")
    /\ UNCHANGED <<signals, client, net, broker, state, late, matched, counts>>

\* on_connect() with an error: wd_sleep(10); then the library closes the socket and
\* mosquitto_loop() returns a code that falls under default.
OnRefused ==
    /\ At("mqtt", "loop") /\ in # <<>> /\ Head(in) = "refused"
    /\ sock' = FALSE /\ link' = "cut" /\ in' = <<>> /\ out' = <<>>
    /\ Goto("mqtt", "head")
    /\ UNCHANGED <<signals, client, broker, state, late, matched, counts>>

OnConnect ==
    /\ At("mqtt", "loop") /\ in # <<>> /\ Head(in) = "ack"
    /\ in' = Tail(in)
    /\ Goto("mqtt", "subscribe")
    /\ UNCHANGED <<signals, client, sock, link, out, broker, state, late, matched, counts>>

\* Faulty: the topics are only subscribed to on the first connection.
SubscribeFaulty ==
    /\ At("mqtt", "subscribe")
    /\ IF retained = "Online" \/ faults = 0 THEN Send("SUBSCRIBE") ELSE UNCHANGED out
    /\ Goto("mqtt", "online")
    /\ UNCHANGED <<signals, client, sock, link, in, broker, state, late, matched, counts>>

Subscribe ==
    /\ At("mqtt", "subscribe")
    /\ Send("SUBSCRIBE")
    /\ Goto("mqtt", "online")
    /\ UNCHANGED <<signals, client, sock, link, in, broker, state, late, matched, counts>>

\* mqtt_publish_lwt(true).
PublishOnline ==
    /\ At("mqtt", "online")
    /\ Send("Online")
    /\ late' = (late \/ at["main"] \notin {"signals", "finish"})
    /\ Goto("mqtt", "check")
    /\ UNCHANGED <<signals, client, sock, link, in, broker, state, matched, counts>>

\* on_message(): regexec() on the shared expression.
OnMessage ==
    /\ At("mqtt", "loop") /\ in # <<>> /\ Head(in) = "message"
    /\ in' = Tail(in)
    /\ matched' = IF "regex" \in client THEN matched ELSE matched + 1
    /\ Goto("mqtt", "head")
    /\ UNCHANGED <<signals, client, sock, link, out, broker, state, late, counts>>
-----------------------------------------------------------------------------
(* publish_state(), called by main_loop and by on_connect().               *)

CheckTimer(t) ==
    /\ At(t, "check")
    /\ Goto(t, IF due THEN "stamp" ELSE "head")
    /\ UNCHANGED <<signals, client, net, broker, state, late, matched, counts>>

\* Faulty: the timer is not set again.
StampTimerFaulty(t) ==
    /\ At(t, "stamp")
    /\ sent' = sent + 1 /\ UNCHANGED due
    /\ Goto(t, "head")
    /\ UNCHANGED <<signals, client, net, broker, late, matched, counts>>

StampTimer(t) ==
    /\ At(t, "stamp")
    /\ due' = FALSE /\ sent' = sent + 1
    /\ Goto(t, "head")
    /\ UNCHANGED <<signals, client, net, broker, late, matched, counts>>

IntervalPasses ==
    /\ ~due
    /\ due' = TRUE /\ sent' = 0
    /\ UNCHANGED <<threads, client, net, broker, late, matched, counts>>

BeginRound ==
    /\ At("loop", "head") /\ ~do_exit
    /\ Goto("loop", "check")
    /\ UNCHANGED <<signals, client, net, broker, state, late, matched, counts>>

LeaveLoop ==
    /\ At("loop", "head") /\ do_exit
    /\ Goto("loop", "done")
    /\ UNCHANGED <<signals, client, net, broker, state, late, matched, counts>>
-----------------------------------------------------------------------------
(* The signal loop and finish.                                             *)

\* The handler writes to a pipe that does not block: a signal that finds it full
\* is lost.  After the loop nobody reads it any more.
Raise(signal) ==
    /\ At("main", "signals")
    /\ pipe' = IF Len(pipe) < PipeSize THEN Append(pipe, signal) ELSE pipe
    /\ UNCHANGED <<do_exit, at, client, net, broker, state, late, matched, counts>>

\* Faulty: one read takes all that is there.
NextSignalFaulty ==
    /\ At("main", "signals") /\ pipe # <<>>
    /\ pipe' = <<>>
    /\ do_exit' = (Head(pipe) = "stop")
    /\ Goto("main", IF do_exit' THEN "finish" ELSE "signals")
    /\ UNCHANGED <<client, net, broker, state, late, matched, counts>>

\* SIGINT, SIGQUIT and SIGTERM end the loop, the other signals do not.
NextSignal ==
    /\ At("main", "signals") /\ pipe # <<>>
    /\ do_exit' = (Head(pipe) = "stop")
    /\ pipe' = IF do_exit' THEN <<>> ELSE Tail(pipe)
    /\ Goto("main", IF do_exit' THEN "finish" ELSE "signals")
    /\ UNCHANGED <<client, net, broker, state, late, matched, counts>>

\* select() or daemon_signal_next() fails: break, without do_exit.
BreakOff ==
    /\ At("main", "signals")
    /\ pipe' = <<>>
    /\ Goto("main", "finish")
    /\ UNCHANGED <<do_exit, client, net, broker, state, late, matched, counts>>

\* Faulty: the LWT is left to the broker.
PublishOfflineFaulty ==
    /\ At("main", "finish")
    /\ Goto("main", "regfree")
    /\ UNCHANGED <<signals, client, net, broker, state, late, matched, counts>>

\* mqtt_publish_lwt(false).
PublishOffline ==
    /\ At("main", "finish")
    /\ Send("Offline")
    /\ Goto("main", "regfree")
    /\ UNCHANGED <<signals, client, sock, link, in, broker, state, late, matched, counts>>

FreeRegex ==
    /\ At("main", "regfree")
    /\ client' = client \ {"regex"}
    /\ Goto("main", "join_mqtt")
    /\ UNCHANGED <<signals, net, broker, state, late, matched, counts>>

JoinMqtt ==
    /\ At("main", "join_mqtt") /\ At("mqtt", "done")
    /\ Goto("main", "disconnect")
    /\ UNCHANGED <<signals, client, net, broker, state, late, matched, counts>>

Disconnect ==
    /\ At("main", "disconnect")
    /\ Send("DISCONNECT")
    /\ Goto("main", "destroy")
    /\ UNCHANGED <<signals, client, sock, link, in, broker, state, late, matched, counts>>

\* mosquitto_destroy() closes the socket; main_loop may still be in its last round.
Destroy ==
    /\ At("main", "destroy")
    /\ client' = client \ {"mosq"}
    /\ sock' = FALSE
    /\ Goto("main", "join_loop")
    /\ UNCHANGED <<signals, link, out, in, broker, state, late, matched, counts>>

JoinLoop ==
    /\ At("main", "join_loop") /\ At("loop", "done")
    /\ Goto("main", "exited")
    /\ UNCHANGED <<signals, client, net, broker, state, late, matched, counts>>
-----------------------------------------------------------------------------
(* The connection and the broker.                                          *)

Lose == link' = "cut" /\ out' = <<>> /\ in' = <<>>
Orphan ==
    session' = CASE session = "live" -> IF Will THEN "stale" ELSE "none"
                 [] OTHER -> session

Cut ==
    /\ link = "up" /\ faults < MaxFaults
    /\ Lose /\ Orphan
    /\ faults' = faults + 1
    /\ UNCHANGED <<threads, client, sock, subs, retained, state, late, matched, messages>>

\* The daemon dies with all its threads.
Crash ==
    /\ at["main"] \notin {"exited", "dead"}
    /\ at' = [t \in DOMAIN at |-> "dead"] /\ pipe' = <<>>
    /\ sock' = FALSE
    /\ IF link = "up" THEN Lose /\ Orphan ELSE UNCHANGED <<link, out, in, session>>
    /\ UNCHANGED <<do_exit, client, subs, retained, state, late, matched, counts>>

\* The will of a session whose connection is dead.
PublishWill ==
    /\ session = "stale"
    /\ session' = "none" /\ retained' = "Offline"
    /\ UNCHANGED <<threads, client, net, subs, state, late, matched, counts>>

\* A CONNECT ends a stale session first; a clean session has no subscriptions.
Accept ==
    /\ link = "up" /\ out # <<>> /\ Head(out) = "CONNECT"
    /\ out' = Tail(out) /\ in' = Append(in, "ack")
    /\ retained' = IF session = "stale" THEN "Offline" ELSE retained
    /\ session' = "live" /\ subs' = FALSE
    /\ UNCHANGED <<threads, client, sock, link, state, late, matched, counts>>

Refuse ==
    /\ link = "up" /\ out # <<>> /\ Head(out) = "CONNECT" /\ faults < MaxFaults
    /\ out' = Tail(out) /\ in' = Append(in, "refused")
    /\ faults' = faults + 1
    /\ UNCHANGED <<threads, client, sock, link, broker, state, late, matched, messages>>

Serve ==
    /\ link = "up" /\ out # <<>> /\ Head(out) # "CONNECT"
    /\ out' = Tail(out)
    /\ IF session = "live"
       THEN /\ subs' = (subs \/ Head(out) = "SUBSCRIBE")
            /\ retained' = IF Head(out) \in {"Online", "Offline"} THEN Head(out) ELSE retained
            /\ session' = IF Head(out) = "DISCONNECT" THEN "none" ELSE session
            /\ link' = IF Head(out) = "DISCONNECT" THEN "cut" ELSE link
       ELSE UNCHANGED <<broker, link>>
    /\ UNCHANGED <<threads, client, sock, in, state, late, matched, counts>>

Deliver ==
    /\ link = "up" /\ session = "live" /\ subs /\ messages < MaxMessages
    /\ in' = Append(in, "message")
    /\ messages' = messages + 1
    /\ UNCHANGED <<threads, client, sock, link, out, broker, state, late, matched, faults>>
-----------------------------------------------------------------------------
Mqtt ==
    \/ MqttHead \/ NoConn \/ ConnLost \/ Reconnect \/ LoopTimeout
    \/ OnRefused \/ OnConnect \/ Subscribe \/ PublishOnline \/ OnMessage
    \/ CheckTimer("mqtt") \/ StampTimer("mqtt")

Loop == BeginRound \/ LeaveLoop \/ CheckTimer("loop") \/ StampTimer("loop")

FinishSteps ==
    PublishOffline \/ FreeRegex \/ JoinMqtt \/ Disconnect \/ Destroy \/ JoinLoop

Broker == PublishWill \/ Accept \/ Refuse \/ Serve

Over == at["main"] \in {"exited", "dead"} /\ UNCHANGED vars

Next ==
    \/ Mqtt \/ Loop \/ FinishSteps \/ NextSignal \/ BreakOff
    \/ (\E signal \in {"stop", "other"} : Raise(signal))
    \/ Broker \/ Deliver \/ IntervalPasses \/ Cut \/ Crash \/ Over

Spec == Init /\ [][Next]_vars

\* The threads are scheduled and the broker works.  Nothing obliges a signal, a
\* message or a fault.
Fairness ==
    /\ WF_vars(Mqtt) /\ WF_vars(Loop) /\ WF_vars(NextSignal) /\ WF_vars(FinishSteps)
    /\ WF_vars(Broker)

FairSpec == Spec /\ Fairness
-----------------------------------------------------------------------------
(* Properties.                                                             *)

\* Whatever connections were lost before, a session in which nothing is under
\* way is subscribed and has announced the daemon.
Announced ==
    (session = "live" /\ link = "up" /\ out = <<>> /\ in = <<>>
        /\ at["mqtt"] \in {"head", "loop"} /\ At("main", "signals"))
    => retained = "Online" /\ subs

\* When the daemon is gone and the broker has heard everything, the LWT does not
\* say Online: unless on_connect() published it after finish had published
\* Offline, which nothing corrects after a clean DISCONNECT.  (What such an end
\* leaves is the "Left" of the next life; it stays as long as no will, Online or
\* Offline of that life reaches the broker.)
LastWordOffline ==
    at["main"] \in {"exited", "dead"} /\ session = "none" /\ out = <<>>
        => retained # "Online" \/ late

\* finish releases the expression before it joins the MQTT thread: after the
\* exit was requested one more message is matched against it, not two.
OneLateMatch == do_exit => matched \leq 1

\* Each of the two callers publishes the state at most once per interval.
StateOncePerCaller == sent \leq 2

\* The daemon that goes on ends up announced and subscribed.
Reconnects == <>[]At("main", "signals") => <>[](retained = "Online" /\ subs)

\* A stop signal that the pipe has taken ends the daemon, whatever came before it:
\* main() reads it, every thread comes back to its test of do_exit, and finish to
\* its end.  Unless the loop broke off, when nobody tells the threads to end.
BrokeOff == ~At("main", "signals") /\ ~do_exit
StopObeyed ==
    Contains(pipe, "stop") \/ do_exit ~> at["main"] \in {"exited", "dead"} \/ BrokeOff

\* A death without finish is told by the broker.
DeathTold == At("main", "dead") ~> (retained # "Online" \/ late)
=============================================================================
