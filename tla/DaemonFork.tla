----------------------------- MODULE DaemonFork -----------------------------
(***************************************************************************)
(* How the launcher becomes a daemon and learns what became of it: the two *)
(* forks of daemon_fork(), the pipe that brings the pid of the daemon, the *)
(* pipe that brings its return value, and the branches of main() on both   *)
(* sides (dfork.c, main() of lcd_cpuinfo.c).                               *)
(*                                                                         *)
(* A pipe is read as ended when it is empty and no process holds its write *)
(* end.  The launcher keeps a write end of the return value pipe, so only  *)
(* its time limit of 20 seconds saves it from a silent daemon.             *)
(***************************************************************************)
EXTENDS Integers, Sequences

CONSTANTS
    Deaths      \* the processes that may die of a signal at any moment

Processes == {"launcher", "child", "daemon"}

ASSUME DeathsAssumption == Deaths \subseteq Processes

VARIABLES
    pc,         \* where each process is
    pid,        \* pid pipe: what was written and not read yet
    pidWriters, \* pid pipe: the processes that hold its write end
    ret,        \* return value pipe: what was written and not read yet
    channel,    \* _daemon_retval_pipe of the launcher and of the daemon: open?
    result,     \* exit status of the launcher, NoResult before it exits
    sent        \* history: every value the daemon wrote to the launcher

vars == <<pc, pid, pidWriters, ret, channel, result, sent>>

NoResult == -1
Ok == "pid"             \* the pid of the daemon
Failed == "-1"          \* the pid that stands for a failure

LauncherLocations == {"start", "fork", "waitpid", "readpid", "wait", "exited", "dead"}
ChildLocations == {"unborn", "prepare", "fork", "fail", "exited", "dead"}
DaemonLocations == {"unborn", "announce", "fail", "create", "signals", "init", "running",
                    "finish", "exited", "dead"}
Locations == LauncherLocations \cup ChildLocations \cup DaemonLocations

TypeOK ==
    /\ pc \in [Processes -> Locations]
    /\ pc["launcher"] \in LauncherLocations
    /\ pc["child"] \in ChildLocations
    /\ pc["daemon"] \in DaemonLocations
    /\ pid \in Seq({Ok, Failed})
    /\ pidWriters \subseteq Processes
    /\ ret \in Seq({-1, 0, 1})
    /\ channel \in [{"launcher", "daemon"} -> BOOLEAN]
    /\ result \in {NoResult, 0, 1, 255}
    /\ sent \in Seq({-1, 0, 1})

Init ==
    /\ pc = [p \in Processes |-> IF p = "launcher" THEN "start" ELSE "unborn"]
    /\ pid = <<>> /\ pidWriters = {}
    /\ ret = <<>> /\ channel = [p \in {"launcher", "daemon"} |-> FALSE]
    /\ result = NoResult
    /\ sent = <<>>

Gone == {"unborn", "exited", "dead"}

At(p, l) == pc[p] = l
Goto(p, l) == pc' = [pc EXCEPT ![p] = l]

-----------------------------------------------------------------------------
(* The launcher.                                                           *)

Return(status) == Goto("launcher", "exited") /\ result' = status

\* daemon_retval_init(); its result is not looked at.
RetvalInit ==
    /\ At("launcher", "start")
    /\ \E opened \in BOOLEAN : channel' = [channel EXCEPT !["launcher"] = opened]
    /\ Goto("launcher", "fork")
    /\ UNCHANGED <<pid, pidWriters, ret, result, sent>>

\* Faulty: the launcher keeps its write end.
FirstForkFaulty ==
    /\ At("launcher", "fork")
    /\ pc' = [pc EXCEPT !["launcher"] = "waitpid", !["child"] = "prepare"]
    /\ pidWriters' = {"launcher", "child"}
    /\ UNCHANGED <<pid, ret, channel, result, sent>>

\* sigaction(), sigprocmask(), pipe(), the first fork() and close() of the
\* launcher's write end; main() returns 1 when one of them fails.
FirstFork ==
    /\ At("launcher", "fork")
    /\ \/ /\ pc' = [pc EXCEPT !["launcher"] = "waitpid", !["child"] = "prepare"]
          /\ pidWriters' = {"child"}
          /\ UNCHANGED result
       \/ Return(1) /\ UNCHANGED pidWriters
    /\ UNCHANGED <<pid, ret, channel, sent>>

WaitChild ==
    /\ At("launcher", "waitpid")
    /\ pc["child"] \in {"exited", "dead"}
    /\ Goto("launcher", "readpid")
    /\ UNCHANGED <<pid, pidWriters, ret, channel, result, sent>>

\* atomic_read() waits for four bytes or the end of the pipe, which counts as
\* a failure.
ReadPid ==
    /\ At("launcher", "readpid")
    /\ \/ /\ pid = <<>> /\ pidWriters = {}
          /\ Return(1)
          /\ UNCHANGED pid
       \/ /\ pid # <<>>
          /\ pid' = Tail(pid)
          /\ \/ Head(pid) = Ok /\ Goto("launcher", "wait") /\ UNCHANGED result
             \/ Head(pid) = Failed /\ Return(1)
    /\ UNCHANGED <<pidWriters, ret, channel, sent>>

\* daemon_retval_wait(20): a value within the time limit.
ReceiveValue ==
    /\ At("launcher", "wait")
    /\ channel["launcher"] /\ ret # <<>>
    /\ ret' = Tail(ret)
    /\ channel' = [channel EXCEPT !["launcher"] = FALSE]
    /\ Return(IF Head(ret) < 0 THEN 255 ELSE Head(ret))
    /\ UNCHANGED <<pid, pidWriters, sent>>

\* Faulty: main() returns errno.
GiveUpErrno ==
    /\ At("launcher", "wait")
    /\ Return(110)
    /\ UNCHANGED <<pid, pidWriters, ret, channel, sent>>

\* Faulty: no time limit.
GiveUpFaulty ==
    /\ At("launcher", "wait")
    /\ ~channel["launcher"]
    /\ Return(255)
    /\ UNCHANGED <<pid, pidWriters, ret, channel, sent>>

\* The time limit, which may be over although a value has just come; or
\* select() on the descriptor -1 of a pipe that was never opened.
GiveUp ==
    /\ At("launcher", "wait")
    /\ Return(255)
    /\ UNCHANGED <<pid, pidWriters, ret, channel, sent>>
-----------------------------------------------------------------------------
(* The first child.                                                        *)

CloseWriter(p) == pidWriters' = pidWriters \ {p}

\* move_fd_up() and _null_open().
Prepare ==
    /\ At("child", "prepare")
    /\ Goto("child", "fork") \/ Goto("child", "fail")
    /\ UNCHANGED <<pid, pidWriters, ret, channel, result, sent>>

\* The second fork(); the father leaves at once.
SecondFork ==
    /\ At("child", "fork")
    /\ \/ /\ pc' = [pc EXCEPT !["child"] = "exited", !["daemon"] = "announce"]
          /\ pidWriters' = (pidWriters \ {"child"}) \cup {"daemon"}
          /\ channel' = [channel EXCEPT !["daemon"] = channel["launcher"]]
       \/ Goto("child", "fail") /\ UNCHANGED <<pidWriters, channel>>
    /\ UNCHANGED <<pid, ret, result, sent>>

\* Only the launcher holds the read end of the pid pipe.
Read == pc["launcher"] \notin Gone

\* fail: the pid -1 is written, if it can be, and the process leaves; or it
\* dies of SIGPIPE.
Fail(p) ==
    /\ At(p, "fail")
    /\ \/ Read /\ pid' = Append(pid, Failed) /\ Goto(p, "exited")
       \/ Goto(p, "exited") /\ UNCHANGED pid
       \/ ~Read /\ Goto(p, "dead") /\ UNCHANGED pid
    /\ CloseWriter(p)
    /\ UNCHANGED <<ret, channel, result, sent>>
-----------------------------------------------------------------------------
(* The daemon, from daemon_fork() to the end of main().                    *)

\* Faulty: the daemon goes on although its pid could not be written.
AnnounceFaulty ==
    /\ At("daemon", "announce")
    /\ pid' \in {pid, Append(pid, Ok)}
    /\ CloseWriter("daemon")
    /\ Goto("daemon", "create")
    /\ UNCHANGED <<ret, channel, result, sent>>

\* The pid is written; or the write fails; or the launcher is dead and the
\* daemon dies of SIGPIPE.
Announce ==
    /\ At("daemon", "announce")
    /\ \/ Read /\ pid' = Append(pid, Ok) /\ CloseWriter("daemon") /\ Goto("daemon", "create")
       \/ Goto("daemon", "fail") /\ UNCHANGED <<pid, pidWriters>>
       \/ ~Read /\ CloseWriter("daemon") /\ Goto("daemon", "dead") /\ UNCHANGED pid
    /\ UNCHANGED <<ret, channel, result, sent>>

\* Faulty: the pipe is not released after the first value.
SendFaulty(i) ==
    IF channel["daemon"]
    THEN /\ ret' = Append(ret, i)
         /\ sent' = Append(sent, i)
         /\ UNCHANGED channel
    ELSE UNCHANGED <<ret, channel, sent>>

\* daemon_retval_send(): the write, which may fail, and daemon_retval_done().
Send(i) ==
    IF channel["daemon"]
    THEN /\ \/ ret' = Append(ret, i) /\ sent' = Append(sent, i)
            \/ UNCHANGED <<ret, sent>>
         /\ channel' = [channel EXCEPT !["daemon"] = FALSE]
    ELSE UNCHANGED <<ret, channel, sent>>

\* Faulty: the launcher is told of the success before the handlers are there.
CreatePidFileFaulty ==
    /\ At("daemon", "create")
    /\ \/ Goto("daemon", "signals") /\ Send(0)
       \/ Goto("daemon", "finish") /\ Send(1)
    /\ UNCHANGED <<pid, pidWriters, result>>

\* daemon_pid_file_create().
CreatePidFile ==
    /\ At("daemon", "create")
    /\ \/ Goto("daemon", "signals") /\ UNCHANGED <<ret, channel, sent>>
       \/ Goto("daemon", "finish") /\ Send(1)
    /\ UNCHANGED <<pid, pidWriters, result>>

\* daemon_signal_init().
InitSignals ==
    /\ At("daemon", "signals")
    /\ \/ Goto("daemon", "init") /\ Send(0)
       \/ Goto("daemon", "finish") /\ Send(1)
    /\ UNCHANGED <<pid, pidWriters, result>>

\* lcd_and_buttons_init() and regcomp(); then the threads.
InitDevices ==
    /\ At("daemon", "init")
    /\ Goto("daemon", "running") \/ Goto("daemon", "finish")
    /\ UNCHANGED <<pid, pidWriters, ret, channel, result, sent>>

LeaveLoop ==
    /\ At("daemon", "running")
    /\ Goto("daemon", "finish")
    /\ UNCHANGED <<pid, pidWriters, ret, channel, result, sent>>

\* finish: daemon_retval_send(-1), exit(0).
Finish ==
    /\ At("daemon", "finish")
    /\ Goto("daemon", "exited")
    /\ Send(-1)
    /\ UNCHANGED <<pid, pidWriters, result>>
-----------------------------------------------------------------------------
\* A signal ends the process; the kernel closes its descriptors.
Die(p) ==
    /\ p \in Deaths /\ pc[p] \notin Gone
    /\ Goto(p, "dead")
    /\ CloseWriter(p)
    /\ UNCHANGED <<pid, ret, channel, result, sent>>

Launcher == RetvalInit \/ FirstFork \/ WaitChild \/ ReadPid \/ ReceiveValue \/ GiveUp
Child == Prepare \/ SecondFork \/ Fail("child")
Start == Announce \/ Fail("daemon") \/ CreatePidFile \/ InitSignals \/ InitDevices

Next ==
    \/ Launcher \/ Child \/ Start \/ LeaveLoop \/ Finish
    \/ \E p \in Processes : Die(p)

Spec == Init /\ [][Next]_vars

\* The three processes are scheduled; nobody is obliged to stop the daemon.
Fairness == WF_vars(Launcher) /\ WF_vars(Child) /\ WF_vars(Start) /\ WF_vars(Finish)

FairSpec == Spec /\ Fairness
-----------------------------------------------------------------------------
(* Properties.                                                             *)

\* "Daemon started." is only reported of a daemon that owns the PID file and
\* handles signals, whatever has become of it since.
StartedIsTrue ==
    result = 0 => pc["daemon"] \in {"init", "running", "finish", "exited", "dead"}

\* Status 1 is the end of it: no daemon is in service or on its way to be.
FailedIsTrue ==
    result = 1 =>
        /\ pc["child"] \in Gone
        /\ pc["daemon"] \in {"unborn", "finish", "exited", "dead"}

\* What dfork.h asks of the caller: at most one value is sent, and never the -1
\* that stands for an error of the library; the call with -1 at finish only
\* comes after another one.
OneAnswer == Len(sent) \leq 1 /\ \A i \in DOMAIN sent : sent[i] # -1

\* The launcher never waits for a pid that cannot come any more.
PidComes ==
    At("launcher", "readpid") /\ pid = <<>> =>
        \A p \in pidWriters : p # "launcher" /\ pc[p] \notin Gone

\* What the proofs need on top of the type: who holds the write end, and what
\* the contents of the pipes say of the other two processes.
Late == {"init", "running", "finish", "exited", "dead"}
Ended == {"finish", "exited", "dead"}

WritersAlive ==
    /\ pidWriters \subseteq {"child", "daemon"}
    /\ "child" \in pidWriters <=> pc["child"] \in {"prepare", "fork", "fail"}
    /\ "daemon" \in pidWriters <=> pc["daemon"] \in {"announce", "fail"}
Births ==
    /\ pc["launcher"] \in {"start", "fork"} => pc["child"] = "unborn" /\ pid = <<>>
    /\ pc["launcher"] = "readpid" => pc["child"] \in {"exited", "dead"}
    /\ pc["daemon"] # "unborn" => pc["child"] = "exited"
PidMeans ==
    \A i \in DOMAIN pid :
        pid[i] = Failed => pc["child"] \in Gone /\ pc["daemon"] \in {"unborn", "exited", "dead"}
PidStays ==
    pc["launcher"] \in {"waitpid", "readpid"} /\ pid = <<>> =>
        pc["daemon"] \notin {"create", "signals", "init", "running"}
ValueMeans ==
    \A i \in DOMAIN ret : /\ ret[i] # -1
                          /\ ret[i] = 0 => pc["daemon"] \in Late
                          /\ ret[i] = 1 => pc["daemon"] \in Ended
AnswerOnce ==
    /\ channel["daemon"] => sent = <<>> /\ pc["daemon"] \notin {"init", "running", "finish"}
    /\ pc["daemon"] = "unborn" => sent = <<>>
ResultLast == pc["launcher"] # "exited" => result = NoResult
Inv ==
    /\ WritersAlive
    /\ Births
    /\ PidMeans
    /\ PidStays
    /\ ValueMeans
    /\ AnswerOnce
    /\ ResultLast
    /\ StartedIsTrue
    /\ FailedIsTrue
    /\ OneAnswer

\* The launcher gives the terminal back, whatever happens to the other two.
LauncherEnds == <>(pc["launcher"] \in {"exited", "dead"})
=============================================================================
