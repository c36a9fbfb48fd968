------------------------------ MODULE PidFile ------------------------------
(***************************************************************************)
(* The PID file of the daemon: dpid.c, the daemon commands and the parts   *)
(* of main() of lcd_cpuinfo.c that create, probe and remove the file.      *)
(*                                                                         *)
(* A process p is one run of the program.  The launcher probes the file    *)
(* and forks; the daemon it forks goes on under the same name p (the       *)
(* launcher's own pid never reaches the file).  An inode is named by the   *)
(* process that created it, since a process creates at most one.           *)
(***************************************************************************)
EXTENDS FiniteSets

CONSTANTS
    Procs,      \* runs of the program
    None,       \* no inode; also the pid 0 that strtol() reads in an empty file
    Overlap,    \* may a run be launched while an earlier launcher still runs?
    IOFaults,   \* may open, fcntl, read, write or sigaction fail?
    Crashes,    \* may a process die at any moment (power, SIGKILL, SIGSEGV)?
    PidReuse,   \* may the kernel give the pid of a dead daemon to another program?
    JoinReturns \* does pthread_join() of a thread that was never started return?

ASSUME NoneAssumption == None \notin Procs
ASSUME SwitchAssumption == {Overlap, IOFaults, Crashes, PidReuse, JoinReturns} \subseteq BOOLEAN

VARIABLES
    pc,         \* where each run is
    cmd,        \* the -k command of each run, "start" without -k
    phase,      \* the call for which a run probes the file
    fd,         \* the inode a run has open while it probes
    seen,       \* the pid its probe returned
    dir,        \* the inode the path of the PID file names
    written,    \* the inodes that hold the pid of their creator
    handling,   \* runs whose signal handlers are in place
    stop,       \* daemons with a SIGINT or SIGTERM in their signal pipe
    doomed,     \* history: runs that met SIGKILL, a signal before they handled it, or a crash
    foreign     \* pids of dead daemons now borne by unrelated programs

file == <<dir, written>>
world == <<handling, stop, doomed, foreign>>
vars == <<pc, cmd, phase, fd, seen, file, world>>

Commands == {"start", "reconfigure", "shutdown", "restart"}
Phases == {"SIGINT", "SIGKILL", "SIGUSR1", "start"}
Probing == {"open", "lock", "unlink", "signal", "wait"}
\* The launcher returns to its caller when the daemon sends its return value,
\* after the signal handlers are in place.
Starting == Probing \cup {"create", "write", "created"}
InService == {"created", "handled", "running", "finishing"}
Locations == {"idle", "abandoned", "removing", "exiting", "dead"}
               \cup Starting \cup InService

Up == {p \in Procs : pc[p] \in InService}
Alive(pid) == pc[pid] # "dead" \/ pid \in foreign

TypeOK ==
    /\ pc \in [Procs -> Locations]
    /\ cmd \in [Procs -> Commands]
    /\ phase \in [Procs -> Phases]
    /\ fd \in [Procs -> Procs \cup {None}]
    /\ seen \in [Procs -> Procs \cup {None}]
    /\ dir \in Procs \cup {None}
    /\ written \subseteq Procs
    /\ handling \subseteq Procs
    /\ stop \subseteq Procs
    /\ doomed \subseteq Procs
    /\ foreign \subseteq Procs

Init ==
    /\ pc = [p \in Procs |-> "idle"]
    /\ cmd = [p \in Procs |-> "start"]
    /\ phase = [p \in Procs |-> "start"]
    /\ fd = [p \in Procs |-> None]
    /\ seen = [p \in Procs |-> None]
    /\ dir = None
    /\ written = {}
    /\ handling = {}
    /\ stop = {}
    /\ doomed = {}
    /\ foreign = {}

-----------------------------------------------------------------------------
(* Control flow of a launcher.                                             *)

At(p, l) == pc[p] = l
Goto(p, l) == pc' = [pc EXCEPT ![p] = l]

\* Faulty: the command is used as the phase.
FirstPhaseFaulty(c) == c

FirstPhase(c) ==
    IF c = "start" THEN "start" ELSE IF c = "reconfigure" THEN "SIGUSR1" ELSE "SIGINT"

\* Runs differ in nothing but their names, and take them in a fixed order.
NextRun == CHOOSE q \in Procs : At(q, "idle")

\* main() looks at the command, then probes the file for it.
Launch(p, c) ==
    /\ At(p, "idle") /\ p = NextRun
    /\ Overlap \/ \A q \in Procs : pc[q] \notin Starting
    /\ Goto(p, "open")
    /\ cmd' = [cmd EXCEPT ![p] = c]
    /\ phase' = [phase EXCEPT ![p] = FirstPhase(c)]
    /\ UNCHANGED <<fd, seen, file, world>>

Probe(p, ph) == Goto(p, "open") /\ phase' = [phase EXCEPT ![p] = ph]
Leave(p, l) == Goto(p, l) /\ UNCHANGED phase

\* The callback of the command has returned 0 (restart) or 10 (exit).
CommandDone(p) ==
    \/ cmd[p] = "restart" /\ Probe(p, "start")
    \/ cmd[p] # "restart" /\ Leave(p, "dead")

\* Faulty: no SIGKILL for a daemon that ignores SIGINT.
CallFailsFaulty(p) ==
    \/ phase[p] = "start"   /\ Leave(p, "create")
    \/ phase[p] = "SIGUSR1" /\ Leave(p, "dead")
    \/ phase[p] \in {"SIGINT", "SIGKILL"} /\ CommandDone(p)

\* daemon_pid_file_is_running() or the kill around it returned -1.
CallFails(p) ==
    \/ phase[p] = "start"   /\ Leave(p, "create")
    \/ phase[p] = "SIGUSR1" /\ Leave(p, "dead")
    \/ phase[p] = "SIGINT"  /\ Probe(p, "SIGKILL")
    \/ phase[p] = "SIGKILL" /\ CommandDone(p)

\* Faulty: main() does not look at the result of the probe.
CallFindsFaulty(p) ==
    \/ phase[p] = "start" /\ Leave(p, "create")
    \/ phase[p] # "start" /\ Leave(p, "signal")

\* The probe found a process: main() gives up, the commands go on to kill().
CallFinds(p) ==
    \/ phase[p] = "start" /\ Leave(p, "dead")
    \/ phase[p] # "start" /\ Leave(p, "signal")

Close(p) == fd' = [fd EXCEPT ![p] = None]
-----------------------------------------------------------------------------
(* daemon_pid_file_is_running().  POSIX locks: the lock of an inode is     *)
(* held exactly by the run that found its pid dead and has not unlinked    *)
(* the file yet; every other locked section is one step.                   *)

LockFree(inode) == \A q \in Procs : ~(At(q, "unlink") /\ fd[q] = inode)

OpenPidFile(p) ==
    /\ At(p, "open")
    /\ \/ dir = None /\ CallFails(p) /\ UNCHANGED fd
       \/ dir # None /\ Leave(p, "lock") /\ fd' = [fd EXCEPT ![p] = dir]
       \/ IOFaults /\ CallFails(p) /\ UNCHANGED fd
    /\ UNCHANGED <<cmd, seen, file, world>>

\* Lock, read, kill(pid, 0).  An empty file reads as pid 0, and kill(0, 0)
\* probes the caller's own process group, which exists.
ReadPidFile(p) ==
    /\ At(p, "lock")
    /\ LockFree(fd[p])
    /\ \/ /\ fd[p] \notin written \/ Alive(fd[p])
          /\ seen' = [seen EXCEPT ![p] = IF fd[p] \in written THEN fd[p] ELSE None]
          /\ CallFinds(p)
          /\ Close(p)
       \/ /\ fd[p] \in written /\ ~Alive(fd[p])
          /\ Leave(p, "unlink")
          /\ UNCHANGED <<fd, seen>>
       \/ IOFaults /\ Leave(p, "unlink") /\ UNCHANGED <<fd, seen>>   \* read()
       \/ IOFaults /\ CallFails(p) /\ Close(p) /\ UNCHANGED seen     \* fcntl()
    /\ UNCHANGED <<cmd, file, world>>

\* unlink() takes the name, whatever inode it leads to by now.
UnlinkStale(p) ==
    /\ At(p, "unlink")
    /\ dir' = None
    /\ CallFails(p)
    /\ Close(p)
    /\ UNCHANGED <<cmd, seen, written, world>>
-----------------------------------------------------------------------------
(* daemon_pid_file_kill() and daemon_pid_file_kill_wait().                 *)

\* SIGKILL ends any run, another signal one that does not handle it; but not at once:
\* kill() may return before (Die).  An unrelated program dies of it in its own time, or
\* handles it (ForeignExits); a daemon with handlers keeps SIGINT in its pipe.
Deliver(q, sig) ==
    LET run == {q} \ foreign IN
    /\ doomed' = doomed \cup (IF sig = "SIGKILL" THEN run ELSE run \ handling)
    /\ stop' = IF sig = "SIGINT" THEN stop \cup (run \cap handling) ELSE stop

\* kill(seen, signal).  kill(0, signal) reaches the process group of the caller,
\* that is the caller itself, which does not come back from it.
SendSignal(p) ==
    /\ At(p, "signal")
    /\ LET q == seen[p] IN
       \/ q = None /\ Leave(p, "dead") /\ UNCHANGED <<stop, doomed>>
       \/ q # None /\ ~Alive(q) /\ CallFails(p) /\ UNCHANGED <<stop, doomed>>
       \/ /\ q # None /\ Alive(q)
          /\ Deliver(q, phase[p])
          /\ Leave(p, IF phase[p] = "SIGUSR1" THEN "dead" ELSE "wait")
    /\ UNCHANGED <<cmd, fd, seen, file, handling, foreign>>

\* The loop of daemon_pid_file_kill_wait(): the target is gone, or time is up
\* (checked first, so it may be up although the target is gone).  With a limit of
\* 0 s it is up as soon as the second ends, be the target still there or not.
WaitGone(p) ==
    /\ At(p, "wait")
    /\ ~Alive(seen[p])
    /\ CommandDone(p)
    /\ UNCHANGED <<cmd, fd, seen, file, world>>

\* Faulty: the loop has no deadline.
WaitTimeoutFaulty(p) == At(p, "wait") /\ Alive(seen[p]) /\ UNCHANGED vars

WaitTimeout(p) ==
    /\ At(p, "wait")
    /\ CallFails(p)
    /\ UNCHANGED <<cmd, fd, seen, file, world>>
-----------------------------------------------------------------------------
(* The daemon: daemon_pid_file_create(), the start-up and the end of main. *)

CreateExcl(p) ==
    /\ At(p, "create")
    /\ \/ dir = None /\ dir' = p /\ Leave(p, "write")
       \/ (dir # None \/ IOFaults) /\ UNCHANGED dir /\ Leave(p, "abandoned")
    /\ UNCHANGED <<cmd, fd, seen, written, world>>

\* Faulty: the pid is not written.
WritePidFaulty(p) ==
    /\ At(p, "write")
    /\ LockFree(p)
    /\ Leave(p, "created")
    /\ UNCHANGED <<cmd, fd, seen, file, world>>

\* Lock, write the pid, unlock; on a failure the file is unlinked by name.
WritePid(p) ==
    /\ At(p, "write")
    /\ LockFree(p)
    /\ \/ written' = written \cup {p} /\ Leave(p, "created") /\ UNCHANGED dir
       \/ IOFaults /\ dir' = None /\ Leave(p, "abandoned") /\ UNCHANGED written
    /\ UNCHANGED <<cmd, fd, seen, world>>

\* daemon_signal_init(), then daemon_retval_send(0) or (1).  When it fails, the
\* handlers it has installed stay.
InstallHandlers(p) ==
    /\ At(p, "created")
    /\ \/ Leave(p, "handled") /\ handling' = handling \cup {p}
       \/ IOFaults /\ Leave(p, "abandoned") /\ handling' \in {handling, handling \cup {p}}
    /\ UNCHANGED <<cmd, fd, seen, file, stop, doomed, foreign>>

StartThreads(p) ==
    /\ At(p, "handled")
    /\ Leave(p, "running")
    /\ UNCHANGED <<cmd, fd, seen, file, world>>

\* lcd_and_buttons_init() or regcomp() failed: goto finish without threads.
InitFails(p) ==
    /\ At(p, "handled")
    /\ Leave(p, "abandoned")
    /\ UNCHANGED <<cmd, fd, seen, file, world>>

\* Somebody sends SIGTERM, SIGINT or SIGQUIT to a daemon: before its handlers are in
\* place this ends it, later the signal is in its pipe.  (For a launcher it is a Crash.)
Terminate(p) ==
    /\ \/ /\ pc[p] \in {"create", "write", "created", "abandoned", "removing", "exiting"}
          /\ p \notin handling
          /\ doomed' = doomed \cup {p} /\ UNCHANGED stop
       \/ /\ pc[p] \in {"handled", "running"}
          /\ stop' = stop \cup {p} /\ UNCHANGED doomed
    /\ UNCHANGED <<pc, cmd, phase, fd, seen, file, handling, foreign>>

\* The signal loop of main() reads the signal and sets do_exit.
HandleStop(p) ==
    /\ At(p, "running") /\ p \in stop
    /\ Leave(p, "finishing")
    /\ stop' = stop \ {p}
    /\ UNCHANGED <<cmd, fd, seen, file, handling, doomed, foreign>>

\* Faulty: the file goes before the threads are joined.
JoinThreadsFaulty(p) ==
    /\ At(p, "finishing")
    /\ dir # None /\ dir' = None
    /\ UNCHANGED <<pc, cmd, phase, fd, seen, written, world>>

\* Faulty: the file is not removed.
JoinThreadsForgets(p) ==
    /\ At(p, "finishing")
    /\ Leave(p, "exiting")
    /\ UNCHANGED <<cmd, fd, seen, file, world>>

\* finish: the threads are joined, daemon_signal_done().
JoinThreads(p) ==
    /\ At(p, "finishing")
    /\ Leave(p, "removing")
    /\ UNCHANGED <<cmd, fd, seen, file, world>>

\* finish without threads: pthread_join(0), which the C library either
\* dereferences (SIGSEGV) or refuses with ESRCH.
JoinUnstarted(p) ==
    /\ At(p, "abandoned")
    /\ \/ JoinReturns /\ Leave(p, "removing") /\ UNCHANGED doomed
       \/ Leave(p, "dead") /\ doomed' = doomed \cup {p}
    /\ UNCHANGED <<cmd, fd, seen, file, handling, stop, foreign>>

\* daemon_pid_file_remove(): by name again.
RemovePidFile(p) ==
    /\ At(p, "removing")
    /\ dir' = None
    /\ Leave(p, "exiting")
    /\ UNCHANGED <<cmd, fd, seen, written, world>>

Exit(p) ==
    /\ At(p, "exiting")
    /\ Leave(p, "dead")
    /\ UNCHANGED <<cmd, fd, seen, file, world>>
-----------------------------------------------------------------------------
(* The environment.                                                        *)

Crash(p) ==
    /\ Crashes
    /\ pc[p] \notin {"idle", "dead"}
    /\ Leave(p, "dead")
    /\ doomed' = doomed \cup {p}
    /\ UNCHANGED <<cmd, fd, seen, file, handling, stop, foreign>>

\* A run that met a deadly signal ends, some steps after the signal was sent.
Die(p) ==
    /\ p \in doomed /\ pc[p] # "dead"
    /\ Leave(p, "dead")
    /\ UNCHANGED <<cmd, fd, seen, file, world>>

ReusePid(p) ==
    /\ PidReuse
    /\ At(p, "dead") /\ p \in written \ foreign
    /\ foreign' = foreign \cup {p}
    /\ UNCHANGED <<pc, cmd, phase, fd, seen, file, handling, stop, doomed>>

ForeignExits(p) ==
    /\ p \in foreign
    /\ foreign' = foreign \ {p}
    /\ UNCHANGED <<pc, cmd, phase, fd, seen, file, handling, stop, doomed>>
-----------------------------------------------------------------------------
Launcher(p) ==
    \/ OpenPidFile(p) \/ ReadPidFile(p) \/ UnlinkStale(p)
    \/ SendSignal(p) \/ WaitGone(p) \/ WaitTimeout(p)

Daemon(p) ==
    \/ CreateExcl(p) \/ WritePid(p) \/ InstallHandlers(p) \/ StartThreads(p)
    \/ HandleStop(p) \/ JoinThreads(p) \/ JoinUnstarted(p) \/ RemovePidFile(p)
    \/ Exit(p)

Environment(p) ==
    \/ \E c \in Commands : Launch(p, c)
    \/ InitFails(p) \/ Terminate(p) \/ Crash(p) \/ Die(p) \/ ReusePid(p) \/ ForeignExits(p)

Next == \E p \in Procs : Launcher(p) \/ Daemon(p) \/ Environment(p)

Spec == Init /\ [][Next]_vars

\* A process that can run is scheduled, and one that met a deadly signal dies;
\* nobody is obliged to launch, to stop, to fail or to crash.
Fairness == \A p \in Procs : WF_vars(Launcher(p)) /\ WF_vars(Daemon(p)) /\ WF_vars(Die(p))

FairSpec == Spec /\ Fairness
-----------------------------------------------------------------------------
(* Safety.                                                                 *)

\* At most one daemon is in service.  Two of them would fight over the LCD,
\* the buttons, the serial port and the MQTT client id.
OneDaemon == \A p, q \in Up : p = q

\* While a daemon is in service the path leads to its file and the file holds
\* its pid: the commands of the program can find it.
Findable == \A p \in Up : dir = p /\ p \in written

\* A PID file whose owner is gone is only left behind by SIGKILL, a crash, or a signal
\* that came between the creation of the file and the signal handlers.  Once they are
\* in place, every other signal at any moment ends in daemon_pid_file_remove().
CleanExitLeavesNoFile == dir # None /\ pc[dir] = "dead" => dir \in doomed

\* The PID file disappears in a step of its owner or after its owner's death.
OnlyDeadFilesUnlinked ==
    [][dir # None /\ dir' # dir => pc[dir] = "dead" \/ At(dir, "removing")]_vars

\* What the proofs need on top of Findable (launches one at a time, no fault).
OneLauncher == \A p, q \in Procs : pc[p] \in Starting /\ pc[q] \in Starting => p = q
Owning == InService \cup {"abandoned", "removing"}
OwnerNamed == \A p \in Procs : pc[p] \in Owning => dir = p /\ p \in written
WriterNamed == \A p \in Procs : pc[p] = "write" => dir = p
ProbeCurrent == \A p \in Procs : pc[p] \in {"lock", "unlink"} => dir \in {fd[p], None}
UnlinkDead == \A p \in Procs : pc[p] = "unlink" => fd[p] \in Procs /\ pc[fd[p]] = "dead"
FileOwned ==
    dir # None => \/ pc[dir] \in Owning \cup {"write"}
                  \/ pc[dir] = "dead" /\ dir \in doomed
SignalPhase == \A p \in Procs : pc[p] \in {"signal", "wait"} => phase[p] # "start"
CreateFree == \A p \in Procs : pc[p] = "create" => dir = None
Inv ==
    /\ OneLauncher
    /\ OwnerNamed
    /\ WriterNamed
    /\ ProbeCurrent
    /\ UnlinkDead
    /\ FileOwned
    /\ SignalPhase
    /\ CreateFree

\* The program keeps the promise of a single instance.
SI == INSTANCE SingleInstance WITH up <- Up
SingleInstanceSpec == SI!Spec
-----------------------------------------------------------------------------
(* Liveness.                                                               *)

\* Every launch comes to an end: a daemon with its threads, or no process.
EveryLaunchEnds ==
    \A p \in Procs : (pc[p] = "open") ~> (pc[p] \in {"running", "dead"})

\* A daemon that died between creating its file and writing its pid leaves an
\* empty file, which every later probe reads as a living process.
EmptyFileLeft == dir # None /\ dir \notin written /\ pc[dir] = "dead"

\* The last probe of a restart met an unrelated program under the pid in the file.
MetForeign(p) == At(p, "dead") /\ phase[p] = "start" /\ seen[p] \in foreign

\* Or it met the daemon that its own SIGKILL had not ended yet: the wait for this has
\* a limit of 0 s, and nobody looks whether it ran out.
MetDying(p) == At(p, "dead") /\ phase[p] = "start" /\ seen[p] \in doomed

\* "-k restart" ends with the new daemon in place, whether the old one obeys
\* SIGINT, has to be killed, died and left its file, or is long gone: unless
\* the restarting run itself is killed, the file was left empty, its pid belongs to
\* an unrelated program by the last probe, or the old daemon takes its time to die.
RestartBringsUp ==
    \A p \in Procs : (At(p, "open") /\ cmd[p] = "restart") ~>
        \/ At(p, "handled") \/ p \in doomed \/ EmptyFileLeft \/ MetForeign(p) \/ MetDying(p)
=====
