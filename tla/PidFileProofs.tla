--------------------------- MODULE PidFileProofs ---------------------------
(***************************************************************************)
(* Proofs about PidFile, for any number of runs.                           *)
(***************************************************************************)
EXTENDS PidFile, TLAPS

-----------------------------------------------------------------------------
(* Where a launcher goes after a call.                                     *)

LEMMA CommandDoneGoes ==
    ASSUME TypeOK, NEW p \in Procs, CommandDone(p)
    PROVE  /\ phase' \in [Procs -> Phases]
           /\ \A q \in Procs \ {p} : phase'[q] = phase[q]
           /\ \E l \in {"open", "dead"} : Goto(p, l)
  BY DEF TypeOK, CommandDone, Probe, Leave, Goto, Phases

LEMMA CallFailsGoes ==
    ASSUME TypeOK, NEW p \in Procs, CallFails(p)
    PROVE  /\ phase' \in [Procs -> Phases]
           /\ \A q \in Procs \ {p} : phase'[q] = phase[q]
           /\ \E l \in {"open", "create", "dead"} :
                  Goto(p, l) /\ (l = "create" => phase[p] = "start")
<1>1. CASE phase[p] = "SIGKILL" /\ CommandDone(p)
  BY <1>1, CommandDoneGoes
<1>2. CASE ~(phase[p] = "SIGKILL" /\ CommandDone(p))
  BY <1>2 DEF TypeOK, CallFails, Probe, Leave, Goto, Phases
<1>3. QED
  BY <1>1, <1>2

LEMMA CallFindsGoes ==
    ASSUME TypeOK, NEW p \in Procs, CallFinds(p)
    PROVE  /\ phase' = phase
           /\ \E l \in {"signal", "dead"} :
                  Goto(p, l) /\ (l = "signal" => phase[p] # "start")
  BY DEF CallFinds, Leave

LEMMA GotoTyped ==
    ASSUME TypeOK, NEW p \in Procs, NEW l \in Locations, Goto(p, l)
    PROVE  pc' \in [Procs -> Locations]
  BY DEF TypeOK, Goto

-----------------------------------------------------------------------------
(* Type correctness, whatever the constants.                               *)

LEMMA TypeInit == Init => TypeOK
  BY DEF Init, TypeOK, Commands, Phases, Locations

LEMMA TypeLauncher ==
    ASSUME TypeOK, NEW p \in Procs, Launcher(p)
    PROVE  TypeOK'
<1> USE DEF Locations, Starting, Probing, InService
<1>1. CASE OpenPidFile(p)
  <2>1. /\ phase' \in [Procs -> Phases]
        /\ \E l \in {"open", "create", "dead", "lock"} : Goto(p, l)
    BY <1>1, CallFailsGoes DEF OpenPidFile, Leave, TypeOK
  <2>2. pc' \in [Procs -> Locations]
    BY <2>1, GotoTyped
  <2>3. QED
    BY <1>1, <2>1, <2>2 DEF OpenPidFile, TypeOK, file, world
<1>2. CASE ReadPidFile(p)
  <2>1. /\ phase' \in [Procs -> Phases]
        /\ \E l \in {"open", "create", "dead", "signal", "unlink"} : Goto(p, l)
    BY <1>2, CallFailsGoes, CallFindsGoes DEF ReadPidFile, Leave, TypeOK
  <2>2. pc' \in [Procs -> Locations]
    BY <2>1, GotoTyped
  <2>3. QED
    BY <1>2, <2>1, <2>2 DEF ReadPidFile, Close, TypeOK, file, world
<1>3. CASE UnlinkStale(p)
  <2>1. phase' \in [Procs -> Phases] /\ pc' \in [Procs -> Locations]
    BY <1>3, CallFailsGoes, GotoTyped DEF UnlinkStale
  <2>2. QED
    BY <1>3, <2>1 DEF UnlinkStale, Close, TypeOK, world
<1>4. CASE SendSignal(p)
  <2>1. /\ phase' \in [Procs -> Phases]
        /\ \E l \in {"open", "create", "dead", "wait"} : Goto(p, l)
    BY <1>4, CallFailsGoes DEF SendSignal, Leave, TypeOK
  <2>2. pc' \in [Procs -> Locations]
    BY <2>1, GotoTyped
  <2>3. stop' \subseteq Procs /\ doomed' \subseteq Procs
    BY <1>4 DEF SendSignal, Deliver, TypeOK
  <2>4. QED
    BY <1>4, <2>1, <2>2, <2>3 DEF SendSignal, TypeOK, file
<1>5. CASE WaitGone(p)
  <2>1. phase' \in [Procs -> Phases] /\ pc' \in [Procs -> Locations]
    BY <1>5, CommandDoneGoes, GotoTyped DEF WaitGone
  <2>2. QED
    BY <1>5, <2>1 DEF WaitGone, TypeOK, file, world
<1>6. CASE WaitTimeout(p)
  <2>1. phase' \in [Procs -> Phases] /\ pc' \in [Procs -> Locations]
    BY <1>6, CallFailsGoes, GotoTyped DEF WaitTimeout
  <2>2. QED
    BY <1>6, <2>1 DEF WaitTimeout, TypeOK, file, world
<1>7. QED
  BY <1>1, <1>2, <1>3, <1>4, <1>5, <1>6 DEF Launcher

LEMMA TypeDaemon ==
    ASSUME TypeOK, NEW p \in Procs, Daemon(p)
    PROVE  TypeOK'
<1> USE DEF TypeOK, Locations, Starting, Probing, InService, Leave, Goto, file, world
<1>1. CASE CreateExcl(p)
  BY <1>1 DEF CreateExcl
<1>2. CASE WritePid(p)
  BY <1>2 DEF WritePid
<1>3. CASE InstallHandlers(p)
  BY <1>3 DEF InstallHandlers
<1>4. CASE StartThreads(p)
  BY <1>4 DEF StartThreads
<1>5. CASE HandleStop(p)
  BY <1>5 DEF HandleStop
<1>6. CASE JoinThreads(p)
  BY <1>6 DEF JoinThreads
<1>7. CASE JoinUnstarted(p)
  BY <1>7 DEF JoinUnstarted
<1>8. CASE RemovePidFile(p)
  BY <1>8 DEF RemovePidFile
<1>9. CASE Exit(p)
  BY <1>9 DEF Exit
<1>10. QED
  BY <1>1, <1>2, <1>3, <1>4, <1>5, <1>6, <1>7, <1>8, <1>9 DEF Daemon

LEMMA TypeEnvironment ==
    ASSUME TypeOK, NEW p \in Procs, Environment(p)
    PROVE  TypeOK'
<1> USE DEF TypeOK, Locations, Starting, Probing, InService, Leave, Goto, file, world
<1>1. CASE \E c \in Commands : Launch(p, c)
  BY <1>1 DEF Launch, FirstPhase, Phases, Commands
<1>2. CASE InitFails(p)
  BY <1>2 DEF InitFails
<1>3. CASE Terminate(p)
  BY <1>3 DEF Terminate
<1>4. CASE Crash(p)
  BY <1>4 DEF Crash
<1>5. CASE Die(p)
  BY <1>5 DEF Die
<1>6. CASE ReusePid(p)
  BY <1>6 DEF ReusePid
<1>7. CASE ForeignExits(p)
  BY <1>7 DEF ForeignExits
<1>8. QED
  BY <1>1, <1>2, <1>3, <1>4, <1>5, <1>6, <1>7 DEF Environment

\* Every variable keeps its type: no step of the launcher, the daemon or the
\* environment leaves the program at a location the code does not have.
THEOREM TypeCorrect == Spec => []TypeOK
<1>1. TypeOK /\ [Next]_vars => TypeOK'
  <2>1. CASE UNCHANGED vars
    BY <2>1 DEF TypeOK, vars, file, world
  <2>2. QED
    BY <2>1, TypeLauncher, TypeDaemon, TypeEnvironment DEF Next
<1>2. QED
  BY <1>1, TypeInit, PTL DEF Spec

-----------------------------------------------------------------------------
(* Launches one at a time, no system call fails: the inductive invariant.  *)

Sequential == ~Overlap /\ ~IOFaults

LEMMA InvInit == Init => Inv
  BY NoneAssumption
  DEF Init, Inv, OneLauncher, OwnerNamed, WriterNamed, ProbeCurrent, UnlinkDead,
      FileOwned, SignalPhase, CreateFree, Owning, InService, Starting, Probing

LEMMA InvLauncher ==
    ASSUME Sequential, TypeOK, Inv, NEW p \in Procs, Launcher(p)
    PROVE  Inv'
<1> USE NoneAssumption
    DEF Sequential, Inv, OneLauncher, OwnerNamed, WriterNamed, ProbeCurrent,
        UnlinkDead, FileOwned, SignalPhase, CreateFree, Owning, InService, Starting, Probing, Goto, At
<1>1. CASE OpenPidFile(p)
  <2>1. /\ \A q \in Procs \ {p} : phase'[q] = phase[q]
        /\ \E l \in {"open", "create", "dead", "lock"} :
              /\ Goto(p, l)
              /\ l = "lock" => fd' = [fd EXCEPT ![p] = dir]
              /\ l = "create" => dir = None
    BY <1>1, CallFailsGoes DEF OpenPidFile, Leave, TypeOK
  <2>2. UNCHANGED <<dir, written, doomed>> /\ \A q \in Procs \ {p} : fd'[q] = fd[q]
    BY <1>1 DEF OpenPidFile, TypeOK, file, world
  <2>3. QED
    BY <1>1, <2>1, <2>2 DEF OpenPidFile, TypeOK
<1>2. CASE ReadPidFile(p)
  <2>1. \/ \E l \in {"dead", "signal"} :
               phase' = phase /\ Goto(p, l) /\ (l = "signal" => phase[p] # "start")
        \/ Goto(p, "unlink") /\ fd' = fd /\ phase' = phase /\ fd[p] \in written /\ pc[fd[p]] = "dead"
    BY <1>2, CallFindsGoes DEF ReadPidFile, Leave, TypeOK, Alive
  <2>2. UNCHANGED <<dir, written, doomed>> /\ \A q \in Procs \ {p} : fd'[q] = fd[q]
    BY <1>2 DEF ReadPidFile, Close, TypeOK, file, world
  <2>3. QED
    BY <1>2, <2>1, <2>2 DEF ReadPidFile, TypeOK
<1>3. CASE UnlinkStale(p)
  <2>1. /\ \A q \in Procs \ {p} : phase'[q] = phase[q]
        /\ \E l \in {"open", "create", "dead"} : Goto(p, l)
    BY <1>3, CallFailsGoes DEF UnlinkStale
  <2>2. dir' = None /\ UNCHANGED <<written, doomed>> /\ \A q \in Procs \ {p} : fd'[q] = fd[q]
    BY <1>3 DEF UnlinkStale, Close, TypeOK, world
  <2>3. \A q \in Procs : pc[q] \notin Owning \cup {"write"}
    BY <1>3 DEF UnlinkStale, TypeOK
  <2>4. QED
    BY <1>3, <2>1, <2>2, <2>3 DEF UnlinkStale, TypeOK
<1>4. CASE SendSignal(p)
  <2>1. UNCHANGED <<dir, written, fd>> /\ pc[p] = "signal" /\ doomed \subseteq doomed'
    BY <1>4 DEF SendSignal, Deliver, file
  <2>2. /\ \A q \in Procs \ {p} : phase'[q] = phase[q]
        /\ \E l \in {"open", "dead", "wait"} :
              Goto(p, l) /\ (l = "wait" => phase' = phase)
    BY <1>4, CallFailsGoes DEF SendSignal, Leave
  <2>3. QED
    BY <2>1, <2>2 DEF TypeOK
<1>5. CASE WaitGone(p) \/ WaitTimeout(p)
  <2>1. /\ pc[p] = "wait" /\ \A q \in Procs \ {p} : phase'[q] = phase[q]
        /\ \E l \in {"open", "dead"} : Goto(p, l)
    BY <1>5, CallFailsGoes, CommandDoneGoes DEF WaitGone, WaitTimeout
  <2>2. UNCHANGED <<dir, written, doomed, fd>>
    BY <1>5 DEF WaitGone, WaitTimeout, file, world
  <2>3. QED
    BY <2>1, <2>2 DEF TypeOK
<1>6. QED
  BY <1>1, <1>2, <1>3, <1>4, <1>5 DEF Launcher

LEMMA InvDaemon ==
    ASSUME Sequential, TypeOK, Inv, NEW p \in Procs, Daemon(p)
    PROVE  Inv'
<1> USE NoneAssumption
    DEF Sequential, TypeOK, Inv, OneLauncher, OwnerNamed, WriterNamed, ProbeCurrent,
        UnlinkDead, FileOwned, SignalPhase, CreateFree, Owning, InService, Starting, Probing,
        Leave, Goto, At, file, world
<1>1. CASE CreateExcl(p)
  BY <1>1 DEF CreateExcl
<1>2. CASE WritePid(p)
  BY <1>2 DEF WritePid
<1>3. CASE InstallHandlers(p)
  BY <1>3 DEF InstallHandlers
<1>4. CASE StartThreads(p)
  BY <1>4 DEF StartThreads
<1>5. CASE HandleStop(p)
  BY <1>5 DEF HandleStop
<1>6. CASE JoinThreads(p)
  BY <1>6 DEF JoinThreads
<1>7. CASE JoinUnstarted(p)
  BY <1>7 DEF JoinUnstarted
<1>8. CASE RemovePidFile(p)
  BY <1>8 DEF RemovePidFile
<1>9. CASE Exit(p)
  BY <1>9 DEF Exit
<1>10. QED
  BY <1>1, <1>2, <1>3, <1>4, <1>5, <1>6, <1>7, <1>8, <1>9 DEF Daemon

LEMMA InvEnvironment ==
    ASSUME Sequential, TypeOK, Inv, NEW p \in Procs, Environment(p)
    PROVE  Inv'
<1> USE NoneAssumption
    DEF Sequential, TypeOK, Inv, OneLauncher, OwnerNamed, WriterNamed, ProbeCurrent,
        UnlinkDead, FileOwned, SignalPhase, CreateFree, Owning, InService, Starting,
        Probing, Leave, Goto, At, file, world
<1>1. CASE \E c \in Commands : Launch(p, c)
  BY <1>1 DEF Launch
<1>2. CASE InitFails(p)
  BY <1>2 DEF InitFails
<1>3. CASE Terminate(p)
  BY <1>3 DEF Terminate
<1>4. CASE Crash(p)
  BY <1>4 DEF Crash
<1>5. CASE Die(p)
  BY <1>5 DEF Die
<1>6. CASE ReusePid(p)
  BY <1>6 DEF ReusePid
<1>7. CASE ForeignExits(p)
  BY <1>7 DEF ForeignExits
<1>8. QED
  BY <1>1, <1>2, <1>3, <1>4, <1>5, <1>6, <1>7 DEF Environment

THEOREM InvCorrect ==
    ASSUME Sequential
    PROVE  Spec => []Inv
<1>1. TypeOK /\ Inv /\ [Next]_vars => Inv'
  <2>1. CASE UNCHANGED vars
    BY <2>1 DEF vars, file, world, Inv, OneLauncher, OwnerNamed, WriterNamed, ProbeCurrent,
                UnlinkDead, FileOwned, SignalPhase, CreateFree
  <2>2. QED
    BY <2>1, InvLauncher, InvDaemon, InvEnvironment DEF Next
<1>2. QED
  BY <1>1, InvInit, TypeCorrect, PTL DEF Spec

-----------------------------------------------------------------------------
(* What follows from the invariant.                                        *)

\* A daemon in service can be found through the PID file: its pid is in the
\* file the path names.
THEOREM FindableCorrect ==
    ASSUME Sequential
    PROVE  Spec => []Findable
<1>1. Inv => Findable
  BY DEF Inv, OwnerNamed, Findable, Up, Owning
<1>2. QED
  BY <1>1, InvCorrect, PTL

\* No two daemons are ever in service together.
THEOREM OneDaemonCorrect ==
    ASSUME Sequential
    PROVE  Spec => []OneDaemon
<1>1. Findable => OneDaemon
  BY DEF Findable, OneDaemon
<1>2. QED
  BY <1>1, FindableCorrect, PTL

\* Only SIGKILL, crashes and signals before the handlers leave a PID file behind.
THEOREM CleanExitCorrect ==
    ASSUME Sequential
    PROVE  Spec => []CleanExitLeavesNoFile
<1>1. Inv => CleanExitLeavesNoFile
  BY DEF Inv, FileOwned, CleanExitLeavesNoFile, Owning, InService
<1>2. QED
  BY <1>1, InvCorrect, PTL

\* The PID file of a live daemon is removed by nobody else.
THEOREM OnlyDeadFilesUnlinkedCorrect ==
    ASSUME Sequential
    PROVE  Spec => OnlyDeadFilesUnlinked
<1> DEFINE Unlinked == dir # None /\ dir' # dir
           Allowed == pc[dir] = "dead" \/ At(dir, "removing")
<1>1. Inv /\ TypeOK /\ [Next]_vars => [Unlinked => Allowed]_vars
  <2> SUFFICES ASSUME Inv, TypeOK, NEW p \in Procs, Unlinked,
                      Launcher(p) \/ Daemon(p) \/ Environment(p)
               PROVE  Allowed
    BY DEF Next, vars
  <2>1. UnlinkStale(p) \/ CreateExcl(p) \/ RemovePidFile(p) \/ (IOFaults /\ WritePid(p))
    BY DEF Launcher, Daemon, Environment, OpenPidFile, ReadPidFile, SendSignal,
           WaitGone, WaitTimeout, WritePid, InstallHandlers, StartThreads, HandleStop,
           JoinThreads, JoinUnstarted, Exit, Launch, InitFails, Terminate, Crash, Die,
           ReusePid, ForeignExits, file
  <2>2. CASE UnlinkStale(p)
    BY <2>2 DEF UnlinkStale, Inv, ProbeCurrent, UnlinkDead, At
  <2>3. CASE RemovePidFile(p)
    BY <2>3 DEF RemovePidFile, Inv, OwnerNamed, Owning, At
  <2>4. CASE CreateExcl(p)
    BY <2>4 DEF CreateExcl
  <2>5. QED
    BY <2>1, <2>2, <2>3, <2>4 DEF Sequential
<1>2. QED
  BY <1>1, InvCorrect, TypeCorrect, PTL DEF Spec, OnlyDeadFilesUnlinked

-----------------------------------------------------------------------------
(* Refinement of SingleInstance: only WritePid brings a daemon in service. *)

LEMMA OthersDoNotBegin ==
    ASSUME TypeOK, NEW p \in Procs, ~WritePid(p),
           Launcher(p) \/ Daemon(p) \/ Environment(p)
    PROVE  Up' \subseteq Up
<1> SUFFICES ASSUME NEW q \in Procs, pc'[q] \in InService
             PROVE  pc[q] \in InService
  BY DEF Up
<1> USE DEF TypeOK, InService, Leave, Goto, At
<1>1. CASE Launcher(p)
  <2>1. \E l \in {"open", "create", "dead", "lock", "signal", "unlink", "wait"} : Goto(p, l)
    BY <1>1, CallFailsGoes, CallFindsGoes, CommandDoneGoes
    DEF Launcher, OpenPidFile, ReadPidFile, UnlinkStale, SendSignal, WaitGone, WaitTimeout
  <2>2. QED
    BY <2>1
<1>2. CASE Daemon(p)
  BY <1>2 DEF Daemon, CreateExcl, InstallHandlers, StartThreads, HandleStop,
              JoinThreads, JoinUnstarted, RemovePidFile, Exit
<1>3. CASE Environment(p)
  BY <1>3 DEF Environment, Launch, InitFails, Terminate, Crash, Die, ReusePid, ForeignExits
<1>4. QED
  BY <1>1, <1>2, <1>3

LEMMA StepRefines ==
    ASSUME Inv, Inv', TypeOK, TypeOK', NEW p \in Procs,
           Launcher(p) \/ Daemon(p) \/ Environment(p)
    PROVE  [SI!Next]_Up
<1>1. \A q, r \in Up : q = r
  BY DEF Inv, OwnerNamed, Owning, Up
<1>2. \A q, r \in Up' : q = r
  BY DEF Inv, OwnerNamed, Owning, Up
<1>3. Up \subseteq Procs /\ Up' \subseteq Procs
  BY DEF Up
<1>4. CASE WritePid(p)
  <2>1. Up = {}
    BY <1>4 DEF WritePid, At, Up, Inv, OwnerNamed, WriterNamed, Owning, InService
  <2>2. Up' = {} \/ \E q \in Procs : Up' = {q}
    BY <1>2, <1>3
  <2>3. QED
    BY <2>1, <2>2 DEF SI!Next, SI!Begin
<1>5. CASE ~WritePid(p)
  <2>1. Up' \subseteq Up
    BY <1>5, OthersDoNotBegin
  <2>2. Up' = Up \/ (Up' = {} /\ \E q \in Procs : Up = {q})
    BY <1>1, <1>3, <2>1
  <2>3. QED
    BY <2>2 DEF SI!Next, SI!End
<1>6. QED
  BY <1>4, <1>5

\* With launches one at a time, every behaviour of the program, whatever dies
\* and whenever, is a behaviour of the abstract single-instance service.
THEOREM Refinement ==
    ASSUME Sequential
    PROVE  Spec => SingleInstanceSpec
<1>1. Init => SI!Init
  BY DEF Init, SI!Init, Up, InService
<1>2. Inv /\ Inv' /\ TypeOK /\ TypeOK' /\ [Next]_vars => [SI!Next]_Up
  <2>1. CASE UNCHANGED vars
    BY <2>1 DEF vars, Up
  <2>2. QED
    BY <2>1, StepRefines DEF Next
<1>3. QED
  BY <1>1, <1>2, InvCorrect, TypeCorrect, PTL DEF Spec, SingleInstanceSpec, SI!Spec
=============================================================================
