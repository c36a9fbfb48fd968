-------------------------- MODULE DaemonForkProofs --------------------------
(***************************************************************************)
(* Proofs about DaemonFork: what the launcher reports is true, whichever   *)
(* of the three processes die and whichever system calls fail.             *)
(***************************************************************************)
EXTENDS DaemonFork, TLAPS

\* What appending and removing do to the contents of a pipe.
LEMMA AppendFacts ==
    ASSUME NEW S, NEW s \in Seq(S), NEW x \in S
    PROVE  /\ Append(s, x) \in Seq(S)
           /\ Len(Append(s, x)) = Len(s) + 1
           /\ \A k \in DOMAIN Append(s, x) :
                \/ k \in DOMAIN s /\ Append(s, x)[k] = s[k]
                \/ Append(s, x)[k] = x
OBVIOUS

LEMMA TailFacts ==
    ASSUME NEW S, NEW s \in Seq(S), s # <<>>
    PROVE  /\ Tail(s) \in Seq(S)
           /\ Head(s) \in S
           /\ 1 \in DOMAIN s /\ Head(s) = s[1]
           /\ \A k \in DOMAIN Tail(s) : k + 1 \in DOMAIN s /\ Tail(s)[k] = s[k + 1]
OBVIOUS

\* What the pid pipe holds after a write and after a read.
LEMMA PidGrows ==
    ASSUME TypeOK, NEW x \in {Ok, Failed}
    PROVE  /\ Append(pid, x) \in Seq({Ok, Failed})
           /\ Len(Append(pid, x)) = Len(pid) + 1
           /\ \A k \in DOMAIN Append(pid, x) :
                \/ k \in DOMAIN pid /\ Append(pid, x)[k] = pid[k]
                \/ Append(pid, x)[k] = x
<1> DEFINE V == {Ok, Failed}
<1>1. pid \in Seq(V) /\ x \in V
  BY DEF TypeOK
<1> HIDE DEF V
<1>2. QED
  BY <1>1, AppendFacts DEF V

LEMMA PidShrinks ==
    ASSUME TypeOK, pid # <<>>
    PROVE  /\ Tail(pid) \in Seq({Ok, Failed})
           /\ 1 \in DOMAIN pid /\ Head(pid) = pid[1]
           /\ \A k \in DOMAIN Tail(pid) : k + 1 \in DOMAIN pid /\ Tail(pid)[k] = pid[k + 1]
<1> DEFINE V == {Ok, Failed}
<1>1. pid \in Seq(V)
  BY DEF TypeOK
<1> HIDE DEF V
<1>2. QED
  BY <1>1, TailFacts DEF V

\* The actions that touch the pid pipe leave pids in it.
LEMMA PidTyped ==
    ASSUME TypeOK, ReadPid \/ Announce \/ \E p \in {"child", "daemon"} : Fail(p)
    PROVE  pid' \in Seq({Ok, Failed})
<1>1. pid \in Seq({Ok, Failed})
  BY DEF TypeOK
<1>2. \/ pid' = pid \/ pid' = Append(pid, Failed) \/ pid' = Append(pid, Ok)
      \/ pid # <<>> /\ pid' = Tail(pid)
  BY DEF ReadPid, Announce, Fail
<1>3. QED
  BY <1>1, <1>2, PidGrows, PidShrinks, Zenon

\* A location is changed for one process only.
LEMMA GotoMoves ==
    ASSUME TypeOK, NEW p \in Processes, NEW l \in Locations, Goto(p, l)
    PROVE  /\ pc' \in [Processes -> Locations]
           /\ pc'[p] = l
           /\ \A q \in Processes \ {p} : pc'[q] = pc[q]
BY DEF TypeOK, Goto

\* What a value sent adds to the return value pipe and to the history.
LEMMA SendAdds ==
    ASSUME TypeOK, NEW i \in {-1, 0, 1}, Send(i)
    PROVE  /\ ret' \in Seq({-1, 0, 1})
           /\ sent' \in Seq({-1, 0, 1})
           /\ channel' \in [{"launcher", "daemon"} -> BOOLEAN]
           /\ \A k \in DOMAIN ret' :
                \/ k \in DOMAIN ret /\ ret'[k] = ret[k]
                \/ channel["daemon"] /\ ret'[k] = i
           /\ ~channel'["daemon"]
           /\ sent' # sent => channel["daemon"] /\ sent' = Append(sent, i)
<1> DEFINE V == {-1, 0, 1}
<1>1. ret \in Seq(V) /\ sent \in Seq(V) /\ i \in V /\ channel \in [{"launcher", "daemon"} -> BOOLEAN]
  BY DEF TypeOK
<1>2. channel' \in [{"launcher", "daemon"} -> BOOLEAN] /\ ~channel'["daemon"]
  BY <1>1 DEF Send
<1>3. \/ ret' = ret /\ sent' = sent
      \/ channel["daemon"] /\ ret' = Append(ret, i) /\ sent' = Append(sent, i)
  BY DEF Send
<1>4. CASE ret' = ret /\ sent' = sent
  BY <1>1, <1>2, <1>4, Zenon
<1>5. CASE channel["daemon"] /\ ret' = Append(ret, i) /\ sent' = Append(sent, i)
  <2> HIDE DEF V
  <2>1. Append(ret, i) \in Seq(V) /\ Append(sent, i) \in Seq(V)
    BY <1>1, AppendFacts
  <2>2. \A k \in DOMAIN Append(ret, i) :
           (k \in DOMAIN ret /\ Append(ret, i)[k] = ret[k]) \/ Append(ret, i)[k] = i
    BY <1>1, AppendFacts
  <2> QED
    BY <1>2, <1>5, <2>1, <2>2, Zenon DEF V
<1> QED
  BY <1>3, <1>4, <1>5

\* Type correctness: every process keeps to its own locations, pipes only carry
\* what their readers understand.
THEOREM TypeCorrect == Spec => []TypeOK
<1>1. Init => TypeOK
  BY DEF Init, TypeOK, Processes, Locations, LauncherLocations, ChildLocations,
         DaemonLocations, NoResult
<1>2. TypeOK /\ [Next]_vars => TypeOK'
  <2> SUFFICES ASSUME TypeOK, [Next]_vars PROVE TypeOK'
    OBVIOUS
  <2> USE DEF TypeOK, Processes, Locations, LauncherLocations, ChildLocations,
              DaemonLocations, NoResult, Ok, Failed, At, Goto, CloseWriter
  <2>1. CASE RetvalInit
    BY <2>1 DEF RetvalInit
  <2>2. CASE FirstFork
    <3>1. CASE Return(1) /\ UNCHANGED pidWriters
      BY <2>2, <3>1 DEF FirstFork, Return
    <3>2. CASE /\ pc' = [pc EXCEPT !["launcher"] = "waitpid", !["child"] = "prepare"]
               /\ pidWriters' = {"child"}
               /\ UNCHANGED result
      <4>1. pc' \in [Processes -> Locations]
        BY <3>2
      <4>2. pc'["launcher"] = "waitpid" /\ pc'["child"] = "prepare" /\ pc'["daemon"] = pc["daemon"]
        BY <3>2
      <4>3. QED
        BY <2>2, <3>2, <4>1, <4>2 DEF FirstFork
    <3>3. QED
      BY <2>2, <3>1, <3>2 DEF FirstFork
  <2>3. CASE WaitChild
    BY <2>3 DEF WaitChild
  <2>4. CASE ReadPid
    <3> HIDE DEF Ok, Failed
    <3>1. pid' \in Seq({Ok, Failed})
      BY <2>4, PidTyped, Zenon
    <3>2. CASE Goto("launcher", "wait") /\ UNCHANGED result
      BY <2>4, <3>1, <3>2 DEF ReadPid
    <3>3. CASE Return(1)
      BY <2>4, <3>1, <3>3 DEF ReadPid, Return
    <3>4. QED
      BY <2>4, <3>2, <3>3 DEF ReadPid
  <2>5. CASE ReceiveValue
    BY <2>5 DEF ReceiveValue, Return
  <2>6. CASE GiveUp
    BY <2>6 DEF GiveUp, Return
  <2>7. CASE Prepare
    BY <2>7 DEF Prepare
  <2>8. CASE SecondFork
    <3>1. CASE Goto("child", "fail") /\ UNCHANGED <<pidWriters, channel>>
      BY <2>8, <3>1 DEF SecondFork
    <3>2. CASE /\ pc' = [pc EXCEPT !["child"] = "exited", !["daemon"] = "announce"]
               /\ pidWriters' = (pidWriters \ {"child"}) \cup {"daemon"}
               /\ channel' = [channel EXCEPT !["daemon"] = channel["launcher"]]
      BY <2>8, <3>2 DEF SecondFork
    <3>3. QED
      BY <2>8, <3>1, <3>2 DEF SecondFork
  <2>9. ASSUME NEW p \in {"child", "daemon"}, Fail(p) PROVE TypeOK'
    <3> HIDE DEF Ok, Failed
    <3>1. \E q \in {"child", "daemon"} : Fail(q)
      BY <2>9, Zenon
    <3>2. pid' \in Seq({Ok, Failed})
      BY <3>1, PidTyped, Zenon
    <3>3. CASE Goto(p, "exited")
      BY <2>9, <3>2, <3>3 DEF Fail
    <3>4. CASE Goto(p, "dead")
      BY <2>9, <3>2, <3>4 DEF Fail
    <3>5. QED
      BY <2>9, <3>3, <3>4 DEF Fail
  <2>10. CASE Announce
    <3> HIDE DEF Ok, Failed
    <3>1. pid' \in Seq({Ok, Failed})
      BY <2>10, PidTyped, Zenon
    <3>2. PICK l \in {"create", "fail", "dead"} : Goto("daemon", l)
      BY <2>10 DEF Announce
    <3>3. pidWriters' = pidWriters \/ pidWriters' = pidWriters \ {"daemon"}
      BY <2>10, Zenon DEF Announce
    <3>4. QED
      BY <2>10, <3>1, <3>2, <3>3 DEF Announce
  <2>11. CASE CreatePidFile
    BY <2>11, SendAdds DEF CreatePidFile
  <2>12. CASE InitSignals
    BY <2>12, SendAdds DEF InitSignals
  <2>13. CASE InitDevices
    BY <2>13 DEF InitDevices
  <2>14. CASE LeaveLoop
    BY <2>14 DEF LeaveLoop
  <2>15. CASE Finish
    BY <2>15, SendAdds DEF Finish
  <2>16. ASSUME NEW p \in Processes, Die(p) PROVE TypeOK'
    BY <2>16 DEF Die
  <2>17. CASE UNCHANGED vars
    BY <2>17 DEF vars
  <2>18. QED
    BY <2>1, <2>2, <2>3, <2>4, <2>5, <2>6, <2>7, <2>8, <2>9, <2>10, <2>11, <2>12, <2>13, <2>14,
       <2>15, <2>16, <2>17 DEF Next, Launcher, Child, Start
<1>3. QED
  BY <1>1, <1>2, PTL DEF Spec

-----------------------------------------------------------------------------
\* What a step of one process leaves of the locations of the other two.
LEMMA Moves ==
    ASSUME TypeOK, NEW l \in Locations
    PROVE  /\ Goto("launcher", l) => /\ pc'["launcher"] = l
                                     /\ pc'["child"] = pc["child"]
                                     /\ pc'["daemon"] = pc["daemon"]
           /\ Goto("child", l) => /\ pc'["child"] = l
                                  /\ pc'["launcher"] = pc["launcher"]
                                  /\ pc'["daemon"] = pc["daemon"]
           /\ Goto("daemon", l) => /\ pc'["daemon"] = l
                                   /\ pc'["launcher"] = pc["launcher"]
                                   /\ pc'["child"] = pc["child"]
BY GotoMoves DEF Processes

\* The steps of the launcher: they take a pid or a value out of a pipe, and what
\* they return follows from what that value says of the other two.
LEMMA RetShrinks ==
    ASSUME TypeOK, ret # <<>>
    PROVE  /\ 1 \in DOMAIN ret /\ Head(ret) = ret[1] /\ Head(ret) \in {-1, 0, 1}
           /\ \A k \in DOMAIN Tail(ret) : k + 1 \in DOMAIN ret /\ Tail(ret)[k] = ret[k + 1]
<1> DEFINE V == {-1, 0, 1}
<1>1. ret \in Seq(V)
  BY DEF TypeOK
<1> HIDE DEF V
<1>2. QED
  BY <1>1, TailFacts DEF V

LEMMA LauncherStep ==
    ASSUME TypeOK, Inv, Launcher PROVE Inv'
<1> USE DEF Locations, LauncherLocations, At, Gone, Late, Ended, NoResult
<1>1. CASE RetvalInit
  BY <1>1, Moves DEF RetvalInit, Inv, WritersAlive, Births, PidMeans, PidStays, ValueMeans, AnswerOnce,
     ResultLast, StartedIsTrue, FailedIsTrue, OneAnswer, TypeOK
<1>2. CASE FirstFork
  <2>1. pc["daemon"] = "unborn" /\ pc["child"] = "unborn" /\ pid' = <<>> /\ ret' = ret /\ result = NoResult
    BY <1>2 DEF FirstFork, Inv, Births, ResultLast
  <2>2. CASE Return(1) /\ UNCHANGED pidWriters
    BY <1>2, <2>1, <2>2, Moves DEF FirstFork, Return, Inv, WritersAlive, Births, PidMeans, PidStays,
       ValueMeans, AnswerOnce, ResultLast, StartedIsTrue, FailedIsTrue, OneAnswer
  <2>3. CASE /\ pc' = [pc EXCEPT !["launcher"] = "waitpid", !["child"] = "prepare"]
             /\ pidWriters' = {"child"}
             /\ UNCHANGED result
    <3>1. pc'["launcher"] = "waitpid" /\ pc'["child"] = "prepare" /\ pc'["daemon"] = pc["daemon"]
      BY <2>3 DEF TypeOK, Processes
    <3>2. QED
      BY <1>2, <2>1, <2>3, <3>1 DEF FirstFork, Inv, WritersAlive, Births, PidMeans, PidStays,
         ValueMeans, AnswerOnce, ResultLast, StartedIsTrue, FailedIsTrue, OneAnswer
  <2>4. QED
    BY <1>2, <2>2, <2>3 DEF FirstFork
<1>3. CASE WaitChild
  BY <1>3, Moves DEF WaitChild, Inv, WritersAlive, Births, PidMeans, PidStays, ValueMeans, AnswerOnce,
     ResultLast, StartedIsTrue, FailedIsTrue, OneAnswer, TypeOK
<1>4. CASE ReadPid
  <2>1. pc["child"] \in {"exited", "dead"} /\ result = NoResult
    BY <1>4 DEF ReadPid, Inv, Births, ResultLast
  <2>2. \A i \in DOMAIN pid' : \E j \in DOMAIN pid : pid'[i] = pid[j]
    BY <1>4, PidShrinks DEF ReadPid
  <2>3. CASE Goto("launcher", "wait") /\ UNCHANGED result
    BY <1>4, <2>1, <2>2, <2>3, Moves DEF ReadPid, Inv, WritersAlive, Births, PidMeans, PidStays,
       ValueMeans, AnswerOnce, ResultLast, StartedIsTrue, FailedIsTrue, OneAnswer
  <2>4. CASE Return(1)
    <3>1. pc["daemon"] \in {"unborn", "finish", "exited", "dead"}
      <4>1. CASE pid = <<>> /\ pidWriters = {}
        BY <1>4, <4>1 DEF ReadPid, Inv, WritersAlive, PidStays, TypeOK, DaemonLocations
      <4>2. CASE pid # <<>> /\ Head(pid) = Failed
        BY <4>2, PidShrinks DEF Inv, PidMeans
      <4>3. QED
        BY <1>4, <2>4, <4>1, <4>2, Moves DEF ReadPid, Return
    <3>2. QED
      BY <1>4, <2>1, <2>2, <2>4, <3>1, Moves DEF ReadPid, Return, Inv, WritersAlive, Births,
         PidMeans, PidStays, ValueMeans, AnswerOnce, ResultLast, StartedIsTrue, FailedIsTrue, OneAnswer
  <2>5. QED
    BY <1>4, <2>3, <2>4 DEF ReadPid
<1>5. CASE ReceiveValue
  <2>1. Head(ret) \in {-1, 0, 1} /\ \E j \in DOMAIN ret : Head(ret) = ret[j]
    BY <1>5, RetShrinks DEF ReceiveValue
  <2>2. \A i \in DOMAIN ret' : \E j \in DOMAIN ret : ret'[i] = ret[j]
    BY <1>5, RetShrinks DEF ReceiveValue
  <2>3. /\ Head(ret) \in {0, 1} /\ result' = Head(ret)
        /\ Head(ret) = 0 => pc["daemon"] \in Late
        /\ Head(ret) = 1 => pc["daemon"] \in Ended
    BY <1>5, <2>1 DEF ReceiveValue, Return, Inv, ValueMeans
  <2>4. Goto("launcher", "exited") /\ channel'["daemon"] = channel["daemon"]
    BY <1>5 DEF ReceiveValue, Return, TypeOK
  <2>5. ValueMeans'
    BY <2>2, <2>4, Moves DEF Inv, ValueMeans
  <2>6. QED
    BY <1>5, <2>3, <2>4, <2>5, Moves DEF ReceiveValue, Inv, WritersAlive, Births, PidMeans,
       PidStays, AnswerOnce, ResultLast, StartedIsTrue, FailedIsTrue, OneAnswer
<1>6. CASE GiveUp
  BY <1>6, Moves DEF GiveUp, Return, Inv, WritersAlive, Births, PidMeans, PidStays, ValueMeans, AnswerOnce,
     ResultLast, StartedIsTrue, FailedIsTrue, OneAnswer, TypeOK
<1>7. QED
  BY <1>1, <1>2, <1>3, <1>4, <1>5, <1>6 DEF Launcher

\* A failure is only written to the pid pipe by the last of the two children.
LEMMA FailStep ==
    ASSUME TypeOK, Inv, NEW p \in {"child", "daemon"}, Fail(p) PROVE Inv'
<1> USE DEF Locations, ChildLocations, DaemonLocations, At, Gone, Late, Ended, NoResult
<1>1. /\ p = "child" => pc["daemon"] = "unborn"
      /\ p = "daemon" => pc["child"] = "exited"
      /\ pc[p] = "fail"
  BY DEF Fail, Inv, Births
<1>2. /\ p = "child" => "daemon" \notin pidWriters
      /\ p = "daemon" => "child" \notin pidWriters
      /\ pidWriters \subseteq {"child", "daemon"}
  BY <1>1 DEF Inv, WritersAlive
<1>3. pidWriters' = {}
  BY <1>2 DEF Fail, CloseWriter
<1>4. PICK l \in {"exited", "dead"} : Goto(p, l)
  BY DEF Fail
<1>5. /\ pc'["launcher"] = pc["launcher"]
      /\ pc'["child"] = IF p = "child" THEN l ELSE pc["child"]
      /\ pc'["daemon"] = IF p = "daemon" THEN l ELSE pc["daemon"]
  BY <1>4, Moves
<1>6. /\ pc'["child"] \in {"exited", "dead"} /\ pc["child"] # "unborn"
      /\ pc'["daemon"] \in {"unborn", "exited", "dead"}
      /\ pc'["daemon"] # "unborn" => pc'["child"] = "exited"
      /\ pc["daemon"] \in {"exited", "finish"} => pc'["daemon"] = pc["daemon"]
  BY <1>1, <1>4, <1>5
<1>7. UNCHANGED <<ret, channel, result, sent>> /\ pc["launcher"] \notin {"start", "fork"}
  BY <1>6 DEF Fail, Inv, Births
<1>8. WritersAlive' /\ Births' /\ PidMeans' /\ PidStays'
  BY <1>3, <1>5, <1>6, <1>7 DEF Inv, WritersAlive, Births, PidMeans, PidStays
<1>9. ValueMeans' /\ AnswerOnce'
  BY <1>1, <1>5, <1>6, <1>7 DEF Inv, ValueMeans, AnswerOnce
<1>10. ResultLast' /\ StartedIsTrue' /\ FailedIsTrue' /\ OneAnswer'
  BY <1>1, <1>5, <1>6, <1>7 DEF Inv, ResultLast, StartedIsTrue, FailedIsTrue, OneAnswer
<1>11. QED
  BY <1>8, <1>9, <1>10 DEF Inv

LEMMA ChildStep ==
    ASSUME TypeOK, Inv, Child PROVE Inv'
<1> USE DEF Locations, ChildLocations, DaemonLocations, At, Gone, Late, Ended, NoResult
<1>1. CASE Prepare
  BY <1>1, Moves DEF Prepare, Inv, WritersAlive, Births, PidMeans,
     PidStays, ValueMeans, AnswerOnce, ResultLast, StartedIsTrue, FailedIsTrue, OneAnswer
<1>2. CASE SecondFork
  <2>1. pc["daemon"] = "unborn" /\ sent = <<>> /\ pc["launcher"] \notin {"start", "fork", "readpid"}
    BY <1>2 DEF SecondFork, Inv, Births, AnswerOnce
  <2>2. CASE Goto("child", "fail") /\ UNCHANGED <<pidWriters, channel>>
    BY <1>2, <2>2, Moves DEF SecondFork, Inv, WritersAlive, Births, PidMeans,
       PidStays, ValueMeans, AnswerOnce, ResultLast, StartedIsTrue, FailedIsTrue, OneAnswer
  <2>3. CASE /\ pc' = [pc EXCEPT !["child"] = "exited", !["daemon"] = "announce"]
             /\ pidWriters' = (pidWriters \ {"child"}) \cup {"daemon"}
             /\ channel' = [channel EXCEPT !["daemon"] = channel["launcher"]]
    <3>1. /\ pc'["launcher"] = pc["launcher"] /\ pc'["child"] = "exited"
          /\ pc'["daemon"] = "announce"
      BY <2>3 DEF TypeOK, Processes
    <3>2. QED
      BY <1>2, <2>1, <2>3, <3>1 DEF SecondFork, Inv, WritersAlive, Births, PidMeans,
         PidStays, ValueMeans, AnswerOnce, ResultLast, StartedIsTrue, FailedIsTrue, OneAnswer
  <2>4. QED
    BY <1>2, <2>2, <2>3 DEF SecondFork
<1>3. QED
  BY <1>1, <1>2, FailStep DEF Child

\* A value is sent at most once, before the daemon is in service or after it
\* has given up, and the step that sends it makes the value true.
LEMMA SendStep ==
    ASSUME TypeOK, Inv, NEW i \in {0, 1}, NEW l \in {"init", "finish"},
           pc["daemon"] \in {"create", "signals"}, pc'["daemon"] = l,
           i = 1 => l = "finish",
           Send(i)
    PROVE  ValueMeans' /\ AnswerOnce' /\ OneAnswer'
<1> USE DEF Late, Ended
<1>1. /\ \A k \in DOMAIN ret' :
            \/ k \in DOMAIN ret /\ ret'[k] = ret[k]
            \/ channel["daemon"] /\ ret'[k] = i
      /\ ~channel'["daemon"]
      /\ sent' # sent => channel["daemon"] /\ sent' = Append(sent, i)
  BY SendAdds
<1>2. ValueMeans'
  BY <1>1 DEF Inv, ValueMeans
<1>3. AnswerOnce'
  BY <1>1 DEF AnswerOnce
<1>4. OneAnswer'
  <2>1. CASE sent' = sent
    BY <2>1 DEF Inv, OneAnswer
  <2>2. CASE sent' # sent
    <3>1. sent' = Append(<<>>, i)
      BY <1>1, <2>2 DEF Inv, AnswerOnce
    <3>2. sent' = <<i>>
      BY <3>1
    <3>3. QED
      BY <3>2 DEF OneAnswer
  <2>3. QED
    BY <2>1, <2>2
<1>5. QED
  BY <1>2, <1>3, <1>4

LEMMA DaemonStep ==
    ASSUME TypeOK, Inv, Start \/ LeaveLoop \/ Finish PROVE Inv'
<1> USE DEF Locations, DaemonLocations, At, Gone, Late, Ended, NoResult
<1>1. CASE Announce
  <2>1. /\ pc["child"] = "exited" /\ pc["launcher"] \notin {"start", "fork"}
        /\ pc["daemon"] = "announce"
    BY <1>1 DEF Announce, Inv, Births
  <2>2. pidWriters \subseteq {"child", "daemon"} /\ "child" \notin pidWriters
    BY <2>1 DEF Inv, WritersAlive
  <2>3. PICK l \in {"create", "fail", "dead"} :
          /\ Goto("daemon", l)
          /\ l = "create" => pid' = Append(pid, Ok)
          /\ l # "create" => pid' = pid
          /\ l = "fail" => pidWriters' = pidWriters
          /\ l # "fail" => pidWriters' = pidWriters \ {"daemon"}
    BY <1>1 DEF Announce, CloseWriter
  <2>4. /\ pc'["daemon"] = l /\ pc'["child"] = "exited"
        /\ pc'["launcher"] = pc["launcher"]
    BY <2>1, <2>3, Moves
  <2>5. UNCHANGED <<ret, channel, result, sent>>
    BY <1>1 DEF Announce
  <2>6. WritersAlive' /\ Births'
    BY <2>1, <2>2, <2>3, <2>4 DEF Inv, WritersAlive, Births
  <2>7. PidMeans'
    <3>1. \A k \in DOMAIN pid' : k \notin DOMAIN pid \/ pid'[k] # pid[k] => pid'[k] = Ok
      BY <2>3, PidGrows
    <3>2. QED
      BY <2>1, <2>3, <2>4, <3>1 DEF Inv, PidMeans, Ok, Failed
  <2>8. PidStays'
    <3>1. l = "create" => Len(pid') = Len(pid) + 1
      BY <2>3, PidGrows
    <3>2. l = "create" => pid' # <<>>
      BY <3>1 DEF TypeOK
    <3>3. QED
      BY <2>3, <2>4, <3>2 DEF PidStays
  <2>9. ValueMeans' /\ AnswerOnce'
    BY <2>1, <2>4, <2>5 DEF Inv, ValueMeans, AnswerOnce
  <2>10. ResultLast' /\ StartedIsTrue' /\ FailedIsTrue' /\ OneAnswer'
    BY <2>1, <2>4, <2>5 DEF Inv, ResultLast, StartedIsTrue, FailedIsTrue, OneAnswer
  <2>11. QED
    BY <2>6, <2>7, <2>8, <2>9, <2>10 DEF Inv
<1>2. CASE Fail("daemon")
  BY <1>2, FailStep
<1>3. CASE CreatePidFile
  <2>1. CASE Goto("daemon", "signals") /\ UNCHANGED <<ret, channel, sent>>
    BY <1>3, <2>1, Moves DEF CreatePidFile, Inv, WritersAlive, Births, PidMeans,
       PidStays, ValueMeans, AnswerOnce, ResultLast, StartedIsTrue, FailedIsTrue, OneAnswer
  <2>2. CASE Goto("daemon", "finish") /\ Send(1)
    <3>1. ValueMeans' /\ AnswerOnce' /\ OneAnswer'
      BY <1>3, <2>2, Moves, SendStep DEF CreatePidFile
    <3>2. QED
      BY <1>3, <2>2, <3>1, Moves DEF CreatePidFile, Inv, WritersAlive, Births, PidMeans, PidStays,
         ResultLast, StartedIsTrue, FailedIsTrue
  <2>3. QED
    BY <1>3, <2>1, <2>2 DEF CreatePidFile
<1>4. CASE InitSignals
  <2>1. CASE Goto("daemon", "init") /\ Send(0)
    <3>1. ValueMeans' /\ AnswerOnce' /\ OneAnswer'
      BY <1>4, <2>1, Moves, SendStep DEF InitSignals
    <3>2. QED
      BY <1>4, <2>1, <3>1, Moves DEF InitSignals, Inv, WritersAlive, Births, PidMeans, PidStays,
         ResultLast, StartedIsTrue, FailedIsTrue
  <2>2. CASE Goto("daemon", "finish") /\ Send(1)
    <3>1. ValueMeans' /\ AnswerOnce' /\ OneAnswer'
      BY <1>4, <2>2, Moves, SendStep DEF InitSignals
    <3>2. QED
      BY <1>4, <2>2, <3>1, Moves DEF InitSignals, Inv, WritersAlive, Births, PidMeans, PidStays,
         ResultLast, StartedIsTrue, FailedIsTrue
  <2>3. QED
    BY <1>4, <2>1, <2>2 DEF InitSignals
<1>5. CASE InitDevices
  <2>1. PICK l \in {"running", "finish"} : Goto("daemon", l)
    BY <1>5 DEF InitDevices
  <2>2. QED
    BY <1>5, <2>1, Moves DEF InitDevices, Inv, WritersAlive, Births, PidMeans,
       PidStays, ValueMeans, AnswerOnce, ResultLast, StartedIsTrue, FailedIsTrue, OneAnswer
<1>6. CASE LeaveLoop
  BY <1>6, Moves DEF LeaveLoop, Inv, WritersAlive, Births, PidMeans,
     PidStays, ValueMeans, AnswerOnce, ResultLast, StartedIsTrue, FailedIsTrue, OneAnswer
<1>7. CASE Finish
  <2>1. UNCHANGED <<ret, channel, sent>>
    BY <1>7 DEF Finish, Send, Inv, AnswerOnce
  <2>2. QED
    BY <1>7, <2>1, Moves DEF Finish, Inv, WritersAlive, Births, PidMeans,
       PidStays, ValueMeans, AnswerOnce, ResultLast, StartedIsTrue, FailedIsTrue, OneAnswer
<1>8. QED
  BY <1>1, <1>2, <1>3, <1>4, <1>5, <1>6, <1>7 DEF Start

\* A process that dies closes its descriptors and changes nothing else.
LEMMA DieStep ==
    ASSUME TypeOK, Inv, NEW p \in Processes, Die(p) PROVE Inv'
<1> USE DEF Locations, At, Gone, Late, Ended, NoResult
<1>1. Goto(p, "dead") /\ "dead" \in Locations /\ pc[p] \notin Gone
  BY DEF Die, LauncherLocations
<1>2. /\ pc'[p] = "dead" /\ pc[p] \notin Gone
      /\ \A q \in Processes \ {p} : pc'[q] = pc[q]
      /\ pidWriters' = pidWriters \ {p}
      /\ UNCHANGED <<pid, ret, channel, result, sent>>
  BY <1>1, GotoMoves DEF Die, CloseWriter
<1>3. CASE p = "launcher"
  BY <1>2, <1>3 DEF Processes, Inv, WritersAlive, Births, PidMeans,
     PidStays, ValueMeans, AnswerOnce, ResultLast, StartedIsTrue, FailedIsTrue, OneAnswer
<1>4. CASE p = "child"
  BY <1>2, <1>4 DEF Processes, Inv, WritersAlive, Births, PidMeans,
     PidStays, ValueMeans, AnswerOnce, ResultLast, StartedIsTrue, FailedIsTrue, OneAnswer
<1>5. CASE p = "daemon"
  BY <1>2, <1>5 DEF Processes, Inv, WritersAlive, Births, PidMeans,
     PidStays, ValueMeans, AnswerOnce, ResultLast, StartedIsTrue, FailedIsTrue, OneAnswer
<1>6. QED
  BY <1>3, <1>4, <1>5 DEF Processes

\* The inductive invariant: what the pipes contain is true of the two processes
\* that write to them.
THEOREM InvCorrect == Spec => []Inv
<1>1. Init => Inv
  BY DEF Init, Inv, Processes, NoResult, Gone, Late, Ended, WritersAlive, Births, PidMeans,
     PidStays, ValueMeans, AnswerOnce, ResultLast, StartedIsTrue, FailedIsTrue, OneAnswer
<1>2. TypeOK /\ Inv /\ [Next]_vars => Inv'
  <2> SUFFICES ASSUME TypeOK, Inv, [Next]_vars PROVE Inv'
    OBVIOUS
  <2>1. CASE UNCHANGED vars
    BY <2>1 DEF vars, Inv, At, Gone, Late, Ended, WritersAlive, Births, PidMeans,
       PidStays, ValueMeans, AnswerOnce, ResultLast, StartedIsTrue, FailedIsTrue, OneAnswer
  <2>2. CASE Next
    BY <2>2, LauncherStep, ChildStep, DaemonStep, DieStep DEF Next
  <2>3. QED
    BY <2>1, <2>2
<1>3. QED
  BY <1>1, <1>2, TypeCorrect, PTL DEF Spec

\* "Daemon started." is never reported of a daemon that does not own the PID
\* file or cannot be stopped yet.
THEOREM StartedCorrect == Spec => []StartedIsTrue
<1>1. Inv => StartedIsTrue
  BY DEF Inv
<1>2. QED
  BY <1>1, InvCorrect, PTL

\* A failure is never reported of a daemon that is or will be in service.
THEOREM FailedCorrect == Spec => []FailedIsTrue
<1>1. Inv => FailedIsTrue
  BY DEF Inv
<1>2. QED
  BY <1>1, InvCorrect, PTL

\* daemon_retval_send() reaches the launcher once, and never with -1.
THEOREM OneAnswerCorrect == Spec => []OneAnswer
<1>1. Inv => OneAnswer
  BY DEF Inv
<1>2. QED
  BY <1>1, InvCorrect, PTL

\* While the launcher waits for a pid somebody is alive to write one.
THEOREM PidComesCorrect == Spec => []PidComes
<1>1. Inv => PidComes
  BY DEF Inv, WritersAlive, PidComes, Gone
<1>2. QED
  BY <1>1, InvCorrect, PTL
=============================================================================
