-------------------------- MODULE PublishingProofs --------------------------
(***************************************************************************)
(* Proofs about Publishing, for requests and replies of any size: what the *)
(* lengths accept is one whole reply unless the line garbled the answer,   *)
(* the pointer to it leads to what was accepted, descriptors are returned, *)
(* and the voltage is that of the register.                                *)
(***************************************************************************)
EXTENDS Publishing, SequenceTheorems, FiniteSetTheorems, TLAPS

Labels == {"idle", "check", "crashed"} \cup Publishing \cup Measuring \cup Showing

\* What of the type the invariants below rest on.
Typed ==
    /\ at \in [Threads -> Labels]
    /\ at["mqtt"] \notin {"check"} \cup Measuring \cup Showing
    /\ At("main", "crashed") <=> At("mqtt", "crashed")
    /\ fds \in Nat
    /\ line \in Seq(Nat)
    /\ reply \in Contents
    /\ result \in [Threads -> {"NULL", "reply"}] /\ faraday_reply \in {"NULL", "reply"}
    /\ sensor \in BusWords \cup {0}
-----------------------------------------------------------------------------
(* The invariants.                                                         *)

\* Only a caller that found the timer expired with nothing on the line may set
\* it again, and a publication that nobody joined is alone.
TimerInv ==
    /\ due => line = <<>> /\ \A t \in Threads : Inside(t) => At(t, "stamp")
    /\ ~shared => ~(Inside("main") /\ Inside("mqtt"))

\* The answers that are not garbled: losses alone, or one that begins as it should.
Answers == {echo \o once : echo \in Echoes, once \in Replies}
               \cup {(Echo \o Reply) \o again : again \in Replies}

\* What can be on the line when the reply is read: too little, or a reply first.
StartsWithReply == Len(line) >= ReplySize /\ \A i \in 1..ReplySize : line[i] = i

LineInv ==
    \A t \in Threads :
        /\ At(t, "request") \/ At(t, "echo") \/ At(t, "reply") \/ At(t, "close") =>
               psu \in Supplies
        /\ ~shared /\ at[t] \in {"stamp", "choose", "open", "request"} => line = <<>>
        /\ ~shared /\ ~garbled /\ At(t, "echo") => line \in Answers
        /\ ~shared /\ ~garbled /\ At(t, "reply") => Len(line) < ReplySize \/ StartsWithReply

\* What read_faraday_data() returned, and what is behind the pointers.
Backed(pointer) == pointer = "reply" => reply = "reply" \/ garbled

ResultInv ==
    \A t \in Threads :
        /\ at[t] \notin {"close", "assign", "crashed"} => result[t] = "NULL"
        /\ ~shared /\ at[t] \in {"close", "assign"} => Backed(result[t])
        /\ ~shared /\ at[t] \in {"test", "print"} => Backed(faraday_reply)
        /\ ~shared /\ At(t, "use") => Loaded

\* Between publications the pointer is good; the page is composed between them
\* unless the MQTT thread published meanwhile.
Quiet == ~Inside("main") /\ ~Inside("mqtt")

DisplayInv ==
    /\ ~shared /\ ~ina /\ Quiet => Backed(faraday_reply)
    /\ at["main"] \in Showing /\ ~watched => ~Inside("mqtt")
    /\ \A t \in Threads : At(t, "choose") => ina
    /\ At("main", "deref") => ~ina
    /\ At("main", "deref") /\ ~watched => faraday_reply = "reply"

\* The port is open in the threads that read from it.
Reading(t) == IF at[t] \in Asking THEN 1 ELSE 0

FdsInv == psu \in Supplies /\ ~At("main", "crashed") => fds = Reading("main") + Reading("mqtt")

Inv == TimerInv /\ LineInv /\ ResultInv /\ DisplayInv /\ FdsInv /\ VoltageMeasured
-----------------------------------------------------------------------------
(* Words.                                                                  *)

\* 16 bits.
LEMMA SizeFacts == WordSize \in Nat /\ WordSize = 65536 /\ WordSize \div 2 = 32768
<1>1. 2^16 = 65536
  OBVIOUS
<1>2. WordSize = 65536
  BY <1>1 DEF WordSize
<1>3. QED
  BY <1>2

\* The values of a word, without the interval.
LEMMA WordFacts == \A word \in Word : word \in Int /\ 0 <= word /\ word <= 65535
<1>1. \A word \in Word : word \in Int /\ 0 <= word /\ word <= WordSize - 1
  BY SizeFacts DEF Word
<1>2. QED
  BY <1>1, SizeFacts

\* The swap undoes the order in which the bytes of a register arrive.
LEMMA SwapUndone == \A word \in Word : SwapBytes(OnTheBus(word)) = word
<1> SUFFICES ASSUME NEW word \in Int, 0 <= word, word <= 65535
             PROVE  SwapBytes(OnTheBus(word)) = word
  BY WordFacts
<1>1. PICK high \in Int, low \in Int :
          /\ high = word \div 256 /\ low = word % 256
          /\ 0 <= low /\ low < 256 /\ 0 <= high
          /\ word = (256 * high) + low
  <2> DEFINE h == word \div 256
             l == word % 256
  <2>1. h \in Int /\ l \in Int /\ 0 <= l /\ l < 256 /\ 0 <= h /\ word = (256 * h) + l
    OBVIOUS
  <2>2. QED
    BY <2>1
<1>2. (high + (256 * low)) \div 256 = low
  <2>1. high < 256
    BY <1>1
  <2>2. QED
    BY <1>1, <2>1
<1>3. (256 * (high + (256 * low))) + low = word + (65536 * low)
  BY <1>1
<1>4. (word + (65536 * low)) % 65536 = word
  BY <1>1
<1>5. OnTheBus(word) = high + (256 * low)
  BY <1>1 DEF OnTheBus
<1>6. SwapBytes(high + (256 * low)) =
          ((256 * (high + (256 * low))) + ((high + (256 * low)) \div 256)) % 65536
  BY SizeFacts DEF SwapBytes
<1>7. QED
  BY <1>2, <1>3, <1>4, <1>5, <1>6

\* The signed shift is right up to 16.383 V and 32.768 V too low above.
LEMMA ShiftFacts ==
    ASSUME NEW word \in Word
    PROVE  LET true == 4 * (word \div 8)
           IN  BusMillivolts(word) = IF true < 16384 THEN true ELSE true - 32768
<1>1. word \in Int /\ 0 <= word /\ word <= 65535
  BY WordFacts
<1>2. CASE word < 32768
  <2>1. BusMillivolts(word) = 4 * (word \div 8)
    BY <1>1, <1>2, SizeFacts DEF BusMillivolts, Int16
  <2>2. 4 * (word \div 8) < 16384
    BY <1>1, <1>2
  <2>3. QED
    BY <2>1, <2>2
<1>3. CASE word >= 32768
  <2>1. BusMillivolts(word) = 4 * ((word - 65536) \div 8)
    BY <1>1, <1>3, SizeFacts DEF BusMillivolts, Int16
  <2>2. 4 * ((word - 65536) \div 8) = (4 * (word \div 8)) - 32768 /\ 4 * (word \div 8) >= 16384
    BY <1>1, <1>3
  <2>3. QED
    BY <1>1, <2>1, <2>2
<1>4. QED
  BY <1>1, <1>2, <1>3
-----------------------------------------------------------------------------
(* The line.                                                               *)

\* What is left without the first n bytes.
LEMMA WithoutFacts ==
    ASSUME NEW s \in Seq(Nat), NEW n \in 0..Len(s)
    PROVE  /\ SubSeq(s, n + 1, Len(s)) \in Seq(Nat)
           /\ Len(SubSeq(s, n + 1, Len(s))) = Len(s) - n
           /\ \A i \in 1..(Len(s) - n) : SubSeq(s, n + 1, Len(s))[i] = s[n + i]
<1>1. n \in Nat /\ Len(s) \in Nat /\ n <= Len(s)
  OBVIOUS
<1>2. \A i \in (n + 1)..Len(s) : s[i] \in Nat
  BY <1>1
<1> DEFINE a == n + 1
           z == Len(s)
           rest == SubSeq(s, a, z)
<1>3. a \in Int /\ z \in Int /\ a <= z + 1 /\ n = a - 1
  BY <1>1
<1>4. /\ rest \in Seq(Nat)
      /\ Len(rest) = IF a <= z THEN z - a + 1 ELSE 0
      /\ \A i \in 1..(z - a + 1) : rest[i] = s[a + i - 1]
  <2> HIDE DEF a, z
  <2>1. \A i \in a..z : s[i] \in Nat
    BY <1>2 DEF a, z
  <2>2. QED
    BY <1>3, <2>1, SubSeqProperties
<1> HIDE DEF rest
<1>5. Len(rest) = Len(s) - n
  BY <1>1, <1>4
<1>6. ASSUME NEW i \in 1..(Len(s) - n)
      PROVE  rest[i] = s[n + i]
  <2>1. i \in 1..(z - a + 1) /\ a + i - 1 = n + i
    BY <1>1
  <2>2. QED
    BY <1>4, <2>1
<1>7. QED
  BY <1>4, <1>5, <1>6 DEF rest

\* One sequence after the other.
LEMMA JoinedFacts ==
    ASSUME NEW s \in Seq(Nat), NEW t \in Seq(Nat)
    PROVE  /\ s \o t \in Seq(Nat) /\ Len(s \o t) = Len(s) + Len(t)
           /\ \A i \in 1..Len(s) : (s \o t)[i] = s[i]
           /\ \A i \in 1..Len(t) : (s \o t)[Len(s) + i] = t[i]
  OBVIOUS

\* An echo and a reply are sequences of bytes, and whole when they are long enough.
LEMMA AnswerTypes ==
    ASSUME psu \in Supplies
    PROVE  /\ CmdSize[psu] \in Nat \ {0} /\ ReplySize \in Nat \ {0, 1}
           /\ Echo \in Seq(Nat) /\ Len(Echo) = CmdSize[psu]
           /\ Reply \in Seq(Nat) /\ Len(Reply) = ReplySize
           /\ \A e \in Echoes : /\ e \in Seq(Nat) /\ Len(e) <= CmdSize[psu]
                                /\ Len(e) = CmdSize[psu] => e = Echo
           /\ \A s \in Replies : /\ s \in Seq(Nat) /\ Len(s) <= ReplySize
                                 /\ Len(s) = ReplySize => s = Reply
<1>1. CmdSize[psu] \in Nat \ {0} /\ ReplySize \in Nat \ {0, 1}
  BY SizesAssumption
<1>2. Echo \in Seq(Nat) /\ Len(Echo) = CmdSize[psu]
  BY <1>1 DEF Echo
<1>3. Reply \in Seq(Nat) /\ Len(Reply) = ReplySize
  BY <1>1 DEF Reply
<1>4. ASSUME NEW e \in Echoes
      PROVE  /\ e \in Seq(Nat) /\ Len(e) <= CmdSize[psu]
             /\ Len(e) = CmdSize[psu] => e = Echo
  <2>1. PICK n \in 0..CmdSize[psu] : e = [i \in 1..n |-> 0]
    BY DEF Echoes
  <2>2. e \in Seq(Nat) /\ Len(e) = n
    BY <1>1, <2>1
  <2>3. QED
    BY <1>1, <2>1, <2>2 DEF Echo
<1>5. ASSUME NEW s \in Replies
      PROVE  /\ s \in Seq(Nat) /\ Len(s) <= ReplySize
             /\ Len(s) = ReplySize => s = Reply
  <2>1. CASE s = Reply
    BY <1>1, <1>3, <2>1
  <2>2. CASE \E n \in 0..(ReplySize - 1) : s \in [1..n -> 1..ReplySize]
    <3>1. PICK n \in 0..(ReplySize - 1) : s \in [1..n -> 1..ReplySize]
      BY <2>2
    <3>2. s \in Seq(Nat) /\ Len(s) = n
      BY <1>1, <3>1
    <3>3. QED
      BY <1>1, <3>2
  <2>3. QED
    BY <2>1, <2>2 DEF Replies
<1>6. QED
  BY <1>1, <1>2, <1>3, <1>4, <1>5

\* A read takes what is there.
LEMMA ReadFacts ==
    ASSUME line \in Seq(Nat), NEW size \in Nat, NEW n \in Arrived(size)
    PROVE  n \in Nat /\ n <= size /\ n <= Len(line) /\ Without(n) \in Seq(Nat)
<1>1. n \in Nat /\ n <= size /\ n \in 0..Len(line)
  BY DEF Arrived
<1>2. QED
  BY <1>1, WithoutFacts DEF Without

\* What is left of an answer after as many bytes as the echo has: when bytes were
\* lost, wherever, it is too little.
LEMMA AfterEcho ==
    ASSUME psu \in Supplies, line \in Answers, CmdSize[psu] <= Len(line)
    PROVE  LET rest == Without(CmdSize[psu])
           IN  \/ Len(rest) < ReplySize
               \/ Len(rest) >= ReplySize /\ \A i \in 1..ReplySize : rest[i] = i
<1> DEFINE c == CmdSize[psu]
           whole == Echo \o Reply
           rest == Without(c)
<1>1. /\ c \in Nat \ {0} /\ ReplySize \in Nat \ {0, 1}
      /\ Echo \in Seq(Nat) /\ Len(Echo) = c
      /\ Reply \in Seq(Nat) /\ Len(Reply) = ReplySize
      /\ \A e \in Echoes : e \in Seq(Nat) /\ Len(e) <= c /\ (Len(e) = c => e = Echo)
      /\ \A s \in Replies : /\ s \in Seq(Nat) /\ Len(s) <= ReplySize
                            /\ Len(s) = ReplySize => s = Reply
      /\ c <= Len(line)
  BY AnswerTypes
<1>2. \/ \E echo \in Echoes, once \in Replies : line = echo \o once
      \/ \E again \in Replies : line = whole \o again
  BY DEF Answers
<1>3. /\ rest = SubSeq(line, c + 1, Len(line))
      /\ whole = Echo \o Reply
  BY DEF Without
<1> SUFFICES \/ Len(rest) < ReplySize
             \/ Len(rest) >= ReplySize /\ \A i \in 1..ReplySize : rest[i] = i
  OBVIOUS
<1> HIDE DEF c, whole, rest
<1>4. /\ whole \in Seq(Nat) /\ Len(whole) = c + ReplySize
      /\ \A i \in 1..ReplySize : whole[c + i] = i
  <2>1. \A i \in 1..ReplySize : Reply[i] = i
    BY DEF Reply
  <2>2. /\ whole \in Seq(Nat) /\ Len(whole) = c + ReplySize
        /\ \A i \in 1..Len(Reply) : whole[c + i] = Reply[i]
    BY <1>1, <1>3, JoinedFacts
  <2>3. QED
    BY <1>1, <2>1, <2>2
<1>5. /\ line \in Seq(Nat)
      /\ \/ Len(line) < c + ReplySize
         \/ /\ Len(line) >= c + ReplySize
            /\ \A i \in 1..(c + ReplySize) : line[i] = whole[i]
  <2>1. CASE \E echo \in Echoes, once \in Replies : line = echo \o once
    <3>1. PICK echo \in Echoes, once \in Replies : line = echo \o once
      BY <2>1
    <3>2. /\ echo \in Seq(Nat) /\ Len(echo) <= c /\ (Len(echo) = c => echo = Echo)
          /\ once \in Seq(Nat) /\ Len(once) <= ReplySize /\ (Len(once) = ReplySize => once = Reply)
      BY <1>1
    <3>3. echo \o once \in Seq(Nat) /\ Len(echo \o once) = Len(echo) + Len(once)
      BY <3>2, JoinedFacts
    <3>4. line \in Seq(Nat) /\ Len(line) = Len(echo) + Len(once)
      BY <3>1, <3>3
    <3>5. CASE Len(echo) = c /\ Len(once) = ReplySize
      BY <1>1, <1>3, <3>1, <3>2, <3>4, <3>5
    <3>6. CASE Len(echo) # c \/ Len(once) # ReplySize
      <4>1. Len(echo) \in Nat /\ Len(once) \in Nat
        BY <3>2
      <4>2. QED
        BY <1>1, <3>2, <3>4, <3>6, <4>1
    <3>7. QED
      BY <3>5, <3>6
  <2>2. CASE \E again \in Replies : line = whole \o again
    <3>1. PICK again \in Replies : line = whole \o again
      BY <2>2
    <3>2. /\ whole \o again \in Seq(Nat) /\ Len(whole \o again) = Len(whole) + Len(again)
          /\ \A i \in 1..Len(whole) : (whole \o again)[i] = whole[i]
      BY <1>1, <1>4, JoinedFacts
    <3>3. /\ line \in Seq(Nat) /\ Len(line) = Len(whole) + Len(again)
          /\ \A i \in 1..Len(whole) : line[i] = whole[i]
      BY <3>1, <3>2, Zenon
    <3>4. Len(again) \in Nat
      BY <1>1
    <3>5. QED
      BY <1>1, <1>4, <3>3, <3>4
  <2>3. QED
    BY <1>2, <2>1, <2>2
<1>6. /\ Len(rest) = Len(line) - c
      /\ \A i \in 1..(Len(line) - c) : rest[i] = line[c + i]
  <2>1. c \in 0..Len(line)
    BY <1>1
  <2>2. QED
    BY <1>3, <1>5, <2>1, WithoutFacts
<1>7. CASE Len(line) < c + ReplySize
  BY <1>1, <1>5, <1>6, <1>7
<1>8. CASE Len(line) >= c + ReplySize /\ \A i \in 1..(c + ReplySize) : line[i] = whole[i]
  <2>1. Len(rest) >= ReplySize
    BY <1>1, <1>5, <1>6, <1>8
  <2>2. ASSUME NEW i \in 1..ReplySize PROVE rest[i] = i
    <3>1. i \in 1..(Len(line) - c) /\ c + i \in 1..(c + ReplySize)
      BY <1>1, <1>5, <1>8
    <3>2. QED
      BY <1>4, <1>6, <1>8, <3>1
  <2>3. QED
    BY <2>1, <2>2
<1>9. QED
  BY <1>5, <1>7, <1>8

\* The lengths that are accepted are at least that of a reply.
LEMMA AcceptableFacts ==
    ASSUME NEW n \in Nat, Acceptable(n), ReplySize \in Nat \ {0}
    PROVE  n >= ReplySize
  BY DEF Acceptable

\* A line that starts with a reply yields one.
LEMMA ContentFacts ==
    ASSUME line \in Seq(Nat), ReplySize \in Nat \ {0, 1}, StartsWithReply
    PROVE  Content = "reply"
<1>1. Len(Reply) = ReplySize /\ Reply \in Seq(Nat) /\ \A i \in 1..ReplySize : Reply[i] = i
  BY DEF Reply
<1>2. /\ SubSeq(Reply, 1, ReplySize) \in Seq(Nat) /\ Len(SubSeq(Reply, 1, ReplySize)) = ReplySize
      /\ SubSeq(line, 1, ReplySize) \in Seq(Nat) /\ Len(SubSeq(line, 1, ReplySize)) = ReplySize
      /\ \A i \in 1..ReplySize : /\ SubSeq(Reply, 1, ReplySize)[i] = Reply[i]
                                 /\ SubSeq(line, 1, ReplySize)[i] = line[i]
  BY <1>1 DEF StartsWithReply
<1>3. SubSeq(Reply, 1, ReplySize) = SubSeq(line, 1, ReplySize)
  <2> DEFINE a == SubSeq(Reply, 1, ReplySize)
             b == SubSeq(line, 1, ReplySize)
  <2>1. \A i \in 1..Len(a) : a[i] = b[i]
    BY <1>1, <1>2 DEF StartsWithReply
  <2> HIDE DEF a, b
  <2>2. a \in Seq(Nat) /\ b \in Seq(Nat) /\ Len(a) = Len(b)
    BY <1>2 DEF a, b
  <2>3. a = b
    BY <2>1, <2>2, SeqEqual
  <2>4. QED
    BY <2>3 DEF a, b
<1>4. QED
  BY <1>1, <1>3 DEF Content, IsPrefix, StartsWithReply
-----------------------------------------------------------------------------
(* The types.                                                              *)

\* What of the type nothing else rests on: no descriptor is opened beyond the limit
\* of the process, a supply that is not given included.
RestInv ==
    /\ psu \in Supplies \cup {"unknown"} /\ ina \in BOOLEAN
    /\ due \in BOOLEAN /\ shared \in BOOLEAN /\ garbled \in BOOLEAN /\ watched \in BOOLEAN
    /\ fds <= MaxFds
    /\ ina_current \subseteq {"amperes"}

\* A publication, but for its first and its last step, keeps the flags.
LEMMA FlagsKept ==
    ASSUME NEW t \in Threads, Publish(t)
    PROVE  /\ UNCHANGED <<psu, ina, ina_current, shared>>
           /\ due' = due \/ due' = FALSE
           /\ watched' = watched \/ watched' \in BOOLEAN
           /\ garbled' = garbled \/ garbled' \in BOOLEAN
           /\ fds' = fds \/ fds' = fds - 1 \/ (fds < MaxFds /\ fds' = fds + 1)
<1>1. UNCHANGED <<psu, ina, ina_current, shared>>
  BY DEF Publish, StampTimer, Choose, Open, Request, ReadEcho, ReadReply, Close, AssignReply,
     TestReply, UseReply, SendState, config, meter, history
<1>2. due' = due \/ due' = FALSE
  BY DEF Publish, StampTimer, Choose, Open, Request, ReadEcho, ReadReply, Close, AssignReply,
     TestReply, UseReply, SendState
<1>3. fds' = fds \/ fds' = fds - 1 \/ (fds < MaxFds /\ fds' = fds + 1)
  BY DEF Publish, StampTimer, Choose, Open, Request, ReadEcho, ReadReply, Close, AssignReply,
     TestReply, UseReply, SendState, port
<1>4. watched' = watched \/ watched' \in BOOLEAN
  <2>1. CASE Choose(t) \/ SendState(t)
    <3>1. watched' = watched \/ watched' = (at["mqtt"] \in Publishing)
      BY <2>1, Zenon DEF Choose, SendState, Leave, Inside
    <3>2. CASE at["mqtt"] \in Publishing
      BY <3>1, <3>2, Zenon
    <3>3. CASE ~(at["mqtt"] \in Publishing)
      <4>1. (at["mqtt"] \in Publishing) = FALSE
        BY <3>3
      <4>2. QED
        BY <3>1, <4>1, Zenon
    <3>4. QED
      BY <3>2, <3>3, Zenon
  <2>2. CASE ~(Choose(t) \/ SendState(t))
    BY <2>2 DEF Publish, StampTimer, Open, Request, ReadEcho, ReadReply, Close, AssignReply,
       TestReply, UseReply, history
  <2>3. QED
    BY <2>1, <2>2
<1>5. garbled' = garbled \/ garbled' \in BOOLEAN
  <2>1. CASE Request(t)
    <3>1. \E echo \in Echoes, once, again \in Replies :
              garbled' = (again # <<>> /\ (echo # Echo \/ once # Reply))
      BY <2>1, Zenon DEF Request
    <3>2. PICK echo \in Echoes, once \in Replies, again \in Replies :
              garbled' = (again # <<>> /\ (echo # Echo \/ once # Reply))
      BY <3>1, Zenon
    <3>3. \/ (again # <<>> /\ (echo # Echo \/ once # Reply)) = TRUE
          \/ (again # <<>> /\ (echo # Echo \/ once # Reply)) = FALSE
      OBVIOUS
    <3>4. QED
      BY <3>2, <3>3, Zenon
  <2>2. CASE ~Request(t)
    BY <2>2 DEF Publish, StampTimer, Choose, Open, ReadEcho, ReadReply, Close, AssignReply,
       TestReply, UseReply, SendState, history
  <2>3. QED
    BY <2>1, <2>2
<1>6. QED
  BY <1>1, <1>2, <1>3, <1>4, <1>5, Zenon

LEMMA RestStep ==
    ASSUME Typed, RestInv, [Next]_vars
    PROVE  RestInv'
<1>1. fds \in Nat /\ MaxFds \in Nat
  BY FdsAssumption DEF Typed
<1>2. ASSUME NEW t \in Threads, Publish(t)
      PROVE  RestInv'
  <2>1. /\ UNCHANGED <<psu, ina, ina_current, shared>>
        /\ due' = due \/ due' = FALSE
        /\ watched' = watched \/ watched' \in BOOLEAN
        /\ garbled' = garbled \/ garbled' \in BOOLEAN
        /\ fds' = fds \/ fds' = fds - 1 \/ (fds < MaxFds /\ fds' = fds + 1)
    BY <1>2, FlagsKept
  <2>2. fds <= MaxFds
    BY DEF RestInv
  <2>3. fds' <= MaxFds
    BY <1>1, <2>1, <2>2
  <2>4. due' \in BOOLEAN /\ watched' \in BOOLEAN /\ shared' \in BOOLEAN /\ garbled' \in BOOLEAN
    BY <2>1, Zenon DEF RestInv
  <2>5. QED
    BY <2>1, <2>3, <2>4, Zenon DEF RestInv
<1>3. ASSUME NEW t \in Threads, CheckTimer(t)
      PROVE  RestInv'
  <2>1. UNCHANGED <<psu, ina, ina_current, due, fds, garbled>>
    BY <1>3 DEF CheckTimer, config, meter, port
  <2>2. shared' \in BOOLEAN
    <3>1. shared' = shared \/ shared' = (at[Other(t)] \in Publishing)
      BY <1>3, Zenon DEF CheckTimer, Inside
    <3>2. (at[Other(t)] \in Publishing) = TRUE \/ (at[Other(t)] \in Publishing) = FALSE
      OBVIOUS
    <3>3. QED
      BY <3>1, <3>2, Zenon DEF RestInv
  <2>3. watched' \in BOOLEAN
    <3>1. \/ watched' = watched
          \/ watched' = (watched \/ (t = "mqtt" /\ at["main"] \in Showing))
          \/ watched' = (at["mqtt"] \in Publishing)
      BY <1>3, Zenon DEF CheckTimer, Leave, Inside
    <3>2. (at["mqtt"] \in Publishing) = TRUE \/ (at["mqtt"] \in Publishing) = FALSE
      OBVIOUS
    <3>3. \/ (watched \/ (t = "mqtt" /\ at["main"] \in Showing)) = TRUE
          \/ (watched \/ (t = "mqtt" /\ at["main"] \in Showing)) = FALSE
      OBVIOUS
    <3>4. QED
      BY <3>1, <3>2, <3>3, Zenon DEF RestInv
  <2>4. QED
    BY <2>1, <2>2, <2>3, Zenon DEF RestInv
<1>4. CASE MeasureCurrent
  <2>1. UNCHANGED <<psu, ina, due, fds, shared, garbled, watched>> /\ ina_current' \in {{}, {"amperes"}}
    BY <1>4 DEF MeasureCurrent, config, port, history
  <2>2. QED
    BY <2>1, Zenon DEF RestInv
<1>5. CASE IntervalPasses
  <2>1. UNCHANGED <<psu, ina, ina_current, fds, shared, garbled, watched>> /\ due' = TRUE
    BY <1>5 DEF IntervalPasses, config, meter, history
  <2>2. QED
    BY <2>1, Zenon DEF RestInv
<1>6. CASE BeginRound \/ MeasureVoltage \/ BusFails \/ TestShown \/ ShowVoltage \/ Convert
           \/ Over \/ UNCHANGED vars
  <2>1. UNCHANGED <<psu, ina, ina_current, due, fds, shared, garbled, watched>>
    BY <1>6 DEF BeginRound, MeasureVoltage, BusFails, TestShown, ShowVoltage, Convert, Over, vars,
       config, port, meter, history
  <2>2. QED
    BY <2>1, Zenon DEF RestInv
<1>7. QED
  BY <1>2, <1>3, <1>4, <1>5, <1>6 DEF Next, Main, Threads
-----------------------------------------------------------------------------
(* The steps of a publication.                                             *)

\* From here on the places are seen through.
USE DEF At, Inside, Other, Threads, Labels, Publishing, Asking, Measuring, Showing,
        config, port, memory, meter, history

\* Who sets the timer again was alone with it, or shares the publication.
LEMMA StampTimerStep ==
    ASSUME Typed, Inv, NEW t \in Threads, StampTimer(t)
    PROVE  Typed' /\ Inv'
<1> USE DEF StampTimer, Goto, Inv
<1>1. Typed'
  BY DEF Typed
<1>2. TimerInv' /\ LineInv'
  BY <1>1 DEF Typed, TimerInv, LineInv
<1>3. ResultInv' /\ DisplayInv'
  BY <1>1 DEF Typed, TimerInv, ResultInv, Backed, Loaded, Quiet, DisplayInv
<1>4. FdsInv' /\ VoltageMeasured'
  BY <1>1 DEF Typed, FdsInv, Reading, VoltageMeasured
<1>5. QED
  BY <1>1, <1>2, <1>3, <1>4

\* The port is opened, and stays open under an unknown supply.
LEMMA OpenStep ==
    ASSUME Typed, Inv, NEW t \in Threads, Open(t)
    PROVE  Typed' /\ Inv'
<1> USE DEF Open, Goto, Return, Inv
<1>1. Typed'
  BY DEF Typed
<1>2. TimerInv' /\ LineInv'
  BY <1>1 DEF Typed, TimerInv, LineInv
<1>3. ResultInv' /\ DisplayInv'
  BY <1>1 DEF Typed, TimerInv, ResultInv, Backed, Loaded, Quiet, DisplayInv
<1>4. FdsInv' /\ VoltageMeasured'
  BY <1>1 DEF Typed, FdsInv, Reading, VoltageMeasured, Supplies
<1>5. QED
  BY <1>1, <1>2, <1>3, <1>4

\* What is read as an echo answers the one request there was.
LEMMA RequestStep ==
    ASSUME Typed, Inv, NEW t \in Threads, Request(t)
    PROVE  Typed' /\ Inv'
<1> USE DEF Goto, Inv
<1>1. PICK echo \in Echoes, once \in Replies, again \in Replies :
          /\ line' = line \o (echo \o once \o again)
          /\ garbled' = (again # <<>> /\ (echo # Echo \/ once # Reply))
  BY DEF Request
<1> DEFINE answer == echo \o once \o again
<1>2. /\ psu \in Supplies /\ answer \in Seq(Nat)
      /\ ~garbled' => answer \in Answers
  <2>1. psu \in Supplies
    BY DEF Request, LineInv
  <2>2. echo \in Seq(Nat) /\ once \in Seq(Nat) /\ again \in Seq(Nat)
    BY <2>1, AnswerTypes
  <2>3. echo \o once \in Seq(Nat)
    BY <2>2, ConcatProperties
  <2>4. answer \in Seq(Nat) /\ (again = <<>> => answer = echo \o once)
    BY <2>2, <2>3, ConcatProperties, ConcatEmptySeq
  <2>5. again = <<>> => answer \in Answers
    <3>1. echo \o once \in Answers
      BY DEF Answers
    <3>2. QED
      BY <2>4, <3>1
  <2>6. echo = Echo /\ once = Reply => answer \in Answers
    <3>1. (Echo \o Reply) \o again \in Answers
      BY DEF Answers
    <3>2. QED
      BY <3>1
  <2>7. QED
    BY <1>1, <2>1, <2>4, <2>5, <2>6
<1> HIDE DEF answer
<1>9. line' = line \o answer
  BY <1>1 DEF answer
<1>3. Typed'
  <2>1. line' \in Seq(Nat)
    BY <1>2, <1>9, ConcatProperties DEF Typed
  <2>2. QED
    BY <2>1 DEF Request, Typed, Contents
<1>4. TimerInv'
  BY <1>3 DEF Request, Typed, TimerInv
<1>5. LineInv'
  <2>1. ~shared /\ ~garbled' => line' \in Answers
    BY <1>2, <1>9, ConcatEmptySeq DEF Request, LineInv
  <2>2. Answers' = Answers
    BY DEF Request, Answers, Echoes, Replies, InOrder, Echo, Reply
  <2>3. QED
    BY <1>3, <2>1, <2>2 DEF Request, Typed, TimerInv, LineInv
<1>6. ResultInv' /\ DisplayInv'
  BY <1>3 DEF Request, Typed, TimerInv, ResultInv, Backed, Loaded, Quiet, DisplayInv
<1>7. FdsInv' /\ VoltageMeasured'
  BY <1>3 DEF Request, Typed, FdsInv, Reading, VoltageMeasured
<1>8. QED
  BY <1>3, <1>4, <1>5, <1>6, <1>7

\* What is left after the echo is too little for a reply, or a reply first.
LEMMA ReadEchoStep ==
    ASSUME Typed, Inv, NEW t \in Threads, ReadEcho(t)
    PROVE  Typed' /\ Inv'
<1> USE DEF Goto, Return, GiveUp, Inv
<1>1. PICK n \in Arrived(CmdSize[psu]) :
          /\ line' = Without(n)
          /\ IF n = CmdSize[psu] THEN Goto(t, "reply") /\ UNCHANGED result ELSE GiveUp(t)
  BY DEF ReadEcho
<1>2. psu \in Supplies /\ CmdSize[psu] \in Nat /\ n <= Len(line) /\ line' \in Seq(Nat)
  BY <1>1, SizesAssumption, ReadFacts DEF ReadEcho, LineInv, Typed
<1>3. Typed'
  BY <1>1, <1>2 DEF ReadEcho, Typed
<1>4. TimerInv'
  BY <1>1, <1>3 DEF ReadEcho, Typed, TimerInv
<1>5. LineInv'
  <2>1. CASE n = CmdSize[psu] /\ ~shared /\ ~garbled
    <3>1. Len(line') < ReplySize \/ StartsWithReply'
      BY <1>1, <1>2, <2>1, AfterEcho DEF ReadEcho, LineInv, StartsWithReply
    <3>2. QED
      BY <1>1, <1>2, <1>3, <2>1, <3>1 DEF ReadEcho, Typed, TimerInv, LineInv
  <2>2. CASE n # CmdSize[psu] \/ shared \/ garbled
    BY <1>1, <1>2, <1>3, <2>2 DEF ReadEcho, Typed, TimerInv, LineInv
  <2>3. QED
    BY <2>1, <2>2
<1>6. ResultInv' /\ DisplayInv'
  BY <1>1, <1>3 DEF ReadEcho, Typed, TimerInv, ResultInv, Backed, Loaded, Quiet, DisplayInv
<1>7. FdsInv' /\ VoltageMeasured'
  BY <1>1, <1>3 DEF ReadEcho, Typed, FdsInv, Reading, VoltageMeasured
<1>8. QED
  BY <1>3, <1>4, <1>5, <1>6, <1>7

\* An acceptable length on a line without a second request, whose answer is not garbled,
\* means a whole reply.
LEMMA ReplyWhole ==
    ASSUME Typed, Inv, NEW t \in Threads, At(t, "reply"), ~shared, ~garbled,
           NEW n \in Arrived(Len(line)), Acceptable(n)
    PROVE  Content = "reply"
<1>1. n \in Nat /\ n <= Len(line) /\ line \in Seq(Nat) /\ ReplySize \in Nat \ {0, 1}
  BY SizesAssumption, ReadFacts DEF Typed
<1>2. n >= ReplySize
  BY <1>1, AcceptableFacts
<1>3. StartsWithReply
  BY <1>1, <1>2 DEF Inv, LineInv
<1>4. QED
  BY <1>1, <1>3, ContentFacts

\* What is accepted is a whole reply, or was garbled, or came with a second request.
LEMMA ReadReplyStep ==
    ASSUME Typed, Inv, NEW t \in Threads, ReadReply(t)
    PROVE  Typed' /\ Inv'
<1> USE DEF Goto, Return, GiveUp, Inv
<1>1. PICK n \in Arrived(Len(line)) :
          /\ line' = Without(n)
          /\ IF Acceptable(n)
             THEN Goto(t, "close") /\ Return(t, "reply") /\ reply' = Content
             ELSE GiveUp(t) /\ UNCHANGED reply
  BY DEF ReadReply
<1>2. line' \in Seq(Nat)
  BY <1>1, ReadFacts DEF Typed
<1>3. Typed'
  BY <1>1, <1>2 DEF ReadReply, Typed, Contents, Content
<1>4. TimerInv' /\ LineInv'
  BY <1>1, <1>3 DEF ReadReply, Typed, TimerInv, LineInv
<1>5. ResultInv'
  <2>1. ~shared /\ ~garbled /\ Acceptable(n) => reply' = "reply"
    BY <1>1, ReplyWhole DEF ReadReply
  <2>2. QED
    BY <1>1, <1>3, <2>1 DEF ReadReply, Typed, TimerInv, ResultInv, Backed, Loaded
<1>6. DisplayInv'
  BY <1>1, <1>3 DEF ReadReply, Typed, TimerInv, ResultInv, Backed, Loaded, Quiet, DisplayInv
<1>7. FdsInv' /\ VoltageMeasured'
  BY <1>1, <1>3 DEF ReadReply, Typed, FdsInv, Reading, VoltageMeasured
<1>8. QED
  BY <1>3, <1>4, <1>5, <1>6, <1>7

\* The port is closed in the thread that opened it.
LEMMA CloseStep ==
    ASSUME Typed, Inv, NEW t \in Threads, Close(t)
    PROVE  Typed' /\ Inv'
<1> USE DEF Close, Goto, Inv
<1>1. Typed'
  <2>1. fds' \in Nat
    BY DEF Typed, LineInv, FdsInv, Reading
  <2>2. line' \in Seq(Nat)
    <3>1. \A n \in Arrived(Len(line)) : Without(n) \in Seq(Nat)
      BY ReadFacts DEF Typed
    <3>2. \/ line' = line \/ line' = <<>>
          \/ \E n \in Arrived(Len(line)) : line' = Without(n)
      BY Zenon DEF Flush
    <3>3. QED
      BY <3>1, <3>2, EmptySeq, Zenon DEF Typed
  <2>3. QED
    BY <2>1, <2>2 DEF Typed
<1>2. TimerInv' /\ LineInv'
  BY <1>1 DEF Typed, TimerInv, LineInv
<1>3. ResultInv' /\ DisplayInv'
  BY <1>1 DEF Typed, TimerInv, ResultInv, Backed, Loaded, Quiet, DisplayInv
<1>4. FdsInv' /\ VoltageMeasured'
  BY <1>1 DEF Typed, FdsInv, Reading, VoltageMeasured
<1>5. QED
  BY <1>1, <1>2, <1>3, <1>4

\* The pointer is set, tested and used.
LEMMA PointerStep ==
    ASSUME Typed, Inv, NEW t \in Threads, AssignReply(t) \/ TestReply(t) \/ UseReply(t)
    PROVE  Typed' /\ Inv'
<1> USE DEF AssignReply, TestReply, UseReply, Goto, Return, Crash, Inv
<1>1. Typed'
  BY DEF Typed
<1>2. TimerInv' /\ LineInv'
  BY <1>1 DEF Typed, TimerInv, LineInv
<1>3. ResultInv' /\ DisplayInv'
  BY <1>1 DEF Typed, TimerInv, ResultInv, Backed, Loaded, Quiet, DisplayInv
<1>4. FdsInv' /\ VoltageMeasured'
  BY <1>1 DEF Typed, FdsInv, Reading, VoltageMeasured
<1>5. QED
  BY <1>1, <1>2, <1>3, <1>4

\* The end of a publication, after which main() may compose the page.
LEMMA LeaveStep ==
    ASSUME Typed, Inv, NEW t \in Threads, Choose(t) \/ SendState(t)
    PROVE  Typed' /\ Inv'
<1> USE DEF Choose, SendState, Goto, Leave, Inv
<1>1. Typed'
  BY DEF Typed
<1>2. TimerInv' /\ LineInv'
  BY <1>1 DEF Typed, TimerInv, LineInv
<1>3. ResultInv'
  BY <1>1 DEF Typed, TimerInv, ResultInv, Backed, Loaded
<1>4. DisplayInv'
  <2>1. /\ at'[t] = "show" => t = "main" /\ (watched' <=> Inside("mqtt"))
        /\ t = "mqtt" => watched' = watched
    BY DEF Typed
  <2>2. QED
    BY <1>1, <2>1 DEF Typed, TimerInv, ResultInv, Backed, Loaded, Quiet, DisplayInv
<1>5. FdsInv' /\ VoltageMeasured'
  BY <1>1 DEF Typed, FdsInv, Reading, VoltageMeasured
<1>6. QED
  BY <1>1, <1>2, <1>3, <1>4, <1>5

\* The timer is tested: a publication begins, alone or with another.
LEMMA CheckTimerStep ==
    ASSUME Typed, Inv, NEW t \in Threads, CheckTimer(t)
    PROVE  Typed' /\ Inv'
<1> USE DEF Goto, Leave, Inv
<1>1. Typed'
  BY DEF CheckTimer, Typed
<1>2. CASE due /\ at' = [at EXCEPT ![t] = "stamp"]
  <2>1. /\ at[t] \in {"idle", "check"}
        /\ (shared' <=> Inside(Other(t)))
        /\ (watched' <=> (watched \/ (t = "mqtt" /\ at["main"] \in Showing)))
        /\ UNCHANGED <<psu, ina, due, fds, line, reply, faraday_reply, result, ina_voltage,
                       garbled>>
    BY <1>2, Zenon DEF CheckTimer
  <2>2. TimerInv' /\ LineInv'
    BY <1>1, <1>2, <2>1 DEF Typed, TimerInv, LineInv
  <2>3. ResultInv' /\ DisplayInv'
    BY <1>1, <1>2, <2>1 DEF Typed, TimerInv, ResultInv, Backed, Loaded, Quiet, DisplayInv
  <2>4. FdsInv' /\ VoltageMeasured'
    BY <1>1, <1>2, <2>1 DEF Typed, FdsInv, Reading, VoltageMeasured
  <2>5. QED
    BY <1>1, <2>2, <2>3, <2>4
<1>3. CASE ~due
  <2>1. /\ t = "main" /\ at["main"] = "check" /\ (watched' <=> Inside("mqtt"))
        /\ at'["main"] \in {"idle", "show"} /\ at'["mqtt"] = at["mqtt"]
        /\ UNCHANGED <<psu, ina, due, fds, line, reply, faraday_reply, result, ina_voltage, shared, garbled>>
    BY <1>3 DEF CheckTimer, Typed
  <2>2. TimerInv' /\ LineInv'
    <3>1. Answers' = Answers /\ (StartsWithReply' <=> StartsWithReply)
      BY <2>1 DEF Answers, Echoes, Replies, InOrder, Echo, Reply, StartsWithReply
    <3>2. QED
      BY <1>1, <1>3, <2>1, <3>1 DEF Typed, TimerInv, LineInv
  <2>3. ResultInv' /\ DisplayInv'
    BY <1>1, <1>3, <2>1 DEF Typed, TimerInv, ResultInv, Backed, Loaded, Quiet, DisplayInv
  <2>4. FdsInv' /\ VoltageMeasured'
    BY <1>1, <1>3, <2>1 DEF Typed, FdsInv, Reading, VoltageMeasured
  <2>5. QED
    BY <1>1, <2>2, <2>3, <2>4
<1>4. QED
  BY <1>1, <1>2, <1>3 DEF CheckTimer
-----------------------------------------------------------------------------
(* The round of main_loop around it, and the world.                        *)

\* The sensor is only read when a conversion is ready.
LEMMA MeasureStep ==
    ASSUME Typed, Inv, MeasureVoltage
    PROVE  VoltageMeasured'
<1>1. CASE sensor \in BusWords
  <2>1. SwapBytes(OnTheBus(sensor)) = sensor /\ sensor \in Word
    BY <1>1, WordsAssumption, SwapUndone
  <2>2. ina_voltage' = IF MathOverflow(sensor) THEN {} ELSE {BusMillivolts(sensor)}
    BY <2>1 DEF MeasureVoltage
  <2>3. LET true == 4 * (sensor \div 8)
        IN  BusMillivolts(sensor) = IF true < 16384 THEN true ELSE true - 32768
    BY <2>1, ShiftFacts
  <2>4. QED
    BY <1>1, <2>2, <2>3 DEF VoltageMeasured
<1>2. CASE sensor = 0
  <2>1. 0 \in Word
    BY SizeFacts DEF Word
  <2>2. SwapBytes(OnTheBus(sensor)) = 0
    BY <1>2, <2>1, SwapUndone
  <2>3. ~ConversionReady(0)
    BY DEF ConversionReady
  <2>4. QED
    BY <2>2, <2>3 DEF MeasureVoltage
<1>3. QED
  BY <1>1, <1>2 DEF Typed

\* The steps of main_loop outside publish_state().
LEMMA RoundStep ==
    ASSUME Typed, Inv,
           \/ BeginRound \/ MeasureVoltage \/ BusFails \/ MeasureCurrent
           \/ TestShown \/ ShowVoltage
    PROVE  Typed' /\ Inv'
<1> USE DEF BeginRound, MeasureVoltage, BusFails, MeasureCurrent, TestShown, ShowVoltage,
            Goto, Crash, Inv
<1>1. Typed'
  BY DEF Typed
<1>2. TimerInv' /\ LineInv'
  <2>1. UNCHANGED <<psu, due, line, shared>>
    OBVIOUS
  <2>2. Answers' = Answers /\ (StartsWithReply' <=> StartsWithReply)
    BY <2>1 DEF Answers, Echoes, Replies, InOrder, Echo, Reply, StartsWithReply
  <2>3. \A t \in Threads : at'[t] = at[t] \/ ~Inside(t)'
    BY DEF Typed
  <2>4. QED
    BY <2>1, <2>2, <2>3 DEF TimerInv, LineInv
<1>3. ResultInv' /\ DisplayInv'
  BY <1>1 DEF Typed, TimerInv, ResultInv, Backed, Loaded, Quiet, DisplayInv
<1>4. FdsInv'
  BY <1>1 DEF Typed, FdsInv, Reading
<1>5. VoltageMeasured'
  <2>1. CASE MeasureVoltage
    BY <2>1, MeasureStep
  <2>2. CASE UNCHANGED ina_voltage \/ ina_voltage' = {}
    BY <2>2 DEF VoltageMeasured
  <2>3. QED
    BY <2>1, <2>2
<1>6. QED
  BY <1>1, <1>2, <1>3, <1>4, <1>5

\* Time and the sensor.
LEMMA WorldStep ==
    ASSUME Typed, Inv, IntervalPasses \/ Convert \/ UNCHANGED vars
    PROVE  Typed' /\ Inv'
<1>1. CASE IntervalPasses
  <2> USE <1>1 DEF IntervalPasses, Inv
  <2>1. Typed' /\ TimerInv' /\ LineInv'
    BY EmptySeq DEF Typed, TimerInv, LineInv
  <2>2. ResultInv' /\ DisplayInv' /\ FdsInv' /\ VoltageMeasured'
    BY DEF ResultInv, Backed, Loaded, Quiet, DisplayInv, FdsInv, Reading, VoltageMeasured
  <2>3. QED
    BY <2>1, <2>2
<1>2. CASE Convert \/ UNCHANGED vars
  <2>1. /\ sensor' \in BusWords \cup {sensor}
        /\ UNCHANGED <<psu, ina, at, due, fds, line, reply, faraday_reply, result,
                       ina_voltage, shared, garbled, watched>>
    BY <1>2 DEF Convert, vars
  <2>2. Answers' = Answers /\ (StartsWithReply' <=> StartsWithReply)
    BY <2>1 DEF Answers, Echoes, Replies, InOrder, Echo, Reply, StartsWithReply
  <2>3. Typed' /\ TimerInv' /\ LineInv'
    BY <2>1, <2>2 DEF Typed, Inv, TimerInv, LineInv
  <2>4. ResultInv' /\ DisplayInv' /\ FdsInv' /\ VoltageMeasured'
    BY <2>1 DEF Inv, ResultInv, Backed, Loaded, Quiet, DisplayInv, FdsInv, Reading, VoltageMeasured
  <2>5. QED
    BY <2>3, <2>4 DEF Inv
<1>3. QED
  BY <1>1, <1>2
-----------------------------------------------------------------------------
(* The theorems.                                                           *)

\* The steps of publish_state() together.
LEMMA PublishStep ==
    ASSUME Typed, Inv, NEW t \in Threads, CheckTimer(t) \/ Publish(t)
    PROVE  Typed' /\ Inv'
  BY StampTimerStep, OpenStep, RequestStep, ReadEchoStep, ReadReplyStep, CloseStep, PointerStep,
     LeaveStep, CheckTimerStep DEF Publish

\* The invariants hold in every state.
THEOREM InvCorrect == Spec => [](Typed /\ Inv)
<1>1. Init => Typed /\ Inv
  <2> SUFFICES ASSUME Init PROVE Typed /\ Inv
    OBVIOUS
  <2>1. Typed
    BY EmptySeq DEF Init, Typed, Contents
  <2>2. TimerInv /\ LineInv /\ ResultInv /\ DisplayInv /\ FdsInv /\ VoltageMeasured
    BY DEF Init, TimerInv, LineInv, ResultInv, Backed, Quiet, DisplayInv, FdsInv, Reading,
       VoltageMeasured
  <2>3. QED
    BY <2>1, <2>2 DEF Inv
<1>2. (Typed /\ Inv) /\ [Next]_vars => (Typed /\ Inv)'
  <2> SUFFICES ASSUME Typed, Inv, [Next]_vars PROVE Typed' /\ Inv'
    OBVIOUS
  <2>1. CASE \E t \in Threads : CheckTimer(t) \/ Publish(t)
    BY <2>1, PublishStep
  <2>2. CASE BeginRound \/ MeasureVoltage \/ BusFails \/ MeasureCurrent \/ TestShown \/ ShowVoltage
    BY <2>2, RoundStep
  <2>3. CASE IntervalPasses \/ Convert \/ UNCHANGED vars
    BY <2>3, WorldStep
  <2>4. QED
    BY <2>1, <2>2, <2>3 DEF Next, Main, Over
<1>3. QED
  BY <1>1, <1>2, PTL DEF Spec

\* Whoever follows faraday_reply finds behind it what the last request accepted
\* (publish_state() and display_weather_info()), unless publications met.
THEOREM PointerGoodCorrect == Spec => []PointerGood
<1>1. Typed /\ Inv => PointerGood
  BY DEF Typed, Inv, TimerInv, ResultInv, DisplayInv, Quiet, Backed, Loaded, PointerGood
<1>2. QED
  BY <1>1, InvCorrect, PTL

\* What write_command_and_read_reply() accepts is a whole reply, however long the request
\* and the reply are and however many of their bytes get lost, on a line that no other
\* publication used and that did not repeat the reply after a loss.
THEOREM WholeReplyCorrect == Spec => WholeReply
<1> DEFINE Step(t) == At(t, "reply") /\ result'[t] = "reply" => reply' = "reply" \/ shared \/ garbled
<1>1. Typed /\ Inv /\ [Next]_vars => [\A t \in Threads : Step(t)]_vars
  <2> SUFFICES ASSUME Typed, Inv, [Next]_vars, NEW t \in Threads,
                      at[t] = "reply", result'[t] = "reply", ~shared, ~garbled
               PROVE  reply' = "reply"
    OBVIOUS
  <2>1. result[t] = "NULL" /\ result \in [Threads -> {"NULL", "reply"}]
    BY DEF Typed, Inv, ResultInv
  <2>2. \A u \in Threads \ {t} : ~Inside(u)
    BY DEF Inv, TimerInv
  <2>3. ReadReply(t)
    <3>1. \E u \in Threads : Publish(u) /\ result' # result
      BY <2>1 DEF Next, Main, CheckTimer, BeginRound, MeasureVoltage, BusFails, MeasureCurrent,
         TestShown, ShowVoltage, IntervalPasses, Convert, Over, vars
    <3>2. Publish(t)
      BY <2>2, <3>1 DEF Publish, StampTimer, Choose, Open, Request, ReadEcho, ReadReply, Close,
         AssignReply, TestReply, UseReply, SendState
    <3>3. QED
      BY <3>2 DEF Publish, StampTimer, Choose, Open, Request, ReadEcho, ReadReply, Close,
         AssignReply, TestReply, UseReply, SendState
  <2>4. PICK n \in Arrived(Len(line)) :
            IF Acceptable(n) THEN reply' = Content ELSE Return(t, "NULL")
    BY <2>3 DEF ReadReply, GiveUp
  <2>5. Acceptable(n)
    BY <2>1, <2>4 DEF Return
  <2>6. QED
    BY <2>4, <2>5, ReplyWhole
<1>2. QED
  BY <1>1, InvCorrect, PTL DEF Spec, WholeReply

\* The two threads that read.
LEMMA ReadersCounted ==
    Cardinality({t \in Threads : at[t] \in Asking}) = Reading("main") + Reading("mqtt")
<1> DEFINE Readers == {t \in Threads : at[t] \in Asking}
<1>1. Readers = (IF at["main"] \in Asking THEN {"main"} ELSE {})
                    \cup (IF at["mqtt"] \in Asking THEN {"mqtt"} ELSE {})
  OBVIOUS
<1>2. Cardinality({}) = 0 /\ Cardinality({"main"}) = 1 /\ Cardinality({"mqtt"}) = 1
  BY FS_EmptySet, FS_Singleton
<1>3. Cardinality({"main", "mqtt"}) = 2
  <2>1. IsFiniteSet({"main"}) /\ "mqtt" \notin {"main"}
    BY FS_Singleton
  <2>2. Cardinality({"main"} \cup {"mqtt"}) = Cardinality({"main"}) + 1
    BY <2>1, FS_AddElement
  <2>3. {"main"} \cup {"mqtt"} = {"main", "mqtt"}
    OBVIOUS
  <2>4. QED
    BY <1>2, <2>2, <2>3
<1>4. QED
  BY <1>1, <1>2, <1>3 DEF Reading

\* However a read of the supply fails, read_faraday_data() closes what it opened.
THEOREM DescriptorsReturnedCorrect == Spec => []DescriptorsReturned
<1>1. Typed /\ Inv => DescriptorsReturned
  BY ReadersCounted DEF Inv, FdsInv, DescriptorsReturned
<1>2. QED
  BY <1>1, InvCorrect, PTL

\* For every register of 16 bits, what ina_219_device_get_bus_voltage() returns is
\* the voltage of the register, and 32.768 V too low from 16.384 V on.
THEOREM VoltageMeasuredCorrect == Spec => []VoltageMeasured
  BY InvCorrect, PTL DEF Inv

\* Every variable stays within its type: neither thread leaves its program, and no
\* descriptor is opened beyond the limit of the process.
THEOREM TypeCorrect == Spec => []TypeOK
<1>1. Init => RestInv
  <2> SUFFICES ASSUME Init PROVE RestInv
    OBVIOUS
  <2>1. PICK setup \in Setups : psu = setup[1] /\ ina = setup[2]
    BY DEF Init
  <2>2. setup \in (Supplies \cup {"unknown"}) \X BOOLEAN
    BY SetupsAssumption
  <2>3. psu \in Supplies \cup {"unknown"} /\ ina \in BOOLEAN
    BY <2>1, <2>2
  <2>4. due \in BOOLEAN /\ shared \in BOOLEAN /\ garbled \in BOOLEAN /\ watched \in BOOLEAN
    BY Zenon DEF Init
  <2>5. fds <= MaxFds /\ ina_current \subseteq {"amperes"}
    BY FdsAssumption DEF Init
  <2>6. QED
    BY <2>3, <2>4, <2>5, Zenon DEF RestInv
<1>2. (Typed /\ Inv) /\ RestInv /\ [Next]_vars => RestInv'
  BY RestStep
<1>3. (Typed /\ Inv) /\ RestInv => TypeOK
  <2> SUFFICES ASSUME Typed, Inv, RestInv PROVE TypeOK
    OBVIOUS
  <2>1. ina_voltage \subseteq Int
    <3>1. \A word \in BusWords : word \in Int
      BY WordsAssumption, WordFacts
    <3>2. \A word \in Int : 4 * (word \div 8) \in Int /\ 4 * (word \div 8) - 32768 \in Int
      OBVIOUS
    <3>3. QED
      BY <3>1, <3>2 DEF Inv, VoltageMeasured
  <2>2. fds \in 0..MaxFds
    BY FdsAssumption DEF Typed, RestInv
  <2>3. /\ at["main"] \in {"idle", "check", "crashed"} \cup Publishing \cup Measuring \cup Showing
        /\ at["mqtt"] \in {"idle", "crashed"} \cup Publishing
    BY DEF Typed
  <2>4. QED
    BY <2>1, <2>2, <2>3, Zenon DEF Typed, RestInv, TypeOK
<1>4. QED
  BY <1>1, <1>2, <1>3, InvCorrect, PTL DEF Spec
=============================================================================
