---------------------------- MODULE WeatherProofs ---------------------------
(***************************************************************************)
(* Proofs about Weather and the parser in it, for any lines, names and     *)
(* window: the nodes form one tree, the reader holds one whole line of the *)
(* log, and the list of sensors is made from this line's tree alone.       *)
(* The second half is about the grammar: the parser takes what the grammar *)
(* of Weather calls a value and nothing else, and the list says what such  *)
(* a value says.                                                           *)
(***************************************************************************)
EXTENDS Weather, SequenceTheorems, FiniteSetTheorems, WellFoundedInduction, TLAPS

\* The open containers are nodes; a value that stands in no container is the
\* first one of the line, and keys are only read in a container.
StackInv ==
    /\ \A i \in 1..Len(stack) : 1 <= stack[i] /\ stack[i] <= Len(nodes)
    /\ mode = "value" /\ stack = <<>> => nodes = <<>>
    /\ mode = "key" => stack # <<>>

\* What of the type the invariants rest on.
Typed ==
    /\ text \in Seq(Tokens) /\ stack \in Seq(Nat) /\ nodes \in Seq(Node)
    /\ key \in Names \cup {NoKey}

TreeInv == Typed /\ StackInv /\ OneTree

\* A new node is a child of the innermost open container.
LEMMA NewNode ==
    ASSUME TreeInv, NEW type \in Types, create_json(type), mode = "value"
    PROVE  /\ nodes' \in Seq(Node) /\ Len(nodes') = Len(nodes) + 1
           /\ OneTree'
<1> DEFINE parent == IF stack = <<>> THEN 0 ELSE Last(stack)
           node == [type |-> type, key |-> key, parent |-> parent]
<1>1. parent \in Nat /\ parent <= Len(nodes) /\ (parent = 0 <=> nodes = <<>>)
  BY DEF TreeInv, Typed, StackInv, Last
<1>2. node \in Node /\ node.parent = parent
  BY <1>1 DEF TreeInv, Typed, Node
<1>3. nodes' = Append(nodes, node)
  BY DEF create_json
<1> HIDE DEF node, parent
<1>4. nodes' \in Seq(Node) /\ Len(nodes') = Len(nodes) + 1
  BY <1>2, <1>3 DEF TreeInv, Typed
<1>5. ASSUME NEW n \in 1..Len(nodes')
      PROVE  nodes'[n].parent < n /\ (nodes'[n].parent = 0 <=> n = 1)
  <2>1. CASE n \in 1..Len(nodes)
    BY <2>1, <1>2, <1>3 DEF TreeInv, Typed, OneTree
  <2>2. CASE n = Len(nodes) + 1
    BY <2>2, <1>1, <1>2, <1>3 DEF TreeInv, Typed
  <2>3. QED
    BY <1>4, <2>1, <2>2 DEF TreeInv, Typed
<1>6. QED
  BY <1>4, <1>5 DEF OneTree

\* Appending to a sequence.
LEMMA Appended ==
    ASSUME NEW S, NEW s \in Seq(S), NEW e \in S
    PROVE  /\ Append(s, e) \in Seq(S) /\ Len(Append(s, e)) = Len(s) + 1
           /\ Append(s, e) # <<>>
           /\ \A i \in 1..Len(s) : Append(s, e)[i] = s[i]
           /\ Append(s, e)[Len(s) + 1] = e
OBVIOUS

\* A sequence with a length is not empty.
LEMMA NotEmpty ==
    ASSUME NEW S, NEW s \in Seq(S), Len(s) > 0
    PROVE  s # <<>>
OBVIOUS

\* The rest behind the first element, and what stands before the last.
LEMMA Shortened ==
    ASSUME NEW S, NEW s \in Seq(S), s # <<>>
    PROVE  /\ Tail(s) \in Seq(S) /\ Len(Tail(s)) = Len(s) - 1
           /\ Front(s) \in Seq(S) /\ Len(Front(s)) = Len(s) - 1
           /\ \A i \in 1..Len(s) - 1 : Front(s)[i] = s[i]
<1>1. Len(s) \in Nat \ {0}
  OBVIOUS
<1>2. Tail(s) \in Seq(S) /\ Len(Tail(s)) = Len(s) - 1
  BY HeadTailProperties
<1>3. \A i \in 1..Len(s) - 1 : s[i] \in S
  BY <1>1, ElementOfSeq
<1>4. /\ Front(s) \in Seq(S) /\ Len(Front(s)) = Len(s) - 1
      /\ \A i \in 1..Len(s) - 1 : Front(s)[i] = s[i]
  <2> DEFINE z == Len(s) - 1
  <2>1. z \in Nat /\ \A i \in 1..z : s[i] \in S /\ s[1 + i - 1] = s[i]
    BY <1>1, <1>3
  <2> HIDE DEF z
  <2>2. /\ SubSeq(s, 1, z) \in Seq(S) /\ Len(SubSeq(s, 1, z)) = z
        /\ \A i \in 1..z : SubSeq(s, 1, z)[i] = s[1 + i - 1]
    BY <2>1, SubSeqProperties
  <2>3. QED
    BY <2>1, <2>2 DEF Front, z
<1>5. QED
  BY <1>2, <1>4

\* What is left of the text is made of tokens, too.
LEMMA ConsumeText ==
    ASSUME text \in Seq(Tokens), Consume, Next1 # "end"
    PROVE  text' \in Seq(Tokens)
BY DEF Consume, Next1

\* No turn of the parser reads past the end of the text.
LEMMA ParseText ==
    ASSUME text \in Seq(Tokens), Parse
    PROVE  text' \in Seq(Tokens)
<1>1. CASE UNCHANGED text
  BY <1>1
<1>2. CASE KeyFound
  <2>1. text' = Tail(Tail(text)) /\ Len(text) > 1
    BY <1>2 DEF KeyFound, HasKey
  <2>2. Tail(text) \in Seq(Tokens) /\ Len(Tail(text)) = Len(text) - 1
    BY <2>1, Shortened
  <2>3. Tail(text) # <<>>
    <3>1. Len(text) \in Nat /\ Len(Tail(text)) > 0
      BY <2>1, <2>2
    <3>2. QED
      BY <2>2, <3>1, NotEmpty
  <2>4. QED
    BY <2>1, <2>2, <2>3, Shortened
<1>3. CASE Consume /\ Next1 # "end"
  BY <1>3, ConsumeText
<1>4. "end" \notin Names
  BY NamesAssumption
<1>5. QED
  BY <1>1, <1>2, <1>3, <1>4 DEF Parse, SkipInValue, SkipInKey, CloseInValue, NextItem, NextKey, Finish,
     OpenObject, OpenArray, Scalar, InvalidNumber, UnexpectedInValue, UnexpectedInKey, CloseObject, CloseArray

\* Every turn of the parser keeps the tree.
LEMMA ParseKeepsTree ==
    ASSUME TreeInv, Parse
    PROVE  TreeInv'
<1> text' \in Seq(Tokens)
  BY ParseText DEF TreeInv, Typed
<1>1. CASE SkipInValue \/ SkipInKey \/ CloseInValue \/ NextItem \/ NextKey \/ Finish
  BY <1>1 DEF SkipInValue, SkipInKey, CloseInValue, NextItem, NextKey, Finish, InArray,
     TreeInv, Typed, StackInv, OneTree
<1>2. CASE OpenObject
  <2>1. /\ stack' \in Seq(Nat) /\ Len(stack') = Len(stack) + 1 /\ stack' # <<>>
        /\ \A i \in 1..Len(stack) : stack'[i] = stack[i]
        /\ stack'[Len(stack) + 1] = Len(nodes) + 1
    <3>1. Len(nodes) + 1 \in Nat /\ stack \in Seq(Nat)
      BY DEF TreeInv, Typed
    <3>2. stack' = Append(stack, Len(nodes) + 1)
      BY <1>2 DEF OpenObject
    <3>3. QED
      BY <3>1, <3>2, Appended
  <2>2. nodes' \in Seq(Node) /\ Len(nodes') = Len(nodes) + 1 /\ OneTree'
    BY <1>2, NewNode DEF OpenObject, Types
  <2>3. QED
    <3>1. key' \in Names \cup {NoKey}
      BY <1>2 DEF OpenObject, TreeInv, Typed
    <3>2. \A i \in 1..Len(stack') : 1 <= stack'[i] /\ stack'[i] <= Len(nodes')
      <4>1. TAKE i \in 1..Len(stack')
      <4>2. CASE i <= Len(stack)
        <5>1. i \in 1..Len(stack) /\ Len(nodes) \in Nat
          BY <4>2 DEF TreeInv, Typed
        <5>2. stack'[i] = stack[i] /\ 1 <= stack[i] /\ stack[i] <= Len(nodes) /\ stack[i] \in Nat
          BY <5>1, <2>1 DEF TreeInv, Typed, StackInv
        <5>3. QED
          BY <5>1, <5>2, <2>2
      <4>3. CASE i = Len(stack) + 1
        BY <4>3, <2>1, <2>2 DEF TreeInv, Typed
      <4>4. QED
        BY <4>2, <4>3, <2>1 DEF TreeInv, Typed
    <3>3. QED
      BY <2>1, <2>2, <3>1, <3>2 DEF TreeInv, Typed, StackInv
<1>3. CASE OpenArray
  <2>1. /\ stack' \in Seq(Nat) /\ Len(stack') = Len(stack) + 1 /\ stack' # <<>>
        /\ \A i \in 1..Len(stack) : stack'[i] = stack[i]
        /\ stack'[Len(stack) + 1] = Len(nodes) + 1
    <3>1. Len(nodes) + 1 \in Nat /\ stack \in Seq(Nat)
      BY DEF TreeInv, Typed
    <3>2. stack' = Append(stack, Len(nodes) + 1)
      BY <1>3 DEF OpenArray
    <3>3. QED
      BY <3>1, <3>2, Appended
  <2>2. nodes' \in Seq(Node) /\ Len(nodes') = Len(nodes) + 1 /\ OneTree'
    BY <1>3, NewNode DEF OpenArray, Types
  <2>3. QED
    <3>1. key' \in Names \cup {NoKey}
      BY <1>3 DEF OpenArray
    <3>2. \A i \in 1..Len(stack') : 1 <= stack'[i] /\ stack'[i] <= Len(nodes')
      <4>1. TAKE i \in 1..Len(stack')
      <4>2. CASE i <= Len(stack)
        <5>1. i \in 1..Len(stack) /\ Len(nodes) \in Nat
          BY <4>2 DEF TreeInv, Typed
        <5>2. stack'[i] = stack[i] /\ 1 <= stack[i] /\ stack[i] <= Len(nodes) /\ stack[i] \in Nat
          BY <5>1, <2>1 DEF TreeInv, Typed, StackInv
        <5>3. QED
          BY <5>1, <5>2, <2>2
      <4>3. CASE i = Len(stack) + 1
        BY <4>3, <2>1, <2>2 DEF TreeInv, Typed
      <4>4. QED
        BY <4>2, <4>3, <2>1 DEF TreeInv, Typed
    <3>3. QED
      BY <2>1, <2>2, <3>1, <3>2 DEF TreeInv, Typed, StackInv
<1>4. CASE Scalar
  <2>1. PICK type \in Types : create_json(type)
    BY <1>4 DEF Scalar, Types
  <2>2. nodes' \in Seq(Node) /\ Len(nodes') = Len(nodes) + 1 /\ OneTree'
    BY <1>4, <2>1, NewNode DEF Scalar
  <2>3. QED
    BY <1>4, <2>2 DEF Scalar, TreeInv, Typed, StackInv
<1>5. CASE InvalidNumber
  BY <1>5, NewNode DEF InvalidNumber, TreeInv, Typed, StackInv, Types
<1>6. CASE UnexpectedInValue
  <2>1. CASE create_json("string")
    <3>1. nodes' \in Seq(Node) /\ Len(nodes') = Len(nodes) + 1 /\ OneTree'
      BY <1>6, <2>1, NewNode DEF UnexpectedInValue, Types
    <3>2. UNCHANGED <<stack, key>> /\ mode' = "failed"
      BY <1>6 DEF UnexpectedInValue
    <3>3. QED
      BY <3>1, <3>2 DEF TreeInv, Typed, StackInv
  <2>2. CASE UNCHANGED nodes
    BY <1>6, <2>2 DEF UnexpectedInValue, TreeInv, Typed, StackInv, OneTree
  <2>3. QED
    BY <1>6, <2>1, <2>2 DEF UnexpectedInValue
<1>7. CASE CloseObject \/ CloseArray
  <2>1. /\ stack # <<>> /\ stack' = Front(stack) /\ UNCHANGED <<nodes, key>>
        /\ mode' = "return"
    BY <1>7 DEF CloseObject, CloseArray, InArray, TreeInv, StackInv
  <2>2. /\ stack' \in Seq(Nat) /\ Len(stack') = Len(stack) - 1
        /\ \A i \in 1..Len(stack') : stack'[i] = stack[i]
    BY <2>1, Shortened DEF TreeInv, Typed
  <2>3. StackInv'
    BY <2>1, <2>2 DEF TreeInv, Typed, StackInv
  <2>4. QED
    BY <2>1, <2>2, <2>3 DEF TreeInv, Typed, OneTree
<1>8. CASE KeyFound
  BY <1>8 DEF KeyFound, HasKey, Next1, TreeInv, Typed, StackInv, OneTree
<1>9. CASE UnexpectedInKey
  BY <1>9 DEF UnexpectedInKey, TreeInv, Typed, StackInv, OneTree
<1>10. QED
  BY <1>1, <1>2, <1>3, <1>4, <1>5, <1>6, <1>7, <1>8, <1>9 DEF Parse
-----------------------------------------------------------------------------
\* What a log is made of.
Symbols == Tokens \cup {Newline}

\* The largest element of a finite set of numbers: the least distance from a
\* bound, which exists because < is well-founded.
LEMMA Largest ==
    ASSUME NEW n \in Nat, NEW S, S \subseteq 1..n, S # {}
    PROVE  Max(S) \in S /\ \A y \in S : Max(S) >= y
<1> DEFINE T == {n - x : x \in S}
<1>1. T \subseteq Nat /\ T # {}
  <2>1. \A x \in S : n - x \in Nat
    OBVIOUS
  <2>2. QED
    BY <2>1, Zenon
<1>2. PICK d \in T : \A y \in T : ~ (<<y, d>> \in OpToRel(<, Nat))
  BY <1>1, WFMin, NatLessThanWellFounded
<1>3. \A y \in T : y \in Nat /\ d \in Nat /\ ~ (y < d)
  BY <1>1, <1>2 DEF OpToRel
<1>4. PICK x \in S : d = n - x
  OBVIOUS
<1>5. \A y \in S : x >= y
  <2>1. TAKE y \in S
  <2>2. n - y \in T /\ ~ (n - y < n - x)
    BY <1>3, <1>4
  <2>3. QED
    BY <2>2
<1>6. QED
  BY <1>5 DEF Max

\* Of two numbers.
LEMMA MaxOfTwo ==
    ASSUME NEW a \in Int, NEW b \in Int
    PROVE  Max({a, b}) = IF a >= b THEN a ELSE b
BY DEF Max

\* The same for the smaller.
LEMMA MinOfTwo ==
    ASSUME NEW a \in Int, NEW b \in Int
    PROVE  Min({a, b}) = IF a <= b THEN a ELSE b
BY DEF Min

\* Of two newlines at least, the last two with nothing between them.
LEMMA LastTwo ==
    ASSUME NEW n \in Nat, NEW S, S \subseteq 1..n, Cardinality(S) >= 2
    PROVE  /\ Max(S) \in S /\ Max(S \ {Max(S)}) \in S
           /\ Max(S \ {Max(S)}) < Max(S)
           /\ \A y \in S : y > Max(S \ {Max(S)}) => y = Max(S)
<1>1. IsFiniteSet(S)
  <2>1. 1 \in Int /\ n \in Int
    OBVIOUS
  <2>2. IsFiniteSet(1..n)
    BY <2>1, FS_Interval
  <2>3. QED
    BY <2>2, FS_Subset
<1>2. S # {}
  BY FS_EmptySet
<1>3. Max(S) \in S /\ \A y \in S : Max(S) >= y
  BY <1>2, Largest
<1> DEFINE m == Max(S)
           R == S \ {m}
<1>4. R # {}
  <2>1. SUFFICES ASSUME R = {} PROVE FALSE
    OBVIOUS
  <2>2. S = {m}
    BY <1>3, <2>1
  <2>3. QED
    BY <1>1, <2>2, FS_Singleton
<1>5. Max(R) \in R /\ \A y \in R : Max(R) >= y
  BY <1>4, Largest
<1> HIDE DEF m
<1>6. m = Max(S) /\ R = S \ {m}
  BY DEF m
<1> HIDE DEF R
<1>7. Max(R) \in Int /\ m \in Int /\ \A y \in S : y \in Int
  <2>1. \A y \in S : y \in Int
    OBVIOUS
  <2>2. m \in S /\ Max(R) \in S
    BY <1>3, <1>5, <1>6, Zenon
  <2>3. QED
    BY <2>1, <2>2
<1>8. QED
  BY <1>3, <1>5, <1>6, <1>7
-----------------------------------------------------------------------------
\* What stands between two newlines is a line, all of it.
Between(s, i, j) == i < j /\ s[i] = Newline /\ s[j] = Newline
                        /\ \A k \in i + 1..j - 1 : s[k] # Newline
Whole(s) ==
    \A i, j \in 1..Len(s) : Between(s, i, j) =>
        \E l \in Lines : Len(l) = j - i - 1 /\ \A k \in 1..Len(l) : s[i + k] = l[k]

\* t is an end of s.
IsEnd(t, s) ==
    /\ Len(t) <= Len(s)
    /\ \A i \in 1..Len(t) : t[i] = s[Len(s) - Len(t) + i]

\* An end of a log whose lines are whole has whole lines.
LEMMA EndOfWhole ==
    ASSUME NEW s \in Seq(Symbols), NEW t \in Seq(Symbols), Whole(s), IsEnd(t, s)
    PROVE  Whole(t)
<1> DEFINE d == Len(s) - Len(t)
<1>1. d \in Nat /\ Len(t) \in Nat /\ Len(s) = d + Len(t)
  BY DEF IsEnd
<1>2. \A i \in 1..Len(t) : t[i] = s[d + i]
  BY DEF IsEnd
<1> HIDE DEF d
<1> SUFFICES ASSUME NEW i \in 1..Len(t), NEW j \in 1..Len(t), Between(t, i, j)
             PROVE  \E l \in Lines : Len(l) = j - i - 1 /\ \A k \in 1..Len(l) : t[i + k] = l[k]
  BY DEF Whole
<1>3. d + i \in 1..Len(s) /\ d + j \in 1..Len(s)
  BY <1>1
<1>4. Between(s, d + i, d + j)
  <2>1. d + i < d + j /\ s[d + i] = Newline /\ s[d + j] = Newline
    BY <1>1, <1>2 DEF Between
  <2>2. ASSUME NEW k \in d + i + 1..d + j - 1
        PROVE  s[k] # Newline
    <3>1. k - d \in i + 1..j - 1 /\ k - d \in 1..Len(t) /\ d + (k - d) = k
      BY <1>1
    <3>2. t[k - d] # Newline /\ t[k - d] = s[d + (k - d)]
      BY <3>1, <1>2 DEF Between
    <3>3. QED
      BY <3>1, <3>2
  <2>3. \A k \in (d + i) + 1..(d + j) - 1 : s[k] # Newline
    BY <1>1, <2>2
  <2>4. QED
    BY <2>1, <2>3 DEF Between
<1>5. PICK l \in Lines : Len(l) = (d + j) - (d + i) - 1 /\ \A k \in 1..Len(l) : s[(d + i) + k] = l[k]
  BY <1>3, <1>4 DEF Whole
<1>6. Len(l) = j - i - 1
  BY <1>1, <1>5
<1>7. ASSUME NEW k \in 1..Len(l)
      PROVE  t[i + k] = l[k]
  <2>1. i + k \in 1..Len(t) /\ d + (i + k) = (d + i) + k
    BY <1>1, <1>6
  <2>2. QED
    BY <2>1, <1>2, <1>5
<1>8. QED
  BY <1>6, <1>7

\* The same for a beginning.
LEMMA StartOfWhole ==
    ASSUME NEW s \in Seq(Symbols), NEW t \in Seq(Symbols), Whole(s),
           Len(t) <= Len(s), \A i \in 1..Len(t) : t[i] = s[i]
    PROVE  Whole(t)
<1>1. Len(t) \in Nat /\ Len(s) \in Nat
  OBVIOUS
<1> SUFFICES ASSUME NEW i \in 1..Len(t), NEW j \in 1..Len(t), Between(t, i, j)
             PROVE  \E l \in Lines : Len(l) = j - i - 1 /\ \A k \in 1..Len(l) : t[i + k] = l[k]
  BY DEF Whole
<1>2. i \in 1..Len(s) /\ j \in 1..Len(s) /\ Between(s, i, j)
  BY <1>1 DEF Between
<1>3. PICK l \in Lines : Len(l) = j - i - 1 /\ \A k \in 1..Len(l) : s[i + k] = l[k]
  BY <1>2 DEF Whole
<1>4. ASSUME NEW k \in 1..Len(l)
      PROVE  t[i + k] = l[k]
  <2>1. i + k \in 1..Len(t)
    BY <1>1, <1>3
  <2>2. QED
    BY <2>1, <1>3
<1>5. QED
  BY <1>3, <1>4

\* A newline only ends lines.
LEMMA NewlineIsNoToken == Newline \notin Tokens
BY NewlineAssumption DEF Newline, Tokens, Marks, Words

\* A line and its newline behind a newline, or at the beginning.
LEMMA LineAppended ==
    ASSUME NEW s \in Seq(Symbols), Whole(s), s = <<>> \/ s[Len(s)] = Newline,
           NEW l \in Lines, NEW w \in Seq(Symbols), Len(w) = Len(s) + Len(l) + 1,
           \A i \in 1..Len(s) : w[i] = s[i],
           \A i \in 1..Len(l) : w[Len(s) + i] = l[i],
           w[Len(w)] = Newline
    PROVE  Whole(w)
<1>1. l \in Seq(Tokens) /\ Len(l) \in Nat /\ Len(s) \in Nat /\ Len(w) \in Nat
  BY LinesAssumption
<1>2. \A i \in 1..Len(l) : w[Len(s) + i] # Newline
  BY <1>1, NewlineIsNoToken
<1> SUFFICES ASSUME NEW i \in 1..Len(w), NEW j \in 1..Len(w), Between(w, i, j)
             PROVE  \E m \in Lines : Len(m) = j - i - 1 /\ \A k \in 1..Len(m) : w[i + k] = m[k]
  BY DEF Whole
<1>3. i < j /\ w[i] = Newline /\ w[j] = Newline /\ \A k \in i + 1..j - 1 : w[k] # Newline
  BY DEF Between
<1>4. i <= Len(s) /\ (j <= Len(s) \/ j = Len(w))
  <2>1. ASSUME NEW k \in 1..Len(w), w[k] = Newline, k > Len(s)
        PROVE  k = Len(w)
    <3>1. PICK n \in 1..Len(l) + 1 : k = Len(s) + n
      <4>1. k - Len(s) \in 1..Len(l) + 1 /\ k = Len(s) + (k - Len(s))
        BY <2>1, <1>1
      <4>2. QED
        BY <4>1
    <3>2. n \notin 1..Len(l)
      BY <3>1, <2>1, <1>2
    <3>3. n = Len(l) + 1
      BY <3>2, <1>1
    <3>4. QED
      BY <3>1, <3>3, <1>1
  <2>2. QED
    BY <2>1, <1>1, <1>3
<1>5. CASE j <= Len(s)
  <2>1. i \in 1..Len(s) /\ j \in 1..Len(s) /\ Between(s, i, j)
    <3>1. i \in 1..Len(s) /\ j \in 1..Len(s)
      BY <1>1, <1>3, <1>5
    <3>2. s[i] = Newline /\ s[j] = Newline
      BY <3>1, <1>3
    <3>3. \A k \in i + 1..j - 1 : s[k] # Newline
      <4>1. TAKE k \in i + 1..j - 1
      <4>2. k \in 1..Len(s)
        BY <3>1, <1>1
      <4>3. QED
        BY <4>2, <1>3
    <3>4. QED
      BY <3>1, <3>2, <3>3, <1>3 DEF Between
  <2>2. PICK m \in Lines : Len(m) = j - i - 1 /\ \A k \in 1..Len(m) : s[i + k] = m[k]
    BY <2>1 DEF Whole
  <2>3. ASSUME NEW k \in 1..Len(m)
        PROVE  w[i + k] = m[k]
    <3>1. i + k \in 1..Len(s)
      BY <1>1, <2>1, <2>2
    <3>2. QED
      BY <3>1, <2>2
  <2>4. QED
    BY <2>2, <2>3
<1>6. CASE j = Len(w)
  <2>1. i = Len(s)
    <3>1. Len(s) >= 1 /\ s[Len(s)] = Newline
      BY <1>1, <1>4
    <3>2. w[Len(s)] = Newline
      BY <3>1, <1>1
    <3>3. QED
      BY <3>1, <3>2, <1>1, <1>3, <1>4, <1>6
  <2>2. Len(l) = j - i - 1
    BY <2>1, <1>1, <1>6
  <2>3. QED
    BY <2>1, <2>2
<1>7. QED
  BY <1>4, <1>5, <1>6
-----------------------------------------------------------------------------
\* What the reader sees of a log is an end of it, with its last symbol.
LEMMA SeenIsEnd ==
    ASSUME NEW s \in Seq(Symbols)
    PROVE  /\ Seen(s) \in Seq(Symbols) /\ Len(Seen(s)) <= Window /\ IsEnd(Seen(s), s)
           /\ s # <<>> => Len(Seen(s)) > 0
<1> DEFINE Ends == {i \in 1..Len(s) : s[i] = Newline}
           far == IF Cardinality(Ends) < 2 THEN 1 ELSE Max(Ends \ {Max(Ends)})
           cut == Len(s) - Window + 1
           k == IF far >= cut THEN far ELSE cut
<1>1. Len(s) \in Nat /\ Window \in Nat \ {0} /\ cut \in Int
  BY WindowAssumption
<1>2. far \in Nat /\ far >= 1 /\ (far = 1 \/ far <= Len(s))
  <2>1. CASE Cardinality(Ends) < 2
    BY <2>1
  <2>2. CASE ~(Cardinality(Ends) < 2)
    <3>1. Ends \subseteq 1..Len(s)
      OBVIOUS
    <3>2. IsFiniteSet(Ends)
      <4>1. 1 \in Int /\ Len(s) \in Int
        BY <1>1
      <4>2. IsFiniteSet(1..Len(s))
        BY <4>1, FS_Interval
      <4>3. QED
        BY <3>1, <4>2, FS_Subset
    <3>3. Cardinality(Ends) >= 2
      BY <2>2, <3>2, FS_CardinalityType
    <3>4. Max(Ends \ {Max(Ends)}) \in Ends
      BY <1>1, <3>1, <3>3, LastTwo
    <3>5. QED
      BY <2>2, <3>1, <3>4, <1>1
  <2>3. QED
    BY <2>1, <2>2
<1> HIDE DEF far
<1>3. Max({far, cut}) = k
  BY <1>1, <1>2, MaxOfTwo
<1>4. Seen(s) = SubSeq(s, Max({far, cut}), Len(s))
  BY DEF Seen, far
<1>5. /\ k \in Nat /\ k >= 1 /\ k <= Len(s) + 1 /\ Len(s) - k + 1 <= Window
      /\ Len(s) > 0 => k <= Len(s)
  BY <1>1, <1>2
<1> HIDE DEF k
<1> DEFINE t == SubSeq(s, k, Len(s))
<1>6. /\ t \in Seq(Symbols) /\ Len(t) = Len(s) - k + 1
      /\ \A i \in 1..Len(t) : t[i] = s[k + i - 1]
  <2>1. \A i \in k..Len(s) : s[i] \in Symbols
    BY <1>1, <1>5
  <2>2. k \in Int /\ Len(s) \in Int
    BY <1>1, <1>5
  <2>3. /\ t \in Seq(Symbols) /\ Len(t) = (IF k <= Len(s) THEN Len(s) - k + 1 ELSE 0)
        /\ \A i \in 1..Len(s) - k + 1 : t[i] = s[k + i - 1]
    BY <2>1, <2>2, SubSeqProperties
  <2>4. QED
    BY <1>5, <2>2, <2>3
<1>7. Seen(s) = t
  BY <1>3, <1>4
<1> HIDE DEF t
<1>8. IsEnd(t, s)
  <2>1. \A i \in 1..Len(t) : k + i - 1 = Len(s) - Len(t) + i
    BY <1>1, <1>5, <1>6
  <2>2. QED
    BY <2>1, <1>1, <1>5, <1>6 DEF IsEnd
<1>9. s # <<>> => Len(s) > 0
  BY EmptySeq
<1>10. QED
  BY <1>1, <1>5, <1>6, <1>7, <1>8, <1>9

\* The line that is read is one of the lines, whole.
LEMMA LastLineWhole ==
    ASSUME log \in Seq(Symbols), Whole(log), LastLine # <<>>
    PROVE  LastLine \in Lines
<1> DEFINE e == Max(Newlines)
           b == Max(Newlines \ {e})
<1>1. Len(log) \in Nat /\ Newlines \subseteq 1..Len(log)
  BY DEF Newlines
<1>2. IsFiniteSet(Newlines)
  <2>1. 1 \in Int /\ Len(log) \in Int
    BY <1>1
  <2>2. IsFiniteSet(1..Len(log))
    BY <2>1, FS_Interval
  <2>3. QED
    BY <1>1, <2>2, FS_Subset
<1>3. Cardinality(Newlines) >= 2 /\ LastLine = SubSeq(log, b + 1, e - 1)
  <2>1. Cardinality(Newlines) \in Nat
    BY <1>2, FS_CardinalityType
  <2>2. ~(Cardinality(Newlines) < 2)
    BY DEF LastLine
  <2>3. LastLine = SubSeq(log, Max(Newlines \ {Max(Newlines)}) + 1, Max(Newlines) - 1)
    BY <2>2, Zenon DEF LastLine
  <2>4. QED
    BY <2>1, <2>2, <2>3
<1>4. e \in Newlines /\ b \in Newlines /\ b < e /\ \A y \in Newlines : y > b => y = e
  BY <1>1, <1>3, LastTwo
<1> HIDE DEF e, b
<1>5. b \in 1..Len(log) /\ e \in 1..Len(log) /\ Between(log, b, e)
  <2>1. b \in 1..Len(log) /\ e \in 1..Len(log) /\ log[b] = Newline /\ log[e] = Newline
    BY <1>4 DEF Newlines
  <2>2. ASSUME NEW k \in b + 1..e - 1
        PROVE  log[k] # Newline
    <3>1. k \in 1..Len(log) /\ k > b /\ k # e
      BY <2>1, <1>1
    <3>2. QED
      BY <3>1, <1>4 DEF Newlines
  <2>3. \A k \in b + 1..e - 1 : log[k] # Newline
    BY <2>1, <2>2
  <2>4. QED
    BY <2>1, <2>3, <1>4 DEF Between
<1>6. PICK l \in Lines : Len(l) = e - b - 1 /\ \A k \in 1..Len(l) : log[b + k] = l[k]
  BY <1>5 DEF Whole
<1> DEFINE t == SubSeq(log, b + 1, e - 1)
<1>7. b + 1 \in Int /\ e - 1 \in Int /\ (\A i \in b + 1..e - 1 : log[i] \in Symbols)
      /\ Len(l) = (e - 1) - (b + 1) + 1 /\ Len(l) \in Nat
  BY <1>1, <1>5, <1>6, LinesAssumption
<1>8. /\ t \in Seq(Symbols) /\ Len(t) = Len(l)
      /\ \A k \in 1..Len(l) : t[k] = log[(b + 1) + k - 1]
  BY <1>7, SubSeqProperties
<1> HIDE DEF t
<1>9. l \in Seq(Symbols)
  <2>1. l \in Seq(Tokens) /\ Tokens \subseteq Symbols
    BY LinesAssumption DEF Symbols
  <2>2. QED
    BY <2>1, SeqMonotonic
<1>10. \A k \in 1..Len(l) : t[k] = l[k]
  <2>1. TAKE k \in 1..Len(l)
  <2>2. (b + 1) + k - 1 = b + k
    BY <1>5, <1>7
  <2>3. QED
    BY <2>2, <1>6, <1>8
<1>11. t = l
  BY <1>8, <1>9, <1>10, SeqEqual
<1>12. QED
  BY <1>3, <1>11 DEF t
-----------------------------------------------------------------------------
\* The line being written, or none, ends in the only newline of it.
LogInv ==
    /\ log \in Seq(Symbols) /\ Len(log) <= Window
    /\ unwritten \in Seq(Symbols)
    /\ Whole(log \o unwritten)
    /\ unwritten = <<>> => log = <<>> \/ log[Len(log)] = Newline
    /\ unwritten # <<>> =>
           /\ unwritten[Len(unwritten)] = Newline
           /\ \A k \in 1..Len(unwritten) - 1 : unwritten[k] # Newline

\* An end of what was there, followed by the same rest, is an end of the whole.
LEMMA EndJoined ==
    ASSUME NEW s \in Seq(Symbols), NEW t \in Seq(Symbols), NEW u \in Seq(Symbols), IsEnd(t, s)
    PROVE  t \o u \in Seq(Symbols) /\ s \o u \in Seq(Symbols) /\ IsEnd(t \o u, s \o u)
<1>1. /\ t \o u \in Seq(Symbols) /\ Len(t \o u) = Len(t) + Len(u)
      /\ \A i \in 1..Len(t) + Len(u) : (t \o u)[i] = IF i <= Len(t) THEN t[i] ELSE u[i - Len(t)]
  BY ConcatProperties
<1>2. /\ s \o u \in Seq(Symbols) /\ Len(s \o u) = Len(s) + Len(u)
      /\ \A i \in 1..Len(s) + Len(u) : (s \o u)[i] = IF i <= Len(s) THEN s[i] ELSE u[i - Len(s)]
  BY ConcatProperties
<1>3. Len(s) \in Nat /\ Len(t) \in Nat /\ Len(u) \in Nat /\ Len(t) <= Len(s)
  BY DEF IsEnd
<1>4. ASSUME NEW i \in 1..Len(t) + Len(u)
      PROVE  (t \o u)[i] = (s \o u)[Len(s) - Len(t) + i]
  <2> DEFINE j == Len(s) - Len(t) + i
  <2>1. j \in 1..Len(s) + Len(u) /\ (i <= Len(t) <=> j <= Len(s)) /\ i - Len(t) = j - Len(s)
    BY <1>3
  <2> HIDE DEF j
  <2>2. CASE i <= Len(t)
    <3>1. (t \o u)[i] = t[i] /\ (s \o u)[j] = s[j]
      BY <2>1, <2>2, <1>1, <1>2
    <3>2. t[i] = s[j]
      BY <2>2, <1>3 DEF IsEnd, j
    <3>3. QED
      BY <3>1, <3>2 DEF j
  <2>3. CASE ~(i <= Len(t))
    <3>1. (t \o u)[i] = u[i - Len(t)] /\ (s \o u)[j] = u[j - Len(s)]
      BY <2>1, <2>3, <1>1, <1>2
    <3>2. QED
      BY <3>1, <2>1 DEF j
  <2>4. QED
    BY <2>2, <2>3
<1>5. Len(s \o u) - Len(t \o u) = Len(s) - Len(t) /\ Len(t \o u) <= Len(s \o u)
  BY <1>1, <1>2, <1>3
<1>6. QED
  BY <1>1, <1>2, <1>4, <1>5 DEF IsEnd

\* The first piece of a line reaches the log, the rest waits.
LEMMA LineStarted ==
    ASSUME LogInv, NEW l \in Lines, NEW n \in Nat, n <= Len(l), StartLine(l, n)
    PROVE  LogInv'
<1> DEFINE a == SubSeq(l, 1, n)
           b == SubSeq(l, n + 1, Len(l))
           u == b \o <<Newline>>
<1>1. l \in Seq(Symbols) /\ Len(l) \in Nat /\ log \in Seq(Symbols) /\ (\A i \in 1..Len(l) : l[i] # Newline)
  <2>1. l \in Seq(Tokens) /\ Tokens \subseteq Symbols
    BY LinesAssumption DEF Symbols
  <2>2. l \in Seq(Symbols)
    BY <2>1, SeqMonotonic
  <2>3. \A i \in 1..Len(l) : l[i] # Newline
    BY <2>1, NewlineIsNoToken
  <2>4. QED
    BY <2>1, <2>2, <2>3 DEF LogInv
<1>2. /\ a \in Seq(Symbols) /\ Len(a) = n
      /\ \A i \in 1..n : a[i] = l[i]
  <2>1. 1 \in Int /\ n \in Int /\ (\A i \in 1..n : l[i] \in Symbols /\ 1 + i - 1 = i) /\ n - 1 + 1 = n
    BY <1>1
  <2>2. /\ a \in Seq(Symbols) /\ Len(a) = (IF 1 <= n THEN n - 1 + 1 ELSE 0)
        /\ \A i \in 1..n - 1 + 1 : a[i] = l[1 + i - 1]
    BY <2>1, SubSeqProperties
  <2>3. QED
    BY <2>1, <2>2
<1>3. /\ b \in Seq(Symbols) /\ Len(b) = Len(l) - n
      /\ \A i \in 1..Len(l) - n : b[i] = l[n + i]
  <2>1. /\ n + 1 \in Int /\ Len(l) \in Int /\ (\A i \in n + 1..Len(l) : l[i] \in Symbols)
        /\ Len(l) - (n + 1) + 1 = Len(l) - n /\ \A i \in 1..Len(l) - n : (n + 1) + i - 1 = n + i
    BY <1>1
  <2>2. /\ b \in Seq(Symbols) /\ Len(b) = (IF n + 1 <= Len(l) THEN Len(l) - (n + 1) + 1 ELSE 0)
        /\ \A i \in 1..Len(l) - (n + 1) + 1 : b[i] = l[(n + 1) + i - 1]
    BY <2>1, SubSeqProperties
  <2> HIDE DEF b
  <2>3. Len(b) = Len(l) - n
    <3>1. CASE n + 1 <= Len(l)
      BY <3>1, <2>1, <2>2
    <3>2. CASE ~(n + 1 <= Len(l))
      BY <3>2, <2>2, <1>1
    <3>3. QED
      BY <3>1, <3>2
  <2>4. \A i \in 1..Len(l) - n : b[i] = l[n + i]
    <3>1. TAKE i \in 1..Len(l) - n
    <3>2. b[i] = l[(n + 1) + i - 1] /\ (n + 1) + i - 1 = n + i
      BY <2>1, <2>2
    <3>3. QED
      BY <3>2
  <2>5. QED
    BY <2>2, <2>3, <2>4
<1>4. unwritten = <<>> /\ log' = Seen(log \o a) /\ unwritten' = u
  BY DEF StartLine
<1> HIDE DEF a, b
<1>5. /\ u \in Seq(Symbols) /\ Len(u) = Len(l) - n + 1 /\ u[Len(u)] = Newline
      /\ \A i \in 1..Len(l) - n : u[i] = l[n + i]
  <2>1. <<Newline>> \in Seq(Symbols) /\ Len(<<Newline>>) = 1 /\ <<Newline>>[1] = Newline
    BY DEF Symbols
  <2> DEFINE e == <<Newline>>
  <2> HIDE DEF e
  <2>2. e \in Seq(Symbols) /\ Len(e) = 1 /\ e[1] = Newline
    BY <2>1 DEF e
  <2>3. u = b \o e
    BY DEF e
  <2> HIDE DEF u
  <2>4. /\ u \in Seq(Symbols) /\ Len(u) = Len(b) + 1
        /\ \A i \in 1..Len(b) + 1 : u[i] = IF i <= Len(b) THEN b[i] ELSE e[i - Len(b)]
    BY <1>3, <2>2, <2>3, ConcatProperties
  <2>5. Len(b) \in Nat /\ Len(l) - n \in Nat
    BY <1>1, <1>3
  <2>6. u[Len(u)] = Newline
    BY <2>2, <2>4, <2>5
  <2>7. \A i \in 1..Len(l) - n : u[i] = l[n + i]
    BY <1>3, <2>4, <2>5
  <2>8. QED
    BY <1>3, <2>4, <2>5, <2>6, <2>7
<1> HIDE DEF u
<1> DEFINE s == log \o a
           w == s \o u
<1>6. /\ s \in Seq(Symbols) /\ Len(s) = Len(log) + n
      /\ \A i \in 1..Len(log) : s[i] = log[i]
      /\ \A i \in 1..n : s[Len(log) + i] = l[i]
  <2>1. /\ s \in Seq(Symbols) /\ Len(s) = Len(log) + Len(a)
        /\ \A i \in 1..Len(log) + Len(a) : s[i] = IF i <= Len(log) THEN log[i] ELSE a[i - Len(log)]
    BY <1>1, <1>2, ConcatProperties
  <2>2. QED
    BY <2>1, <1>1, <1>2
<1> HIDE DEF s
<1>7. /\ w \in Seq(Symbols) /\ Len(w) = Len(s) + Len(u)
      /\ \A i \in 1..Len(s) + Len(u) : w[i] = IF i <= Len(s) THEN s[i] ELSE u[i - Len(s)]
  BY <1>5, <1>6, ConcatProperties
<1> HIDE DEF w
<1>8. /\ Len(w) = Len(log) + Len(l) + 1
      /\ \A i \in 1..Len(log) : w[i] = log[i]
      /\ w[Len(w)] = Newline
  <2>1. Len(log) \in Nat /\ Len(s) = Len(log) + n /\ Len(u) = Len(l) - n + 1 /\ Len(u) \in Nat \ {0}
    BY <1>1, <1>5, <1>6
  <2>2. Len(w) = Len(s) + Len(u) /\ w[Len(w)] = u[Len(u)]
    BY <2>1, <1>7
  <2>3. \A i \in 1..Len(log) : w[i] = log[i]
    <3>1. TAKE i \in 1..Len(log)
    <3>2. i \in 1..Len(s) + Len(u) /\ i <= Len(s)
      BY <2>1
    <3>3. QED
      BY <3>2, <1>6, <1>7
  <2>4. QED
    BY <2>1, <2>2, <2>3, <1>1, <1>5
<1>9. \A i \in 1..Len(l) : w[Len(log) + i] = l[i]
  <2>1. TAKE i \in 1..Len(l)
  <2>2. CASE i <= n
    <3>1. i \in 1..n /\ Len(log) + i \in 1..Len(s) + Len(u) /\ Len(log) + i <= Len(s)
      BY <2>2, <1>1, <1>5, <1>6
    <3>2. QED
      BY <3>1, <1>6, <1>7
  <2>3. CASE ~(i <= n)
    <3>1. (i - n) \in 1..Len(l) - n /\ Len(log) + i \in 1..Len(s) + Len(u)
          /\ ~(Len(log) + i <= Len(s)) /\ Len(log) + i - Len(s) = i - n /\ n + (i - n) = i
      BY <2>3, <1>1, <1>5, <1>6
    <3>2. u[i - n] = l[n + (i - n)]
      <4>1. \A j \in 1..Len(l) - n : u[j] = l[n + j]
        BY <1>5
      <4>2. QED
        BY <3>1, <4>1
    <3>3. w[Len(log) + i] = u[Len(log) + i - Len(s)]
      BY <3>1, <1>7
    <3>4. QED
      BY <3>1, <3>2, <3>3
  <2>4. QED
    BY <2>2, <2>3
<1>10. Whole(log) /\ (log = <<>> \/ log[Len(log)] = Newline)
  BY <1>1, <1>4, ConcatEmptySeq DEF LogInv
<1>11. Whole(w)
  BY <1>1, <1>7, <1>8, <1>9, <1>10, LineAppended
<1>12. /\ Seen(s) \in Seq(Symbols) /\ Len(Seen(s)) <= Window /\ IsEnd(Seen(s), s)
  BY <1>6, SeenIsEnd
<1>13. log' = Seen(s)
  BY <1>4 DEF s
<1>14. log' \o u \in Seq(Symbols) /\ IsEnd(log' \o u, w)
  BY <1>5, <1>6, <1>12, <1>13, EndJoined DEF w
<1>15. Whole(log' \o u)
  BY <1>7, <1>11, <1>14, EndOfWhole
<1>16. u # <<>> /\ \A k \in 1..Len(u) - 1 : u[k] # Newline
  <2>1. Len(u) > 0 /\ Len(u) - 1 = Len(l) - n
    BY <1>1, <1>5
  <2>2. u # <<>>
    BY <2>1, <1>5, NotEmpty
  <2>3. ASSUME NEW k \in 1..Len(l) - n
        PROVE  u[k] # Newline
    <3>1. n + k \in 1..Len(l)
      BY <1>1
    <3>2. QED
      BY <3>1, <1>1, <1>5
  <2>4. QED
    BY <2>1, <2>2, <2>3
<1>17. QED
  BY <1>4, <1>5, <1>12, <1>13, <1>15, <1>16 DEF LogInv

\* The rest of the line follows.
LEMMA LineEnded ==
    ASSUME LogInv, EndLine
    PROVE  LogInv'
<1> DEFINE s == log \o unwritten
<1>1. /\ s \in Seq(Symbols) /\ Len(s) = Len(log) + Len(unwritten)
      /\ \A i \in 1..Len(log) + Len(unwritten) :
             s[i] = IF i <= Len(log) THEN log[i] ELSE unwritten[i - Len(log)]
  BY ConcatProperties DEF LogInv
<1>2. /\ unwritten # <<>> /\ log' = Seen(s) /\ unwritten' = <<>>
      /\ log \in Seq(Symbols) /\ unwritten \in Seq(Symbols) /\ Whole(s)
      /\ unwritten[Len(unwritten)] = Newline
  BY DEF EndLine, LogInv
<1> HIDE DEF s
<1>3. Len(unwritten) \in Nat \ {0} /\ Len(log) \in Nat
  BY <1>2, EmptySeq
<1>4. s[Len(s)] = Newline /\ s # <<>>
  BY <1>1, <1>2, <1>3, EmptySeq
<1>5. /\ log' \in Seq(Symbols) /\ Len(log') <= Window /\ IsEnd(log', s) /\ Len(log') > 0
  BY <1>1, <1>2, <1>4, SeenIsEnd
<1>6. Whole(log')
  BY <1>1, <1>2, <1>5, EndOfWhole
<1>7. log'[Len(log')] = Newline
  <2>1. Len(log') \in 1..Len(log') /\ Len(s) - Len(log') + Len(log') = Len(s)
    BY <1>1, <1>3, <1>5
  <2>2. QED
    BY <2>1, <1>4, <1>5 DEF IsEnd
<1>8. log' \o unwritten' = log' /\ unwritten' \in Seq(Symbols)
  BY <1>2, <1>5, ConcatEmptySeq
<1>9. QED
  BY <1>2, <1>5, <1>6, <1>7, <1>8 DEF LogInv
-----------------------------------------------------------------------------
\* The reader holds one whole line of the log, or none.
WholeLine == IF phase = "idle" THEN line = <<>> ELSE line \in Lines

\* While the tree is walked, the list holds the scalars of this tree that have a
\* name, those visited so far, and nothing else.
FromThisTree ==
    phase = "walk" =>
        /\ \A n \in 1..walked : IsSensor(nodes[n]) =>
               \E i \in 1..Len(sensors) :
                   sensors[i].name = nodes[n].key /\ sensors[i].type = nodes[n].type
        /\ \A i \in 1..Len(sensors) : \E n \in 1..walked :
               /\ IsSensor(nodes[n])
               /\ sensors[i].name = nodes[n].key /\ sensors[i].type = nodes[n].type

\* The round: nothing is walked before the walk.
RoundInv ==
    /\ mode \in {"off", "value", "key", "return", "done", "failed"}
    /\ errno \in {"other", "ERANGE"}
    /\ phase \in {"idle", "parse", "walk"}
    /\ walked \in Nat /\ walked <= Len(nodes) /\ (phase # "walk" => walked = 0)
    /\ sensors \in Seq(Sensor)

\* The inductive invariant.
Inv == TreeInv /\ LogInv /\ RoundInv /\ WholeLine /\ FromThisTree

\* A scalar with a name is added as a sensor.
LEMMA SensorAdded ==
    ASSUME TreeInv, RoundInv, FromThisTree, AddSensor
    PROVE  sensors' \in Seq(Sensor) /\ FromThisTree'
<1> DEFINE node == nodes[walked + 1]
           s == [name |-> node.key, type |-> node.type]
<1>1. /\ phase = "walk" /\ phase' = "walk" /\ walked \in Nat /\ walked' = walked + 1
      /\ nodes' = nodes /\ nodes \in Seq(Node) /\ sensors \in Seq(Sensor)
      /\ walked + 1 \in 1..Len(nodes)
  BY DEF AddSensor, parser, TreeInv, Typed, RoundInv
<1>2. node \in Node
  BY <1>1, ElementOfSeq
<1>3. sensors' = IF IsSensor(node) THEN Append(sensors, s) ELSE sensors
  BY DEF AddSensor
<1>4. \A n \in 1..walked' : n \in 1..walked \/ n = walked + 1
  BY <1>1
<1>5. \A n \in 1..walked : n \in 1..walked'
  BY <1>1
<1>6. CASE IsSensor(node)
  <2>1. s \in Sensor /\ s.name = node.key /\ s.type = node.type
    BY <1>2, <1>6 DEF IsSensor, Sensor, Node
  <2> HIDE DEF s
  <2>2. /\ sensors' \in Seq(Sensor) /\ Len(sensors') = Len(sensors) + 1 /\ Len(sensors) \in Nat
        /\ \A i \in 1..Len(sensors) : sensors'[i] = sensors[i]
        /\ sensors'[Len(sensors) + 1] = s
    BY <1>1, <1>3, <1>6, <2>1, Appended
  <2>3. ASSUME NEW n \in 1..walked', IsSensor(nodes'[n])
        PROVE  \E i \in 1..Len(sensors') :
                   sensors'[i].name = nodes'[n].key /\ sensors'[i].type = nodes'[n].type
    <3>1. CASE n \in 1..walked
      <4>1. PICK i \in 1..Len(sensors) :
                   sensors[i].name = nodes[n].key /\ sensors[i].type = nodes[n].type
        BY <3>1, <2>3, <1>1 DEF FromThisTree
      <4>2. i \in 1..Len(sensors') /\ sensors'[i] = sensors[i]
        BY <2>2
      <4>3. QED
        BY <4>1, <4>2, <1>1
    <3>2. CASE n = walked + 1
      <4>1. Len(sensors) + 1 \in 1..Len(sensors')
        BY <2>2
      <4>2. QED
        BY <4>1, <3>2, <2>1, <2>2, <1>1
    <3>3. QED
      BY <3>1, <3>2, <1>4
  <2>4. ASSUME NEW i \in 1..Len(sensors')
        PROVE  \E n \in 1..walked' :
                   /\ IsSensor(nodes'[n])
                   /\ sensors'[i].name = nodes'[n].key /\ sensors'[i].type = nodes'[n].type
    <3>1. CASE i \in 1..Len(sensors)
      <4>1. PICK n \in 1..walked : IsSensor(nodes[n])
                   /\ sensors[i].name = nodes[n].key /\ sensors[i].type = nodes[n].type
        BY <3>1, <1>1 DEF FromThisTree
      <4>2. n \in 1..walked' /\ sensors'[i] = sensors[i]
        BY <3>1, <1>5, <2>2
      <4>3. QED
        BY <4>1, <4>2, <1>1
    <3>2. CASE i = Len(sensors) + 1
      <4>1. walked + 1 \in 1..walked'
        BY <1>1
      <4>2. QED
        BY <4>1, <3>2, <2>1, <2>2, <1>1, <1>6
    <3>3. QED
      BY <3>1, <3>2, <2>2
  <2>5. QED
    BY <2>2, <2>3, <2>4 DEF FromThisTree
<1>7. CASE ~IsSensor(node)
  <2>1. sensors' = sensors
    BY <1>3, <1>7
  <2>2. ASSUME NEW n \in 1..walked', IsSensor(nodes'[n])
        PROVE  n \in 1..walked
    BY <2>2, <1>1, <1>4, <1>7
  <2>3. QED
    BY <2>1, <2>2, <1>1, <1>5 DEF FromThisTree
<1>8. QED
  BY <1>6, <1>7

\* The invariant holds in every state.
THEOREM InvCorrect == Spec => []Inv
<1>1. Init => Inv
  <2> SUFFICES ASSUME Init PROVE Inv
    OBVIOUS
  <2>1. TreeInv
    BY EmptySeq DEF Init, ParserInit, TreeInv, Typed, StackInv, OneTree
  <2>2. LogInv
    <3>1. log = <<>> /\ unwritten = <<>>
      BY DEF Init
    <3>2. <<>> \in Seq(Symbols) /\ Len(<<>>) = 0
      BY EmptySeq
    <3>3. log \o unwritten = <<>>
      BY <3>1, <3>2, ConcatEmptySeq
    <3>4. Whole(<<>>)
      BY <3>2 DEF Whole
    <3>5. Window > 0 /\ Window \in Nat
      BY WindowAssumption
    <3>6. QED
      BY <3>1, <3>2, <3>3, <3>4, <3>5 DEF LogInv
  <2>3. RoundInv
    BY EmptySeq DEF Init, ParserInit, RoundInv
  <2>4. WholeLine /\ FromThisTree
    BY DEF Init, WholeLine, FromThisTree
  <2>5. QED
    BY <2>1, <2>2, <2>3, <2>4 DEF Inv
<1>2. Inv /\ [Next]_vars => Inv'
  <2> SUFFICES ASSUME Inv, [Next]_vars PROVE Inv'
    OBVIOUS
  <2> USE DEF Inv
  <2>1. ASSUME NEW l \in Lines, NEW n \in Pieces, StartLine(l, Min({n, Len(l)}))
        PROVE  Inv'
    <3>1. n \in Nat /\ Len(l) \in Nat
      BY LinesAssumption, WindowAssumption
    <3>2. Min({n, Len(l)}) \in Nat /\ Min({n, Len(l)}) <= Len(l)
      BY <3>1, MinOfTwo
    <3>3. LogInv'
      BY <2>1, <3>2, LineStarted
    <3>4. UNCHANGED <<text, stack, nodes, key, mode, errno, phase, line, walked, sensors>>
      BY <2>1 DEF StartLine, parser
    <3>5. TreeInv' /\ RoundInv' /\ WholeLine' /\ FromThisTree'
      BY <3>4 DEF TreeInv, Typed, StackInv, OneTree, RoundInv, WholeLine, FromThisTree
    <3>6. QED
      BY <3>3, <3>5
  <2>2. CASE EndLine
    <3>1. UNCHANGED <<text, stack, nodes, key, mode, errno, phase, line, walked, sensors>>
      BY <2>2 DEF EndLine, parser
    <3>2. TreeInv' /\ RoundInv' /\ WholeLine' /\ FromThisTree'
      BY <3>1 DEF TreeInv, Typed, StackInv, OneTree, RoundInv, WholeLine, FromThisTree
    <3>3. QED
      BY <2>2, <3>2, LineEnded
  <2>3. CASE Rotate
    <3>1. UNCHANGED <<text, stack, nodes, key, mode, errno, phase, line, walked, sensors, unwritten>>
          /\ log' = <<>>
      BY <2>3 DEF Rotate, parser
    <3>2. TreeInv' /\ RoundInv' /\ WholeLine' /\ FromThisTree'
      BY <3>1 DEF TreeInv, Typed, StackInv, OneTree, RoundInv, WholeLine, FromThisTree
    <3>3. <<>> \in Seq(Symbols) /\ Len(<<>>) = 0 /\ unwritten \in Seq(Symbols)
      BY EmptySeq DEF LogInv
    <3>4. log' \o unwritten' = unwritten
      BY <3>1, <3>3, ConcatEmptySeq
    <3>5. Whole(unwritten)
      <4>1. CASE unwritten = <<>>
        BY <4>1, <3>3 DEF Whole
      <4>2. CASE unwritten # <<>>
        <5>1. Len(unwritten) \in Nat /\ \A k \in 1..Len(unwritten) - 1 : unwritten[k] # Newline
          BY <4>2, <3>3 DEF LogInv
        <5>2. \A i, j \in 1..Len(unwritten) : ~Between(unwritten, i, j)
          <6>1. SUFFICES ASSUME NEW i \in 1..Len(unwritten), NEW j \in 1..Len(unwritten),
                                i < j, unwritten[i] = Newline
                         PROVE  FALSE
            BY DEF Between
          <6>2. i \in 1..Len(unwritten) - 1
            BY <6>1, <5>1
          <6>3. QED
            BY <6>1, <6>2, <5>1
        <5>3. QED
          BY <5>2 DEF Whole
      <4>3. QED
        BY <4>1, <4>2
    <3>6. Window > 0 /\ Window \in Nat
      BY WindowAssumption
    <3>7. LogInv'
      BY <3>1, <3>3, <3>4, <3>5, <3>6 DEF LogInv
    <3>8. QED
      BY <3>2, <3>7
  <2> DEFINE SameLog == UNCHANGED <<log, unwritten>>
  <2>4. SameLog => LogInv'
    BY DEF LogInv
  <2>5. CASE ErrnoChanges
    BY <2>4, <2>5 DEF ErrnoChanges, weather, TreeInv, Typed, StackInv, OneTree, RoundInv,
       WholeLine, FromThisTree
  <2>6. CASE ReadLine
    <3>1. log \o unwritten \in Seq(Symbols) /\ log \in Seq(Symbols) /\ unwritten \in Seq(Symbols)
      BY ConcatProperties DEF LogInv
    <3>2. /\ Len(log) \in Nat /\ Len(unwritten) \in Nat
          /\ Len(log \o unwritten) = Len(log) + Len(unwritten)
          /\ \A i \in 1..Len(log) + Len(unwritten) :
                 (log \o unwritten)[i] = IF i <= Len(log) THEN log[i] ELSE unwritten[i - Len(log)]
      BY <3>1, ConcatProperties
    <3>3. Len(log) <= Len(log \o unwritten) /\ \A i \in 1..Len(log) : log[i] = (log \o unwritten)[i]
      BY <3>2
    <3>4. Whole(log)
      BY <3>1, <3>3, StartOfWhole DEF LogInv
    <3>5. LastLine \in Lines /\ LastLine \in Seq(Tokens)
      BY <2>6, <3>1, <3>4, LastLineWhole, LinesAssumption DEF ReadLine
    <3>6. /\ line' = LastLine /\ text' = LastLine /\ stack' = <<>> /\ nodes' = <<>>
          /\ key' = NoKey /\ mode' = "value" /\ phase = "idle" /\ phase' = "parse"
          /\ UNCHANGED <<log, unwritten, walked, sensors, errno>>
      BY <2>6 DEF ReadLine, Begin
    <3>7. /\ <<>> \in Seq(Nat) /\ <<>> \in Seq(Node) /\ Len(<<>>) = 0
      BY EmptySeq
    <3>8. TreeInv'
      BY <3>5, <3>6, <3>7 DEF TreeInv, Typed, StackInv, OneTree
    <3>9. RoundInv' /\ WholeLine' /\ FromThisTree'
      BY <3>5, <3>6, <3>7 DEF RoundInv, WholeLine, FromThisTree
    <3>10. QED
      BY <2>4, <3>6, <3>8, <3>9
  <2>7. CASE ParseLine
    <3>1. phase = "parse" /\ UNCHANGED <<log, unwritten, phase, line, walked, sensors>> /\ Parse
      BY <2>7 DEF ParseLine, weather
    <3>2. TreeInv'
      BY <3>1, ParseKeepsTree
    <3>3. RoundInv'
      <4>1. Len(nodes') \in Nat /\ walked = 0
        BY <3>1, <3>2 DEF TreeInv, Typed, RoundInv
      <4>2. /\ mode' \in {"off", "value", "key", "return", "done", "failed"}
            /\ errno' \in {"other", "ERANGE"}
        BY <3>1 DEF RoundInv, Parse, SkipInValue, SkipInKey, CloseInValue, NextItem, NextKey, Finish,
           OpenObject, OpenArray, Scalar, InvalidNumber, UnexpectedInValue, UnexpectedInKey,
           CloseObject, CloseArray, KeyFound
      <4>3. QED
        BY <3>1, <4>1, <4>2 DEF RoundInv
    <3>4. QED
      BY <2>4, <3>1, <3>2, <3>3 DEF WholeLine, FromThisTree
  <2>8. CASE Discard \/ EndRound
    <3>1. /\ nodes' = <<>> /\ stack' = <<>> /\ text' = <<>> /\ key' = NoKey /\ mode' = "off"
          /\ phase' = "idle" /\ line' = <<>> /\ UNCHANGED <<log, unwritten, sensors, errno>>
          /\ walked' = 0
      BY <2>8 DEF Discard, EndRound, Release, RoundInv
    <3>2. /\ <<>> \in Seq(Nat) /\ <<>> \in Seq(Node) /\ <<>> \in Seq(Tokens) /\ Len(<<>>) = 0
      BY EmptySeq
    <3>3. TreeInv'
      BY <3>1, <3>2 DEF TreeInv, Typed, StackInv, OneTree
    <3>4. RoundInv' /\ WholeLine' /\ FromThisTree'
      BY <3>1, <3>2 DEF RoundInv, WholeLine, FromThisTree
    <3>5. QED
      BY <2>4, <3>1, <3>3, <3>4
  <2>9. CASE Clear
    <3>1. /\ phase = "parse" /\ phase' = "walk" /\ walked' = 0 /\ sensors' = <<>>
          /\ UNCHANGED <<text, stack, nodes, key, mode, errno, log, unwritten, line>>
      BY <2>9 DEF Clear, parser
    <3>2. <<>> \in Seq(Sensor) /\ Len(<<>>) = 0 /\ Len(nodes) \in Nat
      BY EmptySeq DEF TreeInv, Typed
    <3>3. TreeInv'
      BY <3>1 DEF TreeInv, Typed, StackInv, OneTree
    <3>4. RoundInv' /\ WholeLine' /\ FromThisTree'
      BY <3>1, <3>2 DEF RoundInv, WholeLine, FromThisTree
    <3>5. QED
      BY <2>4, <3>1, <3>3, <3>4
  <2>10. CASE AddSensor
    <3>1. /\ phase = "walk" /\ phase' = phase /\ walked' = walked + 1 /\ walked < Len(nodes)
          /\ UNCHANGED <<text, stack, nodes, key, mode, errno, log, unwritten, line>>
      BY <2>10 DEF AddSensor, parser
    <3>2. sensors' \in Seq(Sensor) /\ FromThisTree'
      BY <2>10, SensorAdded
    <3>3. TreeInv'
      BY <3>1 DEF TreeInv, Typed, StackInv, OneTree
    <3>4. RoundInv' /\ WholeLine'
      BY <3>1, <3>2 DEF RoundInv, WholeLine, TreeInv, Typed
    <3>5. QED
      BY <2>4, <3>1, <3>2, <3>3, <3>4
  <2>11. CASE UNCHANGED vars
    BY <2>4, <2>11 DEF vars, parser, weather, TreeInv, Typed, StackInv, OneTree, RoundInv,
       WholeLine, FromThisTree
  <2>12. QED
    BY <2>1, <2>2, <2>3, <2>5, <2>6, <2>7, <2>8, <2>9, <2>10, <2>11 DEF Next, Writer, Reader
<1>3. QED
  BY <1>1, <1>2, PTL DEF Spec

\* The nodes form one tree below the first child of the root, whatever the line
\* and however the parse ends: nx_json_free() of it frees them all.
THEOREM OneTreeCorrect == Spec => []OneTree
<1>1. Inv => OneTree
  BY DEF Inv, TreeInv
<1>2. QED
  BY <1>1, InvCorrect, PTL

\* get_last_line_from_file() never gives the parser a piece of a line, whatever
\* the buffer cuts off, however the line reaches the log and whenever the log is
\* rotated.
THEOREM WholeLineCorrect == Spec => []WholeLine
<1>1. Inv => WholeLine
  BY DEF Inv
<1>2. QED
  BY <1>1, InvCorrect, PTL

\* weather_clear() and add_sensor_value() leave in the list what the tree says,
\* nothing of an earlier line.
THEOREM FromThisTreeCorrect == Spec => []FromThisTree
<1>1. Inv => FromThisTree
  BY DEF Inv
<1>2. QED
  BY <1>1, InvCorrect, PTL

\* Every variable of the round and of the parser has its type.
THEOREM TypeCorrect == Spec => []TypeOK
<1>1. Inv => TypeOK
  <2> SUFFICES ASSUME Inv PROVE TypeOK
    OBVIOUS
  <2>1. line \in Seq(Tokens)
    BY LinesAssumption, EmptySeq DEF Inv, WholeLine
  <2>2. stack \in Seq(1..Len(nodes))
    <3>1. stack \in Seq(Nat) /\ Len(stack) \in Nat /\ Len(nodes) \in Nat
      BY DEF Inv, TreeInv, Typed
    <3>2. \A i \in 1..Len(stack) : stack[i] \in 1..Len(nodes)
      BY <3>1, ElementOfSeq DEF Inv, TreeInv, StackInv
    <3>3. QED
      BY <3>1, <3>2
  <2>3. walked \in 0..Len(nodes)
    BY DEF Inv, TreeInv, Typed, RoundInv
  <2>4. QED
    BY <2>1, <2>2, <2>3 DEF Inv, TypeOK, ParserTypeOK, TreeInv, Typed, LogInv, RoundInv, Symbols
<1>2. QED
  BY <1>1, InvCorrect, PTL
-----------------------------------------------------------------------------
\* The marks by name: the SMT backend cannot be given their characters.
Comma == ","
Colon == ":"
Curly == "{"
Square == "["
EndCurly == "}"
EndSquare == "]"
Opener == {Curly, Square}
Closer == {EndCurly, EndSquare}

\* They differ.
LEMMA MarksDiffer ==
    /\ Comma # Colon
    /\ Comma \notin Opener \cup Closer /\ Colon \notin Opener \cup Closer
    /\ Opener \cap Closer = {} /\ Curly # Square /\ EndCurly # EndSquare
    /\ Curly \in Opener /\ Square \in Opener /\ EndCurly \in Closer /\ EndSquare \in Closer
    /\ \A x \in Opener : x = Curly \/ x = Square
    /\ \A x \in Closer : x = EndCurly \/ x = EndSquare
BY Zenon DEF Comma, Colon, Curly, Square, EndCurly, EndSquare, Opener, Closer

\* The name that stands before token i, if any, and what a token becomes.
NameAt(l, i) == IF Colons(l, i) = {} THEN NoKey ELSE KeyAt(l, i)
TypeOfToken(t) == IF t = Curly THEN "object" ELSE IF t = Square THEN "array" ELSE TypeOf(t)
MadeBy == Names \cup {"int", "dbl", "bool", "null"} \cup Opener
IsTold(l, i) == l[i] \in Names \cup {"int", "dbl", "bool"} /\ Colons(l, i) # {} /\ KeyAt(l, i) # ""

\* The first p tokens are legal and leave d brackets open.
Sound(l, p, d) ==
    /\ \A i \in 1..p : Legal(l, i)
    /\ \A j \in 1..p + 1 : Depth(l, j) >= 0
    /\ Depth(l, p + 1) = d

\* Token k became this node.
Became(l, k, node) ==
    /\ l[k] \in MadeBy
    /\ node.type = TypeOfToken(l[k])
    /\ node.key = NameAt(l, k)
    /\ Colons(l, k) # {} => node.key \in Names

\* Token k opened the container at height d of the stack, which is open since.
Opens(l, p, k, d) ==
    /\ l[k] \in Opener
    /\ Depth(l, k) = d - 1
    /\ \A j \in k + 1..p + 1 : Depth(l, j) >= d

\* The nodes ns came from the tokens at, and the open ones st are still open.
Places(l, p, ns, st, at) ==
    /\ at \in [1..Len(ns) -> 1..p]
    /\ \A m, n \in 1..Len(ns) : m < n => at[m] < at[n]
    /\ \A n \in 1..Len(ns) : Became(l, at[n], ns[n])
    /\ \A i \in 1..p : IsTold(l, i) => \E n \in 1..Len(ns) : at[n] = i
    /\ \A d \in 1..Len(st) : Opens(l, p, at[st[d]], d)
    /\ ns # <<>> => Skipped(l, 1, at[1]) /\ \A j \in at[1] + 1..p : Depth(l, j) > 0

\* One token more may be one bracket more.
LEMMA CountStep ==
    ASSUME NEW l, NEW S, NEW i \in Nat, i >= 1
    PROVE  /\ Cardinality({k \in 1..i - 1 : l[k] \in S}) \in Nat
           /\ Cardinality({k \in 1..(i + 1) - 1 : l[k] \in S}) =
                  Cardinality({k \in 1..i - 1 : l[k] \in S}) + (IF l[i] \in S THEN 1 ELSE 0)
<1> DEFINE A == {k \in 1..i - 1 : l[k] \in S}
           B == {k \in 1..(i + 1) - 1 : l[k] \in S}
<1>1. IsFiniteSet(A)
  <2>1. IsFiniteSet(1..i - 1) /\ A \in SUBSET (1..i - 1)
    <3>1. 1 \in Int /\ i - 1 \in Int
      OBVIOUS
    <3>2. QED
      BY <3>1, FS_Interval
  <2>2. QED
    BY <2>1, FS_Subset
<1>2. Cardinality(A) \in Nat
  BY <1>1, FS_CardinalityType
<1>3. B = IF l[i] \in S THEN A \cup {i} ELSE A
  OBVIOUS
<1>4. i \notin A
  OBVIOUS
<1> HIDE DEF A, B
<1>5. Cardinality(B) = Cardinality(A) + (IF l[i] \in S THEN 1 ELSE 0)
  BY <1>1, <1>2, <1>3, <1>4, FS_AddElement
<1>6. QED
  BY <1>2, <1>5 DEF A, B

\* The definitions of Weather with the marks by name.
LEMMA DepthIs ==
    ASSUME NEW l, NEW i
    PROVE  Depth(l, i) = Cardinality({k \in 1..i - 1 : l[k] \in Opener})
                             - Cardinality({k \in 1..i - 1 : l[k] \in Closer})
BY Zenon DEF Depth, Opener, Closer, Curly, Square, EndCurly, EndSquare

LEMMA SkippedIs ==
    ASSUME NEW l, NEW k, NEW i
    PROVE  Skipped(l, k, i) <=> \A j \in k..i - 1 : l[j] = Comma
BY Zenon DEF Skipped, Comma

LEMMA ColonsIs ==
    ASSUME NEW l, NEW i
    PROVE  Colons(l, i) = {k \in 1..i - 1 : l[k] = Colon /\ Skipped(l, k + 1, i)}
BY Zenon DEF Colons, Colon

\* In front of the line no bracket is open.
LEMMA DepthStart ==
    ASSUME NEW l
    PROVE  Depth(l, 1) = 0
<1>1. {k \in 1..1 - 1 : l[k] \in Opener} = {} /\ {k \in 1..1 - 1 : l[k] \in Closer} = {}
  OBVIOUS
<1>2. Cardinality({}) = 0
  BY FS_EmptySet
<1>3. QED
  BY <1>1, <1>2, DepthIs

\* What a token does to the number of open brackets.
LEMMA DepthStep ==
    ASSUME NEW l, NEW i \in Nat, i >= 1
    PROVE  /\ Depth(l, i) \in Int /\ Depth(l, i + 1) \in Int
           /\ l[i] \in Opener => Depth(l, i + 1) = Depth(l, i) + 1
           /\ l[i] \in Closer => Depth(l, i + 1) = Depth(l, i) - 1
           /\ l[i] \notin Opener \cup Closer => Depth(l, i + 1) = Depth(l, i)
<1> DEFINE a(n) == Cardinality({k \in 1..n - 1 : l[k] \in Opener})
           b(n) == Cardinality({k \in 1..n - 1 : l[k] \in Closer})
<1>1. a(i) \in Nat /\ a(i + 1) = a(i) + (IF l[i] \in Opener THEN 1 ELSE 0)
  BY CountStep
<1>2. b(i) \in Nat /\ b(i + 1) = b(i) + (IF l[i] \in Closer THEN 1 ELSE 0)
  BY CountStep
<1>3. Depth(l, i) = a(i) - b(i) /\ Depth(l, i + 1) = a(i + 1) - b(i + 1)
  BY DepthIs
<1> HIDE DEF a, b
<1>4. QED
  BY <1>1, <1>2, <1>3, MarksDiffer

\* What a token does to the run of commas it ends.
LEMMA SkippedStep ==
    ASSUME NEW l, NEW k \in Nat, NEW i \in Nat, k <= i
    PROVE  Skipped(l, k, i + 1) <=> Skipped(l, k, i) /\ l[i] = Comma
<1>1. k..(i + 1) - 1 = (k..i - 1) \cup {i}
  OBVIOUS
<1>2. QED
  BY <1>1, SkippedIs, Zenon

\* The colon a value stands behind is the last token but commas.
LEMMA ColonsStep ==
    ASSUME NEW l, NEW i \in Nat, i >= 1
    PROVE  /\ l[i] = Colon => Colons(l, i + 1) = {i}
           /\ l[i] = Comma => Colons(l, i + 1) = Colons(l, i)
           /\ l[i] \notin {Colon, Comma} => Colons(l, i + 1) = {}
<1>1. Colons(l, i) = {k \in 1..i - 1 : l[k] = Colon /\ Skipped(l, k + 1, i)}
  BY ColonsIs
<1>2. Colons(l, i + 1) = {k \in 1..(i + 1) - 1 : l[k] = Colon /\ Skipped(l, k + 1, i + 1)}
  BY ColonsIs
<1>3. \A k \in 1..i : k + 1 <= i => (Skipped(l, k + 1, i + 1) <=> Skipped(l, k + 1, i) /\ l[i] = Comma)
  BY SkippedStep
<1>4. Skipped(l, i + 1, i + 1)
  <2>1. (i + 1)..(i + 1) - 1 = {}
    OBVIOUS
  <2>2. QED
    BY <2>1, SkippedIs, Zenon
<1>5. \A k \in 1..(i + 1) - 1 : k = i \/ (k \in 1..i - 1 /\ k \in 1..i /\ k + 1 <= i)
  OBVIOUS
<1>6. \A k \in 1..i - 1 : k \in 1..(i + 1) - 1 /\ k \in 1..i /\ k + 1 <= i
  OBVIOUS
<1>7. i \in 1..(i + 1) - 1 /\ i \notin 1..i - 1
  OBVIOUS
<1>8. Comma # Colon
  BY MarksDiffer
<1>9. ASSUME l[i] = Colon
      PROVE  Colons(l, i + 1) = {i}
  BY <1>2, <1>3, <1>4, <1>5, <1>7, <1>8, <1>9, Zenon
<1>10. ASSUME l[i] = Comma
      PROVE  Colons(l, i + 1) = Colons(l, i)
  BY <1>1, <1>2, <1>3, <1>5, <1>6, <1>8, <1>10, Zenon
<1>11. ASSUME l[i] \notin {Colon, Comma}
      PROVE  Colons(l, i + 1) = {}
  BY <1>2, <1>3, <1>5, <1>11, Zenon
<1>12. QED
  BY <1>9, <1>10, <1>11, Zenon

\* Behind nothing but commas there is no colon, and no bracket is open.
LEMMA OnlyCommas ==
    ASSUME NEW l, NEW i \in Nat, i >= 1, Skipped(l, 1, i)
    PROVE  Colons(l, i) = {}
BY ColonsIs, SkippedIs, MarksDiffer

\* Where a key stands its name is read off.
LEMMA NameStep ==
    ASSUME NEW l, NEW i \in Nat, i >= 1
    PROVE  /\ l[i] = Colon => NameAt(l, i + 1) = l[i - 1]
           /\ l[i] = Comma => NameAt(l, i + 1) = NameAt(l, i)
           /\ l[i] \notin {Colon, Comma} => NameAt(l, i + 1) = NoKey
<1>1. ASSUME l[i] = Colon
      PROVE  NameAt(l, i + 1) = l[i - 1]
  <2>1. Colons(l, i + 1) = {i}
    BY <1>1, ColonsStep
  <2>2. (CHOOSE k \in {i} : TRUE) = i
    OBVIOUS
  <2>3. QED
    BY <2>1, <2>2 DEF NameAt, KeyAt
<1>2. ASSUME l[i] = Comma
      PROVE  NameAt(l, i + 1) = NameAt(l, i)
  <2>1. Colons(l, i + 1) = Colons(l, i)
    BY <1>2, ColonsStep
  <2> DEFINE name(C) == IF C = {} THEN NoKey ELSE l[(CHOOSE k \in C : TRUE) - 1]
  <2>2. NameAt(l, i + 1) = name(Colons(l, i + 1)) /\ NameAt(l, i) = name(Colons(l, i))
    BY DEF NameAt, KeyAt
  <2> HIDE DEF name
  <2>3. QED
    BY <2>1, <2>2
<1>3. ASSUME l[i] \notin {Colon, Comma}
      PROVE  NameAt(l, i + 1) = NoKey
  BY <1>3, ColonsStep DEF NameAt
<1>4. QED
  BY <1>1, <1>2, <1>3

\* A token stands in the brackets that were opened last.
LEMMA WithinInnermost ==
    ASSUME NEW l, NEW i \in Nat, NEW k \in 1..i - 1, NEW mark,
           \A j \in 1..i : Depth(l, j) \in Int,
           Depth(l, k) = Depth(l, i) - 1,
           \A j \in k + 1..i : Depth(l, j) >= Depth(l, i),
           l[k] \in Opener
    PROVE  Within(l, i, mark) <=> l[k] = mark
<1>1. ASSUME l[k] = mark
      PROVE  Within(l, i, mark)
  <2>1. \A j \in k + 1..i : Depth(l, j) > Depth(l, k)
    <3>1. TAKE j \in k + 1..i
    <3>2. j \in 1..i /\ i \in 1..i /\ k \in 1..i
      OBVIOUS
    <3>3. QED
      BY <3>2
  <2>2. QED
    BY <1>1, <2>1 DEF Within
<1>2. ASSUME Within(l, i, mark)
      PROVE  l[k] = mark
  <2>1. PICK m \in 1..i - 1 : /\ l[m] = mark /\ Depth(l, m) = Depth(l, i) - 1
                              /\ \A j \in m + 1..i : Depth(l, j) > Depth(l, m)
    BY <1>2 DEF Within
  <2>2. Depth(l, i) \in Int /\ Depth(l, k) \in Int /\ Depth(l, m) \in Int
    OBVIOUS
  <2>3. ~(m < k)
    <3>1. SUFFICES ASSUME m < k PROVE FALSE
      OBVIOUS
    <3>2. k \in m + 1..i
      BY <3>1
    <3>3. QED
      BY <3>2, <2>1, <2>2
  <2>4. ~(k < m)
    <3>1. SUFFICES ASSUME k < m PROVE FALSE
      OBVIOUS
    <3>2. m \in k + 1..i
      BY <3>1
    <3>3. QED
      BY <3>2, <2>1, <2>2
  <2>5. k = m
    BY <2>3, <2>4
  <2>6. QED
    BY <2>1, <2>5
<1>3. QED
  BY <1>1, <1>2

\* Where no bracket is open a token stands in none.
LEMMA WithinNone ==
    ASSUME NEW l, NEW i \in Nat, NEW mark, Depth(l, i) = 0,
           \A j \in 1..i : Depth(l, j) \in Int /\ Depth(l, j) >= 0
    PROVE  ~Within(l, i, mark)
<1>1. \A k \in 1..i - 1 : Depth(l, k) # Depth(l, i) - 1
  <2>1. TAKE k \in 1..i - 1
  <2>2. k \in 1..i
    OBVIOUS
  <2>3. QED
    BY <2>2
<1>2. QED
  BY <1>1 DEF Within

\* Depths are numbers.
LEMMA DepthInt ==
    ASSUME NEW l, NEW i \in Nat, i >= 1
    PROVE  Depth(l, i) \in Int
BY DepthStep

\* One more legal token.
LEMMA SoundStep ==
    ASSUME NEW l, NEW p \in Nat, NEW d, NEW e \in Nat, Sound(l, p, d),
           Legal(l, p + 1), Depth(l, p + 2) = e
    PROVE  Sound(l, p + 1, e)
<1>1. \A i \in 1..p + 1 : i \in 1..p \/ i = p + 1
  OBVIOUS
<1>2. \A j \in 1..(p + 1) + 1 : j \in 1..p + 1 \/ j = p + 2
  OBVIOUS
<1>3. (p + 1) + 1 = p + 2 /\ e >= 0
  OBVIOUS
<1>4. QED
  BY <1>1, <1>2, <1>3, Zenon DEF Sound

\* The next token stands in the innermost open container.
LEMMA WithinIs ==
    ASSUME NEW l, NEW p \in Nat, NEW d \in Nat, NEW mark, Sound(l, p, d)
    PROVE  /\ d = 0 => ~Within(l, p + 1, mark)
           /\ \A k \in 1..p : Opens(l, p, k, d) => (Within(l, p + 1, mark) <=> l[k] = mark)
<1>1. \A j \in 1..p + 1 : Depth(l, j) \in Int /\ Depth(l, j) >= 0
  BY DepthInt DEF Sound
<1>2. Depth(l, p + 1) = d /\ p + 1 \in Nat
  BY DEF Sound
<1>3. ASSUME d = 0
      PROVE  ~Within(l, p + 1, mark)
  BY <1>1, <1>2, <1>3, WithinNone
<1>4. ASSUME NEW k \in 1..p, Opens(l, p, k, d)
      PROVE  Within(l, p + 1, mark) <=> l[k] = mark
  <2>1. /\ l[k] \in Opener /\ Depth(l, k) = d - 1
        /\ \A j \in k + 1..p + 1 : Depth(l, j) >= d
    BY <1>4 DEF Opens
  <2>2. k \in 1..(p + 1) - 1
    OBVIOUS
  <2>3. QED
    BY <2>1, <2>2, <1>1, <1>2, WithinInnermost
<1>5. QED
  BY <1>3, <1>4

\* Nothing new: the places stay, a container may be closed.
LEMMA PlacesKept ==
    ASSUME NEW l, NEW p \in Nat, NEW q \in Nat, p <= q, NEW ns \in Seq(Node),
           NEW st \in Seq(Nat), NEW tt \in Seq(Nat), NEW at,
           \A i \in 1..Len(st) : st[i] \in 1..Len(ns),
           Places(l, p, ns, st, at),
           Len(tt) <= Len(st), \A d \in 1..Len(tt) : tt[d] = st[d],
           \A j \in p + 2..q + 1 : Depth(l, j) >= Len(tt),
           \A i \in p + 1..q : ~IsTold(l, i) /\ (ns # <<>> => Depth(l, i) > 0)
    PROVE  Places(l, q, ns, tt, at)
<1>1. at \in [1..Len(ns) -> 1..q]
  BY DEF Places
<1>2. \A i \in 1..q : IsTold(l, i) => \E n \in 1..Len(ns) : at[n] = i
  <2>1. TAKE i \in 1..q
  <2>2. i \in 1..p \/ i \in p + 1..q
    OBVIOUS
  <2>3. QED
    BY <2>2, Zenon DEF Places
<1>3. \A d \in 1..Len(tt) : Opens(l, q, at[tt[d]], d)
  <2>1. TAKE d \in 1..Len(tt)
  <2>2. d \in 1..Len(st) /\ tt[d] = st[d]
    OBVIOUS
  <2> DEFINE k == at[tt[d]]
  <2>3. Opens(l, p, k, d) /\ k \in 1..p
    BY <2>2 DEF Places
  <2> HIDE DEF k
  <2>4. \A j \in k + 1..q + 1 : Depth(l, j) >= d
    <3>1. TAKE j \in k + 1..q + 1
    <3>2. j \in k + 1..p + 1 \/ j \in p + 2..q + 1
      BY <2>3
    <3>3. CASE j \in k + 1..p + 1
      BY <3>3, <2>3 DEF Opens
    <3>4. CASE j \in p + 2..q + 1
      <4>1. Depth(l, j) >= Len(tt) /\ Depth(l, j) \in Int
        BY <3>4, DepthInt
      <4>2. QED
        BY <4>1
    <3>5. QED
      BY <3>2, <3>3, <3>4
  <2>5. QED
    BY <2>3, <2>4, Zenon DEF Opens, k
<1>4. ASSUME ns # <<>>
      PROVE  Skipped(l, 1, at[1]) /\ \A j \in at[1] + 1..q : Depth(l, j) > 0
  <2>1. Skipped(l, 1, at[1]) /\ \A j \in at[1] + 1..p : Depth(l, j) > 0
    BY <1>4 DEF Places
  <2>2. \A j \in at[1] + 1..q : j \in at[1] + 1..p \/ j \in p + 1..q
    <3>1. 1 \in 1..Len(ns)
      BY <1>4, EmptySeq
    <3>2. at[1] \in 1..p
      BY <3>1 DEF Places
    <3>3. QED
      BY <3>2
  <2>3. QED
    BY <2>1, <2>2, <1>4, Zenon
<1>5. QED
  BY <1>1, <1>2, <1>3, <1>4, Zenon DEF Places

\* The same of nodes.
LEMMA NodeAppended ==
    ASSUME NEW ns \in Seq(Node), NEW node \in Node
    PROVE  /\ Append(ns, node) \in Seq(Node) /\ Len(Append(ns, node)) = Len(ns) + 1
           /\ Append(ns, node) # <<>>
           /\ \A i \in 1..Len(ns) : Append(ns, node)[i] = ns[i]
           /\ Append(ns, node)[Len(ns) + 1] = node
BY Appended

\* A new node came from the next token.
LEMMA PlacesAdded ==
    ASSUME NEW l, NEW p \in Nat, NEW ns \in Seq(Node), NEW node \in Node,
           NEW st \in Seq(Nat), NEW tt \in Seq(Nat), NEW at,
           \A i \in 1..Len(st) : st[i] \in 1..Len(ns),
           Places(l, p, ns, st, at), Became(l, p + 1, node),
           IF ns = <<>> THEN Skipped(l, 1, p + 1) ELSE Depth(l, p + 1) > 0,
           Len(st) <= Len(tt), Depth(l, p + 2) = Len(tt),
           \A d \in 1..Len(st) : tt[d] = st[d],
           \A d \in 1..Len(tt) : d > Len(st) =>
               /\ tt[d] = Len(ns) + 1 /\ d = Len(tt)
               /\ l[p + 1] \in Opener /\ Depth(l, p + 1) = Len(st) /\ Len(tt) = Len(st) + 1
    PROVE  \E bt : Places(l, p + 1, Append(ns, node), tt, bt)
<1> DEFINE n1 == Len(ns) + 1
           ms == Append(ns, node)
           bt == [n \in 1..n1 |-> IF n = n1 THEN p + 1 ELSE at[n]]
<1>1. /\ ms \in Seq(Node) /\ Len(ms) = n1 /\ ms # <<>>
      /\ \A i \in 1..Len(ns) : ms[i] = ns[i]
      /\ ms[n1] = node
  BY NodeAppended, Zenon
<1> HIDE DEF ms
<1>2. at \in [1..Len(ns) -> 1..p]
  BY DEF Places
<1>3. n1 \in Nat /\ n1 >= 1 /\ \A n \in 1..n1 : n \in 1..Len(ns) \/ n = n1
  OBVIOUS
<1>4. /\ bt[n1] = p + 1
      /\ \A n \in 1..Len(ns) : bt[n] = at[n] /\ at[n] \in 1..p
  <2>1. n1 \in 1..n1 /\ \A n \in 1..Len(ns) : n \in 1..n1 /\ n # n1
    BY <1>3
  <2>2. \A n \in 1..Len(ns) : at[n] \in 1..p
    BY <1>2
  <2>3. QED
    BY <2>1, <2>2, Zenon
<1>5. bt \in [1..n1 -> 1..p + 1]
  BY <1>2
<1> HIDE DEF bt
<1>6. \A m, n \in 1..n1 : m < n => bt[m] < bt[n]
  <2>1. TAKE m, n \in 1..n1
  <2>2. HAVE m < n
  <2>3. m \in 1..Len(ns)
    BY <2>2
  <2>4. CASE n = n1
    <3>1. bt[m] \in 1..p /\ bt[n] = p + 1
      BY <2>3, <2>4, <1>4, Zenon
    <3>2. QED
      BY <3>1
  <2>5. CASE n \in 1..Len(ns)
    BY <2>2, <2>3, <2>5, <1>4 DEF Places
  <2>6. QED
    BY <2>4, <2>5, <1>3
<1>7. \A n \in 1..n1 : Became(l, bt[n], ms[n])
  BY <1>1, <1>3, <1>4, Zenon DEF Places
<1>8. \A i \in 1..p + 1 : IsTold(l, i) => \E n \in 1..n1 : bt[n] = i
  <2>1. TAKE i \in 1..p + 1
  <2>2. HAVE IsTold(l, i)
  <2>3. CASE i = p + 1
    BY <2>3, <1>3, <1>4
  <2>4. CASE i \in 1..p
    <3>1. PICK n \in 1..Len(ns) : at[n] = i
      BY <2>2, <2>4 DEF Places
    <3>2. n \in 1..n1 /\ bt[n] = i
      BY <3>1, <1>4
    <3>3. QED
      BY <3>2
  <2>5. QED
    BY <2>3, <2>4
<1>9. \A d \in 1..Len(tt) : Opens(l, p + 1, bt[tt[d]], d)
  <2>1. TAKE d \in 1..Len(tt)
  <2>2. \A j \in 1..(p + 1) + 1 : Depth(l, j) \in Int
    BY DepthInt
  <2>3. CASE d \in 1..Len(st)
    <3> DEFINE k == at[st[d]]
    <3>1. Opens(l, p, k, d) /\ k \in 1..p /\ bt[tt[d]] = k
      BY <2>3, <1>4 DEF Places
    <3> HIDE DEF k
    <3>2. \A j \in k + 1..(p + 1) + 1 : Depth(l, j) >= d
      <4>1. TAKE j \in k + 1..(p + 1) + 1
      <4>2. CASE j \in k + 1..p + 1
        BY <4>2, <3>1 DEF Opens
      <4>3. CASE j = p + 2
        BY <4>3, <2>3
      <4>4. QED
        BY <4>2, <4>3, <3>1
    <3>3. QED
      BY <3>1, <3>2, Zenon DEF Opens
  <2>4. CASE d > Len(st)
    <3>1. bt[tt[d]] = p + 1 /\ d = Len(st) + 1 /\ l[p + 1] \in Opener /\ Depth(l, p + 1) = Len(st)
      BY <2>4, <1>4
    <3>2. Depth(l, p + 1) = d - 1
      BY <3>1
    <3>3. \A j \in (p + 1) + 1..(p + 1) + 1 : Depth(l, j) >= d
      BY <3>1, <2>4
    <3>4. QED
      BY <3>1, <3>2, <3>3, Zenon DEF Opens
  <2>5. QED
    BY <2>3, <2>4
<1>10. Skipped(l, 1, bt[1]) /\ \A j \in bt[1] + 1..p + 1 : Depth(l, j) > 0
  <2>1. CASE ns = <<>>
    <3>1. bt[1] = p + 1
      BY <2>1, <1>4
    <3>2. (p + 1) + 1..p + 1 = {}
      OBVIOUS
    <3>3. QED
      BY <2>1, <3>1, <3>2
  <2>2. CASE ns # <<>>
    <3>1. 1 \in 1..Len(ns)
      BY <2>2, EmptySeq
    <3>2. bt[1] = at[1] /\ at[1] \in 1..p
      BY <3>1, <1>4
    <3>3. \A j \in at[1] + 1..p + 1 : j \in at[1] + 1..p \/ j = p + 1
      BY <3>2
    <3>4. QED
      BY <2>2, <3>2, <3>3, Zenon DEF Places
  <2>3. QED
    BY <2>1, <2>2
<1>11. Places(l, p + 1, ms, tt, bt)
  BY <1>1, <1>5, <1>6, <1>7, <1>8, <1>9, <1>10, Zenon DEF Places
<1>12. QED
  BY <1>11 DEF ms
-----------------------------------------------------------------------------
\* How many tokens the parser has read, and what it still has to read.
Read == Len(line) - Len(text)
TextInv ==
    /\ line \in Seq(Tokens)
    /\ Len(text) <= Len(line)
    /\ \A i \in 1..Len(text) : text[i] = line[Read + i]

\* The object ends right behind the colon of a key.
Shut == Next1 = EndCurly /\ line[Read] = Colon

\* The next token and the mode of the parser agree.
ModeFits ==
    LET due == Colons(line, Read + 1) # {} IN
    /\ mode = "value" =>
           /\ key = NameAt(line, Read + 1)
           /\ due => key \in Names /\ ~Shut
           /\ IF stack = <<>> THEN nodes = <<>> ELSE InArray <=> ~due
    /\ mode = "key" => stack # <<>> /\ ~InArray /\ (due => Next1 = EndSquare \/ Shut)
    /\ mode = "return" /\ due => Next1 = EndSquare /\ ~InArray
    /\ mode \in {"return", "done"} /\ stack = <<>> =>
           IF nodes = <<>> THEN Next1 = EndSquare ELSE Read >= 1 /\ line[Read] # Comma
    /\ mode = "done" => stack = <<>>

\* What is read is the beginning of a value, and the nodes are its values.
RunAt(at) ==
    /\ Sound(line, Read, Len(stack))
    /\ Read >= 1 => ~IsKey(line, Read)
    /\ nodes = <<>> => stack = <<>> /\ Skipped(line, 1, Read + 1)
    /\ Places(line, Read, nodes, stack, at)
    /\ ModeFits

\* The open containers are nodes.
LEMMA StackPlaces ==
    ASSUME TreeInv
    PROVE  /\ nodes \in Seq(Node) /\ stack \in Seq(Nat) /\ text \in Seq(Tokens)
           /\ Len(nodes) \in Nat /\ Len(stack) \in Nat
           /\ \A i \in 1..Len(stack) : stack[i] \in 1..Len(nodes)
<1>1. nodes \in Seq(Node) /\ stack \in Seq(Nat) /\ text \in Seq(Tokens)
  BY DEF TreeInv, Typed
<1>2. \A i \in 1..Len(stack) : stack[i] \in Nat /\ 1 <= stack[i] /\ stack[i] <= Len(nodes)
  BY <1>1 DEF TreeInv, StackInv
<1>3. Len(nodes) \in Nat /\ Len(stack) \in Nat
  BY <1>1
<1>4. QED
  BY <1>1, <1>2, <1>3

\* What the next token is.
LEMMA CurrentToken ==
    ASSUME TextInv, text \in Seq(Tokens)
    PROVE  /\ Read \in Nat /\ Read <= Len(line) /\ Len(line) \in Nat
           /\ text # <<>> => /\ Next1 = line[Read + 1] /\ Next1 \in Tokens
                             /\ Read + 1 \in 1..Len(line)
           /\ text = <<>> => Next1 = "end" /\ Read = Len(line)
<1>1. Read \in Nat /\ Read <= Len(line) /\ Len(line) \in Nat
  BY DEF TextInv, Read
<1>2. ASSUME text # <<>>
      PROVE  Next1 = line[Read + 1] /\ Next1 \in Tokens /\ Read + 1 \in 1..Len(line)
  <2>1. Len(text) >= 1 /\ Next1 = text[1] /\ text[1] \in Tokens
    BY <1>2 DEF Next1
  <2>2. 1 \in 1..Len(text)
    BY <2>1
  <2>3. QED
    BY <2>1, <2>2 DEF TextInv, Read
<1>3. ASSUME text = <<>>
      PROVE  Next1 = "end" /\ Read = Len(line)
  <2>1. Len(text) = 0
    BY <1>3
  <2>2. QED
    BY <1>3, <2>1 DEF TextInv, Read, Next1
<1>4. QED
  BY <1>1, <1>2, <1>3

\* One token read.
LEMMA TokenRead ==
    ASSUME TextInv, text \in Seq(Tokens), text # <<>>, text' = Tail(text), line' = line
    PROVE  TextInv' /\ Read' = Read + 1
<1>1. /\ Len(text') = Len(text) - 1 /\ Len(text) \in Nat /\ Len(text) >= 1
      /\ \A i \in 1..Len(text) - 1 : text'[i] = text[i + 1]
  BY HeadTailProperties
<1>2. Read' = Read + 1 /\ Len(line) \in Nat
  BY <1>1 DEF Read, TextInv
<1>3. ASSUME NEW i \in 1..Len(text')
      PROVE  text'[i] = line'[Read' + i]
  <2>1. text'[i] = text[i + 1] /\ i + 1 \in 1..Len(text)
    BY <1>1
  <2>2. text[i + 1] = line[Read + (i + 1)]
    BY <2>1 DEF TextInv
  <2>3. Read + (i + 1) = Read' + i
    BY <1>1, <1>2 DEF Read, TextInv
  <2>4. QED
    BY <2>1, <2>2, <2>3
<1>4. QED
  BY <1>1, <1>2, <1>3 DEF TextInv

\* No name is a mark, and a line ends where its tokens do.
LEMMA TokenKinds ==
    /\ "end" \notin Tokens
    /\ \A x \in MadeBy : x \notin Closer \cup {Comma, Colon}
    /\ \A x \in Names \cup {"int", "dbl", "bool", "null"} : x \notin Opener
    /\ Names \cap (Opener \cup Closer \cup {Comma, Colon}) = {}
    /\ Names \subseteq MadeBy /\ {"int", "dbl", "bool", "null"} \cup Opener \subseteq MadeBy
    /\ \A x \in Opener : x \notin Names \cup {"int", "dbl", "bool"}
    /\ {"int", "dbl", "bool", "null"} \cap Names = {}
BY NamesAssumption, Zenon DEF MadeBy, Tokens, Marks, Words, Opener, Closer, Comma, Colon,
   Curly, Square, EndCurly, EndSquare

\* The grammar with the marks by name.
LEMMA LegalIs ==
    ASSUME NEW l, NEW i
    PROVE  /\ ValueDue(l, i) <=> Skipped(l, 1, i) \/ Colons(l, i) # {} \/ Within(l, i, Square)
           /\ KeyDue(l, i) <=> Within(l, i, Curly) /\ Colons(l, i) = {}
           /\ IsKey(l, i) <=> KeyDue(l, i) /\ l[i] \in Names /\ i < Len(l) /\ l[i + 1] = Colon
           /\ Legal(l, i) <=>
                  \/ l[i] = Comma
                  \/ l[i] \in MadeBy /\ ValueDue(l, i)
                  \/ l[i] = EndSquare /\ Within(l, i, Square)
                  \/ l[i] = EndCurly /\ Within(l, i, Curly) /\ (Colons(l, i) = {} \/ l[i - 1] = Colon)
                  \/ IsKey(l, i)
                  \/ l[i] = Colon /\ i > 1 /\ IsKey(l, i - 1)
<1>1. ValueDue(l, i) <=> Skipped(l, 1, i) \/ Colons(l, i) # {} \/ Within(l, i, Square)
  BY Zenon DEF ValueDue, Square
<1>2. KeyDue(l, i) <=> Within(l, i, Curly) /\ Colons(l, i) = {}
  BY Zenon DEF KeyDue, Curly
<1>3. IsKey(l, i) <=> KeyDue(l, i) /\ l[i] \in Names /\ i < Len(l) /\ l[i + 1] = Colon
  BY Zenon DEF IsKey, Colon
<1>4. Legal(l, i) <=>
          \/ l[i] = Comma
          \/ l[i] \in MadeBy /\ ValueDue(l, i)
          \/ l[i] = EndSquare /\ Within(l, i, Square)
          \/ l[i] = EndCurly /\ Within(l, i, Curly) /\ (Colons(l, i) = {} \/ l[i - 1] = Colon)
          \/ IsKey(l, i)
          \/ l[i] = Colon /\ i > 1 /\ IsKey(l, i - 1)
  BY Zenon DEF Legal, Comma, Colon, Curly, Square, EndCurly, EndSquare, MadeBy, Opener
<1>5. QED
  BY <1>1, <1>2, <1>3, <1>4, Zenon

\* Where the next token stands.
LEMMA Standing ==
    ASSUME TextInv, TreeInv, NEW at, RunAt(at)
    PROVE  /\ stack = <<>> => ~Within(line, Read + 1, Square) /\ ~Within(line, Read + 1, Curly)
           /\ InArray => Within(line, Read + 1, Square) /\ ~Within(line, Read + 1, Curly)
           /\ stack # <<>> /\ ~InArray =>
                  ~Within(line, Read + 1, Square) /\ Within(line, Read + 1, Curly)
<1> DEFINE d == Len(stack)
           k == at[stack[d]]
<1>1. /\ Read \in Nat /\ nodes \in Seq(Node) /\ stack \in Seq(Nat)
      /\ \A i \in 1..Len(stack) : stack[i] \in 1..Len(nodes)
      /\ Sound(line, Read, Len(stack)) /\ Places(line, Read, nodes, stack, at)
  BY StackPlaces, CurrentToken DEF RunAt
<1>2. \A mark : /\ Len(stack) = 0 => ~Within(line, Read + 1, mark)
                /\ \A i \in 1..Read : Opens(line, Read, i, Len(stack)) =>
                       (Within(line, Read + 1, mark) <=> line[i] = mark)
  <2>1. Len(stack) \in Nat
    BY <1>1
  <2>2. QED
    BY <2>1, <1>1, WithinIs
<1>3. ASSUME stack # <<>>
      PROVE  /\ line[k] \in Opener
             /\ InArray <=> TypeOfToken(line[k]) = "array"
             /\ \A mark : Within(line, Read + 1, mark) <=> line[k] = mark
  <2>1. d \in 1..Len(stack) /\ Last(stack) = stack[d]
    BY <1>1, <1>3, EmptySeq DEF Last
  <2>2. stack[d] \in 1..Len(nodes)
    BY <1>1, <2>1
  <2>3. Opens(line, Read, k, d) /\ Became(line, k, nodes[stack[d]]) /\ k \in 1..Read
    BY <1>1, <2>1, <2>2, Zenon DEF Places
  <2>4. \A mark : Within(line, Read + 1, mark) <=> line[k] = mark
    BY <1>2, <2>3
  <2>5. QED
    BY <1>3, <2>1, <2>3, <2>4, Zenon DEF Opens, Became, InArray
<1> HIDE DEF k
<1>4. ASSUME stack # <<>>
      PROVE  InArray <=> line[k] = Square
  <2>1. Curly # Square /\ (line[k] = Curly \/ line[k] = Square)
    BY <1>3, <1>4, MarksDiffer, Zenon
  <2>2. "object" # "array"
    OBVIOUS
  <2>3. QED
    BY <1>3, <1>4, <2>1, <2>2, Zenon DEF TypeOfToken
<1>5. ASSUME stack # <<>>
      PROVE  ~InArray <=> line[k] = Curly
  BY <1>3, <1>4, <1>5, MarksDiffer, Zenon
<1>6. InArray => stack # <<>>
  BY DEF InArray
<1>7. ASSUME stack = <<>>
      PROVE  \A mark : ~Within(line, Read + 1, mark)
  <2>1. Len(stack) = 0
    BY <1>7
  <2>2. QED
    BY <1>2, <2>1
<1>8. QED
  BY <1>3, <1>4, <1>5, <1>6, <1>7, MarksDiffer, Zenon

\* What may stand there.
LEMMA Due ==
    ASSUME TextInv, TreeInv, NEW at, RunAt(at)
    PROVE  /\ mode = "value" => /\ ValueDue(line, Read + 1) /\ ~KeyDue(line, Read + 1)
                                /\ Colons(line, Read + 1) = {} \/ ~Shut
           /\ mode = "key" /\ Next1 # EndSquare /\ ~Shut => KeyDue(line, Read + 1)
           /\ mode = "key" => stack # <<>> /\ ~InArray /\ Within(line, Read + 1, Curly)
           /\ mode = "key" /\ Next1 = EndCurly => Colons(line, Read + 1) = {} \/ line[Read] = Colon
<1>1. ASSUME mode = "value"
      PROVE  ValueDue(line, Read + 1) /\ ~KeyDue(line, Read + 1)
  <2>1. CASE stack = <<>>
    <3>1. Skipped(line, 1, Read + 1)
      BY <1>1, <2>1 DEF RunAt, ModeFits
    <3>2. QED
      BY <2>1, <3>1, Standing, LegalIs, Zenon
  <2>2. CASE stack # <<>>
    <3>1. InArray <=> Colons(line, Read + 1) = {}
      BY <1>1, <2>2 DEF RunAt, ModeFits
    <3>2. QED
      BY <2>2, <3>1, Standing, LegalIs, Zenon
  <2>3. QED
    BY <2>1, <2>2
<1>2. mode = "value" => Colons(line, Read + 1) = {} \/ ~Shut
  BY DEF RunAt, ModeFits
<1>3. mode = "key" => /\ stack # <<>> /\ ~InArray
                      /\ Colons(line, Read + 1) # {} => Next1 = EndSquare \/ Shut
  BY DEF RunAt, ModeFits
<1>4. EndSquare # EndCurly
  BY MarksDiffer, Zenon
<1>5. QED
  BY <1>1, <1>2, <1>3, <1>4, Standing, LegalIs, Zenon DEF Shut

\* Turns that read nothing.
LEMMA TurnOnly ==
    ASSUME TextInv, TreeInv, NEW at, RunAt(at), line' = line,
           CloseInValue \/ NextItem \/ NextKey \/ Finish
    PROVE  TextInv' /\ RunAt(at)'
<1>1. UNCHANGED <<text, stack, nodes>>
  BY DEF CloseInValue, NextItem, NextKey, Finish
<1>2. Read' = Read /\ Next1' = Next1 /\ (InArray' <=> InArray) /\ TextInv'
  BY <1>1 DEF Read, Next1, InArray, TextInv
<1>3. InArray => stack # <<>>
  BY DEF InArray
<1> DEFINE due == Colons(line, Read + 1) # {}
<1>4. Next1 = "]" <=> Next1 = EndSquare
  BY Zenon DEF EndSquare
<1>5. ~due => NameAt(line, Read + 1) = NoKey
  BY Zenon DEF NameAt
<1>6. due' <=> due
  BY <1>2
<1>7. ModeFits'
  <2>1. CASE CloseInValue
    <3>1. mode = "value" /\ mode' = "return" /\ Next1 = EndSquare
      BY <2>1, <1>4, Zenon DEF CloseInValue
    <3>2. IF stack = <<>> THEN nodes = <<>> ELSE InArray <=> ~due
      BY <3>1 DEF RunAt, ModeFits
    <3>3. QED
      BY <3>1, <3>2, <1>1, <1>2, <1>3, <1>6 DEF ModeFits
  <2>2. CASE NextItem
    <3>1. mode = "return" /\ mode' = "value" /\ InArray /\ key' = NoKey /\ Next1 # EndSquare
      BY <2>2, <1>4, Zenon DEF NextItem
    <3>2. ~due
      BY <3>1 DEF RunAt, ModeFits
    <3>3. QED
      BY <3>1, <3>2, <1>1, <1>2, <1>3, <1>5, <1>6 DEF ModeFits
  <2>3. CASE NextKey
    <3>1. mode = "return" /\ mode' = "key" /\ ~InArray /\ stack # <<>>
      BY <2>3 DEF NextKey
    <3>2. due => Next1 = EndSquare
      BY <3>1 DEF RunAt, ModeFits
    <3>3. QED
      BY <3>1, <3>2, <1>1, <1>2, <1>3, <1>6 DEF ModeFits
  <2>4. CASE Finish
    <3>1. mode = "return" /\ mode' = "done" /\ stack = <<>>
      BY <2>4 DEF Finish
    <3>2. IF nodes = <<>> THEN Next1 = EndSquare ELSE Read >= 1 /\ line[Read] # Comma
      BY <3>1 DEF RunAt, ModeFits
    <3>3. QED
      BY <3>1, <3>2, <1>1, <1>2, <1>3, <1>6 DEF ModeFits
  <2>5. QED
    BY <2>1, <2>2, <2>3, <2>4
<1>8. Len(stack') = Len(stack)
  BY <1>1
<1>9. QED
  BY <1>1, <1>2, <1>7, <1>8 DEF RunAt

\* What is told is a value with a name.
LEMMA ToldIsMade ==
    ASSUME NEW l, NEW i, IsTold(l, i)
    PROVE  l[i] \in MadeBy /\ l[i] \notin Opener /\ Colons(l, i) # {}
BY TokenKinds, Zenon DEF IsTold

\* A token read as it may stand there.
LEMMA OneToken ==
    ASSUME TextInv, TreeInv, NEW at, RunAt(at), line' = line, text # <<>>, Consume,
           Legal(line, Read + 1), ~IsKey(line, Read + 1)
    PROVE  /\ TextInv' /\ Read' = Read + 1 /\ Read \in Nat /\ Read' >= 1
           /\ Next1 = line[Read + 1] /\ Read' \in Nat /\ Read' + 1 = Read + 2
           /\ Read' >= 1 => ~IsKey(line', Read')
           /\ \A e \in Nat : Depth(line, Read + 2) = e => Sound(line', Read', e)
           /\ Depth(line, Read + 1) = Len(stack)
           /\ Depth(line, Read + 1) \in Int /\ Depth(line, Read + 2) \in Int
<1>1. text \in Seq(Tokens)
  BY DEF TreeInv, Typed
<1>2. Read \in Nat /\ Next1 = line[Read + 1]
  BY <1>1, CurrentToken
<1>3. TextInv' /\ Read' = Read + 1
  BY <1>1, TokenRead DEF Consume
<1>4. Sound(line, Read, Len(stack))
  BY DEF RunAt
<1>5. \A e \in Nat : Depth(line, Read + 2) = e => Sound(line, Read + 1, e)
  BY <1>2, <1>4, SoundStep
<1>6. Depth(line, Read + 1) = Len(stack)
  BY <1>4 DEF Sound
<1>7. Depth(line, Read + 1) \in Int /\ Depth(line, Read + 2) \in Int
  <2>1. Read + 1 \in Nat /\ Read + 2 \in Nat /\ Read + 1 >= 1 /\ Read + 2 >= 1
    BY <1>2
  <2>2. QED
    BY <2>1, DepthInt
<1>8. Read + 1 >= 1 /\ Read + 1 \in Nat /\ (Read + 1) + 1 = Read + 2
  BY <1>2
<1>9. QED
  BY <1>2, <1>3, <1>5, <1>6, <1>7, <1>8

\* A comma is skipped.
LEMMA CommaSkipped ==
    ASSUME TextInv, TreeInv, NEW at, RunAt(at), line' = line, SkipInValue \/ SkipInKey
    PROVE  TextInv' /\ RunAt(at)'
<1> DEFINE p == Read
<1>1. /\ Next1 = Comma /\ Consume /\ UNCHANGED <<stack, nodes, key, mode>>
      /\ mode \in {"value", "key"}
  BY Zenon DEF SkipInValue, SkipInKey, Comma
<1>2. text # <<>>
  BY <1>1, Zenon DEF SkipInValue, SkipInKey, Next1
<1>3. line[p + 1] = Comma
  BY <1>1, <1>2, CurrentToken DEF TreeInv, Typed
<1>4. Comma \notin Names /\ Comma \notin Opener \cup Closer /\ Comma \notin MadeBy /\ Comma # Colon
  BY TokenKinds, MarksDiffer, Zenon
<1>5. Legal(line, p + 1) /\ ~IsKey(line, p + 1)
  BY <1>3, <1>4, LegalIs, Zenon
<1>6. /\ TextInv' /\ Read' = p + 1 /\ p \in Nat /\ Read' >= 1 /\ Read' \in Nat /\ Read' + 1 = p + 2
      /\ Read' >= 1 => ~IsKey(line', Read')
      /\ \A e \in Nat : Depth(line, p + 2) = e => Sound(line', Read', e)
      /\ Depth(line, p + 1) = Len(stack) /\ Depth(line, p + 2) \in Int
  BY <1>1, <1>2, <1>5, OneToken
<1>7. Depth(line, p + 2) = Len(stack) /\ Len(stack) \in Nat
  <2>1. p + 1 \in Nat /\ p + 1 >= 1 /\ (p + 1) + 1 = p + 2
    BY <1>6
  <2>2. Depth(line, (p + 1) + 1) = Depth(line, p + 1)
    BY <2>1, <1>3, <1>4, DepthStep
  <2>3. QED
    BY <2>1, <2>2, <1>6 DEF TreeInv, Typed
<1>8. Colons(line, p + 2) = Colons(line, p + 1) /\ NameAt(line, p + 2) = NameAt(line, p + 1)
  <2>1. p + 1 \in Nat /\ p + 1 >= 1 /\ (p + 1) + 1 = p + 2
    BY <1>6
  <2>2. Colons(line, (p + 1) + 1) = Colons(line, p + 1) /\ NameAt(line, (p + 1) + 1) = NameAt(line, p + 1)
    BY <2>1, <1>3, ColonsStep, NameStep
  <2>3. QED
    BY <2>1, <2>2
<1>9. nodes = <<>> => stack = <<>> /\ Skipped(line, 1, p + 2)
  <2>1. nodes = <<>> => stack = <<>> /\ Skipped(line, 1, p + 1)
    BY DEF RunAt
  <2>2. 1 \in Nat /\ p + 1 \in Nat /\ 1 <= p + 1 /\ (p + 1) + 1 = p + 2
    BY <1>6
  <2>3. Skipped(line, 1, (p + 1) + 1) <=> Skipped(line, 1, p + 1) /\ line[p + 1] = Comma
    BY <2>2, SkippedStep
  <2>4. QED
    BY <2>1, <2>2, <2>3, <1>3
<1>10. nodes # <<>> => Depth(line, p + 1) > 0
  <2>1. nodes # <<>> => stack # <<>>
    BY <1>1 DEF RunAt, ModeFits
  <2>2. stack # <<>> => Len(stack) > 0
    BY EmptySeq DEF TreeInv, Typed
  <2>3. QED
    BY <2>1, <2>2, <1>6
<1>11. Places(line, p + 1, nodes, stack, at)
  <2>1. /\ nodes \in Seq(Node) /\ stack \in Seq(Nat) /\ p \in Nat /\ p + 1 \in Nat /\ p <= p + 1
        /\ Places(line, p, nodes, stack, at) /\ Len(stack) <= Len(stack)
    BY <1>6 DEF TreeInv, Typed, RunAt
  <2>2. \A i \in 1..Len(stack) : stack[i] \in 1..Len(nodes)
    BY StackPlaces
  <2>3. \A j \in p + 2..(p + 1) + 1 : Depth(line, j) >= Len(stack)
    <3>1. \A j \in p + 2..(p + 1) + 1 : j = p + 2
      BY <2>1
    <3>2. Len(stack) >= Len(stack)
      BY <1>7
    <3>3. QED
      BY <3>1, <3>2, <1>7, Zenon
  <2>4. \A i \in p + 1..p + 1 : ~IsTold(line, i) /\ (nodes # <<>> => Depth(line, i) > 0)
    <3>1. \A i \in p + 1..p + 1 : i = p + 1
      BY <2>1
    <3>2. QED
      BY <3>1, <1>3, <1>4, <1>10, ToldIsMade, Zenon
  <2>5. QED
    BY <2>1, <2>2, <2>3, <2>4, PlacesKept
<1>12. ModeFits'
  <2> DEFINE due == Colons(line, Read + 1) # {}
  <2>1. (due' <=> due) /\ (InArray' <=> InArray) /\ NameAt(line', Read' + 1) = NameAt(line, Read + 1)
    BY <1>1, <1>6, <1>8 DEF InArray
  <2>2. CASE mode = "value"
    <3>1. ~Shut'
      BY <1>3, <1>4, <1>6 DEF Shut
    <3>2. QED
      BY <2>1, <2>2, <3>1, <1>1 DEF RunAt, ModeFits
  <2>3. CASE mode = "key"
    <3>1. stack # <<>> /\ ~InArray /\ (due => Next1 = EndSquare \/ Shut)
      BY <2>3 DEF RunAt, ModeFits
    <3>2. Comma # EndSquare /\ Comma # EndCurly
      BY MarksDiffer, Zenon
    <3>3. ~due
      BY <3>1, <3>2, <1>1 DEF Shut
    <3>4. QED
      BY <2>1, <2>3, <3>1, <3>3, <1>1 DEF ModeFits
  <2>4. QED
    BY <2>2, <2>3, <1>1
<1>13. /\ Sound(line', Read', Len(stack')) /\ Places(line', Read', nodes', stack', at)
       /\ (nodes' = <<>> => stack' = <<>> /\ Skipped(line', 1, Read' + 1))
  BY <1>1, <1>6, <1>7, <1>9, <1>11
<1>14. QED
  BY <1>6, <1>12, <1>13, Zenon DEF RunAt

\* What the parser makes of a value, with its name.
NewOf(token, name, parent) == [type |-> TypeOfToken(token), key |-> name, parent |-> parent]

\* A value begins: it becomes a node, and a container is open from here on.
LEMMA ValueBegun ==
    ASSUME TextInv, TreeInv, NEW at, RunAt(at), line' = line, text # <<>>, Consume,
           mode = "value", Next1 \in MadeBy, NEW parent \in Nat, NEW tt \in Seq(Nat),
           TypeOfToken(Next1) \in Types,
           IF Next1 \in Opener THEN tt = Append(stack, Len(nodes) + 1) ELSE tt = stack
    PROVE  /\ TextInv' /\ Read' = Read + 1 /\ Read' >= 1
           /\ Next1 = line[Read + 1]
           /\ Read' >= 1 => ~IsKey(line', Read')
           /\ Sound(line', Read', Len(tt))
           /\ Colons(line, Read + 2) = {} /\ NameAt(line, Read + 2) = NoKey
           /\ \E bt : Places(line', Read', Append(nodes, NewOf(Next1, key, parent)), tt, bt)
<1> DEFINE p == Read
           t == line[p + 1]
           node == NewOf(Next1, key, parent)
<1>1. Next1 = t /\ p \in Nat
  BY CurrentToken, StackPlaces
<1>2. ValueDue(line, p + 1) /\ ~KeyDue(line, p + 1)
  BY Due
<1>3. Legal(line, p + 1) /\ ~IsKey(line, p + 1)
  BY <1>1, <1>2, LegalIs, Zenon
<1>4. /\ TextInv' /\ Read' = p + 1 /\ p \in Nat /\ Read' >= 1 /\ Read' \in Nat /\ Read' + 1 = p + 2
      /\ Read' >= 1 => ~IsKey(line', Read')
      /\ \A e \in Nat : Depth(line, p + 2) = e => Sound(line', Read', e)
      /\ Depth(line, p + 1) = Len(stack) /\ Depth(line, p + 2) \in Int
  BY <1>3, OneToken
<1>5. p + 1 \in Nat /\ p + 1 >= 1 /\ (p + 1) + 1 = p + 2
  BY <1>4
<1>6. t \in MadeBy /\ t \notin Closer /\ t \notin {Colon, Comma}
  BY <1>1, TokenKinds, Zenon
<1>7. Colons(line, p + 2) = {} /\ NameAt(line, p + 2) = NoKey
  <2>1. Colons(line, (p + 1) + 1) = {} /\ NameAt(line, (p + 1) + 1) = NoKey
    BY <1>5, <1>6, ColonsStep, NameStep
  <2>2. QED
    BY <2>1, <1>5
<1>8. /\ nodes \in Seq(Node) /\ stack \in Seq(Nat) /\ Len(nodes) \in Nat /\ Len(stack) \in Nat
      /\ \A i \in 1..Len(stack) : stack[i] \in 1..Len(nodes)
  BY StackPlaces
<1>9. /\ Len(tt) = IF t \in Opener THEN Len(stack) + 1 ELSE Len(stack)
      /\ \A d \in 1..Len(stack) : tt[d] = stack[d]
      /\ t \in Opener => tt[Len(stack) + 1] = Len(nodes) + 1
  <2>1. CASE t \in Opener
    <3>1. tt = Append(stack, Len(nodes) + 1) /\ Len(nodes) + 1 \in Nat
      BY <2>1, <1>1, <1>8
    <3>2. QED
      BY <2>1, <3>1, <1>8, Appended
  <2>2. CASE t \notin Opener
    BY <2>2, <1>1
  <2>3. QED
    BY <2>1, <2>2
<1>10. Depth(line, p + 2) = Len(tt) /\ Len(tt) \in Nat
  <2>1. /\ t \in Opener => Depth(line, (p + 1) + 1) = Depth(line, p + 1) + 1
        /\ t \notin Opener \cup Closer => Depth(line, (p + 1) + 1) = Depth(line, p + 1)
    BY <1>5, DepthStep
  <2>2. QED
    BY <2>1, <1>4, <1>5, <1>6, <1>8, <1>9
<1>11. node \in Node /\ Became(line, p + 1, node)
  <2>1. key = NameAt(line, p + 1) /\ (Colons(line, p + 1) # {} => key \in Names)
    BY DEF RunAt, ModeFits
  <2>2. key \in Names \cup {NoKey}
    BY DEF TreeInv, Typed
  <2>3. node \in Node
    BY <2>2 DEF Node, NewOf
  <2>4. node.type = TypeOfToken(t) /\ node.key = key
    BY <1>1 DEF NewOf
  <2>5. QED
    BY <2>1, <2>3, <2>4, <1>6, Zenon DEF Became
<1>12. IF nodes = <<>> THEN Skipped(line, 1, p + 1) ELSE Depth(line, p + 1) > 0
  <2>1. nodes = <<>> => Skipped(line, 1, p + 1)
    BY DEF RunAt
  <2>2. nodes # <<>> => stack # <<>>
    BY DEF RunAt, ModeFits
  <2>3. stack # <<>> => Len(stack) > 0
    BY <1>8, EmptySeq
  <2>4. QED
    BY <2>1, <2>2, <2>3, <1>4
<1> HIDE DEF node, t, p
<1>13. \A d \in 1..Len(tt) : d > Len(stack) =>
           /\ tt[d] = Len(nodes) + 1 /\ d = Len(tt)
           /\ t \in Opener /\ Depth(line, p + 1) = Len(stack) /\ Len(tt) = Len(stack) + 1
  <2>1. TAKE d \in 1..Len(tt)
  <2>2. HAVE d > Len(stack)
  <2>3. t \in Opener /\ d = Len(stack) + 1
    BY <2>2, <1>8, <1>9
  <2>4. QED
    BY <2>3, <1>4, <1>9
<1>14. Places(line, p, nodes, stack, at)
  BY DEF RunAt, p
<1>15. Len(stack) <= Len(tt)
  BY <1>8, <1>9
<1>16. \E bt : Places(line, p + 1, Append(nodes, node), tt, bt)
  BY <1>4, <1>8, <1>9, <1>10, <1>11, <1>12, <1>13, <1>14, <1>15, PlacesAdded DEF t
<1>17. \E bt : Places(line', Read', Append(nodes, node), tt, bt)
  BY <1>4, <1>16
<1>18. Sound(line', Read', Len(tt))
  BY <1>4, <1>10
<1>19. QED
  BY <1>1, <1>4, <1>7, <1>17, <1>18 DEF p, t, node

\* A container or a scalar is read.
LEMMA ValueRead ==
    ASSUME TextInv, TreeInv, NEW at, RunAt(at), line' = line, OpenObject \/ OpenArray \/ Scalar
    PROVE  TextInv' /\ \E bt : RunAt(bt)'
<1> DEFINE parent == IF stack = <<>> THEN 0 ELSE Last(stack)
<1>1. /\ nodes \in Seq(Node) /\ stack \in Seq(Nat) /\ Len(nodes) \in Nat /\ Len(stack) \in Nat
      /\ text \in Seq(Tokens)
  BY StackPlaces
<1>2. parent \in Nat
  BY <1>1 DEF Last
<1>3. mode = "value" /\ Consume
  BY DEF OpenObject, OpenArray, Scalar
<1>4. /\ Next1 \in MadeBy /\ TypeOfToken(Next1) \in Types
      /\ nodes' = Append(nodes, NewOf(Next1, key, parent))
      /\ IF Next1 \in Opener THEN stack' = Append(stack, Len(nodes) + 1) ELSE stack' = stack
      /\ text # <<>>
  <2>1. CASE OpenObject
    <3>1. Next1 = Curly /\ create_json("object") /\ stack' = Append(stack, Len(nodes) + 1)
      BY <2>1, Zenon DEF OpenObject, Curly
    <3>2. Curly \in Opener /\ Curly \in MadeBy /\ TypeOfToken(Curly) = "object"
      BY MarksDiffer, TokenKinds, Zenon DEF TypeOfToken
    <3>3. "object" \in Types
      BY DEF Types
    <3>4. text # <<>>
      BY <2>1, Zenon DEF OpenObject, Next1
    <3>5. QED
      BY <3>1, <3>2, <3>3, <3>4 DEF create_json, NewOf
  <2>2. CASE OpenArray
    <3>1. Next1 = Square /\ create_json("array") /\ stack' = Append(stack, Len(nodes) + 1)
      BY <2>2, Zenon DEF OpenArray, Square
    <3>2. Square \in Opener /\ Square \in MadeBy /\ TypeOfToken(Square) = "array"
      BY MarksDiffer, TokenKinds, Zenon DEF TypeOfToken
    <3>3. "array" \in Types
      BY DEF Types
    <3>4. text # <<>>
      BY <2>2, Zenon DEF OpenArray, Next1
    <3>5. QED
      BY <3>1, <3>2, <3>3, <3>4 DEF create_json, NewOf
  <2>3. CASE Scalar
    <3>1. stack' = stack
      BY <2>3 DEF Scalar
    <3>2. \/ Next1 \in Names /\ create_json("string")
          \/ Next1 \in {"int", "dbl", "bool", "null"} /\ create_json(Next1)
      BY <2>3 DEF Scalar
    <3>3. Next1 \in MadeBy /\ Next1 \notin Opener /\ (Next1 \in {"int", "dbl", "bool", "null"} => Next1 \notin Names)
      BY <3>2, TokenKinds, Zenon
    <3>4. TypeOfToken(Next1) = TypeOf(Next1)
      BY <3>3, MarksDiffer, Zenon DEF TypeOfToken
    <3>5. create_json(TypeOf(Next1)) /\ TypeOf(Next1) \in {"string", "int", "dbl", "bool", "null"}
      BY <3>2, <3>3, Zenon DEF TypeOf
    <3>6. TypeOfToken(Next1) \in Types
      BY <3>4, <3>5 DEF Types
    <3>7. text # <<>>
      <4>1. "end" \notin Names /\ "end" \notin {"int", "dbl", "bool", "null"}
        BY NamesAssumption
      <4>2. QED
        BY <4>1, <3>2, Zenon DEF Next1
    <3>8. QED
      BY <3>1, <3>3, <3>4, <3>5, <3>6, <3>7 DEF create_json, NewOf
  <2>4. QED
    BY <2>1, <2>2, <2>3
<1> HIDE DEF parent
<1>5. stack' \in Seq(Nat)
  <2>1. Append(stack, Len(nodes) + 1) \in Seq(Nat)
    BY <1>1
  <2>2. QED
    BY <2>1, <1>1, <1>4
<1>6. /\ TextInv' /\ Read' = Read + 1 /\ Read' >= 1
      /\ Next1 = line[Read + 1]
      /\ Read' >= 1 => ~IsKey(line', Read')
      /\ Sound(line', Read', Len(stack'))
      /\ Colons(line, Read + 2) = {} /\ NameAt(line, Read + 2) = NoKey
      /\ \E bt : Places(line', Read', nodes', stack', bt)
  BY <1>2, <1>3, <1>4, <1>5, ValueBegun
<1>7. PICK bt : Places(line', Read', nodes', stack', bt)
  BY <1>6
<1>8. nodes' # <<>> /\ Len(nodes') = Len(nodes) + 1 /\ nodes'[Len(nodes) + 1] = NewOf(Next1, key, parent)
  <2>1. NewOf(Next1, key, parent) \in Node
    BY <1>2, <1>4 DEF NewOf, Node, TreeInv, Typed
  <2>2. QED
    BY <2>1, <1>1, <1>4, NodeAppended
<1>9. Read' + 1 = Read + 2
  <2>1. Read \in Nat
    BY <1>1, CurrentToken
  <2>2. QED
    BY <2>1, <1>6
<1>10. ModeFits'
  <2> DEFINE due == Colons(line, Read + 1) # {}
  <2>1. ~due' /\ NameAt(line', Read' + 1) = NoKey
    BY <1>6, <1>9
  <2>2. CASE OpenObject \/ OpenArray
    <3>1. stack' = Append(stack, Len(nodes) + 1) /\ mode' \in {"key", "value"}
      BY <2>2 DEF OpenObject, OpenArray
    <3>2. stack' # <<>> /\ Last(stack') = Len(nodes) + 1
      BY <3>1, <1>1 DEF Last
    <3>3. InArray' <=> TypeOfToken(Next1) = "array"
      BY <3>2, <1>8 DEF InArray, NewOf
    <3>4. CASE OpenObject
      <4>1. Next1 = Curly /\ mode' = "key"
        BY <3>4, Zenon DEF OpenObject, Curly
      <4>2. TypeOfToken(Curly) = "object"
        BY Zenon DEF TypeOfToken
      <4>3. ~InArray'
        BY <4>1, <4>2, <3>3
      <4>4. QED
        BY <4>1, <4>3, <3>2, <2>1 DEF ModeFits
    <3>5. CASE OpenArray
      <4>1. Next1 = Square /\ mode' = "value" /\ key' = NoKey
        BY <3>5, <1>3, Zenon DEF OpenArray, Square
      <4>2. TypeOfToken(Square) = "array"
        BY MarksDiffer, Zenon DEF TypeOfToken
      <4>3. InArray'
        BY <4>1, <4>2, <3>3
      <4>4. QED
        BY <4>1, <4>3, <3>2, <2>1 DEF ModeFits
    <3>6. QED
      BY <2>2, <3>4, <3>5
  <2>3. CASE Scalar
    <3>1. mode' = "return"
      BY <2>3 DEF Scalar
    <3>2. line'[Read'] # Comma
      BY <1>4, <1>6, TokenKinds, Zenon
    <3>3. QED
      BY <2>1, <3>1, <3>2, <1>6, <1>8 DEF ModeFits
  <2>4. QED
    BY <2>2, <2>3
<1>11. RunAt(bt)'
  BY <1>6, <1>7, <1>8, <1>10, Zenon DEF RunAt
<1>12. QED
  BY <1>6, <1>11

\* The innermost container is closed.
LEMMA ContainerClosed ==
    ASSUME TextInv, TreeInv, NEW at, RunAt(at), line' = line, CloseObject \/ CloseArray
    PROVE  TextInv' /\ RunAt(at)'
<1> DEFINE p == Read
<1>1. /\ nodes \in Seq(Node) /\ stack \in Seq(Nat) /\ Len(nodes) \in Nat /\ Len(stack) \in Nat
      /\ text \in Seq(Tokens) /\ \A i \in 1..Len(stack) : stack[i] \in 1..Len(nodes)
  BY StackPlaces
<1>2. /\ Next1 \in Closer /\ Consume /\ UNCHANGED <<nodes, key>> /\ stack' = Front(stack)
      /\ mode' = "return" /\ stack # <<>> /\ text # <<>>
      /\ Legal(line, p + 1)
  <2>1. CASE CloseObject
    <3>1. Next1 = EndCurly /\ mode = "key"
      BY <2>1, Zenon DEF CloseObject, EndCurly
    <3>2. text # <<>>
      BY <2>1, Zenon DEF CloseObject, Next1
    <3>3. Next1 \in Closer /\ Next1 # EndSquare
      BY <3>1, MarksDiffer, Zenon
    <3>4. /\ Within(line, p + 1, Curly) /\ stack # <<>>
          /\ Colons(line, p + 1) = {} \/ line[(p + 1) - 1] = Colon
      <4>1. (p + 1) - 1 = p
        BY <1>1, CurrentToken
      <4>2. QED
        BY <4>1, <3>1, Due
    <3>5. line[p + 1] = EndCurly
      BY <3>1, <3>2, <1>1, CurrentToken
    <3>6. Legal(line, p + 1)
      BY <3>4, <3>5, LegalIs, Zenon
    <3>7. QED
      BY <2>1, <3>2, <3>3, <3>4, <3>6 DEF CloseObject
  <2>2. CASE CloseArray
    <3>1. Next1 = EndSquare /\ InArray /\ mode = "return"
      BY <2>2, Zenon DEF CloseArray, EndSquare
    <3>2. text # <<>>
      BY <2>2, Zenon DEF CloseArray, Next1
    <3>3. Next1 \in Closer
      BY <3>1, MarksDiffer, Zenon
    <3>4. Within(line, p + 1, Square) /\ stack # <<>>
      BY <3>1, Standing DEF InArray
    <3>5. line[p + 1] = EndSquare
      BY <3>1, <3>2, <1>1, CurrentToken
    <3>6. Legal(line, p + 1)
      BY <3>4, <3>5, LegalIs, Zenon
    <3>7. QED
      BY <2>2, <3>1, <3>2, <3>3, <3>4, <3>6 DEF CloseArray
  <2>3. QED
    BY <2>1, <2>2
<1>3. line[p + 1] = Next1
  BY <1>1, <1>2, CurrentToken
<1>4. Next1 \notin Names /\ Next1 \notin MadeBy /\ Next1 \notin {Colon, Comma} /\ Next1 \notin Opener
  BY <1>2, TokenKinds, MarksDiffer, Zenon
<1>5. ~IsKey(line, p + 1)
  BY <1>3, <1>4, LegalIs, Zenon
<1>6. /\ TextInv' /\ Read' = p + 1 /\ p \in Nat /\ Read' >= 1 /\ Read' \in Nat /\ Read' + 1 = p + 2
      /\ Read' >= 1 => ~IsKey(line', Read')
      /\ \A e \in Nat : Depth(line, p + 2) = e => Sound(line', Read', e)
      /\ Depth(line, p + 1) = Len(stack) /\ Depth(line, p + 2) \in Int
  BY <1>2, <1>5, OneToken
<1>7. p + 1 \in Nat /\ p + 1 >= 1 /\ (p + 1) + 1 = p + 2 /\ p <= p + 1
  BY <1>6
<1>8. /\ stack' \in Seq(Nat) /\ Len(stack') = Len(stack) - 1 /\ Len(stack') \in Nat /\ Len(stack) > 0
      /\ \A d \in 1..Len(stack') : stack'[d] = stack[d]
  <2>1. /\ Front(stack) \in Seq(Nat) /\ Len(Front(stack)) = Len(stack) - 1
        /\ \A i \in 1..Len(stack) - 1 : Front(stack)[i] = stack[i]
    BY <1>1, <1>2, Shortened
  <2>2. Len(stack) > 0
    BY <1>1, <1>2, EmptySeq
  <2>3. QED
    BY <2>1, <2>2, <1>1, <1>2
<1>9. Depth(line, p + 2) = Len(stack')
  <2>1. Depth(line, (p + 1) + 1) = Depth(line, p + 1) - 1
    BY <1>2, <1>3, <1>7, DepthStep
  <2>2. QED
    BY <2>1, <1>6, <1>7, <1>8
<1>10. Colons(line, p + 2) = {}
  <2>1. Colons(line, (p + 1) + 1) = {}
    BY <1>3, <1>4, <1>7, ColonsStep
  <2>2. QED
    BY <2>1, <1>7
<1>11. nodes # <<>>
  BY <1>2 DEF RunAt
<1>12. Places(line, p + 1, nodes, stack', at)
  <2>1. Places(line, p, nodes, stack, at)
    BY DEF RunAt
  <2>2. \A j \in p + 2..(p + 1) + 1 : Depth(line, j) >= Len(stack')
    <3>1. \A j \in p + 2..(p + 1) + 1 : j = p + 2
      BY <1>6
    <3>2. Len(stack') >= Len(stack')
      BY <1>8
    <3>3. QED
      BY <3>1, <3>2, <1>9, Zenon
  <2>3. \A i \in p + 1..p + 1 : ~IsTold(line, i) /\ (nodes # <<>> => Depth(line, i) > 0)
    <3>1. \A i \in p + 1..p + 1 : i = p + 1
      BY <1>6
    <3>2. Depth(line, p + 1) > 0
      BY <1>6, <1>8
    <3>3. QED
      BY <3>1, <3>2, <1>3, <1>4, ToldIsMade, Zenon
  <2>4. Len(stack') <= Len(stack)
    BY <1>1, <1>8
  <2>5. QED
    BY <2>1, <2>2, <2>3, <2>4, <1>1, <1>6, <1>7, <1>8, PlacesKept
<1>13. ModeFits'
  <2>1. Colons(line', Read' + 1) = {}
    BY <1>6, <1>10
  <2>2. line'[Read'] # Comma /\ nodes' # <<>>
    BY <1>2, <1>3, <1>4, <1>6, <1>11, Zenon
  <2>3. QED
    BY <2>1, <2>2, <1>2, <1>6 DEF ModeFits
<1>14. /\ Sound(line', Read', Len(stack')) /\ Places(line', Read', nodes', stack', at)
       /\ nodes' # <<>>
  BY <1>2, <1>6, <1>8, <1>9, <1>11, <1>12
<1>15. QED
  BY <1>6, <1>13, <1>14, Zenon DEF RunAt

\* A key and its colon are read.
LEMMA KeyRead ==
    ASSUME TextInv, TreeInv, NEW at, RunAt(at), line' = line, KeyFound
    PROVE  TextInv' /\ RunAt(at)'
<1> DEFINE p == Read
<1>1. /\ nodes \in Seq(Node) /\ stack \in Seq(Nat) /\ Len(nodes) \in Nat /\ Len(stack) \in Nat
      /\ text \in Seq(Tokens) /\ \A i \in 1..Len(stack) : stack[i] \in 1..Len(nodes)
  BY StackPlaces
<1>2. /\ mode = "key" /\ Next1 \in Names /\ key' = Next1
      /\ mode' = IF Len(text) > 2 /\ text[3] = EndCurly THEN "key" ELSE "value"
      /\ UNCHANGED <<stack, nodes>> /\ text' = Tail(Tail(text))
      /\ Len(text) > 1 /\ text[2] = Colon
  BY Zenon DEF KeyFound, HasKey, Colon, EndCurly
<1>3. Len(text) \in Nat /\ text # <<>> /\ 2 \in 1..Len(text)
  BY <1>1, <1>2
<1>4. p \in Nat /\ Len(line) \in Nat /\ line[p + 1] = Next1 /\ line[p + 2] = Colon /\ p + 2 <= Len(line)
  <2>1. p \in Nat /\ Len(line) \in Nat /\ line[p + 1] = Next1
    BY <1>1, <1>3, CurrentToken
  <2>2. text[2] = line[p + 2]
    BY <1>3 DEF TextInv
  <2>3. p + 2 <= Len(line)
    BY <2>1, <1>2, <1>3 DEF Read
  <2>4. QED
    BY <2>1, <2>2, <2>3, <1>2
<1>5. /\ p + 1 \in Nat /\ p + 1 >= 1 /\ (p + 1) + 1 = p + 2 /\ p <= p + 2
      /\ p + 2 \in Nat /\ p + 2 >= 1 /\ (p + 2) + 1 = p + 3 /\ (p + 1) + 2 = p + 3
      /\ p + 1 < Len(line) /\ p + 2 > 1 /\ (p + 2) - 1 = p + 1
  BY <1>4
<1>6. /\ Next1 \notin {Colon, Comma} /\ Next1 \notin Opener \cup Closer
      /\ Colon \notin Opener \cup Closer /\ Colon \notin Names /\ Colon \notin MadeBy
      /\ Next1 # EndSquare /\ Next1 # EndCurly
  BY <1>2, TokenKinds, MarksDiffer, Zenon
<1>7. KeyDue(line, p + 1) /\ stack # <<>> /\ ~InArray
  BY <1>2, <1>6, Due DEF Shut
<1>8. /\ IsKey(line, p + 1) /\ Legal(line, p + 1) /\ Legal(line, p + 2) /\ ~IsKey(line, p + 2)
      /\ Colons(line, p + 1) = {}
  <2>1. IsKey(line, p + 1) /\ Colons(line, p + 1) = {}
    <3>1. line[(p + 1) + 1] = Colon
      BY <1>4, <1>5
    <3>2. QED
      BY <3>1, <1>2, <1>4, <1>5, <1>7, LegalIs, Zenon
  <2>2. IsKey(line, (p + 2) - 1)
    BY <2>1, <1>5
  <2>3. QED
    BY <2>1, <2>2, <1>4, <1>5, <1>6, LegalIs, Zenon
<1>9. /\ Depth(line, p + 1) = Len(stack) /\ Depth(line, p + 2) = Len(stack)
      /\ Depth(line, p + 3) = Len(stack) /\ Len(stack) > 0
  <2>1. Depth(line, p + 1) = Len(stack)
    BY DEF RunAt, Sound
  <2>2. Depth(line, (p + 1) + 1) = Depth(line, p + 1)
    BY <1>4, <1>5, <1>6, DepthStep
  <2>3. Depth(line, (p + 2) + 1) = Depth(line, p + 2)
    BY <1>4, <1>5, <1>6, DepthStep
  <2>4. Len(stack) > 0
    BY <1>1, <1>7, EmptySeq
  <2>5. QED
    BY <2>1, <2>2, <2>3, <2>4, <1>5
<1>10. Sound(line, p + 2, Len(stack))
  <2>1. Sound(line, p, Len(stack))
    BY DEF RunAt
  <2>2. Sound(line, p + 1, Len(stack))
    BY <2>1, <1>1, <1>4, <1>8, <1>9, SoundStep
  <2>3. Legal(line, (p + 1) + 1) /\ Depth(line, (p + 1) + 2) = Len(stack)
    BY <1>5, <1>8, <1>9
  <2>4. Sound(line, (p + 1) + 1, Len(stack))
    BY <2>2, <2>3, <1>1, <1>5, SoundStep
  <2>5. QED
    BY <2>4, <1>5
<1>11. Colons(line, p + 3) = {p + 2} /\ NameAt(line, p + 3) = Next1
  <2>1. Colons(line, (p + 2) + 1) = {p + 2} /\ NameAt(line, (p + 2) + 1) = line[(p + 2) - 1]
    BY <1>4, <1>5, ColonsStep, NameStep
  <2>2. QED
    BY <2>1, <1>4, <1>5
<1>12. /\ TextInv' /\ Read' = p + 2 /\ Read' + 1 = p + 3 /\ Read' >= 1
       /\ Next1' = EndCurly <=> Len(text) > 2 /\ text[3] = EndCurly
  <2> DEFINE u == Tail(text)
  <2>1. /\ u \in Seq(Tokens) /\ Len(u) = Len(text) - 1
        /\ \A i \in 1..Len(text) - 1 : u[i] = text[i + 1]
    BY <1>3, <1>1, HeadTailProperties
  <2>2. u # <<>>
    <3>1. Len(u) > 0
      BY <2>1, <1>2, <1>3
    <3>2. QED
      BY <2>1, <3>1, NotEmpty
  <2> HIDE DEF u
  <2>3. text' = Tail(u)
    BY <1>2 DEF u
  <2>4. /\ Len(text') = Len(u) - 1
        /\ \A i \in 1..Len(u) - 1 : text'[i] = u[i + 1]
    BY <2>1, <2>2, <2>3, HeadTailProperties
  <2>5. Len(text') = Len(text) - 2 /\ Len(text) - 2 \in Nat
    BY <2>1, <2>4, <1>2, <1>3
  <2>6. Read' = p + 2
    BY <2>5, <1>3, <1>4 DEF Read
  <2>7. ASSUME NEW i \in 1..Len(text')
        PROVE  text'[i] = line'[Read' + i]
    <3>1. i \in 1..Len(u) - 1 /\ i + 1 \in 1..Len(text) - 1 /\ i + 2 \in 1..Len(text)
          /\ (i + 1) + 1 = i + 2
      BY <2>1, <2>5, <1>3
    <3>2. text'[i] = text[i + 2]
      BY <3>1, <2>1, <2>4
    <3>3. text[i + 2] = line[p + (i + 2)]
      BY <3>1 DEF TextInv
    <3>4. p + (i + 2) = Read' + i
      BY <2>6, <1>4, <3>1
    <3>5. QED
      BY <3>2, <3>3, <3>4
  <2>8. Len(text') <= Len(line')
    BY <2>5, <1>3 DEF TextInv
  <2>9. TextInv'
    BY <2>7, <2>8 DEF TextInv
  <2>10. Next1' = EndCurly <=> Len(text) > 2 /\ text[3] = EndCurly
    <3>1. CASE text' = <<>>
      <4>1. Len(text) = 2 /\ Next1' = "end"
        BY <3>1, <2>5, <1>3 DEF Next1
      <4>2. "end" # EndCurly
        BY Zenon DEF EndCurly
      <4>3. QED
        BY <4>1, <4>2
    <3>2. CASE text' # <<>>
      <4>1. text' \in Seq(Tokens)
        BY <2>1, <2>2, <2>3, Shortened
      <4>2. Len(text') >= 1 /\ Next1' = text'[1]
        BY <3>2, <4>1 DEF Next1
      <4>3. 1 \in 1..Len(u) - 1 /\ 1 + 1 \in 1..Len(text) - 1 /\ Len(text) > 2
        BY <4>2, <2>1, <2>5, <1>3
      <4>4. text'[1] = u[1 + 1] /\ u[1 + 1] = text[(1 + 1) + 1]
        BY <4>3, <2>1, <2>4
      <4>5. QED
        BY <4>2, <4>3, <4>4
    <3>3. QED
      BY <3>1, <3>2
  <2>11. QED
    BY <2>6, <2>9, <2>10, <1>4
<1>13. nodes # <<>>
  BY <1>7 DEF RunAt
<1>14. Places(line, p + 2, nodes, stack, at)
  <2>1. Places(line, p, nodes, stack, at)
    BY DEF RunAt
  <2>2. \A j \in p + 2..(p + 2) + 1 : Depth(line, j) >= Len(stack)
    <3>1. \A j \in p + 2..(p + 2) + 1 : j = p + 2 \/ j = p + 3
      BY <1>4
    <3>2. Len(stack) >= Len(stack)
      BY <1>1
    <3>3. QED
      BY <3>1, <3>2, <1>9, Zenon
  <2>3. \A i \in p + 1..p + 2 : ~IsTold(line, i) /\ (nodes # <<>> => Depth(line, i) > 0)
    <3>1. \A i \in p + 1..p + 2 : i = p + 1 \/ i = p + 2
      BY <1>4
    <3>2. Depth(line, p + 1) > 0 /\ Depth(line, p + 2) > 0
      BY <1>9
    <3>3. ~IsTold(line, p + 1) /\ ~IsTold(line, p + 2)
      BY <1>4, <1>6, <1>8, ToldIsMade, Zenon
    <3>4. QED
      BY <3>1, <3>2, <3>3, Zenon
  <2>4. Len(stack) <= Len(stack) /\ \A d \in 1..Len(stack) : stack[d] = stack[d]
    BY <1>1
  <2>5. QED
    BY <2>1, <2>2, <2>3, <2>4, <1>1, <1>4, <1>5, PlacesKept
<1>15. ModeFits'
  <2>1. Colons(line', Read' + 1) # {} /\ NameAt(line', Read' + 1) = key'
    BY <1>2, <1>11, <1>12
  <2>2. ~InArray' /\ stack' # <<>>
    BY <1>2, <1>7 DEF InArray
  <2>3. line'[Read'] = Colon
    BY <1>4, <1>12
  <2>4. IF Len(text) > 2 /\ text[3] = EndCurly THEN Shut' /\ mode' = "key" ELSE ~Shut' /\ mode' = "value"
    BY <2>3, <1>2, <1>12 DEF Shut
  <2>5. QED
    BY <2>1, <2>2, <2>4, <1>2 DEF ModeFits
<1>16. /\ Sound(line', Read', Len(stack')) /\ Places(line', Read', nodes', stack', at)
       /\ nodes' # <<>> /\ ~IsKey(line', Read')
  BY <1>2, <1>8, <1>10, <1>12, <1>13, <1>14
<1>17. QED
  BY <1>12, <1>15, <1>16, Zenon DEF RunAt
-----------------------------------------------------------------------------
\* What is read does not end a value as long as the parser goes on.
LEMMA NoValueYet ==
    ASSUME TextInv, TreeInv, NEW at, RunAt(at), mode \in {"value", "key"} \/ nodes = <<>>,
           NEW n \in ValueEnds(line)
    PROVE  n >= Read + 1
<1>1. Read \in Nat /\ Len(line) \in Nat
  BY CurrentToken, StackPlaces
<1>2. /\ n \in 1..Len(line) /\ Depth(line, n + 1) = 0 /\ line[n] # Comma
  BY Zenon DEF ValueEnds, IsValue, Comma
<1>3. SUFFICES ASSUME n <= Read PROVE FALSE
  BY <1>1, <1>2
<1>4. CASE nodes = <<>>
  <2>1. Skipped(line, 1, Read + 1)
    BY <1>4 DEF RunAt
  <2>2. n \in 1..(Read + 1) - 1
    BY <1>1, <1>2, <1>3
  <2>3. QED
    BY <2>1, <2>2, <1>2, SkippedIs, Zenon
<1>5. CASE nodes # <<>>
  <2>1. stack # <<>>
    BY <1>5 DEF RunAt, ModeFits
  <2>2. Len(stack) > 0 /\ Depth(line, Read + 1) = Len(stack)
    BY <2>1, StackPlaces, EmptySeq DEF RunAt, Sound
  <2>3. 1 \in 1..Len(nodes)
    BY <1>5, StackPlaces, EmptySeq
  <2>4. /\ at[1] \in 1..Read /\ Skipped(line, 1, at[1])
        /\ \A j \in at[1] + 1..Read : Depth(line, j) > 0
    BY <1>5, <2>3 DEF RunAt, Places
  <2>5. CASE n < at[1]
    <3>1. n \in 1..at[1] - 1
      BY <2>4, <2>5, <1>2
    <3>2. QED
      BY <3>1, <2>4, <1>2, SkippedIs, Zenon
  <2>6. CASE n >= at[1] /\ n < Read
    <3>1. n + 1 \in at[1] + 1..Read
      BY <2>4, <2>6, <1>1, <1>2
    <3>2. QED
      BY <3>1, <2>4, <1>2
  <2>7. CASE n = Read
    BY <2>2, <2>7, <1>2
  <2>8. QED
    BY <2>4, <2>5, <2>6, <2>7, <1>1, <1>2, <1>3
<1>6. QED
  BY <1>4, <1>5

\* Where the line ends too early or goes on wrongly there is no value.
LEMMA NoValue ==
    ASSUME TextInv, TreeInv, NEW at, RunAt(at), mode \in {"value", "key"} \/ nodes = <<>>,
           text = <<>> \/ ~Legal(line, Read + 1)
    PROVE  ValueEnds(line) = {}
<1>1. Read \in Nat /\ Len(line) \in Nat /\ (text = <<>> => Read = Len(line))
  BY CurrentToken, StackPlaces
<1>2. SUFFICES ASSUME NEW n \in ValueEnds(line) PROVE FALSE
  OBVIOUS
<1>3. n \in 1..Len(line) /\ n >= Read + 1
  BY NoValueYet DEF ValueEnds
<1>4. text # <<>>
  BY <1>1, <1>3
<1>5. Read + 1 \in 1..n
  BY <1>1, <1>3
<1>6. Legal(line, Read + 1)
  BY <1>5, Zenon DEF ValueEnds, IsValue
<1>7. QED
  BY <1>4, <1>6

\* A value that is refused is none, or the number is out of range.
LEMMA Refused ==
    ASSUME TextInv, TreeInv, NEW at, RunAt(at), line' = line,
           InvalidNumber \/ UnexpectedInValue \/ UnexpectedInKey
    PROVE  TextInv' /\ (errno' = "ERANGE" \/ ValueEnds(line') = {})
<1>1. text' = text
  BY DEF InvalidNumber, UnexpectedInValue, UnexpectedInKey
<1>2. TextInv'
  BY <1>1 DEF TextInv, Read
<1>3. CASE InvalidNumber
  BY <1>2, <1>3 DEF InvalidNumber
<1> DEFINE p == Read
<1>4. /\ p \in Nat
      /\ text # <<>> => Next1 = line[p + 1] /\ Next1 \in Tokens
  BY CurrentToken, StackPlaces
<1>5. ~(p + 1 > 1 /\ IsKey(line, (p + 1) - 1))
  <2>1. p + 1 > 1 => p >= 1
    BY <1>4
  <2>2. (p + 1) - 1 = p
    BY <1>4
  <2>3. QED
    BY <2>1, <2>2 DEF RunAt
<1>6. CASE UnexpectedInValue
  <2>1. mode = "value" /\ (Next1 \in {"open", "bad", "end"} \/ Next1 = EndCurly \/ Next1 = Colon)
    BY <1>6, Zenon DEF UnexpectedInValue, EndCurly, Colon
  <2>2. ~KeyDue(line, p + 1) /\ (Colons(line, p + 1) = {} \/ ~Shut)
    BY <2>1, Due
  <2>3. ASSUME text # <<>>
        PROVE  ~Legal(line, p + 1)
    <3>1. line[p + 1] \in {"open", "bad"} \/ line[p + 1] = EndCurly \/ line[p + 1] = Colon
      BY <2>1, <2>3, <1>4, TokenKinds, Zenon
    <3>2. /\ "open" \notin MadeBy \cup Opener \cup Closer \cup {Comma, Colon}
          /\ "bad" \notin MadeBy \cup Opener \cup Closer \cup {Comma, Colon}
      BY NamesAssumption, Zenon DEF Words, MadeBy, Opener, Closer, Comma, Colon, Curly, Square,
         EndCurly, EndSquare
    <3>3. EndSquare \in Closer /\ EndCurly \in Closer /\ EndCurly # EndSquare /\ Comma # Colon
          /\ Comma \notin Closer /\ Colon \notin Closer
          /\ EndCurly \notin MadeBy /\ Colon \notin MadeBy
      BY MarksDiffer, TokenKinds, Zenon
    <3>4. line[p + 1] # Comma /\ line[p + 1] \notin MadeBy /\ line[p + 1] # EndSquare
      BY <3>1, <3>2, <3>3, Zenon
    <3>5. ~(line[p + 1] = EndCurly /\ line[(p + 1) - 1] = Colon /\ Colons(line, p + 1) # {})
      <4>1. (p + 1) - 1 = p /\ Next1 = line[p + 1]
        BY <2>3, <1>4
      <4>2. QED
        BY <4>1, <2>2 DEF Shut
    <3>6. QED
      BY <3>4, <3>5, <2>2, <1>5, LegalIs, Zenon
  <2>4. ValueEnds(line) = {}
    BY <2>1, <2>3, NoValue
  <2>5. QED
    BY <2>4, <1>2
<1>7. CASE UnexpectedInKey
  <2>1. mode = "key" /\ Next1 # Comma /\ Next1 # EndCurly /\ ~HasKey
    BY <1>7, Zenon DEF UnexpectedInKey, Comma, EndCurly
  <2>2. stack # <<>> /\ ~InArray
    BY <2>1, Due
  <2>3. ~Within(line, p + 1, Square)
    BY <2>2, Standing
  <2>4. ~Skipped(line, 1, p + 1)
    <3>1. nodes # <<>>
      BY <2>2 DEF RunAt
    <3>2. 1 \in 1..Len(nodes)
      BY <3>1, StackPlaces, EmptySeq
    <3>3. at[1] \in 1..p /\ Became(line, at[1], nodes[1])
      BY <3>2 DEF RunAt, Places
    <3>4. at[1] \in 1..(p + 1) - 1
      BY <3>3, <1>4
    <3>5. line[at[1]] # Comma
      BY <3>3, TokenKinds, Zenon DEF Became
    <3>6. QED
      BY <3>4, <3>5, SkippedIs, Zenon
  <2>5. ASSUME text # <<>>
        PROVE  ~IsKey(line, p + 1)
    <3>1. SUFFICES ASSUME IsKey(line, p + 1) PROVE FALSE
      OBVIOUS
    <3>2. line[p + 1] \in Names /\ p + 1 < Len(line) /\ line[(p + 1) + 1] = Colon
      BY <3>1, LegalIs, Zenon
    <3>3. Len(text) > 1 /\ text[2] = line[p + 2] /\ (p + 1) + 1 = p + 2
      <4>1. Len(text) \in Nat /\ Len(line) \in Nat
        BY StackPlaces DEF TextInv
      <4>2. Len(text) > 1 /\ (p + 1) + 1 = p + 2
        BY <4>1, <3>2, <1>4 DEF Read
      <4>3. 2 \in 1..Len(text)
        BY <4>1, <4>2
      <4>4. QED
        BY <4>2, <4>3 DEF TextInv
    <3>4. Next1 \in Names /\ Len(text) > 1 /\ text[2] = Colon
      BY <3>2, <3>3, <2>5, <1>4
    <3>5. HasKey
      BY <3>4, Zenon DEF HasKey, Colon
    <3>6. QED
      BY <3>5, <2>1
  <2>6. ASSUME text # <<>>, Next1 # EndSquare
        PROVE  Colons(line, p + 1) = {}
    BY <2>1, <2>6 DEF RunAt, ModeFits, Shut
  <2>7. ASSUME text # <<>>
        PROVE  ~Legal(line, p + 1)
    <3>1. EndSquare \notin MadeBy
      BY MarksDiffer, TokenKinds, Zenon
    <3>2. line[p + 1] = Next1
      BY <2>7, <1>4
    <3>3. ~(line[p + 1] \in MadeBy /\ ValueDue(line, p + 1))
      BY <3>1, <3>2, <2>3, <2>4, <2>6, <2>7, LegalIs, Zenon
    <3>4. QED
      BY <3>2, <3>3, <2>1, <2>3, <2>5, <2>7, <1>5, LegalIs, Zenon
  <2>8. ValueEnds(line) = {}
    BY <2>1, <2>7, NoValue
  <2>9. QED
    BY <2>8, <1>2
<1>8. QED
  BY <1>3, <1>6, <1>7

\* A line begins with one value at most: what it says is one thing.
LEMMA OneValue ==
    ASSUME NEW l, Len(l) \in Nat, NEW m \in ValueEnds(l), NEW n \in ValueEnds(l)
    PROVE  m = n
<1>1. ASSUME NEW i \in ValueEnds(l), NEW j \in ValueEnds(l), i < j
      PROVE  FALSE
  <2>1. /\ i \in 1..Len(l) /\ j \in 1..Len(l) /\ l[i] # Comma /\ Depth(l, i + 1) = 0
        /\ \A k \in 2..j : Skipped(l, 1, k) \/ Depth(l, k) > 0
    BY Zenon DEF ValueEnds, IsValue, Comma
  <2>2. i + 1 \in 2..j /\ i \in 1..(i + 1) - 1
    BY <2>1, <1>1
  <2>3. ~Skipped(l, 1, i + 1)
    BY <2>1, <2>2, SkippedIs, Zenon
  <2>4. QED
    BY <2>1, <2>2, <2>3
<1>2. m \in Nat /\ n \in Nat
  BY DEF ValueEnds
<1>3. QED
  BY <1>1, <1>2

\* A "]" that closes nothing is no value.
LEMMA NothingRead ==
    ASSUME TextInv, TreeInv, NEW at, RunAt(at), mode = "done", nodes = <<>>
    PROVE  ValueEnds(line) = {}
<1>1. stack = <<>> /\ Next1 = EndSquare
  BY DEF RunAt, ModeFits
<1>2. text # <<>>
  BY <1>1, Zenon DEF Next1, EndSquare
<1>3. line[Read + 1] = EndSquare
  BY <1>1, <1>2, CurrentToken, StackPlaces
<1>4. ~Within(line, Read + 1, Square)
  BY <1>1, Standing
<1>5. /\ EndSquare \notin MadeBy /\ EndSquare # Comma /\ EndSquare # EndCurly
      /\ EndSquare \notin Names /\ EndSquare # Colon
  BY MarksDiffer, TokenKinds, Zenon
<1>6. ~Legal(line, Read + 1)
  BY <1>3, <1>4, <1>5, LegalIs, Zenon
<1>7. QED
  BY <1>6, NoValue

\* When the parser is done with a tree it has read a value.
LEMMA ValueDone ==
    ASSUME TextInv, TreeInv, NEW at, RunAt(at), mode = "done", nodes # <<>>
    PROVE  Read \in ValueEnds(line)
<1>1. stack = <<>> /\ Read >= 1 /\ line[Read] # Comma
  BY DEF RunAt, ModeFits
<1>2. Read \in Nat /\ Read <= Len(line) /\ Len(line) \in Nat
  BY CurrentToken, StackPlaces
<1>3. Depth(line, Read + 1) = 0 /\ \A i \in 1..Read : Legal(line, i)
  <2>1. Len(stack) = 0
    BY <1>1
  <2>2. QED
    BY <2>1 DEF RunAt, Sound
<1>4. ASSUME NEW i \in 2..Read
      PROVE  Skipped(line, 1, i) \/ Depth(line, i) > 0
  <2>1. 1 \in 1..Len(nodes)
    BY StackPlaces, EmptySeq
  <2>2. /\ at[1] \in 1..Read /\ Skipped(line, 1, at[1])
        /\ \A j \in at[1] + 1..Read : Depth(line, j) > 0
    BY <2>1 DEF RunAt, Places
  <2>3. CASE i <= at[1]
    <3>1. \A j \in 1..i - 1 : j \in 1..at[1] - 1
      BY <2>2, <2>3
    <3>2. QED
      BY <3>1, <2>2, SkippedIs, Zenon
  <2>4. CASE i > at[1]
    <3>1. i \in at[1] + 1..Read
      BY <2>2, <2>4
    <3>2. QED
      BY <3>1, <2>2
  <2>5. QED
    BY <2>2, <2>3, <2>4
<1>5. IsValue(line, Read)
  BY <1>1, <1>3, <1>4, Zenon DEF IsValue, Comma
<1>6. Read \in 1..Len(line)
  BY <1>1, <1>2
<1>7. QED
  BY <1>5, <1>6 DEF ValueEnds
-----------------------------------------------------------------------------
\* What is told, by one token after the other.
LEMMA ToldIs ==
    ASSUME NEW l, NEW n
    PROVE  Told(l, n) = {i \in 1..n : IsTold(l, i)}
BY Zenon DEF Told, IsTold

\* A line says the same as long as nothing more is told.
LEMMA SaysSame ==
    ASSUME NEW l, NEW i \in Nat, NEW j \in Nat, i <= j,
           \A k \in i + 1..j : ~IsTold(l, k)
    PROVE  Says(l, j) = Says(l, i)
<1>1. \A k \in 1..j : k \in 1..i \/ k \in i + 1..j
  OBVIOUS
<1>2. \A k \in 1..i : k \in 1..j
  OBVIOUS
<1>3. Told(l, j) = Told(l, i)
  BY <1>1, <1>2, ToldIs, Zenon
<1> DEFINE says(T) ==
      [m \in 1..Cardinality(T) |->
          LET k == CHOOSE k \in T : Cardinality(Told(l, k)) = m
          IN  [name |-> KeyAt(l, k), type |-> TypeOf(l[k])]]
<1>4. Says(l, i) = says(Told(l, i)) /\ Says(l, j) = says(Told(l, j))
  BY DEF Says
<1> HIDE DEF says
<1>5. QED
  BY <1>3, <1>4

\* At first nothing is said.
LEMMA SaysNothing ==
    ASSUME NEW l
    PROVE  Says(l, 0) = <<>>
<1>1. 1..0 = {}
  OBVIOUS
<1>2. Told(l, 0) = {}
  BY <1>1, ToldIs, Zenon
<1>3. Cardinality(Told(l, 0)) = 0
  BY <1>2, FS_EmptySet
<1>4. QED
  BY <1>3 DEF Says

\* One more scalar with a name is said after the others.
LEMMA SaysStep ==
    ASSUME NEW l, NEW i \in Nat, NEW j \in Nat, i < j,
           \A k \in i + 1..j - 1 : ~IsTold(l, k), IsTold(l, j),
           Says(l, i) \in Seq(Sensor), NEW e \in Sensor,
           e = [name |-> KeyAt(l, j), type |-> TypeOf(l[j])]
    PROVE  Says(l, j) = Append(Says(l, i), e)
<1> DEFINE A == Told(l, i)
           B == Told(l, j)
           c == Cardinality(A)
           at(T, m) == CHOOSE k \in T : Cardinality(Told(l, k)) = m
           said(k) == [name |-> KeyAt(l, k), type |-> TypeOf(l[k])]
<1>1. B = A \cup {j} /\ j \notin A
  <2>1. \A k \in 1..j : k \in 1..i \/ k \in i + 1..j - 1 \/ k = j
    OBVIOUS
  <2>2. (\A k \in 1..i : k \in 1..j) /\ j \in 1..j /\ j \notin 1..i
    OBVIOUS
  <2>3. QED
    BY <2>1, <2>2, ToldIs, Zenon
<1>2. /\ IsFiniteSet(A) /\ c \in Nat
      /\ \A k \in A : Cardinality(Told(l, k)) \in Nat /\ Cardinality(Told(l, k)) <= c
  <2>1. \A n \in 0..i : IsFiniteSet(Told(l, n))
    <3>1. TAKE n \in 0..i
    <3>2. 1 \in Int /\ n \in Int
      OBVIOUS
    <3>3. IsFiniteSet(1..n)
      BY <3>2, FS_Interval
    <3>4. Told(l, n) \in SUBSET (1..n)
      BY ToldIs
    <3>5. QED
      BY <3>3, <3>4, FS_Subset
  <2>2. i \in 0..i
    OBVIOUS
  <2>3. IsFiniteSet(A) /\ c \in Nat
    BY <2>1, <2>2, FS_CardinalityType
  <2>4. ASSUME NEW k \in A
        PROVE  Cardinality(Told(l, k)) \in Nat /\ Cardinality(Told(l, k)) <= c
    <3>1. k \in 1..i
      BY ToldIs
    <3>2. k \in 0..i /\ \A x \in 1..k : x \in 1..i
      BY <3>1
    <3>3. Told(l, k) \in SUBSET A
      BY <3>2, ToldIs, Zenon
    <3>4. QED
      BY <3>2, <3>3, <2>1, <2>3, FS_Subset, FS_CardinalityType
  <2>5. QED
    BY <2>3, <2>4
<1>3. Cardinality(B) = c + 1 /\ \A m \in 1..c + 1 : m \in 1..c \/ m = c + 1
  <2>1. Cardinality(B) = c + 1 /\ c \in Nat
    BY <1>1, <1>2, FS_AddElement
  <2> HIDE DEF c
  <2>2. QED
    BY <2>1
<1>4. /\ Says(l, i) = [m \in 1..c |-> said(at(A, m))]
      /\ Says(l, j) = [m \in 1..c + 1 |-> said(at(B, m))]
  BY <1>3, Zenon DEF Says
<1>5. ASSUME NEW m \in 1..c
      PROVE  at(B, m) = at(A, m)
  <2>1. m # c + 1
    BY <1>2
  <2>2. Cardinality(Told(l, j)) # m
    BY <1>3, <2>1
  <2>3. \A k : k \in B /\ Cardinality(Told(l, k)) = m <=> k \in A /\ Cardinality(Told(l, k)) = m
    BY <1>1, <2>2, Zenon
  <2> HIDE DEF A, B
  <2>4. QED
    BY <2>3, Zenon
<1>6. at(B, c + 1) = j
  <2>1. \A k \in A : Cardinality(Told(l, k)) # c + 1
    BY <1>2
  <2>2. j \in B /\ Cardinality(Told(l, j)) = c + 1
    BY <1>1, <1>3
  <2>3. \A k \in B : Cardinality(Told(l, k)) = c + 1 => k = j
    BY <2>1, <1>1
  <2> HIDE DEF A, B, c
  <2>4. QED
    BY <2>2, <2>3, Zenon
<1> HIDE DEF c, A, B, at
<1>7. said(j) = e
  OBVIOUS
<1> HIDE DEF said
<1> DEFINE s == Says(l, i)
           t == Says(l, j)
<1>8. Len(s) = c /\ DOMAIN s = 1..c
  BY <1>2, <1>4
<1>9. /\ Append(s, e) \in Seq(Sensor) /\ Len(Append(s, e)) = c + 1
      /\ \A m \in 1..c : Append(s, e)[m] = s[m]
      /\ Append(s, e)[c + 1] = e
  BY <1>8, Appended
<1>10. t = [m \in 1..c + 1 |-> said(at(B, m))] /\ c + 1 \in Nat
  BY <1>2, <1>4
<1>11. \A m \in 1..c + 1 : t[m] = Append(s, e)[m]
  <2>1. TAKE m \in 1..c + 1
  <2>2. CASE m \in 1..c
    <3>1. s[m] = said(at(A, m)) /\ t[m] = said(at(B, m))
      BY <2>2, <1>4
    <3>2. QED
      BY <3>1, <2>2, <1>5, <1>9
  <2>3. CASE m = c + 1
    <3>1. t[m] = said(at(B, c + 1))
      BY <2>3, <1>10
    <3>2. QED
      BY <3>1, <2>3, <1>6, <1>7, <1>9
  <2> HIDE DEF s, t
  <2>4. m \in 1..c \/ m = c + 1
    BY <1>3, Zenon
  <2>5. QED
    BY <2>2, <2>3, <2>4
<1> HIDE DEF s, t
<1>12. DOMAIN Append(s, e) = 1..c + 1 /\ DOMAIN t = 1..c + 1
  BY <1>9, <1>10
<1>13. \A m \in 1..c + 1 : t[m] \in Sensor
  BY <1>9, <1>11, ElementOfSeq
<1>14. t \in Seq(Sensor) /\ Len(t) = c + 1
  BY <1>10, <1>12, <1>13
<1>15. t = Append(s, e)
  BY <1>9, <1>11, <1>14, SeqEqual
<1>16. QED
  BY <1>15 DEF s, t
-----------------------------------------------------------------------------
\* The list says what the tokens of the nodes visited so far say.
Walked(at) == phase = "walk" => sensors = Says(line, IF walked = 0 THEN 0 ELSE at[walked])

\* Of the line in hand the parser has read the beginning of a value, or refuses
\* it rightly; in the walk the list says what has been walked.
GrammarInv ==
    /\ TextInv
    /\ mode \in {"value", "key", "return", "done"} => \E at : RunAt(at) /\ Walked(at)
    /\ mode = "failed" => errno = "ERANGE" \/ ValueEnds(line) = {}
    /\ phase = "idle" => mode = "off"
    /\ phase = "walk" => mode = "done" /\ nodes # <<>>

\* A node is a sensor when its token is a scalar with a name.
LEMMA SensorIsTold ==
    ASSUME NEW l, NEW k, NEW node \in Node, Became(l, k, node)
    PROVE  /\ IsSensor(node) <=> IsTold(l, k)
           /\ IsTold(l, k) => node.key = KeyAt(l, k) /\ node.type = TypeOf(l[k])
<1> DEFINE t == l[k]
           scalars == {"string", "dbl", "int", "bool"}
<1>1. /\ t \in MadeBy /\ node.type = TypeOfToken(t) /\ node.key = NameAt(l, k)
      /\ Colons(l, k) # {} => node.key \in Names
  BY Zenon DEF Became
<1>2. node.key \notin {NoKey, ""} <=> Colons(l, k) # {} /\ KeyAt(l, k) # ""
  BY <1>1, NamesAssumption, Zenon DEF NameAt
<1>3. Colons(l, k) # {} => node.key = KeyAt(l, k)
  BY <1>1, Zenon DEF NameAt
<1>4. CASE t \in Opener
  <2>1. TypeOfToken(t) \in {"object", "array"} /\ t \notin Names \cup {"int", "dbl", "bool"}
    BY <1>4, MarksDiffer, TokenKinds, Zenon DEF TypeOfToken
  <2>2. node.type \notin scalars
    BY <2>1, <1>1
  <2>3. QED
    BY <2>1, <2>2, Zenon DEF IsSensor, IsTold
<1>5. CASE t \notin Opener
  <2>1. TypeOfToken(t) = TypeOf(t)
    BY <1>5, MarksDiffer, Zenon DEF TypeOfToken
  <2>2. t \in Names \/ (t \in {"int", "dbl", "bool", "null"} /\ t \notin Names)
    BY <1>1, <1>5, TokenKinds, Zenon DEF MadeBy
  <2>3. TypeOf(t) = IF t \in Names THEN "string" ELSE t
    BY DEF TypeOf
  <2> HIDE DEF t
  <2>4. TypeOf(t) \in scalars <=> t \in Names \cup {"int", "dbl", "bool"}
    BY <2>2, <2>3
  <2>5. node.type = TypeOf(t)
    BY <2>1, <1>1
  <2>6. QED
    BY <2>4, <2>5, <1>2, <1>3, Zenon DEF IsSensor, IsTold, t
<1>6. QED
  BY <1>4, <1>5

\* Between the token of one node and that of the next one nothing is told.
LEMMA NextTold ==
    ASSUME NEW l, NEW p \in Nat, NEW ns \in Seq(Node), NEW st, NEW at, Places(l, p, ns, st, at),
           NEW w \in Nat, w <= Len(ns), NEW k \in 1..p, IsTold(l, k),
           (w = 0 \/ at[w] < k)
    PROVE  w < Len(ns) /\ at[w + 1] <= k
<1>1. PICK n \in 1..Len(ns) : at[n] = k
  BY DEF Places
<1>2. at \in [1..Len(ns) -> 1..p] /\ \A i, j \in 1..Len(ns) : i < j => at[i] < at[j]
  BY DEF Places
<1>3. Len(ns) \in Nat /\ \A i \in 1..Len(ns) : at[i] \in 1..p
  BY <1>2
<1>4. n > w
  <2>1. SUFFICES ASSUME n <= w PROVE FALSE
    BY <1>1
  <2>2. w \in 1..Len(ns) /\ (n = w \/ n < w)
    BY <2>1, <1>1, <1>3
  <2>3. at[w] < k /\ at[n] = k /\ at[w] \in Int
    BY <2>2, <1>1, <1>3
  <2>4. QED
    BY <2>2, <2>3, <1>2, <1>3
<1>5. w + 1 \in 1..Len(ns) /\ (n = w + 1 \/ w + 1 < n)
  BY <1>1, <1>3, <1>4
<1>6. QED
  BY <1>1, <1>2, <1>3, <1>5

\* add_sensor_value() says what comes next.
LEMMA SensorSaid ==
    ASSUME Inv, TextInv, NEW at, RunAt(at), Walked(at), AddSensor
    PROVE  Walked(at)'
<1> DEFINE i == IF walked = 0 THEN 0 ELSE at[walked]
           j == at[walked + 1]
           node == nodes[walked + 1]
           e == [name |-> node.key, type |-> node.type]
<1>1. /\ phase = "walk" /\ walked < Len(nodes) /\ walked' = walked + 1
      /\ sensors' = IF IsSensor(node) THEN Append(sensors, e) ELSE sensors
      /\ line' = line
  BY DEF AddSensor
<1>2. /\ walked \in Nat /\ sensors \in Seq(Sensor) /\ nodes \in Seq(Node) /\ Len(nodes) \in Nat
      /\ Read \in Nat
  BY StackPlaces, CurrentToken DEF Inv, RoundInv
<1>3. walked + 1 \in 1..Len(nodes) /\ (walked # 0 => walked \in 1..Len(nodes)) /\ walked + 1 # 0
  BY <1>1, <1>2
<1>4. /\ Places(line, Read, nodes, stack, at) /\ at \in [1..Len(nodes) -> 1..Read]
      /\ \A m, n \in 1..Len(nodes) : m < n => at[m] < at[n]
      /\ Became(line, j, node)
  BY <1>3 DEF RunAt, Places
<1>5. i \in Nat /\ j \in 1..Read /\ i < j
  <2>1. j \in 1..Read
    BY <1>3, <1>4
  <2>2. CASE walked = 0
    BY <2>1, <2>2
  <2>3. CASE walked # 0
    BY <2>1, <2>3, <1>2, <1>3, <1>4
  <2>4. QED
    BY <2>1, <2>2, <2>3
<1>6. sensors = Says(line, i)
  BY <1>1 DEF Walked
<1>7. node \in Node
  BY <1>2, <1>3, ElementOfSeq
<1> HIDE DEF i, j, node
<1>8. \A k \in i + 1..j - 1 : ~IsTold(line, k)
  <2>1. SUFFICES ASSUME NEW k \in i + 1..j - 1, IsTold(line, k) PROVE FALSE
    OBVIOUS
  <2>2. k \in 1..Read /\ (walked = 0 \/ at[walked] < k) /\ k < j
    <3>1. k \in 1..Read /\ k > i /\ k < j /\ k \in Int
      <4>1. i \in Nat /\ j \in Int /\ j <= Read /\ Read \in Nat
        BY <1>2, <1>5
      <4>2. QED
        BY <4>1
    <3>2. walked = 0 \/ at[walked] = i
      BY DEF i
    <3>3. QED
      BY <3>1, <3>2
  <2>3. j <= k
    <3>1. Places(line, Read, nodes, stack, at) /\ walked <= Len(nodes)
      BY <1>1, <1>2, <1>4
    <3>2. at[walked + 1] <= k
      BY <2>1, <2>2, <3>1, <1>2, NextTold
    <3>3. QED
      BY <3>2 DEF j
  <2>4. QED
    BY <2>2, <2>3, <1>5
<1>9. Says(line, j) = IF IsSensor(node) THEN Append(sensors, e) ELSE sensors
  <2>1. /\ IsSensor(node) <=> IsTold(line, j)
        /\ IsTold(line, j) => node.key = KeyAt(line, j) /\ node.type = TypeOf(line[j])
    BY <1>4, <1>7, SensorIsTold
  <2>2. CASE IsSensor(node)
    <3>1. e \in Sensor
      BY <2>2, <1>7 DEF IsSensor, Sensor, Node
    <3>2. e = [name |-> KeyAt(line, j), type |-> TypeOf(line[j])] /\ IsTold(line, j)
      BY <2>1, <2>2
    <3>3. j \in Nat
      BY <1>5
    <3> HIDE DEF e
    <3>4. Says(line, i) \in Seq(Sensor)
      BY <1>2, <1>6
    <3>5. Says(line, j) = Append(Says(line, i), e)
      BY <3>1, <3>2, <3>3, <3>4, <1>5, <1>8, SaysStep
    <3>6. QED
      BY <3>5, <2>2, <1>6
  <2>3. CASE ~IsSensor(node)
    <3>1. \A k \in i + 1..j : k \in i + 1..j - 1 \/ k = j
      BY <1>5
    <3>2. \A k \in i + 1..j : ~IsTold(line, k)
      BY <3>1, <2>1, <2>3, <1>8, Zenon
    <3>3. i <= j /\ j \in Nat
      BY <1>5
    <3>4. Says(line, j) = Says(line, i)
      BY <3>2, <3>3, <1>5, SaysSame
    <3>5. QED
      BY <3>4, <2>3, <1>6
  <2>4. QED
    BY <2>2, <2>3
<1>10. sensors' = Says(line', at[walked'])
  BY <1>1, <1>9 DEF j
<1>11. QED
  BY <1>1, <1>3, <1>10 DEF Walked

\* At the end of the walk the list says what the value says.
LEMMA AllSaid ==
    ASSUME Inv, TextInv, NEW at, RunAt(at), Walked(at), EndRound,
           mode = "done", nodes # <<>>
    PROVE  Read \in ValueEnds(line) /\ sensors = Says(line, Read) /\ line \in Lines
<1>1. phase = "walk" /\ walked = Len(nodes)
  BY DEF EndRound
<1>2. Read \in ValueEnds(line) /\ line \in Lines
  BY <1>1, ValueDone DEF Inv, WholeLine
<1>3. nodes \in Seq(Node) /\ Len(nodes) \in Nat /\ Len(nodes) >= 1 /\ Read \in Nat
  BY StackPlaces, CurrentToken, EmptySeq DEF Inv
<1> DEFINE n == Len(nodes)
           i == at[n]
<1>4. n \in 1..Len(nodes) /\ n # 0
  BY <1>3
<1>5. i \in 1..Read /\ Places(line, Read, nodes, stack, at)
  BY <1>4 DEF RunAt, Places
<1>6. sensors = Says(line, i)
  BY <1>1, <1>4 DEF Walked
<1>7. \A k \in i + 1..Read : ~IsTold(line, k)
  <2>1. SUFFICES ASSUME NEW k \in i + 1..Read, IsTold(line, k) PROVE FALSE
    OBVIOUS
  <2>2. k \in 1..Read /\ at[n] < k /\ n \in Nat /\ n <= Len(nodes)
    BY <1>3, <1>5
  <2>3. n < Len(nodes)
    BY <2>1, <2>2, <1>3, <1>5, NextTold
  <2>4. QED
    BY <2>3, <1>3
<1> HIDE DEF i
<1>8. Says(line, Read) = Says(line, i)
  <2>1. i \in Nat /\ i <= Read
    BY <1>5
  <2>2. QED
    BY <2>1, <1>3, <1>7, SaysSame
<1>9. QED
  BY <1>2, <1>6, <1>8

\* A line is taken up: nothing is read.
LEMMA LineTaken ==
    ASSUME line' \in Seq(Tokens), Begin(line'), phase' = "parse"
    PROVE  TextInv' /\ \E at : RunAt(at)' /\ Walked(at)'
<1> DEFINE l == line'
           at == [n \in 1..0 |-> 0]
<1>1. /\ text' = l /\ stack' = <<>> /\ nodes' = <<>> /\ key' = NoKey /\ mode' = "value"
      /\ Len(l) \in Nat /\ Len(<<>>) = 0
  BY EmptySeq DEF Begin
<1>2. Read' = 0 /\ Read' + 1 = 1 /\ TextInv'
  BY <1>1 DEF Read, TextInv
<1>3. Sound(l, 0, 0)
  <2>1. Depth(l, 1) = 0
    BY DepthStart
  <2>2. \A j \in 1..0 + 1 : j = 1
    OBVIOUS
  <2>3. QED
    BY <2>1, <2>2 DEF Sound
<1>4. Skipped(l, 1, 1) /\ Colons(l, 1) = {}
  <2>1. 1..1 - 1 = {}
    OBVIOUS
  <2>2. QED
    BY <2>1, SkippedIs, ColonsIs, Zenon
<1>5. Places(l, 0, <<>>, <<>>, at)
  BY <1>1 DEF Places
<1> HIDE DEF at
<1>6. ModeFits'
  <2>1. NameAt(line', Read' + 1) = NoKey /\ Colons(line', Read' + 1) = {}
    BY <1>2, <1>4 DEF NameAt
  <2>2. QED
    BY <2>1, <1>1 DEF ModeFits
<1>7. RunAt(at)'
  BY <1>1, <1>2, <1>3, <1>4, <1>5, <1>6 DEF RunAt
<1>8. Walked(at)'
  BY DEF Walked
<1>9. QED
  BY <1>2, <1>7, <1>8

\* A turn of the parser.
LEMMA ParseKeepsGrammar ==
    ASSUME Inv, GrammarInv, ParseLine
    PROVE  GrammarInv'
<1>1. /\ phase = "parse" /\ Parse /\ UNCHANGED <<log, unwritten, phase, line, walked, sensors>>
      /\ TextInv /\ TreeInv
  BY DEF ParseLine, weather, Inv, GrammarInv
<1>2. mode \in {"value", "key", "return", "done"}
  BY <1>1 DEF Parse, SkipInValue, SkipInKey, CloseInValue, NextItem, NextKey, Finish,
     OpenObject, OpenArray, Scalar, InvalidNumber, UnexpectedInValue, UnexpectedInKey,
     CloseObject, CloseArray, KeyFound
<1>3. PICK at : RunAt(at)
  BY <1>2 DEF GrammarInv
<1>4. line' = line
  BY <1>1
<1>5. phase' = "parse" /\ \A bt : Walked(bt)'
  BY <1>1 DEF GrammarInv, Walked
<1>6. CASE InvalidNumber \/ UnexpectedInValue \/ UnexpectedInKey
  <2>1. TextInv' /\ (errno' = "ERANGE" \/ ValueEnds(line') = {})
    BY <1>1, <1>3, <1>4, <1>6, Refused
  <2>2. mode' = "failed"
    BY <1>6 DEF InvalidNumber, UnexpectedInValue, UnexpectedInKey
  <2>3. QED
    BY <2>1, <2>2, <1>5 DEF GrammarInv
<1>7. CASE ~(InvalidNumber \/ UnexpectedInValue \/ UnexpectedInKey)
  <2>1. TextInv' /\ \E bt : RunAt(bt)'
    <3>1. CASE CloseInValue \/ NextItem \/ NextKey \/ Finish
      BY <3>1, <1>1, <1>3, <1>4, TurnOnly
    <3>2. CASE SkipInValue \/ SkipInKey
      BY <3>2, <1>1, <1>3, <1>4, CommaSkipped
    <3>3. CASE OpenObject \/ OpenArray \/ Scalar
      BY <3>3, <1>1, <1>3, <1>4, ValueRead
    <3>4. CASE CloseObject \/ CloseArray
      BY <3>4, <1>1, <1>3, <1>4, ContainerClosed
    <3>5. CASE KeyFound
      BY <3>5, <1>1, <1>3, <1>4, KeyRead
    <3>6. QED
      BY <3>1, <3>2, <3>3, <3>4, <3>5, <1>1, <1>7, Zenon DEF Parse
  <2>2. mode' # "failed"
    BY <1>1, <1>7 DEF Parse, SkipInValue, SkipInKey, CloseInValue, NextItem, NextKey, Finish,
       OpenObject, OpenArray, Scalar, CloseObject, CloseArray, KeyFound
  <2>3. QED
    BY <2>1, <2>2, <1>5 DEF GrammarInv
<1>8. QED
  BY <1>6, <1>7

\* The invariant about the grammar holds in every state.
THEOREM GrammarCorrect == Spec => []GrammarInv
<1>1. Init => GrammarInv
  <2> SUFFICES ASSUME Init PROVE GrammarInv
    OBVIOUS
  <2>1. text = <<>> /\ line = <<>> /\ mode = "off" /\ phase = "idle"
    BY DEF Init, ParserInit
  <2>2. TextInv
    BY <2>1, EmptySeq DEF TextInv
  <2>3. QED
    BY <2>1, <2>2 DEF GrammarInv
<1>2. Inv /\ Inv' /\ GrammarInv /\ [Next]_vars => GrammarInv'
  <2> SUFFICES ASSUME Inv, Inv', GrammarInv, [Next]_vars PROVE GrammarInv'
    OBVIOUS
  <2>1. TextInv /\ TreeInv
    BY DEF GrammarInv, Inv
  <2>2. CASE Writer \/ ErrnoChanges
    <3>1. phase = "idle" /\ UNCHANGED <<text, mode, phase, line>>
      BY <2>2 DEF Writer, StartLine, EndLine, Rotate, ErrnoChanges, parser, weather
    <3>2. TextInv'
      BY <3>1, <2>1 DEF TextInv, Read
    <3>3. mode = "off"
      BY <3>1 DEF GrammarInv
    <3>4. QED
      BY <3>1, <3>2, <3>3 DEF GrammarInv
  <2>3. CASE ReadLine
    <3>1. line' = LastLine /\ Begin(LastLine) /\ phase = "idle" /\ phase' = "parse"
      BY <2>3 DEF ReadLine
    <3>2. line' \in Lines
      BY <3>1 DEF Inv, WholeLine
    <3>3. line' \in Seq(Tokens) /\ Begin(line')
      BY <3>1, <3>2, LinesAssumption
    <3>4. TextInv' /\ \E at : RunAt(at)' /\ Walked(at)'
      BY <3>1, <3>3, LineTaken
    <3>5. mode' = "value"
      BY <3>1 DEF Begin
    <3>6. QED
      BY <3>1, <3>4, <3>5 DEF GrammarInv
  <2>4. CASE ParseLine
    BY <2>4, ParseKeepsGrammar
  <2>5. CASE Discard
    <3>1. text' = <<>> /\ line' = <<>> /\ mode' = "off" /\ phase' = "idle"
      BY <2>5 DEF Discard, Release
    <3>2. TextInv'
      BY <3>1, EmptySeq DEF TextInv
    <3>3. QED
      BY <3>1, <3>2 DEF GrammarInv
  <2>6. CASE Clear
    <3>1. /\ mode = "done" /\ nodes # <<>> /\ phase' = "walk" /\ walked' = 0 /\ sensors' = <<>>
          /\ UNCHANGED <<text, stack, nodes, key, mode, errno, line>>
      BY <2>6 DEF Clear, parser
    <3>2. PICK at : RunAt(at)
      BY <3>1 DEF GrammarInv
    <3>3. TextInv' /\ RunAt(at)'
      BY <3>1, <3>2, <2>1 DEF TextInv, Read, RunAt, ModeFits, Shut, InArray, Next1
    <3>4. Walked(at)'
      BY <3>1, SaysNothing DEF Walked
    <3>5. QED
      BY <3>1, <3>3, <3>4 DEF GrammarInv
  <2>7. CASE AddSensor
    <3>1. /\ phase = "walk" /\ phase' = "walk"
          /\ UNCHANGED <<text, stack, nodes, key, mode, errno, line>>
      BY <2>7 DEF AddSensor, parser
    <3>2. mode = "done" /\ nodes # <<>>
      BY <3>1 DEF GrammarInv
    <3>3. PICK at : RunAt(at) /\ Walked(at)
      BY <3>2 DEF GrammarInv
    <3>4. TextInv' /\ RunAt(at)'
      BY <3>1, <3>3, <2>1 DEF TextInv, Read, RunAt, ModeFits, Shut, InArray, Next1
    <3>5. Walked(at)'
      BY <3>3, <2>1, <2>7, SensorSaid
    <3>6. QED
      BY <3>1, <3>2, <3>4, <3>5 DEF GrammarInv
  <2>8. CASE EndRound
    <3>1. text' = <<>> /\ line' = <<>> /\ mode' = "off" /\ phase' = "idle"
      BY <2>8 DEF EndRound, Release
    <3>2. TextInv'
      BY <3>1, EmptySeq DEF TextInv
    <3>3. QED
      BY <3>1, <3>2 DEF GrammarInv
  <2>9. CASE UNCHANGED vars
    <3>1. UNCHANGED <<text, stack, nodes, key, mode, errno, phase, line, walked, sensors>>
      BY <2>9 DEF vars, parser, weather
    <3>2. TextInv'
      BY <3>1, <2>1 DEF TextInv, Read
    <3>3. ASSUME NEW at, RunAt(at), Walked(at)
          PROVE  RunAt(at)' /\ Walked(at)'
      BY <3>1, <3>3 DEF Read, RunAt, ModeFits, Shut, InArray, Next1, Walked
    <3>4. QED
      BY <3>1, <3>2, <3>3 DEF GrammarInv
  <2>10. QED
    BY <2>2, <2>3, <2>4, <2>5, <2>6, <2>7, <2>8, <2>9 DEF Next, Reader
<1>3. QED
  BY <1>1, <1>2, InvCorrect, PTL DEF Spec

\* get_weather_from_json() throws no line away that begins with a value, unless
\* errno says that a number was out of range.
THEOREM WellFormedCorrect == Spec => WellFormedTaken
<1>1. Inv /\ GrammarInv /\ Discard => line \notin Accepted \/ errno = "ERANGE"
  <2> SUFFICES ASSUME Inv, GrammarInv, Discard
               PROVE  line \notin Accepted \/ errno = "ERANGE"
    OBVIOUS
  <2>1. TextInv /\ TreeInv
    BY DEF Inv, GrammarInv
  <2>2. CASE mode = "failed"
    BY <2>2 DEF GrammarInv, Accepted
  <2>3. CASE mode = "done" /\ nodes = <<>>
    <3>1. PICK at : RunAt(at)
      BY <2>3 DEF GrammarInv
    <3>2. ValueEnds(line) = {}
      BY <3>1, <2>1, <2>3, NothingRead
    <3>3. QED
      BY <3>2 DEF Accepted
  <2>4. QED
    BY <2>2, <2>3 DEF Discard, NoTree
<1>2. Inv /\ GrammarInv /\ [Next]_vars
          => [Discard => line \notin Accepted \/ errno = "ERANGE"]_vars
  BY <1>1
<1>3. QED
  BY <1>2, InvCorrect, GrammarCorrect, PTL DEF Spec, WellFormedTaken

\* weather_clear() and the walk only ever follow a whole line that begins with a
\* value, and the list a round leaves says what that value says: every scalar of
\* it that has a name, in the order of the line, and nothing else.
THEOREM SensorsCorrect == Spec => SensorsOfTheLine
<1>1. ASSUME Inv, GrammarInv, phase # "idle", mode = "done", nodes # <<>>
      PROVE  line \in Accepted
  <2>1. TextInv /\ TreeInv /\ line \in Lines
    BY <1>1 DEF Inv, GrammarInv, WholeLine
  <2>2. PICK at : RunAt(at)
    BY <1>1 DEF GrammarInv
  <2>3. Read \in ValueEnds(line)
    BY <1>1, <2>1, <2>2, ValueDone
  <2>4. QED
    BY <2>1, <2>3 DEF Accepted
<1>2. ASSUME Inv, GrammarInv, Next, sensors' # sensors
      PROVE  line \in Accepted
  <2>1. Clear \/ AddSensor
    BY <1>2 DEF Next, Writer, StartLine, EndLine, Rotate, ErrnoChanges, Reader, ReadLine, ParseLine,
       Discard, EndRound, weather
  <2>2. phase # "idle" /\ mode = "done" /\ nodes # <<>>
    BY <1>2, <2>1 DEF Clear, AddSensor, GrammarInv
  <2>3. QED
    BY <1>1, <1>2, <2>2
<1>3. ASSUME Inv, GrammarInv, EndRound
      PROVE  \E n \in ValueEnds(line) : sensors' = Says(line, n)
  <2>1. phase = "walk" /\ sensors' = sensors
    BY <1>3 DEF EndRound
  <2>2. mode = "done" /\ nodes # <<>> /\ TextInv
    BY <1>3, <2>1 DEF GrammarInv
  <2>3. PICK at : RunAt(at) /\ Walked(at)
    BY <1>3, <2>2 DEF GrammarInv
  <2>4. Read \in ValueEnds(line) /\ sensors = Says(line, Read)
    BY <1>3, <2>2, <2>3, AllSaid
  <2>5. QED
    BY <2>1, <2>4
<1>4. Inv /\ GrammarInv /\ [Next]_vars
          => [/\ sensors' # sensors => line \in Accepted
              /\ EndRound => \E n \in ValueEnds(line) : sensors' = Says(line, n)]_vars
  BY <1>2, <1>3
<1>5. QED
  BY <1>4, InvCorrect, GrammarCorrect, PTL DEF Spec, SensorsOfTheLine
=============================================================================
