--------------------------- MODULE ArrayListProofs --------------------------
(***************************************************************************)
(* Proofs about ArrayList, for every set of objects and every granularity  *)
(* of growth: no operation writes outside the memory of the array, no      *)
(* object is lost or freed twice, and the array implements ObjectList.     *)
(***************************************************************************)
EXTENDS ArrayList, TLAPS

\* The room array_grow() adds is at least what is asked for.
LEMMA DeltaFacts ==
    ASSUME NEW n \in Nat
    PROVE  Delta(n) \in Nat /\ Delta(n) >= n
<1> DEFINE q == (n + MinDelta - 1) \div MinDelta
<1>1. MinDelta \in Nat /\ MinDelta > 0
  BY ArrayAssumption
<1>2. q \in Int /\ q * MinDelta <= n + MinDelta - 1 /\ n + MinDelta - 1 < q * MinDelta + MinDelta
  BY <1>1, Z3T(30)
<1>3. q * MinDelta \in Int
  BY <1>1, <1>2
<1> HIDE DEF q
<1>4. q * MinDelta >= n
  BY <1>1, <1>2, <1>3
<1>5. QED
  BY <1>3, <1>4 DEF Delta, q

\* array_grow() gives more memory and keeps the items.
LEMMA GrownFacts ==
    ASSUME TypeOK, InBounds, NEW room \in Nat
    PROVE  /\ Grown(room) \in [0..capacity + room - 1 -> Objects \cup {NULL}]
           /\ \A i \in 0..count - 1 : Grown(room)[i] = items[i]
  BY DEF TypeOK, InBounds, Grown

\* The memory has a place for one more item and still holds the others.
LEMMA RoomFacts ==
    ASSUME TypeOK, InBounds
    PROVE  /\ Room \in Nat /\ count < capacity + Room
           /\ Memory \in [0..capacity + Room - 1 -> Objects \cup {NULL}]
           /\ \A i \in 0..count - 1 : Memory[i] = items[i]
<1>1. count + 1 \in Nat /\ count \in Nat /\ capacity \in Nat
  BY DEF TypeOK
<1>2. CASE count >= capacity
  <2>1. Room = Delta(count + 1) /\ Memory = Grown(Room)
    BY <1>2 DEF Room, Memory
  <2>2. Room \in Nat /\ Room >= count + 1
    BY <1>1, <2>1, DeltaFacts
  <2>3. QED
    BY <1>1, <2>1, <2>2, GrownFacts
<1>3. CASE count < capacity
  <2>1. Room = 0 /\ Memory = items
    BY <1>1, <1>3 DEF Room, Memory
  <2>2. QED
    BY <1>1, <1>3, <2>1 DEF TypeOK
<1>4. QED
  BY <1>1, <1>2, <1>3

\* A write inside the memory changes one position.
LEMMA PutFacts ==
    ASSUME NEW top \in Int, NEW memory \in [0..top -> Objects \cup {NULL}],
           NEW pos \in 0..top, NEW obj \in Objects \cup {NULL}
    PROVE  /\ Put(memory, pos, obj) \in [0..top -> Objects \cup {NULL}]
           /\ Put(memory, pos, obj)[pos] = obj
           /\ \A i \in 0..top : i # pos => Put(memory, pos, obj)[i] = memory[i]
<1>1. DOMAIN memory \cup {pos} = 0..top
  OBVIOUS
<1>2. Put(memory, pos, obj) = [i \in 0..top |-> IF i = pos THEN obj ELSE memory[i]]
  BY <1>1 DEF Put
<1>3. QED
  BY <1>2

\* array_insert() leaves the items below the position, puts the object there
\* and moves the items above it up.
LEMMA MovedUpFacts ==
    ASSUME TypeOK, InBounds, NEW obj \in Objects, NEW at \in 0..count
    PROVE  LET memory == Put(MovedUp(Memory, at), at, obj) IN
           /\ memory \in [0..capacity + Room - 1 -> Objects \cup {NULL}]
           /\ memory[at] = obj
           /\ \A i \in 0..at - 1 : memory[i] = items[i]
           /\ \A i \in at + 1..count : memory[i] = items[i - 1]
<1> DEFINE top == capacity + Room - 1
<1>1. /\ Memory \in [0..top -> Objects \cup {NULL}] /\ top \in Int /\ count <= top
      /\ \A i \in 0..count - 1 : Memory[i] = items[i]
  BY RoomFacts DEF TypeOK
<1>2. count \in Nat
  BY DEF TypeOK
<1> HIDE DEF top
<1> DEFINE moved == MovedUp(Memory, at)
<1>3. DOMAIN Memory \cup (at + 1)..count = 0..top
  BY <1>1, <1>2
<1>4. moved = [i \in 0..top |-> IF i > at /\ i <= count THEN Memory[i - 1] ELSE Memory[i]]
  BY <1>3 DEF MovedUp
<1>5. /\ moved \in [0..top -> Objects \cup {NULL}] /\ at \in 0..top
      /\ \A i \in 0..at - 1 : moved[i] = items[i]
      /\ \A i \in at + 1..count : moved[i] = items[i - 1]
  BY <1>1, <1>2, <1>4
<1> HIDE DEF moved
<1>6. /\ Put(moved, at, obj) \in [0..top -> Objects \cup {NULL}]
      /\ Put(moved, at, obj)[at] = obj
      /\ \A i \in 0..top : i # at => Put(moved, at, obj)[i] = moved[i]
  BY <1>1, <1>5, PutFacts
<1>7. QED
  BY <1>1, <1>2, <1>5, <1>6 DEF moved, top
-----------------------------------------------------------------------------
\* array_append() is array_insert() at the end.
LEMMA AppendFacts ==
    ASSUME TypeOK, InBounds, NEW obj \in Objects
    PROVE  LET memory == Put(Memory, count, obj) IN
           /\ memory \in [0..capacity + Room - 1 -> Objects \cup {NULL}]
           /\ memory[count] = obj
           /\ \A i \in 0..count - 1 : memory[i] = items[i]
<1> DEFINE top == capacity + Room - 1
<1>1. /\ Memory \in [0..top -> Objects \cup {NULL}] /\ top \in Int /\ count \in 0..top
      /\ \A i \in 0..count - 1 : Memory[i] = items[i]
  BY RoomFacts DEF TypeOK
<1> HIDE DEF top
<1>2. QED
  BY <1>1, PutFacts DEF top

\* What both do to the array.
InsertedAt(obj, at) ==
    /\ items' \in [0..capacity' - 1 -> Objects \cup {NULL}]
    /\ capacity' \in Nat /\ count < capacity' /\ count' = count + 1
    /\ items'[at] = obj
    /\ \A i \in 0..at - 1 : items'[i] = items[i]
    /\ \A i \in at + 1..count : items'[i] = items[i - 1]
    /\ obj \in owned /\ owned' = owned \ {obj}
    /\ handle = "array" /\ op = "none" /\ UNCHANGED <<handle, op>>

\* Appending inserts at the end.
LEMMA AppendInserts ==
    ASSUME TypeOK, InBounds, NEW obj \in Objects, array_append(obj)
    PROVE  InsertedAt(obj, count)
<1>1. capacity' = capacity + Room /\ Room \in Nat /\ count < capacity + Room
  BY RoomFacts DEF array_append
<1>2. items' = Put(Memory, count, obj)
  BY DEF array_append
<1>3. QED
  BY <1>1, <1>2, AppendFacts DEF InsertedAt, array_append, Enter, TypeOK

\* Inserting beyond the end inserts at the end.
LEMMA InsertInserts ==
    ASSUME TypeOK, InBounds, NEW obj \in Objects, NEW position \in Nat,
           array_insert(obj, position)
    PROVE  \E at \in 0..count : InsertedAt(obj, at)
<1> DEFINE at == IF position > count THEN count ELSE position
<1>1. at \in 0..count
  BY DEF TypeOK
<1>2. capacity' = capacity + Room /\ Room \in Nat /\ count < capacity + Room
  BY RoomFacts DEF array_insert
<1>3. items' = Put(MovedUp(Memory, at), at, obj)
  BY DEF array_insert
<1>4. count' = count + 1 /\ obj \in owned /\ owned' = owned \ {obj}
      /\ handle = "array" /\ op = "none" /\ UNCHANGED <<handle, op>>
  BY DEF array_insert, Enter
<1> HIDE DEF at
<1>5. InsertedAt(obj, at)
  BY <1>1, <1>2, <1>3, <1>4, MovedUpFacts DEF InsertedAt, TypeOK
<1>6. QED
  BY <1>1, <1>5

\* What the other operations do: an item is taken out, the ones behind it
\* move down.
RemovedAt(at) ==
    /\ items' \in [0..capacity - 1 -> Objects \cup {NULL}]
    /\ capacity' = capacity /\ count' = count - 1
    /\ \A i \in 0..at - 1 : items'[i] = items[i]
    /\ \A i \in at..count - 2 : items'[i] = items[i + 1]
    /\ owned' = owned \cup {items[at]}
    /\ handle = "array" \/ op # "none"
    /\ op' = op /\ handle' = handle

\* array_del() takes the item out wherever it is, whatever it reads beyond the end.
LEMMA DelRemoves ==
    ASSUME Inv, NEW obj \in Objects, array_del(obj)
    PROVE  op = "none" /\ \E at \in 0..count - 1 : RemovedAt(at)
<1>1. op = "none" /\ handle = "array" /\ capacity' = capacity /\ count' = count - 1 /\ op' = op
      /\ handle' = handle /\ owned' = owned \cup {obj}
  BY DEF array_del, Enter
<1>2. PICK pos \in 0..count - 1 :
        /\ items[pos] = obj
        /\ \/ pos = count - 1 /\ items' = Put(items, pos, NULL)
           \/ pos # count - 1 /\ \E beyond \in Objects \cup {NULL} : items' = MovedDown(pos, beyond)
  BY DEF array_del
<1>3. count \in Nat /\ capacity \in Nat /\ count <= capacity
      /\ items \in [0..capacity - 1 -> Objects \cup {NULL}]
  BY DEF Inv, TypeOK, InBounds
<1>4. CASE pos = count - 1 /\ items' = Put(items, pos, NULL)
  <2>1. capacity - 1 \in Int /\ pos \in 0..capacity - 1
    BY <1>2, <1>3
  <2>2. /\ items' \in [0..capacity - 1 -> Objects \cup {NULL}]
        /\ \A i \in 0..capacity - 1 : i # pos => items'[i] = items[i]
    BY <1>3, <1>4, <2>1, PutFacts
  <2>3. QED
    BY <1>1, <1>2, <1>3, <1>4, <2>2 DEF RemovedAt
<1>5. ASSUME NEW beyond \in Objects \cup {NULL}, pos # count - 1, items' = MovedDown(pos, beyond)
      PROVE  RemovedAt(pos)
  <2>1. DOMAIN items \cup pos..count - 1 = 0..capacity - 1
    BY <1>2, <1>3
  <2>2. items' = [i \in 0..capacity - 1 |->
                     IF i \notin pos..count - 1 THEN items[i]
                     ELSE IF i + 1 \in DOMAIN items THEN items[i + 1] ELSE beyond]
    BY <1>5, <2>1 DEF MovedDown
  <2>3. /\ items' \in [0..capacity - 1 -> Objects \cup {NULL}]
        /\ \A i \in 0..pos - 1 : items'[i] = items[i]
        /\ \A i \in pos..count - 2 : items'[i] = items[i + 1]
    BY <1>2, <1>3, <2>2
  <2>4. QED
    BY <1>1, <1>2, <2>3 DEF RemovedAt
<1>6. QED
  BY <1>1, <1>2, <1>4, <1>5

\* array_pop() takes the last item.
LEMMA PopRemoves ==
    ASSUME Inv, array_pop
    PROVE  op = "none" /\ count > 0 /\ RemovedAt(count - 1)
  BY DEF Inv, TypeOK, InBounds, array_pop, Enter, RemovedAt

\* So does one turn of the loop of array_clean().
LEMMA FreeItemRemoves ==
    ASSUME Inv, FreeItem
    PROVE  op # "none" /\ count > 0 /\ RemovedAt(count - 1)
<1>1. items[count - 1] \in Objects
  BY DEF Inv, TypeOK, Conservation, FreeItem
<1>2. items[count - 1] # NULL
  BY <1>1, ArrayAssumption
<1>3. owned' = owned \cup {items[count - 1]}
  BY <1>2 DEF FreeItem
<1>4. /\ items \in [0..capacity - 1 -> Objects \cup {NULL}]
      /\ capacity - 1 \in Int /\ count \in Nat /\ count - 1 \in 0..capacity - 1
  BY DEF Inv, TypeOK, InBounds, FreeItem
<1>5. /\ items' \in [0..capacity - 1 -> Objects \cup {NULL}]
      /\ \A i \in 0..capacity - 1 : i # count - 1 => items'[i] = items[i]
  BY <1>4, PutFacts DEF FreeItem
<1>6. QED
  BY <1>3, <1>4, <1>5 DEF FreeItem, RemovedAt

\* What array_preappend() does: more memory, the same items.
LEMMA PreappendKeeps ==
    ASSUME Inv, NEW n \in Nat, array_preappend(n)
    PROVE  /\ items' \in [0..capacity' - 1 -> Objects \cup {NULL}]
           /\ capacity' \in Nat /\ count <= capacity'
           /\ \A i \in 0..count - 1 : items'[i] = items[i]
           /\ handle = "array" /\ op = "none" /\ UNCHANGED <<handle, count, op, owned>>
<1>1. count + n \in Nat
  BY DEF Inv, TypeOK
<1>2. Delta(count + n) \in Nat
  BY <1>1, DeltaFacts
<1>3. capacity' = capacity + Delta(count + n) /\ items' = Grown(Delta(count + n))
  BY DEF array_preappend
<1>4. handle = "array" /\ op = "none" /\ UNCHANGED <<handle, count, op, owned>>
  BY DEF array_preappend, Enter
<1>5. count \in Nat /\ capacity \in Nat /\ count <= capacity
  BY DEF Inv, TypeOK, InBounds
<1>6. TypeOK /\ InBounds
  BY DEF Inv
<1> DEFINE room == Delta(count + n)
<1> HIDE DEF room
<1>7. /\ Grown(room) \in [0..capacity + room - 1 -> Objects \cup {NULL}]
      /\ \A i \in 0..count - 1 : Grown(room)[i] = items[i]
  BY <1>2, <1>6, GrownFacts DEF room
<1>8. capacity' = capacity + room /\ items' = Grown(room) /\ room \in Nat
  BY <1>2, <1>3 DEF room
<1>9. QED
  BY <1>4, <1>5, <1>7, <1>8
-----------------------------------------------------------------------------
\* The two kinds of changes keep every object in one place.
LEMMA InsertingConserves ==
    ASSUME Inv, NEW obj \in Objects, NEW at \in 0..count, InsertedAt(obj, at)
    PROVE  Inv'
<1>1. count \in Nat /\ count' = count + 1 /\ at \in Int /\ at >= 0 /\ at <= count
  BY DEF Inv, TypeOK, InsertedAt
<1>2. /\ items'[at] = obj
      /\ \A i \in 0..at - 1 : items'[i] = items[i]
      /\ \A i \in at + 1..count : items'[i] = items[i - 1]
      /\ obj \in owned /\ owned' = owned \ {obj}
  BY DEF InsertedAt
<1>3. /\ \A i \in 0..count - 1 : items[i] \in Objects \ owned
      /\ \A i, j \in 0..count - 1 : i # j => items[i] # items[j]
      /\ \A o \in Objects \ owned : \E i \in 0..count - 1 : items[i] = o
  BY DEF Inv, Conservation
<1>4. TypeOK' /\ InBounds'
  <2>1. /\ items' \in [0..capacity' - 1 -> Objects \cup {NULL}] /\ capacity' \in Nat
        /\ count < capacity' /\ owned' \subseteq Objects /\ UNCHANGED <<handle, op>>
    BY DEF Inv, TypeOK, InsertedAt
  <2>2. handle' \in {"array", "null"} /\ op' \in {"none", "clean", "destroy"}
    BY <2>1 DEF Inv, TypeOK
  <2>3. count' \in Nat /\ count' <= capacity'
    BY <1>1, <2>1
  <2>4. QED
    BY <2>1, <2>2, <2>3 DEF TypeOK, InBounds
\* Where an item of the new contents was before.
<1> DEFINE Before(i) == IF i < at THEN i ELSE i - 1
<1>5. ASSUME NEW i \in 0..count' - 1, i # at
      PROVE  Before(i) \in 0..count - 1 /\ items'[i] = items[Before(i)]
  <2>1. CASE i < at
    BY <1>1, <1>2, <2>1
  <2>2. CASE i > at
    <3>1. i \in at + 1..count /\ Before(i) = i - 1 /\ i - 1 \in 0..count - 1
      BY <1>1, <2>2
    <3>2. QED
      BY <1>2, <3>1
  <2>3. QED
    BY <1>1, <1>5, <2>1, <2>2
<1>6. \A i, j \in 0..count' - 1 : i # at /\ j # at /\ i # j => Before(i) # Before(j)
  BY <1>1
<1>7. \A k \in 0..count - 1 : \E i \in 0..count' - 1 : i # at /\ Before(i) = k
  <2>1. TAKE k \in 0..count - 1
  <2>2. CASE k < at
    <3>1. k \in 0..count' - 1 /\ Before(k) = k
      BY <1>1, <2>1, <2>2
    <3>2. QED
      BY <2>2, <3>1
  <2>3. CASE k >= at
    <3>1. k + 1 \in 0..count' - 1 /\ k + 1 # at /\ Before(k + 1) = k
      BY <1>1, <2>1, <2>3
    <3>2. QED
      BY <3>1
  <2>4. QED
    BY <1>1, <2>1, <2>2, <2>3
<1> HIDE DEF Before
<1>8. \A i \in 0..count' - 1 : i # at => Before(i) \in 0..count - 1 /\ items'[i] = items[Before(i)]
  BY <1>5
<1>9. \A i \in 0..count' - 1 : items'[i] \in Objects \ owned'
  BY <1>2, <1>3, <1>8
<1>10. \A i, j \in 0..count' - 1 : i # j => items'[i] # items'[j]
  BY <1>2, <1>3, <1>6, <1>8
<1>11. \A o \in Objects \ owned' : \E i \in 0..count' - 1 : items'[i] = o
  <2>1. TAKE o \in Objects \ owned'
  <2>2. CASE o = obj
    <3>1. at \in 0..count' - 1
      BY <1>1
    <3>2. QED
      BY <1>2, <2>2, <3>1
  <2>3. CASE o # obj
    <3>1. PICK k \in 0..count - 1 : items[k] = o
      BY <1>2, <1>3, <2>1, <2>3
    <3>2. PICK i \in 0..count' - 1 : i # at /\ Before(i) = k
      BY <1>7
    <3>3. QED
      BY <1>8, <3>1, <3>2
  <2>4. QED
    BY <2>2, <2>3
<1>12. NoArray'
  BY DEF InsertedAt, NoArray
<1>13. QED
  BY <1>4, <1>9, <1>10, <1>11, <1>12 DEF Inv, Conservation

\* Likewise for an item that is taken out.
LEMMA RemovingConserves ==
    ASSUME Inv, NEW at \in 0..count - 1, RemovedAt(at)
    PROVE  Inv'
<1>1. /\ count \in Nat /\ count' = count - 1 /\ at \in Int /\ at >= 0 /\ at < count
      /\ owned' = owned \cup {items[at]}
      /\ \A i \in 0..at - 1 : items'[i] = items[i]
      /\ \A i \in at..count - 2 : items'[i] = items[i + 1]
  BY DEF Inv, TypeOK, RemovedAt
<1>2. /\ \A i \in 0..count - 1 : items[i] \in Objects \ owned
      /\ \A i, j \in 0..count - 1 : i # j => items[i] # items[j]
      /\ \A o \in Objects \ owned : \E i \in 0..count - 1 : items[i] = o
  BY DEF Inv, Conservation
<1>3. TypeOK' /\ InBounds'
  BY <1>1, <1>2 DEF Inv, TypeOK, InBounds, RemovedAt
\* Where an item of the new contents was before.
<1> DEFINE Before(i) == IF i < at THEN i ELSE i + 1
<1>4. \A i \in 0..count' - 1 :
        /\ Before(i) \in 0..count - 1 /\ Before(i) # at
        /\ items'[i] = items[Before(i)]
  <2>1. TAKE i \in 0..count' - 1
  <2>2. CASE i < at
    BY <1>1, <2>1, <2>2
  <2>3. CASE i >= at
    <3>1. i \in at..count - 2 /\ Before(i) = i + 1
      BY <1>1, <2>1, <2>3
    <3>2. QED
      BY <1>1, <3>1
  <2>4. QED
    BY <1>1, <2>1, <2>2, <2>3
<1>5. \A i, j \in 0..count' - 1 : i # j => Before(i) # Before(j)
  BY <1>1
<1>6. \A k \in 0..count - 1 : k # at => \E i \in 0..count' - 1 : Before(i) = k
  <2>1. TAKE k \in 0..count - 1
  <2>2. CASE k < at
    <3>1. k \in 0..count' - 1 /\ Before(k) = k
      BY <1>1, <2>1, <2>2
    <3>2. QED
      BY <3>1
  <2>3. CASE k > at
    <3>1. k - 1 \in 0..count' - 1 /\ Before(k - 1) = k
      BY <1>1, <2>1, <2>3
    <3>2. QED
      BY <3>1
  <2>4. QED
    BY <1>1, <2>1, <2>2, <2>3
<1> HIDE DEF Before
<1>7. \A i \in 0..count' - 1 : items'[i] \in Objects \ owned'
  BY <1>1, <1>2, <1>4
<1>8. \A i, j \in 0..count' - 1 : i # j => items'[i] # items'[j]
  BY <1>2, <1>4, <1>5
<1>9. \A o \in Objects \ owned' : \E i \in 0..count' - 1 : items'[i] = o
  <2>1. TAKE o \in Objects \ owned'
  <2>2. PICK k \in 0..count - 1 : items[k] = o /\ k # at
    BY <1>1, <1>2, <2>1
  <2>3. PICK i \in 0..count' - 1 : Before(i) = k
    BY <1>6, <2>2
  <2>4. QED
    BY <1>4, <2>2, <2>3
<1>10. NoArray'
  BY DEF RemovedAt, NoArray
<1>11. QED
  BY <1>3, <1>7, <1>8, <1>9, <1>10 DEF Inv, Conservation
-----------------------------------------------------------------------------
\* The caller starts without an array and owns every object.
THEOREM InitInv == Init => Inv
  BY DEF Init, NoItems, Inv, TypeOK, InBounds, Conservation, NoArray

\* The other actions leave the items where they are, or there are none.
LEMMA CreatingConserves == ASSUME Inv, array_create PROVE Inv'
<1>1. count = 0 /\ op = "none" /\ count' = 0
  BY DEF Inv, NoArray, array_create
<1>2. owned = Objects /\ owned' = Objects
  <2>1. owned \subseteq Objects
    BY DEF Inv, TypeOK
  <2>2. ~ \E i \in 0..count - 1 : TRUE
    BY <1>1
  <2>3. \A obj \in Objects \ owned : \E i \in 0..count - 1 : items[i] = obj
    BY DEF Inv, Conservation
  <2>4. owned = Objects
    BY <2>1, <2>2, <2>3
  <2>5. QED
    BY <2>4 DEF array_create
<1>3. TypeOK' /\ InBounds' /\ NoArray'
  BY <1>1, <1>2 DEF Inv, TypeOK, InBounds, NoArray, array_create, NoItems
<1>4. Conservation'
  BY <1>1, <1>2 DEF Conservation
<1>5. QED
  BY <1>3, <1>4 DEF Inv

\* Every operation of array.c keeps the inductive invariant.
THEOREM StepInv == Inv /\ [Next]_vars => Inv'
<1> SUFFICES ASSUME Inv, [Next]_vars PROVE Inv'
  OBVIOUS
<1>1. CASE array_create
  BY <1>1, CreatingConserves
<1>2. CASE array_clean \/ array_destroy
  BY <1>2 DEF Inv, TypeOK, InBounds, Conservation, NoArray, array_clean, array_destroy, Enter, array
<1>3. CASE FreeItem
  <2>1. count - 1 \in 0..count - 1 /\ RemovedAt(count - 1)
    BY <1>3, FreeItemRemoves DEF Inv, TypeOK
  <2>2. QED
    BY <2>1, RemovingConserves
<1>4. CASE FreeMemory
  BY <1>4 DEF Inv, TypeOK, InBounds, Conservation, NoArray, FreeMemory, NoItems
<1>5. ASSUME NEW obj \in Objects, array_append(obj) PROVE Inv'
  <2>1. count \in 0..count /\ InsertedAt(obj, count)
    BY <1>5, AppendInserts DEF Inv, TypeOK
  <2>2. QED
    BY <2>1, InsertingConserves
<1>6. ASSUME NEW obj \in Objects, NEW position \in 0..count + 1, array_insert(obj, position)
      PROVE  Inv'
  <2>1. PICK at \in 0..count : InsertedAt(obj, at)
    BY <1>6, InsertInserts DEF Inv, TypeOK
  <2>2. QED
    BY <2>1, InsertingConserves
<1>7. ASSUME NEW obj \in Objects, array_del(obj) PROVE Inv'
  BY <1>7, DelRemoves, RemovingConserves
<1>8. CASE array_pop
  <2>1. count - 1 \in 0..count - 1 /\ RemovedAt(count - 1)
    BY <1>8, PopRemoves DEF Inv, TypeOK
  <2>2. QED
    BY <2>1, RemovingConserves
<1>9. ASSUME NEW app_count \in 0..MaxAhead, array_preappend(app_count) PROVE Inv'
  <2>1. app_count \in Nat
    BY ArrayAssumption
  <2>2. /\ items' \in [0..capacity' - 1 -> Objects \cup {NULL}]
        /\ capacity' \in Nat /\ count <= capacity'
        /\ \A i \in 0..count - 1 : items'[i] = items[i]
        /\ UNCHANGED <<handle, count, op, owned>>
    BY <1>9, <2>1, PreappendKeeps
  <2>3. TypeOK' /\ InBounds' /\ NoArray'
    BY <2>2 DEF Inv, TypeOK, InBounds, NoArray
  <2>4. Conservation'
    <3>1. count' = count /\ owned' = owned /\ \A i \in 0..count - 1 : items'[i] = items[i]
      BY <2>2
    <3>2. /\ \A i \in 0..count - 1 : items[i] \in Objects \ owned
          /\ \A i, j \in 0..count - 1 : i # j => items[i] # items[j]
          /\ \A obj \in Objects \ owned : \E i \in 0..count - 1 : items[i] = obj
      BY DEF Inv, Conservation
    <3>3. /\ \A i \in 0..count' - 1 : items'[i] \in Objects \ owned'
          /\ \A i, j \in 0..count' - 1 : i # j => items'[i] # items'[j]
          /\ \A obj \in Objects \ owned' : \E i \in 0..count' - 1 : items'[i] = obj
      BY <3>1, <3>2
    <3>4. QED
      BY <3>3 DEF Conservation
  <2>5. QED
    BY <2>3, <2>4 DEF Inv
<1>10. CASE UNCHANGED vars
  BY <1>10 DEF Inv, TypeOK, InBounds, Conservation, NoArray, vars
<1>11. QED
  BY <1>1, <1>2, <1>3, <1>4, <1>5, <1>6, <1>7, <1>8, <1>9, <1>10 DEF Next

\* The inductive invariant holds in every reachable state.
THEOREM InvCorrect == Spec => []Inv
<1>1. QED
  BY InitInv, StepInv, PTL DEF Spec

\* No operation writes outside the memory of the array: array_append() and array_insert()
\* grow it in time, and no move or deletion reaches beyond the items.
THEOREM InBoundsCorrect == Spec => []InBounds
<1>1. Inv => InBounds
  BY DEF Inv
<1>2. QED
  BY <1>1, InvCorrect, PTL

\* No object is lost, stored twice or freed while it is stored.
THEOREM ConservationCorrect == Spec => []Conservation
<1>1. Inv => Conservation
  BY DEF Inv
<1>2. QED
  BY <1>1, InvCorrect, PTL
-----------------------------------------------------------------------------
\* The contents are a list of length count.
LEMMA ContentsFacts ==
    ASSUME Inv
    PROVE  /\ Contents \in Seq(Objects) /\ Len(Contents) = count
           /\ \A p \in 1..count : Contents[p] = items[p - 1]
<1>1. count \in Nat /\ \A i \in 0..count - 1 : items[i] \in Objects
  BY DEF Inv, TypeOK, Conservation
<1>2. \A p \in 1..count : items[p - 1] \in Objects
  BY <1>1
<1>3. QED
  BY <1>1, <1>2 DEF Contents

\* Storing an item is a Put of the list.
LEMMA InsertingPuts ==
    ASSUME Inv, NEW obj \in Objects, NEW at \in 0..count, InsertedAt(obj, at)
    PROVE  Model!Put(obj)
<1>1. count \in Nat /\ at \in Int /\ at >= 0 /\ at <= count /\ count' = count + 1
  BY DEF Inv, TypeOK, InsertedAt
<1>2. Contents' = Model!Inserted(Contents, at + 1, obj)
  <2>1. Contents' = [p \in 1..count + 1 |-> items'[p - 1]]
    BY <1>1 DEF Contents
  <2>2. ASSUME NEW p \in 1..count + 1
        PROVE  items'[p - 1] = IF p < at + 1 THEN Contents[p]
                               ELSE IF p = at + 1 THEN obj ELSE Contents[p - 1]
    <3>1. CASE p < at + 1
      <4>1. p - 1 \in 0..at - 1 /\ p \in 1..count
        BY <1>1, <3>1
      <4>2. items'[p - 1] = items[p - 1] /\ Contents[p] = items[p - 1]
        BY <4>1, ContentsFacts DEF InsertedAt
      <4>3. QED
        BY <3>1, <4>2
    <3>2. CASE p = at + 1
      <4>1. p - 1 = at
        BY <1>1, <3>2
      <4>2. items'[at] = obj
        BY DEF InsertedAt
      <4>3. QED
        BY <3>2, <4>1, <4>2
    <3>3. CASE p > at + 1
      <4>1. p - 1 \in at + 1..count /\ p - 1 \in 1..count
        BY <1>1, <3>3
      <4>2. items'[p - 1] = items[(p - 1) - 1] /\ Contents[p - 1] = items[(p - 1) - 1]
        BY <4>1, ContentsFacts DEF InsertedAt
      <4>3. QED
        BY <1>1, <3>3, <4>2
    <3>4. QED
      BY <1>1, <3>1, <3>2, <3>3
  <2>3. QED
    BY <2>1, <2>2, ContentsFacts DEF Model!Inserted
<1>3. at + 1 \in 1..Len(Contents) + 1
  BY <1>1, ContentsFacts
<1>4. QED
  BY <1>2, <1>3 DEF Model!Put, InsertedAt

\* Taking one out removes it from the list.
LEMMA RemovingRemoves ==
    ASSUME Inv, NEW at \in 0..count - 1, RemovedAt(at)
    PROVE  /\ at + 1 \in 1..Len(Contents)
           /\ Contents' = Model!Removed(Contents, at + 1)
           /\ owned' = owned \cup {Contents[at + 1]}
<1>1. count \in Nat /\ at \in Int /\ at >= 0 /\ at < count /\ count' = count - 1
  BY DEF Inv, TypeOK, RemovedAt
<1>2. at + 1 \in 1..count
  BY <1>1
<1>3. Contents' = Model!Removed(Contents, at + 1)
  <2>1. Contents' = [p \in 1..count - 1 |-> items'[p - 1]]
    BY <1>1 DEF Contents
  <2>2. ASSUME NEW p \in 1..count - 1
        PROVE  items'[p - 1] = IF p < at + 1 THEN Contents[p] ELSE Contents[p + 1]
    <3>1. CASE p < at + 1
      <4>1. p - 1 \in 0..at - 1 /\ p \in 1..count
        BY <1>1, <3>1
      <4>2. items'[p - 1] = items[p - 1] /\ Contents[p] = items[p - 1]
        BY <4>1, ContentsFacts DEF RemovedAt
      <4>3. QED
        BY <3>1, <4>2
    <3>2. CASE p >= at + 1
      <4>1. p - 1 \in at..count - 2 /\ p + 1 \in 1..count /\ (p + 1) - 1 = (p - 1) + 1
        BY <1>1, <3>2
      <4>2. items'[p - 1] = items[(p - 1) + 1] /\ Contents[p + 1] = items[(p + 1) - 1]
        BY <4>1, ContentsFacts DEF RemovedAt
      <4>3. QED
        BY <1>1, <3>2, <4>1, <4>2
    <3>3. QED
      BY <1>1, <3>1, <3>2
  <2>3. QED
    BY <2>1, <2>2, ContentsFacts DEF Model!Removed
<1>4. Contents[at + 1] = items[at]
  BY <1>1, <1>2, ContentsFacts
<1>5. QED
  BY <1>2, <1>3, <1>4, ContentsFacts DEF RemovedAt

\* Every step of the array is a step of the list, or leaves the list alone.
THEOREM StepRefines ==
    ASSUME Inv, Inv', [Next]_vars
    PROVE  [Model!Next]_<<Contents, owned, op # "none">>
<1>1. CASE array_create
  <2>1. count = 0 /\ count' = 0 /\ owned' = owned /\ op' = op
    BY <1>1 DEF Inv, NoArray, array_create
  <2>2. Contents' = Contents
    BY <2>1 DEF Contents
  <2>3. QED
    BY <2>1, <2>2
<1>2. CASE array_clean \/ array_destroy
  <2>1. op = "none" /\ op' # "none" /\ UNCHANGED <<items, count, owned>>
    BY <1>2 DEF array_clean, array_destroy, Enter, array
  <2>2. Contents' = Contents
    BY <2>1 DEF Contents
  <2>3. QED
    BY <2>1, <2>2 DEF Model!Next, Model!StartCleaning
<1>3. CASE FreeItem
  <2>1. count \in Nat /\ count > 0 /\ op # "none" /\ op' = op /\ RemovedAt(count - 1)
    BY <1>3, FreeItemRemoves DEF Inv, TypeOK, RemovedAt
  <2>2. count - 1 \in 0..count - 1 /\ (count - 1) + 1 = count
    BY <2>1
  <2>3. /\ Contents' = Model!Removed(Contents, count)
        /\ owned' = owned \cup {Contents[count]}
    BY <2>1, <2>2, RemovingRemoves
  <2>4. Len(Contents) = count /\ Contents # <<>>
    BY <2>1, ContentsFacts
  <2>5. Model!FreeLast
    BY <2>1, <2>3, <2>4 DEF Model!FreeLast
  <2>6. QED
    BY <2>5 DEF Model!Next
<1>4. CASE FreeMemory
  <2>1. count = 0 /\ count' = 0 /\ op # "none" /\ op' = "none" /\ owned' = owned
    BY <1>4 DEF FreeMemory
  <2>2. Contents = <<>>
    BY <2>1, ContentsFacts
  <2>3. Contents' = Contents
    BY <2>1 DEF Contents
  <2>4. QED
    BY <2>1, <2>2, <2>3 DEF Model!Next, Model!EndCleaning
<1>5. ASSUME NEW obj \in Objects, array_append(obj)
      PROVE  Model!Next
  <2>1. count \in 0..count /\ InsertedAt(obj, count)
    BY <1>5, AppendInserts DEF Inv, TypeOK
  <2>2. QED
    BY <2>1, InsertingPuts DEF Model!Next
<1>6. ASSUME NEW obj \in Objects, NEW position \in 0..count + 1, array_insert(obj, position)
      PROVE  Model!Next
  <2>1. PICK at \in 0..count : InsertedAt(obj, at)
    BY <1>6, InsertInserts DEF Inv, TypeOK
  <2>2. QED
    BY <2>1, InsertingPuts DEF Model!Next
<1>7. ASSUME NEW at \in 0..count - 1, op = "none", RemovedAt(at)
      PROVE  Model!Next
  <2>1. /\ at + 1 \in 1..Len(Contents)
        /\ Contents' = Model!Removed(Contents, at + 1)
        /\ owned' = owned \cup {Contents[at + 1]}
    BY <1>7, RemovingRemoves
  <2>2. op' = op
    BY <1>7 DEF RemovedAt
  <2>3. Model!Take(at + 1)
    BY <1>7, <2>1, <2>2 DEF Model!Take
  <2>4. QED
    BY <2>1, <2>3 DEF Model!Next
<1>8. ASSUME NEW obj \in Objects, array_del(obj)
      PROVE  Model!Next
  BY <1>7, <1>8, DelRemoves
<1>9. CASE array_pop
  <2>1. count - 1 \in 0..count - 1
    BY <1>9, PopRemoves DEF Inv, TypeOK
  <2>2. QED
    BY <1>7, <1>9, <2>1, PopRemoves
<1>10. ASSUME NEW app_count \in 0..MaxAhead, array_preappend(app_count)
       PROVE  UNCHANGED <<Contents, owned, op # "none">>
  <2>1. app_count \in Nat
    BY ArrayAssumption
  <2>2. /\ UNCHANGED <<count, op, owned>>
        /\ \A i \in 0..count - 1 : items'[i] = items[i]
    BY <1>10, <2>1, PreappendKeeps
  <2>3. count \in Nat
    BY DEF Inv, TypeOK
  <2>4. \A p \in 1..count : p - 1 \in 0..count - 1
    BY <2>3
  <2>5. \A p \in 1..count : items'[p - 1] = items[p - 1]
    BY <2>2, <2>4
  <2>6. Contents' = Contents
    BY <2>2, <2>5 DEF Contents
  <2>7. QED
    BY <2>2, <2>6
<1>11. CASE UNCHANGED vars
  BY <1>11 DEF vars, Contents
<1>12. QED
  BY <1>1, <1>2, <1>3, <1>4, <1>5, <1>6, <1>8, <1>9, <1>10, <1>11 DEF Next

\* The array implements the list it promises to be.
THEOREM Refinement == Spec => ListSpec
<1>1. Init => Model!Init
  <2>1. ASSUME Init PROVE Contents = <<>>
    BY <2>1, InitInv, ContentsFacts DEF Init
  <2>2. QED
    BY <2>1 DEF Init, Model!Init
<1>2. Inv /\ Inv' /\ [Next]_vars => [Model!Next]_<<Contents, owned, op # "none">>
  BY StepRefines
<1>3. QED
  BY <1>1, <1>2, InvCorrect, PTL DEF Spec, ListSpec, Model!Spec
=============================================================================
