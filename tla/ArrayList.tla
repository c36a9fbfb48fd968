----------------------------- MODULE ArrayList ------------------------------
(***************************************************************************)
(* The growing array of pointers that holds the sensors (array.c): an      *)
(* operation holds the mutex of the array from its first line to its last, *)
(* so it is one action, except array_clean() and array_destroy(), which    *)
(* call the free function of the caller on one object after another.       *)
(*                                                                         *)
(* An object is handed over when it is stored and belongs to the caller    *)
(* again once it is taken out or freed (the allocator may return it again).*)
(* array_resize() and array_qsort() are not modelled; nobody calls them.   *)
(***************************************************************************)
EXTENDS Integers, Sequences

CONSTANTS
    Objects,    \* what is stored
    NULL,       \* the null pointer, not an object
    MinDelta,   \* array_grow() adds a multiple of this, 16 in the code
    MaxAhead    \* bound of TLC: the largest app_count of array_preappend()

ASSUME ArrayAssumption ==
    NULL \notin Objects /\ MinDelta \in Nat \ {0} /\ MaxAhead \in Nat

VARIABLES
    handle,     \* the variable of the caller: "array" or "null"
    items,      \* the memory of the array, from 0
    count,
    capacity,
    op,         \* the loop that holds the mutex: "none", "clean", "destroy"
    owned       \* history: the objects that belong to the callers

vars == <<handle, items, count, capacity, op, owned>>
array == <<items, count, capacity>>

TypeOK ==
    /\ handle \in {"array", "null"}
    /\ count \in Nat /\ capacity \in Nat
    /\ items \in [0..capacity - 1 -> Objects \cup {NULL}]
    /\ op \in {"none", "clean", "destroy"}
    /\ owned \subseteq Objects

NoItems == [i \in {} |-> NULL]

Init ==
    /\ handle = "null"
    /\ items = NoItems /\ count = 0 /\ capacity = 0
    /\ op = "none"
    /\ owned = Objects

\* Each operation returns at once when it is given no array.
Enter == handle = "array" /\ op = "none"

array_create ==
    /\ handle = "null" /\ op = "none"
    /\ handle' = "array"
    /\ items' = NoItems /\ count' = 0 /\ capacity' = 0
    /\ UNCHANGED <<op, owned>>

\* array_grow(): the room that is added, and the memory after it, which is
\* cleared beyond the items.
\* Faulty: rounded down.
DeltaFaulty(min_capacity) == (min_capacity \div MinDelta) * MinDelta
Delta(min_capacity) == ((min_capacity + MinDelta - 1) \div MinDelta) * MinDelta
Grown(room) ==
    [i \in 0..capacity + room - 1 |-> IF i < count THEN items[i] ELSE NULL]

Room == IF count >= capacity THEN Delta(count + 1) ELSE 0
Memory == IF count >= capacity THEN Grown(Room) ELSE items

\* A write.  One beyond the memory would add its position to it.
Put(memory, pos, obj) ==
    [i \in DOMAIN memory \cup {pos} |-> IF i = pos THEN obj ELSE memory[i]]

array_append(obj) ==
    /\ Enter /\ obj \in owned
    /\ capacity' = capacity + Room
    /\ items' = Put(Memory, count, obj)
    /\ count' = count + 1
    /\ owned' = owned \ {obj}
    /\ UNCHANGED <<handle, op>>

\* The items from the position on move up by one; a position beyond the end
\* is the end.
\* Faulty: one item too few.
MovedUpFaulty(memory, position) ==
    [i \in DOMAIN memory \cup (position + 1)..count |->
        IF i > position /\ i < count THEN memory[i - 1] ELSE memory[i]]
MovedUp(memory, position) ==
    [i \in DOMAIN memory \cup (position + 1)..count |->
        IF i > position /\ i <= count THEN memory[i - 1] ELSE memory[i]]
array_insert(obj, position) ==
    LET at == IF position > count THEN count ELSE position IN
    /\ Enter /\ obj \in owned
    /\ capacity' = capacity + Room
    /\ items' = Put(MovedUp(Memory, at), at, obj)
    /\ count' = count + 1
    /\ owned' = owned \ {obj}
    /\ UNCHANGED <<handle, op>>

\* The items behind the position move down by one.  memmove() moves count -
\* pos items, one more than there are: what it reads there, beyond the memory
\* when the array is full, can be anything.
\* Faulty: the last item fills the hole.
MovedDownFaulty(pos, beyond) == Put(items, pos, items[count - 1])
MovedDown(pos, beyond) ==
    [i \in DOMAIN items \cup pos..count - 1 |->
        IF i \notin pos..count - 1 THEN items[i]
        ELSE IF i + 1 \in DOMAIN items THEN items[i + 1] ELSE beyond]
array_del(obj) ==
    /\ Enter
    /\ \E pos \in 0..count - 1 :
         /\ items[pos] = obj
         /\ \/ pos = count - 1 /\ items' = Put(items, pos, NULL)
            \/ pos # count - 1 /\ \E beyond \in Objects \cup {NULL} : items' = MovedDown(pos, beyond)
    /\ count' = count - 1
    /\ owned' = owned \cup {obj}
    /\ UNCHANGED <<handle, capacity, op>>

\* The pointer stays in the memory; the caller has fetched it before.
array_pop ==
    /\ Enter /\ count > 0
    /\ count' = count - 1
    /\ owned' = owned \cup {items[count - 1]}
    /\ UNCHANGED <<handle, items, capacity, op>>

array_preappend(app_count) ==
    /\ Enter
    /\ count + app_count > capacity
    /\ capacity' = capacity + Delta(count + app_count)
    /\ items' = Grown(Delta(count + app_count))
    /\ UNCHANGED <<handle, count, op, owned>>

array_clean ==
    /\ Enter
    /\ op' = "clean"
    /\ UNCHANGED <<handle, array, owned>>

\* array_destroy() clears the variable of the caller before it cleans.
array_destroy ==
    /\ Enter
    /\ handle' = "null" /\ op' = "destroy"
    /\ UNCHANGED <<array, owned>>

\* One turn of the loop of array_clean(): the last item leaves, then is freed.
FreeItem ==
    /\ op # "none" /\ count > 0
    /\ items' = Put(items, count - 1, NULL)
    /\ count' = count - 1
    /\ owned' = owned \cup ({items[count - 1]} \ {NULL})
    /\ UNCHANGED <<handle, capacity, op>>

\* The end of array_clean(), and of array_destroy() after it.
FreeMemory ==
    /\ op # "none" /\ count = 0
    /\ items' = NoItems /\ capacity' = 0
    /\ op' = "none"
    /\ UNCHANGED <<handle, count, owned>>

Next ==
    \/ array_create \/ array_clean \/ array_destroy \/ FreeItem \/ FreeMemory
    \/ \E obj \in Objects :
         \/ array_append(obj)
         \/ \E position \in 0..count + 1 : array_insert(obj, position)
         \/ array_del(obj)
    \/ array_pop
    \/ \E app_count \in 0..MaxAhead : array_preappend(app_count)

Spec == Init /\ [][Next]_vars
-----------------------------------------------------------------------------
\* The items the callers see: array_getitem() answers for positions below count.
Contents == [i \in 1..count |-> items[i - 1]]

Model == INSTANCE ObjectList WITH list <- Contents, cleaning <- (op # "none")

\* The array is the list of objects the callers handed over: whatever grows,
\* moves or is cleaned, every operation changes it as the list promises.
ListSpec == Model!Spec

\* No operation writes outside the memory of the array, and the items fit into it.  Of
\* the reads this is not true: array_del() may fetch one pointer from beyond (MovedDown).
InBounds == DOMAIN items = 0..capacity - 1 /\ count <= capacity

\* An object is in the array or belongs to a caller, never both and never
\* twice in the array: none is lost by a move, none is freed twice.
Conservation ==
    /\ \A i \in 0..count - 1 : items[i] \in Objects \ owned
    /\ \A i, j \in 0..count - 1 : i # j => items[i] # items[j]
    /\ \A obj \in Objects \ owned : \E i \in 0..count - 1 : items[i] = obj

\* Without an array there is nothing in it.
NoArray == handle = "null" /\ op = "none" => count = 0

Inv == TypeOK /\ InBounds /\ Conservation /\ NoArray
=============================================================================
