----------------------------- MODULE ObjectList -----------------------------
(***************************************************************************)
(* What array_t promises to its callers: a list of the objects they handed *)
(* over, in their order, and the free function called once on each object  *)
(* that is still there when the array is cleaned, the last one first.      *)
(* ArrayList.tla is shown to implement this.                               *)
(***************************************************************************)
EXTENDS Integers, Sequences

CONSTANT Objects

VARIABLES
    list,       \* the objects in the array
    owned,      \* the objects that belong to the callers
    cleaning    \* the array is being emptied

Init == list = <<>> /\ owned = Objects /\ cleaning = FALSE

Inserted(s, p, o) ==
    [i \in 1..Len(s) + 1 |-> IF i < p THEN s[i] ELSE IF i = p THEN o ELSE s[i - 1]]
Removed(s, p) == [i \in 1..Len(s) - 1 |-> IF i < p THEN s[i] ELSE s[i + 1]]

\* A caller hands over an object it owns.
Put(o) ==
    /\ ~cleaning /\ o \in owned
    /\ \E p \in 1..Len(list) + 1 : list' = Inserted(list, p, o)
    /\ owned' = owned \ {o}
    /\ UNCHANGED cleaning

\* A caller takes an object back.
Take(p) ==
    /\ ~cleaning
    /\ list' = Removed(list, p)
    /\ owned' = owned \cup {list[p]}
    /\ UNCHANGED cleaning

\* The array is emptied from its end.  A freed object may be allocated again.
StartCleaning == ~cleaning /\ cleaning' = TRUE /\ UNCHANGED <<list, owned>>
FreeLast ==
    /\ cleaning /\ list # <<>>
    /\ list' = Removed(list, Len(list))
    /\ owned' = owned \cup {list[Len(list)]}
    /\ UNCHANGED cleaning
EndCleaning == cleaning /\ list = <<>> /\ cleaning' = FALSE /\ UNCHANGED <<list, owned>>

Next ==
    \/ \E o \in Objects : Put(o)
    \/ \E p \in 1..Len(list) : Take(p)
    \/ StartCleaning \/ FreeLast \/ EndCleaning

Spec == Init /\ [][Next]_<<list, owned, cleaning>>
=============================================================================
