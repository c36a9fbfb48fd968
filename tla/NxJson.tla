------------------------------- MODULE NxJson -------------------------------
(***************************************************************************)
(* The JSON parser (nxjson.c) over tokens: parse_value() and parse_key()   *)
(* call each other once per nesting level, so the calls are a stack of the *)
(* containers that are open, and a turn of one of their loops is an        *)
(* action.  "," stands for whatever both functions skip: a comma, a        *)
(* comment, white space.  White space that makes no difference is no       *)
(* token; only between a ":" and a "}" it does, so there two tokens next   *)
(* to each other are two characters next to each other.  The nodes of the  *)
(* tree are numbered in the order of their creation, which is also the     *)
(* order of a walk that takes the first child before the next sibling.     *)
(***************************************************************************)
EXTENDS Integers, SequencesExt

CONSTANTS
    Names,      \* the strings that occur, "" among them
    NoKey       \* the key of an array item or of the root

Marks == {"{", "}", "[", "]", ",", ":"}
\* "big" is a number out of range, "open" a string without its end, "bad" a
\* character that begins no token.
Words == {"int", "dbl", "big", "bool", "null", "open", "bad"}
Tokens == Marks \cup Words \cup Names

ASSUME NamesAssumption ==
    /\ NoKey \notin Names
    /\ Names \cap (Marks \cup Words \cup {"end"}) = {}

VARIABLES
    text,       \* what is still to be read
    stack,      \* the open objects and arrays, the innermost one last
    nodes,      \* the tree: what create_json() made
    key,        \* the key of the value to come
    mode,       \* "off", "value", "key", "return", "done", "failed"
    errno       \* errno of the thread

parser == <<text, stack, nodes, key, mode, errno>>

Types == {"object", "array", "string", "int", "dbl", "bool", "null"}
Node == [type : Types, key : Names \cup {NoKey}, parent : Nat]

ParserTypeOK ==
    /\ text \in Seq(Tokens)
    /\ stack \in Seq(1..Len(nodes))
    /\ nodes \in Seq(Node)
    /\ key \in Names \cup {NoKey}
    /\ mode \in {"off", "value", "key", "return", "done", "failed"}
    /\ errno \in {"other", "ERANGE"}

ParserInit ==
    /\ text = <<>> /\ stack = <<>> /\ nodes = <<>>
    /\ key = NoKey /\ mode = "off" /\ errno = "other"

Next1 == IF text = <<>> THEN "end" ELSE Head(text)
Consume == text' = Tail(text)
InArray == stack # <<>> /\ nodes[Last(stack)].type = "array"

create_json(type) ==
    nodes' = Append(nodes, [type |-> type, key |-> key,
                            parent |-> IF stack = <<>> THEN 0 ELSE Last(stack)])

\* nx_json_parse() begins with an empty tree; errno is left as it is.
Begin(line) ==
    /\ text' = line /\ stack' = <<>> /\ nodes' = <<>>
    /\ key' = NoKey /\ mode' = "value"
    /\ UNCHANGED errno
-----------------------------------------------------------------------------
\* parse_value()
\* Faulty: nothing is skipped.
SkipInValueFaulty ==
    /\ mode = "value" /\ Next1 = ","
    /\ UNCHANGED parser
SkipInValue ==
    /\ mode = "value" /\ Next1 = ","
    /\ Consume /\ UNCHANGED <<stack, nodes, key, mode, errno>>

OpenObject ==
    /\ mode = "value" /\ Next1 = "{"
    /\ create_json("object") /\ stack' = Append(stack, Len(nodes) + 1)
    /\ Consume /\ mode' = "key"
    /\ UNCHANGED <<key, errno>>

\* Faulty: the items of the array are not its children.
OpenArrayFaulty ==
    /\ mode = "value" /\ Next1 = "["
    /\ create_json("array") /\ key' = NoKey
    /\ Consume /\ UNCHANGED <<stack, mode, errno>>
OpenArray ==
    /\ mode = "value" /\ Next1 = "["
    /\ create_json("array") /\ stack' = Append(stack, Len(nodes) + 1)
    /\ key' = NoKey
    /\ Consume /\ UNCHANGED <<mode, errno>>

\* The end of an array is left to the caller, whoever it is.
CloseInValue ==
    /\ mode = "value" /\ Next1 = "]"
    /\ mode' = "return"
    /\ UNCHANGED <<text, stack, nodes, key, errno>>

Scalar ==
    /\ mode = "value"
    /\ \/ Next1 \in Names /\ create_json("string")
       \/ Next1 \in {"bool", "null"} /\ create_json(Next1)
       \/ Next1 \in {"int", "dbl"} /\ errno # "ERANGE" /\ create_json(Next1)
    /\ Consume /\ mode' = "return"
    /\ UNCHANGED <<stack, key, errno>>

\* strtoll() and strtod() set errno when a number is out of range and leave it
\* alone otherwise; an old ERANGE makes any number invalid.
InvalidNumber ==
    /\ mode = "value"
    /\ \/ Next1 = "big" /\ errno' = "ERANGE"
       \/ Next1 \in {"int", "dbl"} /\ errno = "ERANGE" /\ UNCHANGED errno
    /\ create_json(IF Next1 = "dbl" THEN "dbl" ELSE "int")
    /\ mode' = "failed"
    /\ UNCHANGED <<text, stack, key>>

UnexpectedInValue ==
    /\ mode = "value"
    /\ \/ Next1 = "open" /\ create_json("string")
       \/ Next1 \in {"}", ":", "bad", "end"} /\ UNCHANGED nodes
    /\ mode' = "failed"
    /\ UNCHANGED <<text, stack, key, errno>>
-----------------------------------------------------------------------------
\* parse_key()
SkipInKey ==
    /\ mode = "key" /\ Next1 = ","
    /\ Consume /\ UNCHANGED <<stack, nodes, key, mode, errno>>

CloseObject ==
    /\ mode = "key" /\ Next1 = "}"
    /\ stack' = Front(stack)
    /\ Consume /\ mode' = "return"
    /\ UNCHANGED <<nodes, key, errno>>

\* The loop of the object only looks at the character parse_key() stops at: a "}"
\* right behind the ":" of a key ends the object, as one in place of a key does.
HasKey == Next1 \in Names /\ Len(text) > 1 /\ text[2] = ":"
KeyFound ==
    /\ mode = "key" /\ HasKey
    /\ key' = Next1 /\ text' = Tail(Tail(text))
    /\ mode' = IF Len(text) > 2 /\ text[3] = "}" THEN "key" ELSE "value"
    /\ UNCHANGED <<stack, nodes, errno>>

UnexpectedInKey ==
    /\ mode = "key" /\ Next1 \notin {",", "}"} /\ ~HasKey
    /\ mode' = "failed"
    /\ UNCHANGED <<text, stack, nodes, key, errno>>
-----------------------------------------------------------------------------
\* The value is read: back in the loop of the array or the object around it,
\* or in nx_json_parse().
\* Faulty: what is around an array is taken for an array.
CloseArrayFaulty ==
    /\ mode = "return" /\ InArray /\ Next1 = "]"
    /\ stack' = Front(stack)
    /\ Consume /\ mode' = IF stack' = <<>> THEN "return" ELSE "value"
    /\ UNCHANGED <<nodes, key, errno>>
CloseArray ==
    /\ mode = "return" /\ InArray /\ Next1 = "]"
    /\ stack' = Front(stack)
    /\ Consume /\ UNCHANGED <<nodes, key, mode, errno>>

NextItem ==
    /\ mode = "return" /\ InArray /\ Next1 # "]"
    /\ key' = NoKey /\ mode' = "value"
    /\ UNCHANGED <<text, stack, nodes, errno>>

NextKey ==
    /\ mode = "return" /\ stack # <<>> /\ ~InArray
    /\ mode' = "key"
    /\ UNCHANGED <<text, stack, nodes, key, errno>>

Finish ==
    /\ mode = "return" /\ stack = <<>>
    /\ mode' = "done"
    /\ UNCHANGED <<text, stack, nodes, key, errno>>

Parse ==
    \/ SkipInValue \/ OpenObject \/ OpenArray \/ CloseInValue \/ Scalar
    \/ InvalidNumber \/ UnexpectedInValue
    \/ SkipInKey \/ CloseObject \/ KeyFound \/ UnexpectedInKey
    \/ CloseArray \/ NextItem \/ NextKey \/ Finish

\* nx_json_free() of the first child of the root, after which the parser is
\* off.
Release ==
    /\ nodes' = <<>> /\ stack' = <<>> /\ text' = <<>> /\ key' = NoKey /\ mode' = "off"
    /\ UNCHANGED errno
=============================================================================
