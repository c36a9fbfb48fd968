----------------------------- MODULE MCWeather ------------------------------
\* A few lines with everything a line can contain, and wrong ones.
EXTENDS Weather
MCNames == {"a", "b", ""}
MCWellFormed == {
    <<"{", "a", ":", "b", ",", "", ":", "int", "}">>,
    <<"{", "b", ":", "{", "a", ":", "bool", "}", "b", ":", ",", "dbl", "}">>,
    <<"{", "a", ":", "[", "int", "[", "]", "]", "b", ":", "a", "}">>,
    <<",", "[", "int", "[", "]", "{", "b", ":", "[", "null", "]", "}", "]">>,
    <<"{", "b", ":", "int", "}">>,
    <<"{", "b", ":", "int", "a", ":", "}">>,
    <<"{", "a", ":", "}">>}
\* What stands behind the value is never read.
Trailing == {<<"{", "b", ":", "int", "}", "a", ":", "}">>}
\* A line the other program did not finish before it was started again.
Torn ==
    UNION {{SubSeq(l, 1, n) : n \in 1..Len(l) - 1} : l \in MCWellFormed} \ MCWellFormed
MCLines == MCWellFormed \cup Trailing \cup Torn \cup {
    <<"{", "a", ":", "big", "}">>,
    <<"{", "b", ":", "int", "]">>,
    <<"{", "b", ":", "open">>,
    <<"{", "a", "}">>,
    <<"{", "a", ":", ",", "}">>,
    <<"{", "a", ",", ":", "int", "}">>,
    <<"[", "bool", "bad">>,
    <<"[", "[", "int">>,
    <<"]">>,
    <<>>}

\* The reference definition tells these lines apart.
ASSUME Accepted = MCWellFormed \cup Trailing
=============================================================================
