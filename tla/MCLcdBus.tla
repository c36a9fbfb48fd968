----------------------------- MODULE MCLcdBus -----------------------------
\* Small instances of LcdBus for TLC: one character per row, chosen so that
\* every data line changes between nibbles.
EXTENDS LcdBus

MCText == <<<<90>>, <<165>>>>
OneCaller == [mqtt |-> {0}]
SelectAndLwt == [mqtt |-> {0}, main_loop |-> {2}]
Reliable == {}
ButtonPort == {PortA}
=============================================================================
