---------------------------- MODULE MCPublishing ----------------------------
\* A small instance of Publishing for TLC.  The sizes keep what the checks of
\* the lengths live on: a reply is longer than a normal request and shorter than
\* that of a fire supply, and request and reply together are no whole number of
\* replies.
EXTENDS Publishing

MCCmdSize == [normal |-> 1, fire |-> 3]
\* Overflow, 12 V, and 16.384 V.
MCBusWords == {3, 24002, 32770}
MCSetups == {<<"normal", FALSE>>, <<"fire", FALSE>>, <<"unknown", TRUE>>}
=============================================================================
