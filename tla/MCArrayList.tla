---------------------------- MODULE MCArrayList -----------------------------
\* Small instances of ArrayList for TLC.
EXTENDS ArrayList
=============================================================================
