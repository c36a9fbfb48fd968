----------------------------- MODULE MCPidFile -----------------------------
\* Small instances of PidFile for TLC: two or three runs, model values.
EXTENDS PidFile
=============================================================================
