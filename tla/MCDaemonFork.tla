---------------------------- MODULE MCDaemonFork ----------------------------
\* DaemonFork for TLC: every process may die.
EXTENDS DaemonFork

Everyone == Processes
=============================================================================
