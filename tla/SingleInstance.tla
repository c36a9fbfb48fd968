--------------------------- MODULE SingleInstance ---------------------------
(***************************************************************************)
(* What the PID file of lcd_cpuinfo promises to the rest of the program:   *)
(* at any time at most one daemon serves the display, the serial port and  *)
(* the MQTT client id.  PidFile.tla is shown to implement this when        *)
(* launches do not overlap.                                                *)
(***************************************************************************)
CONSTANT Procs

VARIABLE up         \* the daemons that hold the PID file and are in service

Init == up = {}

\* A daemon enters service only when none is in service.
Begin(p) == up = {} /\ up' = {p}

\* The daemon in service leaves it: a stop, a failed start or a death.
End(p) == up = {p} /\ up' = {}

Next == \E p \in Procs : Begin(p) \/ End(p)

Spec == Init /\ [][Next]_up
=============================================================================
