--------------------------- MODULE MCJobLifecycle ---------------------------
(* The server process that owns the job holds the worker, the watchdog, a    *)
(* stopper and one of the reapers; the other reaper and the operator's retry *)
(* are processes of their own.                                               *)
EXTENDS JobLifecycle

CONSTANTS worker, watchdog, homeReaper, otherReaper, homeStop, retry

McReapers == {homeReaper, otherReaper}
McStoppers == {homeStop}
McRetriers == {retry}
McHome == {worker, watchdog, homeReaper, homeStop}
=============================================================================
