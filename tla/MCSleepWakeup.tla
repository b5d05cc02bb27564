--------------------------- MODULE MCSleepWakeup ----------------------------
(* One or two CPUs and processes that sleep, kill and exit.                  *)
EXTENDS SleepWakeup
=============================================================================
