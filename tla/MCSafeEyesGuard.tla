-------------------------- MODULE MCSafeEyesGuard --------------------------
(***************************************************************************)
(* Small instances of SafeEyesGuard for TLC.                               *)
(***************************************************************************)
EXTENDS SafeEyesGuard

NoNight    == {}
ShortNight == {3}
LateNight  == 3 .. 5

\* Between two cycles, and pause_run, where a cycle spends its time.
Resting    == {"down", "end"}
Anywhere   == PC
NeverKill  == {}
AnyKill    == PC \ {"down"}
KillAround == {"detect", "track", "end"}

Sleeps      == {"suspend"}
SleepBlink  == {"suspend", "blink"}
DialogSleep == {"suspend", "edit", "startwork"}
CallSleep   == {"call", "suspend"}
Dialogs     == {"startwork"}
Nightly     == {"suspend", "update"}
Mishaps     == {"suspend", "reboot", "crash", "call", "deaf", "blink"}
=============================================================================
