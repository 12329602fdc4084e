------------------------------ MODULE StartWork ------------------------------
(***************************************************************************)
(* SafeEyes from the inside: the scheduler of the vendored SafeEyesCore,   *)
(* the application around it, and the plugin cb_startwork, which holds the *)
(* next work interval behind a dialog with a Start button - after a break  *)
(* that ended by itself, and when the user was away (the idle gate).       *)
(*                                                                         *)
(* All of it but one thread runs on the GLib main loop: an action is one   *)
(* dispatch, with every hook it fires.  Timeouts, D-Bus calls and signals  *)
(* go before idle callbacks.  The plugin's monitor thread looks at the     *)
(* scheduler, spends up to PROBE in pw-dump and only then queues the gate. *)
(*                                                                         *)
(* Time is counted down to the next timeout, so no bound stops the clock.  *)
(* Which break comes next, and whether it is a long one, is left out.      *)
(***************************************************************************)
EXTENDS Integers, Sequences

CONSTANTS
  INTERVAL,    \* work between two breaks
  WARNING,     \* pre_break_warning_time
  DURATION,    \* of a break, in countdown steps
  GAP,         \* on_stop_break: a longer gap means a suspend
  THRESHOLD,   \* _idle_gate_seconds
  POLL,        \* _idle_poll_seconds
  PROBE,       \* pw-dump's timeout
  Naps,        \* how long the machine may sleep
  MaxSleeps,   \* bound: suspends
  MaxRestarts, \* bound: intervals begun anew, from which on -d is not given
  Races        \* "command": -d and -e may also come while the dialog is up,
               \* "press": Start may be pressed before a queued callback runs

ASSUME ConstantsAssumption ==
  /\ INTERVAL \in Nat \ {0}
  /\ WARNING \in Nat
  /\ DURATION \in Nat \ {0}
  /\ GAP \in Nat \ {0}
  /\ THRESHOLD \in Nat
  /\ POLL \in Nat \ {0}
  /\ PROBE \in Nat
  /\ Naps \subseteq Nat
  /\ MaxSleeps \in Nat
  /\ MaxRestarts \in Nat
  /\ Races \subseteq {"command", "press"}

VARIABLES
  core,     \* SafeEyesCore: scheduler and pending timeout
  gate,     \* cb_startwork: dialog, idle gate, last countdown seen
  app,      \* SafeEyes: active, _suspend_next_break_delay
  idle,     \* idle callbacks of the plugin, in the order they were queued
  monitor,  \* the monitor thread
  power,    \* the machine, and logind's signals that are not handled yet
  away,     \* time since the last input
  history   \* work since the last whole break, its interruptions, intervals
            \* that began anew meanwhile, suspends

vars == <<core, gate, app, idle, monitor, power, away, history>>
-----------------------------------------------------------------------------
None == -1

\* cb: callback of the pending timeout, "none" if there is none; timer: time
\* until it is due; next: until scheduled_next_break_time; raised: an
\* exception of the core's own was raised.
Core ==
  [running : BOOLEAN,
   state : {"WAITING", "PRE_BREAK", "BREAK", "STOPPED", "RESTING"},
   cb : {"none", "do_pre_break", "do_start_break", "countdown", "job"},
   timer : Nat, count : Nat, next : Nat, raised : BOOLEAN]

\* windows: Start-work windows on the screen; dialog: _dialog is one of them;
\* last, gap: last countdown value and the time since.
Gate ==
  [dialog : BOOLEAN, windows : Nat, idleGated : BOOLEAN,
   delay : Nat \union {None}, last : Nat \union {None}, gap : Nat]

History == [work : Nat, cuts : Nat, restarts : Nat, sleeps : 0..MaxSleeps]

TypeOK ==
  /\ core \in Core
  /\ gate \in Gate
  /\ app \in [active : BOOLEAN, delay : Nat \union {None}]
  /\ idle \in Seq({"gate", "resume"})
  /\ monitor \in [probing : BOOLEAN, left : Nat]
  /\ power \in [at : {"on", "falling", "asleep"}, signals : Seq({"sleep", "wake"})]
  /\ away \in 0..THRESHOLD
  /\ history \in History

\* do_startup: the first interval has begun.
Init ==
  /\ core = [running |-> TRUE, state |-> "WAITING", cb |-> "do_pre_break",
             timer |-> INTERVAL, count |-> 0, next |-> INTERVAL, raised |-> FALSE]
  /\ gate = [dialog |-> FALSE, windows |-> 0, idleGated |-> FALSE,
             delay |-> None, last |-> None, gap |-> 0]
  /\ app = [active |-> TRUE, delay |-> None]
  /\ idle = <<>>
  /\ monitor = [probing |-> FALSE, left |-> POLL]
  /\ power = [at |-> "on", signals |-> <<>>]
  /\ away = 0
  /\ history = [work |-> 0, cuts |-> 0, restarts |-> 0, sleeps |-> 0]

AtMost(n, bound)  == IF n > bound THEN bound ELSE n
AtLeast(n, bound) == IF n < bound THEN bound ELSE n
-----------------------------------------------------------------------------
(***************************************************************************)
(* SafeEyesCore.  Its functions act on the scheduler c and, through the    *)
(* hooks, on the plugin g.                                                 *)
(***************************************************************************)
Pair(c, g) == [c |-> c, g |-> g]

\* __wait_for: "this should not be called reentrantly".
WaitFor(c, time, cb) ==
  IF c.cb # "none" THEN [c EXCEPT !.raised = TRUE]
  ELSE [c EXCEPT !.cb = cb, !.timer = time]

\* __scheduler_job, with the time of a non-standard break or None.
SchedulerJob(c, delay) ==
  LET wait == IF delay = None THEN INTERVAL ELSE delay
  IN  WaitFor([c EXCEPT !.state = "WAITING", !.next = wait], wait, "do_pre_break")

CoreStart(c, delay) ==
  IF c.running THEN c ELSE SchedulerJob([c EXCEPT !.running = TRUE], delay)

\* on_stop_break: the dialog is for breaks that end by themselves, not for
\* those that end early or were slept through.
EndsNaturally(g) == g.last # None /\ g.last <= 1 /\ g.gap <= GAP

\* _show_dialog
Shown(g) == [g EXCEPT !.dialog = TRUE, !.windows = @ + 1]

\* __fire_stop_break.  The plugin's core.stop only clears running: no timeout
\* is pending while a hook runs.  Then __start_next_break.
FireStopBreak(c, g) ==
  LET gated  == EndsNaturally(g)
      paused == IF gated /\ c.running
                THEN [c EXCEPT !.running = FALSE, !.state = "STOPPED"] ELSE c
  IN  Pair(IF paused.running THEN WaitFor(paused, 0, "job") ELSE paused,
           IF gated THEN Shown(g) ELSE g)

\* Mutant: the countdown does not notice its end.
CycleBreakCountdown_NoEnd(c, g) ==
  IF c.running
  THEN Pair(WaitFor([c EXCEPT !.count = @ - 1], 1, "countdown"),
            [g EXCEPT !.last = c.count, !.gap = 0])
  ELSE FireStopBreak([c EXCEPT !.count = 0], g)

\* __cycle_break_countdown
CycleBreakCountdown(c, g) ==
  IF c.count > 0 /\ c.running
  THEN Pair(WaitFor([c EXCEPT !.count = @ - 1], 1, "countdown"),
            [g EXCEPT !.last = c.count, !.gap = 0])
  ELSE FireStopBreak([c EXCEPT !.count = 0], g)

\* __do_start_break, __start_break; on_start_break of the plugin.
DoStartBreak(c, g) ==
  IF ~c.running THEN Pair(c, g)
  ELSE CycleBreakCountdown([c EXCEPT !.state = "BREAK", !.count = DURATION],
                           [g EXCEPT !.last = None, !.gap = 0])

\* __do_pre_break without a request, __fire_pre_break.
DoPreBreak(c, g) ==
  Pair(IF c.running
       THEN WaitFor([c EXCEPT !.state = "PRE_BREAK"], WARNING, "do_start_break")
       ELSE c, g)

Unarmed(c) == [c EXCEPT !.cb = "none", !.timer = 0]

\* The pending callback, when it is due or when it is woken up.
Callback(c, g) ==
  LET d == Unarmed(c)
  IN  CASE c.cb = "do_pre_break"   -> DoPreBreak(d, g)
        [] c.cb = "do_start_break" -> DoStartBreak(d, g)
        [] c.cb = "countdown"      -> CycleBreakCountdown(d, g)
        [] c.cb = "job" -> Pair(IF d.running THEN SchedulerJob(d, None) ELSE d, g)

\* __wakeup_scheduler: "trying to queue action while core is not running".
Wakeup(c, g) ==
  IF c.cb = "none" THEN Pair([c EXCEPT !.raised = TRUE], g) ELSE Callback(c, g)

\* Mutant: the pending timeout is left alone.
CoreStop_NoWakeup(c, g, state) ==
  IF ~c.running THEN Pair(c, g)
  ELSE Pair([c EXCEPT !.running = FALSE, !.state = state], g)

\* stop, from outside a hook.
CoreStop(c, g, state) ==
  IF ~c.running THEN Pair(c, g)
  ELSE Wakeup([c EXCEPT !.running = FALSE, !.state = state], g)

\* take_break: __wakeup_scheduler with _take_break_now.
CoreTakeBreak(c, g) ==
  IF c.state # "WAITING" THEN Pair(c, g)
  ELSE IF c.cb = "do_pre_break" THEN DoStartBreak(Unarmed(c), g)
  ELSE Wakeup(c, g)
-----------------------------------------------------------------------------
(***************************************************************************)
(* The main loop.                                                          *)
(***************************************************************************)
Due == core.cb # "none" /\ core.timer = 0

Becomes(w) == core' = w.c /\ gate' = w.g

\* A break ended by its own countdown: the work that counts starts anew.
Fresh == [history EXCEPT !.work = 0, !.cuts = 0, !.restarts = 0]

\* An interval that begins anew, or will, with no such break before it.
Restarted == [history EXCEPT !.restarts = @ + 1]

Timeout ==
  /\ power.at # "asleep"
  /\ Due
  /\ Becomes(Callback(core, gate))
  /\ history' = IF core.state = "BREAK" /\ core.cb = "countdown" /\ core.count = 0
                THEN Fresh ELSE history
  /\ UNCHANGED <<app, idle, monitor, power, away>>

\* -b, or the tray's menu.
TakeBreak ==
  /\ power.at # "asleep"
  /\ Becomes(CoreTakeBreak(core, gate))
  /\ UNCHANGED <<app, idle, monitor, power, away, history>>

\* The daemon sends -d and -e only if it saw no dialog.
Commanded == power.at # "asleep" /\ ("command" \in Races \/ ~gate.dialog)

\* disable_safeeyes.  The last second of a break cut off: the dialog is up,
\* and Start begins a whole interval.
Disable ==
  /\ Commanded
  /\ app.active
  /\ history.restarts < MaxRestarts
  /\ app' = [app EXCEPT !.active = FALSE]
  /\ Becomes(CoreStop(core, gate, "STOPPED"))
  /\ history' = IF core.cb = "countdown" /\ EndsNaturally(gate)
                THEN Restarted ELSE history
  /\ UNCHANGED <<idle, monitor, power, away>>

\* enable_safeeyes: what was left of the interval is forgotten.
Enable ==
  /\ Commanded
  /\ ~app.active
  /\ app' = [app EXCEPT !.active = TRUE]
  /\ core' = CoreStart(core, None)
  /\ history' = IF core.running THEN history ELSE Restarted
  /\ UNCHANGED <<gate, idle, monitor, power, away>>

\* Mutant: Start always begins a whole interval.
NextBreakTime_Fresh == None

\* next_break_time of _on_start_clicked
NextBreakTime == IF gate.idleGated THEN gate.delay ELSE None

\* _on_start_clicked
PressStart ==
  /\ power.at # "asleep"
  /\ gate.dialog
  /\ "press" \in Races \/ idle = <<>>
  /\ gate' = [gate EXCEPT !.dialog = FALSE, !.windows = @ - 1,
                          !.idleGated = FALSE, !.delay = None]
  /\ core' = CoreStart(core, NextBreakTime)
  /\ away' = 0
  /\ UNCHANGED <<app, idle, monitor, power, history>>

\* Work that remained when the user went away.
Remaining == AtLeast(core.next, 1)

\* An interruption may cost a warning that has begun, and the rounding.
Interrupted == [history EXCEPT !.cuts = @ + 1]

\* _do_idle_gate.  It does not look at the scheduler again.
DoIdleGate ==
  IF gate.dialog
  THEN /\ gate' = [gate EXCEPT !.idleGated = FALSE]
       /\ UNCHANGED <<core, history>>
  ELSE /\ LET w == CoreStop(core, [gate EXCEPT !.idleGated = TRUE,
                                                !.delay = Remaining], "STOPPED")
          IN  core' = w.c /\ gate' = Shown(w.g)
       /\ history' = Interrupted

\* Mutant: the gate is not imposed again.
OnResumeWhileGating_None == UNCHANGED <<core, gate, history>>

\* _on_resume_while_gating
OnResumeWhileGating ==
  /\ IF gate.dialog THEN Becomes(CoreStop(core, gate, "STOPPED"))
     ELSE UNCHANGED <<core, gate>>
  /\ UNCHANGED history

IdleCallback ==
  /\ power.at # "asleep"
  /\ idle # <<>>
  /\ ~Due
  /\ power.signals = <<>>
  /\ IF Head(idle) = "gate" THEN DoIdleGate ELSE OnResumeWhileGating
  /\ idle' = Tail(idle)
  /\ UNCHANGED <<app, monitor, power, away>>
-----------------------------------------------------------------------------
(***************************************************************************)
(* Suspend.  SafeEyes holds no inhibitor: logind's signal may be handled   *)
(* before the machine sleeps or after it woke up.                          *)
(***************************************************************************)
\* handle_suspend_callback(True)
HandleSleep ==
  /\ IF app.active
     THEN /\ app' = [app EXCEPT !.delay =
                       IF core.state \in {"WAITING", "PRE_BREAK"} THEN Remaining
                       ELSE None]
          /\ Becomes(CoreStop(core, gate, "RESTING"))
          /\ history' = IF core.state = "BREAK" THEN Restarted ELSE Interrupted
     ELSE UNCHANGED <<app, core, gate, history>>
  /\ UNCHANGED idle

\* handle_suspend_callback(False), and the plugin's own listener.
HandleWake ==
  /\ IF app.active
     THEN /\ app' = [app EXCEPT !.delay = None]
          /\ core' = CoreStart(core, app.delay)
     ELSE UNCHANGED <<app, core>>
  /\ idle' = Append(idle, "resume")
  /\ UNCHANGED <<gate, history>>

HandleSignal ==
  /\ power.at # "asleep"
  /\ power.signals # <<>>
  /\ IF Head(power.signals) = "sleep" THEN HandleSleep ELSE HandleWake
  /\ power' = [power EXCEPT !.signals = Tail(@)]
  /\ UNCHANGED <<monitor, away>>

PrepareForSleep ==
  /\ power = [at |-> "on", signals |-> <<>>]
  /\ history.sleeps < MaxSleeps
  /\ history' = [history EXCEPT !.sleeps = @ + 1]
  /\ power' = [at |-> "falling", signals |-> <<"sleep">>]
  /\ UNCHANGED <<core, gate, app, idle, monitor, away>>

FallAsleep ==
  /\ power.at = "falling"
  /\ power' = [power EXCEPT !.at = "asleep"]
  /\ UNCHANGED <<core, gate, app, idle, monitor, away, history>>

\* GLib's timeouts stand still, the wall clock goes on.
WakeUp(nap) ==
  /\ power.at = "asleep"
  /\ power' = [at |-> "on", signals |-> Append(power.signals, "wake")]
  /\ core' = [core EXCEPT !.next = AtLeast(@ - nap, 0)]
  /\ gate' = [gate EXCEPT !.gap = AtMost(@ + nap, GAP + 1)]
  /\ UNCHANGED <<app, idle, monitor, away, history>>
-----------------------------------------------------------------------------
(***************************************************************************)
(* The monitor thread, the user and the clock.                             *)
(***************************************************************************)
\* _idle_tick up to _x11_idle_ms.
Away ==
  /\ ~gate.dialog
  /\ ~gate.idleGated
  /\ core.state = "WAITING"
  /\ core.running
  /\ away = THRESHOLD

Look ==
  /\ power.at # "asleep"
  /\ ~monitor.probing
  /\ monitor.left = 0
  /\ monitor' = IF Away THEN [probing |-> TRUE, left |-> PROBE]
                ELSE [probing |-> FALSE, left |-> POLL]
  /\ UNCHANGED <<core, gate, app, idle, power, away, history>>

\* _browser_audio_playing has an answer: the gate is queued, or not.
Probed ==
  /\ power.at # "asleep"
  /\ monitor.probing
  /\ monitor' = [probing |-> FALSE, left |-> POLL]
  /\ idle' \in {idle, Append(idle, "gate")}
  /\ UNCHANGED <<core, gate, app, power, away, history>>

Input ==
  /\ power.at # "asleep"
  /\ away # 0
  /\ away' = 0
  /\ UNCHANGED <<core, gate, app, idle, monitor, power, history>>

Working == core.running /\ core.state # "BREAK"

\* Time passes when nothing is ready to run.
Tick ==
  /\ power.at # "asleep"
  /\ power.signals = <<>>
  /\ idle = <<>>
  /\ ~Due
  /\ monitor.left > 0
  /\ core' = [core EXCEPT !.timer = AtLeast(@ - 1, 0), !.next = AtLeast(@ - 1, 0)]
  /\ gate' = [gate EXCEPT !.gap = AtMost(@ + 1, GAP + 1)]
  /\ monitor' = [monitor EXCEPT !.left = @ - 1]
  /\ away' = AtMost(away + 1, THRESHOLD)
  /\ history' = IF Working THEN [history EXCEPT !.work = @ + 1] ELSE history
  /\ UNCHANGED <<app, idle, power>>

Next ==
  \/ Timeout \/ TakeBreak \/ Disable \/ Enable \/ PressStart
  \/ IdleCallback \/ HandleSignal
  \/ PrepareForSleep \/ FallAsleep \/ \E nap \in Naps : WakeUp(nap)
  \/ Look \/ Probed \/ Input \/ Tick

Spec == Init /\ [][Next]_vars
-----------------------------------------------------------------------------
\* While the dialog is up there is one window of it, and the scheduler stands
\* still: a resume that started it is about to be undone (plugin.py:175-194).
GateHolds ==
  /\ gate.windows = IF gate.dialog THEN 1 ELSE 0
  /\ gate.dialog /\ core.running => \E i \in DOMAIN idle : idle[i] = "resume"

\* The scheduler raises none of its own exceptions, has a timeout pending
\* exactly while it runs, and stands still only for a reason: the dialog is
\* up, SafeEyes is disabled, or the machine is on its way through a suspend.
NeverStuck ==
  /\ ~core.raised
  /\ core.running <=> core.cb # "none"
  /\ core.running \/ gate.dialog \/ ~app.active
       \/ power.at # "on" \/ power.signals # <<>>

\* Between two breaks that ran to their end there is no more work than an
\* interval and its warning for each time the interval began anew - a -d and
\* its -e, a break that was suspended or disabled - and no suspend or idle
\* gate adds more than a warning and a rounding (handle_suspend_callback,
\* _on_start_clicked).  A break cut by a late gate does not count as one.
WorkBounded ==
  history.work <= (history.restarts + 1) * (INTERVAL + WARNING)
                    + history.cuts * (WARNING + 1)
=============================================================================
