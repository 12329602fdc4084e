# A verification project for cockblockd

`cockblockd` is a root daemon that keeps website blocking, break reminders and
its own installation in force on a laptop whose user may want to be rid of
them. It is a short-lived process: systemd restarts it (`Restart=always`)
whenever it ends, and kills it with SIGTERM after `RuntimeMaxSec=30s` wherever
it stands. Everything it knows is in files, most of what it controls is in
other processes, and the machine sleeps, reboots and is updated under it. That
is where the questions of this project come from.

All line numbers below are of `src/src/cockblockd.c` unless a file is named.

## 1. Inventory

| Part | State | Operations | Interacts through | Hard behaviour | Status |
|---|---|---|---|---|---|
| Pause challenge, daemon side (1340-1968, 2135-2154, 2385-2388) | `struct PauseState` in memory and in `/var/lib/cockblock/state` | HELLO, ANSWER, expiry, end of window, daily reset, save | abstract socket, `policies.json`, the re-created `cb-pause` binary | kills between reply and save, truncated file, two clients, deadlines, midnight | modelled |
| `cb-pause` client (`src/src/cb-pause.c`) | one process per invocation | HELLO connection, countdown, ANSWER connection | the socket | answers in flight while the question expires | modelled |
| Browser policy sync (2156-2380, `term_and_wait`, `swap_*` 1725-1792) | policy files and style sheets of two browsers, extension state, Vivaldi's cooldown stamp | compare, copy, kill, launch, mirror rules, unblock, block again | Firefox, Vivaldi, three Python helpers | kill between copy and restart, browsers that do not die, time of helpers against `RuntimeMaxSec`, the user starting browsers meanwhile | modelled |
| SafeEyes guard, `safeeyes_run` (428-1322, 2376-2399) | `struct SafeEyesState` and `/var/lib/cockblock/se_state` | detect a resume, seed, re-impose, restore, keep alive, force, switch off for a call, track | `~/.config/safeeyes/safeeyes.json`, the SafeEyes process, two helper scripts, two flag files | suspends at any step, kills between effect and record, wrong answers of helpers | modelled |
| Immutable file updater (`src/bpf/cockblock-updat.c`) | flags and contents of the protected files | `set`, `clear`, `update` (in place, or by rename) | ext4 flags, the LSM programs, the daemon's running image | failure in the middle, a binary that executes | modelled |
| LSM programs, loader, boot units (`src/bpf/cockblock_lsm.bpf.c`, `cockblock_loader.c`, `bpf-boot.sh`, two units) | attached programs, enabled units, the installer itself | decide, attach, enable, remove itself | kernel, systemd | power-off between two steps, partial attach | modelled |
| Update runner (`src/hardening/cockblock-update-runner.sh`, manifest of `src/update.sh`) | position in the manifest, private copy of the updater | one updater call per entry, apt pin file, reload of the LSM programs | the updater, the LSM programs | replaces its own script and its own tools | modelled |
| Updater (`src/update.sh`, `src/verify.sh`) | - | build, night files, policies, start of the runner | the files above | changes what running cycles look at | partly: the night section, the policies, the runner |
| LeechBlock helpers (`src/cb_ff_leechblock.py`, `src/cb_vv_leechblock.py`, `src/cb_ff_activeblock.py`) | storage of two browsers | diff, mirror, snapshot and restore of active sets | SQLite, LevelDB lock | partial failure, lock held by a starting browser | partly: as the daemon calls them |
| SafeEyes core (`src/vendor/safeeyes/core.py`, `safeeyes.py`, `model.py`) | scheduler state, pending timeout, break queue | start, stop, take_break, hooks, suspend | D-Bus activations, plugins, logind | re-entrant hooks, requests in the wrong state, timeouts that stand still while the wall clock goes on | partly: without the break queue, skip and postpone, settings, quitting |
| Start-work gate (`src/cb_startwork/plugin.py`) | dialog, sentinel file, idle monitor thread | natural end of a break, idle gate, Start | sentinel in `/tmp`, `core.stop`/`start` | a thread queues a gate that runs after the state changed; two handlers of one resume | modelled |
| Detection scripts (`src/cb_break_check.py`, `src/cb_av_check.py`) | none | one question each | window list, PipeWire | wrong or missing answers | partly: as inputs of the guard |
| Blocked snaps (1995-2076) | installed snaps | list, kill, remove | snapd | waits without limit | not modelled (section 8) |
| GRUB line, AppArmor and hardening installers, question arithmetic, JSON parser, keyword extension, static policies, SafeEyes widgets | - | - | - | - | not modelled (section 8) |

How they interact. `main` runs once per cycle: it reads the pause state; when no
challenge or window is on (`phase == 0`) it syncs the browsers and calls
`safeeyes_run`; in a window it unblocks the browsers instead; then `pause_run`
serves the socket for about 28 of the 30 seconds. `PauseChallenge` and
`BrowserSync` meet in `phase`: the first has all of the challenge and one
variable for the browsers, the second has the browsers and of the challenge
only that it starts, fails or is granted. The guard shares no state with either
but the clock and the kill; a cycle in which the pause challenge keeps
`safeeyes_run` from running is, for the guard, time passing between two cycles.
The daemon's binary is one of the protected files: `ProtectedFiles` has the
daemon as a process that executes an inode for a cycle and then executes what is
found under the path. SafeEyes appears twice: in `SafeEyesGuard` as the daemon
meets it from outside (a dialog, an overlay, a configuration), in `StartWork`
from inside, where the daemon is what sends `-d` and `-e`.

What makes each part correct: the properties of sections 3 and 4. What can go
wrong and would hardly be met by a test is listed as `hazards` in
`PROJECT.json`, at its line, with the properties that would notice.

## 2. Modules

| Module | What it is |
|---|---|
| `PauseProtocol` | what the pause challenge promises: attempts, windows, daily resets and lockouts, without processes, files or restarts |
| `PauseChallenge` | `pause_run`, `pause_handle_conn`, the parts of `main` around them, `cb-pause`, systemd |
| `PauseChallengeProofs`, `PauseDurableProofs` | theorems about `PauseChallenge` for every value of its constants |
| `BrowserSync` | the browser half of `main`, the two swaps, the browsers, systemd's clock |
| `BrowserSyncProofs` | theorems about `BrowserSync` |
| `SafeEyesGuard` | `safeeyes_run` with SafeEyes, the plugin, `update.sh` and the machine around it |
| `SafeEyesGuardProofs` | theorems about `SafeEyesGuard` |
| `ProtectedFiles` | updater, LSM programs, daemon unit: what may happen to a protected file, whoever starts it |
| `ProtectedFilesProofs` | theorems about `ProtectedFiles` |
| `HostProtection` | boot units and update runner; `EXTENDS` and implements `ProtectedFiles` |
| `HostProtectionProofs` | types, implementation of `ProtectedFiles`, `Armed`, `CompleteRun`, `PinRenewed` |
| `StartWork` | the scheduler of SafeEyes, the application around it, the start-work plugin with its monitor thread, suspends, the user |
| `StartWorkProofs`, `StartWorkGateProofs` | the scheduler; the gate and the work between two breaks |
| `MCPauseChallenge`, `MCBrowserSync`, `MCSafeEyesGuard`, `MCHostProtection`, `MCStartWork` | the small instances |

An operator whose name ends in `_Something` and whose comment begins with
`Mutant:` is a plausible bug in the definition after it. No specification uses
it; `PROJECT.json` pairs each with the property that finds it.

### Actions and code: PauseChallenge

`pc` is the control point of one daemon process. A cycle is `StartCycle` (read
the file, daily reset: 2138-2154), `SyncPolicies` (2160-2385), possibly
`TruncateState`/`WriteState` (2387), then rounds of the poll loop. A round is one
handled connection (one of ten actions, a partition of `pause_handle_conn` by
reply) or none, then `SwapUnblocked` and `RecreateBinary` where the handler calls
`swap_unblocked` and `pause_delete_recreate_binary`, then the checks of 1942-1964,
then the save of 1965 in two steps, because `fopen(..., "w")` empties the file
before anything is written. `Tick` and `Kill` may come between any two steps.
A handler's change of memory and its reply are one action: nothing else reads
either before the next control point.

Abstracted: the text of questions and answers (an answer is right, wrong or
empty), the wording of replies, the identity check (a client holds the current
binary or not), which browsers there are (`policy` is the file set they run
under), the list of active LeechBlock sets (`ff_active`, in `BrowserSync`). `begun`, `granted` and `failedAt` are history. Time does not go back.

### Actions and code: BrowserSync

`StartCycle` reads the state and looks whether Firefox runs (2137, 2158). In
phase 0 follow, for Firefox, `AddonActive`, `AddonDisabled`, `AddonWrite` (the
check of `extensions.json`), `Compare` (files compared and copied) and one of
`NoRestart`, `AlreadyKilled`, `Restart`, then `Launch`; for Vivaldi `Compare`,
`Extension` (cooldown), the same restart, and `Touch` of the cooldown stamp; then
the rules: `DriftIgnored`, `DriftStopped`, or `DriftRunning`, `DriftSync`,
`DriftLaunch`, `Touch`. `SwapCopy`, `SwapTerm`, `SwapLaunch` are
`swap_unblocked`, called by `main` in a window and by the handler at the grant;
`CloseTerm` to `CloseLaunch` are `swap_blocking`. `Save` is the `write_state` at
the end of a poll iteration.

Every action is one call or one group of calls between which nothing else looks:
a kill, the user and `update.sh` may come between any two. `TermAndWait` has all
the outcomes of `term_and_wait`: gone, survived and waited for its timeout,
signal refused, or gone and started again by the user in the meantime. A browser
has the policies it read when it started, and a file or a browser has the
"blocking" ones of the moment, the "unblocked" ones, an "old" version, or a "new"
one that is not below `/opt` yet. `InstallSources` is what `update.sh` does at any
moment: it copies the repository's blocking policies below `/etc` (94-95) and
renews what Vivaldi's are compared with; `RefreshSources` is the update runner,
which renews what Firefox's are compared with later.

Two histories. `lost` has the running browsers without the current policies that
no sync will restart for them, and the comment on `Overlooks` lists the four
ways to get there: the process ended between the copy and the restart, the
browser could not be stopped or was up again before the wait was over, it was
started after it was looked whether it runs, or `update.sh` had put the current
file in place. `gap` measures the distance to Vivaldi's last restart, whoever
made it, and says whether that was `bare`, without a stamp.

Time is counted in units of `TERM`, the timeout of `term_and_wait`, and passes
in a poll, in a wait that times out and in helpers (`SlowPoints`). It is kept as
the age of the process, of the cooldown stamp and the rest of the window; each
saturates where the code stops to compare, so no bound stops the clock and the
liveness properties are about infinite runs.

Abstracted: Firefox' style sheets are handled as its policies are and stand for
the same file; one representative LeechBlock set; `write_state` in one step
(`PauseChallenge` has both); Vivaldi is installed; the daily limit and lockouts
are one bound on challenges.

### Actions and code: SafeEyesGuard

`safeeyes_run` is cut at its writes of the state file, at the steps that talk to
SafeEyes and at the two places that look at the clock or at a flag: `BeginCycle`
(904-919), `Detect` (944-994), `Absorb` and `UnlinkForced` (1012-1040), one of
`Reseed`, `ReimposeBreak`, `FreshInterval`, `NothingToSeed` (1054-1181), `Quit`,
`RestoreConfig` (1191-1234), `KeepAlive` (1237), `ForceBreak` (1248),
`SwitchForCall` or `NoSwitch` (1265), `TrackBreak` (1293), `EndCycle` (2394), and
`Save`, to which each goes that calls `se_write_state`. `loc` holds the local
variables that survive from one step to the next, `t0` the `now` read at 894.

The machine and the user: `Suspend` (which closes the overlay, as
`handle_suspend_callback` does), `Reboot`, `Kill`, `Call`, `EditSource`, the
three steps of `update.sh`'s night section, and of SafeEyes `TakeBreak`,
`EndBreak`, `IdleGate`, `PressStart`, `SafeEyesDies`. `Events` says which of them
an instance has; "deaf" lets SafeEyes ignore a command or outlive `Quit`, whose
results `safeeyes_quit` (644-652) does not look at, and "blink" lets a detection
script fail. Such a `survivor` goes on with what it had loaded until something
else ends it.

Abstracted: configurations are a mode, a revision and the one duration that is
ever patched; the hash of a source names its mode and revision (djb2 does not
collide here); suspends in whole seconds. `due` (the deadline of the break the
daemon has recorded) and `handled` (the suspend counter when it was last acted
on) are history.

### Actions and code: ProtectedFiles and HostProtection

`Invoke` starts `cockblock-updat` in one of its modes; `GetFlags`, `ClearFlag`,
`OpenTruncate`, `WriteContent`, `RenameOver`, `SetFlag` and `RestoreFlag` are
its system calls, each with its failure. `Busy` is ETXTBSY: the daemon executes
the inode under the path. `SignalPasses` and `SetFlagsPasses` are the two LSM
programs; the first lets SIGTERM through whoever sends it. `DaemonStarts`,
`DaemonCycleEnds`, `Signalled` are the unit with its start limit. `Others` lets
any other program rewrite unlocked files, attach and detach the LSM programs: it
is what `HostProtection` fills in.

In `HostProtection`, `FirstbootLoads`, `FirstbootEnables`, `FirstbootRemoved` are
`bpf-boot.sh`; `UnitLoads` is `cockblock-bpf.service`; `LoaderFails` and
`LoaderReturns0` the loader. `RunStarts`, `CopyActor`, `Entry`, `LoopEnds`,
`PinClear`, `PinGenerated`, `PinSet`, `Detach`, `Load` are the runner, with
`Calls` and `Returned` around each child. `Entry` has the SKIP branch (62-65), for a
source that is gone by then; `Detach` removes the two pins one after the other
(105-107). `RunnerKilled` may come at any step, as may `Reboot`. `Fault(kind)` is a
call that fails; `Faults` says which kinds, `MaxFaults` how many.

`excused` and `lapses` are history: the first names files that are not expected
to be locked (left so by the installation, cleared on request, cleared by
another process while the gate was open, or left by a killed updater or a failed
set), the second what went wrong. In `run`, `skipped` names what the runner said
SKIP of and `jumped` says that bash went on in other text than it began.

Bash itself matters twice. It executes an empty file as a script without
commands and reports success, and a truncated ELF file as an error; `TornActor`
has both. And it reads a script as it goes: after the runner has overwritten
itself, `LoopEnds` continues anywhere in the new text.

### Actions and code: StartWork

The functions of `core.py` are operators on the pair of scheduler and plugin
state: `CoreStart`, `CoreStop`, `CoreTakeBreak`, `WaitFor` (`__wait_for`),
`SchedulerJob`, `DoPreBreak`, `DoStartBreak`, `CycleBreakCountdown`,
`FireStopBreak`, `Wakeup` (`__wakeup_scheduler`, which runs the pending callback
on the spot). `raised` records one of the core's own exceptions. The
plugin's hooks are where the core fires them: `on_start_break` in
`DoStartBreak`, `on_countdown` in `CycleBreakCountdown`, `on_stop_break` with
its `core.stop` in `FireStopBreak`.

An action is one dispatch of the GLib main loop: `Timeout`, a D-Bus activation
(`TakeBreak`, `Disable`, `Enable`), `PressStart`, `HandleSignal` (logind, for
SafeEyes' handler and the plugin's listener), `IdleCallback` (`_do_idle_gate` or
`_on_resume_while_gating`). A function called by one of them runs to completion,
because nothing in them returns to the loop. Idle callbacks have a lower
priority than timeouts and D-Bus messages, hence the two guards of
`IdleCallback`. Both listeners see the same signal before any idle callback
runs, so they are one action.

`Look` and `Probed` are the monitor thread: what it read in `Look` is up to
`PROBE` old (pw-dump's timeout) when the gate it queues in `Probed` is run.
`PrepareForSleep`, `FallAsleep`, `WakeUp(nap)` are the machine. SafeEyes holds
no inhibitor, so the first signal may be handled only after the nap. GLib's
timeouts use a clock that stands still during a suspend, while
`scheduled_next_break_time` and the plugin's gap are wall-clock times: `WakeUp`
shortens `next` and lengthens `gap`, and leaves `timer` alone.

`Races` names two further interleavings, which the passing run leaves out:
"command" (`-d` and `-e` arrive although the dialog came up after the daemon
looked at its sentinel) and "press" (Start is pressed before a queued callback
has run). Section 5 says what they lead to.

Abstracted: which break is next and its length; skip, postpone, settings and
quit; the window's keys and hints; the sentinel, which `SafeEyesGuard` has.
`history` is history: work since the last break that ran to its end, the
interruptions since (idle gates, suspends), how often the interval began anew
since (`Enable`, a break that `-d` or a suspend cut short), and suspends in all.
Only a countdown that reaches 0 makes `work` 0 again.

## 3. Runs that pass

| Run | Instance | States | Shows |
|---|---|---|---|
| `PauseClients` | 2 clients, 4 nonces, 2 questions, kills where memory and file agree, a midnight | 2.0 M | consistency of browsers, counter, lockout and deadlines; refinement of `PauseProtocol` |
| `PauseKills` | 1 client, 3 nonces, one kill anywhere, any number where memory and file agree, fair | 0.3 M | daily limit, minimal time, the window and every challenge end |
| `BrowserWindow` | one pause, one kill anywhere, users who start browsers almost anywhere, a slow helper, a disabled extension, edits, `update.sh` at any moment; Vivaldi in the unit's cgroup | 2.8 M | browsers blocked and up to date after a sync, or on the record of lost restarts; sets restored, restarts spaced |
| `BrowserRules` | one pause, one kill anywhere, one failing helper, Firefox survives SIGTERM, browsers slow to appear, fair | 0.6 M | the window ends in the file too; edited rules reach Vivaldi |
| `SafeEyesBreaks` | a day, 2 suspends, one edit, start-work dialog | 1.5 M | a break that was cut short is served, and undone properly |
| `SafeEyesModes` | a night from 3 on, one suspend at any step, one kill or reboot anywhere, crash, call, unreliable helpers, a SafeEyes that outlives its quit | 2.4 M | every completed cycle enforces the mode of its hour |
| `SafeEyesNight` | a night from 3 on, one suspend at any step, one kill around the enforcement, `update.sh` | 2.6 M | the night is blocked; each suspend found once |
| `SafeEyesCalls` | calls, 2 suspends, a short night, fair | 0.3 M | nothing stays disabled or shortened |
| `HostUpdate` | 5 files, 4 manifest entries, one new version, one fault of any of 12 kinds, one reboot, signals (SIGTERM among them) and flag changes from outside | 3.5 M | files stay locked, a finished run is complete, the pin file renewed, the LSM programs loaded |
| `StartWork` | an interval of 3, a warning of 1, a break of 4, a probe of 2; 2 suspends at any step, each too short to be noticed or longer than everything; one restart of the interval | 6.7 M | one dialog at a time that no resume opens, a scheduler that never stands still without a reason, work between breaks bounded |

Deadlock is checked in all of them: the daemon never stops.

Bounds. `Horizon` stops the clock, `LastStart` the last start of a challenge,
`LastDay` midnights, `MaxKills` the kills that lose something, `MaxSuspends` and
`MaxRev` what they say. Durations of one or two units make every comparison of
the code true and false on both sides (`PauseClients`: `QUESTION_SECS` and
`GRACE_SECS` of 1: in time, in grace, late). `PauseKills` sets the grace and the
opening window to 0, so a late answer meets an expired question at once and
liveness stays within reach of TLC. Two questions give a first and a last one; more repeat the
middle. One slot a day makes the limit bite at once. The horizon leaves room for
a complete challenge, its window and a second attempt (pause), and for a break, a
suspend, its recovery and the next cycle (SafeEyes). Nonces are interchangeable
(`SYMMETRY`, used only where no liveness is checked). Four nonces for two clients
are enough because a fresh one differs only from those still in use.

Browsers: in `BrowserRules` a process lives 3 units, a poll 2, a wait 1, so that a
sync with one browser that does not die fits and one with more does not; its
window of 2 units spans two processes. `BrowserWindow` has a process of 2 units and
a poll of 1: one wait that times out fits, the second ends the process. Its
cooldown of 2 spans more than a cycle. Users start browsers at any step but between
the stop of the browsers at a window's end and the restore of their sets
(`OutsideClose`), where a Firefox that comes up undoes the restore (section 5).
Kills are one per run, because a second one meets a state a first one has
produced (the state is saved and nothing else survives); the theorems of section 6
on the same properties have no such bound.

Host: four entries in the order of `update.sh`: tools, updater, runner, daemon;
the tools stand for the loader and its object file. One fault at any place and one
reboot at any place; `KILL` stands for the blocked signals, which the program
treats alike, and `TERM` is the one it lets through. `BURST` of 1 makes the start
limit bite at the second quick start. `Unlocked` is the staged installation
(`make install-bpf-boot`, Makefile:81): the updater, the runner and the daemon's
binary get the flag from the first update only. The proofs of section 6 have
none of these bounds.

StartWork: the values are the smallest that keep apart what the code keeps
apart: a probe of 2 ends within the interval, the warning or the break that
followed the look, and a break of 4 outlasts it; the short nap is below `GAP`,
the long one passes an interval, its warning and a break. Suspends are bounded,
and so is how often the interval begins anew since the last whole break; the
clock runs for ever, and the user may go and come at any time. The second
suspend meets everything the first one leaves. Again the proofs have no such
bounds.

## 4. What the properties say

Pause challenge:

* `PolicyMatchesPhase`, `SlotConsumed`, `LockoutHeld`: browsers, counter and
  lockout agree with what clients were told, as long as no kill falls between
  a reply and the end of the save.
* `ShownDeadlineIsHeld`, `AnswerScoresOnce`: two windows on one question, or a
  window left over from an expired one, neither move a deadline nor score twice.
* `DailyLimit`, `GrantTakesTime`: hold under kills anywhere. The first is not
  local: `count` is compared when a challenge starts and incremented when it
  ends, many restarts later.
* `ImplementsProtocol`: the refinement mapping reads the file until `main` has
  taken it over and the daemon's memory from then on.
* `UnblockedEnds`, `ChallengeEnds`: liveness.

Browsers:

* `BlockedAgain`: after a cycle that blocks, no browser would start unblocked, and
  one that runs unblocked has lost its restart in one of four named ways.
  `SyncLoads`: what this cycle or an earlier one copied has been loaded by every
  running browser, not only by those restarted in this cycle, with the same four
  exceptions. Kills, `update.sh` and starting browsers are part of both, so they
  say that the code has these four gaps and no fifth.
* `SetsRestored`: the file says that the window is over only after the sets of
  its grant are active again. Between the snapshot and the restore lie several
  processes.
* `RestartsSpaced` relates the four places that restart Vivaldi and one stamp;
  `gap` measures the true distance. It speaks of stamped restarts only: two of the
  places leave no stamp, against the comment on it (section 5).
* `WindowEnds`, `RulesPropagate`: liveness, with cycles that are cut off.

SafeEyes guard: `ModeEnforced`, `BreakServed`, `NightBlocked` say what is true at
the end of a cycle; `RestoreSparesRecorded` what a restart must not do;
`ShortenedIsRecorded`, `DisabledIsRecorded` that an effect outside the daemon is
on record; `ResumeExact` relates a detection to the previous one; `Reenabled`
and `RestoreHappens` are liveness.

Host:

* `LockedWhenIdle`: whatever fails in an update, the file is locked again.
* `CompleteRun`: a run that says "done" has done all of it but what it said SKIP of,
  whatever earlier runs left and although it replaces its own script and tools.
* `PinRenewed`: so has it the apt pin file, which three children of the script
  clear, write and set, and which an earlier run may have left half-way.
* `Armed`: wherever the machine is switched off during the first boots, something
  loads the LSM programs at the next one.

SafeEyes from the inside:

* `GateHolds`: a resume makes SafeEyes start the scheduler under the dialog
  (495-506 of `safeeyes.py`); until the plugin's callback undoes it, timeouts,
  `-b` and further suspends may come first.
* `NeverStuck`: whatever stops the scheduler (a hook, a suspend, `-d`, the gate),
  something is left that starts it, and no callback is armed twice or woken when
  none is armed.
* `WorkBounded`: what was left of an interval passes through four places (the
  timeout, the wall-clock time of the next break, the delay of a suspend, that of
  the idle gate). If one of them were lost or doubled at the wrong moment, the
  user would work an interval longer, or for ever. The work is counted from break
  to break, through `-d` and `-e`, which begin a whole interval each time
  (586-595 of `safeeyes.py`), and through breaks that were cut short: the bound
  is one interval more for each of these, and a warning for each interruption.

Fairness. `PauseChallenge!FairSpec`: the clock runs; the daemon keeps executing
and is restarted (`Restart=always`; a cycle lasts long enough not to meet systemd's
start limit, 2089-2097); strong fairness of `SyncPolicies`, `ExpireChallenge`, `CloseWindow`,
`ExitCycle` says that kills do not for ever hit before a cycle has synced, looked
at the deadlines once and come to its end. `SafeEyesGuard!FairSpec`: the daemon's
steps and the clock; kills are bounded. `StartWork` states no fairness: its three
properties are safety, `NeverStuck` among them. `BrowserSync!FairSpec`: the daemon runs,
is ended at `RuntimeMaxSec` and restarted (the step that ends it is one of
`Daemon`: fairness does not say that a cycle completes); a launched browser
appears; a challenge does not last for ever, which is `ChallengeEnds` of
`PauseChallenge`. Nothing is assumed of users, calls or suspends.

## 5. Runs that find a violation

Each checks one sentence of the source; `findings` in `PROJECT.json` quotes it.

| Run | What happens |
|---|---|
| `SafeEyesFirstSleep` | a suspend counter of 0 means both "no baseline" and "never suspended since boot": the first suspend after a boot is missed |
| `HostFirstboot` | the loader passes over a program that cannot be attached and returns 0, and the first-boot installer removes itself |

The same models show some more, which have no run of their own.

Pause challenge:

* A kill between WRONG and the save: the attempt, and its lockout, are forgotten
  (`LockoutHeld` with `KillPoints` anywhere).
* A cycle that polls across midnight counts a grant to yesterday, the next one
  resets the counter again (`CalendarDayLimit`).
* A kill between GRANTED and the save also forgets the slot (`SlotConsumed` with
  `KillPoints` anywhere, against 1879), and a kill after QUESTION lets a second
  window show a later deadline (against 1854-1855).

SafeEyes guard:

* A suspend between detection and tracking of one cycle: tracking reads IDLE,
  forgets the break, and the next cycle has nothing to re-impose (`BreakServed`
  with `SuspendPoints` anywhere by day).
* One missed window makes the tracking forget the start of a break, and the
  restore of the next cycle ends it (`RestoreSparesRecorded` with "blink").
* "We must NOT restore while the break overlay is still up" (1188-1189), but whether
  the break is over is judged by the start on record alone (1195-1208): a break that
  begins (from the tray, say) before a cycle has seen the screen without the one
  on record is not recorded yet, and the restore of the next cycle quits it as soon
  as it has begun. `RestoreSparesRecorded` therefore speaks of the break on record
  only.
* `safeeyes_quit` (644-652) looks neither at the answer to `-q` nor at whether SafeEyes
  outlived SIGTERM; the mode, the hash and the restore flag are recorded all the
  same, and the launch that follows finds a SafeEyes that runs. A survivor keeps
  its old configuration, the day's through the night for instance, until
  something else ends it. `ModeEnforced` and `ShortenedIsRecorded` say what a cycle
  ends with in spite of one (`Replaced`).
* The sentinel is looked at once per cycle; the quit of a mode boundary kills a
  dialog that came up since, the sentinel stays and suspends all enforcement.
* On a machine that was never suspended the clock fallback of 986-994 is always
  on, and a killed cycle makes the next one see a resume (`ResumeExact` with
  `InitSuspended = 0` and kills, against 954-957).
* A kill in `safeeyes_quit` before `se_need_restore` is saved leaves a shortened
  duration that nothing undoes (`ShortenedIsRecorded` with kills, against
  1083-1085); a kill between `-d` and the save leaves SafeEyes disabled
  (`DisabledIsRecorded` with kills, against 441-442).
* A relaunch during a call starts an enabled SafeEyes while `se_paused_by_us`
  stays set, so `-d` is not sent again (1270).
* When `update.sh`'s flag is absorbed in the first cycle of a new mode, 1034
  records that mode before the boundary of 1017 is acted on; a kill at the write
  that follows hides the boundary (`ModeEnforced` with kills and "update").
* A kill between copying and recording at a boundary, followed by a power-off
  until that mode is over, leaves the wrong configuration unnoticed. The passing
  runs have one boundary within their horizon.

SafeEyes from the inside (`StartWork`):

* `plugin.py:210` says that gates only fire while the state is WAITING and no
  dialog is up. The state is read before pw-dump is run, up to 5 s before the gate
  fires: a gate that comes late ends a warning or cuts a break that has begun,
  one that was asked for (`-b`) or one that was due. `WorkBounded` says that a
  break that was cut returns after Start, since the next break time has passed.
* A late gate opens its dialog although SafeEyes was disabled for a call in the
  meantime, and Start then runs the scheduler during the call.
* If a gate comes in the last second of a break, `core.stop` makes the break end
  "naturally" and the plugin shows a window of its own before the gate's: two
  windows, one of which nothing closes. A break longer than the probe excludes
  it (`PROBE < DURATION - 1`); then the branch of `_do_idle_gate` for a dialog that
  is already up is never taken either.
* A suspend during the warning starts it again, each time at the cost of at most
  a warning and a second: the last term of `WorkBounded`.
* With `Races = {"command"}`: after `-d`, a late gate, and `-e` sent by a daemon
  that looked at the sentinel before, the scheduler runs under the dialog
  (`GateHolds`).
* With `Races = {"press"}`: Start pressed between SafeEyes' resume handler and the
  plugin's queued callback finds the scheduler running, so that `core.start` and
  with it the time that was left are ignored (`WorkBounded`).

Browsers (`BrowserSync` with other constants):

* "After any Vivaldi restart we touch this file and refuse another restart (for
  either reason) until it expires" (1374-1375): `swap_unblocked` (1738-1739) and
  `swap_blocking` (1788-1789) restart Vivaldi and do not touch it, so a disabled
  extension or a drift found within the cooldown of such a restart has it killed
  again. A kill between `launch_vivaldi` and the touch has the same effect. These
  are the `bare` restarts that `RestartsSpaced` excepts; without that it is violated.
* The copy of 2214 precedes the restart of 2240, and that it was made is known in a
  local variable only: a process that is ended in between leaves equal files, and no
  later cycle restarts the Firefox that runs with the old policies, against
  README.md:5-7 ("restarts Firefox when anything changed"). The first of the four
  ways into `lost`.
* A browser that could not be stopped (`Stubborn`), or was started again while it was
  waited for, is left on what it loaded, as is one started between the two looks at
  the process list (2158 and 2214; 1748 and 1751) or still starting (`Lag`).
* `update.sh` copies new policies below `/etc` too (94-95): the daemon finds equal
  files and running browsers stay on the old ones. It may even leave Firefox
  unblocked outside of a window: the process that granted one is ended before the
  grant is saved, `update.sh` copies the blocking policies, the challenge
  fails, and the sync that follows finds nothing to do, against 1331-1332 ("for 5
  minutes, then restores blocking").
* A Firefox that its user starts while its sets are restored undoes the restore
  (`SetsRestored` with the closing steps in `StartPoints`).
* When the snapshot at the grant fails, sets disabled in the window stay
  disabled (`SetsRestored` says nothing of that case: its `snap` is -1).
* A Vivaldi launched by `fork` alone stays in the unit's cgroup and ends with
  each cycle (comment 560-568 against `launch_vivaldi` 402-426; `InCgroup`).
* With both browsers surviving SIGTERM, the waits of a window's end take longer
  than a process lives, and each new one starts again (`WindowEnds` with both in
  `Stubborn`).
* If an extension's `disable_reasons` survive a restart, each cooldown is spent
  on it and the rules are never mirrored (`RulesPropagate` with `Persistent`).

Host (`HostProtection` with other constants, or beyond its assumptions):

* An updater binary cut short to nothing makes every later run "succeed" without
  doing anything, since bash executes it as an empty script (runner, 34, 66, 115);
  `CompleteRun` therefore speaks of runs with a whole copy.
* A failing generator leaves the pin file truncated and unlocked (runner, 80).
* `update.sh:12-13` says that a file is never left unlocked; a failing second
  `set_flags` (`cockblock-updat.c:278`), the ignored result of the restore (274)
  or a kill leave it so until the next complete run (`excused`).
* "A systemd service that self-cycles every 30s and restarts forever" (README.md:8-9):
  `Restart=always` stands without `StartLimitIntervalSec=0` (cockblock.service:15), so
  the unit is given up after five quick starts. The daemon's binary cannot be
  executed while an update that began between two cycles has truncated it, or for
  good when the write fails; and SIGTERM, which `block_kill_cockblock` lets through
  whoever sends it, ends the daemon as often as it is sent. In the model: `daemon.st =
  "failed"`, reached with the constants of `HostUpdate`.
* A runner that could not be rewritten blocks all later updates.
* A source that has gone since `update.sh` wrote the manifest (311) is passed over with
  SKIP, and the run says "done" (runner, 62-65); `skipped` excepts it.
* A runner that is killed between the removal of the pins and the load (105-108) leaves
  the machine without the LSM programs until the next boot (`Armed` excuses it).
* A failing `systemctl enable` is only logged, and the installer still removes
  itself (`bpf-boot.sh:53`; `lapses`).
* `update.sh:52-55` says that the runner has no flag; `update` sets one on it.

## 6. Proofs

`PauseChallengeProofs`, for any set of clients, any limits and durations, any kill
points, from `ConstantsAssumption` alone:

* `TypeCorrect`: `Spec => []TypeOK`, by cases over the actions.
* `DailyLimitHolds`: `Spec => []DailyLimit`. Inductive as it stands, because it
  speaks of `mem` and `disk` alike (a reload may bring back any earlier state of
  the file) and says that a running challenge has a free slot.
* `GrantTakesTimeHolds`: `Spec => GrantTakesTime`. The strengthening `OnPace`
  relates `qnum`, `qstart` and `open_time` to `begun`: the n-th question was not
  available before n delays had passed, for the state in memory and on disk;
  `DownIsBlank` says that a dead daemon has no challenge.

The steps are first grouped by what they do to the saved state (`StateStep`), so
that each invariant is proved over eight kinds of change and not over every
action.

`PauseDurableProofs`, for any constants with `SafeKills`
(`KillPoints \subseteq SafePoints`):

* `PolicyMatchesPhaseHolds`, `SlotConsumedHolds`, `LockoutHeldHolds`. The
  inductive invariant `Durable` says that memory and file agree except within a
  round of the poll loop, and which of the two the browsers, `granted` and
  `failedAt` follow at each control point; `NoLockout` that a challenge is not
  on during a lockout. Without `SafeKills` the statements are false (section 5).
* `ShownDeadlineIsHeldHolds` with `Shown`: at each control point, the state the
  daemon will judge the next answer by holds the deadline that is on screen.
  `AnswerScoresOnceHolds`: only two handlers raise the question number.
* `ImplementsProtocolHolds`: `Spec => ImplementsProtocol`. `Record` is the copy of
  the state that counts (memory while the process polls, the file otherwise).
  `NextIsRecordStep` shows that a step leaves `Record` alone, moves the clock, or
  makes one of seven changes to it; `RecordStepIsProtocolStep` that each of them
  is an action of `PauseProtocol`.

`ProtectedFilesProofs`, for any files, faults, versions and callers, from
`FilesAssumption`:

* `FilesTyped`; `LockedWhenIdleHolds` with `LockedUnlessUpdated` (where in its
  work the updater may have the flag off).

`HostProtectionProofs`, for any manifest, from `FilesAssumption` and
`HostAssumption`:

* `HostTyped`; `ImplementsFiles`: `Spec => FilesSpec`, every step of the scripts is
  a step of the file protocol or leaves it alone. `HostLockedWhenIdle` then carries
  the theorem above over to the scripts.
* `ArmedHolds` with `ArmedInv`: at each point of a boot, something that loads the
  programs is enabled.
* `CompleteRunHolds` with `CompleteInv`: the updater at work during a run is the
  one the runner waits for (`UpdaterServesRun`), and the entries handled so far
  are fresh and locked or were skipped (`EntriesFresh`).
* `PinRenewedHolds` with `PinInv`: what each of the three children of the pin section
  has left, for a run with a whole copy that bash has not left for other text.

`StartWorkProofs` and `StartWorkGateProofs`, for any lengths of intervals,
warnings, breaks, probes and naps and any number of suspends, from
`ConstantsAssumption`:

* First, lemmas that say what each function of the scheduler does to a scheduler
  whose pending callback fits its state (`Sound`): `StopEffect`, `StartEffect`,
  `TakeBreakEffect`, `CallbackEffect`. The steps are proved from these, not from
  the nested functions.
* `StartWorkTyped` and `NeverStuckHolds` with `SchedulerInv`: `Sound`, the signals
  that may be unhandled at each point of a suspend, and a reason whenever the
  scheduler stands still. They hold for any `Races`.
* `GateHoldsHolds`, for `Orderly` (`Races = {}`, `PROBE < DURATION - 1`), with
  `GateInv`: a break that began after the monitor thread looked is not older than
  what the thread has spent since, so a late gate never meets its last second;
  and a scheduler started under the dialog has nothing due before the callback
  that stops it.
* `WorkBoundedHolds`, for `Orderly`, with `LimitInv`: at each point exactly one of
  the four places is responsible for what is left of the interval (`Scheduled`,
  `Kept`), and work so far, what is left and the warning fit into the bound.

`BrowserSyncProofs`, for any durations, from `ConstantsAssumption`:

* `BrowserTyped`: types; the clocks stay within their bounds.
* `RestartsSpacedHolds` with `SpacedInv`: the stamp is not older than the last
  restart, unless that was bare or the process is about to write the stamp.
  Nothing else is assumed.
* `SetsRestoredHolds` with `StoppedInv` and `RestoredInv`, for `Obedient` browsers
  and `MaxFails = 0`: kills anywhere, a cycle that ends in the middle of
  `swap_blocking` is repeated by the next one. `Obedient`: browsers end when they are
  told to, appear at once, and are not started between that and the restore. A
  helper that fails leaves the sets as they are: the code skips the restore when
  they cannot be read (1756) and does not look at the result of setting them
  (1765), and nothing tries again.
* `BlockedAgainHolds` and `SyncLoadsHolds` with `LoadedInv`, from `ConstantsAssumption`
  alone. `FilesLoaded`: a browser whose file is current is current itself or in
  `lost`, unless its restart is due in this cycle. `SectionInv`, `ClosedInv` and
  `SyncedInv` say the same of the browsers that the sync, the end of a window and a
  whole cycle have dealt with. `LostStep` has how `lost` changes in any step, `ProcStep`,
  `UpdateStep` and `FileStep` what else a step may do to browsers and files.

`SafeEyesGuardProofs`, for any nights, durations, limits and numbers of suspends,
kills and edits, from `ConstantsAssumption`. Each theorem names the events that
would make it false, all of which section 5 lists:

| Theorem | Assumed beyond `ConstantsAssumption` | Inductive invariant |
|---|---|---|
| `GuardTyped` | nothing | the types; that a morning comes (`UntilMorningType`) is by a least element |
| `ShortenedIsRecordedHolds` | `NoTear`: no kill at "quit" or "save" | `ShortInv` |
| `DisabledIsRecordedHolds` | no kill at "save"; no "deaf", no "update" | `DisabledInv` |
| `ModeEnforcedHolds` | `NoTear`; no "update" | `ModeInv` |
| `ModeEnforcedTornHolds` | `OneNight`, `KillsCovered` | `TornInv` |
| `ResumeExactHolds` | `OneBoot` | `BootInv` |
| `NightBlockedHolds` | `OneBoot`, `SUSPEND_MIN = 0`, `OneNight`, `QuietKills`, `Obeyed` | `NightInv`, with `NightKnown` |
| `BreakServedHolds`, `RestoreSparesRecordedHolds` | `OneBoot`, `SUSPEND_MIN = 0`, `OneNight`, `QuietKills`, `QuietSuspends`, `Truthful` | `BreakInv`, with `BreakKnown` |

* `MemDisk` is under all of them: memory and file agree except from a change to
  its write (at "quit" and "save"), and `Recorded` is the one that is ahead.
* `ModeEnforcedHolds` is for any number of nights. `Agreed`, `Loaded`, `Compared`,
  `Installed` say what is known of the record, of the process, after the
  comparison, and after the seeding. The proof found the property stated too
  strongly: a cycle that recovers by day from a suspend of the night can restore
  the day's file while the record still says night, which takes two suspends; the
  property now says what such a cycle may leave to the next one.
* `ModeEnforcedTornHolds` drops `NoTear`: a kill after the copy and before the
  record (or in its write) is made good by the next comparison, if that still
  finds the same night. With a night that ends, TLC shows the record and the
  file apart for good, which is why `OneNight` is there and why it is not
  assumed by the first theorem. `KillsCovered` spares the cycle that has recorded
  a mode on `update.sh`'s word (1034) until the restart it still owes.
* `OneBoot`: the machine has been suspended before, it is not rebooted, and no
  write of the counter is torn. A counter of 0 means two things in the code
  (`SafeEyesFirstSleep`), so nothing can be said of the first suspend.
  `BootInv` relates the file to `handled` at each control point.
* `SUSPEND_MIN = 0` says that every suspend modelled is above the limit, which in
  the code is 2 s (972): a shorter one is not acted on.
* `OneNight`: a cycle need not run between two nights, since safety knows no
  fairness, so a record of "night" could be the last night's.
* `NightBlockedHolds`: `NightInv` follows the overlay through the three phases of a
  cycle (`Early`, `Mid`, `Late`); in each, the overlay is up, or the counter has
  moved since it was read, or a forced break is on its way. `LastInv`: the
  duration that was set reaches to the morning. `Obeyed`: SafeEyes takes its
  commands and is not killed. `QuietKills`: kills come before the first write of a
  cycle or after its last command to SafeEyes.
* `BreakServedHolds`: `BreakInv` says that a deadline that is to come is the one the
  record amounts to (`DueFrom`) and, phase by phase, that the overlay is up, or a
  suspend is found, or `-b` is on its way. `RestoreSparesRecordedHolds` is its last
  conjunct. `QuietSuspends`: no suspend between the detection of a cycle and its
  look at the overlay. `Truthful`: no "deaf", no "blink", no reboot; calls,
  crashes, `update.sh`, edits and the dialog are all allowed.

The constants of the runs satisfy these assumptions, each theorem those of the
run that checks its property (`ModeEnforced`: the second theorem those of
`SafeEyesModes` and of `SafeEyesNight`).

Model-checked only: liveness (`UnblockedEnds`, `ChallengeEnds`, `Reenabled`,
`RestoreHappens`, `WindowEnds`, `RulesPropagate`), which needs fairness and
`ENABLED` and is beyond the prover. Every invariant and every action property of a
passing run is proved.

## 7. Plan

1. Done: `PauseProtocol`, `PauseChallenge`, `SafeEyesGuard`, `BrowserSync`,
   `ProtectedFiles`, `HostProtection`, `StartWork`, and the proofs of section 6.
2. `PauseQuestion`: `gen_question`, `parse_answer`, `round2ll` on bounded operands.
3. The break queue of `model.py` in `StartWork`: short and long breaks in their
   order, and what a restart of SafeEyes keeps of it.
4. Proofs: weaker assumptions. `SetsRestored` with browsers that do not obey;
   `NightBlocked` with a crash of SafeEyes that the next cycle makes good;
   `ShortenedIsRecorded` with a kill that the next cycle makes good.

## 8. Not modelled

* Blocked snaps: `remove_blocked_snaps` is one straight line at the start of
  `main` that keeps no state. It waits for `snap remove` without a limit
  (2069-2072), so a hanging snapd uses up a cycle.
* Question arithmetic: operators on doubles and text; a question is right, wrong
  or empty in `PauseChallenge`.
* GRUB line: a `sed` over a line of text, run by hand. That bpf is or is not among
  the kernel's LSMs is an input of `HostProtection`.
* JSON parser and serializer: bytes, not control.
* AppArmor profiles, hardening units and installers: configuration of other
  programs, straight-line scripts.
* Keyword extension and policy files: static data. SafeEyes' widgets and other
  plugins: third party, not used by the daemon. Of SafeEyes' core, the break queue,
  skip and postpone (switched off by the configuration), settings and quitting.
* How the LeechBlock helpers read and write the two databases; `verify.sh`; the
  build and the block list of `update.sh`.
* Dry runs, the one-time migration of an old `se_break_start` (933-942), a source
  configuration that cannot be read, a clock that is set back, and the loss of
  whole files by a power failure.
