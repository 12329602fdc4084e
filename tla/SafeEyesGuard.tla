--------------------------- MODULE SafeEyesGuard ---------------------------
(***************************************************************************)
(* safeeyes_run of cockblockd: once per daemon cycle it keeps SafeEyes     *)
(* running under the configuration of the hour (a pomodoro by day, one     *)
(* long break by night), takes a break up again that a suspend cut short,  *)
(* and switches SafeEyes off while a call uses the camera or microphone.   *)
(*                                                                         *)
(* What the daemon knows of earlier cycles is in /var/lib/cockblock/       *)
(* se_state.  It shares the machine with SafeEyes (a process of the user's *)
(* with its own timers), with the cb_startwork plugin inside it, with      *)
(* update.sh, and with the suspends, kills and reboots of the machine.     *)
(* SafeEyes is modelled as the daemon uses it: an overlay that comes, ends *)
(* by itself and is closed by a suspend, a quit or a disable.              *)
(***************************************************************************)
EXTENDS Integers, Sequences

CONSTANTS
  Night,               \* the times at which tm_hour < NIGHT_END_HOUR
  ShortBreak,          \* short_break_duration of safeeyes.json
  LongBreak,           \* long_break_duration of safeeyes.json
  SUSPEND_MIN,         \* a larger growth of the suspend counter is a resume
  RESUME_THRESHOLD,
  DAY_RESUME_RESTART,
  InitSuspended,       \* time suspended since boot when the daemon is installed
  Events,              \* what may happen around the daemon (see Happening)
  KillPoints,          \* where SIGTERM may hit the daemon
  SuspendPoints,       \* where the machine may be suspended
  MaxKills,            \* bound: kills
  MaxSuspends,         \* bound: suspends
  MaxRev,              \* bound: edits of a source configuration
  Horizon              \* bound: time stops here

Modes == {"day", "night"}

PC == {"down", "detect", "absorb", "unlink", "seed", "quit", "restore",
       "launch", "force", "av", "track", "end", "save"}

Happening == {"suspend", "reboot", "edit", "update", "call", "startwork",
              "crash", "deaf", "blink"}

ASSUME ConstantsAssumption ==
  /\ Horizon \in Nat \ {0}
  /\ Night \subseteq 0 .. Horizon
  /\ ShortBreak \in Nat \ {0}
  /\ LongBreak \in Nat \ {0}
  /\ SUSPEND_MIN \in Nat
  /\ RESUME_THRESHOLD \in Nat
  /\ DAY_RESUME_RESTART \in Nat
  /\ InitSuspended \in Nat
  /\ Events \subseteq Happening
  /\ KillPoints \subseteq PC \ {"down"}
  /\ SuspendPoints \subseteq PC
  /\ MaxKills \in Nat
  /\ MaxSuspends \in Nat
  /\ MaxRev \in Nat

VARIABLES
  now,        \* time(NULL)
  susp,       \* bootmono_now(): time spent suspended since boot
  src,        \* revision of safeeyes.json and safeeyes-night.json
  live,       \* ~/.config/safeeyes/safeeyes.json
  se,         \* the SafeEyes process
  call,       \* a call uses the camera or the microphone
  sentinel,   \* SE_STARTWORK_FLAG exists
  forced,     \* SE_FORCED_FLAG exists
  upd,        \* progress of the night section of update.sh
  pc,         \* control point of the daemon, "down" between cycles
  mem,        \* struct SafeEyesState in the daemon
  disk,       \* what se_read_state would return now
  loc,        \* the other local variables of safeeyes_run
  bounds,     \* kills and suspends so far
  due,        \* history: deadline of the break the daemon recorded, 0 if none
  handled     \* history: suspend counter at the last persisted detection, -1
              \* before the first one since boot

stateVars  == <<pc, mem, disk, loc>>
fileVars   == <<live, sentinel, forced>>
worldVars  == <<now, susp, src, call, upd, bounds>>
histVars   == <<due, handled>>
vars       == <<stateVars, fileVars, worldVars, histVars, se>>
-----------------------------------------------------------------------------
ModeAt(t) == IF t \in Night THEN "night" ELSE "day"

\* secs_until_morning, at night.
UntilMorning(t) ==
  CHOOSE k \in 1 .. Horizon + 1 :
    t + k \notin Night /\ \A j \in 1 .. k - 1 : t + j \in Night

\* A configuration file: whose mode, which revision, and the
\* short_break_duration in it.
Config == [mode : Modes, rev : Nat, short : Nat]

\* copy_file_user of the mode's source, patch_json_int of the duration.
Source(m)     == [mode |-> m, rev |-> src[m], short |-> ShortBreak]
Patched(m, d) == [Source(m) EXCEPT !.short = d]
SeededAt(t)   == IF ModeAt(t) = "night" THEN Patched("night", UntilMorning(t))
                                        ELSE Source("day")

\* The hash of a source names its mode and revision.
Hash(m) == <<m, src[m]>>
NoHash  == <<"none", 0>>

SafeEyesState ==
  [strict : Modes \union {"unknown"}, paused : BOOLEAN, active : BOOLEAN,
   type : {"unknown", "short", "long"}, start : Nat, restore : BOOLEAN,
   last : Nat, boot : Nat, hash : (Modes \X Nat) \union {NoHash}]

\* se_read_state of a missing or truncated file.
Blank ==
  [strict |-> "unknown", paused |-> FALSE, active |-> FALSE,
   type |-> "unknown", start |-> 0, restore |-> FALSE, last |-> 0, boot |-> 0,
   hash |-> NoHash]

NoBreak(s) == [s EXCEPT !.active = FALSE, !.type = "unknown", !.start = 0]

\* The process: configuration it loaded, whether it is enabled (-e, -d), the
\* overlay on screen and when that ends, the "Start work" dialog, and whether
\* it has outlived a quit (history).
Process ==
  [up : BOOLEAN, mode : Modes, short : Nat, on : BOOLEAN,
   overlay : {"none", "short", "long"}, until : Nat, dialog : BOOLEAN,
   survivor : BOOLEAN]

Dead ==
  [up |-> FALSE, mode |-> "day", short |-> 0, on |-> FALSE,
   overlay |-> "none", until |-> 0, dialog |-> FALSE, survivor |-> FALSE]

Fresh(c) ==
  [up |-> TRUE, mode |-> c.mode, short |-> c.short, on |-> TRUE,
   overlay |-> "none", until |-> 0, dialog |-> FALSE, survivor |-> FALSE]

Showing(p, kind, d) == [p EXCEPT !.overlay = kind, !.until = now + d]
Cleared(p)          == [p EXCEPT !.overlay = "none", !.until = 0]

\* t0: the cycle's "now"; long: gap > DAY_RESUME_RESTART; force: argument of the forced break; next: where to
\* go on after se_write_state.
Local ==
  [t0 : Nat, skip : BOOLEAN, resumed : BOOLEAN, long : BOOLEAN,
   boundary : BOOLEAN, drift : BOOLEAN, force : {"none", "-t", "-b"},
   imposed : BOOLEAN, hash : (Modes \X Nat) \union {NoHash}, next : PC]

NoLocal ==
  [t0 |-> 0, skip |-> FALSE, resumed |-> FALSE, long |-> FALSE,
   boundary |-> FALSE, drift |-> FALSE, force |-> "none", imposed |-> FALSE,
   hash |-> NoHash, next |-> "down"]

TypeOK ==
  /\ now \in Nat \ {0}
  /\ susp \in Nat
  /\ src \in [Modes -> Nat]
  /\ live \in Config
  /\ se \in Process
  /\ call \in BOOLEAN
  /\ sentinel \in BOOLEAN
  /\ forced \in BOOLEAN
  /\ upd \in {"idle", "restart", "flag"}
  /\ pc \in PC
  /\ mem \in SafeEyesState
  /\ disk \in SafeEyesState
  /\ loc \in Local
  /\ bounds \in [kills : Nat, suspends : Nat]
  /\ due \in Nat
  /\ handled \in Int

Init ==
  /\ now = 1
  /\ susp = InitSuspended
  /\ src = [m \in Modes |-> 0]
  /\ live = Source("day")
  /\ se = Dead
  /\ call = FALSE
  /\ sentinel = FALSE
  /\ forced = FALSE
  /\ upd = "idle"
  /\ pc = "down"
  /\ mem = Blank
  /\ disk = Blank
  /\ loc = NoLocal
  /\ bounds = [kills |-> 0, suspends |-> 0]
  /\ due = 0
  /\ handled = -1
-----------------------------------------------------------------------------
(***************************************************************************)
(* The machine and the user.                                               *)
(***************************************************************************)
Tick ==
  /\ now < Horizon
  /\ now' = now + 1
  /\ UNCHANGED <<stateVars, fileVars, histVars, se, susp, src, call, upd,
                 bounds>>

\* SafeEyes stops its core when the machine goes to sleep, which closes the
\* overlay, and schedules the next break when it wakes up; the plugin's dialog
\* stays.  A frozen daemon goes on where it was.
Suspend ==
  /\ "suspend" \in Events
  /\ pc \in SuspendPoints
  /\ bounds.suspends < MaxSuspends
  /\ bounds' = [bounds EXCEPT !.suspends = @ + 1]
  /\ \E d \in 1 .. Horizon - now :
       /\ now' = now + d
       /\ susp' = susp + d
  /\ se' = Cleared(se)
  /\ UNCHANGED <<stateVars, fileVars, histVars, src, call, upd>>

\* A kill between fopen(..., "w") and fclose leaves an empty state file.
Kill ==
  /\ pc \in KillPoints
  /\ bounds.kills < MaxKills
  /\ bounds' = [bounds EXCEPT !.kills = @ + 1]
  /\ pc' = "down"
  /\ mem' = Blank
  /\ loc' = NoLocal
  /\ disk' \in IF pc = "save" THEN {disk, Blank} ELSE {disk}
  /\ UNCHANGED <<fileVars, histVars, se, now, susp, src, call, upd>>

\* /tmp does not survive; /var/lib/cockblock does.
Reboot ==
  /\ "reboot" \in Events
  /\ pc = "down"
  /\ bounds.kills < MaxKills
  /\ bounds' = [bounds EXCEPT !.kills = @ + 1]
  /\ susp' = 0
  /\ se' = Dead
  /\ sentinel' = FALSE
  /\ call' = FALSE
  /\ upd' = "idle"
  /\ due' = 0
  /\ handled' = -1
  /\ UNCHANGED <<stateVars, live, forced, now, src>>

Call ==
  /\ "call" \in Events
  /\ call' = ~call
  /\ UNCHANGED <<stateVars, fileVars, histVars, se, now, susp, src, upd,
                 bounds>>

\* update.sh installs a new safeeyes.json or safeeyes-night.json.
EditSource ==
  /\ "edit" \in Events
  /\ \E m \in Modes :
       /\ src[m] < MaxRev
       /\ src' = [src EXCEPT ![m] = @ + 1]
  /\ UNCHANGED <<stateVars, fileVars, histVars, se, now, susp, call, upd,
                 bounds>>

\* The night section of update.sh: in night hours it seeds the configuration,
\* restarts SafeEyes with the break up, and leaves SE_FORCED_FLAG.
UpdateSeed ==
  /\ "update" \in Events
  /\ upd = "idle"
  /\ ModeAt(now) = "night"
  /\ live' = SeededAt(now)
  /\ upd' = "restart"
  /\ UNCHANGED <<stateVars, sentinel, forced, histVars, se, now, susp, src,
                 call, bounds>>

UpdateRestart ==
  /\ upd = "restart"
  /\ se' = Showing(Fresh(live), "short", live.short)
  /\ due' = 0
  /\ upd' = "flag"
  /\ UNCHANGED <<stateVars, fileVars, handled, now, susp, src, call, bounds>>

UpdateFlag ==
  /\ upd = "flag"
  /\ forced' = TRUE
  /\ upd' = "idle"
  /\ UNCHANGED <<stateVars, live, sentinel, histVars, se, now, susp, src,
                 call, bounds>>
-----------------------------------------------------------------------------
(***************************************************************************)
(* SafeEyes and its cb_startwork plugin.                                   *)
(***************************************************************************)
safeEyesOnly == <<stateVars, live, forced, worldVars, handled>>

Working == se.up /\ se.on /\ se.overlay = "none" /\ ~se.dialog

\* The scheduled break.
TakeBreak ==
  /\ Working
  /\ se' \in {Showing(se, "short", se.short)} \union
               IF se.mode = "day" THEN {Showing(se, "long", LongBreak)} ELSE {}
  /\ UNCHANGED <<safeEyesOnly, sentinel, due>>

\* The plugin is enabled in the day configuration only.
Gate(p) ==
  IF "startwork" \in Events /\ p.mode = "day"
  THEN se' = [p EXCEPT !.dialog = TRUE] /\ sentinel' = TRUE
  ELSE se' = p /\ UNCHANGED sentinel

EndBreak ==
  /\ se.overlay # "none"
  /\ now >= se.until
  /\ Gate(Cleared(se))
  /\ due' = 0
  /\ UNCHANGED safeEyesOnly

\* The user was away too long.
IdleGate ==
  /\ "startwork" \in Events
  /\ Working
  /\ se.mode = "day"
  /\ Gate(se)
  /\ UNCHANGED <<safeEyesOnly, due>>

PressStart ==
  /\ se.dialog
  /\ se' = [se EXCEPT !.dialog = FALSE]
  /\ sentinel' = FALSE
  /\ UNCHANGED <<safeEyesOnly, due>>

\* The user kills SafeEyes, or it crashes.
SafeEyesDies ==
  /\ "crash" \in Events
  /\ se.up
  /\ se' = Dead
  /\ due' = 0
  /\ UNCHANGED <<safeEyesOnly, sentinel>>

World ==
  \/ Tick \/ Suspend \/ Kill \/ Reboot \/ Call \/ EditSource
  \/ UpdateSeed \/ UpdateRestart \/ UpdateFlag
  \/ TakeBreak \/ EndBreak \/ IdleGate \/ PressStart \/ SafeEyesDies
-----------------------------------------------------------------------------
(***************************************************************************)
(* The daemon: safeeyes_run and the last lines of main.                    *)
(***************************************************************************)
daemonOnly == <<worldVars, handled>>

Goto(p)    == pc' = p /\ UNCHANGED <<disk>>
SaveThen(p) == pc' = "save" /\ loc' = [loc EXCEPT !.next = p] /\ UNCHANGED disk

\* se_write_state.
Save ==
  /\ pc = "save"
  /\ disk' = mem
  /\ pc' = loc.next
  /\ IF loc.next = "down" THEN mem' = Blank /\ loc' = NoLocal
                          ELSE UNCHANGED <<mem, loc>>
  /\ handled' = IF loc.next = "absorb" THEN mem.boot ELSE handled
  /\ UNCHANGED <<worldVars, fileVars, se, due>>

\* With the plugin's dialog up only the keep-alive runs.
BeginCycle ==
  /\ pc = "down"
  /\ mem' = disk
  /\ loc' = [NoLocal EXCEPT !.t0 = now, !.skip = sentinel]
  /\ Goto(IF sentinel THEN "end" ELSE "detect")
  /\ se' = IF sentinel /\ ~se.up THEN Fresh(live) ELSE se
  /\ UNCHANGED <<daemonOnly, fileVars, due>>

\* Mutant: a new value of the suspend counter is left to the next write.
MustPersist_Later == FALSE

\* A new value of the suspend counter is written before anything else.
MustPersist == susp # mem.boot

\* Growth of the suspend counter; or, when the counter is 0 or went back, the
\* time since the last cycle ended.
Detect ==
  LET slept   == IF mem.boot = 0 THEN 0 ELSE susp - mem.boot
      away    == loc.t0 - mem.last
      byClock == /\ susp = 0 \/ (mem.boot # 0 /\ susp < mem.boot)
                 /\ mem.last # 0
                 /\ away > RESUME_THRESHOLD
      found   == IF slept > SUSPEND_MIN THEN <<TRUE, slept>>
                 ELSE IF byClock THEN <<TRUE, away>> ELSE <<FALSE, 0>>
  IN
  /\ pc = "detect"
  /\ mem' = [mem EXCEPT !.boot = susp]
  /\ loc' = [loc EXCEPT !.resumed = found[1], !.next = "absorb",
                        !.long = found[2] > DAY_RESUME_RESTART]
  /\ IF MustPersist THEN Goto("save") /\ UNCHANGED handled
                    ELSE Goto("absorb") /\ handled' = susp
  /\ UNCHANGED <<worldVars, fileVars, se, due>>

\* Mutant: the mode is compared after the drift has been absorbed.
ModeChanged_AfterAbsorb == mem'.strict # ModeAt(loc.t0)

ModeChanged == mem.strict # ModeAt(loc.t0)

\* Compare hash and mode with those last seeded; a drift that update.sh has
\* already dealt with is only recorded.
Absorb ==
  LET m     == ModeAt(loc.t0)
      drift == Hash(m) # mem.hash
      taken == drift /\ forced
  IN
  /\ pc = "absorb"
  /\ mem' = IF taken
            THEN [mem EXCEPT !.hash = Hash(m), !.strict = m,
                             !.paused = @ /\ m = "day"]
            ELSE mem
  /\ loc' = [loc EXCEPT !.boundary = ModeChanged,
                        !.drift = drift /\ ~taken, !.hash = Hash(m),
                        !.next = "unlink"]
  /\ Goto(IF taken THEN "save" ELSE "seed")
  /\ UNCHANGED <<daemonOnly, fileVars, se, due>>

UnlinkForced ==
  /\ pc = "unlink"
  /\ forced' = FALSE
  /\ Goto("seed")
  /\ UNCHANGED <<daemonOnly, live, sentinel, mem, loc, se, due>>

Duration(s) == IF s.type = "long" THEN LongBreak ELSE ShortBreak

\* The hash was taken before the source is copied.
Seeded(s) == [s EXCEPT !.hash = loc.hash, !.strict = ModeAt(loc.t0)]

Seed ==
  /\ pc = "seed"
  /\ UNCHANGED <<daemonOnly, sentinel, forced, se, due>>

AtNight == ModeAt(loc.t0) = "night"

\* Mutant: a changed source always restarts SafeEyes.
PreserveTimer_Never == FALSE

\* Mutant: a running SafeEyes is not restarted by a boundary either.
PreserveTimer_Boundary == ~loc.resumed /\ se.up

\* day_drift_preserve: a day drift alone is only copied while SafeEyes runs.
PreserveTimer == ~loc.resumed /\ ~loc.boundary /\ ~AtNight /\ se.up

\* Mutant: the night resume does not force the break.
NightForce_Boundary == IF AtNight /\ ~loc.resumed THEN "-t" ELSE "none"

NightForce == IF AtNight THEN "-t" ELSE "none"

\* A night that was slept through in part, a new mode, a changed source: copy
\* the configuration and restart SafeEyes, at night with the break up.
Reseed ==
  /\ Seed
  /\ IF loc.resumed THEN AtNight ELSE loc.boundary \/ loc.drift
  /\ live' = SeededAt(loc.t0)
  /\ mem' = [Seeded(mem) EXCEPT !.paused = @ /\ ~AtNight]
  /\ loc' = [loc EXCEPT !.force = NightForce, !.next = "restore"]
  /\ Goto(IF PreserveTimer THEN "save" ELSE "quit")

TimeLeft ==
  Duration(mem) - IF mem.start > 0 THEN loc.t0 - mem.start ELSE 0

\* Mutant: the time left is not looked at.
BreakOver_Never == FALSE

BreakOver == TimeLeft <= 0

\* Mutant: the shortened duration is not remembered.
Shortened_Forgotten(s) == Seeded(s)

Shortened(s) == [Seeded(s) EXCEPT !.restore = TRUE]

\* A break cut short by the suspend: put it up for the time left.
ReimposeBreak ==
  /\ Seed
  /\ loc.resumed /\ ~AtNight
  /\ mem.active
  /\ IF BreakOver
     THEN /\ mem' = NoBreak(mem)
          /\ SaveThen("restore")
          /\ UNCHANGED live
     ELSE /\ live' = Patched("day", TimeLeft)
          /\ mem' = Shortened(mem)
          /\ loc' = [loc EXCEPT !.force = "-b", !.imposed = TRUE,
                                !.next = "restore"]
          /\ Goto("quit")

FreshInterval ==
  /\ Seed
  /\ loc.resumed /\ ~AtNight
  /\ ~mem.active
  /\ loc.long
  /\ live' = Source("day")
  /\ mem' = Seeded(mem)
  /\ loc' = [loc EXCEPT !.next = "restore"]
  /\ Goto("quit")

NothingToSeed ==
  /\ Seed
  /\ IF loc.resumed
     THEN ~AtNight /\ ~mem.active /\ ~loc.long
     ELSE ~loc.boundary /\ ~loc.drift
  /\ Goto("restore")
  /\ UNCHANGED <<live, mem, loc>>

\* safeeyes_quit: -q, then SIGTERM if the process is still there.  Neither
\* result is looked at: a process that outlives both ("deaf") goes on with
\* what it has loaded.
Quit ==
  /\ pc = "quit"
  /\ \/ se' = Dead
     \/ "deaf" \in Events /\ se' = [se EXCEPT !.survivor = se.up]
  /\ Goto("save")
  /\ UNCHANGED <<daemonOnly, fileVars, mem, loc, due>>

\* Mutant: the configuration is restored in the first cycle after the break
\* was put up.
RestoreDue_AnyTime ==
  /\ ~AtNight
  /\ mem.restore
  /\ se.up
  /\ ~loc.imposed
  /\ ~sentinel

\* Mutant: a break that is no longer recorded never counts as over.
RestoreDue_NeedsStart ==
  /\ ~AtNight
  /\ mem.restore
  /\ se.up
  /\ ~loc.imposed
  /\ mem.start > 0 /\ loc.t0 - mem.start >= Duration(mem)
  /\ ~sentinel

\* Put the real day configuration back once the shortened break is over.
RestoreDue ==
  LET elapsed == IF mem.start > 0 THEN loc.t0 - mem.start ELSE Duration(mem)
  IN  /\ ~AtNight
      /\ mem.restore
      /\ se.up
      /\ ~loc.imposed
      /\ elapsed >= Duration(mem)
      /\ ~sentinel

RestoreConfig ==
  /\ pc = "restore"
  /\ IF RestoreDue
     THEN /\ live' = Source("day")
          /\ mem' = [NoBreak(mem) EXCEPT !.hash = loc.hash,
                                         !.restore = FALSE]
          /\ loc' = [loc EXCEPT !.imposed = TRUE, !.next = "launch"]
          /\ Goto("quit")
     ELSE /\ Goto("launch")
          /\ UNCHANGED <<live, mem, loc>>
  /\ UNCHANGED <<daemonOnly, sentinel, forced, se, due>>

KeepAlive ==
  /\ pc = "launch"
  /\ se' = IF se.up THEN se ELSE Fresh(live)
  /\ Goto("force")
  /\ UNCHANGED <<daemonOnly, fileVars, mem, loc, due>>

\* -t or -b, retried until accepted; "deaf" if it never is.
ForceBreak ==
  /\ pc = "force"
  /\ \/ /\ loc.force # "none" /\ se.up
        /\ se' = Showing(se, "short", se.short)
     \/ /\ loc.force = "none" \/ ~se.up \/ "deaf" \in Events
        /\ UNCHANGED se
  /\ Goto("av")
  /\ UNCHANGED <<daemonOnly, fileVars, mem, loc, due>>

\* Mutant: -e is not sent.
Switched_NoEnable(p) == IF call THEN [Cleared(p) EXCEPT !.on = FALSE] ELSE p

\* SafeEyes after -d or -e.
Switched(p) ==
  IF call THEN [Cleared(p) EXCEPT !.on = FALSE] ELSE [p EXCEPT !.on = TRUE]

\* Mutant: the switch is not written to the state file.
SwitchForCall_NotSaved ==
  /\ pc = "av"
  /\ ~AtNight /\ se.up
  /\ call # mem.paused
  /\ se' = Switched(se)
  /\ due' = IF call THEN 0 ELSE due
  /\ mem' = [mem EXCEPT !.paused = call]
  /\ Goto("track")
  /\ UNCHANGED <<daemonOnly, fileVars, loc>>

\* Day only: -d when a call has begun, -e when it is over.  The exit code of
\* the command is not looked at ("deaf").
SwitchForCall ==
  /\ pc = "av"
  /\ ~AtNight /\ se.up
  /\ call # mem.paused
  /\ \/ /\ se' = Switched(se)
        /\ due' = IF call THEN 0 ELSE due
     \/ "deaf" \in Events /\ UNCHANGED <<se, due>>
  /\ mem' = [mem EXCEPT !.paused = call]
  /\ SaveThen("track")
  /\ UNCHANGED <<daemonOnly, fileVars>>

\* "blink": cb_av_check.py fails.
NoSwitch ==
  /\ pc = "av"
  /\ \/ AtNight \/ ~se.up
     \/ call = mem.paused
     \/ "blink" \in Events
  /\ Goto("track")
  /\ UNCHANGED <<daemonOnly, fileVars, se, due, mem, loc>>

\* What break_status may answer: with "blink" the window list misses the
\* overlay, or the type of a long break is not known.
Seen ==
  {se.overlay} \union
  IF "blink" \in Events
  THEN {"none"} \union {IF se.overlay = "none" THEN "none" ELSE "short"}
  ELSE {}

TrackBreak ==
  /\ pc = "track"
  /\ \E seen \in Seen :
       LET started == seen # "none" /\ ~mem.active
           ended   == seen = "none" /\ mem.active
       IN
       IF ~AtNight /\ se.up /\ ~loc.imposed /\ (started \/ ended)
       THEN /\ mem' = IF started
                      THEN [mem EXCEPT !.active = TRUE, !.type = seen,
                                       !.start = loc.t0]
                      ELSE NoBreak(mem)
            /\ due' = IF started THEN loc.t0 + Duration(mem') ELSE due
            /\ SaveThen("end")
       ELSE /\ Goto("end")
            /\ UNCHANGED <<mem, loc, due>>
  /\ UNCHANGED <<daemonOnly, fileVars, se>>

\* After pause_run main reads the state again and stamps the cycle.
EndCycle ==
  /\ pc = "end"
  /\ mem' = [disk EXCEPT !.last = now]
  /\ SaveThen("down")
  /\ UNCHANGED <<daemonOnly, fileVars, se, due>>

Daemon ==
  \/ BeginCycle \/ Detect \/ Absorb \/ UnlinkForced
  \/ Reseed \/ ReimposeBreak \/ FreshInterval \/ NothingToSeed
  \/ Quit \/ RestoreConfig \/ KeepAlive \/ ForceBreak \/ SwitchForCall
  \/ NoSwitch \/ TrackBreak \/ EndCycle \/ Save

Next == World \/ Daemon

Spec == Init /\ [][Next]_vars

\* systemd keeps restarting the daemon and each cycle runs to its end.
FairSpec == Spec /\ WF_vars(Daemon) /\ WF_vars(Tick)
-----------------------------------------------------------------------------
(***************************************************************************)
(* Properties of the state at the end of a cycle that was not skipped for  *)
(* the plugin's dialog.                                                    *)
(***************************************************************************)
CycleDone == pc = "end" /\ ~loc.skip

\* No suspend since the one, if any, that this cycle dealt with.
Awake == susp = disk.boot

\* A SafeEyes that has not outlived a quit: safeeyes_quit (650) takes no notice
\* of one that does, and nothing ends it later.
Replaced == se.up /\ ~se.survivor

\* Whatever was killed, restarted, edited or slept through in between, a cycle
\* ends with the configuration of its hour recorded and installed, and loaded
\* by SafeEyes unless that outlived its quit; only the cycle that recovers from
\* a suspend may leave a change of mode, of the record or of all three, to the
\* next one.
ModeEnforced ==
  CycleDone /\ ModeAt(now) = ModeAt(loc.t0) =>
    /\ ~loc.resumed => mem.strict = ModeAt(loc.t0) /\ live.mode = mem.strict
    /\ mem.strict # "unknown" => live.mode \in {mem.strict, ModeAt(loc.t0)}
    /\ Replaced => se.mode = live.mode

\* "closing the lid mid-break would escape it": a day break the daemon has
\* recorded is up at the end of every cycle until its deadline, whatever
\* suspends cut it short, unless a call or the user's kill ended it.
BreakServed ==
  CycleDone /\ Awake /\ ModeAt(loc.t0) = "day" /\ se.up /\ now < due
    => se.overlay # "none"

\* "a single strict 8h break that blanks the screen for the whole night": a
\* cycle of the night ends with the overlay up.
NightBlocked ==
  CycleDone /\ Awake /\ ModeAt(loc.t0) = "night" /\ ModeAt(now) = "night"
    => se.overlay # "none"

\* The restart that puts the configuration back never comes before the deadline
\* of the break on record, which it was shortened for: neither in the cycle that
\* imposes it again, nor after a second suspend (1195-1208).  A newer break
\* that no cycle has recorded yet is not spared (compare 1188-1189).
RestoreSparesRecorded ==
  pc = "quit" /\ loc.next = "launch" /\ se.overlay # "none" => now >= due

\* A shortened break duration, in the file or in a SafeEyes that did not outlive
\* its quit, is on record as one that a later cycle has to undo.
ShortenedIsRecorded ==
  /\ pc \in {"down", "end"}
  /\ \/ live.mode = "day" /\ live.short # ShortBreak
     \/ Replaced /\ se.mode = "day" /\ se.short # ShortBreak
  => disk.restore

\* SafeEyes is disabled only while the daemon remembers having done it.
DisabledIsRecorded ==
  pc \in {"down", "end"} /\ se.up /\ ~se.on => disk.paused

\* A suspend between two detections of one boot is found by the second, and
\* nothing else is taken for one.
ResumeExact ==
  [][pc = "detect" /\ loc'.next = "absorb" /\ handled # -1
       => (loc'.resumed <=> susp - handled > SUSPEND_MIN)]_vars

\* SafeEyes is not left disabled after the call.
Reenabled ==
  se.up /\ ~se.on /\ ~call ~> ~se.up \/ se.on \/ call

\* A shortened duration does not outlive its break (whose deadline may lie
\* past the end of the modelled time).
RestoreHappens ==
  disk.restore ~> ~disk.restore \/ disk.start + Duration(disk) > Horizon
=============================================================================
