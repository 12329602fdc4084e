----------------------------- MODULE BrowserSync -----------------------------
(***************************************************************************)
(* What cockblockd does to the two browsers it manages: the sync of a      *)
(* normal cycle (policies, LeechBlock kept enabled, LeechBlock rules       *)
(* mirrored from Firefox to Vivaldi), swap_unblocked while a window is     *)
(* open and swap_blocking at its end.                                      *)
(*                                                                         *)
(* A browser reads its policies when it starts, so a copied file means     *)
(* nothing until the browser was stopped and started.  The daemon signals  *)
(* it, waits TERM at most, and relaunches it; all of this in a process     *)
(* that systemd kills RUNTIME_MAX after its start.                         *)
(*                                                                         *)
(* Time is counted in steps of one TERM.  It passes in the poll loop, in a *)
(* wait that times out and at SlowPoints.  Instants in the past are kept   *)
(* as ages that stop at the value where nothing distinguishes them, so the *)
(* state is finite and no bound stops the clock.                           *)
(***************************************************************************)
EXTENDS Integers

CONSTANTS
  TERM, RUNTIME_MAX, CYCLE_BUDGET, UNBLOCK_SECS, VV_RESTART_COOLDOWN,
  Stubborn,     \* browsers that may survive SIGTERM, or that it may not reach
  InCgroup,     \* browsers that stay in the unit's cgroup when launched
  Lag,          \* a launched browser takes time before its comm shows
  Persistent,   \* disable_reasons survives a restart of Vivaldi
  Events,       \* what users and update.sh do: see the actions
  StartPoints,  \* where a user may start a browser
  SlowPoints,   \* where a helper may take a unit of time
  KillPoints,   \* where SIGTERM may come before RUNTIME_MAX
  MaxKills,     \* bound: such kills
  MaxFails,     \* bound: failing helpers
  MaxPauses     \* bound: challenges (MAX_PAUSES_DAY and the lockout, coarsely)

Browsers == {"firefox", "vivaldi"}

\* Control points: the normal sync, swap_unblocked, swap_blocking, pause_run.
SyncPC  == {"addon", "addonWrite", "compare", "extension", "restart",
            "launch", "touch", "drift", "driftSync", "driftLaunch",
            "driftTouch"}
SwapPC  == {"swap", "swapTerm", "swapLaunch"}
ClosePC == {"closeTerm", "closeCopy", "closeSets", "closeRules", "closeLaunch"}
PC == {"down", "poll", "save"} \union SyncPC \union SwapPC \union ClosePC

Units == 0..RUNTIME_MAX

ASSUME ConstantsAssumption ==
  /\ TERM \in Nat \ {0}
  /\ RUNTIME_MAX \in Nat \ {0}
  /\ CYCLE_BUDGET \in Nat
  /\ UNBLOCK_SECS \in Nat
  /\ VV_RESTART_COOLDOWN \in Nat
  /\ Stubborn \subseteq Browsers
  /\ InCgroup \subseteq Browsers
  /\ Lag \in BOOLEAN
  /\ Persistent \in BOOLEAN
  /\ StartPoints \subseteq PC
  /\ SlowPoints \subseteq PC \ {"down"}
  /\ KillPoints \subseteq PC \ {"down"}
  /\ MaxKills \in Nat
  /\ MaxFails \in Nat
  /\ MaxPauses \in Nat

VARIABLES
  pc,      \* control point of the daemon, "down" between two processes
  loc,     \* its local variables
  mem,     \* the fields of struct PauseState that matter here
  disk,    \* what read_state would return
  file,    \* policy file of each browser under /etc
  proc,    \* the browsers
  addon,   \* LeechBlock is active in Firefox's extensions.json
  vvAddon, \* Vivaldi's disable_reasons is empty
  active,  \* a non-empty LeechBlock set is active in Firefox
  drift,   \* Vivaldi's LeechBlock rules differ from Firefox's
  clock,   \* elapsed: of the process; left: of the window; age: of VV_RESTART_TS
  spent,   \* what the bounds count
  gap,     \* history: when the daemon last restarted Vivaldi, and whether bare
  lost     \* history: browsers whose restart was lost, see Overlooks

vars == <<pc, loc, mem, disk, file, proc, addon, vvAddon, active, drift,
          clock, spent, gap, lost>>
browsers == <<proc, lost>>
leech    == <<addon, vvAddon, active, drift>>
-----------------------------------------------------------------------------
(***************************************************************************)
(* Types.  A policy file is the blocking one (that below /opt), the        *)
(* unblocked one, an older version of the blocking one, or a new one that  *)
(* is not below /opt yet; "pol" is what a process has loaded.  Firefox's   *)
(* two style sheets are handled as its policies are and stand for the same *)
(* file.                                                                   *)
(***************************************************************************)
Policies == {"blocking", "unblocked", "old", "new"}

Process == [st : {"down", "starting", "up"}, pol : Policies, own : BOOLEAN]

Down == [st |-> "down", pol |-> "blocking", own |-> FALSE]

\* b: the browser being handled; was, gone: what firefox_running and
\* term_and_wait said; after: where the caller of swap_unblocked goes on;
\* begun: when pause_run started; synced: this cycle blocked the browsers.
Local ==
  [b : Browsers, was : [Browsers -> BOOLEAN], gone : [Browsers -> BOOLEAN],
   killed : BOOLEAN, restart : BOOLEAN, after : {"poll", "save"},
   begun : Units, synced : BOOLEAN]

Idle ==
  [b |-> "firefox", was |-> [x \in Browsers |-> FALSE],
   gone |-> [x \in Browsers |-> TRUE], killed |-> FALSE, restart |-> FALSE,
   after |-> "poll", begun |-> 0, synced |-> FALSE]

\* snap: ff_active of a representative set, -1 unknown.
PauseState == [phase : {0, 1, 2}, snap : {-1, 0, 1}]

TypeOK ==
  /\ pc \in PC
  /\ loc \in Local
  /\ mem \in PauseState
  /\ disk \in PauseState
  /\ file \in [Browsers -> Policies]
  /\ proc \in [Browsers -> Process]
  /\ {addon, vvAddon, active, drift} \subseteq BOOLEAN
  /\ clock \in [elapsed : Units, left : 0..UNBLOCK_SECS,
                age : 0..VV_RESTART_COOLDOWN]
  /\ spent \in [kills : 0..MaxKills, fails : 0..MaxFails, pauses : 0..MaxPauses]
  /\ gap \in [ago : 0..VV_RESTART_COOLDOWN, bare : BOOLEAN]
  /\ lost \subseteq Browsers

Init ==
  /\ pc = "down"
  /\ loc = Idle
  /\ mem = [phase |-> 0, snap |-> -1]
  /\ disk = [phase |-> 0, snap |-> -1]
  /\ file = [b \in Browsers |-> "blocking"]
  /\ proc = [b \in Browsers |-> Down]
  /\ addon = TRUE
  /\ vvAddon = TRUE
  /\ active = TRUE
  /\ drift = FALSE
  /\ clock = [elapsed |-> 0, left |-> 0, age |-> VV_RESTART_COOLDOWN]
  /\ spent = [kills |-> 0, fails |-> 0, pauses |-> 0]
  /\ gap = [ago |-> VV_RESTART_COOLDOWN, bare |-> FALSE]
  /\ lost = {}
-----------------------------------------------------------------------------
(***************************************************************************)
(* Time.                                                                   *)
(***************************************************************************)
AtMost(n, bound)  == IF n > bound THEN bound ELSE n
AtLeast(n, bound) == IF n < bound THEN bound ELSE n

After(n) ==
  [elapsed |-> AtMost(clock.elapsed + n, RUNTIME_MAX),
   left    |-> AtLeast(clock.left - n, 0),
   age     |-> AtMost(clock.age + n, VV_RESTART_COOLDOWN)]

Elapse(n) ==
  /\ clock' = After(n)
  /\ gap' = [gap EXCEPT !.ago = AtMost(@ + n, VV_RESTART_COOLDOWN)]

NoTime == UNCHANGED <<clock, gap>>

\* The process runs and has not reached RuntimeMaxSec.
Alive == pc # "down" /\ clock.elapsed < RUNTIME_MAX

\* last == 0 || ago >= VV_RESTART_COOLDOWN; an absent file is as old as can be.
CooledDown == clock.age = VV_RESTART_COOLDOWN
-----------------------------------------------------------------------------
(***************************************************************************)
(* Browsers.                                                               *)
(***************************************************************************)
Running(b) == proc[b].st = "up"

(***************************************************************************)
(* lost: the running browsers without the current policies that no sync    *)
(* will restart for them, because                                          *)
(*   - the process ended between the copy and the restart it calls for,    *)
(*   - they could not be stopped, or were up again before the wait was     *)
(*     over,                                                               *)
(*   - they were started after it was looked whether they run,             *)
(*   - somebody else has put the current file in place.                    *)
(* A browser leaves it when it ends.                                       *)
(***************************************************************************)
Overlooks(bs) ==
  lost' = {b \in lost \union bs : proc'[b].st = "up" /\ proc'[b].pol # "blocking"}

\* The file of b was copied and b has not been stopped yet.
RestartDue(b) ==
  /\ pc \in {"extension", "restart"}
  /\ b = loc.b
  /\ loc.restart /\ loc.was[b] /\ ~loc.killed

\* Where a browser that comes up may not be noticed.
Unnoticed == pc \in SyncPC \union {"closeCopy"}

\* A process that reads its policies now.
Loaded(b, own) == [st |-> "up", pol |-> file[b], own |-> own]

\* Launching a browser that runs changes nothing.
Launched(b, own) ==
  CASE proc[b].st # "down" -> proc[b]
    [] Lag   -> [Down EXCEPT !.st = "starting", !.own = own]
    [] ~Lag  -> Loaded(b, own)

\* The force-install policy clears disable_reasons when Vivaldi starts.
Starts(b, own) ==
  /\ proc' = [proc EXCEPT ![b] = Launched(b, own)]
  /\ Overlooks(IF Unnoticed THEN {b} ELSE {})
  /\ vvAddon' = (vvAddon \/ (b = "vivaldi" /\ ~Persistent))
  /\ UNCHANGED <<addon, active, drift>>

\* What term_and_wait may find: every process of that name gets one SIGTERM,
\* then it waits until none is left.  It fails at once when a signal is
\* refused, after TERM when the browser survives or the user starts it again.
Outcomes(b) ==
  IF ~Running(b) THEN {[gone |-> TRUE, proc |-> proc[b], took |-> 0]}
  ELSE {[gone |-> TRUE, proc |-> Down, took |-> 0]}
       \union {[gone |-> FALSE, proc |-> proc[b], took |-> n] :
                 n \in IF b \in Stubborn THEN {0, TERM} ELSE {}}
       \union {[gone |-> FALSE, proc |-> Loaded(b, FALSE), took |-> n] :
                 n \in IF pc \in StartPoints THEN {TERM} ELSE {}}

TermAndWait(b, o) ==
  /\ o \in Outcomes(b)
  /\ proc' = [proc EXCEPT ![b] = o.proc]
  /\ Overlooks(IF o.gone THEN {} ELSE {b})
  /\ Elapse(o.took)

\* Vivaldi has been restarted; bare: nobody stamps it.
Restarted(b, bare) ==
  /\ gap' = IF b = "vivaldi" THEN [ago |-> 0, bare |-> bare] ELSE gap
  /\ UNCHANGED clock
-----------------------------------------------------------------------------
(***************************************************************************)
(* The process.                                                            *)
(***************************************************************************)
\* systemd ends a cycle with SIGTERM to whatever is left in the unit's cgroup.
EndProcess ==
  /\ pc' = "down"
  /\ loc' = Idle
  /\ mem' = [phase |-> 0, snap |-> -1]
  /\ clock' = [clock EXCEPT !.elapsed = 0]
  /\ proc' = [b \in Browsers |-> IF proc[b].own /\ b \notin Stubborn THEN Down
                              ELSE proc[b]]
  /\ Overlooks({b \in Browsers : RestartDue(b)})
  /\ gap' = [gap EXCEPT !.bare = @ \/ pc \in {"touch", "driftTouch"}]
  /\ UNCHANGED <<disk, file, leech>>

Kill ==
  /\ pc \in KillPoints
  /\ spent.kills < MaxKills
  /\ EndProcess
  /\ spent' = [spent EXCEPT !.kills = @ + 1]

RuntimeMax ==
  /\ pc # "down"
  /\ clock.elapsed = RUNTIME_MAX
  /\ EndProcess
  /\ UNCHANGED spent

ExitCycle ==
  /\ pc = "poll"
  /\ Alive
  /\ clock.elapsed - loc.begun >= CYCLE_BUDGET
  /\ EndProcess
  /\ UNCHANGED spent

SlowHelper ==
  /\ pc \in SlowPoints
  /\ Alive
  /\ Elapse(1)
  /\ UNCHANGED <<pc, loc, mem, disk, file, browsers, leech, spent>>

\* read_state; was_running; then by phase.
StartCycle ==
  /\ pc = "down"
  /\ mem' = disk
  /\ loc' = [Idle EXCEPT !.was["firefox"] = Running("firefox")]
  /\ pc' = CASE disk.phase = 0 -> "addon"
             [] disk.phase = 1 -> "poll"
             [] disk.phase = 2 -> "swap"
  /\ NoTime
  /\ UNCHANGED <<disk, file, browsers, leech, spent>>
-----------------------------------------------------------------------------
(***************************************************************************)
(* The sync of a normal cycle: Firefox, then Vivaldi, then the rules.      *)
(***************************************************************************)
Step(at, next) ==
  /\ pc = at
  /\ Alive
  /\ pc' = next
  /\ UNCHANGED <<mem, disk, spent>>

AddonActive ==
  /\ Step("addon", "compare")
  /\ addon
  /\ NoTime
  /\ UNCHANGED <<loc, file, browsers, leech>>

\* extensions.json is rewritten after Firefox was told to end ...
AddonDisabled ==
  /\ Step("addon", "addonWrite")
  /\ ~addon
  /\ \E o \in Outcomes("firefox") :
       /\ TermAndWait("firefox", o)
       /\ loc' = [loc EXCEPT !.gone["firefox"] = o.gone, !.killed = TRUE,
                             !.restart = TRUE]
  /\ UNCHANGED <<file, leech>>

\* ... because one that runs may write it again.
AddonWrite ==
  /\ Step("addonWrite", "compare")
  /\ addon' \in IF proc["firefox"].st = "down" THEN {TRUE} ELSE BOOLEAN
  /\ NoTime
  /\ UNCHANGED <<loc, file, browsers, vvAddon, active, drift>>

\* Mutant: the copy forgets that a restart is due.
Compare_NoRestart ==
  /\ Step("compare", IF loc.b = "firefox" THEN "restart" ELSE "extension")
  /\ file' = [file EXCEPT ![loc.b] = "blocking"]
  /\ loc' = IF loc.b = "vivaldi" THEN [loc EXCEPT !.was[loc.b] = Running(loc.b)]
            ELSE loc
  /\ NoTime
  /\ UNCHANGED <<browsers, leech>>

\* files_equal, copy_file; for Vivaldi the process is looked at first.
Compare ==
  /\ Step("compare", IF loc.b = "firefox" THEN "restart" ELSE "extension")
  /\ file' = [file EXCEPT ![loc.b] = "blocking"]
  /\ loc' = [loc EXCEPT !.restart = @ \/ file[loc.b] # "blocking",
                        !.was[loc.b] = IF loc.b = "vivaldi" THEN Running(loc.b)
                                       ELSE @]
  /\ NoTime
  /\ UNCHANGED <<browsers, leech>>

\* Mutant: a disabled extension restarts Vivaldi in every cycle.
Extension_NoCooldown ==
  /\ Step("extension", "restart")
  /\ loc' = [loc EXCEPT !.restart = @ \/ ~vvAddon]
  /\ NoTime
  /\ UNCHANGED <<file, browsers, leech>>

Extension ==
  /\ Step("extension", "restart")
  /\ loc' = [loc EXCEPT !.restart = @ \/ (~vvAddon /\ CooledDown)]
  /\ NoTime
  /\ UNCHANGED <<file, browsers, leech>>

\* The rest of a browser's section, and what comes after it.
AfterBrowser == IF loc.b = "firefox" THEN "compare" ELSE "drift"
NextBrowser(l) == [l EXCEPT !.b = "vivaldi", !.restart = FALSE, !.killed = FALSE]

NoRestart ==
  /\ Step("restart", AfterBrowser)
  /\ \/ ~loc.restart
     \/ ~loc.was[loc.b]
     \/ loc.killed /\ ~loc.gone[loc.b]
  /\ loc' = NextBrowser(loc)
  /\ NoTime
  /\ UNCHANGED <<file, browsers, leech>>

AlreadyKilled ==
  /\ Step("restart", "launch")
  /\ loc.restart /\ loc.was[loc.b] /\ loc.killed /\ loc.gone[loc.b]
  /\ NoTime
  /\ UNCHANGED <<loc, file, browsers, leech>>

Restart ==
  /\ loc.restart /\ loc.was[loc.b] /\ ~loc.killed
  /\ \E o \in Outcomes(loc.b) :
       /\ Step("restart", IF o.gone THEN "launch" ELSE AfterBrowser)
       /\ TermAndWait(loc.b, o)
       /\ loc' = IF o.gone THEN loc ELSE NextBrowser(loc)
  /\ UNCHANGED <<file, leech>>

Launch ==
  /\ Step("launch", IF loc.b = "firefox" THEN "compare" ELSE "touch")
  /\ Starts(loc.b, loc.b \in InCgroup)
  /\ Restarted(loc.b, FALSE)
  /\ loc' = NextBrowser(loc)
  /\ UNCHANGED file

Touch ==
  /\ \/ Step("touch", "drift") /\ UNCHANGED loc
     \/ Step("driftTouch", "poll") /\ loc' = [Idle EXCEPT !.begun = clock.elapsed,
                                                         !.synced = TRUE]
  /\ clock' = [clock EXCEPT !.age = 0]
  /\ UNCHANGED <<file, browsers, leech, gap>>
-----------------------------------------------------------------------------
\* A python helper gives no answer or a wrong exit status.
HelperFails ==
  /\ spent.fails < MaxFails
  /\ spent' = [spent EXCEPT !.fails = @ + 1]

\* pause_run begins; its caller's locals are gone.
Polling(synced) == [Idle EXCEPT !.begun = clock.elapsed, !.synced = synced]

\* --diff fails, there is no drift, or the cooldown is on.
DriftIgnored ==
  /\ pc = "drift" /\ Alive
  /\ \/ HelperFails
     \/ ~drift /\ UNCHANGED spent
     \/ drift /\ Running("vivaldi") /\ ~CooledDown /\ UNCHANGED spent
  /\ pc' = "poll"
  /\ loc' = Polling(TRUE)
  /\ NoTime
  /\ UNCHANGED <<mem, disk, file, browsers, leech>>

\* Mutant: rules are only mirrored while Vivaldi runs.
DriftStopped_Ignored ==
  /\ pc = "drift" /\ Alive
  /\ drift
  /\ ~Running("vivaldi")
  /\ pc' = "poll"
  /\ loc' = Polling(TRUE)
  /\ NoTime
  /\ UNCHANGED <<mem, disk, file, browsers, leech, spent>>

\* The helper needs Vivaldi's LevelDB lock: it fails when Vivaldi holds it
\* (for one that is still starting, a failure is counted).
Mirror ==
  \/ /\ ~Running("vivaldi")
     /\ drift' = FALSE
     /\ UNCHANGED spent
  \/ /\ Running("vivaldi")
     /\ UNCHANGED <<drift, spent>>
  \/ /\ HelperFails
     /\ UNCHANGED drift

DriftStopped ==
  /\ pc = "drift" /\ Alive
  /\ drift
  /\ ~Running("vivaldi")
  /\ Mirror
  /\ pc' = "poll"
  /\ loc' = Polling(TRUE)
  /\ NoTime
  /\ UNCHANGED <<mem, disk, file, browsers, addon, vvAddon, active>>

DriftRunning ==
  /\ drift
  /\ Running("vivaldi")
  /\ CooledDown
  /\ \E o \in Outcomes("vivaldi") :
       /\ Step("drift", IF o.gone THEN "driftSync" ELSE "poll")
       /\ TermAndWait("vivaldi", o)
       /\ loc' = IF o.gone THEN loc
                 ELSE [Polling(TRUE) EXCEPT !.begun = After(o.took).elapsed]
  /\ UNCHANGED <<file, leech>>

DriftSync ==
  /\ pc = "driftSync" /\ Alive
  /\ Mirror
  /\ pc' = "driftLaunch"
  /\ NoTime
  /\ UNCHANGED <<loc, mem, disk, file, browsers, addon, vvAddon, active>>

DriftLaunch ==
  /\ Step("driftLaunch", "driftTouch")
  /\ Starts("vivaldi", "vivaldi" \in InCgroup)
  /\ Restarted("vivaldi", FALSE)
  /\ UNCHANGED <<loc, file>>
-----------------------------------------------------------------------------
(***************************************************************************)
(* swap_unblocked: at the grant, and in every cycle of the window.         *)
(***************************************************************************)
\* Neither it nor swap_blocking touches VV_RESTART_TS.
\* The next browser, or back to the caller: main goes on with pause_run, the
\* handler of the grant with write_state.
SwapDone(n) ==
  IF loc.b = "firefox" THEN /\ pc' = "swap"
                            /\ loc' = [loc EXCEPT !.b = "vivaldi"]
  ELSE /\ pc' = loc.after
       /\ loc' = [loc EXCEPT !.b = "firefox",
                             !.begun = IF loc.after = "poll"
                                       THEN After(n).elapsed ELSE @]

SwapCopy ==
  /\ pc = "swap" /\ Alive
  /\ file' = [file EXCEPT ![loc.b] = "unblocked"]
  /\ IF file[loc.b] # "unblocked"
     THEN pc' = "swapTerm" /\ UNCHANGED loc
     ELSE SwapDone(0)
  /\ NoTime
  /\ UNCHANGED <<mem, disk, browsers, leech, spent>>

SwapTerm ==
  /\ pc = "swapTerm" /\ Alive
  /\ \/ /\ ~Running(loc.b)
        /\ NoTime
        /\ SwapDone(0)
        /\ UNCHANGED browsers
     \/ /\ Running(loc.b)
        /\ \E o \in Outcomes(loc.b) :
             /\ TermAndWait(loc.b, o)
             /\ IF o.gone THEN pc' = "swapLaunch" /\ UNCHANGED loc ELSE SwapDone(o.took)
  /\ UNCHANGED <<mem, disk, file, leech, spent>>

SwapLaunch ==
  /\ pc = "swapLaunch" /\ Alive
  /\ Starts(loc.b, loc.b \in InCgroup)
  /\ Restarted(loc.b, TRUE)
  /\ SwapDone(0)
  /\ UNCHANGED <<mem, disk, file, spent>>
-----------------------------------------------------------------------------
(***************************************************************************)
(* swap_blocking: stop Firefox, copy, restore its sets; stop Vivaldi, copy,*)
(* mirror the rules; then relaunch what ran and went.                      *)
(***************************************************************************)
\* Mutant: only Firefox is restarted.
CloseTerm_FirefoxOnly ==
  /\ Step("closeTerm", "closeCopy")
  /\ IF loc.b = "firefox"
     THEN \E o \in Outcomes(loc.b) :
            /\ TermAndWait(loc.b, o)
            /\ loc' = [loc EXCEPT !.was[loc.b] = Running(loc.b),
                                  !.gone[loc.b] = o.gone]
     ELSE NoTime /\ UNCHANGED <<browsers, loc>>
  /\ UNCHANGED <<file, leech>>

CloseTerm ==
  /\ Step("closeTerm", "closeCopy")
  /\ \E o \in Outcomes(loc.b) :
       /\ TermAndWait(loc.b, o)
       /\ loc' = [loc EXCEPT !.was[loc.b] = Running(loc.b),
                             !.gone[loc.b] = o.gone]
  /\ UNCHANGED <<file, leech>>

CloseCopy ==
  /\ Step("closeCopy", IF loc.b = "firefox" THEN "closeSets" ELSE "closeRules")
  /\ file' = [file EXCEPT ![loc.b] = "blocking"]
  /\ NoTime
  /\ UNCHANGED <<loc, browsers, leech>>

\* Mutant: sets are restored only if Firefox ran when the window ended.
CloseSets_OnlyIfRan ==
  /\ Step("closeSets", "closeTerm")
  /\ active' = (active \/ (mem.snap = 1 /\ loc.was["firefox"]))
  /\ loc' = [loc EXCEPT !.b = "vivaldi"]
  /\ NoTime
  /\ UNCHANGED <<file, browsers, addon, vvAddon, drift>>

\* A set that was active at the grant is active again.  The helper may fail;
\* what it writes under a running Firefox may be lost.
CloseSets ==
  /\ pc = "closeSets" /\ Alive
  /\ pc' = "closeTerm"
  /\ loc' = [loc EXCEPT !.b = "vivaldi"]
  /\ \/ /\ active' = (active \/ mem.snap = 1)
        /\ UNCHANGED spent
     \/ /\ Running("firefox")
        /\ UNCHANGED <<active, spent>>
     \/ /\ HelperFails
        /\ UNCHANGED active
  /\ NoTime
  /\ UNCHANGED <<mem, disk, file, browsers, addon, vvAddon, drift>>

CloseRules ==
  /\ pc = "closeRules" /\ Alive
  /\ pc' = "closeLaunch"
  /\ Mirror
  /\ loc' = [loc EXCEPT !.b = "firefox"]
  /\ NoTime
  /\ UNCHANGED <<mem, disk, file, browsers, addon, vvAddon, active>>

Relaunch ==
  IF loc.was[loc.b] /\ loc.gone[loc.b]
  THEN Starts(loc.b, loc.b \in InCgroup) /\ Restarted(loc.b, TRUE)
  ELSE NoTime /\ UNCHANGED <<browsers, leech>>

\* Mutant: the window's end is carried out and not recorded.
CloseLaunch_KeepPhase ==
  /\ pc = "closeLaunch" /\ Alive
  /\ Relaunch
  /\ IF loc.b = "firefox"
     THEN /\ loc' = [loc EXCEPT !.b = "vivaldi"]
          /\ UNCHANGED pc
     ELSE /\ pc' = "save"
          /\ loc' = [Idle EXCEPT !.begun = loc.begun, !.synced = TRUE]
  /\ UNCHANGED <<mem, disk, file, spent>>

\* Relaunch the browsers; then phase = 0.
CloseLaunch ==
  /\ pc = "closeLaunch" /\ Alive
  /\ Relaunch
  /\ IF loc.b = "firefox"
     THEN /\ loc' = [loc EXCEPT !.b = "vivaldi"]
          /\ UNCHANGED <<pc, mem>>
     ELSE /\ pc' = "save"
          /\ mem' = [mem EXCEPT !.phase = 0]
          /\ loc' = [Idle EXCEPT !.begun = loc.begun, !.synced = TRUE]
  /\ UNCHANGED <<disk, file, spent>>
-----------------------------------------------------------------------------
(***************************************************************************)
(* pause_run.  The challenge itself is PauseChallenge's; here it starts,   *)
(* fails, or is granted.                                                   *)
(***************************************************************************)
Poll ==
  /\ pc = "poll"
  /\ Alive
  /\ clock.elapsed - loc.begun < CYCLE_BUDGET

WindowOver == mem.phase = 2 /\ clock.left = 0

PollTick ==
  /\ Poll
  /\ ~WindowOver
  /\ Elapse(1)
  /\ UNCHANGED <<pc, loc, mem, disk, file, browsers, leech, spent>>

Save ==
  /\ pc = "save"
  /\ Alive
  /\ pc' = "poll"
  /\ disk' = mem
  /\ NoTime
  /\ UNCHANGED <<loc, mem, file, browsers, leech, spent>>

\* Mutant: a challenge begins whatever the count of pauses.
StartChallenge_NoLimit ==
  /\ Poll
  /\ mem.phase = 0
  /\ spent' = [spent EXCEPT !.pauses = @ + 1]
  /\ mem' = [mem EXCEPT !.phase = 1]
  /\ pc' = "save"
  /\ NoTime
  /\ UNCHANGED <<loc, disk, file, browsers, leech>>

\* HELLO with pauses left today.
StartChallenge ==
  /\ Poll
  /\ mem.phase = 0
  /\ spent.pauses < MaxPauses
  /\ spent' = [spent EXCEPT !.pauses = @ + 1]
  /\ mem' = [mem EXCEPT !.phase = 1]
  /\ pc' = "save"
  /\ NoTime
  /\ UNCHANGED <<loc, disk, file, browsers, leech>>

FailChallenge ==
  /\ Poll
  /\ mem.phase = 1
  /\ mem' = [mem EXCEPT !.phase = 0]
  /\ pc' = "save"
  /\ NoTime
  /\ UNCHANGED <<loc, disk, file, browsers, leech, spent>>

\* The snapshot of active sets, -1 when the helper fails; then swap_unblocked.
Grant ==
  /\ Poll
  /\ mem.phase = 1
  /\ \/ /\ mem' = [phase |-> 2, snap |-> IF active THEN 1 ELSE 0]
        /\ UNCHANGED spent
     \/ /\ mem' = [phase |-> 2, snap |-> -1]
        /\ HelperFails
  /\ clock' = [clock EXCEPT !.left = UNBLOCK_SECS]
  /\ pc' = "swap"
  /\ loc' = [loc EXCEPT !.after = "save", !.synced = FALSE]
  /\ UNCHANGED <<disk, file, browsers, leech, gap>>

CloseWindow ==
  /\ Poll
  /\ WindowOver
  /\ pc' = "closeTerm"
  /\ loc' = [loc EXCEPT !.b = "firefox"]
  /\ NoTime
  /\ UNCHANGED <<mem, disk, file, browsers, leech, spent>>
-----------------------------------------------------------------------------
(***************************************************************************)
(* Users and update.sh.                                                    *)
(***************************************************************************)
Outside == UNCHANGED <<pc, loc, mem, disk, clock, spent, gap>>

StartBrowser(b) ==
  /\ pc \in StartPoints
  /\ proc[b].st = "down"
  /\ Starts(b, FALSE)
  /\ Outside /\ UNCHANGED file

Appear(b) ==
  /\ proc[b].st = "starting"
  /\ proc' = [proc EXCEPT ![b] = Loaded(b, proc[b].own)]
  /\ Overlooks(IF Unnoticed THEN {b} ELSE {})
  /\ Outside /\ UNCHANGED <<file, leech>>

CloseBrowser(b) ==
  /\ Running(b)
  /\ proc' = [proc EXCEPT ![b] = Down]
  /\ Overlooks({})
  /\ Outside /\ UNCHANGED <<file, leech>>

DisableAddon ==
  /\ \/ "addon" \in Events /\ Running("firefox")
        /\ addon' = FALSE /\ UNCHANGED vvAddon
     \/ "vvaddon" \in Events /\ Running("vivaldi")
        /\ vvAddon' = FALSE /\ UNCHANGED addon
  /\ Outside /\ UNCHANGED <<file, browsers, active, drift>>

EditRules ==
  /\ "rules" \in Events
  /\ Running("firefox")
  /\ drift' = TRUE
  /\ Outside /\ UNCHANGED <<file, browsers, addon, vvAddon, active>>

\* Block sets are only reachable under the unblocked policies.
DisableSet ==
  /\ "sets" \in Events
  /\ Running("firefox")
  /\ proc["firefox"].pol = "unblocked"
  /\ active' = FALSE
  /\ Outside /\ UNCHANGED <<file, browsers, addon, vvAddon, drift>>

Relabelled(b, p, q) == [proc[b] EXCEPT !.pol = IF @ = p THEN q ELSE @]

\* Whoever has an older version loaded when its file becomes the current one.
Overtakes ==
  Overlooks(IF Unnoticed THEN Browsers ELSE {b \in Browsers : file'[b] = "blocking"})

\* update.sh copies the repository's blocking policies below /etc whatever the
\* daemon is at; Vivaldi's are below /opt as soon, Firefox's not yet.
InstallSources ==
  /\ "install" \in Events
  /\ \E version \in {"blocking", "new"} :
       file' = [b \in Browsers |-> IF b = "firefox" THEN version ELSE "blocking"]
  /\ \E changed \in BOOLEAN :
       proc' = IF ~changed THEN proc
               ELSE [b \in Browsers |->
                       Relabelled(b, IF b = "firefox" THEN "new" ELSE "blocking", "old")]
  /\ Overtakes
  /\ Outside /\ UNCHANGED leech

\* What Firefox's files are compared with changes: the update runner renews
\* its policies, update.sh its style sheets.
RefreshSources ==
  /\ "refresh" \in Events
  /\ LET Renewed(p) == CASE p = "blocking" -> "old" [] p = "new" -> "blocking"
                         [] p \in {"old", "unblocked"} -> p
     IN  /\ file' = [file EXCEPT !["firefox"] = Renewed(@)]
         /\ proc' = [proc EXCEPT !["firefox"].pol = Renewed(@)]
  /\ Overtakes
  /\ Outside /\ UNCHANGED leech

\* systemd lets the process run to RUNTIME_MAX, then ends it.
Daemon ==
  \/ RuntimeMax \/ ExitCycle \/ StartCycle
  \/ AddonActive \/ AddonDisabled \/ AddonWrite \/ Compare \/ Extension
  \/ NoRestart \/ AlreadyKilled \/ Restart \/ Launch \/ Touch
  \/ DriftIgnored \/ DriftStopped \/ DriftRunning \/ DriftSync \/ DriftLaunch
  \/ SwapCopy \/ SwapTerm \/ SwapLaunch
  \/ CloseTerm \/ CloseCopy \/ CloseSets \/ CloseRules \/ CloseLaunch
  \/ PollTick \/ CloseWindow \/ Save

Challenge == StartChallenge \/ FailChallenge \/ Grant

User ==
  \/ \E b \in Browsers : StartBrowser(b) \/ Appear(b) \/ CloseBrowser(b)
  \/ DisableAddon \/ EditRules \/ DisableSet \/ InstallSources \/ RefreshSources

Next == Daemon \/ Kill \/ SlowHelper \/ Challenge \/ User

Spec == Init /\ [][Next]_vars

\* The daemon runs and is restarted, a launched browser comes up, a challenge
\* is over some day (PauseChallenge!ChallengeEnds).  Users owe nothing.
FairSpec ==
  /\ Spec
  /\ WF_vars(Daemon)
  /\ \A b \in Browsers : WF_vars(Appear(b))
  /\ SF_vars(FailChallenge \/ Grant)
-----------------------------------------------------------------------------
(***************************************************************************)
(* Properties.                                                             *)
(***************************************************************************)
\* After a cycle has blocked the browsers, by its normal sync or at the end of
\* a window, none would start under the unblocked policies, and one that runs
\* under them has lost its restart in one of the four ways named above
\* (swap_blocking, 1746-1792).
BlockedAgain ==
  (pc = "poll" /\ loc.synced /\ mem.phase # 2) =>
    \A b \in Browsers :
      /\ file[b] # "unblocked"
      /\ Running(b) /\ proc[b].pol = "unblocked" => b \in lost

\* A sync ends with every running browser on the current policies, but for one
\* that has lost its restart: what this cycle or an earlier one copied has been
\* loaded (cockblockd.c:16, "when anything changed: kill firefox ... relaunch").
SyncEnds == pc # "poll" /\ pc' = "poll" /\ loc'.synced /\ ~loc.synced

SyncLoads ==
  [][SyncEnds => \A b \in Browsers :
       Running(b)' => proc'[b].pol = "blocking" \/ b \in lost']_vars

\* Once the file says that a window is over, the sets that were active at its
\* grant are active (1754-1767), however many cycles were killed in between.
SetsRestored ==
  [][disk.phase = 2 /\ disk'.phase = 0 /\ disk'.snap = 1 => active']_vars

\* A sync decides to restart Vivaldi for a disabled extension or for drifted
\* rules, the reasons that may persist.
RestartForReason ==
  \/ pc = "extension" /\ ~loc.restart /\ loc'.restart /\ loc.was["vivaldi"]
  \/ pc = "drift" /\ pc' = "driftSync"

\* They do not restart it again within the cooldown of its last restart for
\* whatever reason, unless that one was bare: made by one of the two swaps,
\* which do not touch the stamp (although 1374-1375 says "any Vivaldi restart"),
\* or by a sync that was ended before its stamp.
RestartsSpaced ==
  [][RestartForReason => gap.ago = VV_RESTART_COOLDOWN \/ gap.bare]_vars

\* A window is over some day, for the file too.
WindowEnds == (disk.phase = 2) ~> (disk.phase = 0)

\* Edited rules reach Vivaldi: "this is what actually propagates rule edits
\* from Firefox to Vivaldi within a few minutes instead of never" (2337-2341).
RulesPropagate == drift ~> ~drift
=============================================================================
