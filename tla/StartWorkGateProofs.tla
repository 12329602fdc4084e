------------------------- MODULE StartWorkGateProofs -------------------------
(***************************************************************************)
(* The gate of StartWork holds, for every length of intervals and naps, if *)
(* commands and presses do not fall between two callbacks that belong      *)
(* together (Races = {}), and a break lasts longer than a probe, so that a *)
(* gate that comes late cannot meet the last second of a break.            *)
(***************************************************************************)
EXTENDS StartWorkProofs

Orderly == Races = {} /\ PROBE < DURATION - 1

Has(queue, cb) == \E i \in DOMAIN queue : queue[i] = cb

\* A break that began after the monitor thread looked is not older than what
\* the thread has done since.
Elapsed == DURATION - core.count - core.timer

GateInv ==
  /\ gate.windows = IF gate.dialog THEN 1 ELSE 0
  /\ gate.dialog /\ core.running =>
       /\ Has(idle, "resume")
       /\ \/ core.cb = "do_pre_break" /\ core.timer > 0
          \/ core.cb = "countdown" /\ core.count = DURATION - 1 /\ core.timer = 1
  /\ core.cb = "countdown" => gate.last = core.count + 1 /\ core.timer <= 1
  /\ monitor.probing =>
       /\ monitor.left <= PROBE
       /\ core.cb = "countdown" => Elapsed <= PROBE - monitor.left
  /\ Has(idle, "gate") =>
       /\ ~monitor.probing /\ monitor.left > 0
       /\ core.cb = "countdown" => Elapsed <= PROBE
  /\ app.delay # None => app.delay > 0
-----------------------------------------------------------------------------
\* What a queue holds after a callback was queued, and after one was taken.
LEMMA HasAppend ==
  ASSUME NEW s \in Seq({"gate", "resume"}), NEW v \in {"gate", "resume"}, NEW x
  PROVE  Has(Append(s, v), x) <=> Has(s, x) \/ v = x
<1>1. /\ \A i \in 1..Len(s) : i \in 1..Len(Append(s, v)) /\ Append(s, v)[i] = s[i]
      /\ Len(s) + 1 \in 1..Len(Append(s, v)) /\ Append(s, v)[Len(s) + 1] = v
      /\ \A i \in 1..Len(Append(s, v)) : i \in 1..Len(s) \/ i = Len(s) + 1
      /\ DOMAIN s = 1..Len(s) /\ DOMAIN Append(s, v) = 1..Len(Append(s, v))
  OBVIOUS
<1>2. QED
  BY <1>1 DEF Has

LEMMA HasTail ==
  ASSUME NEW s \in Seq({"gate", "resume"}), s # <<>>, NEW x
  PROVE  Has(s, x) <=> Head(s) = x \/ Has(Tail(s), x)
<1>1. ASSUME Has(s, x), Head(s) # x PROVE Has(Tail(s), x)
  <2>1. PICK i \in 1..Len(s) : s[i] = x
    BY <1>1 DEF Has
  <2>2. i - 1 \in 1..Len(Tail(s)) /\ Tail(s)[i - 1] = x
    BY <1>1, <2>1
  <2>3. QED
    BY <2>2 DEF Has
<1>2. ASSUME Has(Tail(s), x) PROVE Has(s, x)
  <2>1. PICK i \in 1..Len(Tail(s)) : Tail(s)[i] = x
    BY <1>2 DEF Has
  <2>2. i + 1 \in 1..Len(s) /\ s[i + 1] = x
    BY <2>1
  <2>3. QED
    BY <2>2 DEF Has
<1>3. ASSUME Head(s) = x PROVE Has(s, x)
  BY <1>3 DEF Has
<1>4. QED
  BY <1>1, <1>2, <1>3

LEMMA HasNone == \A x : ~Has(<<>>, x)
BY DEF Has

\* The fields of a scheduler and of a gate after each kind of change.
LEMMA BreakFields ==
  ASSUME NEW c \in Core, NEW g \in Gate
  PROVE  /\ InBreak(c).cb = "countdown" /\ InBreak(c).timer = 1
         /\ InBreak(c).count = DURATION - 1 /\ InBreak(c).next = c.next
         /\ InBreak(c).running = c.running
         /\ Watching(g).last = DURATION /\ Watching(g).dialog = g.dialog
         /\ Watching(g).windows = g.windows /\ Watching(g).idleGated = g.idleGated
         /\ Watching(g).delay = g.delay
<1>1. /\ InBreak(c).cb = "countdown" /\ InBreak(c).timer = 1
      /\ InBreak(c).count = DURATION - 1 /\ InBreak(c).next = c.next
      /\ InBreak(c).running = c.running
  BY DEF InBreak, Core
<1>2. /\ Watching(g).last = DURATION /\ Watching(g).dialog = g.dialog
      /\ Watching(g).windows = g.windows /\ Watching(g).idleGated = g.idleGated
      /\ Watching(g).delay = g.delay
  BY DEF Watching, Gate
<1>3. QED
  BY <1>1, <1>2

LEMMA StopFields ==
  ASSUME NEW c \in Core, NEW g \in Gate, Sound(c), NEW state \in {"STOPPED", "RESTING"}
  PROVE  LET w == CoreStop(c, g, state)
         IN  /\ w.g = Answered(c, g)
             /\ ~w.c.running /\ w.c.cb = "none" /\ w.c.next = c.next
<1>1. CASE c.running
  <2>1. CoreStop(c, g, state) = Pair(Stopped(c, state), Answered(c, g))
    BY <1>1, StopEffect
  <2>2. /\ ~Stopped(c, state).running /\ Stopped(c, state).cb = "none"
        /\ Stopped(c, state).next = c.next
    BY DEF Stopped, Core
  <2>3. QED
    BY <2>1, <2>2 DEF Pair
<1>2. CASE ~c.running
  BY <1>2 DEF CoreStop, Pair, Answered, Sound
<1>3. QED
  BY <1>1, <1>2

LEMMA StartFields ==
  ASSUME NEW c \in Core, Sound(c), ~c.running, NEW delay \in Nat \union {None}
  PROVE  LET d == CoreStart(c, delay)
         IN  /\ d.running /\ d.cb = "do_pre_break"
             /\ d.timer = Wait(delay) /\ d.next = Wait(delay)
<1>1. CoreStart(c, delay) = Waiting(c, Wait(delay))
  BY StartEffect
<1>2. QED
  BY <1>1 DEF Waiting, Core

-----------------------------------------------------------------------------
LEMMA GateInit == Init => GateInv
<1> SUFFICES ASSUME Init PROVE GateInv
  OBVIOUS
<1>1. /\ ~gate.dialog /\ gate.windows = 0 /\ core.cb = "do_pre_break" /\ idle = <<>>
      /\ ~monitor.probing /\ app.delay = None
  BY DEF Init
<1>2. QED
  BY <1>1, HasNone DEF GateInv

\* The types that the steps below use.
LEMMA TypeFacts ==
  ASSUME SchedulerInv
  PROVE  /\ core \in Core /\ gate \in Gate /\ Sound(core)
         /\ core.timer \in Nat /\ core.count \in Nat /\ core.next \in Nat
         /\ core.cb \in {"none", "do_pre_break", "do_start_break", "countdown", "job"}
         /\ core.running <=> core.cb # "none"
         /\ app.delay \in Nat \union {None}
         /\ idle \in Seq({"gate", "resume"})
         /\ monitor \in [probing : BOOLEAN, left : Nat] /\ monitor.left \in Nat
         /\ Remaining \in Nat /\ Remaining > 0 /\ Remaining # None
<1>1. core \in Core /\ gate \in Gate /\ Sound(core)
  BY DEF SchedulerInv, TypeOK
<1>2. /\ core.timer \in Nat /\ core.count \in Nat /\ core.next \in Nat
      /\ core.cb \in {"none", "do_pre_break", "do_start_break", "countdown", "job"}
  BY <1>1 DEF Core
<1>3. core.running <=> core.cb # "none"
  BY <1>1 DEF Sound
<1>4. Remaining \in Nat /\ Remaining > 0 /\ Remaining # None
  BY <1>2 DEF Remaining, AtLeast, None
<1>5. QED
  BY <1>1, <1>2, <1>3, <1>4 DEF SchedulerInv, TypeOK

\* Under the dialog nothing is due, and no break ends by itself.
LEMMA DialogHeld ==
  ASSUME SchedulerInv, GateInv, Orderly, gate.dialog
  PROVE  ~Due /\ Answered(core, gate) = gate
<1>1. ~Due
  BY TypeFacts DEF GateInv, Due
<1>2. CASE core.cb = "countdown"
  <2>1. gate.last = DURATION /\ DURATION \in Nat /\ DURATION > 1
    BY <1>2, TypeFacts, ConstantsAssumption DEF GateInv, Orderly
  <2>2. ~EndsNaturally(gate)
    BY <2>1 DEF EndsNaturally
  <2>3. QED
    BY <1>1, <2>2 DEF Answered
<1>3. CASE core.cb # "countdown"
  BY <1>1, <1>3 DEF Answered
<1>4. QED
  BY <1>2, <1>3

\* A gate that comes late finds a break with more than its last second left.
LEMMA LateGate ==
  ASSUME SchedulerInv, GateInv, Orderly, Has(idle, "gate"), ~Due, NEW g \in Gate,
         g.last = gate.last
  PROVE  Answered(core, g) = g
<1>1. CASE core.cb = "countdown"
  <2>1. core.timer = 1 /\ gate.last = core.count + 1
    BY <1>1, TypeFacts DEF GateInv, Due
  <2>2. DURATION - core.count - 1 <= PROBE
    BY <1>1, <2>1 DEF GateInv, Elapsed
  <2>3. g.last > 1
    BY <2>1, <2>2, TypeFacts, ConstantsAssumption DEF Orderly
  <2>4. ~EndsNaturally(g)
    BY <2>1, <2>3, TypeFacts DEF EndsNaturally
  <2>5. QED
    BY <2>4 DEF Answered
<1>2. CASE core.cb # "countdown"
  BY <1>2 DEF Answered
<1>3. QED
  BY <1>1, <1>2
-----------------------------------------------------------------------------
LEMMA GateTimeout == SchedulerInv /\ GateInv /\ Orderly /\ Timeout => GateInv'
<1> SUFFICES ASSUME SchedulerInv, GateInv, Orderly, Timeout PROVE GateInv'
  OBVIOUS
<1>1. /\ core.cb # "none" /\ core.timer = 0 /\ core.running
      /\ core' = Callback(core, gate).c /\ gate' = Callback(core, gate).g
      /\ UNCHANGED <<idle, monitor, app>>
  BY TypeFacts DEF Timeout, Due, Becomes
<1>2. ~gate.dialog /\ gate.windows = 0
  BY <1>1, DialogHeld DEF Due, GateInv
<1>3. CASE core.cb = "do_pre_break"
  <2> DEFINE d == [core EXCEPT !.state = "PRE_BREAK", !.cb = "do_start_break", !.timer = WARNING]
  <2>1. Callback(core, gate) = Pair(d, gate)
    BY <1>1, <1>3, TypeFacts, CallbackEffect
  <2>2. d.cb = "do_start_break"
    BY TypeFacts DEF Core
  <2> HIDE DEF d
  <2>3. core'.cb = "do_start_break" /\ gate' = gate
    BY <1>1, <2>1, <2>2 DEF Pair
  <2>4. QED
    BY <1>1, <1>2, <2>3 DEF GateInv
<1>4. CASE core.cb = "do_start_break"
  <2>1. core' = InBreak(core) /\ gate' = Watching(gate)
    <3>1. Callback(core, gate) = Pair(InBreak(core), Watching(gate))
      BY <1>1, <1>4, TypeFacts, CallbackEffect
    <3>2. QED
      BY <1>1, <3>1 DEF Pair
  <2>2. /\ core'.cb = "countdown" /\ core'.timer = 1 /\ core'.count = DURATION - 1
        /\ gate'.last = DURATION /\ ~gate'.dialog /\ gate'.windows = 0
    BY <1>2, <2>1, TypeFacts, BreakFields
  <2>3. Elapsed' = 0
    BY <2>2, ConstantsAssumption DEF Elapsed
  <2>4. QED
    BY <1>1, <2>2, <2>3, TypeFacts, ConstantsAssumption DEF GateInv
<1>5. CASE core.cb = "countdown" /\ core.count > 0
  <2> DEFINE d == [core EXCEPT !.count = @ - 1, !.timer = 1]
             h == [gate EXCEPT !.last = core.count, !.gap = 0]
  <2>1. Callback(core, gate) = Pair(d, h)
    BY <1>1, <1>5, TypeFacts, CallbackEffect
  <2>2. /\ d.cb = "countdown" /\ d.timer = 1 /\ d.count = core.count - 1
        /\ h.last = core.count /\ h.dialog = gate.dialog /\ h.windows = gate.windows
    BY <1>5, TypeFacts DEF Core, Gate
  <2> HIDE DEF d, h
  <2>3. /\ core'.cb = "countdown" /\ core'.timer = 1 /\ core'.count = core.count - 1
        /\ gate'.last = core.count /\ ~gate'.dialog /\ gate'.windows = 0
    BY <1>1, <1>2, <2>1, <2>2 DEF Pair
  <2>4. Elapsed' = Elapsed
    BY <1>1, <2>3, TypeFacts, ConstantsAssumption DEF Elapsed
  <2>5. QED
    BY <1>1, <1>5, <2>3, <2>4, TypeFacts DEF GateInv
<1>6. CASE core.cb = "countdown" /\ core.count = 0
  <2> DEFINE d == [core EXCEPT !.running = FALSE, !.state = "STOPPED", !.cb = "none", !.timer = 0]
             e == [core EXCEPT !.cb = "job", !.timer = 0]
  <2>1. Callback(core, gate) = Pair(d, Shown(gate)) \/ Callback(core, gate) = Pair(e, gate)
    BY <1>1, <1>6, TypeFacts, CallbackEffect
  <2>2. ~d.running /\ d.cb = "none" /\ e.cb = "job"
    BY TypeFacts DEF Core
  <2>3. Shown(gate).dialog /\ Shown(gate).windows = 1
    BY <1>2, TypeFacts, ShownFields
  <2> HIDE DEF d, e
  <2>4. \/ ~core'.running /\ core'.cb = "none" /\ gate'.dialog /\ gate'.windows = 1
        \/ core'.cb = "job" /\ ~gate'.dialog /\ gate'.windows = 0
    BY <1>1, <1>2, <2>1, <2>2, <2>3 DEF Pair
  <2>5. QED
    BY <1>1, <2>4 DEF GateInv
<1>7. CASE core.cb = "job"
  <2>1. core' = Waiting(core, INTERVAL) /\ gate' = gate
    <3>1. Callback(core, gate) = Pair(Waiting(core, INTERVAL), gate)
      BY <1>1, <1>7, TypeFacts, CallbackEffect
    <3>2. QED
      BY <1>1, <3>1 DEF Pair
  <2>2. core'.cb = "do_pre_break"
    BY <2>1, TypeFacts DEF Waiting, Core
  <2>3. QED
    BY <1>1, <1>2, <2>1, <2>2 DEF GateInv
<1>8. QED
  BY <1>1, <1>3, <1>4, <1>5, <1>6, <1>7, TypeFacts

LEMMA GateTakeBreak == SchedulerInv /\ GateInv /\ Orderly /\ TakeBreak => GateInv'
<1> SUFFICES ASSUME SchedulerInv, GateInv, Orderly, TakeBreak PROVE GateInv'
  OBVIOUS
<1>1. UNCHANGED <<idle, monitor, app>>
  BY DEF TakeBreak
<1>2. CASE core.state = "WAITING"
  <2>1. core' = InBreak(core) /\ gate' = Watching(gate)
    <3>1. CoreTakeBreak(core, gate) = Pair(InBreak(core), Watching(gate))
      BY <1>2, TypeFacts, TakeBreakEffect
    <3>2. QED
      BY <3>1 DEF TakeBreak, Becomes, Pair
  <2>2. core.running
    BY <1>2, TypeFacts DEF Sound
  <2>3. /\ core'.cb = "countdown" /\ core'.timer = 1 /\ core'.count = DURATION - 1
        /\ gate'.last = DURATION /\ gate'.dialog = gate.dialog
        /\ gate'.windows = gate.windows
    BY <2>1, TypeFacts, BreakFields
  <2>4. Elapsed' = 0
    BY <2>3, ConstantsAssumption DEF Elapsed
  <2>5. QED
    BY <1>1, <2>2, <2>3, <2>4, TypeFacts, ConstantsAssumption DEF GateInv
<1>3. CASE core.state # "WAITING"
  <2>1. core' = core /\ gate' = gate
    BY <1>3 DEF TakeBreak, Becomes, CoreTakeBreak, Pair
  <2>2. QED
    BY <1>1, <2>1 DEF GateInv, Elapsed
<1>4. QED
  BY <1>2, <1>3

\* A stop that may end a break, while no dialog is up.
LEMMA GateStop ==
  ASSUME SchedulerInv, GateInv, ~gate.dialog, NEW state \in {"STOPPED", "RESTING"},
         Becomes(CoreStop(core, gate, state)), UNCHANGED <<idle, monitor>>,
         app'.delay # None => app'.delay > 0
  PROVE  GateInv'
<1>1. core'.cb = "none" /\ ~core'.running /\ gate' = Answered(core, gate)
  BY TypeFacts, StopFields DEF Becomes
<1>2. gate'.windows = IF gate'.dialog THEN 1 ELSE 0
  BY <1>1, TypeFacts, ShownFields DEF Answered, GateInv
<1>3. QED
  BY <1>1, <1>2 DEF GateInv

LEMMA GateDisable == SchedulerInv /\ GateInv /\ Orderly /\ Disable => GateInv'
<1> SUFFICES ASSUME SchedulerInv, GateInv, Orderly, Disable PROVE GateInv'
  OBVIOUS
<1>1. app'.delay = app.delay
  BY DEF Disable, SchedulerInv, TypeOK
<1>2. QED
  BY <1>1, GateStop DEF Disable, Commanded, Orderly, GateInv

\* A start while no dialog is up.
LEMMA GateStart ==
  ASSUME SchedulerInv, GateInv, ~gate'.dialog, gate'.windows = 0, gate'.last = gate.last,
         NEW delay \in Nat \union {None},
         core' = CoreStart(core, delay), monitor' = monitor,
         Has(idle', "gate") => Has(idle, "gate"),
         app'.delay # None => app'.delay > 0
  PROVE  GateInv'
<1>1. CASE core.running
  <2>1. core' = core
    BY <1>1 DEF CoreStart
  <2>2. QED
    BY <2>1 DEF GateInv, Elapsed
<1>2. CASE ~core.running
  <2>1. core'.cb = "do_pre_break"
    BY <1>2, TypeFacts, StartFields
  <2>2. QED
    BY <2>1 DEF GateInv
<1>3. QED
  BY <1>1, <1>2

LEMMA GateEnable == SchedulerInv /\ GateInv /\ Orderly /\ Enable => GateInv'
<1> SUFFICES ASSUME SchedulerInv, GateInv, Orderly, Enable PROVE GateInv'
  OBVIOUS
<1>1. app'.delay = app.delay
  BY DEF Enable, SchedulerInv, TypeOK
<1>2. ~gate.dialog /\ gate.windows = 0 /\ gate' = gate
  BY DEF Enable, Commanded, Orderly, GateInv
<1>3. QED
  BY <1>1, <1>2, GateStart DEF Enable, GateInv

LEMMA GatePressStart == SchedulerInv /\ GateInv /\ Orderly /\ PressStart => GateInv'
<1> SUFFICES ASSUME SchedulerInv, GateInv, Orderly, PressStart PROVE GateInv'
  OBVIOUS
<1>1. gate.dialog /\ gate.windows = 1
  BY DEF PressStart, GateInv
<1>2. ~gate'.dialog /\ gate'.windows = 0 /\ gate'.last = gate.last
  BY <1>1, TypeFacts DEF PressStart, Gate
<1>3. NextBreakTime \in Nat \union {None}
  BY TypeFacts DEF NextBreakTime, Gate
<1>4. QED
  BY <1>2, <1>3, GateStart DEF PressStart, GateInv

LEMMA GateIdleCallback == SchedulerInv /\ GateInv /\ Orderly /\ IdleCallback => GateInv'
<1> SUFFICES ASSUME SchedulerInv, GateInv, Orderly, IdleCallback PROVE GateInv'
  OBVIOUS
<1>1. idle # <<>> /\ ~Due /\ idle' = Tail(idle) /\ UNCHANGED <<monitor, app>>
  BY DEF IdleCallback
<1>2. Has(idle', "gate") => Has(idle, "gate")
  BY <1>1, TypeFacts, HasTail
<1>3. CASE Head(idle) = "gate" /\ gate.dialog
  <2>1. gate' = [gate EXCEPT !.idleGated = FALSE] /\ core' = core
    BY <1>3 DEF IdleCallback, DoIdleGate
  <2>2. gate'.dialog = gate.dialog /\ gate'.windows = gate.windows /\ gate'.last = gate.last
    BY <2>1, TypeFacts DEF Gate
  <2>3. Has(idle, "resume") => Has(idle', "resume")
    BY <1>1, <1>3, TypeFacts, HasTail
  <2>4. QED
    BY <1>1, <1>2, <2>1, <2>2, <2>3 DEF GateInv, Elapsed
<1>4. CASE Head(idle) = "gate" /\ ~gate.dialog
  <2> DEFINE h == [gate EXCEPT !.idleGated = TRUE, !.delay = Remaining]
             w == CoreStop(core, h, "STOPPED")
  <2>1. core' = w.c /\ gate' = Shown(w.g)
    BY <1>4 DEF IdleCallback, DoIdleGate
  <2>2. h \in Gate /\ h.windows = gate.windows /\ h.last = gate.last
    BY TypeFacts DEF Gate
  <2>3. ~w.c.running /\ w.c.cb = "none" /\ w.g = Answered(core, h)
    <3> HIDE DEF h
    <3> QED
      BY <2>2, TypeFacts, StopFields
  <2>4. Answered(core, h) = h
    <3>1. Has(idle, "gate")
      BY <1>1, <1>4, TypeFacts, HasTail
    <3> HIDE DEF h
    <3>2. QED
      BY <1>1, <2>2, <3>1, LateGate
  <2> HIDE DEF h, w
  <2>5. gate'.dialog /\ gate'.windows = 1
    BY <1>4, <2>1, <2>2, <2>3, <2>4, ShownFields DEF GateInv
  <2>6. QED
    BY <1>1, <2>1, <2>3, <2>5, <1>2 DEF GateInv
<1>5. CASE Head(idle) # "gate" /\ gate.dialog
  <2>1. Becomes(CoreStop(core, gate, "STOPPED"))
    BY <1>5 DEF IdleCallback, OnResumeWhileGating
  <2>2. core'.cb = "none" /\ ~core'.running /\ gate' = gate
    BY <1>5, <2>1, TypeFacts, StopFields, DialogHeld DEF Becomes
  <2>3. QED
    BY <1>1, <1>2, <2>2 DEF GateInv
<1>6. CASE Head(idle) # "gate" /\ ~gate.dialog
  <2>1. core' = core /\ gate' = gate
    BY <1>6 DEF IdleCallback, OnResumeWhileGating
  <2>2. QED
    BY <1>1, <1>2, <1>6, <2>1 DEF GateInv, Elapsed
<1>7. QED
  BY <1>3, <1>4, <1>5, <1>6

LEMMA GateHandleSignal == SchedulerInv /\ GateInv /\ Orderly /\ HandleSignal => GateInv'
<1> SUFFICES ASSUME SchedulerInv, GateInv, Orderly, HandleSignal PROVE GateInv'
  OBVIOUS
<1>1. monitor' = monitor
  BY DEF HandleSignal
<1>2. CASE HandleSleep /\ app.active
  <2>1. idle' = idle /\ Becomes(CoreStop(core, gate, "RESTING"))
    BY <1>2 DEF HandleSleep
  <2>2. app'.delay # None => app'.delay > 0
    BY <1>2, TypeFacts DEF HandleSleep, SchedulerInv, TypeOK
  <2>3. CASE gate.dialog
    <3>1. core'.cb = "none" /\ ~core'.running /\ gate' = gate
      BY <2>1, <2>3, TypeFacts, StopFields, DialogHeld DEF Becomes
    <3>2. QED
      BY <1>1, <2>1, <2>2, <3>1 DEF GateInv
  <2>4. CASE ~gate.dialog
    BY <1>1, <2>1, <2>2, <2>4, GateStop
  <2>5. QED
    BY <2>3, <2>4
<1>3. CASE HandleWake
  <2>1. idle' = Append(idle, "resume") /\ gate' = gate
    BY <1>3 DEF HandleWake
  <2>2. Has(idle', "resume") /\ (Has(idle', "gate") => Has(idle, "gate"))
    BY <2>1, TypeFacts, HasAppend
  <2>3. CASE ~app.active
    <3>1. core' = core /\ app' = app
      BY <1>3, <2>3 DEF HandleWake
    <3>2. QED
      BY <1>1, <2>1, <2>2, <3>1 DEF GateInv, Elapsed
  <2>4. CASE app.active
    <3>1. core' = CoreStart(core, app.delay) /\ app'.delay = None
      BY <1>3, <2>4 DEF HandleWake, SchedulerInv, TypeOK
    <3>2. CASE core.running
      <4>1. core' = core
        BY <3>1, <3>2 DEF CoreStart
      <4>2. QED
        BY <1>1, <2>1, <2>2, <3>1, <4>1 DEF GateInv, Elapsed
    <3>3. CASE ~core.running
      <4>1. core'.cb = "do_pre_break" /\ core'.timer = Wait(app.delay)
        BY <3>1, <3>3, TypeFacts, StartFields
      <4>2. Wait(app.delay) > 0
        BY TypeFacts, ConstantsAssumption DEF Wait, GateInv
      <4>3. QED
        BY <1>1, <2>1, <2>2, <3>1, <4>1, <4>2 DEF GateInv
    <3>4. QED
      BY <3>2, <3>3
  <2>5. QED
    BY <2>3, <2>4
<1>4. CASE HandleSleep /\ ~app.active
  BY <1>1, <1>4 DEF HandleSleep, GateInv, Elapsed
<1>5. QED
  BY <1>2, <1>3, <1>4 DEF HandleSignal

LEMMA GateMonitor == SchedulerInv /\ GateInv /\ (Look \/ Probed) => GateInv'
<1> SUFFICES ASSUME SchedulerInv, GateInv, Look \/ Probed PROVE GateInv'
  OBVIOUS
<1>1. UNCHANGED <<core, gate, app>>
  BY DEF Look, Probed
<1>2. CASE Look
  <2>1. idle' = idle /\ ~Has(idle, "gate")
    BY <1>2 DEF Look, GateInv
  <2>2. \/ ~monitor'.probing
        \/ core.cb = "do_pre_break" /\ monitor'.left = PROBE
    BY <1>2, TypeFacts DEF Look, Away, Sound
  <2>3. PROBE \in Nat
    BY ConstantsAssumption
  <2>4. QED
    BY <1>1, <2>1, <2>2, <2>3 DEF GateInv
<1>3. CASE Probed
  <2>1. monitor.probing /\ ~monitor'.probing /\ monitor'.left = POLL
    BY <1>3 DEF Probed
  <2>2. Has(idle, "resume") => Has(idle', "resume")
    <3>1. Has(Append(idle, "gate"), "resume") <=> Has(idle, "resume") \/ "gate" = "resume"
      BY TypeFacts, HasAppend
    <3>2. QED
      BY <1>3, <3>1 DEF Probed
  <2>3. core.cb = "countdown" => Elapsed <= PROBE
    BY <2>1, TypeFacts, ConstantsAssumption DEF GateInv, Elapsed
  <2>4. POLL > 0
    BY ConstantsAssumption
  <2>5. Elapsed' = Elapsed
    BY <1>1 DEF Elapsed
  <2>6. QED
    BY <1>1, <2>1, <2>2, <2>3, <2>4, <2>5 DEF GateInv
<1>4. QED
  BY <1>2, <1>3

LEMMA GateTick == SchedulerInv /\ GateInv /\ Tick => GateInv'
<1> SUFFICES ASSUME SchedulerInv, GateInv, Tick PROVE GateInv'
  OBVIOUS
<1>1. /\ idle = <<>> /\ idle' = <<>> /\ ~Due /\ monitor.left > 0 /\ app' = app
  BY DEF Tick
<1>2. ~Has(idle, "gate") /\ ~Has(idle, "resume") /\ ~Has(idle', "gate")
  BY <1>1, HasNone
<1>3. /\ core'.running = core.running /\ core'.cb = core.cb /\ core'.count = core.count
      /\ core'.timer = AtLeast(core.timer - 1, 0)
      /\ gate'.dialog = gate.dialog /\ gate'.windows = gate.windows /\ gate'.last = gate.last
  BY TypeFacts DEF Tick, Core, Gate
<1>4. monitor'.probing = monitor.probing /\ monitor'.left = monitor.left - 1
  BY TypeFacts DEF Tick
<1>5. CASE core.cb = "countdown"
  <2>1. core.timer = 1 /\ core'.timer = 0
    BY <1>1, <1>3, <1>5, TypeFacts DEF Due, GateInv, AtLeast
  <2>2. Elapsed' = Elapsed + 1
    BY <1>3, <2>1, TypeFacts, ConstantsAssumption DEF Elapsed
  <2>3. Elapsed \in Int /\ PROBE \in Int
    BY TypeFacts, ConstantsAssumption DEF Elapsed
  <2>4. QED
    BY <1>1, <1>2, <1>3, <1>4, <2>1, <2>2, <2>3, TypeFacts DEF GateInv
<1>6. CASE core.cb # "countdown"
  <2>1. PROBE \in Int
    BY ConstantsAssumption
  <2>2. QED
    BY <1>1, <1>2, <1>3, <1>4, <1>6, <2>1, TypeFacts DEF GateInv
<1>7. QED
  BY <1>5, <1>6

LEMMA GateElsewhere ==
  ASSUME SchedulerInv, GateInv,
         \/ PrepareForSleep \/ FallAsleep \/ \E nap \in Naps : WakeUp(nap)
         \/ Input \/ UNCHANGED vars
  PROVE  GateInv'
<1>1. /\ core'.running = core.running /\ core'.cb = core.cb /\ core'.count = core.count
      /\ core'.timer = core.timer
      /\ gate'.dialog = gate.dialog /\ gate'.windows = gate.windows /\ gate'.last = gate.last
  BY TypeFacts DEF PrepareForSleep, FallAsleep, WakeUp, Input, vars, Core, Gate
<1>2. UNCHANGED <<idle, monitor, app>>
  BY DEF PrepareForSleep, FallAsleep, WakeUp, Input, vars
<1>3. QED
  BY <1>1, <1>2 DEF GateInv, Elapsed

LEMMA GateNext == SchedulerInv /\ GateInv /\ Orderly /\ [Next]_vars => GateInv'
BY GateTimeout, GateTakeBreak, GateDisable, GateEnable, GatePressStart, GateIdleCallback,
   GateHandleSignal, GateMonitor, GateTick, GateElsewhere DEF Next

THEOREM GateInvariant ==
  ASSUME Orderly
  PROVE  Spec => [](SchedulerInv /\ GateInv)
<1>1. Init => SchedulerInv /\ GateInv
  BY SchedulerInit, GateInit
<1>2. SchedulerInv /\ GateInv /\ [Next]_vars => (SchedulerInv /\ GateInv)'
  BY SchedulerNext, GateNext
<1>3. QED
  BY <1>1, <1>2, PTL DEF Spec

\* While the dialog is up there is one window of it and the scheduler stands
\* still, or the callback that stops it again is queued: for any intervals,
\* naps and number of suspends, provided commands and presses leave pairs of
\* callbacks alone and a break outlasts a probe.
THEOREM GateHoldsHolds ==
  ASSUME Orderly
  PROVE  Spec => []GateHolds
<1>1. GateInv => GateHolds
  BY DEF GateInv, GateHolds, Has
<1>2. QED
  BY <1>1, GateInvariant, PTL
-----------------------------------------------------------------------------
(***************************************************************************)
(* The work between two whole breaks is bounded, for every length of       *)
(* intervals, breaks and naps, and any number of suspends and of -d and    *)
(* -e.  Whatever holds the scheduler up, what is left of the interval is   *)
(* kept by someone - its timeout, the wall clock of the next break, the    *)
(* delay of a suspend or that of the idle gate - and still fits into the   *)
(* bound.                                                                  *)
(***************************************************************************)
Bound(h) ==
  (h.restarts + 1) * (INTERVAL + WARNING) + h.cuts * (WARNING + 1)

\* n more of work, and the warning after it, are within the bound.
Fits(n, h) == h.work + n + WARNING <= Bound(h)

\* At most one gate is queued.
OneGate(queue) ==
  \A i, j \in DOMAIN queue : queue[i] = "gate" /\ queue[j] = "gate" => i = j

\* What remains, while no dialog is up.
Scheduled(c, h) ==
  /\ c.next = 0 \/ Fits(c.next, h)
  /\ c.cb = "do_pre_break" => c.next <= c.timer /\ Fits(c.timer, h)
  /\ c.cb = "do_start_break" => c.next = 0 /\ h.work + c.timer <= Bound(h)
  /\ c.cb = "job" => Fits(INTERVAL, h) /\ c.timer = 0

\* A delay, or a fresh start if there is none.
Kept(delay, h) == Fits(Wait(delay), h)

Short(delay) == delay # None => delay > 0 /\ delay <= INTERVAL

LimitInv ==
  /\ history.work <= Bound(history)
  /\ core.next <= INTERVAL /\ Short(gate.delay) /\ Short(app.delay)
  /\ ~gate.dialog => Scheduled(core, history)
  /\ ~gate.dialog /\ ~core.running /\ app.active => Kept(app.delay, history)
  /\ gate.dialog => Kept(NextBreakTime, history)
  /\ gate.idleGated => gate.dialog
  /\ OneGate(idle)
  /\ monitor.probing \/ Has(idle, "gate") => ~gate.idleGated
-----------------------------------------------------------------------------
LEMMA BoundFacts ==
  ASSUME NEW h \in History
  PROVE  /\ h.work \in Nat /\ Bound(h) \in Nat /\ Bound(h) >= INTERVAL + WARNING
         /\ INTERVAL \in Nat /\ INTERVAL > 0 /\ WARNING \in Nat
<1>1. h.work \in Nat /\ h.cuts \in Nat /\ h.restarts \in Nat
  BY DEF History
<1>2. INTERVAL \in Nat /\ INTERVAL > 0 /\ WARNING \in Nat
  BY ConstantsAssumption
<1>3. h.cuts * (WARNING + 1) \in Nat /\ h.restarts * (INTERVAL + WARNING) \in Nat
  BY <1>1, <1>2
<1>4. (h.restarts + 1) * (INTERVAL + WARNING)
        = h.restarts * (INTERVAL + WARNING) + (INTERVAL + WARNING)
  BY <1>1, <1>2
<1>5. QED
  BY <1>1, <1>2, <1>3, <1>4 DEF Bound

LEMMA FreshFacts ==
  ASSUME history \in History
  PROVE  Fresh \in History /\ Fresh.work = 0
BY DEF Fresh, History

\* An interval more in the bound is a whole interval for the scheduler.
LEMMA RestartedFacts ==
  ASSUME history \in History
  PROVE  /\ Restarted \in History /\ Restarted.work = history.work
         /\ Bound(Restarted) = Bound(history) + INTERVAL + WARNING
         /\ history.work <= Bound(history) =>
              /\ Fits(INTERVAL, Restarted)
              /\ \A n \in Nat : n <= INTERVAL => Fits(n, Restarted)
<1>1. /\ Restarted \in History /\ Restarted.work = history.work
      /\ Restarted.cuts = history.cuts /\ Restarted.restarts = history.restarts + 1
      /\ history.cuts \in Nat /\ history.restarts \in Nat /\ history.work \in Nat
  BY DEF Restarted, History
<1>2. WARNING \in Nat /\ INTERVAL \in Nat
  BY ConstantsAssumption
<1>3. (history.restarts + 1 + 1) * (INTERVAL + WARNING)
        = (history.restarts + 1) * (INTERVAL + WARNING) + (INTERVAL + WARNING)
  BY <1>1, <1>2
<1>4. /\ history.cuts * (WARNING + 1) \in Nat
      /\ (history.restarts + 1) * (INTERVAL + WARNING) \in Nat
  BY <1>1, <1>2
<1>5. Bound(Restarted) = Bound(history) + INTERVAL + WARNING /\ Bound(history) \in Nat
  BY <1>1, <1>2, <1>3, <1>4 DEF Bound
<1>6. QED
  BY <1>1, <1>2, <1>5 DEF Fits

LEMMA InterruptedFacts ==
  ASSUME history \in History
  PROVE  /\ Interrupted \in History /\ Interrupted.work = history.work
         /\ Bound(Interrupted) = Bound(history) + WARNING + 1
<1>1. /\ Interrupted \in History /\ Interrupted.work = history.work
      /\ Interrupted.cuts = history.cuts + 1 /\ history.cuts \in Nat
      /\ Interrupted.restarts = history.restarts /\ history.restarts \in Nat
  BY DEF Interrupted, History
<1>2. WARNING \in Nat /\ INTERVAL \in Nat
  BY ConstantsAssumption
<1>3. (history.cuts + 1) * (WARNING + 1) = history.cuts * (WARNING + 1) + (WARNING + 1)
  BY <1>1, <1>2
<1>4. /\ history.cuts * (WARNING + 1) \in Nat
      /\ (history.restarts + 1) * (INTERVAL + WARNING) \in Nat
  BY <1>1, <1>2
<1>5. QED
  BY <1>1, <1>2, <1>3, <1>4 DEF Bound

\* What remains of an interval fits into the bound of an interrupted one.
LEMMA RemainingFits ==
  ASSUME SchedulerInv, history \in History, history.work <= Bound(history),
         core.next = 0 \/ Fits(core.next, history), core.next <= INTERVAL
  PROVE  Fits(Remaining, Interrupted) /\ Short(Remaining)
<1>1. core.next \in Nat
  BY TypeFacts
<1>2. \/ core.next = 0 /\ Remaining = 1
      \/ core.next > 0 /\ Remaining = core.next
  BY <1>1 DEF Remaining, AtLeast
<1>3. QED
  BY <1>1, <1>2, InterruptedFacts, BoundFacts DEF Fits, Short

\* After a break a whole interval is left.
LEMMA FreshFits ==
  ASSUME NEW h \in History, h.work = 0
  PROVE  /\ h.work <= Bound(h) /\ Fits(INTERVAL, h)
         /\ \A n \in Nat : n <= INTERVAL => Fits(n, h)
BY BoundFacts DEF Fits
-----------------------------------------------------------------------------
LEMMA OneGateAppend ==
  ASSUME NEW s \in Seq({"gate", "resume"}), OneGate(s), NEW v \in {"gate", "resume"},
         v = "gate" => ~Has(s, "gate")
  PROVE  OneGate(Append(s, v))
<1>1. /\ \A i \in 1..Len(s) : Append(s, v)[i] = s[i]
      /\ Append(s, v)[Len(s) + 1] = v
      /\ \A i \in 1..Len(Append(s, v)) : i \in 1..Len(s) \/ i = Len(s) + 1
      /\ DOMAIN s = 1..Len(s) /\ DOMAIN Append(s, v) = 1..Len(Append(s, v))
  OBVIOUS
<1>2. QED
  BY <1>1 DEF OneGate, Has

LEMMA OneGateTail ==
  ASSUME NEW s \in Seq({"gate", "resume"}), s # <<>>, OneGate(s)
  PROVE  OneGate(Tail(s)) /\ (Head(s) = "gate" => ~Has(Tail(s), "gate"))
<1>1. /\ \A i \in 1..Len(Tail(s)) : i + 1 \in 1..Len(s) /\ Tail(s)[i] = s[i + 1]
      /\ Head(s) = s[1] /\ 1 \in 1..Len(s)
      /\ DOMAIN s = 1..Len(s) /\ DOMAIN Tail(s) = 1..Len(Tail(s))
      /\ Len(Tail(s)) \in Nat
  OBVIOUS
<1>2. OneGate(Tail(s))
  BY <1>1 DEF OneGate
<1>3. ASSUME Head(s) = "gate" PROVE ~Has(Tail(s), "gate")
  BY <1>1, <1>3 DEF OneGate, Has
<1>4. QED
  BY <1>2, <1>3
-----------------------------------------------------------------------------
AllInv == SchedulerInv /\ GateInv /\ LimitInv

LEMMA LimitFacts ==
  ASSUME AllInv
  PROVE  /\ core \in Core /\ gate \in Gate /\ Sound(core) /\ history \in History
         /\ core.timer \in Nat /\ core.count \in Nat /\ core.next \in Nat
         /\ core.running <=> core.cb # "none"
         /\ gate.delay \in Nat \union {None} /\ app.delay \in Nat \union {None}
         /\ idle \in Seq({"gate", "resume"})
         /\ history.work \in Nat /\ Bound(history) \in Nat
         /\ INTERVAL \in Nat /\ INTERVAL > 0 /\ WARNING \in Nat
<1>1. history \in History
  BY DEF AllInv, SchedulerInv, TypeOK, History
<1>2. gate.delay \in Nat \union {None}
  BY DEF AllInv, SchedulerInv, TypeOK, Gate
<1>3. QED
  BY <1>1, <1>2, TypeFacts, BoundFacts DEF AllInv

LEMMA LimitInit == Init => LimitInv
<1> SUFFICES ASSUME Init PROVE LimitInv
  OBVIOUS
<1>1. history \in History /\ history.work = 0
  BY ConstantsAssumption DEF Init, History
<1>2. /\ ~gate.dialog /\ ~gate.idleGated /\ gate.delay = None /\ app.delay = None
      /\ core.cb = "do_pre_break" /\ core.timer = INTERVAL /\ core.next = INTERVAL
      /\ idle = <<>> /\ core.running
  BY DEF Init
<1>3. OneGate(idle)
  BY <1>2 DEF OneGate
<1>4. INTERVAL \in Nat
  BY ConstantsAssumption
<1>5. QED
  BY <1>1, <1>2, <1>3, <1>4, FreshFits DEF LimitInv, Scheduled, Short

LEMMA LimitTimeout == AllInv /\ Orderly /\ Timeout => LimitInv'
<1> SUFFICES ASSUME AllInv, Orderly, Timeout PROVE LimitInv'
  OBVIOUS
<1>1. /\ core.cb # "none" /\ core.timer = 0 /\ core.running
      /\ core' = Callback(core, gate).c /\ gate' = Callback(core, gate).g
      /\ UNCHANGED <<idle, monitor, app>>
  BY LimitFacts DEF Timeout, Due, Becomes
<1>2. ~gate.dialog /\ ~gate.idleGated
  BY <1>1, DialogHeld DEF Due, AllInv, LimitInv
<1>3. Scheduled(core, history) /\ core.next <= INTERVAL
  BY <1>2 DEF AllInv, LimitInv
<1>4. CASE core.cb = "do_pre_break"
  <2> DEFINE d == [core EXCEPT !.state = "PRE_BREAK", !.cb = "do_start_break", !.timer = WARNING]
  <2>1. Callback(core, gate) = Pair(d, gate)
    BY <1>1, <1>4, LimitFacts, CallbackEffect
  <2>2. d.cb = "do_start_break" /\ d.timer = WARNING /\ d.next = core.next /\ d.running
    BY <1>1, LimitFacts DEF Core
  <2> HIDE DEF d
  <2>3. /\ core'.cb = "do_start_break" /\ core'.timer = WARNING /\ core'.next = core.next
        /\ core'.running /\ gate' = gate /\ history' = history
    BY <1>1, <1>4, <2>1, <2>2 DEF Pair, Timeout
  <2>4. core.next = 0 /\ Fits(0, history)
    BY <1>1, <1>3, <1>4, LimitFacts DEF Scheduled
  <2>5. Scheduled(core', history')
    BY <2>3, <2>4, LimitFacts DEF Scheduled, Fits
  <2>6. QED
    BY <1>1, <1>2, <2>3, <2>5 DEF AllInv, LimitInv
<1>5. CASE core.cb = "do_start_break"
  <2>1. core' = InBreak(core) /\ gate' = Watching(gate)
    <3>1. Callback(core, gate) = Pair(InBreak(core), Watching(gate))
      BY <1>1, <1>5, LimitFacts, CallbackEffect
    <3>2. QED
      BY <1>1, <3>1 DEF Pair
  <2>2. /\ core'.cb = "countdown" /\ core'.next = core.next /\ core'.running
        /\ ~gate'.dialog /\ ~gate'.idleGated /\ gate'.delay = gate.delay
        /\ history' = history
    BY <1>1, <1>2, <1>5, <2>1, LimitFacts, BreakFields DEF Timeout
  <2>3. Scheduled(core', history')
    BY <1>3, <2>2 DEF Scheduled
  <2>4. QED
    BY <1>1, <2>2, <2>3 DEF AllInv, LimitInv
<1>6. CASE core.cb = "countdown" /\ core.count > 0
  <2> DEFINE d == [core EXCEPT !.count = @ - 1, !.timer = 1]
             h == [gate EXCEPT !.last = core.count, !.gap = 0]
  <2>1. Callback(core, gate) = Pair(d, h)
    BY <1>1, <1>6, LimitFacts, CallbackEffect
  <2>2. /\ d.cb = "countdown" /\ d.next = core.next /\ d.running
        /\ h.dialog = gate.dialog /\ h.idleGated = gate.idleGated /\ h.delay = gate.delay
    BY <1>1, <1>6, LimitFacts DEF Core, Gate
  <2> HIDE DEF d, h
  <2>3. /\ core'.cb = "countdown" /\ core'.next = core.next /\ core'.running
        /\ ~gate'.dialog /\ ~gate'.idleGated /\ gate'.delay = gate.delay
        /\ history' = history
    BY <1>1, <1>2, <1>6, <2>1, <2>2 DEF Pair, Timeout
  <2>4. Scheduled(core', history')
    BY <1>3, <2>3 DEF Scheduled
  <2>5. QED
    BY <1>1, <2>3, <2>4 DEF AllInv, LimitInv
<1>7. CASE core.cb = "countdown" /\ core.count = 0
  <2> DEFINE d == [core EXCEPT !.running = FALSE, !.state = "STOPPED", !.cb = "none", !.timer = 0]
             e == [core EXCEPT !.cb = "job", !.timer = 0]
  <2>1. Callback(core, gate) = Pair(d, Shown(gate)) \/ Callback(core, gate) = Pair(e, gate)
    BY <1>1, <1>7, LimitFacts, CallbackEffect
  <2>2. /\ d.cb = "none" /\ d.next = core.next
        /\ e.cb = "job" /\ e.timer = 0 /\ e.next = core.next /\ e.running
    BY <1>1, LimitFacts DEF Core
  <2>3. /\ Shown(gate).dialog /\ Shown(gate).idleGated = gate.idleGated
        /\ Shown(gate).delay = gate.delay
    BY LimitFacts, ShownFields
  <2> HIDE DEF d, e
  <2>4. \/ core'.cb = "none" /\ gate'.dialog
        \/ core'.cb = "job" /\ core'.timer = 0 /\ core'.running /\ ~gate'.dialog
    BY <1>1, <1>2, <2>1, <2>2, <2>3 DEF Pair
  <2>5. core'.next = core.next /\ ~gate'.idleGated /\ gate'.delay = gate.delay
    BY <1>1, <1>2, <2>1, <2>2, <2>3 DEF Pair
  <2>6. history' = Fresh
    BY <1>1, <1>7, LimitFacts DEF Timeout, Sound
  <2>7. history' \in History /\ history'.work = 0
    BY <2>6, LimitFacts, FreshFacts
  <2>8. Fits(core'.next, history') /\ history'.work <= Bound(history')
    BY <1>3, <2>5, <2>7, LimitFacts, FreshFits
  <2>9. NextBreakTime' = None
    BY <2>5 DEF NextBreakTime
  <2>10. Kept(None, history') /\ Fits(INTERVAL, history')
    BY <2>7, FreshFits DEF Kept, Wait
  <2>11. QED
    BY <1>1, <1>3, <2>4, <2>5, <2>8, <2>9, <2>10 DEF AllInv, LimitInv, Scheduled
<1>8. CASE core.cb = "job"
  <2>1. core' = Waiting(core, INTERVAL) /\ gate' = gate
    <3>1. Callback(core, gate) = Pair(Waiting(core, INTERVAL), gate)
      BY <1>1, <1>8, LimitFacts, CallbackEffect
    <3>2. QED
      BY <1>1, <3>1 DEF Pair
  <2>2. /\ core'.cb = "do_pre_break" /\ core'.timer = INTERVAL /\ core'.next = INTERVAL
        /\ core'.running
    BY <2>1, LimitFacts DEF Waiting, Core
  <2>3. history' = history /\ Fits(INTERVAL, history)
    BY <1>3, <1>8 DEF Timeout, Scheduled
  <2>4. Scheduled(core', history')
    BY <2>2, <2>3, LimitFacts DEF Scheduled
  <2>5. QED
    BY <1>1, <1>2, <2>1, <2>2, <2>3, <2>4, LimitFacts DEF AllInv, LimitInv
<1>9. QED
  BY <1>1, <1>4, <1>5, <1>6, <1>7, <1>8, LimitFacts, TypeFacts DEF AllInv

LEMMA LimitTakeBreak == AllInv /\ TakeBreak => LimitInv'
<1> SUFFICES ASSUME AllInv, TakeBreak PROVE LimitInv'
  OBVIOUS
<1>1. UNCHANGED <<idle, monitor, app, history>>
  BY DEF TakeBreak
<1>2. CASE core.state = "WAITING"
  <2>1. core' = InBreak(core) /\ gate' = Watching(gate)
    <3>1. CoreTakeBreak(core, gate) = Pair(InBreak(core), Watching(gate))
      BY <1>2, LimitFacts, TakeBreakEffect
    <3>2. QED
      BY <3>1 DEF TakeBreak, Becomes, Pair
  <2>2. core.running
    BY <1>2, LimitFacts DEF Sound
  <2>3. /\ core'.cb = "countdown" /\ core'.next = core.next /\ core'.running
        /\ gate'.dialog = gate.dialog /\ gate'.idleGated = gate.idleGated
        /\ gate'.delay = gate.delay
    BY <2>1, <2>2, LimitFacts, BreakFields
  <2>4. NextBreakTime' = NextBreakTime
    BY <2>3 DEF NextBreakTime
  <2>5. Scheduled(core, history) => Scheduled(core', history')
    BY <1>1, <2>3 DEF Scheduled
  <2>6. QED
    BY <1>1, <2>3, <2>4, <2>5 DEF AllInv, LimitInv
<1>3. CASE core.state # "WAITING"
  <2>1. core' = core /\ gate' = gate
    BY <1>3 DEF TakeBreak, Becomes, CoreTakeBreak, Pair
  <2>2. QED
    BY <1>1, <2>1 DEF AllInv, LimitInv, NextBreakTime
<1>4. QED
  BY <1>2, <1>3

\* A stop while no dialog is up.
LEMMA LimitStop ==
  ASSUME AllInv, ~gate.dialog, NEW state \in {"STOPPED", "RESTING"},
         Becomes(CoreStop(core, gate, state)), UNCHANGED <<idle, monitor>>, Short(app'.delay),
         history'.work <= Bound(history'), core.next = 0 \/ Fits(core.next, history'),
         core.cb = "countdown" /\ EndsNaturally(gate) => Fits(INTERVAL, history'),
         app'.active => Kept(app'.delay, history')
  PROVE  LimitInv'
<1>1. /\ core'.cb = "none" /\ ~core'.running /\ core'.next = core.next
      /\ gate' = Answered(core, gate)
  BY LimitFacts, StopFields DEF Becomes
<1>2. ~gate.idleGated
  BY DEF AllInv, LimitInv
<1>3. ~gate'.idleGated /\ gate'.delay = gate.delay
  BY <1>1, <1>2, LimitFacts, ShownFields DEF Answered
<1>4. gate'.dialog => Fits(INTERVAL, history')
  BY <1>1, LimitFacts, ShownFields DEF Answered
<1>5. NextBreakTime' = None /\ Wait(None) = INTERVAL
  BY <1>3 DEF NextBreakTime, Wait
<1>6. Scheduled(core', history')
  BY <1>1 DEF Scheduled
<1>7. QED
  BY <1>1, <1>3, <1>4, <1>5, <1>6 DEF AllInv, LimitInv, Kept

LEMMA LimitDisable == AllInv /\ Orderly /\ Disable => LimitInv'
<1> SUFFICES ASSUME AllInv, Orderly, Disable PROVE LimitInv'
  OBVIOUS
<1>1. /\ ~gate.dialog /\ Becomes(CoreStop(core, gate, "STOPPED"))
      /\ UNCHANGED <<idle, monitor>>
  BY DEF Disable, Commanded, Orderly
<1>2. app'.delay = app.delay /\ ~app'.active
  BY DEF Disable, AllInv, SchedulerInv, TypeOK
<1>3. /\ Scheduled(core, history) /\ core.next <= INTERVAL /\ Short(app.delay)
      /\ history.work <= Bound(history)
  BY <1>1 DEF AllInv, LimitInv
<1>4. core.next = 0 \/ Fits(core.next, history)
  BY <1>3 DEF Scheduled
<1>5. CASE core.cb = "countdown" /\ EndsNaturally(gate)
  <2>1. history' = Restarted
    BY <1>5 DEF Disable
  <2>2. /\ history'.work <= Bound(history') /\ Fits(INTERVAL, history')
        /\ Fits(core.next, history')
    BY <1>3, <2>1, LimitFacts, RestartedFacts
  <2>3. QED
    BY <1>1, <1>2, <1>3, <2>2, LimitStop
<1>6. CASE ~(core.cb = "countdown" /\ EndsNaturally(gate))
  <2>1. history' = history
    BY <1>6 DEF Disable
  <2>2. QED
    BY <1>1, <1>2, <1>3, <1>4, <1>6, <2>1, LimitStop
<1>7. QED
  BY <1>5, <1>6

\* A start of a scheduler that stands still, for what is left of an interval.
LEMMA LimitStart ==
  ASSUME AllInv, ~core.running, ~gate'.dialog, ~gate'.idleGated, Short(gate'.delay),
         NEW delay \in Nat \union {None}, Short(delay), core' = CoreStart(core, delay),
         UNCHANGED <<idle, monitor>> \/ OneGate(idle'), Short(app'.delay),
         history' \in History, history'.work <= Bound(history'), Kept(delay, history')
  PROVE  LimitInv'
<1>1. /\ core'.running /\ core'.cb = "do_pre_break"
      /\ core'.timer = Wait(delay) /\ core'.next = Wait(delay)
  BY LimitFacts, StartFields
<1>2. Wait(delay) \in Nat /\ Wait(delay) <= INTERVAL /\ Fits(Wait(delay), history')
  BY LimitFacts DEF Wait, Short, Kept
<1>3. Scheduled(core', history')
  BY <1>1, <1>2 DEF Scheduled
<1>4. OneGate(idle')
  BY DEF AllInv, LimitInv
<1>5. QED
  BY <1>1, <1>2, <1>3, <1>4 DEF LimitInv

LEMMA LimitEnable == AllInv /\ Orderly /\ Enable => LimitInv'
<1> SUFFICES ASSUME AllInv, Orderly, Enable PROVE LimitInv'
  OBVIOUS
<1>1. /\ ~gate.dialog /\ gate' = gate /\ core' = CoreStart(core, None)
      /\ UNCHANGED <<idle, monitor>>
  BY DEF Enable, Commanded, Orderly
<1>2. app'.delay = app.delay
  BY DEF Enable, AllInv, SchedulerInv, TypeOK
<1>3. ~gate.idleGated /\ Short(gate.delay) /\ Short(app.delay)
  BY <1>1 DEF AllInv, LimitInv
<1>4. CASE core.running
  <2>1. core' = core /\ history' = history
    BY <1>1, <1>4 DEF CoreStart, Enable
  <2>2. QED
    BY <1>1, <1>2, <1>4, <2>1 DEF AllInv, LimitInv
<1>5. CASE ~core.running
  <2>1. history' = Restarted
    BY <1>5 DEF Enable
  <2>2. /\ history' \in History /\ history'.work <= Bound(history')
        /\ Fits(INTERVAL, history')
    <3>1. history.work <= Bound(history)
      BY DEF AllInv, LimitInv
    <3>2. QED
      BY <2>1, <3>1, LimitFacts, RestartedFacts
  <2>3. Kept(None, history') /\ Short(None)
    BY <2>2 DEF Kept, Short, Wait
  <2>4. QED
    BY <1>1, <1>2, <1>3, <1>5, <2>2, <2>3, LimitStart
<1>6. QED
  BY <1>4, <1>5

LEMMA LimitPressStart == AllInv /\ Orderly /\ PressStart => LimitInv'
<1> SUFFICES ASSUME AllInv, Orderly, PressStart PROVE LimitInv'
  OBVIOUS
<1>1. /\ gate.dialog /\ idle = <<>> /\ core' = CoreStart(core, NextBreakTime)
      /\ UNCHANGED <<app, idle, monitor, history>>
  BY DEF PressStart, Orderly
<1>2. ~core.running
  BY <1>1, HasNone DEF AllInv, GateInv
<1>3. ~gate'.dialog /\ ~gate'.idleGated /\ gate'.delay = None
  BY LimitFacts DEF PressStart, Gate
<1>4. NextBreakTime \in Nat \union {None} /\ Short(NextBreakTime)
  BY LimitFacts DEF NextBreakTime, AllInv, LimitInv, Short
<1>5. Kept(NextBreakTime, history) /\ history.work <= Bound(history) /\ Short(app.delay)
  BY <1>1 DEF AllInv, LimitInv
<1>6. Short(gate'.delay)
  BY <1>3 DEF Short
<1>7. QED
  BY <1>1, <1>2, <1>3, <1>4, <1>5, <1>6, LimitStart, LimitFacts

LEMMA LimitIdleCallback == AllInv /\ Orderly /\ IdleCallback => LimitInv'
<1> SUFFICES ASSUME AllInv, Orderly, IdleCallback PROVE LimitInv'
  OBVIOUS
<1>1. idle # <<>> /\ ~Due /\ idle' = Tail(idle) /\ UNCHANGED <<monitor, app>>
  BY DEF IdleCallback
<1>2. /\ OneGate(idle')
      /\ Has(idle', "gate") => Has(idle, "gate")
  BY <1>1, LimitFacts, HasTail, OneGateTail DEF AllInv, LimitInv
<1>3. CASE Head(idle) = "gate"
  <2>1. Has(idle, "gate") /\ ~Has(idle', "gate")
    BY <1>1, <1>3, LimitFacts, HasTail, OneGateTail DEF AllInv, LimitInv
  <2>2. ~gate.idleGated /\ ~monitor.probing
    BY <2>1 DEF AllInv, LimitInv, GateInv
  <2>3. CASE gate.dialog
    <3>1. gate' = [gate EXCEPT !.idleGated = FALSE] /\ core' = core /\ history' = history
      BY <1>3, <2>3 DEF IdleCallback, DoIdleGate
    <3>2. gate'.dialog = gate.dialog /\ ~gate'.idleGated /\ gate'.delay = gate.delay
      BY <3>1, LimitFacts DEF Gate
    <3>3. NextBreakTime' = NextBreakTime
      BY <2>2, <3>2 DEF NextBreakTime
    <3>4. QED
      BY <1>1, <1>2, <2>3, <3>1, <3>2, <3>3 DEF AllInv, LimitInv
  <2>4. CASE ~gate.dialog
    <3> DEFINE h == [gate EXCEPT !.idleGated = TRUE, !.delay = Remaining]
               w == CoreStop(core, h, "STOPPED")
    <3>1. core' = w.c /\ gate' = Shown(w.g) /\ history' = Interrupted
      BY <1>3, <2>4 DEF IdleCallback, DoIdleGate
    <3>2. /\ h \in Gate /\ h.last = gate.last /\ h.idleGated /\ h.delay = Remaining
      BY LimitFacts, TypeFacts DEF Gate, AllInv
    <3>3. ~w.c.running /\ w.c.cb = "none" /\ w.c.next = core.next /\ w.g = Answered(core, h)
      <4> HIDE DEF h
      <4> QED
        BY <3>2, LimitFacts, StopFields
    <3>4. Answered(core, h) = h
      <4> HIDE DEF h
      <4> QED
        BY <1>1, <2>1, <3>2, LateGate DEF AllInv
    <3> HIDE DEF h, w
    <3>5. gate'.dialog /\ gate'.idleGated /\ gate'.delay = Remaining
      BY <3>1, <3>2, <3>3, <3>4, ShownFields
    <3>6. /\ core.next = 0 \/ Fits(core.next, history)
          /\ core.next <= INTERVAL /\ history.work <= Bound(history) /\ Short(app.delay)
      BY <2>4 DEF AllInv, LimitInv, Scheduled
    <3>7. Fits(Remaining, Interrupted) /\ Short(Remaining)
      BY <3>6, LimitFacts, RemainingFits DEF AllInv
    <3>8. NextBreakTime' = Remaining /\ Remaining # None
      BY <3>5, TypeFacts DEF NextBreakTime, AllInv
    <3>9. Kept(NextBreakTime', history') /\ history'.work <= Bound(history')
      BY <3>1, <3>6, <3>7, <3>8, LimitFacts, InterruptedFacts DEF Kept, Wait
    <3>10. core'.next <= INTERVAL /\ ~core'.running
      BY <3>1, <3>3, <3>6
    <3>11. QED
      BY <1>1, <1>2, <2>1, <2>2, <3>5, <3>6, <3>7, <3>9, <3>10 DEF LimitInv
  <2>5. QED
    BY <2>3, <2>4
<1>4. CASE Head(idle) # "gate" /\ gate.dialog
  <2>1. Becomes(CoreStop(core, gate, "STOPPED")) /\ history' = history
    BY <1>4 DEF IdleCallback, OnResumeWhileGating
  <2>2. core'.next = core.next /\ gate' = gate
    BY <1>4, <2>1, LimitFacts, StopFields, DialogHeld DEF Becomes, AllInv
  <2>3. NextBreakTime' = NextBreakTime
    BY <2>2 DEF NextBreakTime
  <2>4. QED
    BY <1>1, <1>2, <1>4, <2>1, <2>2, <2>3 DEF AllInv, LimitInv
<1>5. CASE Head(idle) # "gate" /\ ~gate.dialog
  <2>1. core' = core /\ gate' = gate /\ history' = history
    BY <1>5 DEF IdleCallback, OnResumeWhileGating
  <2>2. QED
    BY <1>1, <1>2, <1>5, <2>1 DEF AllInv, LimitInv
<1>6. QED
  BY <1>3, <1>4, <1>5

LEMMA LimitHandleSleep ==
  ASSUME AllInv, Orderly, HandleSignal, Head(power.signals) = "sleep"
  PROVE  LimitInv'
<1>0. HandleSleep
  BY DEF HandleSignal
<1>1. UNCHANGED <<idle, monitor>>
  BY <1>0 DEF HandleSignal, HandleSleep
<1>2. CASE ~app.active
  <2>1. UNCHANGED <<core, gate, app, history>>
    BY <1>0, <1>2 DEF HandleSleep
  <2>2. NextBreakTime' = NextBreakTime
    BY <2>1 DEF NextBreakTime
  <2>3. QED
    BY <1>1, <2>1, <2>2 DEF AllInv, LimitInv
<1>3. CASE app.active
  <2>1. Becomes(CoreStop(core, gate, "RESTING"))
    BY <1>0, <1>3 DEF HandleSleep
  <2>2. app'.delay = IF core.state \in {"WAITING", "PRE_BREAK"} THEN Remaining ELSE None
    BY <1>0, <1>3 DEF HandleSleep, AllInv, SchedulerInv, TypeOK
  <2>3. history' = IF core.state = "BREAK" THEN Restarted ELSE Interrupted
    BY <1>0, <1>3 DEF HandleSleep
  <2>4. Remaining \in Nat /\ Remaining # None /\ Short(Remaining)
    BY TypeFacts, LimitFacts DEF Remaining, AtLeast, Short, AllInv, LimitInv
  <2>5. Short(app'.delay)
    BY <2>2, <2>4 DEF Short
  <2>6. history.work <= Bound(history) /\ core.next <= INTERVAL
    BY DEF AllInv, LimitInv
  <2>7. history' \in History /\ history'.work <= Bound(history')
    <3>1. CASE core.state = "BREAK"
      BY <2>3, <2>6, <3>1, LimitFacts, RestartedFacts
    <3>2. CASE core.state # "BREAK"
      BY <2>3, <2>6, <3>2, LimitFacts, InterruptedFacts
    <3>3. QED
      BY <3>1, <3>2
  <2>8. CASE gate.dialog
    <3>1. /\ core'.cb = "none" /\ ~core'.running /\ core'.next = core.next
          /\ gate' = gate
      BY <2>1, <2>8, LimitFacts, StopFields, DialogHeld DEF Becomes, AllInv
    <3>2. NextBreakTime' = NextBreakTime /\ Short(NextBreakTime) /\ Kept(NextBreakTime, history)
      BY <2>8, <3>1 DEF NextBreakTime, AllInv, LimitInv, Short
    <3>3. Wait(NextBreakTime) \in Nat
      BY LimitFacts DEF NextBreakTime, Wait
    <3>4. Kept(NextBreakTime, history')
      <4>1. CASE core.state = "BREAK"
        BY <2>3, <3>2, <3>3, <4>1, LimitFacts, RestartedFacts DEF Kept, Fits
      <4>2. CASE core.state # "BREAK"
        BY <2>3, <3>2, <3>3, <4>2, LimitFacts, InterruptedFacts DEF Kept, Fits
      <4>3. QED
        BY <4>1, <4>2
    <3>5. QED
      BY <1>1, <2>5, <2>7, <2>8, <3>1, <3>2, <3>4 DEF AllInv, LimitInv
  <2>9. CASE ~gate.dialog
    <3>1. core.running
      <4>1. ~Resuming
        <5>1. power.signals # <<>> /\ Head(power.signals) # "wake"
          BY DEF HandleSignal
        <5>2. power.signals # <<"wake">>
          <6>1. Head(<<"wake">>) = "wake"
            OBVIOUS
          <6>2. QED
            BY <5>1, <6>1
        <5>3. QED
          BY <5>1, <5>2 DEF Resuming
      <4>2. QED
        BY <1>3, <2>9, <4>1 DEF AllInv, SchedulerInv
    <3>2. Scheduled(core, history)
      BY <2>9 DEF AllInv, LimitInv
    <3>3. CASE core.state = "BREAK"
      <4>1. history' = Restarted /\ app'.delay = None
        BY <2>2, <2>3, <3>3
      <4>2. /\ Fits(core.next, history') /\ Fits(INTERVAL, history')
            /\ Kept(app'.delay, history')
        BY <2>6, <4>1, LimitFacts, RestartedFacts DEF Kept, Wait
      <4>3. QED
        BY <1>1, <2>1, <2>5, <2>7, <2>9, <4>1, <4>2, LimitStop
    <3>4. CASE core.state # "BREAK"
      <4>1. core.state \in {"WAITING", "PRE_BREAK"} /\ core.cb # "countdown"
        BY <3>1, <3>4, LimitFacts DEF Sound, Core
      <4>2. app'.delay = Remaining /\ history' = Interrupted
        BY <2>2, <2>3, <3>4, <4>1
      <4>3. Fits(Remaining, Interrupted)
        BY <2>6, <3>2, LimitFacts, RemainingFits DEF AllInv, Scheduled
      <4>4. Kept(app'.delay, history')
        BY <2>4, <4>2, <4>3 DEF Kept, Wait
      <4>5. core.next = 0 \/ Fits(core.next, history')
        BY <3>2, <4>2, LimitFacts, InterruptedFacts DEF Scheduled, Fits
      <4>6. QED
        BY <1>1, <2>1, <2>5, <2>7, <2>9, <4>1, <4>4, <4>5, LimitStop
    <3>5. QED
      BY <3>3, <3>4
  <2>10. QED
    BY <2>8, <2>9
<1>4. QED
  BY <1>2, <1>3

LEMMA LimitHandleWake == AllInv /\ HandleSignal /\ HandleWake => LimitInv'
<1> SUFFICES ASSUME AllInv, HandleSignal, HandleWake PROVE LimitInv'
  OBVIOUS
<1>1. UNCHANGED <<monitor, gate, history>> /\ idle' = Append(idle, "resume")
  BY DEF HandleSignal, HandleWake
<1>2. /\ OneGate(idle')
      /\ Has(idle', "gate") => Has(idle, "gate")
  BY <1>1, LimitFacts, HasAppend, OneGateAppend DEF AllInv, LimitInv
<1>3. NextBreakTime' = NextBreakTime
  BY <1>1 DEF NextBreakTime
<1>4. CASE ~app.active
  <2>1. UNCHANGED <<core, app>>
    BY <1>4 DEF HandleWake
  <2>2. QED
    BY <1>1, <1>2, <1>3, <2>1 DEF AllInv, LimitInv
<1>5. CASE app.active
  <2>1. app'.delay = None /\ core' = CoreStart(core, app.delay)
    BY <1>5 DEF HandleWake, AllInv, SchedulerInv, TypeOK
  <2>2. Short(app'.delay)
    BY <2>1 DEF Short
  <2>3. CASE core.running
    <3>1. core' = core
      BY <2>1, <2>3 DEF CoreStart
    <3>2. QED
      BY <1>1, <1>2, <1>3, <2>2, <2>3, <3>1 DEF AllInv, LimitInv
  <2>4. CASE ~core.running /\ gate.dialog
    <3>1. core'.running /\ core'.next = Wait(app.delay)
      BY <2>1, <2>4, LimitFacts, StartFields
    <3>2. core'.next <= INTERVAL
      BY <3>1, LimitFacts DEF Wait, Short, AllInv, LimitInv
    <3>3. QED
      BY <1>1, <1>2, <1>3, <2>2, <2>4, <3>1, <3>2 DEF AllInv, LimitInv
  <2>5. CASE ~core.running /\ ~gate.dialog
    <3>1. /\ Kept(app.delay, history) /\ Short(app.delay) /\ Short(gate.delay)
          /\ ~gate.idleGated /\ history.work <= Bound(history)
      BY <1>5, <2>5 DEF AllInv, LimitInv
    <3>2. QED
      BY <1>1, <1>2, <2>1, <2>2, <2>5, <3>1, LimitFacts, LimitStart
  <2>6. QED
    BY <2>3, <2>4, <2>5
<1>6. QED
  BY <1>4, <1>5

LEMMA LimitMonitor == AllInv /\ (Look \/ Probed) => LimitInv'
<1> SUFFICES ASSUME AllInv, Look \/ Probed PROVE LimitInv'
  OBVIOUS
<1>1. UNCHANGED <<core, gate, app, history>>
  BY DEF Look, Probed
<1>2. NextBreakTime' = NextBreakTime
  BY <1>1 DEF NextBreakTime
<1>3. CASE Look
  <2>1. idle' = idle /\ (monitor'.probing => ~gate.idleGated)
    BY <1>3 DEF Look, Away
  <2>2. QED
    BY <1>1, <1>2, <2>1 DEF AllInv, LimitInv
<1>4. CASE Probed
  <2>1. ~gate.idleGated /\ ~Has(idle, "gate")
    BY <1>4 DEF Probed, AllInv, GateInv, LimitInv
  <2>2. OneGate(Append(idle, "gate"))
    BY <2>1, LimitFacts, OneGateAppend DEF AllInv, LimitInv
  <2>3. OneGate(idle')
    BY <1>4, <2>2 DEF Probed, AllInv, LimitInv
  <2>4. QED
    BY <1>1, <1>2, <2>1, <2>3 DEF AllInv, LimitInv
<1>5. QED
  BY <1>3, <1>4

\* Time is work only where a timeout limits it.
LEMMA LimitTick == AllInv /\ Tick => LimitInv'
<1> SUFFICES ASSUME AllInv, Tick PROVE LimitInv'
  OBVIOUS
<1>1. /\ idle = <<>> /\ idle' = <<>> /\ app' = app /\ ~Due
  BY DEF Tick
<1>2. /\ core'.running = core.running /\ core'.cb = core.cb
      /\ core'.timer = AtLeast(core.timer - 1, 0) /\ core'.next = AtLeast(core.next - 1, 0)
      /\ gate'.dialog = gate.dialog /\ gate'.idleGated = gate.idleGated
      /\ gate'.delay = gate.delay
  BY LimitFacts DEF Tick, Core, Gate
<1>3. NextBreakTime' = NextBreakTime
  BY <1>2 DEF NextBreakTime
<1>4. OneGate(idle') /\ ~Has(idle', "gate") /\ monitor'.probing = monitor.probing
  BY <1>1, HasNone DEF OneGate, Tick, AllInv, SchedulerInv, TypeOK
<1>5. core'.next <= INTERVAL /\ core'.next \in Nat
  BY <1>2, LimitFacts DEF AtLeast, AllInv, LimitInv
<1>6. core.cb = "none" \/ core.timer > 0
  BY <1>1, LimitFacts DEF Due
<1>7. CASE gate.dialog
  <2>1. ~core.running
    BY <1>1, <1>7, HasNone DEF AllInv, GateInv
  <2>2. history' = history
    BY <2>1 DEF Tick, Working
  <2>3. QED
    BY <1>1, <1>2, <1>3, <1>4, <1>5, <1>7, <2>2 DEF AllInv, LimitInv
<1>8. CASE ~gate.dialog
  <2>1. Scheduled(core, history)
    BY <1>8 DEF AllInv, LimitInv
  <2>2. CASE core.cb \in {"do_pre_break", "do_start_break"}
    <3>1. history' = [history EXCEPT !.work = @ + 1] /\ core.running
      BY <2>2, LimitFacts DEF Tick, Working, Sound
    <3>2. history'.work = history.work + 1 /\ Bound(history') = Bound(history)
      BY <3>1, LimitFacts DEF Bound, History
    <3>3. core.timer > 0 /\ core'.timer = core.timer - 1
      BY <1>2, <1>6, <2>2, LimitFacts DEF AtLeast
    <3>4. /\ Scheduled(core', history')
          /\ history'.work <= Bound(history')
      <4>1. CASE core.cb = "do_pre_break"
        <5>1. core.next <= core.timer /\ Fits(core.timer, history)
          BY <2>1, <4>1 DEF Scheduled
        <5>2. core'.next <= core'.timer
          BY <1>2, <3>3, <5>1, LimitFacts DEF AtLeast
        <5>3. Fits(core'.timer, history') /\ Fits(core'.next, history')
          <6>1. Fits(core'.timer, history')
            BY <3>2, <3>3, <5>1, LimitFacts DEF Fits
          <6>2. /\ core'.timer \in Nat /\ history'.work \in Nat /\ Bound(history') \in Nat
                /\ core'.next \in Nat /\ WARNING \in Nat
            <7>1. core.timer \in Nat /\ history.work \in Nat /\ Bound(history) \in Nat /\ WARNING \in Nat
              BY LimitFacts
            <7>2. core'.timer \in Nat
              BY <3>3, <7>1
            <7>3. history'.work \in Nat /\ Bound(history') \in Nat
              BY <3>2, <7>1
            <7>4. QED
              BY <1>5, <7>1, <7>2, <7>3
          <6>3. Fits(core'.next, history')
            BY <5>2, <6>1, <6>2 DEF Fits
          <6>4. QED
            BY <6>1, <6>3
        <5>4. history'.work <= Bound(history')
          BY <3>2, <3>3, <5>1, LimitFacts DEF Fits
        <5>5. QED
          BY <1>2, <4>1, <5>2, <5>3, <5>4 DEF Scheduled
      <4>2. CASE core.cb = "do_start_break"
        <5>1. core.next = 0 /\ history.work + core.timer <= Bound(history)
          BY <2>1, <4>2 DEF Scheduled
        <5>2. core'.next = 0 /\ history'.work + core'.timer <= Bound(history')
          BY <1>2, <3>2, <3>3, <5>1, LimitFacts DEF AtLeast
        <5>3. history'.work <= Bound(history')
          BY <3>2, <3>3, <5>1, LimitFacts
        <5>4. QED
          BY <1>2, <4>2, <5>2, <5>3 DEF Scheduled
      <4>3. QED
        BY <2>2, <4>1, <4>2
    <3>5. QED
      BY <1>1, <1>2, <1>3, <1>4, <1>5, <1>8, <3>1, <3>4 DEF AllInv, LimitInv
  <2>3. CASE core.cb \in {"none", "countdown", "job"}
    <3>1. history' = history /\ core.cb # "job"
      BY <1>6, <2>1, <2>3, LimitFacts DEF Tick, Working, Sound, Scheduled
    <3>2. core'.next = 0 \/ Fits(core'.next, history')
      <4>1. core.next = 0 \/ Fits(core.next, history)
        BY <2>1 DEF Scheduled
      <4>2. core.next \in Nat /\ core'.next = IF core.next - 1 < 0 THEN 0 ELSE core.next - 1
        BY <1>2, LimitFacts DEF AtLeast
      <4>3. history'.work = history.work /\ Bound(history') = Bound(history)
        BY <3>1
      <4>4. history.work \in Nat /\ Bound(history) \in Nat /\ WARNING \in Nat
        BY LimitFacts
      <4>5. QED
        BY <4>1, <4>2, <4>3, <4>4 DEF Fits
    <3>3. Scheduled(core', history')
      BY <1>2, <2>3, <3>1, <3>2 DEF Scheduled
    <3>4. QED
      BY <1>1, <1>2, <1>3, <1>4, <1>5, <1>8, <3>1, <3>3 DEF AllInv, LimitInv
  <2>4. QED
    BY <2>2, <2>3, LimitFacts DEF Core
<1>9. QED
  BY <1>7, <1>8

LEMMA LimitElsewhere ==
  ASSUME AllInv,
         \/ PrepareForSleep \/ FallAsleep \/ \E nap \in Naps : WakeUp(nap)
         \/ Input \/ UNCHANGED vars
  PROVE  LimitInv'
<1>1. UNCHANGED <<idle, monitor, app>>
  BY DEF PrepareForSleep, FallAsleep, WakeUp, Input, vars
<1>2. /\ core'.running = core.running /\ core'.cb = core.cb /\ core'.timer = core.timer
      /\ gate'.dialog = gate.dialog /\ gate'.idleGated = gate.idleGated
      /\ gate'.delay = gate.delay
  BY LimitFacts DEF PrepareForSleep, FallAsleep, WakeUp, Input, vars, Core, Gate
<1>3. core'.next \in Nat /\ core'.next <= core.next
  <2>1. ASSUME NEW nap \in Naps, WakeUp(nap)
        PROVE  core'.next \in Nat /\ core'.next <= core.next
    BY <2>1, LimitFacts, ConstantsAssumption DEF WakeUp, AtLeast, Core
  <2>2. QED
    BY <2>1, LimitFacts DEF PrepareForSleep, FallAsleep, Input, vars
<1>4. history'.work = history.work /\ Bound(history') = Bound(history)
  BY LimitFacts DEF PrepareForSleep, FallAsleep, WakeUp, Input, vars, History, Bound
<1>5. NextBreakTime' = NextBreakTime
  BY <1>2 DEF NextBreakTime
<1>6. Scheduled(core, history) => Scheduled(core', history')
  BY <1>2, <1>3, <1>4, LimitFacts DEF Scheduled, Fits
<1>7. \A delay : Kept(delay, history) => Kept(delay, history')
  BY <1>4 DEF Kept, Fits
<1>8. QED
  BY <1>1, <1>2, <1>3, <1>4, <1>5, <1>6, <1>7, LimitFacts DEF AllInv, LimitInv

LEMMA LimitNext == AllInv /\ Orderly /\ [Next]_vars => LimitInv'
BY LimitTimeout, LimitTakeBreak, LimitDisable, LimitEnable, LimitPressStart,
   LimitIdleCallback, LimitHandleSleep, LimitHandleWake, LimitMonitor, LimitTick,
   LimitElsewhere DEF Next, HandleSignal

THEOREM LimitInvariant ==
  ASSUME Orderly
  PROVE  Spec => []AllInv
<1>1. Init => AllInv
  BY SchedulerInit, GateInit, LimitInit DEF AllInv
<1>2. AllInv /\ [Next]_vars => AllInv'
  BY SchedulerNext, GateNext, LimitNext DEF AllInv
<1>3. QED
  BY <1>1, <1>2, PTL DEF Spec

\* Between two breaks that ran to their end there is no more work than an
\* interval and its warning for each start of one, and a warning and a rounding
\* for each interruption (core.py, handle_suspend_callback, _do_idle_gate): for
\* any intervals, naps, suspends and -d, under the assumptions of the gate's
\* theorem.
THEOREM WorkBoundedHolds ==
  ASSUME Orderly
  PROVE  Spec => []WorkBounded
<1>1. AllInv => WorkBounded
  BY DEF AllInv, LimitInv, WorkBounded, Bound
<1>2. QED
  BY <1>1, LimitInvariant, PTL
=============================================================================
