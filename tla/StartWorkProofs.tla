--------------------------- MODULE StartWorkProofs ---------------------------
(***************************************************************************)
(* What StartWork keeps for every length of intervals, breaks and naps and *)
(* any number of suspends.  First, what the scheduler's functions do to a  *)
(* scheduler whose callback fits its state; then one invariant for the     *)
(* scheduler and the suspend, one for the gate, one for the work.          *)
(***************************************************************************)
EXTENDS StartWork, SequenceTheorems, TLAPS

\* A scheduler that has a timeout pending exactly while it runs, and the
\* callback that belongs to its state.
Sound(c) ==
  /\ ~c.raised
  /\ c.running <=> c.cb # "none"
  /\ c.state = "WAITING" <=> c.cb = "do_pre_break"
  /\ c.state = "PRE_BREAK" <=> c.cb = "do_start_break"
  /\ c.state = "BREAK" <=> c.cb \in {"countdown", "job"}

\* The plugin's dialog is the answer to a break that stops.
Answered(c, g) == IF c.cb = "countdown" /\ EndsNaturally(g) THEN Shown(g) ELSE g

\* A break in its first step, and the plugin that has seen this step.
InBreak(c) ==
  [c EXCEPT !.state = "BREAK", !.cb = "countdown", !.timer = 1, !.count = DURATION - 1]
Watching(g) == [g EXCEPT !.last = DURATION, !.gap = 0]

\* A scheduler that was stopped while it ran.
Stopped(c, state) ==
  [c EXCEPT !.running = FALSE, !.state = state, !.cb = "none", !.timer = 0,
            !.count = IF c.cb = "countdown" THEN 0 ELSE @]

\* A dialog has a window.
Windowed(g) == g.dialog => g.windows > 0

\* A whole interval, or what remained of one.
Waiting(c, wait) ==
  [c EXCEPT !.running = TRUE, !.state = "WAITING", !.cb = "do_pre_break",
            !.timer = wait, !.next = wait]
Wait(delay) == IF delay = None THEN INTERVAL ELSE delay
-----------------------------------------------------------------------------
\* stop: the pending callback finds the scheduler stopped; a break that is
\* being counted down is over, and may be answered by the dialog.
LEMMA StopEffect ==
  ASSUME NEW c \in Core, NEW g \in Gate, Sound(c), c.running,
         NEW state \in {"STOPPED", "RESTING"}
  PROVE  CoreStop(c, g, state) = Pair(Stopped(c, state), Answered(c, g))
<1> DEFINE e == [c EXCEPT !.running = FALSE, !.state = state]
           d == Unarmed(e)
           s == Stopped(c, state)
<1>1. e.cb = c.cb /\ c.cb # "none"
  BY DEF Sound, Core
<1>2. CoreStop(c, g, state) = Callback(e, g)
  BY <1>1 DEF CoreStop, Wakeup
<1>3. d = [c EXCEPT !.running = FALSE, !.state = state, !.cb = "none", !.timer = 0]
  BY DEF Unarmed, Core
<1>4. ~d.running
  BY <1>3 DEF Core
<1>5. CASE c.cb # "countdown"
  <2>1. Callback(e, g) = Pair(d, g)
    <3> HIDE DEF e
    <3>1. CASE c.cb = "do_pre_break"
      BY <1>1, <1>4, <3>1 DEF Callback, DoPreBreak
    <3>2. CASE c.cb = "do_start_break"
      BY <1>1, <1>4, <3>2 DEF Callback, DoStartBreak
    <3>3. CASE c.cb = "job"
      BY <1>1, <1>4, <3>3 DEF Callback
    <3>4. QED
      BY <1>1, <1>5, <3>1, <3>2, <3>3 DEF Core
  <2>2. d = s
    BY <1>3, <1>5 DEF Core, Stopped
  <2>3. QED
    BY <1>2, <1>5, <2>1, <2>2 DEF Answered
<1>6. CASE c.cb = "countdown"
  <2>1. Callback(e, g) = FireStopBreak([d EXCEPT !.count = 0], g)
    <3> HIDE DEF e
    <3> QED
      BY <1>1, <1>4, <1>6 DEF Callback, CycleBreakCountdown
  <2>2. [d EXCEPT !.count = 0] = s
    BY <1>3, <1>6 DEF Core, Stopped
  <2>3. ~s.running
    BY DEF Core, Stopped
  <2>4. FireStopBreak(s, g) = Pair(s, Answered(c, g))
    <3> HIDE DEF s
    <3> QED
      BY <1>6, <2>3 DEF FireStopBreak, Answered
  <2>5. QED
    BY <1>2, <2>1, <2>2, <2>4
<1>7. QED
  BY <1>5, <1>6

\* start, of a scheduler that stands still.
LEMMA StartEffect ==
  ASSUME NEW c \in Core, Sound(c), ~c.running, NEW delay
  PROVE  CoreStart(c, delay) = Waiting(c, Wait(delay))
<1> DEFINE r == [c EXCEPT !.running = TRUE]
           u == [r EXCEPT !.state = "WAITING", !.next = Wait(delay)]
<1>1. u.cb = "none"
  BY DEF Sound, Core
<1>2. [u EXCEPT !.cb = "do_pre_break", !.timer = Wait(delay)] = Waiting(c, Wait(delay))
  BY DEF Waiting, Core
<1>3. CoreStart(c, delay) = WaitFor(u, Wait(delay), "do_pre_break")
  BY DEF CoreStart, SchedulerJob, Wait
<1> HIDE DEF u
<1>4. QED
  BY <1>1, <1>2, <1>3 DEF WaitFor

\* A break begins.
LEMMA BreakEffect ==
  ASSUME NEW c \in Core, NEW g \in Gate, c.running
  PROVE  DoStartBreak(Unarmed(c), g) = Pair(InBreak(c), Watching(g))
<1> DEFINE d == [Unarmed(c) EXCEPT !.state = "BREAK", !.count = DURATION]
           e == [d EXCEPT !.count = @ - 1]
           h == [g EXCEPT !.last = None, !.gap = 0]
<1>1. Unarmed(c).running
  BY DEF Unarmed, Core
<1>2. /\ d.count = DURATION /\ d.running
      /\ e.cb = "none" /\ [e EXCEPT !.cb = "countdown", !.timer = 1] = InBreak(c)
  BY ConstantsAssumption DEF Unarmed, InBreak, Core
<1>3. [h EXCEPT !.last = DURATION, !.gap = 0] = Watching(g)
  BY DEF Watching, Gate
<1>4. DURATION > 0
  BY ConstantsAssumption
<1>5. DoStartBreak(Unarmed(c), g) = CycleBreakCountdown(d, h)
  BY <1>1 DEF DoStartBreak
<1>6. WaitFor(e, 1, "countdown") = InBreak(c)
  <2> HIDE DEF e
  <2> QED
    BY <1>2 DEF WaitFor
<1>7. CycleBreakCountdown(d, h) = Pair(InBreak(c), Watching(g))
  <2>1. CycleBreakCountdown(d, h) =
          Pair(WaitFor(e, 1, "countdown"), [h EXCEPT !.last = d.count, !.gap = 0])
    <3> HIDE DEF h
    <3> QED
      BY <1>2, <1>4 DEF CycleBreakCountdown
  <2>2. QED
    BY <2>1, <1>2, <1>3, <1>6
<1>8. QED
  BY <1>5, <1>7

\* -b, from the state in which it is not refused.
LEMMA TakeBreakEffect ==
  ASSUME NEW c \in Core, NEW g \in Gate, Sound(c), c.state = "WAITING"
  PROVE  CoreTakeBreak(c, g) = Pair(InBreak(c), Watching(g))
<1>1. c.cb = "do_pre_break" /\ c.running
  BY DEF Sound
<1>2. QED
  BY <1>1, BreakEffect DEF CoreTakeBreak

\* The pending callback, of a scheduler that runs.
LEMMA CallbackEffect ==
  ASSUME NEW c \in Core, NEW g \in Gate, Sound(c), c.cb # "none"
  PROVE  /\ c.cb = "do_pre_break" =>
              Callback(c, g) = Pair([c EXCEPT !.state = "PRE_BREAK", !.cb = "do_start_break",
                                              !.timer = WARNING], g)
         /\ c.cb = "do_start_break" => Callback(c, g) = Pair(InBreak(c), Watching(g))
         /\ c.cb = "countdown" /\ c.count > 0 =>
              Callback(c, g) = Pair([c EXCEPT !.count = @ - 1, !.timer = 1],
                                    [g EXCEPT !.last = c.count, !.gap = 0])
         /\ c.cb = "countdown" /\ c.count = 0 =>
              Callback(c, g) =
                IF EndsNaturally(g)
                THEN Pair([c EXCEPT !.running = FALSE, !.state = "STOPPED", !.cb = "none",
                                    !.timer = 0], Shown(g))
                ELSE Pair([c EXCEPT !.cb = "job", !.timer = 0], g)
         /\ c.cb = "job" => Callback(c, g) = Pair(Waiting(c, INTERVAL), g)
<1> DEFINE d == Unarmed(c)
<1>1. d = [c EXCEPT !.cb = "none", !.timer = 0] /\ c.running /\ d.running
      /\ d.cb = "none" /\ d.count = c.count
  BY DEF Unarmed, Sound, Core
<1>2. ASSUME c.cb = "do_pre_break"
      PROVE  Callback(c, g) = Pair([c EXCEPT !.state = "PRE_BREAK", !.cb = "do_start_break",
                                             !.timer = WARNING], g)
  <2> DEFINE e == [d EXCEPT !.state = "PRE_BREAK"]
  <2>1. e.cb = "none" /\ [e EXCEPT !.cb = "do_start_break", !.timer = WARNING]
          = [c EXCEPT !.state = "PRE_BREAK", !.cb = "do_start_break", !.timer = WARNING]
    BY <1>1 DEF Core
  <2>2. Callback(c, g) = Pair(WaitFor(e, WARNING, "do_start_break"), g)
    BY <1>1, <1>2 DEF Callback, DoPreBreak
  <2> HIDE DEF e
  <2>3. QED
    BY <2>1, <2>2 DEF WaitFor
<1>3. ASSUME c.cb = "do_start_break"
      PROVE  Callback(c, g) = Pair(InBreak(c), Watching(g))
  BY <1>1, <1>3, BreakEffect DEF Callback
<1>4. ASSUME c.cb = "countdown", c.count > 0
      PROVE  Callback(c, g) = Pair([c EXCEPT !.count = @ - 1, !.timer = 1],
                                   [g EXCEPT !.last = c.count, !.gap = 0])
  <2> DEFINE e == [d EXCEPT !.count = @ - 1]
  <2>1. e.cb = "none" /\ [e EXCEPT !.cb = "countdown", !.timer = 1]
          = [c EXCEPT !.count = @ - 1, !.timer = 1]
    BY <1>1, <1>4 DEF Core
  <2>2. Callback(c, g) =
          Pair(WaitFor(e, 1, "countdown"), [g EXCEPT !.last = c.count, !.gap = 0])
    BY <1>1, <1>4 DEF Callback, CycleBreakCountdown
  <2> HIDE DEF e
  <2>3. QED
    BY <2>1, <2>2 DEF WaitFor
<1>5. ASSUME c.cb = "countdown", c.count = 0
      PROVE  Callback(c, g) =
                IF EndsNaturally(g)
                THEN Pair([c EXCEPT !.running = FALSE, !.state = "STOPPED", !.cb = "none",
                                    !.timer = 0], Shown(g))
                ELSE Pair([c EXCEPT !.cb = "job", !.timer = 0], g)
  <2> DEFINE e == [d EXCEPT !.count = 0]
  <2>1. /\ e.cb = "none" /\ e.running
        /\ [e EXCEPT !.cb = "job", !.timer = 0] = [c EXCEPT !.cb = "job", !.timer = 0]
        /\ [e EXCEPT !.running = FALSE, !.state = "STOPPED"]
             = [c EXCEPT !.running = FALSE, !.state = "STOPPED", !.cb = "none", !.timer = 0]
        /\ ~[e EXCEPT !.running = FALSE, !.state = "STOPPED"].running
    BY <1>1, <1>5 DEF Core
  <2>2. Callback(c, g) = FireStopBreak(e, g)
    BY <1>1, <1>5 DEF Callback, CycleBreakCountdown
  <2> HIDE DEF e
  <2>3. QED
    BY <2>1, <2>2 DEF FireStopBreak, WaitFor
<1>6. ASSUME c.cb = "job"
      PROVE  Callback(c, g) = Pair(Waiting(c, INTERVAL), g)
  <2> DEFINE e == [d EXCEPT !.state = "WAITING", !.next = INTERVAL]
  <2>1. e.cb = "none" /\ [e EXCEPT !.cb = "do_pre_break", !.timer = INTERVAL]
                           = Waiting(c, INTERVAL)
    <3>1. e.cb = "none"
      BY <1>1 DEF Core
    <3>2. [e EXCEPT !.cb = "do_pre_break", !.timer = INTERVAL]
            = [c EXCEPT !.state = "WAITING", !.cb = "do_pre_break", !.timer = INTERVAL,
                        !.next = INTERVAL]
      BY <1>1 DEF Core
    <3>3. [c EXCEPT !.state = "WAITING", !.cb = "do_pre_break", !.timer = INTERVAL,
                    !.next = INTERVAL]
            = Waiting(c, INTERVAL)
      BY <1>1 DEF Waiting, Core
    <3>4. QED
      BY <3>1, <3>2, <3>3
  <2>2. Callback(c, g) = Pair(WaitFor(e, INTERVAL, "do_pre_break"), g)
    BY <1>1, <1>6 DEF Callback, SchedulerJob
  <2> HIDE DEF e
  <2>3. QED
    BY <2>1, <2>2 DEF WaitFor
<1>7. QED
  BY <1>2, <1>3, <1>4, <1>5, <1>6
-----------------------------------------------------------------------------
(***************************************************************************)
(* The scheduler and the suspend.                                          *)
(***************************************************************************)
\* The machine is about to resume, and has let the scheduler know of its
\* suspend already.
Resuming ==
  \/ power.signals = <<"wake">>
  \/ power.at # "on" /\ power.signals = <<>>

Signals ==
  /\ power.at = "on" => power.signals \in {<<>>, <<"wake">>, <<"sleep", "wake">>}
  /\ power.at # "on" => power.signals \in {<<>>, <<"sleep">>}

SchedulerInv ==
  /\ TypeOK
  /\ Sound(core)
  /\ Signals
  /\ Windowed(gate)
  /\ core.running \/ gate.dialog \/ ~app.active \/ Resuming

LEMMA AppendToOne ==
  ASSUME NEW S, NEW a \in S, NEW b \in S
  PROVE  Append(<<a>>, b) = <<a, b>>
<1> DEFINE s == <<a>>
           t == <<a, b>>
<1>1. /\ s \in Seq(S) /\ Len(s) = 1 /\ s[1] = a
      /\ t \in Seq(S) /\ Len(t) = 2 /\ t[1] = a /\ t[2] = b
  OBVIOUS
<1> HIDE DEF s, t
<1>2. /\ Append(s, b) \in Seq(S) /\ Len(Append(s, b)) = 2
      /\ Append(s, b)[1] = a /\ Append(s, b)[2] = b
  BY <1>1, SMTT(30)
<1>3. \A i \in 1..Len(t) : Append(s, b)[i] = t[i]
  BY <1>1, <1>2
<1>4. Append(s, b) = t
  BY <1>1, <1>2, <1>3, SeqEqual
<1>5. QED
  BY <1>4 DEF s, t

\* The few sequences of signals there are.
LEMMA SignalFacts ==
  /\ Tail(<<"sleep">>) = <<>>
  /\ Tail(<<"wake">>) = <<>>
  /\ Tail(<<"sleep", "wake">>) = <<"wake">>
  /\ Append(<<>>, "wake") = <<"wake">>
  /\ Append(<<"sleep">>, "wake") = <<"sleep", "wake">>
  /\ <<"wake">> # <<>>
  /\ <<"sleep">> # <<>>
  /\ <<"sleep", "wake">> # <<>>
  /\ <<"sleep">> # <<"wake">>
  /\ <<"sleep", "wake">> # <<"wake">>
  /\ <<"sleep", "wake">> # <<"sleep">>
  /\ {<<>>, <<"wake">>, <<"sleep">>, <<"sleep", "wake">>} \subseteq Seq({"sleep", "wake"})
<1>1. Tail(<<"sleep">>) = <<>>
  OBVIOUS
<1>2. Tail(<<"wake">>) = <<>>
  OBVIOUS
<1>3. Tail(<<"sleep", "wake">>) = <<"wake">>
  OBVIOUS
<1>4. Append(<<>>, "wake") = <<"wake">>
  OBVIOUS
<1>5. Append(<<"sleep">>, "wake") = <<"sleep", "wake">>
  <2>1. "sleep" \in {"sleep", "wake"} /\ "wake" \in {"sleep", "wake"}
    OBVIOUS
  <2>2. QED
    BY <2>1, AppendToOne
<1>6. <<"wake">> # <<>> /\ <<"sleep">> # <<>> /\ <<"sleep", "wake">> # <<>>
  OBVIOUS
<1>7. <<"sleep">> # <<"wake">> /\ <<"sleep", "wake">> # <<"wake">> /\ <<"sleep", "wake">> # <<"sleep">>
  OBVIOUS
<1>8. {<<>>, <<"wake">>, <<"sleep">>, <<"sleep", "wake">>} \subseteq Seq({"sleep", "wake"})
  <2>1. <<>> \in Seq({"sleep", "wake"})
    OBVIOUS
  <2>2. <<"wake">> \in Seq({"sleep", "wake"})
    OBVIOUS
  <2>3. <<"sleep">> \in Seq({"sleep", "wake"})
    OBVIOUS
  <2>4. <<"sleep", "wake">> \in Seq({"sleep", "wake"})
    OBVIOUS
  <2>5. QED
    BY <2>1, <2>2, <2>3, <2>4
<1>9. QED
  BY <1>1, <1>2, <1>3, <1>4, <1>5, <1>6, <1>7, <1>8

LEMMA SchedulerInit == Init => SchedulerInv
<1> SUFFICES ASSUME Init PROVE SchedulerInv
  OBVIOUS
<1>1. core \in Core
  BY ConstantsAssumption DEF Init, Core
<1>2. gate \in Gate
  BY DEF Init, Gate, None
<1>3. TypeOK
  BY <1>1, <1>2, ConstantsAssumption DEF Init, TypeOK, History, None
<1>4. QED
  BY <1>3 DEF Init, SchedulerInv, Sound, Signals, Windowed

\* The fields that a record inherits or that are new decide what it is.
LEMMA SoundFields ==
  ASSUME NEW c, ~c.raised,
         \/ ~c.running /\ c.cb = "none" /\ c.state \in {"STOPPED", "RESTING"}
         \/ c.running /\ c.cb = "do_pre_break" /\ c.state = "WAITING"
         \/ c.running /\ c.cb = "do_start_break" /\ c.state = "PRE_BREAK"
         \/ c.running /\ c.cb \in {"countdown", "job"} /\ c.state = "BREAK"
  PROVE  Sound(c)
BY DEF Sound

LEMMA BreakSound ==
  ASSUME NEW c \in Core, NEW g \in Gate, Sound(c)
  PROVE  /\ InBreak(c) \in Core /\ Watching(g) \in Gate
         /\ c.running => Sound(InBreak(c)) /\ InBreak(c).running
         /\ Watching(g).dialog = g.dialog /\ Watching(g).windows = g.windows
<1>1. InBreak(c) \in Core
  <2>1. DURATION - 1 \in Nat
    BY ConstantsAssumption
  <2>2. QED
    BY <2>1 DEF InBreak, Core
<1>2. Watching(g) \in Gate
  BY ConstantsAssumption DEF Watching, Gate
<1>3. Watching(g).dialog = g.dialog /\ Watching(g).windows = g.windows
  BY DEF Watching, Gate
<1>4. /\ InBreak(c).cb = "countdown" /\ InBreak(c).state = "BREAK"
      /\ ~InBreak(c).raised /\ InBreak(c).running = c.running
  BY DEF InBreak, Core, Sound
<1>5. QED
  BY <1>1, <1>2, <1>3, <1>4, SoundFields

LEMMA WaitingSound ==
  ASSUME NEW c \in Core, Sound(c), NEW wait \in Nat
  PROVE  Waiting(c, wait) \in Core /\ Sound(Waiting(c, wait)) /\ Waiting(c, wait).running
<1>1. Waiting(c, wait) \in Core
  BY DEF Waiting, Core
<1>2. /\ Waiting(c, wait).cb = "do_pre_break" /\ Waiting(c, wait).state = "WAITING"
      /\ ~Waiting(c, wait).raised /\ Waiting(c, wait).running
  BY DEF Waiting, Core, Sound
<1>3. QED
  BY <1>1, <1>2, SoundFields

LEMMA ShownFields ==
  ASSUME NEW g \in Gate
  PROVE  /\ Shown(g) \in Gate /\ Shown(g).dialog
         /\ Shown(g).windows = g.windows + 1
         /\ Shown(g).idleGated = g.idleGated /\ Shown(g).delay = g.delay
         /\ Shown(g).last = g.last /\ Shown(g).gap = g.gap
<1>1. Shown(g) \in Gate
  <2>1. g.windows + 1 \in Nat
    BY DEF Gate
  <2>2. QED
    BY <2>1 DEF Shown, Gate
<1>2. QED
  BY <1>1 DEF Shown, Gate

\* A callback leaves a scheduler that runs or a dialog.
LEMMA CallbackSound ==
  ASSUME NEW c \in Core, NEW g \in Gate, Sound(c), c.cb # "none"
  PROVE  LET w == Callback(c, g)
         IN  /\ w.c \in Core /\ w.g \in Gate /\ Sound(w.c)
             /\ w.c.running \/ w.g.dialog
             /\ Windowed(g) => Windowed(w.g)
<1>1. CASE c.cb = "do_pre_break"
  <2> DEFINE d == [c EXCEPT !.state = "PRE_BREAK", !.cb = "do_start_break", !.timer = WARNING]
  <2>1. Callback(c, g) = Pair(d, g)
    BY <1>1, CallbackEffect
  <2>2. d \in Core
    BY ConstantsAssumption DEF Core
  <2>3. d.running /\ ~d.raised /\ d.cb = "do_start_break" /\ d.state = "PRE_BREAK"
    BY <1>1 DEF Core, Sound
  <2> HIDE DEF d
  <2>4. QED
    BY <2>1, <2>2, <2>3, SoundFields DEF Pair
<1>2. CASE c.cb = "do_start_break"
  <2>1. Callback(c, g) = Pair(InBreak(c), Watching(g)) /\ c.running
    BY <1>2, CallbackEffect DEF Sound
  <2>2. QED
    BY <2>1, BreakSound DEF Pair, Windowed
<1>3. CASE c.cb = "countdown" /\ c.count > 0
  <2> DEFINE d == [c EXCEPT !.count = @ - 1, !.timer = 1]
             h == [g EXCEPT !.last = c.count, !.gap = 0]
  <2>1. Callback(c, g) = Pair(d, h)
    BY <1>3, CallbackEffect
  <2>2. d \in Core
    <3>1. c.count - 1 \in Nat
      BY <1>3 DEF Core
    <3>2. QED
      BY <3>1 DEF Core
  <2>3. h \in Gate /\ h.dialog = g.dialog /\ h.windows = g.windows
    BY DEF Core, Gate
  <2>4. d.running /\ ~d.raised /\ d.cb = "countdown" /\ d.state = "BREAK"
    BY <1>3 DEF Core, Sound
  <2> HIDE DEF d, h
  <2>5. QED
    BY <2>1, <2>2, <2>3, <2>4, SoundFields DEF Pair, Windowed
<1>4. CASE c.cb = "countdown" /\ c.count = 0
  <2> DEFINE d == [c EXCEPT !.running = FALSE, !.state = "STOPPED", !.cb = "none", !.timer = 0]
             e == [c EXCEPT !.cb = "job", !.timer = 0]
  <2>1. Callback(c, g) = Pair(d, Shown(g)) \/ Callback(c, g) = Pair(e, g)
    BY <1>4, CallbackEffect
  <2>2. d \in Core /\ e \in Core
    BY DEF Core
  <2>3. /\ ~d.running /\ ~d.raised /\ d.cb = "none" /\ d.state = "STOPPED"
        /\ e.running /\ ~e.raised /\ e.cb = "job" /\ e.state = "BREAK"
    BY <1>4 DEF Core, Sound
  <2>4. Windowed(Shown(g))
    BY ShownFields DEF Windowed, Gate
  <2> HIDE DEF d, e
  <2>5. QED
    BY <2>1, <2>2, <2>3, <2>4, SoundFields, ShownFields DEF Pair
<1>5. CASE c.cb = "job"
  <2>1. Callback(c, g) = Pair(Waiting(c, INTERVAL), g)
    BY <1>5, CallbackEffect
  <2>2. QED
    BY <2>1, WaitingSound, ConstantsAssumption DEF Pair
<1>6. QED
  <2>1. c.count > 0 \/ c.count = 0
    BY DEF Core
  <2>2. c.cb \in {"do_pre_break", "do_start_break", "countdown", "job"}
    BY DEF Core
  <2>3. QED
    BY <1>1, <1>2, <1>3, <1>4, <1>5, <2>1, <2>2

\* A stop leaves one that stands still.
LEMMA StopSound ==
  ASSUME NEW c \in Core, NEW g \in Gate, Sound(c), NEW state \in {"STOPPED", "RESTING"}
  PROVE  LET w == CoreStop(c, g, state)
         IN  /\ w.c \in Core /\ w.g \in Gate /\ Sound(w.c)
             /\ ~w.c.running /\ w.c.next = c.next
             /\ g.dialog => w.g.dialog
             /\ Windowed(g) => Windowed(w.g)
<1>1. CASE c.running
  <2> DEFINE d == Stopped(c, state)
  <2>1. CoreStop(c, g, state) = Pair(d, Answered(c, g))
    BY <1>1, StopEffect
  <2>2. /\ Answered(c, g) \in Gate /\ (g.dialog => Answered(c, g).dialog)
        /\ Windowed(g) => Windowed(Answered(c, g))
    BY ShownFields DEF Answered, Windowed, Gate
  <2>3. d \in Core
    BY DEF Core, Stopped
  <2>4. /\ ~d.running /\ ~d.raised /\ d.cb = "none" /\ d.state \in {"STOPPED", "RESTING"}
        /\ d.next = c.next
    BY DEF Core, Sound, Stopped
  <2>5. QED
    BY <2>1, <2>2, <2>3, <2>4, SoundFields DEF Pair
<1>2. CASE ~c.running
  BY <1>2 DEF CoreStop, Pair
<1>3. QED
  BY <1>1, <1>2

\* A start leaves one that runs.
LEMMA StartSound ==
  ASSUME NEW c \in Core, Sound(c), NEW delay \in Nat \union {None}
  PROVE  /\ CoreStart(c, delay) \in Core
         /\ Sound(CoreStart(c, delay))
         /\ CoreStart(c, delay).running
<1>1. CASE c.running
  BY <1>1 DEF CoreStart
<1>2. CASE ~c.running
  <2>1. CoreStart(c, delay) = Waiting(c, Wait(delay))
    BY <1>2, StartEffect
  <2>2. Wait(delay) \in Nat
    BY ConstantsAssumption DEF Wait
  <2>3. QED
    BY <2>1, <2>2, WaitingSound
<1>3. QED
  BY <1>1, <1>2

-----------------------------------------------------------------------------
\* A step keeps the types, the fit of the callback to the state, and the
\* reasons the scheduler may stand still for.
LEMMA SchedulerNext == SchedulerInv /\ [Next]_vars => SchedulerInv'
<1> SUFFICES ASSUME SchedulerInv, [Next]_vars PROVE SchedulerInv'
  OBVIOUS
<1>0. /\ core \in Core /\ gate \in Gate /\ Sound(core) /\ Windowed(gate)
      /\ app \in [active : BOOLEAN, delay : Nat \union {None}]
      /\ idle \in Seq({"gate", "resume"})
      /\ monitor \in [probing : BOOLEAN, left : Nat]
      /\ power \in [at : {"on", "falling", "asleep"}, signals : Seq({"sleep", "wake"})]
      /\ away \in 0..THRESHOLD
      /\ history \in History
  BY DEF SchedulerInv, TypeOK
<1>f. Fresh \in History
  BY <1>0 DEF Fresh, History
<1>i. Interrupted \in History
  BY <1>0, SMTT(30) DEF Interrupted, History
<1>n. Restarted \in History
  BY <1>0, SMTT(30) DEF Restarted, History
<1>r. Remaining \in Nat /\ Remaining # None
  BY <1>0 DEF Remaining, AtLeast, Core, None
<1>1. CASE Timeout
  <2>1. /\ core' \in Core /\ gate' \in Gate /\ Sound(core') /\ Windowed(gate')
        /\ core'.running \/ gate'.dialog
    BY <1>0, <1>1, CallbackSound DEF Timeout, Due, Becomes
  <2>2. history' \in History
    BY <1>0, <1>1, <1>f DEF Timeout
  <2>3. QED
    BY <1>0, <1>1, <2>1, <2>2 DEF Timeout, SchedulerInv, TypeOK, Signals
<1>2. CASE TakeBreak
  <2>1. CASE core.state = "WAITING"
    <3>1. core' = InBreak(core) /\ gate' = Watching(gate) /\ core.running
      BY <1>0, <1>2, <2>1, TakeBreakEffect DEF TakeBreak, Becomes, Pair, Sound
    <3>2. core' \in Core /\ gate' \in Gate /\ Sound(core') /\ core'.running /\ Windowed(gate')
      BY <1>0, <3>1, BreakSound DEF Windowed
    <3>3. QED
      BY <1>0, <1>2, <3>2 DEF TakeBreak, SchedulerInv, TypeOK, Signals
  <2>2. CASE core.state # "WAITING"
    <3>1. core' = core /\ gate' = gate
      BY <1>2, <2>2 DEF TakeBreak, Becomes, CoreTakeBreak, Pair
    <3>2. QED
      BY <1>0, <1>2, <3>1 DEF TakeBreak, SchedulerInv, TypeOK, Signals, Resuming
  <2>3. QED
    BY <2>1, <2>2
<1>3. CASE Disable
  <2>1. core' \in Core /\ gate' \in Gate /\ Sound(core') /\ Windowed(gate')
    BY <1>0, <1>3, StopSound DEF Disable, Becomes
  <2>2. history' \in History
    BY <1>0, <1>3, <1>n DEF Disable
  <2>3. app' \in [active : BOOLEAN, delay : Nat \union {None}] /\ ~app'.active
    BY <1>0, <1>3 DEF Disable
  <2>4. QED
    BY <1>0, <1>3, <2>1, <2>2, <2>3 DEF Disable, SchedulerInv, TypeOK, Signals
<1>4. CASE Enable
  <2>1. core' \in Core /\ Sound(core') /\ core'.running
    BY <1>0, <1>4, StartSound DEF Enable
  <2>2. history' \in History
    BY <1>0, <1>4, <1>n DEF Enable
  <2>3. app' \in [active : BOOLEAN, delay : Nat \union {None}]
    BY <1>0, <1>4 DEF Enable
  <2>4. QED
    BY <1>0, <1>4, <2>1, <2>2, <2>3 DEF Enable, SchedulerInv, TypeOK, Signals
<1>5. CASE PressStart
  <2>1. core' \in Core /\ Sound(core') /\ core'.running
    <3>1. NextBreakTime \in Nat \union {None}
      BY <1>0 DEF NextBreakTime, Gate
    <3>2. QED
      BY <1>0, <1>5, <3>1, StartSound DEF PressStart
  <2>2. gate' \in Gate /\ ~gate'.dialog
    <3>1. gate.windows - 1 \in Nat
      BY <1>0, <1>5 DEF PressStart, Windowed, Gate
    <3>2. QED
      BY <1>0, <1>5, <3>1 DEF PressStart, Gate
  <2>3. away' \in 0..THRESHOLD
    BY <1>5, ConstantsAssumption DEF PressStart
  <2>4. Windowed(gate')
    BY <2>2 DEF Windowed
  <2>5. QED
    BY <1>0, <1>5, <2>1, <2>2, <2>3, <2>4 DEF PressStart, SchedulerInv, TypeOK, Signals
<1>6. CASE IdleCallback
  <2>1. idle' \in Seq({"gate", "resume"})
    BY <1>0, <1>6 DEF IdleCallback
  <2>2. /\ core' \in Core /\ gate' \in Gate /\ Sound(core') /\ Windowed(gate')
        /\ history' \in History
        /\ gate'.dialog \/ (core' = core /\ gate' = gate)
    <3>1. CASE DoIdleGate /\ gate.dialog
      <4>1. gate' = [gate EXCEPT !.idleGated = FALSE] /\ UNCHANGED <<core, history>>
        BY <3>1 DEF DoIdleGate
      <4>2. gate' \in Gate /\ gate'.dialog /\ gate'.windows = gate.windows
        BY <1>0, <3>1, <4>1 DEF Gate
      <4>3. QED
        BY <1>0, <3>1, <4>1, <4>2 DEF Windowed
    <3>2. CASE DoIdleGate /\ ~gate.dialog
      <4> DEFINE h == [gate EXCEPT !.idleGated = TRUE, !.delay = Remaining]
                 w == CoreStop(core, h, "STOPPED")
      <4>1. core' = w.c /\ gate' = Shown(w.g) /\ history' = Interrupted
        BY <3>2 DEF DoIdleGate
      <4>2. h \in Gate
        BY <1>0, <1>r DEF Gate
      <4>3. w.c \in Core /\ w.g \in Gate /\ Sound(w.c)
        <5> HIDE DEF h
        <5> QED
          BY <1>0, <4>2, StopSound
      <4> HIDE DEF w
      <4>4. Windowed(gate')
        BY <4>1, <4>3, ShownFields DEF Windowed, Gate
      <4>5. gate' \in Gate /\ gate'.dialog
        BY <4>1, <4>3, ShownFields
      <4>6. QED
        BY <4>1, <4>3, <4>4, <4>5, <1>i
    <3>3. CASE OnResumeWhileGating
      <4>1. CASE gate.dialog
        <5> DEFINE w == CoreStop(core, gate, "STOPPED")
        <5>1. core' = w.c /\ gate' = w.g /\ history' = history
          BY <3>3, <4>1 DEF OnResumeWhileGating, Becomes
        <5>2. w.c \in Core /\ w.g \in Gate /\ Sound(w.c) /\ w.g.dialog /\ Windowed(w.g)
          BY <1>0, <4>1, StopSound
        <5>3. QED
          BY <1>0, <5>1, <5>2
      <4>2. CASE ~gate.dialog
        <5>1. core' = core /\ gate' = gate /\ history' = history
          BY <3>3, <4>2 DEF OnResumeWhileGating
        <5>2. QED
          BY <1>0, <5>1
      <4>3. QED
        BY <4>1, <4>2
    <3>4. QED
      BY <1>6, <3>1, <3>2, <3>3 DEF IdleCallback
  <2>3. QED
    BY <1>0, <1>6, <2>1, <2>2 DEF IdleCallback, SchedulerInv, TypeOK, Signals, Resuming
<1>7. CASE HandleSignal
  <2>1. CASE power.at = "on" /\ power.signals = <<"wake">>
    <3>1. HandleWake /\ power' = [power EXCEPT !.signals = <<>>]
      BY <1>7, <2>1, SignalFacts DEF HandleSignal
    <3>2. power'.at = "on" /\ power'.signals = <<>>
      BY <1>0, <2>1, <3>1
    <3>3. idle' \in Seq({"gate", "resume"}) /\ UNCHANGED <<gate, history>>
      BY <1>0, <3>1 DEF HandleWake
    <3>4. CASE app.active
      <4>1. core' \in Core /\ Sound(core') /\ core'.running
        <5>1. core' = CoreStart(core, app.delay) /\ app.delay \in Nat \union {None}
          BY <1>0, <3>1, <3>4 DEF HandleWake
        <5>2. QED
          BY <1>0, <5>1, StartSound
      <4>2. app' \in [active : BOOLEAN, delay : Nat \union {None}]
        BY <1>0, <3>1, <3>4 DEF HandleWake
      <4>3. power' \in [at : {"on", "falling", "asleep"}, signals : Seq({"sleep", "wake"})]
        BY <1>0, <3>1, SignalFacts
      <4>4. QED
        BY <1>0, <1>7, <3>2, <3>3, <4>1, <4>2, <4>3 DEF HandleSignal, SchedulerInv, TypeOK, Signals
    <3>5. CASE ~app.active
      <4>1. UNCHANGED <<core, app>>
        BY <3>1, <3>5 DEF HandleWake
      <4>2. power' \in [at : {"on", "falling", "asleep"}, signals : Seq({"sleep", "wake"})]
        BY <1>0, <3>1, SignalFacts
      <4>3. QED
        BY <1>0, <1>7, <3>2, <3>3, <3>5, <4>1, <4>2 DEF HandleSignal, SchedulerInv, TypeOK, Signals
    <3>6. QED
      BY <3>4, <3>5
  <2>2. CASE power.signals \in {<<"sleep">>, <<"sleep", "wake">>}
    <3>1. HandleSleep /\ power' = [power EXCEPT !.signals = Tail(power.signals)]
      BY <1>7, <2>2 DEF HandleSignal
    <3>2. /\ power' \in [at : {"on", "falling", "asleep"}, signals : Seq({"sleep", "wake"})]
          /\ power'.at = power.at /\ power'.signals = Tail(power.signals)
      <4>1. Tail(power.signals) \in Seq({"sleep", "wake"})
        BY <2>2, SignalFacts
      <4>2. QED
        BY <1>0, <3>1, <4>1
    <3>3. Signals' /\ Resuming'
      <4>1. CASE power.signals = <<"sleep">>
        BY <3>2, <4>1, SignalFacts DEF Signals, Resuming, SchedulerInv
      <4>2. CASE power.signals = <<"sleep", "wake">>
        BY <3>2, <4>2, SignalFacts DEF Signals, Resuming, SchedulerInv
      <4>3. QED
        BY <2>2, <4>1, <4>2
    <3>4. /\ core' \in Core /\ gate' \in Gate /\ Sound(core') /\ Windowed(gate')
          /\ history' \in History
      BY <1>0, <1>n, <1>i, <3>1, StopSound DEF HandleSleep, Becomes
    <3>5. app' \in [active : BOOLEAN, delay : Nat \union {None}]
      BY <1>0, <1>r, <3>1 DEF HandleSleep
    <3>6. QED
      BY <1>0, <1>7, <3>1, <3>2, <3>3, <3>4, <3>5 DEF HandleSignal, HandleSleep, SchedulerInv, TypeOK
  <2>3. QED
    BY <1>7, <2>1, <2>2 DEF HandleSignal, SchedulerInv, Signals
<1>8. CASE PrepareForSleep
  <2>1. /\ power' \in [at : {"on", "falling", "asleep"}, signals : Seq({"sleep", "wake"})]
        /\ power'.at = "falling" /\ power'.signals = <<"sleep">> /\ power.signals = <<>>
        /\ power.at = "on"
    BY <1>8 DEF PrepareForSleep
  <2>2. history' \in History
    <3>1. history.sleeps + 1 \in 0..MaxSleeps
      BY <1>0, <1>8, ConstantsAssumption DEF PrepareForSleep, History
    <3>2. QED
      BY <1>0, <1>8, <3>1 DEF PrepareForSleep, History
  <2>3. QED
    BY <1>0, <1>8, <2>1, <2>2 DEF PrepareForSleep, SchedulerInv, TypeOK, Signals, Resuming
<1>9. CASE FallAsleep
  <2>1. /\ power' \in [at : {"on", "falling", "asleep"}, signals : Seq({"sleep", "wake"})]
        /\ power'.at = "asleep" /\ power'.signals = power.signals /\ power.at = "falling"
    BY <1>0, <1>9 DEF FallAsleep
  <2>2. QED
    BY <1>0, <1>9, <2>1 DEF FallAsleep, SchedulerInv, TypeOK, Signals, Resuming
<1>10. ASSUME NEW nap \in Naps, WakeUp(nap) PROVE SchedulerInv'
  <2>1. power.signals \in {<<>>, <<"sleep">>}
    BY <1>10 DEF WakeUp, SchedulerInv, Signals
  <2>2. /\ power' \in [at : {"on", "falling", "asleep"}, signals : Seq({"sleep", "wake"})]
        /\ power'.at = "on" /\ power'.signals = Append(power.signals, "wake")
    BY <1>0, <1>10 DEF WakeUp
  <2>3. power'.signals \in {<<"wake">>, <<"sleep", "wake">>}
    BY <2>1, <2>2, SignalFacts
  <2>4. Signals' /\ (Resuming => Resuming')
    <3>1. power.at = "asleep"
      BY <1>10 DEF WakeUp
    <3>2. CASE power.signals = <<>>
      BY <2>2, <3>1, <3>2, SignalFacts DEF Signals, Resuming
    <3>3. CASE power.signals = <<"sleep">>
      BY <2>2, <2>3, <3>1, <3>3, SignalFacts DEF Signals, Resuming
    <3>4. QED
      BY <2>1, <3>2, <3>3
  <2>5. core' \in Core
    <3>1. AtLeast(core.next - nap, 0) \in Nat
      BY <1>0, ConstantsAssumption DEF AtLeast, Core
    <3>2. QED
      BY <1>0, <1>10, <3>1 DEF WakeUp, Core
  <2>6. gate' \in Gate
    <3>1. AtMost(gate.gap + nap, GAP + 1) \in Nat
      BY <1>0, ConstantsAssumption DEF AtMost, Gate
    <3>2. QED
      BY <1>0, <1>10, <3>1 DEF WakeUp, Gate
  <2>7. /\ core'.running = core.running /\ core'.state = core.state /\ core'.cb = core.cb
        /\ core'.raised = core.raised
        /\ gate'.dialog = gate.dialog /\ gate'.windows = gate.windows
    BY <1>0, <1>10 DEF WakeUp, Core, Gate
  <2>8. Sound(core') /\ Windowed(gate')
    BY <1>0, <2>7 DEF Sound, Windowed
  <2>9. QED
    BY <1>0, <1>10, <2>2, <2>4, <2>5, <2>6, <2>7, <2>8 DEF WakeUp, SchedulerInv, TypeOK
<1>11. CASE Look
  <2>1. monitor' \in [probing : BOOLEAN, left : Nat]
    BY <1>11, ConstantsAssumption DEF Look
  <2>2. QED
    BY <1>0, <1>11, <2>1 DEF Look, SchedulerInv, TypeOK, Signals, Resuming
<1>12. CASE Probed
  <2>1. monitor' \in [probing : BOOLEAN, left : Nat]
    BY <1>12, ConstantsAssumption DEF Probed
  <2>2. idle' \in Seq({"gate", "resume"})
    <3>1. Append(idle, "gate") \in Seq({"gate", "resume"})
      BY <1>0
    <3>2. QED
      BY <1>0, <1>12, <3>1 DEF Probed
  <2>3. QED
    BY <1>0, <1>12, <2>1, <2>2 DEF Probed, SchedulerInv, TypeOK, Signals, Resuming
<1>13. CASE Input
  <2>1. away' \in 0..THRESHOLD
    BY <1>13, ConstantsAssumption DEF Input
  <2>2. QED
    BY <1>0, <1>13, <2>1 DEF Input, SchedulerInv, TypeOK, Signals, Resuming
<1>14. CASE Tick
  <2>1. core' \in Core
    <3>1. AtLeast(core.timer - 1, 0) \in Nat /\ AtLeast(core.next - 1, 0) \in Nat
      BY <1>0 DEF AtLeast, Core
    <3>2. QED
      BY <1>0, <1>14, <3>1 DEF Tick, Core
  <2>2. gate' \in Gate
    <3>1. AtMost(gate.gap + 1, GAP + 1) \in Nat
      BY <1>0, ConstantsAssumption DEF AtMost, Gate
    <3>2. QED
      BY <1>0, <1>14, <3>1 DEF Tick, Gate
  <2>3. /\ core'.running = core.running /\ core'.state = core.state /\ core'.cb = core.cb
        /\ core'.raised = core.raised
        /\ gate'.dialog = gate.dialog /\ gate'.windows = gate.windows
    BY <1>0, <1>14 DEF Tick, Core, Gate
  <2>4. Sound(core') /\ Windowed(gate')
    BY <1>0, <2>3 DEF Sound, Windowed
  <2>5. monitor' \in [probing : BOOLEAN, left : Nat]
    BY <1>0, <1>14 DEF Tick
  <2>6. away' \in 0..THRESHOLD
    BY <1>0, <1>14, ConstantsAssumption DEF Tick, AtMost
  <2>7. history' \in History
    BY <1>0, <1>14 DEF Tick, History
  <2>8. QED
    BY <1>0, <1>14, <2>1, <2>2, <2>3, <2>4, <2>5, <2>6, <2>7
       DEF Tick, SchedulerInv, TypeOK, Signals, Resuming
<1>15. CASE UNCHANGED vars
  BY <1>15 DEF vars, SchedulerInv, TypeOK, Signals, Resuming
<1>16. QED
  BY <1>1, <1>2, <1>3, <1>4, <1>5, <1>6, <1>7, <1>8, <1>9, <1>10, <1>11, <1>12, <1>13, <1>14,
     <1>15 DEF Next

THEOREM SchedulerInvariant == Spec => []SchedulerInv
BY SchedulerInit, SchedulerNext, PTL DEF Spec

\* Every variable of the scheduler, the plugin and the suspend keeps its type.
THEOREM StartWorkTyped == Spec => []TypeOK
<1>1. SchedulerInv => TypeOK
  BY DEF SchedulerInv
<1>2. QED
  BY <1>1, SchedulerInvariant, PTL

\* The scheduler never raises one of its own exceptions, and never stands
\* still while SafeEyes is enabled, no dialog is up and no resume is on its
\* way - whatever the monitor thread, the daemon and the user do in between.
THEOREM NeverStuckHolds == Spec => []NeverStuck
<1>1. SchedulerInv => NeverStuck
  BY SignalFacts DEF SchedulerInv, Sound, NeverStuck, Resuming
<1>2. QED
  BY <1>1, SchedulerInvariant, PTL
=============================================================================
