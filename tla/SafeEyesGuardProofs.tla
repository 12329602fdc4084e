------------------------- MODULE SafeEyesGuardProofs -------------------------
(***************************************************************************)
(* Theorems about SafeEyesGuard, for every value of its constants but      *)
(* those that a theorem names.                                             *)
(***************************************************************************)
EXTENDS SafeEyesGuard, WellFoundedInduction, TLAPS

(***************************************************************************)
(* Morning comes: the times after which it is day again have a least one.  *)
(***************************************************************************)
LEMMA UntilMorningType ==
  ASSUME NEW t \in Nat
  PROVE  UntilMorning(t) \in Nat /\ t + UntilMorning(t) \notin Night
<1> DEFINE Days == {k \in Nat : k >= 1 /\ t + k \notin Night}
           Less == {p \in Nat \X Nat : p[1] < p[2]}
<1>1. Horizon \in Nat /\ \A n \in Night : n \in Nat /\ n <= Horizon
  BY ConstantsAssumption
<1>2. Horizon + 1 \in Days
  BY <1>1
<1>3. PICK k \in Days : \A j \in Days : <<j, k>> \notin Less
  <2>1. IsWellFoundedOn(Less, Nat)
    BY NatLessThanWellFounded DEF OpToRel
  <2>2. Days \subseteq Nat /\ Days # {}
    BY <1>2
  <2> HIDE DEF Days, Less
  <2>3. QED
    BY <2>1, <2>2, WFMin
<1>4. \A j \in Days : ~(j < k)
  BY <1>3
<1>5. k \in 1 .. Horizon + 1
  BY <1>1, <1>2, <1>4
<1>6. t + k \notin Night /\ \A j \in 1 .. k - 1 : t + j \in Night
  BY <1>4
<1>7. UntilMorning(t) \in 1 .. Horizon + 1 /\ t + UntilMorning(t) \notin Night
  BY <1>5, <1>6 DEF UntilMorning
<1>8. QED
  BY <1>1, <1>7

(***************************************************************************)
(* Types.                                                                  *)
(***************************************************************************)
LEMMA ConfigType ==
  ASSUME TypeOK
  PROVE  /\ \A m \in Modes : Source(m) \in Config /\ Hash(m) \in Modes \X Nat
         /\ \A m \in Modes, d \in Nat : Patched(m, d) \in Config
         /\ \A t \in Nat : ModeAt(t) \in Modes /\ SeededAt(t) \in Config
<1>1. ShortBreak \in Nat /\ src \in [Modes -> Nat]
  BY ConstantsAssumption DEF TypeOK
<1>2. \A m \in Modes : Source(m) \in Config /\ Hash(m) \in Modes \X Nat
  BY <1>1 DEF Source, Config, Hash
<1>3. \A m \in Modes, d \in Nat : Patched(m, d) \in Config
  BY <1>1 DEF Patched, Source, Config
<1>4. \A t \in Nat : ModeAt(t) \in Modes
  BY DEF ModeAt, Modes
<1>5. \A t \in Nat : SeededAt(t) \in Config
  BY <1>2, <1>3, UntilMorningType DEF SeededAt, Modes
<1>6. QED
  BY <1>2, <1>3, <1>4, <1>5

LEMMA ProcessType ==
  ASSUME TypeOK
  PROVE  /\ Dead \in Process
         /\ \A c \in Config : Fresh(c) \in Process /\ c.short \in Nat
         /\ \A p \in Process : Cleared(p) \in Process /\ p.short \in Nat
         /\ \A p \in Process, x \in BOOLEAN :
              [p EXCEPT !.on = x] \in Process /\ [p EXCEPT !.dialog = x] \in Process
         /\ \A p \in Process, k \in {"short", "long"}, d \in Nat : Showing(p, k, d) \in Process
<1>1. now \in Nat
  BY DEF TypeOK
<1>2. Dead \in Process
  BY DEF Dead, Process, Modes
<1>3. \A c \in Config : Fresh(c) \in Process /\ c.short \in Nat
  BY DEF Fresh, Process, Config
<1>4. \A p \in Process : Cleared(p) \in Process /\ p.short \in Nat
  BY DEF Cleared, Process
<1>5. \A p \in Process, x \in BOOLEAN :
        [p EXCEPT !.on = x] \in Process /\ [p EXCEPT !.dialog = x] \in Process
  BY DEF Process
<1>6. \A p \in Process, k \in {"short", "long"}, d \in Nat : Showing(p, k, d) \in Process
  <2>1. \A p \in Process, k \in {"short", "long"}, n \in Nat :
          [p EXCEPT !.overlay = k, !.until = n] \in Process
    BY DEF Process
  <2>2. \A d \in Nat : now + d \in Nat
    BY <1>1
  <2>3. QED
    BY <2>1, <2>2 DEF Showing
<1>7. QED
  BY <1>2, <1>3, <1>4, <1>5, <1>6

LEMMA StateType ==
  /\ Blank \in SafeEyesState /\ NoLocal \in Local
  /\ \A s \in SafeEyesState : NoBreak(s) \in SafeEyesState
<1>1. Blank \in SafeEyesState
  BY DEF Blank, SafeEyesState, NoHash
<1>2. NoLocal \in Local
  BY DEF NoLocal, Local, NoHash, PC
<1>3. \A s \in SafeEyesState : NoBreak(s) \in SafeEyesState
  BY DEF NoBreak, SafeEyesState
<1>4. QED
  BY <1>1, <1>2, <1>3

\* The parts of TypeOK, for the steps that change few of the variables.
StateTyped == pc \in PC /\ mem \in SafeEyesState /\ disk \in SafeEyesState /\ loc \in Local
FilesTyped == live \in Config /\ sentinel \in BOOLEAN /\ forced \in BOOLEAN
WorldTyped ==
  /\ now \in Nat \ {0} /\ susp \in Nat /\ src \in [Modes -> Nat] /\ call \in BOOLEAN
  /\ upd \in {"idle", "restart", "flag"} /\ bounds \in [kills : Nat, suspends : Nat]
HistTyped  == due \in Nat /\ handled \in Int

LEMMA Parts ==
  /\ TypeOK <=> StateTyped /\ FilesTyped /\ WorldTyped /\ HistTyped /\ se \in Process
  /\ TypeOK' <=> StateTyped' /\ FilesTyped' /\ WorldTyped' /\ HistTyped' /\ se' \in Process
BY DEF TypeOK, StateTyped, FilesTyped, WorldTyped, HistTyped

\* What the actions of each actor leave alone keeps its type.
LEMMA Untouched ==
  ASSUME TypeOK
  PROVE  /\ UNCHANGED stateVars => StateTyped'
         /\ UNCHANGED fileVars => FilesTyped'
         /\ UNCHANGED worldVars => WorldTyped'
         /\ UNCHANGED histVars => HistTyped'
         /\ UNCHANGED handled => handled' \in Int
BY DEF TypeOK, StateTyped, FilesTyped, WorldTyped, HistTyped, stateVars, fileVars, worldVars,
   histVars

LEMMA TypeMachine ==
  ASSUME TypeOK, Tick \/ Suspend \/ Kill \/ Reboot \/ Call \/ EditSource
  PROVE  TypeOK'
<1>0. /\ StateTyped /\ FilesTyped /\ WorldTyped /\ HistTyped /\ se \in Process
      /\ bounds.kills + 1 \in Nat /\ bounds.suspends + 1 \in Nat
  BY Parts DEF WorldTyped
<1>1. CASE Tick
  BY <1>0, <1>1, Parts, Untouched DEF Tick, WorldTyped
<1>2. CASE Suspend
  <2>1. PICK d \in 1 .. Horizon - now : now' = now + d /\ susp' = susp + d
    BY <1>2 DEF Suspend
  <2>2. d \in Nat /\ d > 0
    BY <1>0, <2>1, ConstantsAssumption DEF WorldTyped
  <2>3. WorldTyped'
    BY <1>0, <1>2, <2>1, <2>2 DEF Suspend, WorldTyped
  <2>4. QED
    BY <1>0, <1>2, <2>3, Parts, Untouched, ProcessType DEF Suspend
<1>3. CASE Kill
  <2>1. StateTyped'
    BY <1>0, <1>3, StateType DEF Kill, StateTyped, PC
  <2>2. WorldTyped' /\ se' \in Process
    BY <1>0, <1>3 DEF Kill, WorldTyped
  <2>3. QED
    BY <1>0, <1>3, <2>1, <2>2, Parts, Untouched DEF Kill
<1>4. CASE Reboot
  <2>1. WorldTyped'
    BY <1>0, <1>4 DEF Reboot, WorldTyped
  <2>2. HistTyped' /\ FilesTyped'
    <3>1. due' = 0 /\ handled' = -1 /\ sentinel' = FALSE /\ live' = live /\ forced' = forced
      BY <1>4 DEF Reboot
    <3>2. HistTyped'
      BY <3>1 DEF HistTyped
    <3>3. FilesTyped'
      BY <1>0, <3>1 DEF FilesTyped
    <3>4. QED
      BY <3>2, <3>3
  <2>3. se' \in Process
    BY <1>4, ProcessType DEF Reboot
  <2>4. StateTyped'
    BY <1>4, Untouched DEF Reboot
  <2>5. QED
    BY <2>1, <2>2, <2>3, <2>4, Parts
<1>5. CASE Call
  BY <1>0, <1>5, Parts, Untouched DEF Call, WorldTyped
<1>6. CASE EditSource
  <2>1. src' \in [Modes -> Nat]
    BY <1>0, <1>6 DEF EditSource, WorldTyped
  <2>2. QED
    BY <1>0, <1>6, <2>1, Parts, Untouched DEF EditSource, WorldTyped
<1>7. QED
  BY <1>1, <1>2, <1>3, <1>4, <1>5, <1>6

LEMMA GateType ==
  ASSUME TypeOK, NEW p \in Process, Gate(p)
  PROVE  se' \in Process /\ sentinel' \in BOOLEAN
BY ProcessType DEF Gate, TypeOK

LEMMA TypeOthers ==
  ASSUME TypeOK,
         \/ UpdateSeed \/ UpdateRestart \/ UpdateFlag
         \/ TakeBreak \/ EndBreak \/ IdleGate \/ PressStart \/ SafeEyesDies
  PROVE  TypeOK'
<1>0. /\ StateTyped /\ FilesTyped /\ WorldTyped /\ HistTyped /\ se \in Process
      /\ now \in Nat /\ LongBreak \in Nat
  BY Parts, ConstantsAssumption DEF WorldTyped
<1>1. CASE UpdateSeed
  BY <1>0, <1>1, Parts, Untouched, ConfigType DEF UpdateSeed, FilesTyped, WorldTyped
<1>2. CASE UpdateRestart
  <2>1. se' \in Process
    BY <1>0, <1>2, ProcessType DEF UpdateRestart, FilesTyped
  <2>2. QED
    BY <1>0, <1>2, <2>1, Parts, Untouched DEF UpdateRestart, HistTyped, WorldTyped
<1>3. CASE UpdateFlag
  BY <1>0, <1>3, Parts, Untouched DEF UpdateFlag, FilesTyped, WorldTyped
<1>4. ASSUME safeEyesOnly' = safeEyesOnly, se' \in Process, sentinel' \in BOOLEAN, due' \in Nat
      PROVE  TypeOK'
  <2>1. StateTyped' /\ WorldTyped'
    BY <1>4, Untouched DEF safeEyesOnly
  <2>2. FilesTyped' /\ HistTyped'
    BY <1>0, <1>4 DEF safeEyesOnly, FilesTyped, HistTyped
  <2>3. QED
    BY <1>4, <2>1, <2>2, Parts
<1>5. CASE TakeBreak
  <2>1. se' \in Process
    BY <1>0, <1>5, ProcessType DEF TakeBreak
  <2>2. QED
    BY <1>0, <1>4, <1>5, <2>1 DEF TakeBreak, FilesTyped, HistTyped
<1>6. CASE EndBreak
  BY <1>0, <1>4, <1>6, GateType, ProcessType DEF EndBreak
<1>7. CASE IdleGate
  BY <1>0, <1>4, <1>7, GateType DEF IdleGate, HistTyped
<1>8. CASE PressStart
  BY <1>0, <1>4, <1>8, ProcessType DEF PressStart, HistTyped
<1>9. CASE SafeEyesDies
  BY <1>0, <1>4, <1>9, ProcessType DEF SafeEyesDies, FilesTyped
<1>10. QED
  BY <1>1, <1>2, <1>3, <1>5, <1>6, <1>7, <1>8, <1>9

\* What every step of the daemon reads.
LEMMA DaemonReads ==
  ASSUME TypeOK
  PROVE  /\ mem \in SafeEyesState /\ disk \in SafeEyesState /\ loc \in Local
         /\ mem.boot \in Nat /\ mem.start \in Nat /\ loc.t0 \in Nat /\ loc.next \in PC
         /\ loc.hash \in (Modes \X Nat) \union {NoHash}
         /\ ModeAt(loc.t0) \in Modes /\ Duration(mem) \in Nat /\ TimeLeft \in Int
         /\ now \in Nat /\ susp \in Nat /\ live \in Config /\ se \in Process
<1>1. /\ mem \in SafeEyesState /\ disk \in SafeEyesState /\ loc \in Local
      /\ mem.boot \in Nat /\ mem.start \in Nat /\ loc.t0 \in Nat /\ loc.next \in PC
      /\ loc.hash \in (Modes \X Nat) \union {NoHash}
      /\ now \in Nat /\ susp \in Nat /\ live \in Config /\ se \in Process
  BY DEF TypeOK, SafeEyesState, Local
<1>2. ModeAt(loc.t0) \in Modes
  BY <1>1, ConfigType
<1>3. Duration(mem) \in Nat
  BY ConstantsAssumption DEF Duration
<1>4. TimeLeft \in Int
  BY <1>1, <1>3 DEF TimeLeft
<1>5. QED
  BY <1>1, <1>2, <1>3, <1>4

LEMMA SeededType ==
  ASSUME TypeOK
  PROVE  /\ Seeded(mem) \in SafeEyesState
         /\ Shortened(mem) \in SafeEyesState
         /\ [Seeded(mem) EXCEPT !.paused = @ /\ ~AtNight] \in SafeEyesState
<1>1. Seeded(mem) \in SafeEyesState
  BY DaemonReads DEF Seeded, SafeEyesState
<1>2. \A s \in SafeEyesState : [s EXCEPT !.restore = TRUE] \in SafeEyesState
  BY DEF SafeEyesState
<1>3. \A s \in SafeEyesState, x \in BOOLEAN : [s EXCEPT !.paused = x] \in SafeEyesState
  BY DEF SafeEyesState
<1>4. (Seeded(mem).paused /\ ~AtNight) \in BOOLEAN
  OBVIOUS
<1>5. QED
  BY <1>1, <1>2, <1>3, <1>4 DEF Shortened

LEMMA TypeStart ==
  ASSUME TypeOK, BeginCycle \/ Detect \/ Absorb \/ UnlinkForced \/ Save
  PROVE  TypeOK'
<1>0. StateTyped /\ FilesTyped /\ WorldTyped /\ HistTyped /\ se \in Process
  BY Parts
<1>a. UNCHANGED daemonOnly => WorldTyped' /\ handled' \in Int
  BY <1>0, Untouched DEF daemonOnly, HistTyped
<1>b. \A l \in Local, x \in BOOLEAN, p \in PC :
        /\ [l EXCEPT !.t0 = now, !.skip = x] \in Local
        /\ [l EXCEPT !.next = p] \in Local
  BY DaemonReads DEF Local
<1>1. CASE BeginCycle
  <2>1. StateTyped'
    BY <1>0, <1>1, <1>b, StateType, DaemonReads DEF BeginCycle, Goto, StateTyped, FilesTyped, PC
  <2>2. se' \in Process
    BY <1>0, <1>1, ProcessType DEF BeginCycle, FilesTyped
  <2>3. QED
    BY <1>0, <1>1, <1>a, <2>1, <2>2, Parts, Untouched DEF BeginCycle, HistTyped
<1>2. CASE Detect
  <2>1. mem' \in SafeEyesState
    BY <1>2, DaemonReads DEF Detect, SafeEyesState
  <2>2. PICK x \in BOOLEAN, y \in BOOLEAN :
          loc' = [loc EXCEPT !.resumed = x, !.next = "absorb", !.long = y]
    <3> DEFINE slept == IF mem.boot = 0 THEN 0 ELSE susp - mem.boot
               byClock == /\ susp = 0 \/ (mem.boot # 0 /\ susp < mem.boot)
                          /\ mem.last # 0
                          /\ loc.t0 - mem.last > RESUME_THRESHOLD
               found == IF slept > SUSPEND_MIN THEN <<TRUE, slept>>
                        ELSE IF byClock THEN <<TRUE, loc.t0 - mem.last>> ELSE <<FALSE, 0>>
    <3>1. found[1] \in BOOLEAN /\ (found[2] > DAY_RESUME_RESTART) \in BOOLEAN
      OBVIOUS
    <3>2. loc' = [loc EXCEPT !.resumed = found[1], !.next = "absorb",
                             !.long = found[2] > DAY_RESUME_RESTART]
      BY <1>2 DEF Detect
    <3> HIDE DEF found
    <3>3. QED
      BY <3>1, <3>2
  <2>3. StateTyped'
    BY <1>0, <1>2, <2>1, <2>2 DEF Detect, Goto, StateTyped, Local, PC
  <2>4. HistTyped'
    BY <1>0, <1>2, DaemonReads DEF Detect, HistTyped
  <2>5. QED
    BY <1>0, <1>2, <2>3, <2>4, Parts, Untouched DEF Detect
<1>3. CASE Absorb
  <2>1. Hash(ModeAt(loc.t0)) \in Modes \X Nat
    BY ConfigType, DaemonReads
  <2>2. mem' \in SafeEyesState
    BY <1>3, <2>1, DaemonReads DEF Absorb, SafeEyesState
  <2>3. PICK x \in BOOLEAN, y \in BOOLEAN :
          loc' = [loc EXCEPT !.boundary = x, !.drift = y, !.hash = Hash(ModeAt(loc.t0)),
                             !.next = "unlink"]
    BY <1>3 DEF Absorb, ModeChanged
  <2>4. StateTyped'
    BY <1>0, <1>3, <2>1, <2>2, <2>3 DEF Absorb, Goto, StateTyped, Local, PC
  <2>5. QED
    BY <1>0, <1>3, <1>a, <2>4, Parts, Untouched DEF Absorb, HistTyped
<1>4. CASE UnlinkForced
  BY <1>0, <1>4, <1>a, Parts DEF UnlinkForced, Goto, StateTyped, FilesTyped, HistTyped, PC
<1>5. CASE Save
  <2>1. StateTyped'
    BY <1>0, <1>5, StateType, DaemonReads DEF Save, StateTyped
  <2>2. HistTyped'
    BY <1>0, <1>5, DaemonReads DEF Save, HistTyped
  <2>3. QED
    BY <1>0, <1>5, <2>1, <2>2, Parts, Untouched DEF Save
<1>6. QED
  BY <1>1, <1>2, <1>3, <1>4, <1>5

LEMMA TypeSeed ==
  ASSUME TypeOK, Reseed \/ ReimposeBreak \/ FreshInterval \/ NothingToSeed
  PROVE  TypeOK'
<1>0. StateTyped /\ FilesTyped /\ WorldTyped /\ HistTyped /\ se \in Process
  BY Parts
<1>1. /\ UNCHANGED daemonOnly /\ UNCHANGED <<sentinel, forced, se, due>>
  BY DEF Reseed, ReimposeBreak, FreshInterval, NothingToSeed, Seed
<1>2. WorldTyped' /\ HistTyped' /\ se' \in Process
  BY <1>0, <1>1, Untouched DEF daemonOnly, HistTyped
<1>3. SUFFICES StateTyped' /\ live' \in Config
  BY <1>0, <1>1, <1>2, Parts DEF FilesTyped
<1>4. \A f \in {"none", "-t", "-b"}, x \in BOOLEAN, p \in PC :
        /\ [loc EXCEPT !.force = f, !.next = p] \in Local
        /\ [loc EXCEPT !.force = f, !.imposed = x, !.next = p] \in Local
        /\ [loc EXCEPT !.next = p] \in Local
  BY DaemonReads DEF Local
<1>5. CASE Reseed
  BY <1>0, <1>4, <1>5, ConfigType, DaemonReads, SeededType
     DEF Reseed, Goto, NightForce, StateTyped, PC
<1>6. CASE ReimposeBreak
  <2>1. TimeLeft > 0 => TimeLeft \in Nat
    BY DaemonReads
  <2>2. live' \in Config
    BY <1>0, <1>6, <2>1, DaemonReads, ConfigType DEF ReimposeBreak, BreakOver, FilesTyped, Modes
  <2>3. StateTyped'
    BY <1>0, <1>4, <1>6, SeededType, StateType, DaemonReads
       DEF ReimposeBreak, Goto, SaveThen, StateTyped, PC
  <2>4. QED
    BY <2>2, <2>3
<1>7. CASE FreshInterval
  BY <1>0, <1>4, <1>7, ConfigType, SeededType DEF FreshInterval, Goto, StateTyped, PC, Modes
<1>8. CASE NothingToSeed
  BY <1>0, <1>8 DEF NothingToSeed, Goto, StateTyped, FilesTyped, PC
<1>9. QED
  BY <1>5, <1>6, <1>7, <1>8

LEMMA TypeEnd ==
  ASSUME TypeOK,
         \/ Quit \/ RestoreConfig \/ KeepAlive \/ ForceBreak \/ SwitchForCall
         \/ NoSwitch \/ TrackBreak \/ EndCycle
  PROVE  TypeOK'
<1>0. StateTyped /\ FilesTyped /\ WorldTyped /\ HistTyped /\ se \in Process
  BY Parts
<1>1. UNCHANGED daemonOnly
  BY DEF Quit, RestoreConfig, KeepAlive, ForceBreak, SwitchForCall, NoSwitch, TrackBreak, EndCycle
<1>2. SUFFICES StateTyped' /\ FilesTyped' /\ due' \in Nat /\ se' \in Process
  BY <1>0, <1>1, Untouched, Parts DEF daemonOnly, HistTyped
<1>a. due \in Nat
  BY <1>0 DEF HistTyped
<1>b. \A p \in PC : [loc EXCEPT !.next = p] \in Local
  BY DaemonReads DEF Local
<1>3. CASE Quit \/ KeepAlive \/ NoSwitch
  <2>1. StateTyped' /\ FilesTyped' /\ due' \in Nat
    BY <1>0, <1>3, <1>a, Untouched DEF Quit, KeepAlive, NoSwitch, Goto, StateTyped, PC
  <2>2. se' \in Process
    <3>1. se.up \in BOOLEAN /\ \A x \in BOOLEAN : [se EXCEPT !.survivor = x] \in Process
      BY <1>0 DEF Process
    <3>2. QED
      BY <1>0, <1>3, <3>1, ProcessType DEF Quit, KeepAlive, NoSwitch, FilesTyped
  <2>3. QED
    BY <2>1, <2>2
<1>4. CASE RestoreConfig
  <2>1. live' \in Config
    BY <1>0, <1>4, ConfigType DEF RestoreConfig, FilesTyped, Modes
  <2>2. mem' \in SafeEyesState
    <3>1. \A s \in SafeEyesState :
            [s EXCEPT !.hash = loc.hash, !.restore = FALSE] \in SafeEyesState
      BY DaemonReads DEF SafeEyesState
    <3>2. QED
      BY <1>0, <1>4, <3>1, StateType DEF RestoreConfig, StateTyped
  <2>3. loc' \in Local
    <3>1. [loc EXCEPT !.imposed = TRUE, !.next = "launch"] \in Local
      BY DaemonReads DEF Local, PC
    <3>2. QED
      BY <1>4, <3>1, DaemonReads DEF RestoreConfig
  <2>4. QED
    BY <1>0, <1>4, <1>a, <2>1, <2>2, <2>3 DEF RestoreConfig, Goto, StateTyped, FilesTyped, PC
<1>5. CASE ForceBreak
  <2>1. se' \in Process
    BY <1>0, <1>5, ProcessType DEF ForceBreak
  <2>2. QED
    BY <1>0, <1>5, <1>a, <2>1, Untouched DEF ForceBreak, Goto, StateTyped, PC
<1>6. CASE SwitchForCall
  <2>1. se' \in Process
    BY <1>0, <1>6, ProcessType DEF SwitchForCall, Switched
  <2>2. mem' \in SafeEyesState
    BY <1>0, <1>6, DaemonReads DEF SwitchForCall, SafeEyesState, WorldTyped
  <2>3. QED
    BY <1>0, <1>6, <1>a, <1>b, <2>1, <2>2, DaemonReads, Untouched
       DEF SwitchForCall, SaveThen, StateTyped, PC
<1>7. CASE TrackBreak
  <2>1. PICK seen \in Seen :
          \/ /\ seen # "none"
             /\ mem' = [mem EXCEPT !.active = TRUE, !.type = seen, !.start = loc.t0]
             /\ due' = loc.t0 + Duration(mem')
             /\ SaveThen("end")
          \/ mem' = NoBreak(mem) /\ due' = due /\ SaveThen("end")
          \/ Goto("end") /\ UNCHANGED <<mem, loc, due>>
    BY <1>7 DEF TrackBreak
  <2>2. seen \in {"none", "short", "long"}
    BY <1>0 DEF Seen, Process
  <2>3. mem' \in SafeEyesState
    <3>1. seen # "none" =>
            [mem EXCEPT !.active = TRUE, !.type = seen, !.start = loc.t0] \in SafeEyesState
      BY <2>2, DaemonReads DEF SafeEyesState
    <3>2. QED
      BY <2>1, <3>1, DaemonReads, StateType
  <2>4. Duration(mem') \in Nat
    BY ConstantsAssumption DEF Duration
  <2>5. due' \in Nat
    BY <1>a, <2>1, <2>4, DaemonReads
  <2>6. StateTyped'
    BY <1>0, <1>b, <2>1, <2>3 DEF SaveThen, Goto, StateTyped, PC
  <2>7. QED
    BY <1>0, <1>7, <2>5, <2>6, Untouched DEF TrackBreak
<1>8. CASE EndCycle
  <2>1. mem' \in SafeEyesState
    BY <1>8, DaemonReads DEF EndCycle, SafeEyesState
  <2>2. QED
    BY <1>0, <1>8, <1>a, <1>b, <2>1, Untouched DEF EndCycle, SaveThen, StateTyped, PC
<1>9. QED
  BY <1>3, <1>4, <1>5, <1>6, <1>7, <1>8

\* Every variable of the guard keeps its type, with any hours, durations and
\* limits, and whatever happens around the daemon.
THEOREM GuardTyped == Spec => []TypeOK
<1>1. Init => TypeOK
  <2> SUFFICES ASSUME Init PROVE TypeOK
    OBVIOUS
  <2>1. live \in Config
    BY ConstantsAssumption DEF Init, Source, Config, Modes
  <2>2. se \in Process
    BY DEF Init, Dead, Process, Modes
  <2>3. handled \in Int /\ susp \in Nat /\ src \in [Modes -> Nat]
    BY ConstantsAssumption DEF Init
  <2>4. StateTyped /\ FilesTyped
    BY <2>1, StateType DEF Init, StateTyped, FilesTyped, PC
  <2>5. WorldTyped /\ HistTyped
    <3>1. now = 1 /\ call = FALSE /\ upd = "idle" /\ bounds = [kills |-> 0, suspends |-> 0]
          /\ due = 0
      BY DEF Init
    <3>2. WorldTyped
      <4>1. bounds \in [kills : Nat, suspends : Nat] /\ now \in Nat \ {0}
        BY <3>1
      <4>2. call \in BOOLEAN /\ upd \in {"idle", "restart", "flag"}
        BY <3>1
      <4>3. QED
        BY <2>3, <4>1, <4>2 DEF WorldTyped
    <3>3. HistTyped
      BY <2>3, <3>1 DEF HistTyped
    <3>4. QED
      BY <3>2, <3>3
  <2>6. QED
    BY <2>2, <2>4, <2>5, Parts
<1>2. TypeOK /\ [Next]_vars => TypeOK'
  <2> SUFFICES ASSUME TypeOK, [Next]_vars PROVE TypeOK'
    OBVIOUS
  <2>1. CASE World
    BY <2>1, TypeMachine, TypeOthers DEF World
  <2>2. CASE Daemon
    BY <2>2, TypeStart, TypeSeed, TypeEnd DEF Daemon
  <2>3. CASE UNCHANGED vars
    BY <2>3, Parts, Untouched DEF vars
  <2>4. QED
    BY <2>1, <2>2, <2>3 DEF Next
<1>3. QED
  BY <1>1, <1>2, PTL DEF Spec
-----------------------------------------------------------------------------
(***************************************************************************)
(* What a step does to the process and to the file it loads, in the terms  *)
(* the invariants below need.                                              *)
(***************************************************************************)
Same   == se'.up = se.up /\ se'.mode = se.mode /\ se'.short = se.short
SameOn == Same /\ se'.on = se.on

\* A process that has just loaded the file.
Reloaded == se'.up /\ se'.on /\ se'.mode = live.mode /\ se'.short = live.short /\ live' = live

\* An overlay, its end and the dialog leave the rest of the process alone.
LEMMA SeShapes ==
  ASSUME TypeOK, NEW x, NEW y, NEW z,
         \/ se' = [se EXCEPT !.overlay = x, !.until = y]
         \/ se' = [se EXCEPT !.dialog = z]
         \/ se' = [[se EXCEPT !.overlay = x, !.until = y] EXCEPT !.dialog = z]
  PROVE  SameOn
BY DEF TypeOK, Process, SameOn, Same

LEMMA FreshShapes ==
  ASSUME NEW c
  PROVE  /\ Fresh(c).up /\ Fresh(c).on /\ Fresh(c).mode = c.mode /\ Fresh(c).short = c.short
         /\ \A k, d : LET p == Showing(Fresh(c), k, d)
                      IN  p.up /\ p.on /\ p.mode = c.mode /\ p.short = c.short
BY DEF Fresh, Showing

LEMMA SeStep ==
  ASSUME TypeOK, [Next]_vars
  PROVE  \/ SameOn \/ Reloaded \/ (SwitchForCall /\ Same)
         \/ ~se'.up /\ (Reboot \/ SafeEyesDies \/ Quit)
<1>1. CASE UNCHANGED se
  BY <1>1 DEF SameOn, Same
<1>3. CASE Suspend \/ TakeBreak \/ PressStart
  <2>1. CASE Suspend
    BY <2>1, SeShapes DEF Suspend, Cleared
  <2>2. CASE TakeBreak
    <3>1. \/ se' = Showing(se, "short", se.short)
          \/ se' = Showing(se, "long", LongBreak)
      BY <2>2 DEF TakeBreak
    <3>2. QED
      BY <3>1, SeShapes DEF Showing
  <2>3. CASE PressStart
    BY <2>3, SeShapes DEF PressStart
  <2>4. QED
    BY <1>3, <2>1, <2>2, <2>3
<1>4. CASE EndBreak \/ IdleGate
  <2>1. CASE EndBreak
    <3>1. se' = Cleared(se) \/ se' = [Cleared(se) EXCEPT !.dialog = TRUE]
      BY <2>1 DEF EndBreak, Gate
    <3>2. QED
      BY <3>1, SeShapes DEF Cleared
  <2>2. CASE IdleGate
    <3>1. se' = se \/ se' = [se EXCEPT !.dialog = TRUE]
      BY <2>2 DEF IdleGate, Gate
    <3>2. QED
      BY <1>1, <3>1, SeShapes
  <2>3. QED
    BY <1>4, <2>1, <2>2
<1>5. CASE UpdateRestart
  <2>1. se' = Showing(Fresh(live), "short", live.short) /\ live' = live
    BY <1>5 DEF UpdateRestart, fileVars
  <2>2. QED
    BY <2>1, FreshShapes DEF Reloaded
<1>6. CASE Reboot \/ SafeEyesDies \/ Quit
  <2>1. se' = Dead => ~se'.up
    BY DEF Dead
  <2>2. CASE se' = [se EXCEPT !.survivor = se.up]
    BY <2>2 DEF TypeOK, Process, SameOn, Same
  <2>3. QED
    BY <1>6, <2>1, <2>2 DEF Reboot, SafeEyesDies, Quit
<1>7. CASE BeginCycle \/ KeepAlive
  <2>1. se' \in {se, Fresh(live)} /\ live' = live
    BY <1>7 DEF BeginCycle, KeepAlive, fileVars
  <2>2. QED
    BY <1>1, <2>1, FreshShapes DEF Reloaded
<1>8. CASE ForceBreak
  BY <1>1, <1>8, SeShapes DEF ForceBreak, Showing
<1>9. CASE SwitchForCall
  <2>1. se' \in {se, Switched(se)} /\ se \in Process
    BY <1>9 DEF SwitchForCall, TypeOK
  <2>2. Same
    BY <2>1 DEF Same, Switched, Cleared, Process
  <2>3. QED
    BY <1>9, <2>2
<1>10. CASE Tick \/ Kill \/ Call \/ EditSource \/ UpdateSeed \/ UpdateFlag \/ UNCHANGED vars
  BY <1>1, <1>10 DEF Tick, Kill, Call, EditSource, UpdateSeed, UpdateFlag, vars
<1>11. CASE \/ Detect \/ Absorb \/ UnlinkForced \/ Reseed \/ ReimposeBreak \/ FreshInterval
            \/ NothingToSeed \/ RestoreConfig \/ NoSwitch \/ TrackBreak \/ EndCycle \/ Save
  BY <1>1, <1>11 DEF Detect, Absorb, UnlinkForced, Reseed, ReimposeBreak, FreshInterval,
     NothingToSeed, RestoreConfig, NoSwitch, TrackBreak, EndCycle, Save, Seed
<1>12. QED
  BY <1>3, <1>4, <1>5, <1>6, <1>7, <1>8, <1>9, <1>10, <1>11 DEF Next, World, Daemon

\* A SafeEyes that has not outlived a quit is the one there was, or has just
\* loaded the file.
LEMMA ReplacedStep ==
  ASSUME TypeOK, [Next]_vars, Replaced'
  PROVE  ~Quit /\ (Reloaded \/ (Same /\ Replaced))
<1>1. se'.up /\ ~se'.survivor /\ se \in Process
  BY DEF Replaced, TypeOK
<1>2. ~Quit
  <2>1. CASE se' = Dead
    BY <1>1, <2>1 DEF Dead
  <2>2. CASE se' = [se EXCEPT !.survivor = se.up]
    BY <1>1, <2>2 DEF Process
  <2>3. QED
    BY <2>1, <2>2 DEF Quit
<1>3. CASE Reloaded
  BY <1>2, <1>3
<1>4. CASE ~Reloaded
  <2>1. Same
    BY <1>1, <1>2, <1>4, SeStep DEF SameOn
  <2>2. se'.survivor = se.survivor
    <3>1. CASE UNCHANGED se
      BY <3>1
    <3>2. CASE se' = Dead
      BY <1>1, <3>2 DEF Dead
    <3>3. CASE \E x, y, z, on :
                 \/ se' = [se EXCEPT !.overlay = x, !.until = y]
                 \/ se' = [[se EXCEPT !.overlay = x, !.until = y] EXCEPT !.dialog = z]
                 \/ se' = [se EXCEPT !.dialog = z]
                 \/ se' = [[se EXCEPT !.overlay = x, !.until = y] EXCEPT !.on = on]
                 \/ se' = [se EXCEPT !.on = on]
      BY <1>1, <3>3 DEF Process
    <3>4. CASE \E c \in Config : /\ se' = Fresh(c) \/ \E k, d : se' = Showing(Fresh(c), k, d)
                               /\ c = live /\ live' = live
      BY <1>4, <3>4, FreshShapes DEF Reloaded
    <3>5. live \in Config
      BY DEF TypeOK
    <3>6. CASE Suspend \/ UpdateRestart \/ TakeBreak \/ PressStart \/ Reboot \/ SafeEyesDies
      BY <3>2, <3>3, <3>4, <3>5, <3>6 DEF Suspend, UpdateRestart, TakeBreak, PressStart, Reboot,
         SafeEyesDies, Showing, Cleared, fileVars
    <3>7. CASE EndBreak \/ IdleGate
      <4>1. \/ se' = se \/ se' = [se EXCEPT !.dialog = TRUE]
            \/ se' = [se EXCEPT !.overlay = "none", !.until = 0]
            \/ se' = [[se EXCEPT !.overlay = "none", !.until = 0] EXCEPT !.dialog = TRUE]
        BY <3>7 DEF EndBreak, IdleGate, Gate, Cleared
      <4>2. QED
        BY <1>1, <4>1 DEF Process
    <3>8. CASE BeginCycle \/ KeepAlive \/ ForceBreak
      BY <3>1, <3>3, <3>4, <3>5, <3>8 DEF BeginCycle, KeepAlive, ForceBreak, Showing, fileVars
    <3>9. CASE SwitchForCall
      BY <3>1, <3>3, <3>9 DEF SwitchForCall, Switched, Cleared
    <3>10. CASE Tick \/ Kill \/ Call \/ EditSource \/ UpdateSeed \/ UpdateFlag
      BY <3>1, <3>10 DEF Tick, Kill, Call, EditSource, UpdateSeed, UpdateFlag
    <3>11. CASE \/ Detect \/ Absorb \/ UnlinkForced \/ Reseed \/ ReimposeBreak \/ FreshInterval
                \/ NothingToSeed \/ RestoreConfig \/ NoSwitch \/ TrackBreak \/ EndCycle \/ Save
      BY <3>1, <3>11 DEF Detect, Absorb, UnlinkForced, Reseed, ReimposeBreak, FreshInterval,
         NothingToSeed, Seed, RestoreConfig, NoSwitch, TrackBreak, EndCycle, Save
    <3>12. QED
      BY <1>2, <3>1, <3>6, <3>7, <3>8, <3>9, <3>10, <3>11 DEF Next, World, Daemon, vars
  <2>3. QED
    BY <1>1, <1>2, <2>1, <2>2 DEF Same, Replaced
<1>5. QED
  BY <1>3, <1>4

\* The file changes where it is seeded only.
LEMMA LiveStep ==
  ASSUME TypeOK, [Next]_vars
  PROVE  \/ live' = live
         \/ UpdateSeed \/ Reseed \/ ReimposeBreak \/ FreshInterval \/ RestoreConfig
<1>1. CASE World \/ UNCHANGED vars
  BY <1>1 DEF World, Tick, Suspend, Kill, Reboot, Call, EditSource, UpdateRestart, UpdateFlag,
     TakeBreak, EndBreak, IdleGate, PressStart, SafeEyesDies, safeEyesOnly, fileVars, vars
<1>2. CASE \/ BeginCycle \/ Detect \/ Absorb \/ UnlinkForced \/ NothingToSeed
           \/ Quit \/ KeepAlive \/ ForceBreak \/ SwitchForCall
           \/ NoSwitch \/ TrackBreak \/ EndCycle \/ Save
  BY <1>2 DEF BeginCycle, Detect, Absorb, UnlinkForced, NothingToSeed, Quit, KeepAlive,
     ForceBreak, SwitchForCall, NoSwitch, TrackBreak, EndCycle, Save, fileVars
<1>3. QED
  BY <1>1, <1>2 DEF Next, Daemon

\* The machine, the user and update.sh reach the daemon by killing it only.
LEMMA WorldState == (World /\ ~Kill) \/ UNCHANGED vars => UNCHANGED stateVars
BY DEF World, Tick, Suspend, Reboot, Call, EditSource, UpdateSeed, UpdateRestart, UpdateFlag,
   TakeBreak, EndBreak, IdleGate, PressStart, SafeEyesDies, safeEyesOnly, vars

(***************************************************************************)
(* The daemon's copy of its state file is the file, but for the steps from *)
(* a change of it to its write.                                            *)
(***************************************************************************)
MemDisk == pc \notin {"down", "quit", "save"} => mem = disk

LEMMA MemDiskStep ==
  ASSUME TypeOK, MemDisk, [Next]_vars
  PROVE  MemDisk'
<1>1. CASE UNCHANGED stateVars \/ Kill
  BY <1>1 DEF MemDisk, stateVars, Kill
<1>2. CASE BeginCycle \/ Save
  BY <1>2 DEF MemDisk, BeginCycle, Save, Goto
<1>3. CASE Detect
  <2>1. pc = "detect" /\ mem = disk /\ disk' = disk /\ mem' = [mem EXCEPT !.boot = susp]
    BY <1>3 DEF Detect, Goto, MemDisk
  <2>2. CASE MustPersist
    BY <1>3, <2>2 DEF Detect, Goto, MemDisk
  <2>3. CASE ~MustPersist
    BY <2>1, <2>3, DaemonReads DEF MustPersist, SafeEyesState, MemDisk
  <2>4. QED
    BY <2>2, <2>3
<1>4. CASE Absorb \/ UnlinkForced
  BY <1>4 DEF Absorb, UnlinkForced, Goto, MemDisk
<1>5. CASE Reseed \/ ReimposeBreak \/ FreshInterval \/ NothingToSeed
  BY <1>5 DEF Reseed, ReimposeBreak, FreshInterval, NothingToSeed, Seed, Goto, SaveThen, MemDisk
<1>6. CASE Quit \/ RestoreConfig \/ KeepAlive \/ ForceBreak \/ SwitchForCall \/ NoSwitch
  BY <1>6 DEF Quit, RestoreConfig, KeepAlive, ForceBreak, SwitchForCall, NoSwitch, Goto, SaveThen,
     MemDisk
<1>7. CASE TrackBreak \/ EndCycle
  BY <1>7 DEF TrackBreak, EndCycle, Goto, SaveThen, MemDisk
<1>8. QED
  BY <1>1, <1>2, <1>3, <1>4, <1>5, <1>6, <1>7, WorldState DEF Next, Daemon

LEMMA MemDiskInvariant == Spec => []MemDisk
<1>1. Init => MemDisk
  BY DEF Init, MemDisk
<1>2. QED
  BY <1>1, MemDiskStep, GuardTyped, PTL DEF Spec

\* What the file says, or is about to say.
Recorded == IF pc \in {"quit", "save"} THEN mem ELSE disk

\* SIGTERM does not come between a change of the configuration and the write
\* of its record, nor in a write.
NoTear == KillPoints \intersect {"quit", "save"} = {}

(***************************************************************************)
(* The shortened break duration.                                           *)
(***************************************************************************)
ShortDay(c) == c.mode = "day" /\ c.short # ShortBreak

ShortInv ==
  /\ ShortDay(live) => Recorded.restore
  /\ Replaced /\ ShortDay(se) => pc = "quit" \/ Recorded.restore

LEMMA RestoreStep ==
  ASSUME NoTear, TypeOK, MemDisk, [Next]_vars, Recorded.restore, ~RestoreConfig
  PROVE  Recorded'.restore
<1>0. /\ mem \in SafeEyesState /\ disk \in SafeEyesState
      /\ pc \notin {"down", "quit", "save"} => mem = disk
  BY DaemonReads DEF MemDisk
<1>1. CASE UNCHANGED stateVars
  BY <1>1 DEF Recorded, stateVars
<1>2. CASE Kill
  BY <1>2 DEF Kill, NoTear, Recorded
<1>3. CASE BeginCycle \/ Save
  BY <1>3 DEF BeginCycle, Save, Goto, Recorded
<1>4. CASE Detect \/ Absorb
  <2>1. pc \in {"detect", "absorb"} /\ disk' = disk /\ mem'.restore = mem.restore
    BY <1>0, <1>4 DEF Detect, Absorb, Goto, SafeEyesState
  <2>2. QED
    BY <1>0, <2>1 DEF Recorded
<1>5. CASE Reseed \/ ReimposeBreak \/ FreshInterval
  <2>1. pc = "seed" /\ disk' = disk /\ (mem'.restore = mem.restore \/ mem'.restore)
    BY <1>0, <1>5 DEF Reseed, ReimposeBreak, FreshInterval, Seed, Goto, SaveThen, Seeded,
       Shortened, NoBreak, SafeEyesState
  <2>2. QED
    BY <1>0, <2>1 DEF Recorded
<1>6. CASE Quit \/ KeepAlive \/ ForceBreak \/ NoSwitch \/ NothingToSeed \/ UnlinkForced
  BY <1>0, <1>6 DEF Quit, KeepAlive, ForceBreak, NoSwitch, NothingToSeed, UnlinkForced, Seed, Goto,
     Recorded
<1>7. CASE SwitchForCall \/ TrackBreak \/ EndCycle
  <2>1. pc \in {"av", "track", "end"} /\ disk' = disk /\ mem'.restore = mem.restore
    BY <1>0, <1>7 DEF SwitchForCall, TrackBreak, EndCycle, Goto, SaveThen, NoBreak, SafeEyesState
  <2>2. QED
    BY <1>0, <2>1 DEF Recorded
<1>8. QED
  BY <1>1, <1>2, <1>3, <1>4, <1>5, <1>6, <1>7, WorldState DEF Next, Daemon

LEMMA LongSources ==
  /\ \A m \in Modes : ~ShortDay(Source(m))
  /\ \A t \in Nat : ~ShortDay(SeededAt(t))
<1>1. \A m \in Modes : ~ShortDay(Source(m))
  BY DEF ShortDay, Source
<1>2. \A t \in Nat : ~ShortDay(SeededAt(t))
  BY <1>1 DEF SeededAt, ShortDay, Patched, Source, Modes
<1>3. QED
  BY <1>1, <1>2

LEMMA ShortStep ==
  ASSUME NoTear, TypeOK, MemDisk, ShortInv, [Next]_vars
  PROVE  ShortInv'
<1>1. CASE RestoreConfig
  <2>1. CASE RestoreDue
    <3>1. live' = Source("day") /\ pc' = "quit"
      BY <1>1, <2>1 DEF RestoreConfig, Goto
    <3>2. QED
      BY <3>1, LongSources DEF ShortInv, Modes
  <2>2. CASE ~RestoreDue
    BY <1>1, <2>2 DEF RestoreConfig, Goto, ShortInv, Recorded, Replaced
  <2>3. QED
    BY <2>1, <2>2
<1>2. CASE ~RestoreConfig
  <2>1. Recorded.restore => Recorded'.restore
    BY <1>2, RestoreStep
  <2>2. ShortDay(live') => Recorded'.restore
    <3>1. CASE live' = live
      BY <2>1, <3>1 DEF ShortInv
    <3>2. CASE UpdateSeed \/ Reseed
      BY <3>2, LongSources, DaemonReads DEF UpdateSeed, Reseed
    <3>3. CASE FreshInterval
      BY <3>3, LongSources DEF FreshInterval, Modes
    <3>4. CASE ReimposeBreak /\ live' # live
      <4>1. mem' = Shortened(mem) /\ pc' = "quit"
        BY <3>4 DEF ReimposeBreak, Goto
      <4>2. mem'.restore
        BY <4>1, SeededType DEF Shortened, SafeEyesState
      <4>3. QED
        BY <4>1, <4>2 DEF Recorded
    <3>5. QED
      BY <1>2, <3>1, <3>2, <3>3, <3>4, LiveStep
  <2>3. Replaced' /\ ShortDay(se') => pc' = "quit" \/ Recorded'.restore
    <3>1. CASE ~Replaced'
      BY <3>1
    <3>2. CASE ~Reloaded /\ Replaced'
      <4>1. Same /\ Replaced /\ ~Quit
        BY <3>2, ReplacedStep
      <4>2. pc = "quit" => pc' = "quit"
        <5>1. CASE UNCHANGED stateVars
          BY <5>1 DEF stateVars
        <5>2. CASE Kill
          BY <5>2 DEF Kill, NoTear
        <5>3. ASSUME Daemon, pc = "quit" PROVE FALSE
          BY <4>1, <5>3 DEF Daemon, BeginCycle, Detect, Absorb, UnlinkForced, Reseed,
             ReimposeBreak, FreshInterval, NothingToSeed, Seed, RestoreConfig, KeepAlive,
             ForceBreak, SwitchForCall, NoSwitch, TrackBreak, EndCycle, Save
        <5>4. QED
          BY <5>1, <5>2, <5>3, WorldState DEF Next
      <4>3. QED
        BY <2>1, <4>1, <4>2 DEF ShortInv, ShortDay, Same
    <3>3. CASE Reloaded
      BY <2>1, <3>3 DEF Reloaded, ShortInv, ShortDay
    <3>4. QED
      BY <3>1, <3>2, <3>3
  <2>4. QED
    BY <2>2, <2>3 DEF ShortInv, ShortDay
<1>3. QED
  BY <1>1, <1>2

\* A shortened break duration, in the file or in a SafeEyes that has not outlived
\* its quit, is on record as one that a later cycle has to undo, whatever happens around the
\* daemon, if SIGTERM does not come between the change and its record.
THEOREM ShortenedIsRecordedHolds ==
  ASSUME NoTear
  PROVE  Spec => []ShortenedIsRecorded
<1>1. Init => ShortInv
  <2> SUFFICES ASSUME Init PROVE ShortInv
    OBVIOUS
  <2>1. live = Source("day") /\ se = Dead
    BY DEF Init
  <2>2. QED
    BY <2>1, LongSources DEF ShortInv, Replaced, Dead, Modes
<1>2. ShortInv => ShortenedIsRecorded
  BY DEF ShortInv, ShortenedIsRecorded, ShortDay, Recorded
<1>3. QED
  BY <1>1, <1>2, ShortStep, GuardTyped, MemDiskInvariant, PTL DEF Spec
-----------------------------------------------------------------------------
(***************************************************************************)
(* SafeEyes disabled for a call.                                           *)
(***************************************************************************)
\* update.sh has not announced a break of its own.
NotForced == ~forced /\ upd = "idle"

LEMMA NotForcedInvariant ==
  ASSUME "update" \notin Events
  PROVE  Spec => []NotForced
<1>1. Init => NotForced
  BY DEF Init, NotForced
<1>2. NotForced /\ [Next]_vars => NotForced'
  <2> SUFFICES ASSUME NotForced, [Next]_vars PROVE NotForced'
    OBVIOUS
  <2>1. CASE World \/ UNCHANGED vars
    BY <2>1 DEF NotForced, World, Tick, Suspend, Kill, Reboot, Call, EditSource, UpdateSeed,
       UpdateRestart, UpdateFlag, TakeBreak, EndBreak, IdleGate, PressStart, SafeEyesDies,
       safeEyesOnly, fileVars, worldVars, vars
  <2>2. CASE \/ BeginCycle \/ Detect \/ Absorb \/ UnlinkForced \/ Quit \/ KeepAlive \/ ForceBreak
             \/ SwitchForCall \/ NoSwitch \/ EndCycle \/ Save
    BY <2>2 DEF NotForced, BeginCycle, Detect, Absorb, UnlinkForced, Quit, KeepAlive, ForceBreak,
       SwitchForCall, NoSwitch, EndCycle, Save, fileVars, worldVars, daemonOnly
  <2>3. CASE Reseed \/ ReimposeBreak \/ FreshInterval \/ NothingToSeed
    BY <2>3 DEF NotForced, Reseed, ReimposeBreak, FreshInterval, NothingToSeed, Seed, worldVars,
       daemonOnly
  <2>4. CASE RestoreConfig \/ TrackBreak
    <3>1. UNCHANGED <<forced, daemonOnly>>
      BY <2>4 DEF RestoreConfig, TrackBreak, fileVars
    <3>2. QED
      BY <3>1 DEF NotForced, daemonOnly, worldVars
  <2>5. QED
    BY <2>1, <2>2, <2>3, <2>4 DEF Next, Daemon
<1>3. QED
  BY <1>1, <1>2, PTL DEF Spec

PausedRecorded == IF pc = "save" THEN mem.paused ELSE disk.paused

DisabledInv == se.up /\ ~se.on => PausedRecorded

\* se_paused_by_us is cleared by the switch, and where SafeEyes is quit.
LEMMA PausedStep ==
  ASSUME "save" \notin KillPoints, TypeOK, MemDisk, NotForced, [Next]_vars, PausedRecorded,
         ~SwitchForCall, ~Quit
  PROVE  PausedRecorded'
<1>0. /\ mem \in SafeEyesState /\ disk \in SafeEyesState
      /\ pc \notin {"down", "quit", "save"} => mem = disk
  BY DaemonReads DEF MemDisk
<1>1. CASE UNCHANGED stateVars
  BY <1>1 DEF PausedRecorded, stateVars
<1>2. CASE Kill
  BY <1>2 DEF Kill, PausedRecorded
<1>3. CASE BeginCycle \/ Save
  BY <1>3 DEF BeginCycle, Save, Goto, PausedRecorded
<1>4. CASE Detect \/ Absorb
  <2>1. pc \in {"detect", "absorb"} /\ disk' = disk /\ mem'.paused = mem.paused
    BY <1>0, <1>4 DEF Detect, Absorb, Goto, SafeEyesState, NotForced
  <2>2. QED
    BY <1>0, <2>1 DEF PausedRecorded
<1>5. CASE Reseed
  <2>1. pc = "seed" /\ disk' = disk
    BY <1>5 DEF Reseed, Seed, Goto
  <2>2. CASE PreserveTimer
    <3>1. mem'.paused = mem.paused
      <4>1. mem' = [Seeded(mem) EXCEPT !.paused = @ /\ TRUE]
        BY <1>5, <2>2 DEF Reseed, PreserveTimer
      <4>2. QED
        BY <1>0, <4>1 DEF Seeded, SafeEyesState
    <3>2. QED
      BY <1>0, <2>1, <3>1 DEF PausedRecorded
  <2>3. CASE ~PreserveTimer
    BY <1>5, <2>1, <2>3 DEF Reseed, Goto, PausedRecorded
  <2>4. QED
    BY <2>2, <2>3
<1>6. CASE ReimposeBreak \/ FreshInterval
  <2>1. pc = "seed" /\ disk' = disk /\ mem'.paused = mem.paused
    BY <1>0, <1>6 DEF ReimposeBreak, FreshInterval, Seed, Goto, SaveThen, Seeded, Shortened,
       NoBreak, SafeEyesState
  <2>2. QED
    BY <1>0, <2>1 DEF PausedRecorded
<1>7. CASE KeepAlive \/ ForceBreak \/ NoSwitch \/ NothingToSeed \/ UnlinkForced
  BY <1>0, <1>7 DEF KeepAlive, ForceBreak, NoSwitch, NothingToSeed, UnlinkForced, Seed, Goto,
     PausedRecorded
<1>8. CASE RestoreConfig \/ TrackBreak \/ EndCycle
  <2>1. pc \in {"restore", "track", "end"} /\ disk' = disk /\ mem'.paused = mem.paused
    BY <1>0, <1>8 DEF RestoreConfig, TrackBreak, EndCycle, Goto, SaveThen, NoBreak, SafeEyesState
  <2>2. QED
    BY <1>0, <2>1 DEF PausedRecorded
<1>9. QED
  BY <1>1, <1>2, <1>3, <1>4, <1>5, <1>6, <1>7, <1>8, WorldState DEF Next, Daemon

LEMMA DisabledStep ==
  ASSUME "save" \notin KillPoints, "deaf" \notin Events,
         TypeOK, MemDisk, NotForced, DisabledInv, [Next]_vars
  PROVE  DisabledInv'
<1>1. CASE SwitchForCall
  <2>1. se' = Switched(se) /\ pc' = "save" /\ mem' = [mem EXCEPT !.paused = call]
    BY <1>1 DEF SwitchForCall, SaveThen
  <2>2. call => mem'.paused
    BY <2>1, DaemonReads DEF SafeEyesState
  <2>3. ~call => se'.on
    BY <2>1, DaemonReads DEF Switched, Process
  <2>4. QED
    BY <2>1, <2>2, <2>3 DEF DisabledInv, PausedRecorded
<1>2. CASE Quit
  BY <1>2 DEF Quit, Dead, DisabledInv
<1>3. CASE ~SwitchForCall /\ ~Quit /\ se'.up /\ ~se'.on
  <2>1. se.up /\ ~se.on
    BY <1>3, SeStep DEF SameOn, Same, Reloaded
  <2>2. QED
    BY <1>3, <2>1, PausedStep DEF DisabledInv
<1>4. QED
  BY <1>1, <1>2, <1>3 DEF DisabledInv

\* SafeEyes is disabled only while the daemon has it on record, so the end of
\* the call switches it on again, through every kill outside the write of the
\* record, suspend, crash and reboot, if the switch commands are obeyed and
\* update.sh does not announce a night break.
THEOREM DisabledIsRecordedHolds ==
  ASSUME "save" \notin KillPoints, "deaf" \notin Events, "update" \notin Events
  PROVE  Spec => []DisabledIsRecorded
<1>1. Init => DisabledInv
  BY DEF Init, Dead, DisabledInv
<1>2. DisabledInv => DisabledIsRecorded
  BY DEF DisabledInv, DisabledIsRecorded, PausedRecorded
<1>3. QED
  BY <1>1, <1>2, DisabledStep, GuardTyped, MemDiskInvariant, NotForcedInvariant, PTL DEF Spec
-----------------------------------------------------------------------------
(***************************************************************************)
(* The configuration of the hour.                                          *)
(***************************************************************************)
\* Where a cycle goes on after SafeEyes has quit and after a write.
Route ==
  /\ pc = "quit" => loc.next \in {"restore", "launch"}
  /\ pc = "save" =>
       loc.next \in {"absorb", "unlink", "restore", "launch", "track", "end", "down"}

LEMMA RouteStep ==
  ASSUME TypeOK, Route, [Next]_vars
  PROVE  Route'
<1>0. loc \in Local
  BY DaemonReads
<1>1. CASE UNCHANGED stateVars \/ Kill
  BY <1>1 DEF Route, stateVars, Kill
<1>2. CASE Save
  BY <1>2 DEF Save, Route
<1>3. CASE BeginCycle \/ UnlinkForced \/ KeepAlive \/ ForceBreak \/ NoSwitch \/ NothingToSeed
  BY <1>3 DEF BeginCycle, UnlinkForced, KeepAlive, ForceBreak, NoSwitch, NothingToSeed, Goto,
     Route
<1>4. CASE Detect \/ Absorb \/ RestoreConfig
  BY <1>0, <1>4 DEF Detect, Absorb, RestoreConfig, Goto, Local, Route
<1>5. CASE Reseed \/ ReimposeBreak \/ FreshInterval
  BY <1>0, <1>5 DEF Reseed, ReimposeBreak, FreshInterval, Goto, SaveThen, Local, Route
<1>6. CASE Quit
  BY <1>6 DEF Quit, Goto, Route
<1>7. CASE SwitchForCall \/ TrackBreak \/ EndCycle
  <2>1. pc' = "end" \/ (pc' = "save" /\ loc'.next \in {"track", "end", "down"})
    BY <1>0, <1>7 DEF SwitchForCall, TrackBreak, EndCycle, Goto, SaveThen, Local
  <2>2. QED
    BY <2>1 DEF Route
<1>8. QED
  BY <1>1, <1>2, <1>3, <1>4, <1>5, <1>6, <1>7, WorldState DEF Next, Daemon

LEMMA RouteInvariant == Spec => []Route
<1>1. Init => Route
  BY DEF Init, Route
<1>2. QED
  BY <1>1, RouteStep, GuardTyped, PTL DEF Spec

\* Where the cycle has the hash of its source, and needs it.
Hashed == pc \in {"seed", "quit", "restore"} \/ (pc = "save" /\ loc.next = "restore")

\* What a cycle without a flag of update.sh does not do, and what it holds.
Control ==
  /\ pc # "unlink" /\ ~(pc = "save" /\ loc.next = "unlink")
  /\ Hashed => loc.hash # NoHash /\ loc.hash[1] = ModeAt(loc.t0)

LEMMA HashMode ==
  \A m \in Modes : Hash(m) # NoHash /\ Hash(m)[1] = m
BY DEF Hash, NoHash, Modes

LEMMA ControlStep ==
  ASSUME TypeOK, NotForced, Route, Control, [Next]_vars
  PROVE  Control'
<1>0. loc \in Local /\ ModeAt(loc.t0) \in Modes
  BY DaemonReads
<1>1. CASE UNCHANGED stateVars
  BY <1>1 DEF Control, Hashed, ModeAt, stateVars
<1>2. CASE Kill
  BY <1>2 DEF Kill, Control, Hashed
<1>3. CASE BeginCycle \/ UnlinkForced
  BY <1>3 DEF BeginCycle, UnlinkForced, Goto, Control, Hashed
<1>4. CASE Save
  BY <1>4 DEF Save, Route, Control, Hashed, ModeAt
<1>5. CASE Detect
  <2>1. pc' \in {"save", "absorb"} /\ loc'.next = "absorb"
    BY <1>0, <1>5 DEF Detect, Goto, Local
  <2>2. QED
    BY <2>1 DEF Control, Hashed
<1>6. CASE Absorb
  <2>1. pc' = "seed" /\ loc'.hash = Hash(ModeAt(loc.t0)) /\ loc'.t0 = loc.t0
    BY <1>0, <1>6 DEF Absorb, Goto, NotForced, Local
  <2>2. QED
    BY <1>0, <2>1, HashMode DEF Control, Hashed, ModeAt
<1>7. CASE Reseed \/ ReimposeBreak \/ FreshInterval \/ NothingToSeed
  <2>1. /\ pc = "seed" /\ pc' \in {"save", "quit", "restore"}
        /\ loc'.hash = loc.hash /\ loc'.t0 = loc.t0
        /\ pc' \in {"save", "quit"} => loc'.next = "restore"
    BY <1>0, <1>7 DEF Reseed, ReimposeBreak, FreshInterval, NothingToSeed, Seed, Goto, SaveThen,
       Local
  <2>2. QED
    BY <2>1 DEF Control, Hashed, ModeAt
<1>8. CASE RestoreConfig
  <2>1. /\ pc = "restore" /\ pc' \in {"quit", "launch"}
        /\ loc'.hash = loc.hash /\ loc'.t0 = loc.t0
        /\ pc' = "quit" => loc'.next = "launch"
    BY <1>0, <1>8 DEF RestoreConfig, Goto, Local
  <2>2. QED
    BY <2>1 DEF Control, Hashed, ModeAt
<1>9. CASE Quit \/ KeepAlive \/ ForceBreak \/ NoSwitch
  BY <1>9 DEF Quit, KeepAlive, ForceBreak, NoSwitch, Goto, Route, Control, Hashed, ModeAt
<1>10. CASE SwitchForCall \/ TrackBreak \/ EndCycle
  <2>1. pc' = "end" \/ (pc' = "save" /\ loc'.next \in {"track", "end", "down"})
    BY <1>0, <1>10 DEF SwitchForCall, TrackBreak, EndCycle, Goto, SaveThen, Local
  <2>2. QED
    BY <2>1 DEF Control, Hashed
<1>11. QED
  BY <1>1, <1>2, <1>3, <1>4, <1>5, <1>6, <1>7, <1>8, <1>9, <1>10, WorldState DEF Next, Daemon

LEMMA ControlInvariant ==
  ASSUME "update" \notin Events
  PROVE  Spec => []Control
<1>1. Init => Control
  BY DEF Init, Control, Hashed
<1>2. QED
  BY <1>1, ControlStep, GuardTyped, RouteInvariant, NotForcedInvariant, PTL DEF Spec

\* The record and the file name the same mode.  The record of a mode may be
\* behind, never that of the hash.
Agreed ==
  /\ Recorded.strict = "unknown" <=> Recorded.hash = NoHash
  /\ Recorded.hash # NoHash => live.mode = Recorded.hash[1]
  /\ Recorded.strict = "day" => live.mode = "day"
  /\ Recorded.restore => Recorded.strict # "unknown"

\* A process that is not about to be replaced, and has not outlived a quit, runs
\* what the file says.
Loaded == Replaced /\ pc # "quit" => se.mode = live.mode

\* What the comparison of a cycle has found.
Compared ==
  pc = "seed" =>
    /\ loc.boundary <=> mem.strict # ModeAt(loc.t0)
    /\ ~loc.drift => mem.hash = loc.hash

Settled ==
  \/ pc \in {"restore", "launch", "force", "av", "track", "end"}
  \/ pc \in {"quit", "save"} /\ loc.next \in {"restore", "launch", "track", "end"}

\* What a cycle has installed.
Installed ==
  Settled /\ ~loc.skip =>
    /\ AtNight => live.mode = "night"
    /\ ~loc.resumed => mem.strict = ModeAt(loc.t0) /\ live.mode = mem.strict

Known == TypeOK /\ MemDisk /\ Route /\ NotForced /\ Control

ModeInv == Agreed /\ Loaded /\ Compared /\ Installed

\* What the steps that seed nothing leave alone.
SameMode ==
  /\ live' = live
  /\ Recorded'.strict = Recorded.strict
  /\ Recorded'.hash = Recorded.hash
  /\ Recorded'.restore = Recorded.restore

\* The steps that change the configuration and its record.
Seeds == Reseed \/ ReimposeBreak \/ FreshInterval \/ (RestoreConfig /\ RestoreDue)

LEMMA SameModeStep ==
  ASSUME NoTear, "update" \notin Events, Known, [Next]_vars, ~Seeds
  PROVE  SameMode
<1>0. /\ mem \in SafeEyesState /\ disk \in SafeEyesState
      /\ pc \notin {"down", "quit", "save"} => mem = disk
  BY DaemonReads DEF MemDisk, Known
<1>1. live' = live
  BY LiveStep DEF Known, Seeds, UpdateSeed, RestoreConfig
<1>2. CASE UNCHANGED stateVars
  BY <1>1, <1>2 DEF SameMode, Recorded, stateVars
<1>3. CASE Kill
  BY <1>1, <1>3 DEF Kill, NoTear, Recorded, SameMode
<1>4. CASE BeginCycle
  BY <1>1, <1>4 DEF BeginCycle, Goto, Recorded, SameMode
<1>5. CASE Save
  BY <1>1, <1>5 DEF Save, Recorded, SameMode, Known, Route
<1>6. CASE Detect \/ Absorb
  <2>1. /\ pc \in {"detect", "absorb"} /\ disk' = disk
        /\ mem'.strict = mem.strict /\ mem'.hash = mem.hash /\ mem'.restore = mem.restore
    BY <1>0, <1>6 DEF Detect, Absorb, Goto, SafeEyesState, Known, NotForced
  <2>2. QED
    BY <1>0, <1>1, <2>1 DEF Recorded, SameMode
<1>7. CASE Quit \/ KeepAlive \/ ForceBreak \/ NoSwitch \/ NothingToSeed \/ UnlinkForced
  BY <1>0, <1>1, <1>7 DEF Quit, KeepAlive, ForceBreak, NoSwitch, NothingToSeed, UnlinkForced,
     Seed, Goto, Recorded, SameMode
<1>8. CASE RestoreConfig
  BY <1>0, <1>1, <1>8 DEF Seeds, RestoreConfig, Goto, Recorded, SameMode
<1>9. CASE SwitchForCall \/ TrackBreak \/ EndCycle
  <2>1. /\ pc \in {"av", "track", "end"} /\ disk' = disk
        /\ mem'.strict = mem.strict /\ mem'.hash = mem.hash /\ mem'.restore = mem.restore
    <3>1. CASE SwitchForCall \/ EndCycle
      BY <1>0, <3>1 DEF SwitchForCall, EndCycle, Goto, SaveThen, SafeEyesState
    <3>2. CASE TrackBreak
      <4>1. \/ mem' = mem \/ mem' = NoBreak(mem)
            \/ \E seen \in Seen :
                 mem' = [mem EXCEPT !.active = TRUE, !.type = seen, !.start = loc.t0]
        BY <3>2 DEF TrackBreak
      <4>2. mem'.strict = mem.strict /\ mem'.hash = mem.hash /\ mem'.restore = mem.restore
        BY <1>0, <4>1 DEF NoBreak, SafeEyesState
      <4>3. QED
        BY <3>2, <4>2 DEF TrackBreak, Goto, SaveThen
    <3>3. QED
      BY <1>9, <3>1, <3>2
  <2>2. QED
    BY <1>0, <1>1, <2>1 DEF Recorded, SameMode
<1>10. QED
  BY <1>2, <1>3, <1>4, <1>5, <1>6, <1>7, <1>8, <1>9, WorldState DEF Next, Daemon, Seeds

\* The four steps that install a configuration.
LEMMA SeedsStep ==
  ASSUME Known, ModeInv, Seeds
  PROVE  /\ loc'.t0 = loc.t0 /\ loc'.skip = loc.skip /\ loc'.resumed = loc.resumed
         /\ pc \in {"seed", "restore"} /\ pc' \in {"quit", "save"}
         /\ loc'.next \in {"restore", "launch"}
         /\ Agreed'
         /\ live'.mode = ModeAt(loc.t0) \/ live' = live
         /\ mem'.strict = ModeAt(loc.t0) \/ mem'.strict = mem.strict
<1>0. /\ mem \in SafeEyesState /\ loc \in Local /\ ModeAt(loc.t0) \in Modes
      /\ pc \in {"seed", "restore"} /\ mem = disk
  BY DaemonReads DEF Known, MemDisk, Seeds, Reseed, ReimposeBreak, FreshInterval, RestoreConfig,
     Seed
<1>1. loc.hash # NoHash /\ loc.hash[1] = ModeAt(loc.t0) /\ loc.hash \in Modes \X Nat
  BY <1>0 DEF Known, Control, Hashed, Local
<1>2. /\ loc'.t0 = loc.t0 /\ loc'.skip = loc.skip /\ loc'.resumed = loc.resumed
      /\ pc' \in {"quit", "save"} /\ loc'.next \in {"restore", "launch"}
  BY <1>0 DEF Seeds, Reseed, ReimposeBreak, FreshInterval, RestoreConfig, Goto, SaveThen, Local
<1>3. Recorded' = mem' /\ Recorded = mem
  BY <1>0, <1>2 DEF Recorded
<1>4. ASSUME live'.mode = ModeAt(loc.t0), mem'.hash = loc.hash, mem'.strict = ModeAt(loc.t0)
      PROVE  Agreed'
  BY <1>0, <1>1, <1>3, <1>4 DEF Agreed, Modes
<1>5. CASE Reseed
  <2>1. live'.mode = ModeAt(loc.t0)
    BY <1>0, <1>5 DEF Reseed, SeededAt, Patched, Source, Modes
  <2>2. mem'.hash = loc.hash /\ mem'.strict = ModeAt(loc.t0)
    BY <1>0, <1>5 DEF Reseed, Seeded, SafeEyesState
  <2>3. QED
    BY <1>0, <1>2, <1>4, <2>1, <2>2
<1>6. CASE ReimposeBreak /\ BreakOver
  <2>1. live' = live /\ mem' = NoBreak(mem)
    BY <1>6 DEF ReimposeBreak
  <2>2. mem'.hash = mem.hash /\ mem'.strict = mem.strict /\ mem'.restore = mem.restore
    BY <1>0, <2>1 DEF NoBreak, SafeEyesState
  <2>3. Agreed'
    BY <1>3, <2>1, <2>2 DEF ModeInv, Agreed
  <2>4. QED
    BY <1>0, <1>2, <2>1, <2>2, <2>3
<1>7. CASE (ReimposeBreak /\ ~BreakOver) \/ FreshInterval
  <2>1. ModeAt(loc.t0) = "day"
    BY <1>0, <1>7 DEF ReimposeBreak, FreshInterval, AtNight, Modes
  <2>2. live'.mode = "day"
    BY <1>7 DEF ReimposeBreak, FreshInterval, Patched, Source
  <2>3. mem'.hash = loc.hash /\ mem'.strict = ModeAt(loc.t0)
    BY <1>0, <1>7 DEF ReimposeBreak, FreshInterval, Shortened, Seeded, SafeEyesState
  <2>4. QED
    BY <1>0, <1>2, <1>4, <2>1, <2>2, <2>3
<1>8. CASE RestoreConfig /\ RestoreDue
  <2>1. ModeAt(loc.t0) = "day" /\ mem.restore
    BY <1>0, <1>8 DEF RestoreDue, AtNight, Modes
  <2>2. live'.mode = "day"
    BY <1>8 DEF RestoreConfig, Source
  <2>3. mem'.hash = loc.hash /\ mem'.strict = mem.strict /\ ~mem'.restore
    BY <1>0, <1>8 DEF RestoreConfig, NoBreak, SafeEyesState
  <2>4. mem.strict # "unknown"
    BY <1>3, <2>1 DEF ModeInv, Agreed
  <2>5. Agreed'
    BY <1>1, <1>3, <2>1, <2>2, <2>3, <2>4 DEF Agreed
  <2>6. QED
    BY <1>0, <1>2, <2>1, <2>2, <2>3, <2>5
<1>9. QED
  BY <1>5, <1>6, <1>7, <1>8 DEF Seeds

LEMMA LoadedStep ==
  ASSUME NoTear, "update" \notin Events, Known, ModeInv, [Next]_vars
  PROVE  Loaded'
<1>1. SUFFICES ASSUME Replaced', pc' # "quit" PROVE se'.mode = live'.mode
  BY DEF Loaded
<1>2. CASE Reloaded
  BY <1>2 DEF Reloaded
<1>3. CASE ~Reloaded
  <2>1. Same /\ Replaced /\ ~Quit
    BY <1>1, <1>3, ReplacedStep DEF Known
  <2>2. pc # "quit"
    <3>2. CASE UNCHANGED stateVars
      BY <1>1, <3>2 DEF stateVars
    <3>3. CASE Kill
      BY <3>3 DEF Kill, NoTear
    <3>4. ASSUME Daemon, pc = "quit" PROVE FALSE
      BY <2>1, <3>4 DEF Daemon, BeginCycle, Detect, Absorb, UnlinkForced, Reseed, ReimposeBreak,
         FreshInterval, NothingToSeed, Seed, RestoreConfig, KeepAlive, ForceBreak, SwitchForCall,
         NoSwitch, TrackBreak, EndCycle, Save
    <3>5. QED
      BY <3>2, <3>3, <3>4, WorldState DEF Next
  <2>3. se.mode = live.mode
    BY <1>1, <2>1, <2>2 DEF ModeInv, Loaded, Same
  <2>4. CASE ~Seeds
    BY <2>1, <2>3, <2>4, SameModeStep DEF SameMode, Same
  <2>5. CASE Seeds
    <3>1. CASE Reseed
      <4>1. PreserveTimer /\ pc = "seed" /\ live' = SeededAt(loc.t0)
        BY <1>1, <3>1 DEF Reseed, Goto, Seed
      <4>2. ModeAt(loc.t0) = "day" /\ mem.strict = "day"
        BY <4>1, DaemonReads DEF PreserveTimer, AtNight, ModeInv, Compared, Modes, Known
      <4>3. live.mode = "day"
        BY <4>1, <4>2 DEF ModeInv, Agreed, Recorded, Known, MemDisk
      <4>4. live'.mode = "day"
        BY <4>1, <4>2 DEF SeededAt, Source
      <4>5. QED
        BY <2>1, <2>3, <4>3, <4>4 DEF Same
    <3>2. CASE ReimposeBreak
      BY <1>1, <2>1, <2>3, <3>2 DEF ReimposeBreak, Goto, Same
    <3>3. CASE FreshInterval \/ (RestoreConfig /\ RestoreDue)
      BY <1>1, <3>3 DEF FreshInterval, RestoreConfig, Goto
    <3>4. QED
      BY <2>5, <3>1, <3>2, <3>3 DEF Seeds
  <2>6. QED
    BY <2>4, <2>5
<1>4. QED
  BY <1>2, <1>3

LEMMA ComparedStep ==
  ASSUME Known, ModeInv, [Next]_vars
  PROVE  Compared'
<1>1. CASE UNCHANGED stateVars
  BY <1>1 DEF ModeInv, Compared, ModeAt, stateVars
<1>2. CASE Absorb
  <2>1. /\ mem' = mem
        /\ loc' = [loc EXCEPT !.boundary = mem.strict # ModeAt(loc.t0),
                              !.drift = Hash(ModeAt(loc.t0)) # mem.hash,
                              !.hash = Hash(ModeAt(loc.t0)), !.next = "unlink"]
    BY <1>2 DEF Absorb, ModeChanged, Known, NotForced
  <2>2. /\ loc'.t0 = loc.t0
        /\ loc'.boundary = (mem.strict # ModeAt(loc.t0))
        /\ loc'.drift = (Hash(ModeAt(loc.t0)) # mem.hash)
        /\ loc'.hash = Hash(ModeAt(loc.t0))
    BY <2>1, DaemonReads DEF Known, Local
  <2>3. QED
    BY <2>1, <2>2 DEF Compared, ModeAt
<1>3. CASE Save \/ Kill
  BY <1>3 DEF Save, Kill, Known, Route, Compared
<1>4. CASE Daemon /\ ~Absorb /\ ~Save
  <2>1. pc' # "seed"
    <3>1. ~UnlinkForced
      BY DEF UnlinkForced, Known, Control
    <3>2. CASE BeginCycle \/ Detect \/ Quit \/ RestoreConfig \/ KeepAlive \/ ForceBreak
      BY <3>2 DEF BeginCycle, Detect, Quit, RestoreConfig, KeepAlive, ForceBreak, Goto
    <3>3. CASE Reseed \/ ReimposeBreak \/ FreshInterval \/ NothingToSeed
      BY <3>3 DEF Reseed, ReimposeBreak, FreshInterval, NothingToSeed, Goto, SaveThen
    <3>4. CASE SwitchForCall \/ NoSwitch \/ TrackBreak \/ EndCycle
      BY <3>4 DEF SwitchForCall, NoSwitch, TrackBreak, EndCycle, Goto, SaveThen
    <3>5. QED
      BY <1>4, <3>1, <3>2, <3>3, <3>4 DEF Daemon
  <2>2. QED
    BY <2>1 DEF Compared
<1>5. QED
  BY <1>1, <1>2, <1>3, <1>4, WorldState DEF Next

LEMMA InstalledStep ==
  ASSUME NoTear, "update" \notin Events, Known, ModeInv, [Next]_vars
  PROVE  Installed'
<1>0. /\ mem \in SafeEyesState /\ loc \in Local /\ ModeAt(loc.t0) \in Modes
      /\ pc \notin {"down", "quit", "save"} => mem = disk
  BY DaemonReads DEF Known, MemDisk
<1>1. CASE Seeds
  <2>1. /\ loc'.t0 = loc.t0 /\ loc'.skip = loc.skip /\ loc'.resumed = loc.resumed
        /\ pc \in {"seed", "restore"}
    BY <1>1, SeedsStep
  <2>2. CASE Reseed
    <3>1. live'.mode = ModeAt(loc.t0) /\ mem'.strict = ModeAt(loc.t0)
      BY <1>0, <2>2 DEF Reseed, SeededAt, Patched, Source, Seeded, SafeEyesState, Modes
    <3>2. QED
      BY <2>1, <3>1 DEF Installed, AtNight, ModeAt
  <2>3. CASE ReimposeBreak \/ FreshInterval
    BY <2>1, <2>3 DEF ReimposeBreak, FreshInterval, Installed, AtNight, ModeAt
  <2>4. CASE RestoreConfig /\ RestoreDue
    <3>1. pc = "restore" /\ ModeAt(loc.t0) = "day" /\ live'.mode = "day"
      BY <1>0, <2>4 DEF RestoreConfig, RestoreDue, AtNight, Modes, Source
    <3>2. mem'.strict = mem.strict
      BY <1>0, <2>4 DEF RestoreConfig, NoBreak, SafeEyesState
    <3>3. QED
      BY <2>1, <3>1, <3>2 DEF ModeInv, Installed, Settled, AtNight, ModeAt
  <2>5. QED
    BY <1>1, <2>2, <2>3, <2>4 DEF Seeds
<1>2. CASE ~Seeds
  <2>1. live' = live
    BY <1>2, SameModeStep DEF SameMode
  <2>2. CASE UNCHANGED stateVars
    BY <2>1, <2>2 DEF ModeInv, Installed, Settled, AtNight, ModeAt, stateVars
  <2>3. CASE Kill \/ BeginCycle \/ Absorb \/ UnlinkForced
    <3>1. ~UnlinkForced
      BY DEF UnlinkForced, Known, Control
    <3>2. CASE Kill
      BY <3>2 DEF Kill, Installed, Settled
    <3>3. CASE BeginCycle
      <4>1. pc' = "detect" \/ loc'.skip
        BY <3>3, StateType DEF BeginCycle, Goto, Local
      <4>2. pc' \in {"detect", "end"}
        BY <3>3 DEF BeginCycle, Goto
      <4>3. QED
        BY <4>1, <4>2 DEF Installed, Settled
    <3>4. CASE Absorb
      BY <3>4 DEF Absorb, Goto, Known, NotForced, Installed, Settled
    <3>5. QED
      BY <2>3, <3>1, <3>2, <3>3, <3>4
  <2>4. CASE Detect
    <3>1. pc' \in {"save", "absorb"} /\ loc'.next = "absorb"
      BY <1>0, <2>4 DEF Detect, Goto, Local
    <3>2. QED
      BY <3>1 DEF Installed, Settled
  <2>5. CASE Save
    <3>1. CASE loc.next = "down"
      BY <2>5, <3>1 DEF Save, Installed, Settled
    <3>2. CASE loc.next # "down"
      <4>1. loc' = loc /\ mem' = mem /\ pc' = loc.next /\ pc = "save"
        BY <2>5, <3>2 DEF Save
      <4>2. Settled' => Settled
        BY <4>1 DEF Settled, Known, Route, Control
      <4>3. QED
        BY <2>1, <4>1, <4>2 DEF ModeInv, Installed, AtNight, ModeAt
    <3>3. QED
      BY <3>1, <3>2
  <2>6. CASE NothingToSeed
    <3>1. pc = "seed" /\ pc' = "restore" /\ mem' = mem /\ loc' = loc
      BY <2>6 DEF NothingToSeed, Seed, Goto
    <3>2. loc.hash # NoHash /\ loc.hash[1] = ModeAt(loc.t0)
      BY <3>1 DEF Known, Control, Hashed
    <3>3. loc.resumed => ~AtNight
      BY <2>6 DEF NothingToSeed
    <3>4. ~loc.resumed => mem.strict = ModeAt(loc.t0) /\ mem.hash = loc.hash
      BY <2>6, <3>1 DEF NothingToSeed, ModeInv, Compared
    <3>5. ~loc.resumed => live.mode = ModeAt(loc.t0)
      BY <1>0, <3>1, <3>2, <3>4 DEF ModeInv, Agreed, Recorded
    <3>6. QED
      BY <2>1, <3>1, <3>3, <3>4, <3>5 DEF Installed, AtNight, ModeAt
  <2>7. CASE Quit \/ RestoreConfig \/ KeepAlive \/ ForceBreak \/ NoSwitch
    <3>1. mem' = mem /\ loc' = loc
      BY <1>2, <2>7 DEF Quit, RestoreConfig, KeepAlive, ForceBreak, NoSwitch, Seeds
    <3>2. Settled' => Settled
      BY <1>2, <2>7, <3>1
         DEF Quit, RestoreConfig, KeepAlive, ForceBreak, NoSwitch, Seeds, Goto, Settled
    <3>3. QED
      BY <2>1, <3>1, <3>2 DEF ModeInv, Installed, AtNight, ModeAt
  <2>8. CASE SwitchForCall \/ TrackBreak
    <3>1. mem'.strict = mem.strict
      BY <1>2, <1>0, <2>8, SameModeStep DEF SwitchForCall, TrackBreak, SameMode, Recorded, Goto,
         SaveThen
    <3>2. /\ loc'.t0 = loc.t0 /\ loc'.skip = loc.skip /\ loc'.resumed = loc.resumed
          /\ pc \in {"av", "track"}
      BY <1>0, <2>8 DEF SwitchForCall, TrackBreak, Goto, SaveThen, Local
    <3>3. QED
      BY <2>1, <3>1, <3>2 DEF ModeInv, Installed, Settled, AtNight, ModeAt
  <2>9. CASE EndCycle
    <3>1. pc' = "save" /\ loc'.next = "down"
      BY <1>0, <2>9 DEF EndCycle, SaveThen, Local
    <3>2. QED
      BY <3>1 DEF Installed, Settled
  <2>10. QED
    BY <1>2, <2>2, <2>3, <2>4, <2>5, <2>6, <2>7, <2>8, <2>9, WorldState
       DEF Next, Daemon, Seeds
<1>3. QED
  BY <1>1, <1>2

LEMMA ModeStep ==
  ASSUME NoTear, "update" \notin Events, Known, ModeInv, [Next]_vars
  PROVE  ModeInv'
<1>1. Agreed'
  <2>1. CASE Seeds
    BY <2>1, SeedsStep
  <2>2. CASE ~Seeds
    BY <2>2, SameModeStep DEF SameMode, ModeInv, Agreed
  <2>3. QED
    BY <2>1, <2>2
<1>2. QED
  BY <1>1, LoadedStep, ComparedStep, InstalledStep DEF ModeInv

\* A cycle that was not skipped for the dialog ends with the configuration of
\* its hour recorded, installed and loaded by a SafeEyes that has not outlived
\* its quit, whatever SafeEyes answers, through every crash,
\* edit, suspend, reboot and kill, if SIGTERM does not come between the change
\* of the configuration and its record and update.sh seeds nothing itself.
THEOREM ModeEnforcedHolds ==
  ASSUME NoTear, "update" \notin Events
  PROVE  Spec => []ModeEnforced
<1>1. Init => ModeInv
  <2> SUFFICES ASSUME Init PROVE ModeInv
    OBVIOUS
  <2>1. pc = "down" /\ disk = Blank /\ se = Dead
    BY DEF Init
  <2>2. QED
    BY <2>1 DEF ModeInv, Agreed, Loaded, Replaced, Compared, Installed, Settled, Recorded, Blank,
       Dead
<1>2. Known /\ ModeInv => ModeEnforced
  <2> SUFFICES ASSUME Known, ModeInv, CycleDone, ModeAt(now) = ModeAt(loc.t0)
               PROVE  /\ ~loc.resumed => mem.strict = ModeAt(loc.t0) /\ live.mode = mem.strict
                      /\ mem.strict # "unknown" => live.mode \in {mem.strict, ModeAt(loc.t0)}
                      /\ Replaced => se.mode = live.mode
    BY DEF ModeEnforced
  <2>1. pc = "end" /\ ~loc.skip /\ Settled /\ mem = disk
    BY DEF CycleDone, Settled, Known, MemDisk
  <2>2. Installed /\ Loaded /\ Agreed
    BY DEF ModeInv
  <2>3. mem.strict \in {"day", "night", "unknown"} /\ live.mode \in {"day", "night"}
        /\ ModeAt(loc.t0) \in {"day", "night"}
    BY DaemonReads DEF Known, SafeEyesState, Modes, Config
  <2>4. mem.strict = "day" => live.mode = "day"
    BY <2>1, <2>2 DEF Agreed, Recorded
  <2>5. QED
    BY <2>1, <2>2, <2>3, <2>4 DEF Installed, Loaded, AtNight
<1>3. Spec => []Known
  BY GuardTyped, MemDiskInvariant, RouteInvariant, NotForcedInvariant, ControlInvariant, PTL
     DEF Known
<1>4. QED
  BY <1>1, <1>2, <1>3, ModeStep, PTL DEF Spec
-----------------------------------------------------------------------------
(***************************************************************************)
(* The detection of a suspend.                                             *)
(***************************************************************************)
\* The counter of the last persisted detection, 0 if there was none.
Accounted == IF handled = -1 THEN 0 ELSE handled

\* What the steps of a cycle between its first and its writes leave alone.
LEMMA DaemonFrame ==
  ASSUME TypeOK, Daemon, ~BeginCycle, ~Save
  PROVE  /\ UNCHANGED <<now, susp, src, call, upd, disk>>
         /\ pc \notin {"down", "save"}
         /\ loc'.t0 = loc.t0 /\ loc'.skip = loc.skip
         /\ mem'.strict \in {mem.strict, disk.strict, ModeAt(loc.t0)}
         /\ ~Detect => /\ handled' = handled /\ loc'.resumed = loc.resumed
                       /\ mem'.boot \in {mem.boot, disk.boot}
<1>0. mem \in SafeEyesState /\ disk \in SafeEyesState /\ loc \in Local
  BY DaemonReads
<1>1. CASE Detect
  <2>1. /\ UNCHANGED worldVars /\ disk' = disk /\ pc = "detect"
        /\ mem' = [mem EXCEPT !.boot = susp]
    BY <1>1 DEF Detect, Goto
  <2>2. loc'.t0 = loc.t0 /\ loc'.skip = loc.skip
    BY <1>0, <1>1 DEF Detect, Local
  <2>3. mem'.strict = mem.strict
    BY <1>0, <2>1 DEF SafeEyesState
  <2>4. QED
    BY <1>1, <2>1, <2>2, <2>3 DEF worldVars
<1>2. CASE Absorb
  <2>1. UNCHANGED daemonOnly /\ disk' = disk /\ pc = "absorb"
    BY <1>2 DEF Absorb, Goto
  <2>2. loc'.t0 = loc.t0 /\ loc'.skip = loc.skip /\ loc'.resumed = loc.resumed
    BY <1>0, <1>2 DEF Absorb, Local
  <2>3. mem'.strict \in {mem.strict, ModeAt(loc.t0)} /\ mem'.boot = mem.boot
    BY <1>0, <1>2 DEF Absorb, SafeEyesState
  <2>4. QED
    BY <2>1, <2>2, <2>3 DEF daemonOnly, worldVars
<1>3. CASE \/ UnlinkForced \/ NothingToSeed \/ Quit \/ KeepAlive \/ ForceBreak \/ NoSwitch
  <2>1. UNCHANGED <<daemonOnly, mem, loc, disk>>
    BY <1>3 DEF UnlinkForced, NothingToSeed, Seed, Quit, KeepAlive, ForceBreak, NoSwitch, Goto
  <2>2. pc \notin {"down", "save"}
    BY <1>3 DEF UnlinkForced, NothingToSeed, Seed, Quit, KeepAlive, ForceBreak, NoSwitch
  <2>3. QED
    BY <2>1, <2>2 DEF daemonOnly, worldVars
<1>4. CASE Reseed \/ ReimposeBreak \/ FreshInterval
  <2>1. UNCHANGED daemonOnly /\ disk' = disk /\ pc = "seed"
    BY <1>4 DEF Reseed, ReimposeBreak, FreshInterval, Seed, Goto, SaveThen
  <2>2. loc'.t0 = loc.t0 /\ loc'.skip = loc.skip /\ loc'.resumed = loc.resumed
    BY <1>0, <1>4 DEF Reseed, ReimposeBreak, FreshInterval, SaveThen, Local
  <2>3. mem'.strict \in {mem.strict, ModeAt(loc.t0)} /\ mem'.boot = mem.boot
    BY <1>0, <1>4 DEF Reseed, ReimposeBreak, FreshInterval, Seeded, Shortened, NoBreak,
       SafeEyesState
  <2>4. QED
    BY <2>1, <2>2, <2>3 DEF daemonOnly, worldVars
<1>5. CASE RestoreConfig
  <2>1. UNCHANGED daemonOnly /\ disk' = disk /\ pc = "restore"
    BY <1>5 DEF RestoreConfig, Goto
  <2>2. loc'.t0 = loc.t0 /\ loc'.skip = loc.skip /\ loc'.resumed = loc.resumed
    BY <1>0, <1>5 DEF RestoreConfig, Local
  <2>3. mem'.strict = mem.strict /\ mem'.boot = mem.boot
    BY <1>0, <1>5 DEF RestoreConfig, NoBreak, SafeEyesState
  <2>4. QED
    BY <2>1, <2>2, <2>3 DEF daemonOnly, worldVars
<1>6. CASE SwitchForCall
  <2>1. UNCHANGED daemonOnly /\ disk' = disk /\ pc = "av"
    BY <1>6 DEF SwitchForCall, SaveThen
  <2>2. loc'.t0 = loc.t0 /\ loc'.skip = loc.skip /\ loc'.resumed = loc.resumed
    BY <1>0, <1>6 DEF SwitchForCall, SaveThen, Local
  <2>3. mem'.strict = mem.strict /\ mem'.boot = mem.boot
    BY <1>0, <1>6 DEF SwitchForCall, SafeEyesState
  <2>4. QED
    BY <2>1, <2>2, <2>3 DEF daemonOnly, worldVars
<1>7. CASE TrackBreak
  <2>1. /\ \/ mem' = mem \/ mem' = NoBreak(mem)
           \/ \E seen \in Seen :
                mem' = [mem EXCEPT !.active = TRUE, !.type = seen, !.start = loc.t0]
        /\ loc' = loc \/ loc' = [loc EXCEPT !.next = "end"]
        /\ UNCHANGED daemonOnly /\ disk' = disk /\ pc = "track"
    BY <1>7 DEF TrackBreak, Goto, SaveThen
  <2>2. mem'.strict = mem.strict /\ mem'.boot = mem.boot
    BY <1>0, <2>1 DEF NoBreak, SafeEyesState
  <2>3. loc'.t0 = loc.t0 /\ loc'.skip = loc.skip /\ loc'.resumed = loc.resumed
    BY <1>0, <2>1 DEF Local
  <2>4. QED
    BY <2>1, <2>2, <2>3 DEF daemonOnly, worldVars
<1>8. CASE EndCycle
  <2>1. UNCHANGED daemonOnly /\ disk' = disk /\ pc = "end" /\ mem' = [disk EXCEPT !.last = now]
    BY <1>8 DEF EndCycle, SaveThen
  <2>2. loc'.t0 = loc.t0 /\ loc'.skip = loc.skip /\ loc'.resumed = loc.resumed
    BY <1>0, <1>8 DEF EndCycle, SaveThen, Local
  <2>3. mem'.strict = disk.strict /\ mem'.boot = disk.boot
    BY <1>0, <2>1 DEF SafeEyesState
  <2>4. QED
    BY <2>1, <2>2, <2>3 DEF daemonOnly, worldVars
<1>9. QED
  BY <1>1, <1>2, <1>3, <1>4, <1>5, <1>6, <1>7, <1>8 DEF Daemon

\* The state file holds the counter of the last detection that was written.
BootInv ==
  /\ susp > 0
  /\ handled = -1 \/ (handled \in Nat /\ 0 < handled /\ handled <= susp)
  /\ IF pc = "save" /\ loc.next = "absorb"
     THEN 0 < mem.boot /\ mem.boot <= susp
     ELSE disk.boot = Accounted /\ (pc \in {"quit", "save"} => mem.boot = disk.boot)
  /\ pc = "detect" => loc.next = "down"

LEMMA BootStep ==
  ASSUME "save" \notin KillPoints, "reboot" \notin Events, TypeOK, MemDisk, Route, BootInv,
         [Next]_vars
  PROVE  BootInv'
<1>0. /\ mem \in SafeEyesState /\ disk \in SafeEyesState /\ loc \in Local
      /\ susp \in Nat /\ now \in Nat /\ mem.boot \in Nat
      /\ pc \notin {"down", "quit", "save"} => mem = disk
  BY DaemonReads DEF MemDisk
<1>1. CASE Suspend
  <2>1. PICK d \in 1 .. Horizon - now : susp' = susp + d
    BY <1>1 DEF Suspend
  <2>2. susp' \in Nat /\ susp' > susp
    BY <1>0, <2>1, ConstantsAssumption
  <2>3. UNCHANGED <<pc, mem, disk, loc, handled>>
    BY <1>1 DEF Suspend, stateVars, histVars
  <2>4. QED
    BY <1>0, <2>2, <2>3 DEF BootInv, Accounted
<1>2. CASE (World /\ ~Suspend /\ ~Kill) \/ UNCHANGED vars
  <2>1. UNCHANGED stateVars
    BY <1>2, WorldState
  <2>2. UNCHANGED <<susp, handled>>
    BY <1>2 DEF World, Tick, Reboot, Call, EditSource, UpdateSeed, UpdateRestart, UpdateFlag,
       TakeBreak, EndBreak, IdleGate, PressStart, SafeEyesDies, safeEyesOnly, worldVars,
       histVars, vars
  <2>3. QED
    BY <2>1, <2>2 DEF BootInv, Accounted, stateVars
<1>3. CASE Kill
  <2>1. pc # "save" /\ pc' = "down" /\ disk' = disk /\ UNCHANGED <<susp, handled>>
    BY <1>3 DEF Kill, histVars
  <2>2. QED
    BY <2>1 DEF BootInv, Accounted
<1>4. CASE Detect
  <2>1. /\ pc = "detect" /\ mem = disk /\ disk' = disk /\ susp' = susp
        /\ mem'.boot = susp /\ loc'.next = "absorb"
    BY <1>0, <1>4 DEF Detect, Goto, worldVars, SafeEyesState, Local
  <2>2. CASE MustPersist
    BY <1>0, <1>4, <2>1, <2>2 DEF Detect, Goto, BootInv
  <2>3. CASE ~MustPersist
    <3>1. pc' = "absorb" /\ handled' = susp /\ disk.boot = susp
      BY <1>4, <2>1, <2>3 DEF Detect, Goto, MustPersist
    <3>2. QED
      BY <1>0, <2>1, <3>1 DEF BootInv, Accounted
  <2>4. QED
    BY <2>2, <2>3
<1>5. CASE Save
  <2>1. pc = "save" /\ disk' = mem /\ pc' = loc.next /\ susp' = susp
    BY <1>5 DEF Save, worldVars
  <2>2. CASE loc.next = "absorb"
    BY <1>0, <1>5, <2>1, <2>2 DEF Save, BootInv, Accounted
  <2>3. CASE loc.next # "absorb"
    <3>1. handled' = handled /\ disk'.boot = Accounted /\ mem.boot = Accounted
      BY <1>5, <2>1, <2>3 DEF Save, BootInv
    <3>2. loc.next # "down" => mem' = mem /\ loc' = loc
      BY <1>5 DEF Save
    <3>3. QED
      BY <2>1, <2>3, <3>1, <3>2 DEF BootInv, Accounted, Route
  <2>4. QED
    BY <2>2, <2>3
<1>6. CASE Daemon /\ ~Detect /\ ~Save /\ ~BeginCycle
  <2>1. UNCHANGED <<susp, handled, disk>> /\ pc \notin {"down", "save"}
    BY <1>6, DaemonFrame
  <2>2. mem.boot = disk.boot /\ mem'.boot \in {mem.boot, disk.boot}
    BY <1>0, <1>6, <2>1, DaemonFrame DEF BootInv
  <2>3. pc' # "detect" /\ ~(pc' = "save" /\ loc'.next = "absorb")
    <3>1. CASE Absorb \/ UnlinkForced \/ KeepAlive \/ ForceBreak \/ NoSwitch
      BY <1>0, <3>1 DEF Absorb, UnlinkForced, KeepAlive, ForceBreak, NoSwitch, Goto, Local
    <3>2. CASE Reseed \/ ReimposeBreak \/ FreshInterval \/ NothingToSeed
      BY <1>0, <3>2 DEF Reseed, ReimposeBreak, FreshInterval, NothingToSeed, Goto, SaveThen,
         Local
    <3>3. CASE RestoreConfig \/ SwitchForCall \/ EndCycle
      BY <1>0, <3>3 DEF RestoreConfig, SwitchForCall, EndCycle, Goto, SaveThen, Local
    <3>4. CASE TrackBreak
      <4>1. (pc' = "save" /\ loc' = [loc EXCEPT !.next = "end"]) \/ pc' = "end"
        BY <3>4 DEF TrackBreak, Goto, SaveThen
      <4>2. QED
        BY <1>0, <4>1 DEF Local
    <3>5. CASE Quit
      BY <3>5 DEF Quit, Goto, Route
    <3>6. QED
      BY <1>6, <3>1, <3>2, <3>3, <3>4, <3>5 DEF Daemon
  <2>4. mem'.boot = disk'.boot
    BY <2>1, <2>2
  <2>5. disk'.boot = Accounted /\ Accounted' = Accounted
    BY <2>1 DEF BootInv, Accounted
  <2>6. QED
    BY <2>1, <2>3, <2>4, <2>5 DEF BootInv
<1>7. CASE BeginCycle
  <2>1. /\ pc = "down" /\ pc' \in {"end", "detect"} /\ loc'.next = "down"
        /\ UNCHANGED <<susp, handled, disk>>
    BY <1>0, <1>7, StateType DEF BeginCycle, Goto, daemonOnly, worldVars, Local, NoLocal
  <2>2. QED
    BY <2>1 DEF BootInv, Accounted
<1>8. QED
  BY <1>1, <1>2, <1>3, <1>4, <1>5, <1>6, <1>7 DEF Next

\* The machine had been suspended before the daemon was installed and is not
\* rebooted, and SIGTERM does not come within the write of the state file.
OneBoot == InitSuspended > 0 /\ "reboot" \notin Events /\ "save" \notin KillPoints

LEMMA BootInvariant ==
  ASSUME OneBoot
  PROVE  Spec => []BootInv
<1>1. Init => BootInv
  BY ConstantsAssumption DEF OneBoot, Init, Blank, BootInv, Accounted
<1>2. TypeOK /\ MemDisk /\ Route /\ BootInv /\ [Next]_vars => BootInv'
  BY BootStep DEF OneBoot
<1>3. QED
  BY <1>1, <1>2, GuardTyped, MemDiskInvariant, RouteInvariant, PTL DEF Spec

\* A suspend between two detections of one boot is found by the second, and
\* nothing else is taken for one, with any number of suspends of any length and
\* kills outside the write of the state file, if the machine had been suspended
\* before the daemon was installed and is not rebooted.
THEOREM ResumeExactHolds ==
  ASSUME OneBoot
  PROVE  Spec => ResumeExact
<1>2. TypeOK /\ MemDisk /\ BootInv /\ [Next]_vars =>
        [pc = "detect" /\ loc'.next = "absorb" /\ handled # -1
           => (loc'.resumed <=> susp - handled > SUSPEND_MIN)]_vars
  <2> SUFFICES ASSUME TypeOK, MemDisk, BootInv, [Next]_vars,
                      pc = "detect", loc'.next = "absorb", handled # -1
               PROVE  loc'.resumed <=> susp - handled > SUSPEND_MIN
    OBVIOUS
  <2>0. loc \in Local /\ susp \in Nat /\ mem = disk /\ loc.next = "down"
    BY DaemonReads DEF MemDisk, BootInv
  <2>1. mem.boot = handled /\ handled \in Nat /\ 0 < handled /\ handled <= susp /\ susp > 0
    BY <2>0 DEF BootInv, Accounted
  <2>2. CASE Detect
    <3>1. susp - handled > SUSPEND_MIN => loc'.resumed
      BY <2>0, <2>1, <2>2 DEF Detect, Local
    <3>2. ~(susp - handled > SUSPEND_MIN) => ~loc'.resumed
      BY <2>0, <2>1, <2>2 DEF Detect, Local
    <3>3. QED
      BY <3>1, <3>2
  <2>3. CASE Kill \/ UNCHANGED stateVars
    BY <2>0, <2>3 DEF Kill, NoLocal, stateVars
  <2>4. CASE Daemon /\ ~Detect
    BY <2>4 DEF Daemon, BeginCycle, Absorb, UnlinkForced, Reseed, ReimposeBreak, FreshInterval,
       NothingToSeed, Seed, Quit, RestoreConfig, KeepAlive, ForceBreak, SwitchForCall, NoSwitch,
       TrackBreak, EndCycle, Save
  <2>5. QED
    BY <2>2, <2>3, <2>4, WorldState DEF Next
<1>3. QED
  BY <1>2, BootInvariant, GuardTyped, MemDiskInvariant, PTL DEF Spec, ResumeExact
-----------------------------------------------------------------------------
(***************************************************************************)
(* The night and the breaks of the day before it.                          *)
(***************************************************************************)
\* The phases of a cycle: up to the comparison with the record, while SafeEyes
\* is restarted, and after that.
Early ==
  \/ pc \in {"absorb", "unlink", "seed"}
  \/ pc = "save" /\ loc.next \in {"absorb", "unlink"}
Mid ==
  \/ pc \in {"quit", "restore", "launch", "force"}
  \/ pc = "save" /\ loc.next \in {"restore", "launch"}
Late ==
  \/ pc \in {"av", "track", "end"}
  \/ pc = "save" /\ loc.next \in {"track", "end", "down"}

\* The time modelled ends with one night.
OneNight == \A t \in Night : t .. Horizon \subseteq Night

\* SIGTERM does not come between the first write of a cycle and its last
\* command to SafeEyes, nor in a write.
QuietKills == KillPoints \subseteq {"detect", "av", "track", "end"}

Clock ==
  /\ now <= Horizon
  /\ loc.t0 <= now
  /\ pc # "down" => loc.t0 > 0

LEMMA ClockStep ==
  ASSUME TypeOK, Clock, [Next]_vars
  PROVE  /\ now' \in Nat /\ now <= now' /\ now' <= Horizon
         /\ Clock'
<1>0. /\ now \in Nat /\ now > 0 /\ loc \in Local /\ loc.t0 \in Nat /\ Horizon \in Nat
      /\ now <= Horizon /\ loc.t0 <= now /\ (pc # "down" => loc.t0 > 0)
  BY DaemonReads, ConstantsAssumption DEF Clock, TypeOK
<1>1. CASE Suspend
  <2>1. PICK d \in 1 .. Horizon - now : now' = now + d
    BY <1>1 DEF Suspend
  <2>2. loc' = loc /\ pc' = pc
    BY <1>1 DEF Suspend, stateVars
  <2>3. QED
    BY <1>0, <2>1, <2>2 DEF Clock
<1>2. CASE Tick
  BY <1>0, <1>2 DEF Tick, Clock, stateVars
<1>3. CASE (World /\ ~Suspend /\ ~Tick) \/ UNCHANGED vars
  <2>1. now' = now
    BY <1>3 DEF World, Kill, Reboot, Call, EditSource, UpdateSeed, UpdateRestart, UpdateFlag,
       TakeBreak, EndBreak, IdleGate, PressStart, SafeEyesDies, safeEyesOnly, worldVars, vars
  <2>2. (loc' = loc /\ pc' = pc) \/ (loc' = NoLocal /\ pc' = "down")
    BY <1>3, WorldState DEF Kill, stateVars
  <2>3. NoLocal.t0 = 0
    BY DEF NoLocal
  <2>4. QED
    BY <1>0, <2>1, <2>2, <2>3 DEF Clock
<1>4. CASE BeginCycle \/ Save
  <2>1. now' = now
    BY <1>4 DEF BeginCycle, Save, daemonOnly, worldVars
  <2>2. loc'.t0 = now \/ (loc'.t0 = loc.t0 /\ pc # "down") \/ (loc'.t0 = 0 /\ pc' = "down")
    <3>1. CASE BeginCycle
      BY <3>1 DEF BeginCycle, NoLocal
    <3>2. CASE Save
      BY <3>2 DEF Save, NoLocal
    <3>3. QED
      BY <1>4, <3>1, <3>2
  <2>3. QED
    BY <1>0, <2>1, <2>2 DEF Clock
<1>5. CASE Daemon /\ ~BeginCycle /\ ~Save
  BY <1>0, <1>5, DaemonFrame DEF Clock
<1>6. QED
  BY <1>1, <1>2, <1>3, <1>4, <1>5 DEF Next

LEMMA ClockInvariant == Spec => []Clock
<1>1. Init => Clock
  BY ConstantsAssumption DEF Init, Clock, NoLocal
<1>2. QED
  BY <1>1, ClockStep, GuardTyped, PTL DEF Spec

\* Night stays.
LEMMA NightStays ==
  ASSUME OneNight, NEW t \in Nat, NEW u \in Nat, t <= u, u <= Horizon, ModeAt(t) = "night"
  PROVE  u \in Night /\ ModeAt(u) = "night"
BY ConstantsAssumption DEF OneNight, ModeAt

\* The duration that was set for the night reaches beyond it.
Lasts(c) == c.mode = "night" => c.short + now > Horizon

LastInv == Lasts(live) /\ (se.up => Lasts(se))

LEMMA LastStep ==
  ASSUME OneNight, TypeOK, Clock, LastInv, [Next]_vars
  PROVE  LastInv'
<1>0. /\ now \in Nat /\ now' \in Nat /\ now <= now' /\ Horizon \in Nat
      /\ loc.t0 \in Nat /\ loc.t0 <= now /\ now <= Horizon
      /\ live.short \in Nat /\ se.short \in Nat
  BY ClockStep, DaemonReads, ConstantsAssumption DEF Clock, Config, Process
<1>1. ASSUME NEW t \in Nat, t <= now, SeededAt(t).mode = "night"
      PROVE  SeededAt(t).short + now' > Horizon
  <2>1. ModeAt(t) = "night"
    BY <1>1 DEF SeededAt, Source, ModeAt
  <2>2. SeededAt(t).short = UntilMorning(t) /\ UntilMorning(t) \in Nat
    BY <2>1, UntilMorningType DEF SeededAt, Patched, Source
  <2>3. t + UntilMorning(t) > Horizon
    <3>1. SUFFICES ASSUME t + UntilMorning(t) <= Horizon PROVE FALSE
      BY <1>0, <2>2
    <3>2. t + UntilMorning(t) \in Night
      BY <2>1, <2>2, <3>1, NightStays
    <3>3. QED
      BY <3>2, UntilMorningType
  <2>4. QED
    BY <1>0, <1>1, <2>2, <2>3
<1>2. Lasts(live)'
  <2>1. CASE live' = live
    BY <1>0, <2>1 DEF LastInv, Lasts
  <2>2. CASE UpdateSeed \/ Reseed
    <3>1. PICK t \in Nat : t <= now /\ live' = SeededAt(t)
      BY <1>0, <2>2 DEF UpdateSeed, Reseed
    <3>2. QED
      BY <1>1, <3>1 DEF Lasts
  <2>3. CASE (ReimposeBreak \/ FreshInterval \/ RestoreConfig) /\ live' # live
    <3>1. live'.mode = "day"
      BY <2>3 DEF ReimposeBreak, FreshInterval, RestoreConfig, Patched, Source
    <3>2. QED
      BY <3>1 DEF Lasts
  <2>4. QED
    BY <2>1, <2>2, <2>3, LiveStep
<1>3. (se.up => Lasts(se))'
  <2>1. CASE Same
    BY <1>0, <2>1 DEF Same, LastInv, Lasts
  <2>2. CASE ~se'.up
    BY <2>2
  <2>3. CASE Reloaded
    BY <1>2, <2>3 DEF Reloaded, Lasts
  <2>4. QED
    BY <2>1, <2>2, <2>3, SeStep DEF SameOn
<1>4. QED
  BY <1>2, <1>3 DEF LastInv

LEMMA LastInvariant ==
  ASSUME OneNight
  PROVE  Spec => []LastInv
<1>1. Init => LastInv
  BY DEF Init, LastInv, Lasts, Source, Dead
<1>2. QED
  BY <1>1, LastStep, GuardTyped, ClockInvariant, PTL DEF Spec

\* How a cycle passes from phase to phase.
LEMMA PhaseStep ==
  ASSUME TypeOK, Route, Daemon
  PROVE  /\ BeginCycle => pc = "down" /\ (pc' = "detect" \/ (pc' = "end" /\ loc'.skip))
         /\ Detect => pc = "detect" /\ pc' \in {"absorb", "save"} /\ loc'.next = "absorb"
         /\ Absorb \/ UnlinkForced => Early /\ Early'
         /\ Reseed \/ ReimposeBreak \/ FreshInterval \/ NothingToSeed => pc = "seed" /\ Mid'
         /\ Quit \/ RestoreConfig \/ KeepAlive => Mid /\ Mid'
         /\ ForceBreak => pc = "force" /\ pc' = "av"
         /\ SwitchForCall \/ NoSwitch \/ TrackBreak \/ EndCycle => Late /\ Late'
         /\ Save => pc = "save" /\ pc' = loc.next
         /\ ~BeginCycle /\ ~Save => pc' # "down"
<1>0. loc \in Local
  BY DaemonReads
<1>1. BeginCycle => pc = "down" /\ (pc' = "detect" \/ (pc' = "end" /\ loc'.skip))
  BY DEF BeginCycle, Goto, NoLocal
<1>2. Detect => pc = "detect" /\ pc' \in {"absorb", "save"} /\ loc'.next = "absorb"
  BY <1>0 DEF Detect, Goto, Local
<1>3. Absorb => Early /\ Early' /\ pc' # "down"
  BY <1>0 DEF Absorb, Goto, Local, Early
<1>4. UnlinkForced => Early /\ Early' /\ pc' # "down"
  BY DEF UnlinkForced, Goto, Early
<1>5. Reseed \/ ReimposeBreak \/ FreshInterval \/ NothingToSeed =>
        pc = "seed" /\ Mid' /\ pc' # "down"
  BY <1>0
     DEF Reseed, ReimposeBreak, FreshInterval, NothingToSeed, Seed, Goto, SaveThen, Local, Mid
<1>6. Quit => Mid /\ Mid' /\ pc' # "down"
  BY DEF Quit, Goto, Mid, Route
<1>7. RestoreConfig \/ KeepAlive => Mid /\ Mid' /\ pc' # "down"
  BY DEF RestoreConfig, KeepAlive, Goto, Mid
<1>8. ForceBreak => pc = "force" /\ pc' = "av"
  BY DEF ForceBreak, Goto
<1>9. SwitchForCall => Late /\ Late' /\ pc' # "down"
  BY <1>0 DEF SwitchForCall, SaveThen, Local, Late
<1>10. NoSwitch => Late /\ Late' /\ pc' # "down"
  BY DEF NoSwitch, Goto, Late
<1>11. TrackBreak => Late /\ Late' /\ pc' # "down"
  <2> SUFFICES ASSUME TrackBreak PROVE Late /\ Late' /\ pc' # "down"
    OBVIOUS
  <2>1. pc = "track" /\ (pc' = "end" \/ (pc' = "save" /\ loc' = [loc EXCEPT !.next = "end"]))
    BY DEF TrackBreak, Goto, SaveThen
  <2>2. QED
    BY <1>0, <2>1 DEF Late, Local
<1>12. EndCycle => Late /\ Late' /\ pc' # "down"
  BY <1>0 DEF EndCycle, SaveThen, Local, Late
<1>13. Save => pc = "save" /\ pc' = loc.next
  BY DEF Save
<1>14. QED
  BY <1>1, <1>2, <1>3, <1>4, <1>5, <1>6, <1>7, <1>8, <1>9, <1>10, <1>11, <1>12, <1>13 DEF Daemon

\* A write goes on in the phase it was made in.
LEMMA SaveStep ==
  ASSUME Route, Save
  PROVE  /\ pc = "save" /\ pc' = loc.next /\ disk' = mem
         /\ UNCHANGED <<se, live, susp, now, due, src, call>>
         /\ loc.next = "down" => Late
         /\ loc.next # "down" =>
              /\ UNCHANGED <<mem, loc>> /\ pc' \notin {"down", "detect", "save", "quit"}
              /\ (Early' <=> Early) /\ (Mid' <=> Mid) /\ (Late' <=> Late)
         /\ loc.next # "absorb" => handled' = handled
         /\ loc.next = "absorb" => handled' = mem.boot
<1>1. /\ pc = "save" /\ pc' = loc.next /\ disk' = mem
      /\ UNCHANGED <<se, live, susp, now, due, src, call>>
      /\ loc.next # "absorb" => handled' = handled
      /\ loc.next = "absorb" => handled' = mem.boot
      /\ loc.next # "down" => mem' = mem /\ loc' = loc
  BY DEF Save, worldVars, fileVars
<1>2. QED
  BY <1>1 DEF Route, Early, Mid, Late

\* The night is on record only from a cycle of the night on.
NightRecorded ==
  disk.strict = "night" \/ (pc \in {"quit", "save"} /\ mem.strict = "night")
    => IF pc = "down" THEN now \in Night ELSE AtNight

LEMMA NightRecordedStep ==
  ASSUME OneNight, TypeOK, MemDisk, Route, Clock, NightRecorded, [Next]_vars
  PROVE  NightRecorded'
<1>0. /\ now \in Nat /\ now' \in Nat /\ now <= now' /\ now' <= Horizon
      /\ loc.t0 \in Nat /\ loc.t0 <= now /\ now <= Horizon /\ loc.t0 <= now'
  BY ClockStep, DaemonReads DEF Clock
<1>1. AtNight => now \in Night /\ now' \in Night
  BY <1>0, NightStays DEF AtNight
<1>2. now \in Night => now' \in Night
  BY <1>0, NightStays DEF ModeAt
<1>3. CASE UNCHANGED stateVars
  BY <1>2, <1>3 DEF NightRecorded, stateVars, AtNight, ModeAt
<1>4. CASE Kill
  <2>1. pc # "down" /\ pc' = "down" /\ disk' \in {disk, Blank} /\ Blank.strict = "unknown"
    BY <1>4, ConstantsAssumption DEF Kill, Blank
  <2>2. QED
    BY <1>1, <2>1 DEF NightRecorded
<1>5. CASE BeginCycle
  <2>1. /\ pc = "down" /\ pc' \in {"detect", "end"} /\ disk' = disk /\ loc'.t0 = now
    BY <1>5 DEF BeginCycle, Goto, NoLocal
  <2>2. QED
    BY <2>1 DEF NightRecorded, AtNight, ModeAt
<1>6. CASE Save
  BY <1>1, <1>6, SaveStep DEF NightRecorded, AtNight, ModeAt
<1>7. CASE Daemon /\ ~BeginCycle /\ ~Save
  <2>1. /\ disk' = disk /\ loc'.t0 = loc.t0 /\ pc # "down" /\ pc' # "down"
        /\ mem'.strict \in {mem.strict, disk.strict, ModeAt(loc.t0)}
    BY <1>7, DaemonFrame, PhaseStep
  <2>2. pc \notin {"quit", "save"} => mem = disk
    BY <2>1 DEF MemDisk
  <2>3. QED
    BY <2>1, <2>2 DEF NightRecorded, AtNight, ModeAt
<1>8. QED
  BY <1>3, <1>4, <1>5, <1>6, <1>7, WorldState DEF Next

\* Nothing is recorded before the first detection.
FirstInv ==
  handled = -1 =>
    /\ Recorded.strict = "unknown"
    /\ pc \in {"down", "detect", "end"} \/ (pc = "save" /\ loc.next \in {"absorb", "down"})

LEMMA FirstStep ==
  ASSUME OneBoot, QuietKills, TypeOK, MemDisk, Route, BootInv, FirstInv, [Next]_vars
  PROVE  FirstInv'
<1>0. mem \in SafeEyesState /\ disk \in SafeEyesState /\ loc \in Local
  BY DaemonReads
<1>1. CASE UNCHANGED stateVars
  <2>1. CASE handled' = handled
    BY <1>1, <2>1 DEF FirstInv, Recorded, stateVars
  <2>2. CASE handled' # handled
    <3>1. CASE World \/ UNCHANGED vars
      BY <2>2, <3>1 DEF OneBoot, World, Tick, Suspend, Kill, Reboot, Call, EditSource, UpdateSeed,
         UpdateRestart, UpdateFlag, TakeBreak, EndBreak, IdleGate, PressStart, SafeEyesDies,
         safeEyesOnly, histVars, vars
    <3>2. CASE Save
      BY <1>1, <3>2, SaveStep DEF stateVars
    <3>3. CASE Detect
      BY <1>1, <3>3 DEF Detect, Goto, stateVars
    <3>4. CASE BeginCycle
      BY <2>2, <3>4 DEF BeginCycle, daemonOnly
    <3>5. CASE Daemon /\ ~Save /\ ~Detect /\ ~BeginCycle
      BY <2>2, <3>5, DaemonFrame
    <3>6. QED
      BY <3>1, <3>2, <3>3, <3>4, <3>5 DEF Next
  <2>3. QED
    BY <2>1, <2>2
<1>2. CASE Kill
  <2>1. /\ pc \in {"detect", "av", "track", "end"} /\ pc' = "down" /\ disk' = disk
        /\ handled' = handled
    BY <1>2 DEF Kill, QuietKills, histVars
  <2>2. QED
    BY <2>1 DEF FirstInv, Recorded
<1>3. CASE BeginCycle
  BY <1>3 DEF BeginCycle, Goto, daemonOnly, FirstInv, Recorded
<1>4. CASE Detect
  <2>1. /\ pc = "detect" /\ mem = disk /\ disk' = disk /\ loc'.next = "absorb"
        /\ mem'.strict = mem.strict
    BY <1>0, <1>4 DEF Detect, Goto, MemDisk, SafeEyesState, Local
  <2>2. CASE MustPersist
    BY <1>4, <2>1, <2>2 DEF Detect, Goto, FirstInv, Recorded
  <2>3. CASE ~MustPersist
    <3>1. handled' = susp /\ susp > 0 /\ susp \in Nat
      BY <1>4, <2>3, DaemonReads DEF Detect, BootInv
    <3>2. QED
      BY <3>1 DEF FirstInv
  <2>4. QED
    BY <2>2, <2>3
<1>5. CASE Save
  <2>1. loc.next = "absorb" => handled' # -1
    BY <1>5, SaveStep, DaemonReads DEF BootInv
  <2>2. QED
    BY <1>5, <2>1, SaveStep DEF FirstInv, Recorded
<1>6. CASE EndCycle
  <2>1. /\ pc = "end" /\ pc' = "save" /\ loc'.next = "down" /\ mem'.strict = disk.strict
        /\ handled' = handled
    BY <1>0, <1>6 DEF EndCycle, SaveThen, SafeEyesState, Local, daemonOnly
  <2>2. QED
    BY <2>1 DEF FirstInv, Recorded
<1>7. CASE Daemon /\ ~BeginCycle /\ ~Detect /\ ~Save /\ ~EndCycle
  <2>1. handled' = handled
    BY <1>7, DaemonFrame
  <2>2. ~(pc \in {"down", "detect", "end", "save"})
    BY <1>7 DEF Daemon, Absorb, UnlinkForced, Reseed, ReimposeBreak, FreshInterval, NothingToSeed,
       Seed, Quit, RestoreConfig, KeepAlive, ForceBreak, SwitchForCall, NoSwitch, TrackBreak
  <2>3. QED
    BY <2>1, <2>2 DEF FirstInv
<1>8. QED
  BY <1>1, <1>2, <1>3, <1>4, <1>5, <1>6, <1>7, WorldState DEF Next

\* Only the comparison with the record decides to force a break.
ForceLater == pc = "detect" \/ Early => loc.force = "none"

LEMMA ForceLaterStep ==
  ASSUME TypeOK, Route, ForceLater, [Next]_vars
  PROVE  ForceLater'
<1>0. loc \in Local
  BY DaemonReads
<1>1. CASE UNCHANGED stateVars \/ Kill
  BY <1>1 DEF ForceLater, Early, stateVars, Kill
<1>2. CASE BeginCycle
  <2>1. loc'.force = "none"
    BY <1>2 DEF BeginCycle, NoLocal
  <2>2. QED
    BY <2>1 DEF ForceLater
<1>3. CASE Detect \/ Absorb \/ UnlinkForced
  <2>1. loc'.force = loc.force /\ (pc = "detect" \/ Early)
    BY <1>0, <1>3 DEF Detect, Absorb, UnlinkForced, Local, Early
  <2>2. QED
    BY <2>1 DEF ForceLater
<1>4. CASE Save
  BY <1>4, SaveStep DEF ForceLater, Early
<1>5. CASE Daemon /\ ~BeginCycle /\ ~Detect /\ ~Absorb /\ ~UnlinkForced /\ ~Save
  <2>1. Mid' \/ Late' \/ pc' = "av"
    BY <1>5, PhaseStep DEF Daemon
  <2>2. QED
    BY <2>1 DEF ForceLater, Early, Mid, Late
<1>6. QED
  BY <1>1, <1>2, <1>3, <1>4, <1>5, WorldState DEF Next

\* The overlay of the night, unless the counter has left b.
Overlay    == se.up /\ se.overlay # "none" /\ se.until > Horizon
Blocked(b) == live.mode = "night" /\ (susp = b => Overlay)

\* The mode of the record, as the cycle that is under way has found it.
ModeKept ==
  IF pc = "absorb" \/ (pc = "save" /\ loc.next = "absorb") THEN mem.strict = "night"
                                                            ELSE ~loc.boundary

\* SafeEyes has been, or will be, restarted with the configuration of the night.
Restarted ==
  /\ loc.force = "-t"
  /\ live.mode = "night"
  /\ pc # "quit" /\ se.up => se.mode = "night"

NightIdle  == pc \in {"down", "detect"} /\ disk.strict = "night" => Blocked(disk.boot)
NightEarly == Early /\ AtNight /\ ~loc.resumed /\ ModeKept => Blocked(mem.boot)
NightMid   == Mid /\ AtNight =>
                Restarted \/ (pc \notin {"quit", "save"} /\ loc.force = "none" /\ Blocked(disk.boot))
NightLate  == Late /\ ((AtNight /\ ~loc.skip) \/ Recorded.strict = "night")
                => Blocked(Recorded.boot)
Launched   == pc = "force" => se.up

NightInv == NightIdle /\ NightEarly /\ NightMid /\ NightLate /\ Launched

NightKnown ==
  /\ TypeOK /\ MemDisk /\ Route /\ Clock /\ LastInv /\ NightRecorded /\ BootInv /\ FirstInv
  /\ ForceLater

\* SafeEyes does as it is told and is not killed.
Obeyed == Events \intersect {"reboot", "crash", "deaf"} = {}

LEMMA WorldLive == World => live' = live \/ live'.mode = "night"
<1>1. UpdateSeed => live'.mode = "night"
  BY DEF UpdateSeed, SeededAt, Patched, Source
<1>2. QED
  BY <1>1 DEF World, Tick, Suspend, Kill, Reboot, Call, EditSource, UpdateRestart, UpdateFlag,
     TakeBreak, EndBreak, IdleGate, PressStart, SafeEyesDies, safeEyesOnly, fileVars

\* Only a suspend takes the overlay of the night away.
LEMMA BlockedWorld ==
  ASSUME Obeyed, TypeOK, Clock, LastInv, World \/ UNCHANGED vars, NEW b \in Nat, b <= susp, Blocked(b)
  PROVE  live'.mode = "night" /\ (susp' = b => Overlay')
<1>0. /\ now \in Nat /\ susp \in Nat /\ now <= Horizon /\ Horizon \in Nat /\ se \in Process
      /\ live.mode = "night" /\ live.short \in Nat /\ live.short + now > Horizon
  BY DaemonReads, ConstantsAssumption DEF Clock, LastInv, Lasts, Blocked, Config
<1>1. live'.mode = "night"
  BY <1>0, WorldLive DEF vars, fileVars
<1>2. CASE susp = b
  <2>0. Overlay
    BY <1>2 DEF Blocked
  <2>1. CASE Suspend
    <3>1. susp' > susp
      <4>1. PICK d \in 1 .. Horizon - now : susp' = susp + d
        BY <2>1 DEF Suspend
      <4>2. QED
        BY <1>0, <4>1
    <3>2. QED
      BY <1>1, <1>2, <3>1, <1>0
  <2>2. CASE UpdateRestart
    <3>1. se' = Showing(Fresh(live), "short", live.short)
      BY <2>2 DEF UpdateRestart
    <3>2. se'.up /\ se'.overlay = "short" /\ se'.until = now + live.short
      BY <3>1 DEF Showing, Fresh
    <3>3. QED
      BY <1>0, <1>1, <3>2 DEF Overlay
  <2>3. CASE EndBreak \/ TakeBreak \/ IdleGate \/ SafeEyesDies \/ Reboot
    BY <1>0, <2>0, <2>3
       DEF EndBreak, TakeBreak, IdleGate, SafeEyesDies, Reboot, Working, Overlay, Obeyed, Process
  <2>4. CASE PressStart
    <3>1. se' = [se EXCEPT !.dialog = FALSE]
      BY <2>4 DEF PressStart
    <3>2. se'.up = se.up /\ se'.overlay = se.overlay /\ se'.until = se.until
      BY <1>0, <3>1 DEF Process
    <3>3. QED
      BY <1>1, <2>0, <3>2 DEF Overlay
  <2>5. CASE Tick \/ Kill \/ Call \/ EditSource \/ UpdateSeed \/ UpdateFlag \/ UNCHANGED vars
    <3>1. se' = se
      BY <2>5 DEF Tick, Kill, Call, EditSource, UpdateSeed, UpdateFlag, vars
    <3>2. QED
      BY <1>1, <2>0, <3>1 DEF Overlay
  <2>6. QED
    BY <2>1, <2>2, <2>3, <2>4, <2>5 DEF World
<1>3. CASE susp # b
  <2>1. CASE Suspend
    <3>1. PICK d \in 1 .. Horizon - now : susp' = susp + d
      BY <2>1 DEF Suspend
    <3>2. QED
      BY <1>0, <1>1, <1>3, <3>1
  <2>2. CASE ~Suspend
    <3>1. susp' = susp
      BY <2>2 DEF Obeyed, World, Tick, Kill, Reboot, Call, EditSource, UpdateSeed, UpdateRestart,
         UpdateFlag, TakeBreak, EndBreak, IdleGate, PressStart, SafeEyesDies, safeEyesOnly,
         worldVars, vars
    <3>2. QED
      BY <1>1, <1>3, <3>1
  <2>3. QED
    BY <2>1, <2>2
<1>4. QED
  BY <1>2, <1>3

\* The counter that a control point refers to.
LEMMA BootBounds ==
  ASSUME TypeOK, MemDisk, Route, BootInv
  PROVE  /\ mem.boot \in Nat /\ disk.boot \in Nat /\ Recorded.boot \in Nat
         /\ Early => mem.boot <= susp
         /\ Mid \/ Late => disk.boot <= susp /\ Recorded.boot = disk.boot /\ mem.boot = disk.boot
         /\ pc \in {"down", "detect"} => disk.boot <= susp
<1>1. /\ mem.boot \in Nat /\ disk.boot \in Nat /\ susp \in Nat
      /\ pc \notin {"down", "quit", "save"} => mem = disk
  BY DaemonReads DEF MemDisk, SafeEyesState
<1>2. Accounted <= susp
  BY <1>1 DEF BootInv, Accounted
<1>3. ~(pc = "save" /\ loc.next = "absorb") => disk.boot <= susp
  BY <1>2 DEF BootInv
<1>4. pc \in {"quit", "save"} /\ loc.next # "absorb" => mem.boot = disk.boot
  BY DEF BootInv
<1>5. pc = "save" /\ loc.next = "absorb" => mem.boot <= susp
  BY DEF BootInv
<1>6. pc = "quit" => loc.next # "absorb"
  BY DEF Route
<1>7. QED
  BY <1>1, <1>3, <1>4, <1>5, <1>6 DEF Early, Mid, Late, Recorded

LEMMA NightWorld ==
  ASSUME Obeyed, QuietKills, NightKnown, NightInv, World \/ UNCHANGED vars
  PROVE  NightInv'
<1>0. TypeOK /\ MemDisk /\ Route /\ Clock /\ LastInv /\ NightRecorded /\ BootInv
  BY DEF NightKnown
<1>a. \A b \in Nat : b <= susp /\ Blocked(b) => live'.mode = "night" /\ (susp' = b => Overlay')
  BY <1>0, BlockedWorld
<1>b. /\ mem.boot \in Nat /\ disk.boot \in Nat /\ Recorded.boot \in Nat
      /\ Early => mem.boot <= susp
      /\ Mid \/ Late => disk.boot <= susp /\ Recorded.boot = disk.boot
      /\ pc \in {"down", "detect"} => disk.boot <= susp
  BY <1>0, BootBounds
<1>1. CASE ~Kill
  <2>0. UNCHANGED <<pc, mem, disk, loc>>
    BY <1>1, WorldState DEF stateVars
  <2>p. /\ Early' = Early /\ Mid' = Mid /\ Late' = Late /\ AtNight' = AtNight
        /\ ModeKept' = ModeKept /\ Recorded' = Recorded
    BY <2>0 DEF Early, Mid, Late, AtNight, ModeAt, ModeKept, Recorded
  <2>1. NightIdle'
    BY <1>a, <1>b, <2>0 DEF NightInv, NightIdle, Blocked
  <2>2. NightEarly'
    BY <1>a, <1>b, <2>0, <2>p DEF NightInv, NightEarly, Blocked
  <2>3. NightMid'
    <3>1. SUFFICES ASSUME Mid, AtNight
                   PROVE  Restarted' \/ (/\ pc \notin {"quit", "save"} /\ loc.force = "none"
                                         /\ live'.mode = "night" /\ (susp' = disk.boot => Overlay'))
      BY <2>0, <2>p DEF NightMid, Blocked
    <3>2. CASE Restarted
      <4>1. live'.mode = "night"
        BY <3>2, WorldLive DEF Restarted, vars, fileVars
      <4>2. pc # "quit" /\ se'.up => se'.mode = "night"
        <5>1. CASE Same
          BY <3>2, <5>1 DEF Restarted, Same
        <5>2. CASE Reloaded
          BY <3>2, <5>2 DEF Restarted, Reloaded
        <5>3. CASE SwitchForCall
          BY <3>1, <5>3, <2>0 DEF SwitchForCall, Mid, SaveThen
        <5>4. QED
          BY <1>0, <5>1, <5>2, <5>3, SeStep DEF SameOn, Next
      <4>3. QED
        BY <2>0, <3>2, <4>1, <4>2 DEF Restarted
    <3>3. CASE ~Restarted
      BY <1>a, <1>b, <3>1, <3>3 DEF NightInv, NightMid
    <3>4. QED
      BY <3>2, <3>3
  <2>4. NightLate'
    BY <1>a, <1>b, <2>0, <2>p DEF NightInv, NightLate, Blocked
  <2>5. Launched'
    <3>1. SUFFICES ASSUME pc = "force" PROVE se'.up
      BY <2>0 DEF Launched
    <3>2. se.up /\ ~Reboot /\ ~SafeEyesDies /\ ~Quit /\ ~SwitchForCall
      BY <3>1 DEF NightInv, Launched, Obeyed, Reboot, SafeEyesDies, Quit, SwitchForCall
    <3>3. QED
      BY <1>0, <3>2, SeStep DEF Next, SameOn, Same, Reloaded
  <2>6. QED
    BY <2>1, <2>2, <2>3, <2>4, <2>5 DEF NightInv
<1>2. CASE Kill
  <2>1. /\ pc \in {"detect", "av", "track", "end"} /\ pc' = "down"
        /\ UNCHANGED <<disk, se, live, susp>>
    BY <1>2 DEF Kill, QuietKills, fileVars
  <2>2. disk.strict = "night" => Blocked(disk.boot)
    <3>1. CASE pc = "detect"
      BY <3>1 DEF NightInv, NightIdle
    <3>2. CASE pc \in {"av", "track", "end"}
      BY <3>2 DEF NightInv, NightLate, Late, Recorded
    <3>3. QED
      BY <2>1, <3>1, <3>2
  <2>3. NightIdle'
    BY <2>1, <2>2 DEF NightIdle, Blocked, Overlay
  <2>4. QED
    BY <2>1, <2>3 DEF NightInv, NightEarly, NightMid, NightLate, Launched, Early, Mid, Late
<1>3. QED
  BY <1>1, <1>2

LEMMA NightStart ==
  ASSUME OneBoot, SUSPEND_MIN = 0, NightKnown, NightInv, BeginCycle \/ Detect
  PROVE  NightInv'
<1>0. /\ mem \in SafeEyesState /\ disk \in SafeEyesState /\ loc \in Local /\ susp \in Nat
      /\ TypeOK /\ MemDisk /\ Route /\ BootInv
  BY DaemonReads DEF NightKnown
<1>1. CASE BeginCycle
  <2>1. /\ pc = "down" /\ UNCHANGED <<disk, live, susp>> /\ mem' = disk
        /\ pc' = "detect" \/ (pc' = "end" /\ loc'.skip)
        /\ se' = se \/ ~se.up
    BY <1>1 DEF BeginCycle, Goto, daemonOnly, worldVars, fileVars, NoLocal
  <2>2. disk.strict = "night" => live.mode = "night" /\ (susp = disk.boot => Overlay /\ se' = se)
    BY <2>1 DEF NightInv, NightIdle, Blocked, Overlay
  <2>3. disk'.strict = "night" => live'.mode = "night" /\ (susp' = disk'.boot => Overlay')
    BY <2>1, <2>2 DEF Overlay
  <2>4. ~Early' /\ ~Mid' /\ Recorded' = disk' /\ pc' # "force" /\ (Late' => loc'.skip)
    BY <2>1 DEF Early, Mid, Late, Recorded
  <2>5. NightLate'
    BY <2>3, <2>4 DEF NightLate, Blocked
  <2>6. QED
    BY <2>3, <2>4, <2>5 DEF NightInv, NightIdle, NightEarly, NightMid, Launched, Blocked
<1>2. CASE Detect
  <2>1. /\ pc = "detect" /\ mem = disk /\ UNCHANGED <<susp, live, se, disk>>
        /\ mem'.boot = susp /\ mem'.strict = mem.strict
        /\ pc' \in {"absorb", "save"} /\ loc'.next = "absorb"
    BY <1>0, <1>2 DEF Detect, Goto, MemDisk, SafeEyesState, Local, worldVars, fileVars
  <2>2. ASSUME ~loc'.resumed, mem.strict = "night" PROVE Blocked(susp)
    <3>1. handled # -1
      BY <2>1, <2>2 DEF NightKnown, FirstInv, Recorded
    <3>2. disk.boot = handled /\ 0 < handled /\ handled <= susp /\ handled \in Nat
      BY <2>1, <3>1 DEF NightKnown, BootInv, Accounted
    <3>3. susp - handled <= SUSPEND_MIN
      BY <1>0, <1>2, <2>1, <2>2, <3>2, ConstantsAssumption DEF Detect, Local
    <3>4. susp = disk.boot
      BY <1>0, <3>2, <3>3
    <3>5. QED
      BY <2>1, <2>2, <3>4 DEF NightInv, NightIdle
  <2>3. ASSUME ~loc'.resumed, mem.strict = "night" PROVE Blocked(mem.boot)'
    BY <2>1, <2>2, <2>3 DEF Blocked, Overlay
  <2>4. NightEarly'
    BY <2>1, <2>3 DEF NightEarly, ModeKept
  <2>5. ~Mid' /\ ~Late' /\ pc' \notin {"down", "detect", "force"}
    BY <2>1 DEF Mid, Late
  <2>6. QED
    BY <2>4, <2>5 DEF NightInv, NightIdle, NightMid, NightLate, Launched
<1>3. QED
  BY <1>1, <1>2

LEMMA NightCompare ==
  ASSUME NightKnown, NightInv,
         \/ Absorb \/ UnlinkForced
         \/ Reseed \/ ReimposeBreak \/ FreshInterval \/ NothingToSeed
  PROVE  NightInv'
<1>0. /\ mem \in SafeEyesState /\ disk \in SafeEyesState /\ loc \in Local /\ susp \in Nat
      /\ TypeOK /\ MemDisk /\ Route /\ BootInv /\ Daemon /\ ~BeginCycle /\ ~Save /\ ~Detect
  BY DaemonReads DEF NightKnown, Daemon, BeginCycle, Save, Detect, Absorb, UnlinkForced, Reseed,
     ReimposeBreak, FreshInterval, NothingToSeed, Seed
<1>1. /\ loc'.t0 = loc.t0 /\ loc'.resumed = loc.resumed /\ susp' = susp /\ disk' = disk
      /\ Early /\ mem = disk
  BY <1>0, DaemonFrame, PhaseStep
     DEF Early, MemDisk, Absorb, UnlinkForced, Reseed, ReimposeBreak, FreshInterval,
         NothingToSeed, Seed
<1>2. se' = se
  BY DEF Absorb, UnlinkForced, Reseed, ReimposeBreak, FreshInterval, NothingToSeed, Seed
<1>3. AtNight' = AtNight
  BY <1>1 DEF AtNight, ModeAt
<1>4. CASE Absorb \/ UnlinkForced
  <2>1. /\ live' = live /\ mem'.boot = mem.boot
        /\ pc' # "absorb" /\ ~(pc' = "save" /\ loc'.next = "absorb")
    <3>1. CASE Absorb
      <4>1. live' = live /\ pc' \in {"save", "seed"} /\ loc'.next = "unlink"
        BY <1>0, <3>1 DEF Absorb, Goto, fileVars, Local
      <4>2. mem'.boot = mem.boot
        BY <1>0, <3>1 DEF Absorb, SafeEyesState
      <4>3. QED
        BY <4>1, <4>2
    <3>2. CASE UnlinkForced
      BY <3>2 DEF UnlinkForced, Goto
    <3>3. QED
      BY <1>4, <3>1, <3>2
  <2>2. AtNight /\ ~loc'.boundary => ModeKept
    <3>1. CASE Absorb
      <4>1. pc = "absorb" /\ loc'.boundary = (mem.strict # ModeAt(loc.t0))
        BY <1>0, <3>1 DEF Absorb, ModeChanged, Local
      <4>2. QED
        BY <4>1 DEF ModeKept, AtNight
    <3>2. CASE UnlinkForced
      BY <3>2 DEF UnlinkForced, ModeKept
    <3>3. QED
      BY <1>4, <3>1, <3>2
  <2>3. NightEarly'
    BY <1>1, <1>2, <1>3, <2>1, <2>2
       DEF NightInv, NightEarly, ModeKept, Blocked, Overlay
  <2>4. Early'
    BY <1>0, <1>4, PhaseStep
  <2>5. ~Mid' /\ ~Late' /\ pc' \notin {"down", "detect", "force"}
    BY <1>0, <1>4, <2>4 DEF Early, Mid, Late, Absorb, UnlinkForced, Goto
  <2>6. QED
    BY <2>3, <2>5 DEF NightInv, NightIdle, NightMid, NightLate, Launched
<1>5. CASE Reseed \/ ReimposeBreak \/ FreshInterval \/ NothingToSeed
  <2>1. Mid' /\ pc = "seed"
    BY <1>0, <1>5, PhaseStep
  <2>2. pc' \in {"quit", "save", "restore"}
    BY <1>5 DEF Reseed, ReimposeBreak, FreshInterval, NothingToSeed, Goto, SaveThen
  <2>3. ASSUME AtNight
        PROVE  \/ Restarted'
               \/ (pc' \notin {"quit", "save"} /\ loc'.force = "none" /\ Blocked(disk.boot)')
    <3>1. CASE Reseed
      <4>1. live' = SeededAt(loc.t0) /\ pc' = "quit"
        BY <2>3, <3>1 DEF Reseed, PreserveTimer, Goto
      <4>2. loc'.force = "-t"
        BY <1>0, <2>3, <3>1 DEF Reseed, NightForce, Local
      <4>3. live'.mode = "night"
        BY <2>3, <4>1 DEF AtNight, SeededAt, Patched, Source
      <4>4. QED
        BY <4>1, <4>2, <4>3 DEF Restarted
    <3>2. CASE NothingToSeed
      <4>1. pc' = "restore" /\ loc' = loc /\ live' = live /\ ~loc.resumed /\ ~loc.boundary
        BY <2>3, <3>2 DEF NothingToSeed, Goto
      <4>2. loc.force = "none"
        BY <1>1 DEF NightKnown, ForceLater
      <4>3. Blocked(mem.boot)
        BY <1>1, <2>1, <2>3, <4>1 DEF NightInv, NightEarly, ModeKept
      <4>4. QED
        BY <1>1, <1>2, <4>1, <4>2, <4>3 DEF Blocked, Overlay
    <3>3. ~ReimposeBreak /\ ~FreshInterval
      BY <2>3 DEF ReimposeBreak, FreshInterval
    <3>4. QED
      BY <1>5, <3>1, <3>2, <3>3
  <2>4. NightMid'
    BY <1>1, <1>3, <2>3 DEF NightMid, Blocked
  <2>5. ~Early' /\ ~Late' /\ pc' \notin {"down", "detect", "force"}
    BY <2>1, <2>2 DEF Early, Mid, Late
  <2>6. QED
    BY <2>4, <2>5 DEF NightInv, NightIdle, NightEarly, NightLate, Launched
<1>6. QED
  BY <1>4, <1>5

LEMMA NightRestart ==
  ASSUME Obeyed, NightKnown, NightInv, Quit \/ RestoreConfig \/ KeepAlive \/ ForceBreak
  PROVE  NightInv'
<1>0. /\ mem \in SafeEyesState /\ disk \in SafeEyesState /\ loc \in Local /\ susp \in Nat
      /\ TypeOK /\ MemDisk /\ Route /\ BootInv /\ Daemon /\ ~BeginCycle /\ ~Save /\ ~Detect
  BY DaemonReads DEF NightKnown, Daemon, BeginCycle, Save, Detect, Quit, RestoreConfig, KeepAlive,
     ForceBreak
<1>1. /\ loc'.t0 = loc.t0 /\ loc'.skip = loc.skip /\ susp' = susp /\ disk' = disk /\ Mid
  BY <1>0, DaemonFrame, PhaseStep DEF Mid
<1>2. AtNight' = AtNight
  BY <1>1 DEF AtNight, ModeAt
<1>3. CASE Quit \/ RestoreConfig \/ KeepAlive
  <2>1. Mid'
    BY <1>0, <1>3, PhaseStep
  <2>2. ASSUME AtNight
        PROVE  \/ Restarted'
               \/ (pc' \notin {"quit", "save"} /\ loc'.force = "none" /\ Blocked(disk.boot)')
    <3>1. CASE Quit
      BY <1>1, <2>2, <3>1 DEF Quit, Obeyed, Goto, fileVars, NightInv, NightMid, Restarted, Dead
    <3>2. CASE RestoreConfig
      <4>1. pc = "restore" /\ pc' = "launch" /\ UNCHANGED <<live, se, loc>>
        BY <2>2, <3>2 DEF RestoreConfig, RestoreDue, Goto
      <4>2. QED
        BY <1>1, <2>2, <4>1 DEF NightInv, NightMid, Restarted, Blocked, Overlay
    <3>3. CASE KeepAlive
      <4>1. /\ pc = "launch" /\ pc' = "force" /\ UNCHANGED <<live, loc>>
            /\ se' = IF se.up THEN se ELSE Fresh(live)
        BY <3>3 DEF KeepAlive, Goto, fileVars
      <4>2. CASE Restarted
        BY <4>1, <4>2, FreshShapes DEF Restarted
      <4>3. CASE ~Restarted
        BY <1>1, <2>2, <4>1, <4>3 DEF NightInv, NightMid, Blocked, Overlay
      <4>4. QED
        BY <4>2, <4>3
    <3>4. QED
      BY <1>3, <3>1, <3>2, <3>3
  <2>3. NightMid'
    BY <1>1, <1>2, <2>2 DEF NightMid, Blocked
  <2>4. Launched'
    <3>1. CASE KeepAlive
      BY <3>1, FreshShapes DEF KeepAlive, Launched
    <3>2. CASE Quit \/ RestoreConfig
      BY <3>2 DEF Quit, RestoreConfig, Goto, Launched
    <3>3. QED
      BY <1>3, <3>1, <3>2
  <2>5. ~Early' /\ ~Late' /\ pc' \notin {"down", "detect"}
    BY <2>1, <1>3 DEF Early, Mid, Late, Quit, RestoreConfig, KeepAlive, Goto, Route
  <2>6. QED
    BY <2>3, <2>4, <2>5 DEF NightInv, NightIdle, NightEarly, NightLate
<1>4. CASE ForceBreak
  <2>1. /\ pc = "force" /\ pc' = "av" /\ UNCHANGED <<live, mem, loc>> /\ se.up
        /\ mem = disk
    BY <1>0, <1>4 DEF ForceBreak, Goto, fileVars, NightInv, Launched, MemDisk
  <2>2. IF loc.force # "none" THEN se' = Showing(se, "short", se.short) ELSE se' = se
    BY <1>4, <2>1 DEF ForceBreak, Obeyed
  <2>3. disk.strict = "night" => AtNight
    BY <2>1 DEF NightKnown, NightRecorded
  <2>4. ASSUME AtNight PROVE live.mode = "night" /\ (susp = disk.boot => Overlay')
    <3>1. CASE Restarted
      <4>1. se.short + now > Horizon /\ se \in Process
        BY <2>1, <3>1, DaemonReads DEF Restarted, NightKnown, LastInv, Lasts
      <4>2. se' = Showing(se, "short", se.short)
        BY <2>2, <3>1 DEF Restarted
      <4>3. se'.up = se.up /\ se'.overlay = "short" /\ se'.until = now + se.short
        BY <4>1, <4>2 DEF Showing, Process
      <4>4. se.short \in Nat /\ now \in Nat /\ Horizon \in Nat
        BY <4>1, DaemonReads, ConstantsAssumption DEF NightKnown, Process
      <4>5. QED
        BY <2>1, <3>1, <4>1, <4>3, <4>4 DEF Overlay, Restarted
    <3>2. CASE ~Restarted
      BY <1>1, <2>2, <2>4, <3>2 DEF NightInv, NightMid, Blocked, Overlay
    <3>3. QED
      BY <3>1, <3>2
  <2>5. NightLate'
    BY <1>1, <1>2, <2>1, <2>3, <2>4 DEF NightLate, Blocked, Recorded
  <2>6. ~Early' /\ ~Mid' /\ pc' \notin {"down", "detect", "force"}
    BY <2>1 DEF Early, Mid
  <2>7. QED
    BY <2>5, <2>6 DEF NightInv, NightIdle, NightEarly, NightMid, Launched
<1>5. QED
  BY <1>3, <1>4

LEMMA NightRest ==
  ASSUME NightKnown, NightInv, SwitchForCall \/ NoSwitch \/ TrackBreak \/ EndCycle
  PROVE  NightInv'
<1>0. /\ mem \in SafeEyesState /\ disk \in SafeEyesState /\ loc \in Local /\ susp \in Nat
      /\ TypeOK /\ MemDisk /\ Route /\ BootInv /\ Daemon /\ ~BeginCycle /\ ~Save /\ ~Detect
  BY DaemonReads DEF NightKnown, Daemon, BeginCycle, Save, Detect, SwitchForCall, NoSwitch,
     TrackBreak, EndCycle
<1>1. /\ loc'.t0 = loc.t0 /\ loc'.skip = loc.skip /\ susp' = susp /\ disk' = disk /\ Late /\ Late'
  BY <1>0, DaemonFrame, PhaseStep
<1>2. /\ pc \in {"av", "track", "end"} /\ mem = disk /\ live' = live
      /\ pc' \in {"save", "track", "end"}
  BY <1>0 DEF SwitchForCall, NoSwitch, TrackBreak, EndCycle, Goto, SaveThen, fileVars, MemDisk
<1>3. mem'.strict = mem.strict /\ mem'.boot = mem.boot
  <2>1. CASE TrackBreak
    <3>1. \/ mem' = mem \/ mem' = NoBreak(mem)
          \/ \E seen \in Seen :
               mem' = [mem EXCEPT !.active = TRUE, !.type = seen, !.start = loc.t0]
      BY <2>1 DEF TrackBreak
    <3>2. QED
      BY <1>0, <3>1 DEF NoBreak, SafeEyesState
  <2>2. CASE SwitchForCall \/ NoSwitch \/ EndCycle
    BY <1>0, <1>2, <2>2 DEF SwitchForCall, NoSwitch, EndCycle, SafeEyesState
  <2>3. QED
    BY <2>1, <2>2
<1>4. Recorded'.strict = Recorded.strict /\ Recorded'.boot = Recorded.boot /\ Recorded = disk
  BY <1>1, <1>2, <1>3 DEF Recorded
<1>5. AtNight' = AtNight
  BY <1>1 DEF AtNight, ModeAt
<1>6. se' = se \/ ~AtNight
  BY DEF SwitchForCall, NoSwitch, TrackBreak, EndCycle
<1>7. disk.strict = "night" => AtNight
  BY <1>2 DEF NightKnown, NightRecorded
<1>8. NightLate'
  BY <1>1, <1>2, <1>4, <1>5, <1>6, <1>7 DEF NightInv, NightLate, Blocked, Overlay
<1>9. ~Early' /\ ~Mid' /\ pc' \notin {"down", "detect", "force"}
  BY <1>1, <1>2 DEF Early, Mid, Late
<1>10. QED
  BY <1>8, <1>9 DEF NightInv, NightIdle, NightEarly, NightMid, Launched

LEMMA NightSave ==
  ASSUME NightKnown, NightInv, Save
  PROVE  NightInv'
<1>0. /\ TypeOK /\ MemDisk /\ Route /\ BootInv
      /\ pc = "save" /\ pc' = loc.next /\ disk' = mem
      /\ UNCHANGED <<se, live, susp>>
  BY SaveStep DEF NightKnown
<1>1. CASE loc.next = "down"
  <2>1. Late /\ Recorded = mem
    BY <1>0, <1>1 DEF Late, Recorded
  <2>2. mem.strict = "night" => Blocked(mem.boot)
    BY <2>1 DEF NightInv, NightLate
  <2>3. NightIdle'
    BY <1>0, <1>1, <2>2 DEF NightIdle, Blocked, Overlay
  <2>4. pc' = "down"
    BY <1>0, <1>1
  <2>5. QED
    BY <2>3, <2>4 DEF NightInv, NightEarly, NightMid, NightLate, Launched, Early, Mid, Late
<1>2. CASE loc.next # "down"
  <2>1. /\ UNCHANGED <<mem, loc>> /\ pc' \notin {"down", "detect", "save", "quit"}
        /\ (Early' <=> Early) /\ (Mid' <=> Mid) /\ (Late' <=> Late)
    BY <1>0, <1>2, SaveStep
  <2>2. AtNight' = AtNight
    BY <2>1 DEF AtNight, ModeAt
  <2>3. NightEarly'
    BY <1>0, <2>1, <2>2 DEF NightInv, NightEarly, ModeKept, Blocked, Overlay, Route
  <2>4. NightMid'
    BY <1>0, <2>1, <2>2 DEF NightInv, NightMid, Restarted
  <2>5. NightLate'
    BY <1>0, <2>1, <2>2 DEF NightInv, NightLate, Recorded, Blocked, Overlay
  <2>6. pc' # "force"
    BY <1>0 DEF Route
  <2>7. QED
    BY <2>1, <2>3, <2>4, <2>5, <2>6 DEF NightInv, NightIdle, Launched
<1>3. QED
  BY <1>1, <1>2

LEMMA NightKnownInvariant ==
  ASSUME OneBoot, OneNight, QuietKills
  PROVE  Spec => []NightKnown
<1>1. Init => NightRecorded /\ FirstInv /\ ForceLater
  BY DEF Init, NightRecorded, FirstInv, Recorded, Blank, ForceLater, Early
<1>2. TypeOK /\ MemDisk /\ Route /\ Clock /\ NightRecorded /\ [Next]_vars => NightRecorded'
  BY NightRecordedStep
<1>3. TypeOK /\ MemDisk /\ Route /\ BootInv /\ FirstInv /\ [Next]_vars => FirstInv'
  BY FirstStep
<1>4. QED
  BY <1>1, <1>2, <1>3, ForceLaterStep, GuardTyped, MemDiskInvariant, RouteInvariant,
     ClockInvariant, LastInvariant, BootInvariant, PTL DEF Spec, NightKnown

\* A cycle of the night ends with the overlay up.  SIGTERM may hit every cycle
\* before its first and after its last step that matters, update.sh may seed and
\* restart SafeEyes and its flag may be absorbed at any moment, and the machine
\* may sleep between any two steps.  Assumed: the suspend counter is usable
\* (OneBoot) and every suspend is above the limit, SafeEyes obeys and is not
\* killed, and the time modelled ends with the night.
THEOREM NightBlockedHolds ==
  ASSUME OneBoot, SUSPEND_MIN = 0, OneNight, QuietKills, Obeyed
  PROVE  Spec => []NightBlocked
<1>1. Init => NightInv
  BY DEF Init, Early, Mid, Late, Blank, NightInv, NightIdle, NightEarly, NightMid, NightLate,
     Launched
<1>2. Spec => []NightKnown
  BY NightKnownInvariant
<1>3. NightKnown /\ NightInv /\ [Next]_vars => NightInv'
  BY NightWorld, NightStart, NightCompare, NightRestart, NightRest, NightSave DEF Next, Daemon
<1>4. NightKnown /\ NightInv => NightBlocked
  BY DEF NightKnown, NightInv, NightLate, Late, Recorded, Blocked, Overlay, NightBlocked,
     CycleDone, Awake, AtNight
<1>5. QED
  BY <1>1, <1>2, <1>3, <1>4, PTL DEF Spec
-----------------------------------------------------------------------------
(***************************************************************************)
(* The breaks of the day.                                                  *)
(***************************************************************************)
\* The machine is not put to sleep between the detection of a cycle and the
\* look at the overlay.
QuietSuspends == SuspendPoints \subseteq {"down", "detect", "end"}

\* What the daemon asks and what it is told is true, and it is not rebooted.
Truthful == Events \intersect {"reboot", "deaf", "blink"} = {}

\* The suspend counter is the one that the cycle has read.
Counted ==
  \/ Early \/ Mid \/ pc \in {"av", "track"}
  \/ pc = "save" /\ loc.next \in {"track", "end"}
  => susp = mem.boot

LEMMA CountedStep ==
  ASSUME QuietSuspends, Truthful, TypeOK, MemDisk, Route, BootInv, Counted, [Next]_vars
  PROVE  Counted'
<1>0. loc \in Local /\ mem \in SafeEyesState
  BY DaemonReads
<1>1. CASE (World /\ ~Kill) \/ UNCHANGED vars
  <2>1. UNCHANGED stateVars
    BY <1>1, WorldState
  <2>2. CASE Suspend
    <3>1. pc \in {"down", "detect", "end"}
      BY <2>2 DEF Suspend, QuietSuspends
    <3>2. QED
      BY <2>1, <3>1 DEF Counted, Early, Mid, stateVars
  <2>3. CASE ~Suspend
    <3>1. susp' = susp
      BY <1>1, <2>3 DEF Truthful, World, Tick, Reboot, Call, EditSource, UpdateSeed, UpdateRestart,
         UpdateFlag, TakeBreak, EndBreak, IdleGate, PressStart, SafeEyesDies, safeEyesOnly,
         worldVars, vars
    <3>2. QED
      BY <2>1, <3>1 DEF Counted, Early, Mid, stateVars
  <2>4. QED
    BY <2>2, <2>3
<1>2. CASE Kill \/ BeginCycle
  <2>1. pc' \in {"down", "detect", "end"}
    BY <1>2 DEF Kill, BeginCycle, Goto
  <2>2. QED
    BY <2>1 DEF Counted, Early, Mid
<1>3. CASE Detect
  <2>1. susp' = susp /\ mem'.boot = susp
    BY <1>0, <1>3 DEF Detect, worldVars, SafeEyesState
  <2>2. QED
    BY <2>1 DEF Counted
<1>4. CASE Save
  <2>1. CASE loc.next \in {"down", "end"}
    BY <1>4, <2>1, SaveStep DEF Counted, Early, Mid
  <2>2. CASE loc.next \notin {"down", "end"}
    BY <1>4, <2>2, SaveStep DEF Counted, Early, Mid, Route
  <2>3. QED
    BY <2>1, <2>2
<1>5. CASE EndCycle
  <2>1. pc' = "save" /\ loc'.next = "down"
    BY <1>0, <1>5 DEF EndCycle, SaveThen, Local
  <2>2. QED
    BY <2>1 DEF Counted, Early, Mid
<1>6. CASE Daemon /\ ~BeginCycle /\ ~Detect /\ ~Save /\ ~EndCycle
  <2>1. susp' = susp /\ mem'.boot \in {mem.boot, disk.boot} /\ pc # "save"
    BY <1>6, DaemonFrame
  <2>2. Early \/ Mid \/ pc \in {"av", "track"}
    BY <1>6, PhaseStep, <2>1 DEF Mid, Early, Daemon, SwitchForCall, NoSwitch, TrackBreak
  <2>3. mem.boot = disk.boot
    BY <2>1, <2>2, BootBounds DEF Early, Mid, MemDisk
  <2>4. QED
    BY <2>1, <2>2, <2>3 DEF Counted
<1>7. QED
  BY <1>1, <1>2, <1>3, <1>4, <1>5, <1>6 DEF Next

\* Between the comparison and the seeding.
Found == pc \in {"unlink", "seed"} \/ (pc = "save" /\ loc.next = "unlink")

\* From the first detection on a mode is on record, but for the cycle that is
\* about to record one.
ModeKnown ==
  /\ pc \in {"down", "detect"} /\ handled # -1 => disk.strict # "unknown"
  /\ Early /\ loc.resumed => mem.strict # "unknown"
  /\ Found /\ ~loc.boundary => mem.strict # "unknown"
  /\ Mid \/ (Late /\ handled # -1) => Recorded.strict # "unknown"

LEMMA ModeKnownStep ==
  ASSUME OneBoot, QuietKills, NightKnown, ModeKnown, [Next]_vars
  PROVE  ModeKnown'
<1>0. /\ mem \in SafeEyesState /\ disk \in SafeEyesState /\ loc \in Local /\ susp \in Nat
      /\ TypeOK /\ MemDisk /\ Route /\ BootInv /\ ModeAt(loc.t0) \in Modes
      /\ FirstInv
  BY DaemonReads DEF NightKnown
<1>1. CASE (World /\ ~Kill) \/ UNCHANGED vars
  <2>1. UNCHANGED stateVars
    BY <1>1, WorldState
  <2>2. handled' = handled
    BY <1>1 DEF OneBoot, World, Tick, Suspend, Reboot, Call, EditSource, UpdateSeed,
       UpdateRestart, UpdateFlag, TakeBreak, EndBreak, IdleGate, PressStart, SafeEyesDies,
       safeEyesOnly, histVars, vars
  <2>3. QED
    BY <2>1, <2>2 DEF ModeKnown, Early, Mid, Late, Found, Recorded, stateVars
<1>2. CASE Kill
  <2>1. /\ pc \in {"detect", "av", "track", "end"} /\ pc' = "down"
        /\ disk' = disk /\ handled' = handled
    BY <1>2 DEF Kill, QuietKills, histVars
  <2>2. QED
    BY <2>1 DEF ModeKnown, Early, Mid, Late, Found, Recorded
<1>3. CASE BeginCycle
  <2>1. /\ pc = "down" /\ pc' \in {"detect", "end"} /\ disk' = disk /\ handled' = handled
    BY <1>3 DEF BeginCycle, Goto, daemonOnly
  <2>2. QED
    BY <2>1 DEF ModeKnown, Early, Mid, Late, Found, Recorded
<1>4. CASE Detect
  <2>1. /\ pc = "detect" /\ mem = disk /\ mem'.strict = mem.strict
        /\ pc' \in {"absorb", "save"} /\ loc'.next = "absorb"
    BY <1>0, <1>4 DEF Detect, Goto, MemDisk, SafeEyesState, Local
  <2>2. handled = -1 => ~loc'.resumed
    <3>1. handled = -1 => mem.boot = 0 /\ susp > 0
      BY <1>0, <2>1 DEF BootInv, Accounted
    <3>2. QED
      BY <1>0, <1>4, <3>1, ConstantsAssumption DEF Detect, Local
  <2>3. QED
    BY <2>1, <2>2 DEF ModeKnown, Early, Mid, Late, Found
<1>5. CASE Absorb
  <2>1. /\ mem'.strict \in {mem.strict, ModeAt(loc.t0)}
        /\ loc'.boundary = (mem.strict # ModeAt(loc.t0)) /\ loc'.resumed = loc.resumed
    BY <1>0, <1>5 DEF Absorb, ModeChanged, SafeEyesState, Local
  <2>2. Early /\ Early'
    BY <1>0, <1>5, PhaseStep DEF Daemon
  <2>3. pc' \notin {"down", "detect"} /\ ~Mid' /\ ~Late'
    <3>1. pc' = "seed" \/ (pc' = "save" /\ loc'.next = "unlink")
      BY <1>0, <1>5 DEF Absorb, Goto, Local
    <3>2. QED
      BY <3>1 DEF Mid, Late
  <2>4. ModeAt(loc.t0) # "unknown"
    BY <1>0 DEF Modes
  <2>5. QED
    BY <2>1, <2>2, <2>3, <2>4 DEF ModeKnown
<1>6. CASE UnlinkForced
  BY <1>6 DEF UnlinkForced, Goto, ModeKnown, Early, Mid, Late, Found
<1>7. CASE Reseed \/ ReimposeBreak \/ FreshInterval \/ NothingToSeed
  <2>1. Mid' /\ pc = "seed" /\ mem = disk
    BY <1>0, <1>7, PhaseStep DEF Daemon, MemDisk
  <2>2. mem'.strict # "unknown"
    <3>1. CASE Reseed \/ FreshInterval \/ (ReimposeBreak /\ ~BreakOver)
      <4>1. mem'.strict = ModeAt(loc.t0)
        BY <1>0, <3>1
           DEF Reseed, FreshInterval, ReimposeBreak, Seeded, Shortened, SafeEyesState
      <4>2. QED
        BY <1>0, <4>1 DEF Modes
    <3>2. CASE ReimposeBreak /\ BreakOver
      <4>1. mem'.strict = mem.strict /\ loc.resumed
        BY <1>0, <3>2 DEF ReimposeBreak, NoBreak, SafeEyesState
      <4>2. QED
        BY <2>1, <4>1 DEF ModeKnown, Early
    <3>3. CASE NothingToSeed
      BY <2>1, <3>3 DEF NothingToSeed, ModeKnown, Early, Found
    <3>4. QED
      BY <1>7, <3>1, <3>2, <3>3
  <2>3. pc' \in {"quit", "save"} \/ (pc' = "restore" /\ mem' = mem /\ disk' = disk)
    BY <1>7 DEF Reseed, ReimposeBreak, FreshInterval, NothingToSeed, Goto, SaveThen
  <2>4. Recorded'.strict # "unknown"
    BY <2>1, <2>2, <2>3 DEF Recorded
  <2>5. ~Early' /\ ~Found' /\ pc' \notin {"down", "detect"}
    BY <2>1 DEF Early, Mid, Found
  <2>6. QED
    BY <2>4, <2>5 DEF ModeKnown
<1>8. CASE Save
  <2>1. CASE loc.next = "down"
    <3>1. Late /\ Recorded = mem /\ pc' = "down" /\ disk' = mem /\ handled' = handled
      BY <1>0, <1>8, <2>1, SaveStep DEF Recorded
    <3>2. QED
      BY <3>1 DEF ModeKnown, Early, Mid, Late, Found
  <2>2. CASE loc.next # "down"
    <3>1. /\ UNCHANGED <<mem, loc>> /\ pc = "save" /\ pc' = loc.next /\ disk' = mem
          /\ pc' \notin {"down", "detect", "save", "quit"}
          /\ (Early' <=> Early) /\ (Mid' <=> Mid) /\ (Late' <=> Late)
          /\ (Late => handled' = handled)
      BY <1>0, <1>8, <2>2, SaveStep DEF Late
    <3>2. Found' <=> Found
      BY <1>0, <3>1 DEF Found, Route
    <3>3. QED
      BY <3>1, <3>2 DEF ModeKnown, Recorded
  <2>3. QED
    BY <2>1, <2>2
<1>9. CASE Quit \/ RestoreConfig \/ KeepAlive \/ ForceBreak
  <2>1. Mid /\ (Mid' \/ pc' = "av")
    BY <1>0, <1>9, PhaseStep DEF Daemon, Mid
  <2>2. mem'.strict = mem.strict /\ disk' = disk
    BY <1>0, <1>9 DEF Quit, RestoreConfig, KeepAlive, ForceBreak, Goto, NoBreak, SafeEyesState
  <2>3. Recorded'.strict = Recorded.strict
    BY <1>0, <1>9, <2>2 DEF Quit, RestoreConfig, KeepAlive, ForceBreak, Goto, Recorded, MemDisk
  <2>4. ~Early' /\ ~Found' /\ pc' \notin {"down", "detect"}
    BY <2>1 DEF Early, Mid, Found
  <2>5. QED
    BY <2>1, <2>3, <2>4 DEF ModeKnown
<1>10. CASE SwitchForCall \/ NoSwitch \/ TrackBreak \/ EndCycle
  <2>1. /\ Late /\ Late' /\ pc \in {"av", "track", "end"} /\ disk' = disk /\ mem = disk
        /\ handled' = handled /\ pc' \in {"save", "track", "end"}
    BY <1>0, <1>10, PhaseStep DEF Daemon, MemDisk, SwitchForCall, NoSwitch, TrackBreak, EndCycle,
       Goto, SaveThen, daemonOnly
  <2>2. ~Detect /\ ~Save /\ ~BeginCycle
    BY <2>1 DEF Detect, Save, BeginCycle
  <2>3. mem'.strict = mem.strict
    <3>1. CASE TrackBreak
      <4>1. \/ mem' = mem \/ mem' = NoBreak(mem)
            \/ \E seen \in Seen :
                 mem' = [mem EXCEPT !.active = TRUE, !.type = seen, !.start = loc.t0]
        BY <3>1 DEF TrackBreak
      <4>2. QED
        BY <1>0, <4>1 DEF NoBreak, SafeEyesState
    <3>2. CASE SwitchForCall \/ NoSwitch \/ EndCycle
      BY <1>0, <2>1, <3>2 DEF SwitchForCall, NoSwitch, EndCycle, SafeEyesState
    <3>3. QED
      BY <1>10, <3>1, <3>2
  <2>4. Recorded'.strict = Recorded.strict
    BY <2>1, <2>3 DEF Recorded
  <2>5. ~Early' /\ ~Found' /\ ~Mid' /\ pc' \notin {"down", "detect"}
    BY <2>1 DEF Early, Mid, Late, Found
  <2>6. QED
    BY <2>1, <2>4, <2>5 DEF ModeKnown
<1>11. QED
  BY <1>1, <1>2, <1>3, <1>4, <1>5, <1>6, <1>7, <1>8, <1>9, <1>10 DEF Next, Daemon

\* A break of the day whose deadline is to come, and how the record knows it.
Pending     == due > now /\ IF pc = "down" THEN now \notin Night ELSE ~AtNight
DueFrom(s)  == s.active /\ s.start > 0 /\ due = s.start + Duration(s) /\ s.strict # "unknown"
OverlayUp   == se.up /\ se.overlay # "none"

BreakInv ==
  /\ Pending => DueFrom(Recorded)
  /\ Pending /\ pc \in {"down", "detect"} => se.up /\ (susp = disk.boot => OverlayUp)
  /\ Pending /\ Early => se.up /\ (loc.resumed \/ OverlayUp)
  /\ Pending /\ Found => ~loc.boundary
  /\ Pending /\ Mid => loc.force = "-b" \/ (pc # "quit" /\ OverlayUp)
  /\ Pending /\ Late => se.up /\ (susp = Recorded.boot => OverlayUp)
  /\ Pending /\ pc = "force" => se.up
  /\ pc = "quit" /\ loc.next = "launch" => due <= now

BreakKnown == NightKnown /\ Counted /\ ModeKnown

\* Only a suspend takes the overlay away before the deadline.
LEMMA PendingWorld ==
  ASSUME OneNight, Truthful, TypeOK, Clock, World \/ UNCHANGED vars, ~Kill, Pending'
  PROVE  /\ Pending /\ due' = due
         /\ se.up => se'.up
         /\ \/ susp' = susp /\ (OverlayUp => OverlayUp')
            \/ susp' > susp /\ pc \in SuspendPoints
<1>0. /\ now \in Nat /\ now' \in Nat /\ now <= now' /\ now' <= Horizon /\ susp \in Nat
      /\ due \in Nat /\ se \in Process
  BY ClockStep, DaemonReads DEF Clock, Next, TypeOK
<1>1. UNCHANGED stateVars
  BY WorldState
<1>2. due' = due
  <2>1. due' \in {due, 0}
    BY DEF World, Tick, Suspend, Reboot, Call, EditSource, UpdateSeed, UpdateRestart,
       UpdateFlag, TakeBreak, EndBreak, IdleGate, PressStart, SafeEyesDies, histVars, vars
  <2>2. QED
    BY <1>0, <2>1 DEF Pending
<1>3. Pending
  <2>1. pc = "down" => now \notin Night
    <3>1. SUFFICES ASSUME now \in Night, pc = "down" PROVE FALSE
      OBVIOUS
    <3>2. now' \in Night
      BY <1>0, <3>1, NightStays DEF ModeAt
    <3>3. QED
      BY <1>1, <3>1, <3>2 DEF Pending, stateVars
  <2>2. QED
    BY <1>0, <1>1, <1>2, <2>1 DEF Pending, stateVars, AtNight, ModeAt
<1>4. due' # 0
  BY <1>0, <1>2 DEF Pending
<1>5. ~UpdateRestart /\ ~EndBreak /\ ~SafeEyesDies /\ ~Reboot
  BY <1>4 DEF UpdateRestart, EndBreak, SafeEyesDies, Reboot
<1>6. CASE Suspend
  <2>1. PICK d \in 1 .. Horizon - now : susp' = susp + d
    BY <1>6 DEF Suspend
  <2>2. susp' > susp
    BY <1>0, <2>1, ConstantsAssumption
  <2>3. se'.up = se.up
    BY <1>0, <1>6 DEF Suspend, Cleared, Process
  <2>4. QED
    BY <1>2, <1>3, <1>6, <2>2, <2>3 DEF Suspend
<1>7. CASE ~Suspend
  <2>1. susp' = susp
    BY <1>5, <1>7 DEF World, Tick, Call, EditSource, UpdateSeed, UpdateFlag, TakeBreak, IdleGate,
       PressStart, safeEyesOnly, worldVars, vars
  <2>2. (se.up => se'.up) /\ (OverlayUp => OverlayUp')
    <3>1. CASE TakeBreak
      <4>1. se' = Showing(se, "short", se.short) \/ se' = Showing(se, "long", LongBreak)
        BY <3>1 DEF TakeBreak
      <4>2. se'.up = se.up /\ se'.overlay \in {"short", "long"}
        BY <1>0, <4>1 DEF Showing, Process
      <4>3. QED
        BY <4>2 DEF OverlayUp
    <3>2. CASE IdleGate \/ PressStart
      <4>1. se' = se \/ (\E x \in BOOLEAN : se' = [se EXCEPT !.dialog = x])
        BY <3>2 DEF IdleGate, PressStart, Gate
      <4>2. se'.up = se.up /\ se'.overlay = se.overlay
        BY <1>0, <4>1 DEF Process
      <4>3. QED
        BY <4>2 DEF OverlayUp
    <3>3. CASE Tick \/ Call \/ EditSource \/ UpdateSeed \/ UpdateFlag \/ UNCHANGED vars
      <4>1. se' = se
        BY <3>3 DEF Tick, Call, EditSource, UpdateSeed, UpdateFlag, vars
      <4>2. QED
        BY <4>1 DEF OverlayUp
    <3>4. QED
      BY <1>5, <1>7, <3>1, <3>2, <3>3 DEF World
  <2>3. QED
    BY <1>2, <1>3, <2>1, <2>2
<1>8. QED
  BY <1>6, <1>7

LEMMA BreakWorld ==
  ASSUME OneNight, QuietKills, QuietSuspends, Truthful, BreakKnown, BreakInv,
         World \/ UNCHANGED vars
  PROVE  BreakInv'
<1>0. /\ TypeOK /\ MemDisk /\ Route /\ Clock /\ BootInv
      /\ now \in Nat /\ now <= Horizon /\ loc.t0 \in Nat /\ loc.t0 <= now
  BY DaemonReads DEF BreakKnown, NightKnown, Clock
<1>1. CASE ~Kill
  <2>0. UNCHANGED <<pc, mem, disk, loc>>
    BY <1>1, WorldState DEF stateVars
  <2>p. /\ Early' = Early /\ Mid' = Mid /\ Late' = Late /\ Found' = Found /\ Recorded' = Recorded
    BY <2>0 DEF Early, Mid, Late, Found, Recorded
  <2>a. susp \in Nat /\ disk.boot \in Nat /\ Recorded.boot \in Nat
        /\ (Late => Recorded.boot <= susp) /\ (pc \in {"down", "detect"} => disk.boot <= susp)
    BY <1>0, BootBounds, DaemonReads
  <2>1. ASSUME Pending'
        PROVE  /\ Pending /\ due' = due /\ (se.up => se'.up)
               /\ \/ susp' = susp /\ (OverlayUp => OverlayUp')
                  \/ susp' > susp /\ pc \in {"down", "detect", "end"}
    BY <1>0, <1>1, <2>1, PendingWorld DEF QuietSuspends
  <2>2. Pending' => DueFrom(Recorded)'
    BY <2>0, <2>1, <2>p DEF BreakInv, DueFrom, Duration
  <2>3. Pending' /\ pc' \in {"down", "detect"} => se'.up /\ (susp' = disk'.boot => OverlayUp')
    BY <2>0, <2>1, <2>a DEF BreakInv
  <2>4. Pending' /\ Early' => se'.up /\ (loc'.resumed \/ OverlayUp')
    BY <2>0, <2>1, <2>p DEF BreakInv, Early
  <2>5. Pending' /\ Found' => ~loc'.boundary
    BY <2>0, <2>1, <2>p DEF BreakInv
  <2>6. Pending' /\ Mid' => loc'.force = "-b" \/ (pc' # "quit" /\ OverlayUp')
    BY <2>0, <2>1, <2>p DEF BreakInv, Mid
  <2>7. Pending' /\ Late' => se'.up /\ (susp' = Recorded'.boot => OverlayUp')
    BY <2>0, <2>1, <2>a, <2>p DEF BreakInv
  <2>8. Pending' /\ pc' = "force" => se'.up
    BY <2>0, <2>1 DEF BreakInv
  <2>9. pc' = "quit" /\ loc'.next = "launch" => due' <= now'
    <3>1. due' = due \/ due' = 0
      BY <1>1 DEF World, Tick, Suspend, Reboot, Call, EditSource, UpdateSeed, UpdateRestart,
         UpdateFlag, TakeBreak, EndBreak, IdleGate, PressStart, SafeEyesDies, histVars, vars
    <3>2. now' \in Nat /\ now <= now' /\ due \in Nat
      BY <1>0, ClockStep, DaemonReads DEF Next, TypeOK
    <3>3. QED
      BY <1>0, <2>0, <3>1, <3>2 DEF BreakInv
  <2>10. QED
    BY <2>2, <2>3, <2>4, <2>5, <2>6, <2>7, <2>8, <2>9 DEF BreakInv
<1>2. CASE Kill
  <2>1. /\ pc \in {"detect", "av", "track", "end"} /\ pc' = "down"
        /\ UNCHANGED <<disk, se, live, susp, due, now>>
    BY <1>2 DEF Kill, QuietKills, fileVars, histVars
  <2>2. SUFFICES ASSUME Pending' PROVE DueFrom(disk) /\ se.up /\ (susp = disk.boot => OverlayUp)
    BY <2>1 DEF BreakInv, Pending, DueFrom, Recorded, OverlayUp, Early, Mid, Late, Found
  <2>3. Pending
    <3>1. ~AtNight
      <4>1. AtNight => now \in Night
        BY <1>0, NightStays DEF AtNight
      <4>2. QED
        BY <2>1, <2>2, <4>1 DEF Pending
    <3>2. QED
      BY <2>1, <2>2, <3>1 DEF Pending
  <2>4. QED
    BY <2>1, <2>3 DEF BreakInv, Recorded, Late
<1>3. QED
  BY <1>1, <1>2

LEMMA BreakStart ==
  ASSUME OneBoot, SUSPEND_MIN = 0, BreakKnown, BreakInv, BeginCycle \/ Detect
  PROVE  BreakInv'
<1>0. /\ mem \in SafeEyesState /\ disk \in SafeEyesState /\ loc \in Local /\ susp \in Nat
      /\ TypeOK /\ MemDisk /\ Route /\ BootInv /\ FirstInv
  BY DaemonReads DEF BreakKnown, NightKnown
<1>1. CASE BeginCycle
  <2>1. /\ pc = "down" /\ UNCHANGED <<disk, susp, now, due>>
        /\ pc' \in {"detect", "end"} /\ loc'.t0 = now
        /\ se' = se \/ ~se.up
    BY <1>1 DEF BeginCycle, Goto, daemonOnly, worldVars, NoLocal
  <2>2. Recorded' = disk /\ Recorded = disk /\ ~Early' /\ ~Mid' /\ ~Found'
    BY <2>1 DEF Recorded, Early, Mid, Found
  <2>3. ASSUME Pending' PROVE Pending
    BY <2>1, <2>3 DEF Pending, AtNight, ModeAt
  <2>4. ASSUME Pending' PROVE DueFrom(disk) /\ se.up /\ se' = se /\ (susp = disk.boot => OverlayUp)
    BY <2>1, <2>2, <2>3, <2>4 DEF BreakInv
  <2>5. ASSUME Pending' PROVE DueFrom(disk)'
    BY <2>1, <2>4, <2>5 DEF DueFrom, Duration
  <2>6. ASSUME Pending' PROVE se'.up /\ (susp' = disk'.boot => OverlayUp')
    BY <2>1, <2>4, <2>6 DEF OverlayUp
  <2>7. pc' # "quit" /\ pc' # "force"
    BY <2>1
  <2>8. Pending' => DueFrom(Recorded)'
    BY <2>1, <2>2, <2>5 DEF DueFrom, Duration
  <2>9. QED
    BY <2>1, <2>2, <2>6, <2>7, <2>8 DEF BreakInv
<1>2. CASE Detect
  <2>1. /\ pc = "detect" /\ mem = disk /\ UNCHANGED <<susp, now, due, se, disk>>
        /\ loc'.t0 = loc.t0 /\ pc' \in {"absorb", "save"} /\ loc'.next = "absorb"
    BY <1>0, <1>2 DEF Detect, Goto, MemDisk, Local, worldVars
  <2>2. /\ mem'.strict = disk.strict /\ mem'.active = disk.active
        /\ mem'.start = disk.start /\ mem'.type = disk.type
    BY <1>0, <1>2, <2>1 DEF Detect, SafeEyesState
  <2>3. ~Mid' /\ ~Late' /\ ~Found' /\ pc' \notin {"down", "detect", "quit", "force"}
    BY <2>1 DEF Mid, Late, Found
  <2>4. ASSUME Pending' PROVE Pending
    BY <2>1, <2>4 DEF Pending, AtNight, ModeAt
  <2>5. ASSUME Pending' PROVE DueFrom(disk) /\ se.up /\ (susp = disk.boot => OverlayUp)
    BY <2>1, <2>4, <2>5 DEF BreakInv, Recorded
  <2>6. ASSUME Pending', ~loc'.resumed PROVE OverlayUp
    <3>1. handled # -1
      BY <1>0, <2>1, <2>5, <2>6 DEF FirstInv, Recorded, DueFrom
    <3>2. disk.boot = handled /\ 0 < handled /\ handled <= susp /\ handled \in Nat
      BY <1>0, <2>1, <3>1 DEF BootInv, Accounted
    <3>3. susp - handled <= SUSPEND_MIN
      BY <1>0, <1>2, <2>1, <2>6, <3>2, ConstantsAssumption DEF Detect, Local
    <3>4. susp = disk.boot
      BY <1>0, <3>2, <3>3
    <3>5. QED
      BY <2>5, <2>6, <3>4
  <2>7. Pending' => DueFrom(Recorded)'
    BY <2>1, <2>2, <2>5 DEF Recorded, DueFrom, Duration
  <2>8. Pending' => se'.up /\ (loc'.resumed \/ OverlayUp')
    BY <2>1, <2>5, <2>6 DEF OverlayUp
  <2>9. QED
    BY <2>3, <2>7, <2>8 DEF BreakInv
<1>3. QED
  BY <1>1, <1>2

\* The mode on record when a break is pending is the day's.
LEMMA PendingDay ==
  ASSUME BreakKnown, BreakInv, Pending, mem = Recorded, pc # "down"
  PROVE  mem.strict = "day" /\ ModeAt(loc.t0) = "day"
<1>1. mem.strict # "unknown" /\ mem.strict \in Modes \union {"unknown"}
  BY DaemonReads DEF BreakInv, DueFrom, BreakKnown, NightKnown, SafeEyesState
<1>2. ~AtNight
  BY DEF Pending
<1>3. mem.strict # "night"
  BY <1>2 DEF BreakKnown, NightKnown, NightRecorded, Recorded
<1>4. QED
  BY <1>1, <1>2, <1>3 DEF Modes, AtNight, ModeAt

LEMMA BreakCompare ==
  ASSUME BreakKnown, BreakInv, Absorb \/ UnlinkForced
  PROVE  BreakInv'
<1>0. /\ mem \in SafeEyesState /\ disk \in SafeEyesState /\ loc \in Local
      /\ TypeOK /\ MemDisk /\ Route /\ Daemon
  BY DaemonReads DEF BreakKnown, NightKnown, Daemon
<1>1. /\ UNCHANGED <<susp, now, due, se, disk>> /\ pc \notin {"down", "save"} /\ Early /\ Early'
      /\ loc'.t0 = loc.t0 /\ loc'.resumed = loc.resumed
      /\ pc' = "seed" \/ (pc' = "save" /\ loc'.next = "unlink")
      /\ mem'.active = mem.active /\ mem'.start = mem.start /\ mem'.type = mem.type
  <2>1. CASE Absorb
    <3>1. mem'.active = mem.active /\ mem'.start = mem.start /\ mem'.type = mem.type
      BY <1>0, <2>1 DEF Absorb, SafeEyesState
    <3>2. QED
      BY <1>0, <2>1, <3>1, PhaseStep DEF Absorb, Goto, Local, daemonOnly, worldVars
  <2>2. CASE UnlinkForced
    BY <1>0, <2>2, PhaseStep DEF UnlinkForced, Goto, daemonOnly, worldVars
  <2>3. QED
    BY <2>1, <2>2
<1>2. mem = disk /\ Recorded = disk
  BY <1>0, <1>1 DEF MemDisk, Recorded, Absorb, UnlinkForced
<1>3. ASSUME Pending' PROVE Pending
  BY <1>0, <1>1, <1>3 DEF Pending, AtNight, ModeAt, Early
<1>4. ASSUME Pending
      PROVE  /\ DueFrom(disk) /\ se.up /\ (loc.resumed \/ OverlayUp)
             /\ mem.strict = "day" /\ ModeAt(loc.t0) = "day"
  BY <1>1, <1>2, <1>4, PendingDay DEF BreakInv
<1>5. ASSUME Pending' PROVE ~loc'.boundary /\ mem'.strict = "day"
  <2>1. CASE Absorb
    BY <1>0, <1>3, <1>4, <1>5, <2>1 DEF Absorb, ModeChanged, Local, SafeEyesState
  <2>2. CASE UnlinkForced
    BY <1>3, <1>4, <1>5, <2>2 DEF UnlinkForced, BreakInv, Found
  <2>3. QED
    BY <2>1, <2>2
<1>6. Pending' => DueFrom(Recorded)'
  BY <1>1, <1>2, <1>3, <1>4, <1>5 DEF Recorded, DueFrom, Duration
<1>7. Pending' => se'.up /\ (loc'.resumed \/ OverlayUp')
  BY <1>1, <1>3, <1>4 DEF OverlayUp
<1>8. ~Mid' /\ ~Late' /\ pc' \notin {"down", "detect", "quit", "force"}
  BY <1>1 DEF Mid, Late
<1>9. QED
  BY <1>5, <1>6, <1>7, <1>8 DEF BreakInv

LEMMA BreakSeed ==
  ASSUME BreakKnown, BreakInv, Reseed \/ ReimposeBreak \/ FreshInterval \/ NothingToSeed
  PROVE  BreakInv'
<1>0. /\ mem \in SafeEyesState /\ disk \in SafeEyesState /\ loc \in Local
      /\ TypeOK /\ MemDisk /\ Route /\ Daemon /\ now \in Nat /\ loc.t0 \in Nat /\ loc.t0 <= now
      /\ Duration(mem) \in Nat /\ mem.start \in Nat
  BY DaemonReads DEF BreakKnown, NightKnown, Daemon, Clock
<1>1. /\ pc = "seed" /\ UNCHANGED <<susp, now, due, se, disk>> /\ Mid'
      /\ pc' \in {"quit", "save", "restore"}
  BY <1>0, PhaseStep DEF Reseed, ReimposeBreak, FreshInterval, NothingToSeed, Seed, Goto,
     SaveThen, daemonOnly, worldVars
<1>2. loc'.t0 = loc.t0 /\ (pc' # "restore" => loc'.next = "restore")
  BY <1>0 DEF Reseed, ReimposeBreak, FreshInterval, NothingToSeed, Goto, SaveThen, Local
<1>3. mem = disk /\ Recorded = disk
  BY <1>0, <1>1 DEF MemDisk, Recorded
<1>4. ASSUME Pending' PROVE Pending
  BY <1>1, <1>2, <1>4 DEF Pending, AtNight, ModeAt
<1>5. ASSUME Pending
      PROVE  /\ mem.active /\ mem.start > 0 /\ due = mem.start + Duration(mem)
             /\ (loc.resumed \/ OverlayUp) /\ se.up /\ ~loc.boundary
             /\ mem.strict = "day" /\ ModeAt(loc.t0) = "day" /\ ~AtNight /\ due > now
  <2>1. mem.strict = "day" /\ ModeAt(loc.t0) = "day"
    BY <1>1, <1>3, <1>5, PendingDay
  <2>2. DueFrom(mem)
    BY <1>3, <1>5 DEF BreakInv
  <2>3. (loc.resumed \/ OverlayUp) /\ se.up /\ ~loc.boundary
    BY <1>1, <1>5 DEF BreakInv, Early, Found
  <2>4. QED
    BY <1>5, <2>1, <2>2, <2>3 DEF DueFrom, Pending, AtNight
<1>6. ASSUME Pending
      PROVE  /\ Recorded'.active /\ Recorded'.start = mem.start /\ Recorded'.type = mem.type
             /\ Recorded'.strict = "day"
             /\ loc'.force = "-b" \/ (pc' # "quit" /\ OverlayUp)
  <2>1. CASE Reseed
    <3>1. ~loc.resumed /\ OverlayUp /\ pc' = "save"
      BY <1>5, <1>6, <2>1 DEF Reseed, PreserveTimer, Goto
    <3>2. /\ mem'.active = mem.active /\ mem'.start = mem.start /\ mem'.type = mem.type
          /\ mem'.strict = ModeAt(loc.t0)
      BY <1>0, <2>1 DEF Reseed, Seeded, SafeEyesState
    <3>3. QED
      BY <1>5, <1>6, <3>1, <3>2 DEF Recorded
  <2>2. CASE ReimposeBreak
    <3>1. ~BreakOver
      BY <1>0, <1>5, <1>6 DEF BreakOver, TimeLeft
    <3>2. pc' = "quit" /\ mem' = Shortened(mem) /\ loc'.force = "-b"
      BY <1>0, <2>2, <3>1 DEF ReimposeBreak, Goto, Local
    <3>3. /\ mem'.active = mem.active /\ mem'.start = mem.start /\ mem'.type = mem.type
          /\ mem'.strict = ModeAt(loc.t0)
      BY <1>0, <3>2 DEF Shortened, Seeded, SafeEyesState
    <3>4. QED
      BY <1>5, <1>6, <3>2, <3>3 DEF Recorded
  <2>3. CASE FreshInterval
    BY <1>5, <1>6, <2>3 DEF FreshInterval
  <2>4. CASE NothingToSeed
    <3>1. ~loc.resumed /\ OverlayUp /\ pc' = "restore" /\ mem' = mem
      BY <1>5, <1>6, <2>4 DEF NothingToSeed, Goto
    <3>2. QED
      BY <1>1, <1>3, <1>5, <1>6, <3>1 DEF Recorded
  <2>5. QED
    BY <2>1, <2>2, <2>3, <2>4
<1>7. Pending' => DueFrom(Recorded)'
  BY <1>1, <1>4, <1>5, <1>6 DEF DueFrom, Duration
<1>8. Pending' => loc'.force = "-b" \/ (pc' # "quit" /\ OverlayUp')
  BY <1>1, <1>4, <1>6 DEF OverlayUp
<1>9. ~Early' /\ ~Late' /\ ~Found' /\ pc' \notin {"down", "detect", "force"}
  BY <1>1, <1>2 DEF Early, Late, Found
<1>10. pc' = "quit" => loc'.next # "launch"
  BY <1>2
<1>11. QED
  BY <1>7, <1>8, <1>9, <1>10 DEF BreakInv

LEMMA BreakRestart ==
  ASSUME Truthful, BreakKnown, BreakInv, Quit \/ RestoreConfig \/ KeepAlive \/ ForceBreak
  PROVE  BreakInv'
<1>0. /\ mem \in SafeEyesState /\ disk \in SafeEyesState /\ loc \in Local /\ se \in Process
      /\ TypeOK /\ MemDisk /\ Route /\ Daemon /\ now \in Nat /\ loc.t0 \in Nat /\ loc.t0 <= now
      /\ Duration(mem) \in Nat /\ mem.start \in Nat /\ due \in Nat
  BY DaemonReads DEF BreakKnown, NightKnown, Daemon, Clock, TypeOK
<1>1. /\ UNCHANGED <<susp, now, due, disk>> /\ Mid /\ loc'.t0 = loc.t0 /\ loc'.force = loc.force
      /\ pc # "down" /\ pc' # "down"
  BY <1>0 DEF Quit, RestoreConfig, KeepAlive, ForceBreak, Goto, daemonOnly, worldVars, Local, Mid
<1>2. Pending' <=> Pending
  BY <1>1 DEF Pending, AtNight, ModeAt
<1>3. CASE Quit
  <2>1. pc = "quit" /\ pc' = "save" /\ mem' = mem /\ loc' = loc
    BY <1>3 DEF Quit, Goto
  <2>2. Recorded' = mem /\ Recorded = mem
    BY <2>1 DEF Recorded
  <2>3. Pending' => DueFrom(Recorded)'
    BY <1>1, <1>2, <2>2 DEF BreakInv, DueFrom, Duration
  <2>4. Pending' => loc'.force = "-b"
    BY <1>1, <1>2, <2>1 DEF BreakInv
  <2>5. ~Early' /\ ~Late' /\ ~Found'
    BY <1>0, <2>1 DEF Early, Late, Found, Route
  <2>6. QED
    BY <2>1, <2>3, <2>4, <2>5 DEF BreakInv
<1>4. CASE RestoreConfig
  <2>1. pc = "restore" /\ se' = se /\ mem = disk /\ Recorded = disk
    BY <1>0, <1>4 DEF RestoreConfig, MemDisk, Recorded
  <2>2. ASSUME Pending PROVE ~RestoreDue
    <3>1. mem.start > 0 /\ due = mem.start + Duration(mem) /\ due > now
      BY <2>1, <2>2 DEF BreakInv, DueFrom, Pending
    <3>2. QED
      BY <1>0, <3>1 DEF RestoreDue
  <2>3. ASSUME RestoreDue PROVE due <= now
    BY <1>0, <2>1, <2>2, <2>3 DEF Pending, RestoreDue
  <2>4. CASE RestoreDue
    <3>1. ~Pending' /\ due' <= now' /\ pc' = "quit"
      BY <1>1, <1>2, <1>4, <2>2, <2>3, <2>4 DEF RestoreConfig, Goto
    <3>2. QED
      BY <3>1 DEF BreakInv
  <2>5. CASE ~RestoreDue
    <3>1. pc' = "launch" /\ mem' = mem /\ loc' = loc
      BY <1>4, <2>5 DEF RestoreConfig, Goto
    <3>2. Recorded' = disk
      BY <1>1, <3>1 DEF Recorded
    <3>3. Pending' => DueFrom(Recorded)'
      BY <1>1, <1>2, <2>1, <3>2 DEF BreakInv, DueFrom, Duration
    <3>4. Pending' => loc'.force = "-b" \/ OverlayUp'
      BY <1>1, <1>2, <2>1, <3>1 DEF BreakInv, OverlayUp
    <3>5. ~Early' /\ ~Late' /\ ~Found'
      BY <3>1 DEF Early, Late, Found
    <3>6. QED
      BY <3>1, <3>3, <3>4, <3>5 DEF BreakInv
  <2>6. QED
    BY <2>4, <2>5
<1>5. CASE KeepAlive
  <2>1. /\ pc = "launch" /\ pc' = "force" /\ mem' = mem /\ loc' = loc
        /\ se' = IF se.up THEN se ELSE Fresh(live)
    BY <1>5 DEF KeepAlive, Goto
  <2>2. Recorded' = disk /\ Recorded = disk
    BY <1>1, <2>1 DEF Recorded
  <2>3. Pending' => DueFrom(Recorded)'
    BY <1>1, <1>2, <2>2 DEF BreakInv, DueFrom, Duration
  <2>4. Pending' => loc'.force = "-b" \/ OverlayUp'
    BY <1>1, <1>2, <2>1 DEF BreakInv, OverlayUp
  <2>5. se'.up
    BY <2>1, FreshShapes
  <2>6. ~Early' /\ ~Late' /\ ~Found'
    BY <2>1 DEF Early, Late, Found
  <2>7. QED
    BY <2>1, <2>3, <2>4, <2>5, <2>6 DEF BreakInv
<1>6. CASE ForceBreak
  <2>1. pc = "force" /\ pc' = "av"
    BY <1>6 DEF ForceBreak, Goto
  <2>2. Recorded' = disk /\ Recorded = disk
    BY <1>1, <2>1 DEF Recorded
  <2>3. Pending' => DueFrom(Recorded)'
    BY <1>1, <1>2, <2>2 DEF BreakInv, DueFrom, Duration
  <2>4. ASSUME Pending PROVE OverlayUp'
    <3>1. se.up /\ (loc.force = "-b" \/ OverlayUp)
      BY <1>1, <2>1, <2>4 DEF BreakInv
    <3>2. CASE loc.force # "none"
      <4>1. se' = Showing(se, "short", se.short)
        BY <1>6, <3>1, <3>2 DEF ForceBreak, Truthful
      <4>2. se'.up = se.up /\ se'.overlay = "short"
        BY <1>0, <4>1 DEF Showing, Process
      <4>3. QED
        BY <3>1, <4>2 DEF OverlayUp
    <3>3. CASE loc.force = "none"
      BY <1>6, <3>1, <3>3 DEF ForceBreak, OverlayUp
    <3>4. QED
      BY <3>2, <3>3
  <2>5. ~Early' /\ ~Mid' /\ ~Found'
    BY <2>1 DEF Early, Mid, Found
  <2>6. QED
    BY <1>2, <2>1, <2>3, <2>4, <2>5 DEF BreakInv, OverlayUp
<1>7. QED
  BY <1>3, <1>4, <1>5, <1>6

LEMMA BreakRest ==
  ASSUME Truthful, BreakKnown, BreakInv, SwitchForCall \/ NoSwitch \/ TrackBreak \/ EndCycle
  PROVE  BreakInv'
<1>0. /\ mem \in SafeEyesState /\ disk \in SafeEyesState /\ loc \in Local /\ se \in Process
      /\ TypeOK /\ MemDisk /\ Route /\ Daemon /\ FirstInv
      /\ now \in Nat /\ loc.t0 \in Nat /\ loc.t0 <= now
  BY DaemonReads DEF BreakKnown, NightKnown, Daemon, Clock
<1>1. /\ UNCHANGED <<susp, now, disk>> /\ Late /\ Late'
      /\ pc \in {"av", "track", "end"} /\ pc' \in {"save", "track", "end"}
  BY <1>0, PhaseStep DEF SwitchForCall, NoSwitch, TrackBreak, EndCycle, Goto, SaveThen,
     daemonOnly, worldVars
<1>2. mem = disk /\ Recorded = disk /\ ~Early' /\ ~Mid' /\ ~Found'
  BY <1>0, <1>1 DEF MemDisk, Recorded, Early, Mid, Late, Found
<1>3. loc'.t0 = loc.t0
  BY <1>0 DEF SwitchForCall, NoSwitch, TrackBreak, EndCycle, Goto, SaveThen, Local
<1>4. AtNight' <=> AtNight
  BY <1>3 DEF AtNight, ModeAt
<1>5. ASSUME Pending
      PROVE  DueFrom(disk) /\ se.up /\ (susp = disk.boot => OverlayUp)
  BY <1>1, <1>2, <1>5 DEF BreakInv
<1>6. ASSUME Pending' PROVE DueFrom(Recorded)' /\ se'.up /\ (susp' = Recorded'.boot => OverlayUp')
  <2>1. CASE SwitchForCall
    <3>1. mem' = [mem EXCEPT !.paused = call] /\ pc' = "save"
      BY <2>1 DEF SwitchForCall, SaveThen
    <3>2. due' = due /\ ~call /\ se' = [se EXCEPT !.on = TRUE]
      <4>1. due' # 0
        BY <1>0, <1>1, <1>6 DEF Pending
      <4>2. QED
        BY <2>1, <4>1 DEF SwitchForCall, Truthful, Switched
    <3>3. se'.up = se.up /\ se'.overlay = se.overlay
      BY <1>0, <3>2 DEF Process
    <3>4. /\ mem'.active = mem.active /\ mem'.start = mem.start /\ mem'.type = mem.type
          /\ mem'.strict = mem.strict /\ mem'.boot = mem.boot
      BY <1>0, <3>1 DEF SafeEyesState
    <3>5. Pending
      BY <1>1, <1>4, <1>6, <3>2 DEF Pending
    <3>6. QED
      BY <1>1, <1>2, <1>5, <3>1, <3>2, <3>3, <3>4, <3>5 DEF Recorded, DueFrom, Duration, OverlayUp
  <2>2. CASE NoSwitch
    <3>1. mem' = mem /\ se' = se /\ due' = due /\ pc' = "track"
      BY <2>2 DEF NoSwitch, Goto
    <3>2. Pending
      BY <1>1, <1>4, <1>6, <3>1 DEF Pending
    <3>3. QED
      BY <1>1, <1>5, <3>1, <3>2 DEF Recorded, DueFrom, Duration, OverlayUp
  <2>3. CASE EndCycle
    <3>1. mem' = [disk EXCEPT !.last = now] /\ pc' = "save" /\ se' = se /\ due' = due
      BY <2>3 DEF EndCycle, SaveThen
    <3>2. /\ mem'.active = disk.active /\ mem'.start = disk.start /\ mem'.type = disk.type
          /\ mem'.strict = disk.strict /\ mem'.boot = disk.boot
      BY <1>0, <3>1 DEF SafeEyesState
    <3>3. Pending
      BY <1>1, <1>4, <1>6, <3>1 DEF Pending
    <3>4. QED
      BY <1>1, <1>5, <3>1, <3>2, <3>3 DEF Recorded, DueFrom, Duration, OverlayUp
  <2>4. CASE TrackBreak
    <3>0. pc = "track" /\ se' = se /\ susp = disk.boot /\ Seen = {se.overlay}
      BY <1>2, <2>4 DEF TrackBreak, BreakKnown, Counted, Seen, Truthful
    <3>1. CASE se.overlay # "none" /\ ~mem.active /\ ~AtNight /\ se.up /\ ~loc.imposed
      <4>1. /\ mem' = [mem EXCEPT !.active = TRUE, !.type = se.overlay, !.start = loc.t0]
            /\ due' = loc.t0 + Duration(mem') /\ pc' = "save"
        BY <2>4, <3>0, <3>1 DEF TrackBreak, SaveThen
      <4>2. /\ mem'.active /\ mem'.start = loc.t0
            /\ mem'.strict = mem.strict /\ mem'.boot = mem.boot
        BY <1>0, <4>1 DEF SafeEyesState
      <4>3. loc.t0 > 0
        BY <3>0 DEF BreakKnown, NightKnown, Clock
      <4>4. mem.strict # "unknown"
        BY <1>0, <1>1, <1>2, <3>0 DEF BreakKnown, ModeKnown, FirstInv
      <4>5. QED
        BY <1>1, <1>2, <3>0, <3>1, <4>1, <4>2, <4>3, <4>4
           DEF Recorded, DueFrom, Duration, OverlayUp
    <3>2. CASE ~(se.overlay # "none" /\ ~mem.active /\ ~AtNight /\ se.up /\ ~loc.imposed)
      <4>1. due' = due
        BY <2>4, <3>0, <3>2 DEF TrackBreak
      <4>2. Pending
        BY <1>1, <1>4, <1>6, <3>0, <4>1 DEF Pending
      <4>3. OverlayUp /\ DueFrom(disk)
        BY <1>5, <3>0, <4>2
      <4>4. mem' = mem /\ pc' = "end"
        BY <1>2, <2>4, <3>0, <3>2, <4>3 DEF TrackBreak, OverlayUp, DueFrom, Goto
      <4>5. QED
        BY <1>1, <3>0, <4>1, <4>3, <4>4 DEF Recorded, DueFrom, Duration, OverlayUp
    <3>3. QED
      BY <3>1, <3>2
  <2>5. QED
    BY <2>1, <2>2, <2>3, <2>4
<1>7. QED
  BY <1>1, <1>2, <1>6 DEF BreakInv

LEMMA BreakSave ==
  ASSUME OneNight, BreakKnown, BreakInv, Save
  PROVE  BreakInv'
<1>0. /\ Route /\ pc = "save" /\ pc' = loc.next /\ disk' = mem /\ Recorded = mem
      /\ UNCHANGED <<se, susp, now, due>>
      /\ now \in Nat /\ now <= Horizon /\ loc.t0 \in Nat /\ loc.t0 <= now
  BY SaveStep, DaemonReads DEF Recorded, BreakKnown, NightKnown, Clock
<1>1. CASE loc.next = "down"
  <2>1. Late
    BY <1>0, <1>1, SaveStep
  <2>2. ~Early' /\ ~Mid' /\ ~Late' /\ ~Found' /\ Recorded' = mem
    BY <1>0, <1>1 DEF Early, Mid, Late, Found, Recorded
  <2>3. ASSUME Pending' PROVE Pending
    <3>1. AtNight => now \in Night
      BY <1>0, NightStays DEF AtNight
    <3>2. QED
      BY <1>0, <1>1, <2>3, <3>1 DEF Pending
  <2>4. Pending' => DueFrom(Recorded)'
    BY <1>0, <2>2, <2>3 DEF BreakInv, DueFrom, Duration
  <2>5. Pending' => se'.up /\ (susp' = disk'.boot => OverlayUp')
    BY <1>0, <2>1, <2>3 DEF BreakInv, OverlayUp
  <2>6. QED
    BY <1>0, <1>1, <2>2, <2>4, <2>5 DEF BreakInv
<1>2. CASE loc.next # "down"
  <2>1. /\ UNCHANGED <<mem, loc>> /\ pc' \notin {"down", "detect", "save", "quit"}
        /\ (Early' <=> Early) /\ (Mid' <=> Mid) /\ (Late' <=> Late)
    BY <1>0, <1>2, SaveStep
  <2>2. (Found' <=> Found) /\ Recorded' = mem /\ pc' # "force"
    BY <1>0, <2>1 DEF Found, Route, Recorded
  <2>3. Pending' <=> Pending
    BY <1>0, <1>2, <2>1 DEF Pending, AtNight, ModeAt
  <2>4. Pending' => DueFrom(Recorded)'
    BY <1>0, <2>2, <2>3 DEF BreakInv, DueFrom, Duration
  <2>5. Pending' /\ Early' => se'.up /\ (loc'.resumed \/ OverlayUp')
    BY <1>0, <2>1, <2>3 DEF BreakInv, OverlayUp
  <2>6. Pending' /\ Mid' => loc'.force = "-b" \/ OverlayUp'
    BY <1>0, <2>1, <2>3 DEF BreakInv, OverlayUp
  <2>7. Pending' /\ Late' => se'.up /\ (susp' = Recorded'.boot => OverlayUp')
    BY <1>0, <2>1, <2>2, <2>3 DEF BreakInv, OverlayUp
  <2>8. QED
    BY <2>1, <2>2, <2>3, <2>4, <2>5, <2>6, <2>7 DEF BreakInv
<1>3. QED
  BY <1>1, <1>2

LEMMA BreakInvariant ==
  ASSUME OneBoot, SUSPEND_MIN = 0, OneNight, QuietKills, QuietSuspends, Truthful
  PROVE  Spec => [](BreakKnown /\ BreakInv)
<1>1. Init => Counted /\ ModeKnown /\ BreakInv
  BY DEF Init, Counted, ModeKnown, BreakInv, Pending, Early, Mid, Late, Found
<1>2. Spec => []NightKnown
  BY NightKnownInvariant
<1>3. NightKnown /\ Counted /\ [Next]_vars => Counted'
  BY CountedStep DEF NightKnown
<1>4. NightKnown /\ ModeKnown /\ [Next]_vars => ModeKnown'
  BY ModeKnownStep
<1>5. BreakKnown /\ BreakInv /\ [Next]_vars => BreakInv'
  BY BreakWorld, BreakStart, BreakCompare, BreakSeed, BreakRestart, BreakRest, BreakSave
     DEF Next, Daemon
<1>6. QED
  BY <1>1, <1>2, <1>3, <1>4, <1>5, PTL DEF Spec, BreakKnown

\* A break of the day that the daemon has recorded is up at the end of every
\* cycle until its deadline: a suspend that cuts it short is found, and the break
\* is put up again for the time left, with SIGTERM, calls, crashes, update.sh, new
\* configurations and the plugin's dialog around it.  Assumed: the suspend counter
\* is usable (OneBoot) and every suspend above the limit, none comes between the
\* detection of a cycle and its look at the overlay, what SafeEyes answers is true,
\* and the time modelled ends with the night.
THEOREM BreakServedHolds ==
  ASSUME OneBoot, SUSPEND_MIN = 0, OneNight, QuietKills, QuietSuspends, Truthful
  PROVE  Spec => []BreakServed
<1>1. BreakKnown /\ BreakInv => BreakServed
  <2> SUFFICES ASSUME BreakKnown, BreakInv, CycleDone, Awake, ModeAt(loc.t0) = "day", now < due
               PROVE  se.overlay # "none"
    BY DEF BreakServed
  <2>1. now \in Nat /\ due \in Nat /\ pc = "end"
    BY DEF BreakKnown, NightKnown, TypeOK, CycleDone
  <2>2. Pending /\ Late /\ Recorded = disk
    BY <2>1 DEF Pending, AtNight, Late, Recorded
  <2>3. QED
    BY <2>2 DEF BreakInv, Awake, OverlayUp
<1>2. QED
  BY <1>1, BreakInvariant, PTL

\* The restart that puts the real configuration of the day back never comes before
\* the deadline of the break on record, through suspends, SIGTERM and edits around
\* it.  It says nothing of a break that began since the daemon last looked.  Assumed:
\* as for BreakServedHolds.
THEOREM RestoreSparesRecordedHolds ==
  ASSUME OneBoot, SUSPEND_MIN = 0, OneNight, QuietKills, QuietSuspends, Truthful
  PROVE  Spec => []RestoreSparesRecorded
<1>1. BreakKnown /\ BreakInv => RestoreSparesRecorded
  BY DEF BreakKnown, NightKnown, TypeOK, BreakInv, RestoreSparesRecorded
<1>2. QED
  BY <1>1, BreakInvariant, PTL
-----------------------------------------------------------------------------
(***************************************************************************)
(* The configuration of the last night, with SIGTERM in the middle of a    *)
(* restart or of a write, and with update.sh.                              *)
(***************************************************************************)
NightInstalled == live.mode = "night" /\ (Replaced => se.mode = "night")

\* A cycle that has seen the change of mode and has not dealt with it yet: the
\* record may have been written on the word of update.sh alone.
Uncovered == pc \in {"unlink", "seed", "quit"} /\ loc.boundary

\* SIGTERM does not hit such a cycle where update.sh is at work.
KillsCovered == "update" \in Events => KillPoints \intersect {"unlink", "seed", "quit"} = {}

TornInv ==
  /\ live.mode = "night" \/ (Replaced /\ se.mode = "night") => now \in Night
  /\ disk.strict = "night" /\ ~Uncovered => NightInstalled
  /\ "update" \notin Events /\ Uncovered /\ AtNight => disk.strict # "night"
  /\ Found /\ ~loc.boundary => mem.strict = ModeAt(loc.t0) /\ (AtNight => NightInstalled)
  /\ Mid /\ AtNight => live.mode = "night" /\ (pc # "quit" /\ Replaced => se.mode = "night")
  /\ Late /\ AtNight /\ ~loc.skip => NightInstalled
  /\ pc = "save" /\ loc.next \in {"absorb", "track", "end", "down"} => mem.strict = disk.strict
  /\ (Mid \/ Late) /\ ~loc.skip /\ (~loc.resumed \/ AtNight)
       => Recorded.strict = ModeAt(loc.t0)

TornKnown ==
  /\ TypeOK /\ MemDisk /\ Route /\ Clock /\ NightRecorded
  /\ "update" \notin Events => Control

LEMMA TornWorld ==
  ASSUME OneNight, KillsCovered, TornKnown, TornInv, World \/ UNCHANGED vars
  PROVE  TornInv'
<1>0. /\ TypeOK /\ MemDisk /\ Route /\ Clock /\ NightRecorded
      /\ now \in Nat /\ now' \in Nat /\ now <= now' /\ now' <= Horizon
  BY ClockStep, DaemonReads DEF TornKnown, Next
<1>1. CASE ~Kill
  <2>0. UNCHANGED <<pc, mem, disk, loc>>
    BY <1>1, WorldState DEF stateVars
  <2>p. /\ Mid' = Mid /\ Late' = Late /\ AtNight' = AtNight /\ Found' = Found
        /\ Recorded' = Recorded /\ Uncovered' = Uncovered /\ ModeAt(loc.t0)' = ModeAt(loc.t0)
    BY <2>0 DEF Mid, Late, AtNight, ModeAt, Found, Recorded, Uncovered
  <2>1. live' = live \/ (live'.mode = "night" /\ now \in Night)
    <3>1. CASE UpdateSeed
      BY <3>1 DEF UpdateSeed, SeededAt, Patched, Source, ModeAt
    <3>2. CASE ~UpdateSeed
      BY <3>2 DEF World, Tick, Suspend, Kill, Reboot, Call, EditSource, UpdateRestart, UpdateFlag,
         TakeBreak, EndBreak, IdleGate, PressStart, SafeEyesDies, safeEyesOnly, fileVars, vars
    <3>3. QED
      BY <3>1, <3>2
  <2>2. (Replaced /\ se'.mode = se.mode) \/ ~Replaced' \/ (se'.mode = live'.mode /\ live' = live)
    BY <1>0, ReplacedStep DEF Next, Same, Reloaded
  <2>3. NightInstalled => NightInstalled'
    BY <2>1, <2>2 DEF NightInstalled
  <2>4. now \in Night => now' \in Night
    BY <1>0, NightStays DEF ModeAt
  <2>5. live'.mode = "night" \/ (Replaced' /\ se'.mode = "night") => now' \in Night
    BY <2>1, <2>2, <2>4 DEF TornInv
  <2>6. Mid' /\ AtNight' => live'.mode = "night" /\ (pc' # "quit" /\ Replaced' => se'.mode = "night")
    BY <2>0, <2>1, <2>2, <2>p DEF TornInv
  <2>7. QED
    BY <2>0, <2>3, <2>5, <2>6, <2>p DEF TornInv
<1>2. CASE Kill
  <2>1. /\ pc \in KillPoints /\ pc # "down" /\ pc' = "down" /\ disk' \in {disk, Blank}
        /\ UNCHANGED <<se, live, now>> /\ Blank.strict = "unknown"
    BY <1>2, ConstantsAssumption DEF Kill, fileVars, Blank
  <2>2. ASSUME disk'.strict = "night" PROVE NightInstalled'
    <3>1. disk.strict = "night" /\ AtNight
      BY <1>0, <2>1, <2>2 DEF NightRecorded
    <3>2. ~Uncovered
      BY <2>1, <3>1 DEF TornInv, Uncovered, KillsCovered
    <3>3. QED
      BY <2>1, <3>1, <3>2 DEF TornInv, NightInstalled, Replaced
  <2>3. ~Mid' /\ ~Late' /\ ~Found' /\ ~Uncovered'
    BY <2>1 DEF Mid, Late, Found, Uncovered
  <2>4. QED
    BY <2>1, <2>2, <2>3 DEF TornInv, Replaced
<1>3. QED
  BY <1>1, <1>2

LEMMA TornStart ==
  ASSUME TornKnown, TornInv, BeginCycle \/ Detect
  PROVE  TornInv'
<1>0. /\ mem \in SafeEyesState /\ loc \in Local /\ TypeOK /\ MemDisk
  BY DaemonReads DEF TornKnown
<1>1. CASE BeginCycle
  <2>1. /\ pc = "down" /\ UNCHANGED <<disk, live, now>>
        /\ pc' = "detect" \/ (pc' = "end" /\ loc'.skip)
        /\ se' = se \/ se'.mode = live.mode
    BY <1>1, FreshShapes DEF BeginCycle, Goto, daemonOnly, worldVars, fileVars, NoLocal
  <2>2. ~Mid' /\ ~Found' /\ ~Uncovered' /\ ~Uncovered
    BY <2>1 DEF Mid, Found, Uncovered
  <2>3. NightInstalled => NightInstalled'
    BY <2>1 DEF NightInstalled, Replaced
  <2>4. QED
    BY <2>1, <2>2, <2>3 DEF TornInv, Late, Replaced
<1>2. CASE Detect
  <2>1. /\ pc = "detect" /\ mem = disk /\ UNCHANGED <<disk, live, now, se>>
        /\ pc' \in {"absorb", "save"} /\ loc'.next = "absorb" /\ mem'.strict = mem.strict
    BY <1>0, <1>2 DEF Detect, Goto, MemDisk, SafeEyesState, Local, worldVars, fileVars
  <2>2. ~Mid' /\ ~Late' /\ ~Found' /\ ~Uncovered' /\ ~Uncovered
    BY <2>1 DEF Mid, Late, Found, Uncovered
  <2>3. QED
    BY <2>1, <2>2 DEF TornInv, NightInstalled, Replaced
<1>3. QED
  BY <1>1, <1>2

LEMMA TornCompare ==
  ASSUME TornKnown, TornInv, Absorb \/ UnlinkForced
  PROVE  TornInv'
<1>0. mem \in SafeEyesState /\ loc \in Local /\ TypeOK /\ MemDisk
  BY DaemonReads DEF TornKnown
<1>1. /\ UNCHANGED <<disk, live, now, se>> /\ loc'.t0 = loc.t0
      /\ pc' = "seed" \/ (pc' = "save" /\ loc'.next = "unlink")
  BY <1>0 DEF Absorb, UnlinkForced, Goto, daemonOnly, worldVars, fileVars, Local
<1>2. /\ ~Mid' /\ ~Late' /\ AtNight' = AtNight /\ ModeAt(loc.t0)' = ModeAt(loc.t0)
      /\ NightInstalled' = NightInstalled
  BY <1>1 DEF Mid, Late, AtNight, ModeAt, NightInstalled, Replaced
<1>3. CASE Absorb
  <2>1. /\ pc = "absorb" /\ mem = disk /\ ~Uncovered
        /\ loc'.boundary = (mem.strict # ModeAt(loc.t0))
        /\ mem'.strict \in {mem.strict, ModeAt(loc.t0)}
    BY <1>0, <1>3 DEF Absorb, MemDisk, Uncovered, ModeChanged, Local, SafeEyesState
  <2>2. ASSUME ~loc'.boundary
        PROVE  mem'.strict = ModeAt(loc.t0) /\ (AtNight => NightInstalled)
    BY <2>1, <2>2 DEF TornInv, AtNight
  <2>3. Uncovered' /\ AtNight => disk.strict # "night"
    BY <2>1 DEF Uncovered, AtNight
  <2>4. disk.strict = "night" => NightInstalled
    BY <2>1 DEF TornInv
  <2>5. QED
    BY <1>1, <1>2, <2>2, <2>3, <2>4 DEF TornInv, Replaced
<1>4. CASE UnlinkForced
  <2>1. pc = "unlink" /\ pc' = "seed" /\ loc' = loc /\ mem' = mem
    BY <1>4 DEF UnlinkForced, Goto
  <2>2. Uncovered' = Uncovered /\ Found
    BY <2>1 DEF Uncovered, Found
  <2>3. QED
    BY <1>1, <1>2, <2>1, <2>2 DEF TornInv, Replaced
<1>5. QED
  BY <1>3, <1>4

LEMMA TornSeed ==
  ASSUME OneNight, TornKnown, TornInv, Reseed \/ ReimposeBreak \/ FreshInterval \/ NothingToSeed
  PROVE  TornInv'
<1>0. /\ mem \in SafeEyesState /\ loc \in Local /\ TypeOK /\ MemDisk /\ Route /\ Daemon
      /\ now \in Nat /\ loc.t0 \in Nat /\ loc.t0 <= now /\ now <= Horizon
  BY DaemonReads DEF TornKnown, Daemon, Clock
<1>1. /\ pc = "seed" /\ UNCHANGED <<disk, now, se>> /\ Mid' /\ mem = disk
      /\ loc'.t0 = loc.t0 /\ loc'.boundary = loc.boundary /\ loc'.resumed = loc.resumed
      /\ pc' \in {"quit", "save", "restore"} /\ (pc' # "restore" => loc'.next = "restore")
  BY <1>0, PhaseStep DEF Reseed, ReimposeBreak, FreshInterval, NothingToSeed, Seed, Goto,
     SaveThen, daemonOnly, worldVars, Local, MemDisk
<1>2. /\ ~Late' /\ ~Found' /\ AtNight' = AtNight /\ ModeAt(loc.t0)' = ModeAt(loc.t0) /\ Found
      /\ (Uncovered' => Uncovered)
  BY <1>1 DEF Late, Found, AtNight, ModeAt, Uncovered
<1>3. disk.strict = "night" => AtNight
  BY <1>1 DEF TornKnown, NightRecorded
<1>4. AtNight => now \in Night
  BY <1>0, NightStays DEF AtNight
<1>5. CASE AtNight
  <2>1. CASE Reseed
    <3>1. live'.mode = "night" /\ pc' = "quit"
      BY <1>5, <2>1 DEF Reseed, PreserveTimer, Goto, AtNight, SeededAt, Patched, Source
    <3>2. mem'.strict = ModeAt(loc.t0) /\ Recorded' = mem'
      BY <1>0, <2>1, <3>1 DEF Reseed, Seeded, SafeEyesState, Recorded
    <3>3. ~loc.boundary => NightInstalled'
      BY <1>1, <1>2, <1>5, <3>1 DEF TornInv, NightInstalled, Replaced
    <3>4. ~Uncovered' => ~loc.boundary
      BY <1>1, <3>1 DEF Uncovered
    <3>5. QED
      BY <1>1, <1>2, <1>4, <1>5, <3>1, <3>2, <3>3, <3>4 DEF TornInv
  <2>2. CASE NothingToSeed
    <3>1. live' = live /\ mem' = mem /\ pc' = "restore" /\ ~loc.resumed /\ ~loc.boundary
      BY <1>5, <2>2 DEF NothingToSeed, Goto
    <3>2. NightInstalled /\ mem.strict = ModeAt(loc.t0)
      BY <1>2, <1>5, <3>1 DEF TornInv
    <3>3. NightInstalled' /\ Recorded' = mem
      BY <1>1, <3>1, <3>2 DEF NightInstalled, Recorded, Replaced
    <3>4. QED
      BY <1>1, <1>2, <1>4, <1>5, <3>1, <3>2, <3>3 DEF TornInv, NightInstalled
  <2>3. QED
    BY <1>5, <2>1, <2>2 DEF ReimposeBreak, FreshInterval
<1>6. CASE ~AtNight
  <2>1. live' = live \/ live'.mode = "day"
    BY <1>0, <1>6, ConfigType DEF Reseed, ReimposeBreak, FreshInterval, NothingToSeed, AtNight, SeededAt,
       Patched, Source
  <2>2. ~loc.resumed => Recorded'.strict = ModeAt(loc.t0)
    <3>1. CASE Reseed
      <4>1. mem'.strict = ModeAt(loc.t0) /\ Recorded' = mem'
        BY <1>0, <3>1 DEF Reseed, Seeded, SafeEyesState, Recorded, Goto
      <4>2. QED
        BY <4>1
    <3>2. CASE NothingToSeed
      BY <1>1, <1>2, <3>2 DEF NothingToSeed, Goto, Recorded, TornInv
    <3>3. CASE ReimposeBreak \/ FreshInterval
      BY <3>3 DEF ReimposeBreak, FreshInterval
    <3>4. QED
      BY <3>1, <3>2, <3>3
  <2>3. live'.mode = "night" \/ (Replaced' /\ se'.mode = "night") => now' \in Night
    BY <1>1, <2>1 DEF TornInv, Replaced
  <2>4. QED
    BY <1>1, <1>2, <1>3, <1>6, <2>2, <2>3 DEF TornInv
<1>7. QED
  BY <1>5, <1>6

LEMMA TornRestart ==
  ASSUME OneNight, TornKnown, TornInv, Quit \/ RestoreConfig \/ KeepAlive \/ ForceBreak
  PROVE  TornInv'
<1>0. /\ mem \in SafeEyesState /\ loc \in Local /\ TypeOK /\ MemDisk /\ Route
      /\ Daemon /\ ~BeginCycle /\ ~Save /\ ~Detect
  BY DaemonReads DEF TornKnown, Daemon, BeginCycle, Save, Detect, Quit, RestoreConfig, KeepAlive,
     ForceBreak
<1>1. /\ UNCHANGED <<disk, now>> /\ Mid /\ loc'.t0 = loc.t0 /\ loc'.skip = loc.skip
      /\ loc'.resumed = loc.resumed /\ (Mid' \/ pc' = "av") /\ pc # "down"
  BY <1>0, DaemonFrame, PhaseStep DEF Mid
<1>2. /\ AtNight' = AtNight /\ ModeAt(loc.t0)' = ModeAt(loc.t0) /\ ~Found'
      /\ (Late' => pc' = "av")
  BY <1>0, <1>1 DEF Late, Mid, Found, AtNight, ModeAt
<1>3. disk.strict = "night" => AtNight
  BY <1>1 DEF TornKnown, NightRecorded
<1>4. mem'.strict = mem.strict /\ Recorded'.strict = Recorded.strict
  <2>1. mem'.strict = mem.strict /\ (pc \notin {"quit", "save"} => mem = disk)
    BY <1>0 DEF Quit, RestoreConfig, KeepAlive, ForceBreak, NoBreak, SafeEyesState, MemDisk
  <2>2. pc # "save" /\ (pc = "quit" => pc' = "save")
    BY DEF Quit, RestoreConfig, KeepAlive, ForceBreak, Goto
  <2>3. QED
    BY <1>1, <2>1, <2>2 DEF Recorded
<1>5. pc' = "save" => loc'.next \in {"restore", "launch"}
  BY <1>0 DEF Quit, RestoreConfig, KeepAlive, ForceBreak, Goto, Route
<1>6. (Replaced /\ se'.mode = se.mode) \/ ~Replaced' \/ (se'.mode = live'.mode /\ live' = live)
  BY <1>0, ReplacedStep DEF Next, Same, Reloaded
<1>7. live' = live \/ (~AtNight /\ live'.mode = "day")
  BY DEF Quit, RestoreConfig, RestoreDue, KeepAlive, ForceBreak, Source, fileVars
<1>8. live'.mode = "night" \/ (Replaced' /\ se'.mode = "night") => now' \in Night
  BY <1>1, <1>6, <1>7 DEF TornInv
<1>9. ASSUME AtNight PROVE NightInstalled' /\ pc' # "quit"
  <2>1. CASE Quit
    <3>1. ~Replaced'
      BY <1>0, <2>1, ReplacedStep DEF Next
    <3>2. live' = live /\ pc' = "save"
      BY <2>1 DEF Quit, Goto, fileVars
    <3>3. QED
      BY <1>1, <1>9, <3>1, <3>2 DEF TornInv, NightInstalled
  <2>2. CASE RestoreConfig \/ KeepAlive \/ ForceBreak
    <3>1. pc # "quit" /\ pc' # "quit"
      BY <1>9, <2>2 DEF RestoreConfig, RestoreDue, KeepAlive, ForceBreak, Goto
    <3>2. NightInstalled
      BY <1>1, <1>9, <3>1 DEF TornInv, NightInstalled
    <3>3. QED
      BY <1>6, <1>7, <1>9, <3>1, <3>2 DEF NightInstalled
  <2>3. QED
    BY <2>1, <2>2
<1>10. Uncovered' => ~AtNight
  <2>1. pc' \notin {"unlink", "seed"}
    BY <1>1 DEF Mid
  <2>2. QED
    BY <1>9, <2>1 DEF Uncovered
<1>11. QED
  BY <1>1, <1>2, <1>3, <1>4, <1>5, <1>8, <1>9, <1>10 DEF TornInv, NightInstalled

LEMMA TornRest ==
  ASSUME TornKnown, TornInv, SwitchForCall \/ NoSwitch \/ TrackBreak \/ EndCycle
  PROVE  TornInv'
<1>0. /\ mem \in SafeEyesState /\ disk \in SafeEyesState /\ loc \in Local
      /\ TypeOK /\ MemDisk /\ Route /\ Daemon /\ ~BeginCycle /\ ~Save /\ ~Detect
  BY DaemonReads DEF TornKnown, Daemon, BeginCycle, Save, Detect, SwitchForCall, NoSwitch,
     TrackBreak, EndCycle
<1>1. /\ UNCHANGED <<disk, now>> /\ Late /\ Late' /\ loc'.t0 = loc.t0 /\ loc'.skip = loc.skip
      /\ loc'.resumed = loc.resumed
  BY <1>0, DaemonFrame, PhaseStep
<1>2. /\ pc \in {"av", "track", "end"} /\ pc' \in {"save", "track", "end"} /\ mem = disk
      /\ live' = live
  BY <1>0 DEF SwitchForCall, NoSwitch, TrackBreak, EndCycle, Goto, SaveThen, MemDisk, fileVars
<1>3. mem'.strict = mem.strict
  <2>1. CASE TrackBreak
    <3>1. \/ mem' = mem \/ mem' = NoBreak(mem)
          \/ \E seen \in Seen :
               mem' = [mem EXCEPT !.active = TRUE, !.type = seen, !.start = loc.t0]
      BY <2>1 DEF TrackBreak
    <3>2. QED
      BY <1>0, <3>1 DEF NoBreak, SafeEyesState
  <2>2. CASE SwitchForCall \/ NoSwitch \/ EndCycle
    BY <1>0, <1>2, <2>2 DEF SwitchForCall, NoSwitch, EndCycle, SafeEyesState
  <2>3. QED
    BY <2>1, <2>2
<1>4. Replaced' = Replaced /\ se'.mode = se.mode
  <2>1. CASE SwitchForCall
    <3>1. se' = se \/ se' = [Cleared(se) EXCEPT !.on = FALSE] \/ se' = [se EXCEPT !.on = TRUE]
      BY <2>1 DEF SwitchForCall, Switched
    <3>2. se \in Process
      BY <1>0, DaemonReads
    <3>3. QED
      BY <3>1, <3>2 DEF Cleared, Process, Replaced
  <2>2. CASE NoSwitch \/ TrackBreak \/ EndCycle
    BY <2>2 DEF NoSwitch, TrackBreak, EndCycle, Replaced
  <2>3. QED
    BY <2>1, <2>2
<1>5. /\ AtNight' = AtNight /\ ModeAt(loc.t0)' = ModeAt(loc.t0) /\ NightInstalled' = NightInstalled
      /\ ~Found' /\ ~Mid' /\ ~Mid /\ ~Uncovered' /\ ~Uncovered
  BY <1>1, <1>2, <1>4 DEF AtNight, ModeAt, NightInstalled, Found, Mid, Late, Uncovered
<1>6. Recorded'.strict = Recorded.strict /\ Recorded = disk
  BY <1>1, <1>2, <1>3 DEF Recorded
<1>7. QED
  BY <1>1, <1>2, <1>3, <1>4, <1>5, <1>6 DEF TornInv

LEMMA TornSave ==
  ASSUME TornKnown, TornInv, Save
  PROVE  TornInv'
<1>0. /\ TypeOK /\ Route /\ pc = "save" /\ pc' = loc.next /\ disk' = mem
      /\ UNCHANGED <<se, live, now>> /\ Recorded = mem
  BY SaveStep DEF TornKnown, Recorded
<1>1. NightInstalled' = NightInstalled /\ ~Uncovered
  BY <1>0 DEF NightInstalled, Uncovered, Replaced
<1>2. mem.strict = "night" => AtNight
  BY <1>0 DEF TornKnown, NightRecorded
<1>3. CASE loc.next = "down"
  <2>1. ~Mid' /\ ~Late' /\ ~Found' /\ ~Uncovered' /\ pc' = "down"
    BY <1>0, <1>3 DEF Mid, Late, Found, Uncovered
  <2>2. mem.strict = disk.strict
    BY <1>0, <1>3 DEF TornInv
  <2>3. QED
    BY <1>0, <1>1, <2>1, <2>2 DEF TornInv, Replaced
<1>4. CASE loc.next # "down"
  <2>1. /\ UNCHANGED <<mem, loc>> /\ pc' \notin {"down", "detect", "save", "quit"}
        /\ (Mid' <=> Mid) /\ (Late' <=> Late)
    BY <1>0, <1>4, SaveStep
  <2>2. /\ (Found' <=> Found) /\ Recorded' = mem
        /\ AtNight' = AtNight /\ ModeAt(loc.t0)' = ModeAt(loc.t0)
    BY <1>0, <2>1 DEF Found, Route, Recorded, AtNight, ModeAt
  <2>3. ASSUME mem.strict = "night", ~Uncovered' PROVE NightInstalled
    <3>1. CASE loc.next \in {"absorb", "track", "end"}
      BY <1>0, <1>1, <2>3, <3>1 DEF TornInv
    <3>2. CASE loc.next = "unlink"
      BY <1>0, <1>2, <2>1, <2>3, <3>2 DEF TornInv, Found, Uncovered
    <3>3. CASE loc.next \in {"restore", "launch"}
      BY <1>0, <1>2, <2>3, <3>3 DEF TornInv, Mid, NightInstalled
    <3>4. QED
      BY <1>0, <1>4, <3>1, <3>2, <3>3 DEF Route
  <2>4. "update" \notin Events /\ Uncovered' /\ AtNight => mem.strict # "night"
    BY <1>0, <2>1 DEF Uncovered, Route, TornKnown, Control
  <2>5. QED
    BY <1>0, <1>1, <2>1, <2>2, <2>3, <2>4 DEF TornInv, Replaced
<1>5. QED
  BY <1>3, <1>4

\* The configuration of the hour, as for ModeEnforcedHolds, with SIGTERM at any
\* point of a cycle, in its writes too, and with update.sh, when the time modelled
\* ends with one night: a restart that was torn leaves at most the configuration of
\* the night that is still there when the next cycle compares the modes.  Assumed:
\* SIGTERM spares the cycle that takes update.sh's word for a mode until it has
\* restarted SafeEyes.
THEOREM ModeEnforcedTornHolds ==
  ASSUME OneNight, KillsCovered
  PROVE  Spec => []ModeEnforced
<1>1. Init => NightRecorded /\ TornInv
  BY DEF Init, NightRecorded, TornInv, Source, Replaced, Dead, Blank, Mid, Late, Found
<1>2. TypeOK /\ MemDisk /\ Route /\ Clock /\ NightRecorded /\ [Next]_vars => NightRecorded'
  BY NightRecordedStep
<1>3. Spec => []("update" \notin Events => Control)
  <2>1. CASE "update" \notin Events
    <3>1. Control => ("update" \notin Events => Control)
      OBVIOUS
    <3>2. Spec => []Control
      BY <2>1, ControlInvariant
    <3>3. QED
      BY <3>1, <3>2, PTL
  <2>2. CASE "update" \in Events
    <3>1. "update" \notin Events => Control
      BY <2>2
    <3>2. QED
      BY <3>1, PTL
  <2>3. QED
    BY <2>1, <2>2
<1>4. Spec => []TornKnown
  BY <1>1, <1>2, <1>3, GuardTyped, MemDiskInvariant, RouteInvariant, ClockInvariant, PTL
     DEF Spec, TornKnown
<1>5. TornKnown /\ TornInv /\ [Next]_vars => TornInv'
  BY TornWorld, TornStart, TornCompare, TornSeed, TornRestart, TornRest, TornSave
     DEF Next, Daemon
<1>6. TornKnown /\ TornInv => ModeEnforced
  <2> SUFFICES ASSUME TornKnown, TornInv, CycleDone, ModeAt(now) = ModeAt(loc.t0)
               PROVE  /\ ~loc.resumed => mem.strict = ModeAt(loc.t0) /\ live.mode = mem.strict
                      /\ mem.strict # "unknown" => live.mode \in {mem.strict, ModeAt(loc.t0)}
                      /\ Replaced => se.mode = live.mode
    BY DEF ModeEnforced
  <2>1. /\ pc = "end" /\ ~loc.skip /\ Late /\ Recorded = mem
        /\ live.mode \in Modes /\ se.mode \in Modes
    BY DaemonReads DEF CycleDone, Late, Recorded, TornKnown, MemDisk, Config, Process
  <2>2. CASE AtNight
    BY <2>1, <2>2 DEF TornInv, NightInstalled, AtNight
  <2>3. CASE ~AtNight
    <3>1. now \notin Night /\ ModeAt(loc.t0) = "day"
      BY <2>3 DEF AtNight, ModeAt
    <3>2. live.mode = "day" /\ (Replaced => se.mode = "day")
      BY <2>1, <3>1 DEF TornInv, Modes
    <3>3. QED
      BY <2>1, <3>1, <3>2 DEF TornInv
  <2>4. QED
    BY <2>2, <2>3
<1>7. QED
  BY <1>1, <1>4, <1>5, <1>6, PTL DEF Spec
=============================================================================
