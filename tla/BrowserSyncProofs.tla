-------------------------- MODULE BrowserSyncProofs --------------------------
(***************************************************************************)
(* Theorems about BrowserSync, for every value of its constants but those  *)
(* that a theorem names.                                                   *)
(***************************************************************************)
EXTENDS BrowserSync, TLAPS

(***************************************************************************)
(* Types.                                                                  *)
(***************************************************************************)
Clock == [elapsed : Units, left : 0..UNBLOCK_SECS, age : 0..VV_RESTART_COOLDOWN]
Gap == [ago : 0..VV_RESTART_COOLDOWN, bare : BOOLEAN]
Spent == [kills : 0..MaxKills, fails : 0..MaxFails, pauses : 0..MaxPauses]

LEMMA ClockFacts ==
  ASSUME TypeOK
  PROVE  /\ clock \in Clock /\ gap \in Gap /\ gap.ago \in 0..VV_RESTART_COOLDOWN
         /\ clock.elapsed \in Units /\ clock.left \in 0..UNBLOCK_SECS
         /\ clock.age \in 0..VV_RESTART_COOLDOWN
         /\ RUNTIME_MAX \in Nat /\ UNBLOCK_SECS \in Nat /\ VV_RESTART_COOLDOWN \in Nat
BY ConstantsAssumption DEF TypeOK, Clock, Gap

LEMMA AfterType ==
  ASSUME TypeOK, NEW n \in Nat
  PROVE  /\ After(n) \in Clock
         /\ [gap EXCEPT !.ago = AtMost(@ + n, VV_RESTART_COOLDOWN)] \in Gap
<1>1. AtMost(gap.ago + n, VV_RESTART_COOLDOWN) \in 0..VV_RESTART_COOLDOWN
  BY ClockFacts DEF AtMost
<1>2. QED
  BY <1>1, ClockFacts DEF After, AtMost, AtLeast, Clock, Units, Gap

LEMMA OverlooksType ==
  ASSUME TypeOK, NEW bs, bs \subseteq Browsers, Overlooks(bs)
  PROVE  lost' \subseteq Browsers
BY DEF Overlooks, TypeOK

LEMMA RestartedType ==
  ASSUME TypeOK, NEW b, NEW bare \in BOOLEAN, Restarted(b, bare)
  PROVE  clock' \in Clock /\ gap' \in Gap
<1>1. [ago |-> 0, bare |-> bare] \in Gap
  BY ConstantsAssumption DEF Gap
<1>2. QED
  BY <1>1, ClockFacts DEF Restarted

LEMMA LoadedType ==
  ASSUME TypeOK, NEW b \in Browsers, NEW own \in BOOLEAN
  PROVE  /\ Loaded(b, own) \in Process /\ Down \in Process /\ proc[b] \in Process
         /\ Launched(b, own) \in Process
<1>1. file[b] \in Policies /\ proc[b] \in Process
  BY DEF TypeOK
<1>2. Loaded(b, own) \in Process /\ Down \in Process
  BY <1>1 DEF Loaded, Down, Process, Policies
<1>3. [Down EXCEPT !.st = "starting", !.own = own] \in Process
  BY DEF Down, Process, Policies
<1>4. QED
  BY <1>1, <1>2, <1>3, ConstantsAssumption DEF Launched

LEMMA OutcomeType ==
  ASSUME TypeOK, NEW b \in Browsers, NEW o \in Outcomes(b)
  PROVE  o.gone \in BOOLEAN /\ o.proc \in Process /\ o.took \in Nat
<1>1. proc[b] \in Process /\ Loaded(b, FALSE) \in Process /\ Down \in Process
  BY LoadedType
<1>2. TERM \in Nat
  BY ConstantsAssumption
<1>3. CASE ~Running(b)
  <2>1. o = [gone |-> TRUE, proc |-> proc[b], took |-> 0]
    BY <1>3 DEF Outcomes
  <2>2. QED
    BY <1>1, <2>1
<1>4. CASE Running(b)
  <2>1. CASE o = [gone |-> TRUE, proc |-> Down, took |-> 0]
    BY <1>1, <2>1
  <2>2. ASSUME NEW n \in {0, TERM}, o = [gone |-> FALSE, proc |-> proc[b], took |-> n]
        PROVE  o.gone \in BOOLEAN /\ o.proc \in Process /\ o.took \in Nat
    BY <1>1, <1>2, <2>2
  <2>3. CASE o = [gone |-> FALSE, proc |-> Loaded(b, FALSE), took |-> TERM]
    BY <1>1, <1>2, <2>3
  <2>4. QED
    BY <1>4, <2>1, <2>2, <2>3 DEF Outcomes
<1>5. QED
  BY <1>3, <1>4

\* What the steps that stop a browser or let time pass do to the types.
LEMMA StopType ==
  ASSUME TypeOK, NEW b \in Browsers, NEW o, TermAndWait(b, o)
  PROVE  /\ proc' \in [Browsers -> Process] /\ lost' \subseteq Browsers
         /\ clock' \in Clock /\ gap' \in Gap
         /\ o.gone \in BOOLEAN /\ o.took \in Nat /\ After(o.took).elapsed \in Units
<1>1. o.gone \in BOOLEAN /\ o.proc \in Process /\ o.took \in Nat
  BY OutcomeType DEF TermAndWait
<1>2. (IF o.gone THEN {} ELSE {b}) \subseteq Browsers
  OBVIOUS
<1>3. QED
  BY <1>1, <1>2, AfterType, OverlooksType DEF TermAndWait, Elapse, TypeOK, Clock

LEMMA StartsType ==
  ASSUME TypeOK, NEW b \in Browsers, NEW own \in BOOLEAN, Starts(b, own)
  PROVE  /\ proc' \in [Browsers -> Process]
         /\ lost' \subseteq Browsers
         /\ {addon', vvAddon', active', drift'} \subseteq BOOLEAN
<1>1. Launched(b, own) \in Process
  BY LoadedType
<1>2. proc' \in [Browsers -> Process]
  BY <1>1 DEF Starts, TypeOK
<1>3. vvAddon' \in BOOLEAN /\ UNCHANGED <<addon, active, drift>>
  BY DEF Starts
<1>4. lost' \subseteq Browsers
  BY OverlooksType DEF Starts
<1>5. QED
  BY <1>2, <1>3, <1>4 DEF TypeOK

LEMMA LocalType ==
  ASSUME NEW l \in Local
  PROVE  /\ NextBrowser(l) \in Local
         /\ \A b \in Browsers : [l EXCEPT !.b = b] \in Local
         /\ \A b \in Browsers, x \in BOOLEAN :
              /\ [l EXCEPT !.was[b] = x] \in Local
              /\ [l EXCEPT !.gone[b] = x] \in Local
         /\ \A x \in BOOLEAN : [l EXCEPT !.restart = x] \in Local
BY DEF NextBrowser, Local, Browsers

LEMMA IdleType ==
  ASSUME TypeOK
  PROVE  /\ Idle \in Local
         /\ \A u \in Units, x \in BOOLEAN :
              [Idle EXCEPT !.begun = u, !.synced = x] \in Local
         /\ \A x \in BOOLEAN : Polling(x) \in Local
         /\ 0 \in Units
<1>1. 0 \in Units /\ clock.elapsed \in Units
  BY ClockFacts DEF Units
<1>2. QED
  BY <1>1 DEF Idle, Polling, Local, Browsers

LEMMA InitType == Init => TypeOK
<1> SUFFICES ASSUME Init PROVE TypeOK
  OBVIOUS
<1>1. Idle \in Local
  BY ConstantsAssumption DEF Idle, Local, Browsers, Units
<1>2. clock \in [elapsed : Units, left : 0..UNBLOCK_SECS, age : 0..VV_RESTART_COOLDOWN]
  BY ConstantsAssumption DEF Init, Units
<1>3. spent \in [kills : 0..MaxKills, fails : 0..MaxFails, pauses : 0..MaxPauses]
  BY ConstantsAssumption DEF Init
<1>4. proc \in [Browsers -> Process] /\ file \in [Browsers -> Policies]
  BY DEF Init, Process, Down, Policies
<1>5. mem \in PauseState /\ disk \in PauseState
  BY DEF Init, PauseState
<1>6. gap \in Gap /\ pc \in PC /\ lost \subseteq Browsers
  BY ConstantsAssumption DEF Init, PC, Gap
<1>7. {addon, vvAddon, active, drift} \subseteq BOOLEAN
  BY DEF Init
<1>8. QED
  BY <1>1, <1>2, <1>3, <1>4, <1>5, <1>6, <1>7 DEF Init, TypeOK, Gap

LEMMA FileType ==
  ASSUME TypeOK, NEW b \in Browsers
  PROVE  [file EXCEPT ![b] = "blocking"] \in [Browsers -> Policies]
         /\ [file EXCEPT ![b] = "unblocked"] \in [Browsers -> Policies]
BY DEF TypeOK, Policies

LEMMA HelperFailsType ==
  ASSUME TypeOK, HelperFails
  PROVE  spent' \in Spent
<1>1. spent.fails + 1 \in 0..MaxFails
  BY ConstantsAssumption DEF TypeOK, HelperFails
<1>2. QED
  BY <1>1 DEF TypeOK, HelperFails, Spent

\* The parts of TypeOK, for the steps that change few of the variables.
DaemonTyped == pc \in PC /\ loc \in Local /\ mem \in PauseState /\ disk \in PauseState
TimeTyped   == clock \in Clock /\ gap \in Gap /\ spent \in Spent
WorldTyped  ==
  /\ file \in [Browsers -> Policies] /\ proc \in [Browsers -> Process]
  /\ lost \subseteq Browsers
  /\ {addon, vvAddon, active, drift} \subseteq BOOLEAN

LEMMA MirrorType ==
  ASSUME TypeOK, Mirror
  PROVE  spent' \in Spent /\ drift' \in BOOLEAN
BY HelperFailsType DEF Mirror, TypeOK, Spent

LEMMA NoTimeType ==
  ASSUME TypeOK, NoTime
  PROVE  clock' \in Clock /\ gap' \in Gap
BY ClockFacts DEF NoTime

LEMMA EndType ==
  ASSUME TypeOK, EndProcess
  PROVE  DaemonTyped' /\ clock' \in Clock /\ gap' \in Gap /\ WorldTyped'
<1>1. Idle \in Local /\ 0 \in Units
  BY IdleType
<1>2. clock' \in Clock
  BY <1>1, ClockFacts DEF EndProcess, Clock
<1>3. proc' \in [Browsers -> Process]
  BY LoadedType DEF EndProcess, TypeOK
<1>4. mem' \in PauseState
  BY DEF EndProcess, PauseState
<1>5. gap' \in Gap /\ lost' \subseteq Browsers
  BY ClockFacts, OverlooksType DEF EndProcess, Gap
<1>6. QED
  BY <1>1, <1>2, <1>3, <1>4, <1>5
     DEF EndProcess, DaemonTyped, WorldTyped, TypeOK, PC, leech

LEMMA SwapDoneType ==
  ASSUME TypeOK, NEW n, After(n).elapsed \in Units, SwapDone(n)
  PROVE  pc' \in PC /\ loc' \in Local
<1>1. CASE loc.b = "firefox"
  BY <1>1, LocalType DEF SwapDone, TypeOK, PC, SwapPC, Browsers
<1>2. CASE loc.b # "firefox"
  <2>1. loc \in Local /\ loc.begun \in Units /\ loc.after \in {"poll", "save"}
    BY DEF TypeOK, Local
  <2>2. PICK u \in Units : loc' = [loc EXCEPT !.b = "firefox", !.begun = u]
    BY <1>2, <2>1 DEF SwapDone
  <2>3. QED
    BY <1>2, <2>1, <2>2 DEF SwapDone, PC, Local, Browsers
<1>3. QED
  BY <1>1, <1>2

LEMMA TypeProcess ==
  ASSUME TypeOK, Kill \/ RuntimeMax \/ ExitCycle \/ SlowHelper \/ StartCycle
  PROVE  TypeOK'
<1>a. SUFFICES DaemonTyped' /\ TimeTyped' /\ WorldTyped'
  BY DEF TypeOK, DaemonTyped, TimeTyped, WorldTyped, Clock, Gap, Spent
<1>b. DaemonTyped /\ TimeTyped /\ WorldTyped
  BY DEF TypeOK, DaemonTyped, TimeTyped, WorldTyped, Clock, Gap, Spent
<1>1. CASE Kill
  <2>1. spent.kills + 1 \in 0..MaxKills
    BY <1>1, ConstantsAssumption DEF Kill, TypeOK
  <2>2. spent' \in Spent
    BY <1>1, <2>1 DEF Kill, TypeOK, Spent
  <2>3. QED
    BY <1>b, <1>1, <2>2, EndType DEF Kill, TimeTyped
<1>2. CASE RuntimeMax \/ ExitCycle
  BY <1>b, <1>2, EndType DEF RuntimeMax, ExitCycle, TimeTyped
<1>3. CASE SlowHelper
  BY <1>b, <1>3, AfterType
     DEF SlowHelper, Elapse, leech, browsers, DaemonTyped, TimeTyped, WorldTyped
<1>4. CASE StartCycle
  <2>1. loc' \in Local
    <3>1. Running("firefox") \in BOOLEAN /\ "firefox" \in Browsers
      BY DEF Running, Browsers
    <3>2. QED
      BY <1>4, <3>1, IdleType, LocalType DEF StartCycle
  <2>2. pc' \in PC
    BY <1>4 DEF StartCycle, TypeOK, PauseState, PC, SyncPC, SwapPC
  <2>3. QED
    BY <1>b, <1>4, <2>1, <2>2, NoTimeType
       DEF StartCycle, DaemonTyped, TimeTyped, WorldTyped, leech, browsers
<1>5. QED
  BY <1>1, <1>2, <1>3, <1>4

LEMMA TypeSync ==
  ASSUME TypeOK,
         \/ AddonActive \/ AddonDisabled \/ AddonWrite \/ Compare \/ Extension
         \/ NoRestart \/ AlreadyKilled \/ Restart \/ Launch \/ Touch
  PROVE  TypeOK'
<1>0. /\ loc \in Local /\ loc.b \in Browsers /\ loc.restart \in BOOLEAN
      /\ loc.was[loc.b] \in BOOLEAN /\ "firefox" \in Browsers /\ "vivaldi" \in Browsers
      /\ \A b \in Browsers : Running(b) \in BOOLEAN
      /\ {addon, vvAddon, active, drift} \subseteq BOOLEAN
  BY DEF TypeOK, Local, Browsers, Running
<1>a. SUFFICES DaemonTyped' /\ TimeTyped' /\ WorldTyped'
  BY DEF TypeOK, DaemonTyped, TimeTyped, WorldTyped, Clock, Gap, Spent
<1>b. DaemonTyped /\ TimeTyped /\ WorldTyped
  BY DEF TypeOK, DaemonTyped, TimeTyped, WorldTyped, Clock, Gap, Spent
<1> USE DEF Step, leech, browsers
<1>2. CASE AddonActive
  BY <1>b, <1>2, NoTimeType
     DEF AddonActive, DaemonTyped, TimeTyped, WorldTyped, PC, SyncPC
<1>3. CASE AddonDisabled
  <2>1. PICK o \in Outcomes("firefox") :
          /\ TermAndWait("firefox", o)
          /\ loc' = [loc EXCEPT !.gone["firefox"] = o.gone, !.killed = TRUE,
                                !.restart = TRUE]
    BY <1>3 DEF AddonDisabled
  <2>2. [loc EXCEPT !.gone["firefox"] = o.gone] \in Local
    BY <1>0, <2>1, StopType, LocalType
  <2>3. loc' \in Local
    BY <1>0, <2>1, <2>2 DEF Local
  <2>4. QED
    BY <1>0, <1>b, <1>3, <2>1, <2>3, StopType
       DEF AddonDisabled, DaemonTyped, TimeTyped, WorldTyped, PC, SyncPC
<1>4. CASE AddonWrite
  <2>1. addon' \in BOOLEAN
    BY <1>4 DEF AddonWrite
  <2>2. QED
    BY <1>0, <1>b, <1>4, <2>1, NoTimeType
       DEF AddonWrite, DaemonTyped, TimeTyped, WorldTyped, PC, SyncPC
<1>5. CASE Compare
  <2>1. PICK x \in BOOLEAN, y \in BOOLEAN :
          loc' = [loc EXCEPT !.restart = x, !.was[loc.b] = y]
    <3>1. (loc.restart \/ file[loc.b] # "blocking") \in BOOLEAN
      OBVIOUS
    <3>2. (IF loc.b = "vivaldi" THEN Running(loc.b) ELSE loc.was[loc.b]) \in BOOLEAN
      BY <1>0
    <3>3. QED
      BY <1>5, <3>1, <3>2 DEF Compare
  <2>2. loc' \in Local
    BY <1>0, <2>1 DEF Local
  <2>3. QED
    BY <1>0, <1>b, <1>5, <2>2, NoTimeType, FileType
       DEF Compare, DaemonTyped, TimeTyped, WorldTyped, PC, SyncPC
<1>6. CASE Extension
  <2>1. (loc.restart \/ (~vvAddon /\ CooledDown)) \in BOOLEAN
    OBVIOUS
  <2>2. loc' \in Local
    BY <1>0, <1>6, <2>1, LocalType DEF Extension
  <2>3. QED
    BY <1>b, <1>6, <2>2, NoTimeType
       DEF Extension, DaemonTyped, TimeTyped, WorldTyped, PC, SyncPC
<1>7. CASE NoRestart \/ AlreadyKilled
  BY <1>0, <1>b, <1>7, NoTimeType, LocalType
     DEF NoRestart, AlreadyKilled, AfterBrowser, DaemonTyped, TimeTyped, WorldTyped, PC, SyncPC
<1>8. CASE Restart
  <2>1. PICK o \in Outcomes(loc.b) :
          /\ Step("restart", IF o.gone THEN "launch" ELSE AfterBrowser)
          /\ TermAndWait(loc.b, o)
          /\ loc' = IF o.gone THEN loc ELSE NextBrowser(loc)
    BY <1>8 DEF Restart
  <2>2. /\ proc' \in [Browsers -> Process] /\ lost' \subseteq Browsers
        /\ clock' \in Clock /\ gap' \in Gap
    BY <1>0, <2>1, StopType
  <2>3. loc' \in Local
    BY <1>0, <2>1, <2>2, LocalType
  <2>4. pc' \in PC
    BY <2>1 DEF AfterBrowser, PC, SyncPC
  <2>5. QED
    BY <1>b, <1>8, <2>1, <2>2, <2>3, <2>4
       DEF Restart, DaemonTyped, TimeTyped, WorldTyped
<1>9. CASE Launch
  <2>1. (loc.b \in InCgroup) \in BOOLEAN
    OBVIOUS
  <2>2. proc' \in [Browsers -> Process] /\ lost' \subseteq Browsers
        /\ {addon', vvAddon', active', drift'} \subseteq BOOLEAN
    BY <1>0, <1>9, <2>1, StartsType DEF Launch
  <2>3. QED
    BY <1>0, <1>b, <1>9, <2>2, RestartedType, LocalType
       DEF Launch, DaemonTyped, TimeTyped, WorldTyped, PC, SyncPC
<1>10. CASE Touch
  <2>1. clock' \in Clock /\ gap' = gap
    BY <1>10, ClockFacts DEF Touch, Clock
  <2>2. loc' \in Local /\ pc' \in PC
    BY <1>0, <1>10, IdleType, ClockFacts DEF Touch, PC, SyncPC
  <2>3. QED
    BY <1>b, <1>10, <2>1, <2>2 DEF Touch, DaemonTyped, TimeTyped, WorldTyped
<1>11. QED
  BY <1>2, <1>3, <1>4, <1>5, <1>6, <1>7, <1>8, <1>9, <1>10

LEMMA TypeDrift ==
  ASSUME TypeOK, DriftIgnored \/ DriftStopped \/ DriftRunning \/ DriftSync \/ DriftLaunch
  PROVE  TypeOK'
<1>a. SUFFICES DaemonTyped' /\ TimeTyped' /\ WorldTyped'
  BY DEF TypeOK, DaemonTyped, TimeTyped, WorldTyped, Clock, Gap, Spent
<1>b. DaemonTyped /\ TimeTyped /\ WorldTyped
  BY DEF TypeOK, DaemonTyped, TimeTyped, WorldTyped, Clock, Gap, Spent
<1>0. /\ "vivaldi" \in Browsers /\ Polling(TRUE) \in Local
      /\ {addon, vvAddon, active, drift} \subseteq BOOLEAN
  BY IdleType DEF TypeOK, Browsers
<1> USE DEF leech, browsers
<1>1. CASE DriftIgnored
  <2>1. spent' \in Spent
    BY <1>b, <1>1, HelperFailsType DEF DriftIgnored, TimeTyped
  <2>2. QED
    BY <1>b, <1>0, <1>1, <2>1, NoTimeType
       DEF DriftIgnored, DaemonTyped, TimeTyped, WorldTyped, PC
<1>2. CASE DriftStopped
  BY <1>b, <1>0, <1>2, NoTimeType, MirrorType
     DEF DriftStopped, DaemonTyped, TimeTyped, WorldTyped, PC
<1>3. CASE DriftRunning
  <2>1. PICK o \in Outcomes("vivaldi") :
          /\ Step("drift", IF o.gone THEN "driftSync" ELSE "poll")
          /\ TermAndWait("vivaldi", o)
          /\ loc' = IF o.gone THEN loc
                    ELSE [Polling(TRUE) EXCEPT !.begun = After(o.took).elapsed]
    BY <1>3 DEF DriftRunning
  <2>2. /\ proc' \in [Browsers -> Process] /\ lost' \subseteq Browsers
        /\ clock' \in Clock /\ gap' \in Gap /\ After(o.took).elapsed \in Units
    BY <1>0, <2>1, StopType
  <2>3. [Polling(TRUE) EXCEPT !.begun = After(o.took).elapsed] \in Local
    BY <1>0, <2>2 DEF Local
  <2>4. loc' \in Local
    BY <1>b, <2>1, <2>3 DEF DaemonTyped
  <2>5. QED
    BY <1>b, <1>3, <2>1, <2>2, <2>4
       DEF DriftRunning, Step, DaemonTyped, TimeTyped, WorldTyped, PC, SyncPC
<1>4. CASE DriftSync
  BY <1>b, <1>0, <1>4, NoTimeType, MirrorType
     DEF DriftSync, DaemonTyped, TimeTyped, WorldTyped, PC, SyncPC
<1>5. CASE DriftLaunch
  <2>1. ("vivaldi" \in InCgroup) \in BOOLEAN
    OBVIOUS
  <2>2. proc' \in [Browsers -> Process] /\ lost' \subseteq Browsers
        /\ {addon', vvAddon', active', drift'} \subseteq BOOLEAN
    BY <1>0, <1>5, <2>1, StartsType DEF DriftLaunch
  <2>3. QED
    BY <1>b, <1>5, <2>2, RestartedType
       DEF DriftLaunch, Step, DaemonTyped, TimeTyped, WorldTyped, PC, SyncPC
<1>6. QED
  BY <1>1, <1>2, <1>3, <1>4, <1>5

LEMMA TypeSwap ==
  ASSUME TypeOK, SwapCopy \/ SwapTerm \/ SwapLaunch
  PROVE  TypeOK'
<1>a. SUFFICES DaemonTyped' /\ TimeTyped' /\ WorldTyped'
  BY DEF TypeOK, DaemonTyped, TimeTyped, WorldTyped, Clock, Gap, Spent
<1>b. DaemonTyped /\ TimeTyped /\ WorldTyped
  BY DEF TypeOK, DaemonTyped, TimeTyped, WorldTyped, Clock, Gap, Spent
<1>0. loc.b \in Browsers /\ After(0).elapsed \in Units
  BY AfterType DEF TypeOK, Local, Clock
<1> USE DEF leech, browsers
<1>1. CASE SwapCopy
  <2>1. pc' \in PC /\ loc' \in Local
    BY <1>b, <1>0, <1>1, SwapDoneType DEF SwapCopy, DaemonTyped, PC, SwapPC
  <2>2. QED
    BY <1>b, <1>0, <1>1, <2>1, NoTimeType, FileType
       DEF SwapCopy, DaemonTyped, TimeTyped, WorldTyped
<1>2. CASE SwapTerm
  <2>1. CASE ~Running(loc.b)
    BY <1>b, <1>0, <1>2, <2>1, SwapDoneType, NoTimeType
       DEF SwapTerm, DaemonTyped, TimeTyped, WorldTyped
  <2>2. CASE Running(loc.b)
    <3>1. PICK o \in Outcomes(loc.b) :
            /\ TermAndWait(loc.b, o)
            /\ IF o.gone THEN pc' = "swapLaunch" /\ UNCHANGED loc ELSE SwapDone(o.took)
      BY <1>2, <2>2 DEF SwapTerm
    <3>2. /\ proc' \in [Browsers -> Process] /\ lost' \subseteq Browsers /\ clock' \in Clock
          /\ gap' \in Gap /\ After(o.took).elapsed \in Units
      BY <1>0, <3>1, StopType
    <3>3. pc' \in PC /\ loc' \in Local
      BY <1>b, <3>1, <3>2, SwapDoneType DEF DaemonTyped, PC, SwapPC
    <3>4. QED
      BY <1>b, <1>2, <3>2, <3>3 DEF SwapTerm, DaemonTyped, TimeTyped, WorldTyped
  <2>3. QED
    BY <2>1, <2>2
<1>3. CASE SwapLaunch
  <2>1. (loc.b \in InCgroup) \in BOOLEAN
    OBVIOUS
  <2>2. proc' \in [Browsers -> Process] /\ lost' \subseteq Browsers
        /\ {addon', vvAddon', active', drift'} \subseteq BOOLEAN
    BY <1>0, <1>3, <2>1, StartsType DEF SwapLaunch
  <2>3. QED
    BY <1>b, <1>0, <1>3, <2>2, SwapDoneType, RestartedType
       DEF SwapLaunch, DaemonTyped, TimeTyped, WorldTyped
<1>4. QED
  BY <1>1, <1>2, <1>3

LEMMA TypeClose ==
  ASSUME TypeOK, CloseTerm \/ CloseCopy \/ CloseSets \/ CloseRules \/ CloseLaunch
  PROVE  TypeOK'
<1>a. SUFFICES DaemonTyped' /\ TimeTyped' /\ WorldTyped'
  BY DEF TypeOK, DaemonTyped, TimeTyped, WorldTyped, Clock, Gap, Spent
<1>b. DaemonTyped /\ TimeTyped /\ WorldTyped
  BY DEF TypeOK, DaemonTyped, TimeTyped, WorldTyped, Clock, Gap, Spent
<1>0. /\ loc \in Local /\ loc.b \in Browsers /\ "firefox" \in Browsers /\ "vivaldi" \in Browsers
      /\ Running(loc.b) \in BOOLEAN
      /\ {addon, vvAddon, active, drift} \subseteq BOOLEAN
  BY DEF TypeOK, Local, Browsers, Running
<1> USE DEF leech, browsers
<1>1. CASE CloseTerm
  <2>1. PICK o \in Outcomes(loc.b) :
          /\ TermAndWait(loc.b, o)
          /\ loc' = [loc EXCEPT !.was[loc.b] = Running(loc.b), !.gone[loc.b] = o.gone]
    BY <1>1 DEF CloseTerm
  <2>2. /\ proc' \in [Browsers -> Process] /\ lost' \subseteq Browsers /\ clock' \in Clock
        /\ gap' \in Gap /\ o.gone \in BOOLEAN
    BY <1>0, <2>1, StopType
  <2>3. [loc EXCEPT !.was[loc.b] = Running(loc.b)] \in Local
    BY <1>0, LocalType
  <2>4. loc' \in Local
    BY <1>0, <2>1, <2>2, <2>3, LocalType DEF Local
  <2>5. QED
    BY <1>b, <1>1, <2>2, <2>4
       DEF CloseTerm, Step, DaemonTyped, TimeTyped, WorldTyped, PC, ClosePC
<1>2. CASE CloseCopy
  BY <1>b, <1>0, <1>2, NoTimeType, FileType
     DEF CloseCopy, Step, DaemonTyped, TimeTyped, WorldTyped, PC, ClosePC
<1>3. CASE CloseSets
  <2>1. active' \in BOOLEAN
    BY <1>0, <1>3 DEF CloseSets
  <2>2. spent' \in Spent
    BY <1>b, <1>3, HelperFailsType DEF CloseSets, TimeTyped
  <2>3. QED
    BY <1>b, <1>0, <1>3, <2>1, <2>2, NoTimeType, LocalType
       DEF CloseSets, DaemonTyped, TimeTyped, WorldTyped, PC, ClosePC
<1>4. CASE CloseRules
  BY <1>b, <1>0, <1>4, NoTimeType, MirrorType, LocalType
     DEF CloseRules, DaemonTyped, TimeTyped, WorldTyped, PC, ClosePC
<1>5. CASE CloseLaunch
  <2>1. (loc.b \in InCgroup) \in BOOLEAN
    OBVIOUS
  <2>2. proc' \in [Browsers -> Process] /\ lost' \subseteq Browsers
        /\ {addon', vvAddon', active', drift'} \subseteq BOOLEAN
    BY <1>b, <1>0, <1>5, <2>1, StartsType DEF CloseLaunch, Relaunch, WorldTyped
  <2>3. loc' \in Local
    <3>1. loc.begun \in Units
      BY <1>0 DEF Local
    <3>2. QED
      BY <1>0, <1>5, <3>1, LocalType, IdleType DEF CloseLaunch
  <2>4. mem' \in PauseState /\ pc' \in PC
    BY <1>b, <1>5 DEF CloseLaunch, DaemonTyped, PauseState, PC
  <2>5. QED
    BY <1>b, <1>5, <2>2, <2>3, <2>4, NoTimeType, RestartedType
       DEF CloseLaunch, Relaunch, DaemonTyped, TimeTyped, WorldTyped
<1>6. QED
  BY <1>1, <1>2, <1>3, <1>4, <1>5

LEMMA TypePause ==
  ASSUME TypeOK,
         PollTick \/ Save \/ StartChallenge \/ FailChallenge \/ Grant \/ CloseWindow
  PROVE  TypeOK'
<1>a. SUFFICES DaemonTyped' /\ TimeTyped' /\ WorldTyped'
  BY DEF TypeOK, DaemonTyped, TimeTyped, WorldTyped, Clock, Gap, Spent
<1>b. DaemonTyped /\ TimeTyped /\ WorldTyped
  BY DEF TypeOK, DaemonTyped, TimeTyped, WorldTyped, Clock, Gap, Spent
<1> USE DEF leech, browsers, DaemonTyped, TimeTyped, WorldTyped
<1>1. CASE PollTick
  BY <1>b, <1>1, AfterType DEF PollTick, Elapse
<1>2. CASE Save
  BY <1>b, <1>2, NoTimeType DEF Save, PC
<1>3. CASE StartChallenge
  <2>1. spent.pauses + 1 \in 0..MaxPauses
    BY <1>b, <1>3, ConstantsAssumption DEF StartChallenge, Spent
  <2>2. spent' \in Spent
    BY <1>b, <1>3, <2>1 DEF StartChallenge, Spent
  <2>3. mem' \in PauseState
    BY <1>b, <1>3 DEF StartChallenge, PauseState
  <2>4. QED
    BY <1>b, <1>3, <2>2, <2>3, NoTimeType DEF StartChallenge, PC
<1>4. CASE FailChallenge
  <2>1. mem' \in PauseState
    BY <1>b, <1>4 DEF FailChallenge, PauseState
  <2>2. QED
    BY <1>b, <1>4, <2>1, NoTimeType DEF FailChallenge, PC
<1>5. CASE Grant
  <2>1. mem' \in PauseState
    BY <1>5 DEF Grant, PauseState
  <2>2. spent' \in Spent
    BY <1>b, <1>5, HelperFailsType DEF Grant
  <2>3. loc' \in Local
    BY <1>b, <1>5 DEF Grant, Local
  <2>4. clock' \in Clock
    BY <1>b, <1>5, ConstantsAssumption DEF Grant, Clock
  <2>5. QED
    BY <1>b, <1>5, <2>1, <2>2, <2>3, <2>4 DEF Grant, PC, SwapPC
<1>6. CASE CloseWindow
  BY <1>b, <1>6, NoTimeType, LocalType DEF CloseWindow, PC, ClosePC, Browsers
<1>7. QED
  BY <1>1, <1>2, <1>3, <1>4, <1>5, <1>6

LEMMA TypeUser == TypeOK /\ User => TypeOK'
<1> SUFFICES ASSUME TypeOK, User PROVE TypeOK'
  OBVIOUS
<1>a. SUFFICES DaemonTyped' /\ TimeTyped' /\ WorldTyped'
  BY DEF TypeOK, DaemonTyped, TimeTyped, WorldTyped, Clock, Gap, Spent
<1>b. DaemonTyped /\ TimeTyped /\ WorldTyped
  BY DEF TypeOK, DaemonTyped, TimeTyped, WorldTyped, Clock, Gap, Spent
<1> USE DEF leech, browsers, Outside
<1>1. SUFFICES WorldTyped'
  BY <1>b DEF User, StartBrowser, Appear, CloseBrowser, DisableAddon, EditRules,
     DisableSet, InstallSources, RefreshSources, DaemonTyped, TimeTyped
<1>2. ASSUME NEW b \in Browsers, StartBrowser(b) PROVE WorldTyped'
  <2>1. Starts(b, FALSE) /\ UNCHANGED file
    BY <1>2 DEF StartBrowser
  <2>2. QED
    BY <1>b, <2>1, StartsType DEF WorldTyped
<1>3. ASSUME NEW b \in Browsers, Appear(b) \/ CloseBrowser(b) PROVE WorldTyped'
  <2>1. proc[b].own \in BOOLEAN
    BY <1>b DEF WorldTyped, Process
  <2>2. proc' \in [Browsers -> Process] /\ lost' \subseteq Browsers
    BY <1>b, <1>3, <2>1, LoadedType, OverlooksType DEF Appear, CloseBrowser, WorldTyped
  <2>3. QED
    BY <1>b, <1>3, <2>2 DEF Appear, CloseBrowser, WorldTyped
<1>4. CASE DisableAddon \/ EditRules \/ DisableSet
  BY <1>b, <1>4 DEF DisableAddon, EditRules, DisableSet, WorldTyped
<1>5. CASE InstallSources \/ RefreshSources
  <2>1. lost' \subseteq Browsers
    BY <1>5, OverlooksType DEF InstallSources, RefreshSources, Overtakes
  <2>2. CASE InstallSources
    <3>1. \A b \in Browsers : \A p, q \in Policies : Relabelled(b, p, q) \in Process
      BY <1>b DEF Relabelled, WorldTyped, Process
    <3>2. proc' \in [Browsers -> Process]
      BY <1>b, <2>2, <3>1 DEF InstallSources, WorldTyped, Policies
    <3>3. file' \in [Browsers -> Policies]
      BY <2>2 DEF InstallSources, Policies
    <3>4. QED
      BY <1>b, <2>1, <2>2, <3>2, <3>3 DEF InstallSources, WorldTyped
  <2>3. CASE RefreshSources
    <3>1. PICK f \in Policies, q \in Policies :
            /\ file' = [file EXCEPT !["firefox"] = f]
            /\ proc' = [proc EXCEPT !["firefox"].pol = q]
      <4>1. file["firefox"] \in Policies /\ proc["firefox"].pol \in Policies
        BY <1>b DEF WorldTyped, Browsers, Process
      <4>2. QED
        BY <1>b, <2>3, <4>1 DEF RefreshSources, Policies
    <3>2. file' \in [Browsers -> Policies] /\ proc' \in [Browsers -> Process]
      BY <1>b, <3>1 DEF WorldTyped, Process
    <3>3. QED
      BY <1>b, <2>1, <2>3, <3>2 DEF RefreshSources, WorldTyped
  <2>4. QED
    BY <1>5, <2>2, <2>3
<1>6. QED
  BY <1>2, <1>3, <1>4, <1>5 DEF User

\* Every variable of the browser sync keeps its type: the ages and what the
\* bounds count stay within them, whatever the durations are.
THEOREM BrowserTyped == Spec => []TypeOK
<1>1. TypeOK /\ [Next]_vars => TypeOK'
  <2> SUFFICES ASSUME TypeOK, [Next]_vars PROVE TypeOK'
    OBVIOUS
  <2>1. CASE Daemon \/ Kill \/ SlowHelper \/ Challenge
    BY <2>1, TypeProcess, TypeSync, TypeDrift, TypeSwap, TypeClose, TypePause
       DEF Daemon, Challenge
  <2>2. CASE User
    BY <2>2, TypeUser
  <2>3. CASE UNCHANGED vars
    BY <2>3 DEF vars, TypeOK
  <2>4. QED
    BY <2>1, <2>2, <2>3 DEF Next
<1>2. QED
  BY <1>1, InitType, PTL DEF Spec
-----------------------------------------------------------------------------
(***************************************************************************)
(* The cooldown of Vivaldi.  The stamp is written a step after the restart *)
(* it is for, if the process lives to write it.                            *)
(***************************************************************************)
SpacedInv == clock.age <= gap.ago \/ gap.bare \/ pc \in {"touch", "driftTouch"}

\* A step that makes the stamp and the last restart older alike.
Aging ==
  /\ gap.bare => gap'.bare
  /\ clock.age <= gap.ago => clock'.age <= gap'.ago

LEMMA ElapseAges ==
  ASSUME TypeOK, NEW n \in Nat, Elapse(n)
  PROVE  Aging
BY ClockFacts DEF Elapse, After, AtMost, Aging, Gap, Clock

LEMMA StopAges ==
  ASSUME TypeOK, NEW b \in Browsers, NEW o, TermAndWait(b, o)
  PROVE  Aging
BY StopType, ElapseAges DEF TermAndWait

LEMMA EndAges ==
  ASSUME TypeOK, EndProcess
  PROVE  Aging /\ (pc \in {"touch", "driftTouch"} => gap'.bare)
BY ClockFacts DEF EndProcess, Aging, Gap, Clock

LEMMA AgingStep ==
  ASSUME TypeOK, [Next]_vars,
         ~(Launch \/ DriftLaunch \/ SwapLaunch \/ CloseLaunch \/ Touch)
  PROVE  Aging
<1>0. loc.b \in Browsers /\ {"firefox", "vivaldi"} \subseteq Browsers
  BY DEF TypeOK, Local, Browsers
<1>1. NoTime \/ UNCHANGED <<clock, gap>> => Aging
  BY DEF Aging, NoTime
<1>2. CASE SlowHelper \/ PollTick
  BY <1>2, ElapseAges DEF SlowHelper, PollTick
<1>3. CASE Grant
  BY <1>3, ClockFacts DEF Grant, Aging, Clock
<1>4. CASE Kill \/ RuntimeMax \/ ExitCycle
  BY <1>4, EndAges DEF Kill, RuntimeMax, ExitCycle
<1>5. CASE AddonDisabled \/ Restart \/ DriftRunning \/ SwapTerm \/ CloseTerm
  BY <1>0, <1>1, <1>5, StopAges DEF AddonDisabled, Restart, DriftRunning, SwapTerm, CloseTerm
<1>6. CASE User \/ UNCHANGED vars
  BY <1>1, <1>6 DEF vars, User, Outside, StartBrowser, Appear, CloseBrowser, DisableAddon,
     EditRules, DisableSet, InstallSources, RefreshSources
<1>7. CASE \/ StartCycle \/ AddonActive \/ AddonWrite \/ Compare \/ Extension \/ NoRestart
           \/ AlreadyKilled \/ DriftIgnored \/ DriftStopped \/ DriftSync
  BY <1>1, <1>7 DEF StartCycle, AddonActive, AddonWrite, Compare, Extension, NoRestart,
     AlreadyKilled, DriftIgnored, DriftStopped, DriftSync
<1>8. CASE \/ SwapCopy \/ CloseCopy \/ CloseSets \/ CloseRules
           \/ Save \/ CloseWindow \/ StartChallenge \/ FailChallenge
  BY <1>1, <1>8 DEF SwapCopy, CloseCopy, CloseSets, CloseRules, Save, CloseWindow,
     StartChallenge, FailChallenge
<1>9. QED
  BY <1>2, <1>3, <1>4, <1>5, <1>6, <1>7, <1>8 DEF Next, Daemon, Challenge

\* Only the stamp, or the end of the process, leaves the place of the stamp.
LEMMA AtStamp ==
  ASSUME TypeOK, [Next]_vars, pc \in {"touch", "driftTouch"}
  PROVE  pc' = pc \/ Touch \/ EndProcess
<1>1. CASE Kill \/ RuntimeMax \/ ExitCycle
  BY <1>1 DEF Kill, RuntimeMax, ExitCycle
<1>2. CASE SlowHelper \/ User \/ UNCHANGED vars
  BY <1>2 DEF SlowHelper, vars, User, Outside, StartBrowser, Appear, CloseBrowser, DisableAddon,
     EditRules, DisableSet, InstallSources, RefreshSources
<1>3. ~(\/ StartCycle \/ AddonActive \/ AddonDisabled \/ AddonWrite \/ Compare \/ Extension
        \/ NoRestart \/ AlreadyKilled \/ Restart \/ Launch
        \/ DriftIgnored \/ DriftStopped \/ DriftRunning \/ DriftSync \/ DriftLaunch)
  BY DEF StartCycle, AddonActive, AddonDisabled, AddonWrite, Compare, Extension, NoRestart,
     AlreadyKilled, Restart, Launch, DriftIgnored, DriftStopped, DriftRunning, DriftSync,
     DriftLaunch, Step
<1>4. ~(\/ SwapCopy \/ SwapTerm \/ SwapLaunch
        \/ CloseTerm \/ CloseCopy \/ CloseSets \/ CloseRules \/ CloseLaunch
        \/ PollTick \/ Save \/ CloseWindow \/ Challenge)
  BY DEF SwapCopy, SwapTerm, SwapLaunch, CloseTerm, CloseCopy, CloseSets, CloseRules,
     CloseLaunch, PollTick, Save, CloseWindow, Challenge, StartChallenge, FailChallenge, Grant,
     Poll, Step
<1>5. QED
  BY <1>1, <1>2, <1>3, <1>4 DEF Next, Daemon

LEMMA SpacedStep ==
  ASSUME TypeOK, SpacedInv, [Next]_vars
  PROVE  SpacedInv'
<1>0. loc.b \in {"firefox", "vivaldi"}
  BY DEF TypeOK, Local, Browsers
<1>1. CASE Touch
  <2>1. clock'.age = 0 /\ gap' = gap
    BY <1>1, ClockFacts DEF Touch, Clock
  <2>2. QED
    BY <2>1, ClockFacts DEF SpacedInv
<1>2. CASE Launch \/ DriftLaunch
  <2>1. \/ pc' \in {"touch", "driftTouch"}
        \/ pc \notin {"touch", "driftTouch"} /\ UNCHANGED <<clock, gap>>
    BY <1>0, <1>2 DEF Launch, DriftLaunch, Restarted, Step
  <2>2. QED
    BY <2>1 DEF SpacedInv
<1>3. CASE SwapLaunch \/ CloseLaunch
  <2>1. pc \notin {"touch", "driftTouch"}
    BY <1>3 DEF SwapLaunch, CloseLaunch
  <2>2. gap'.bare \/ UNCHANGED <<clock, gap>>
    BY <1>3 DEF SwapLaunch, CloseLaunch, Relaunch, Restarted, NoTime
  <2>3. QED
    BY <2>1, <2>2 DEF SpacedInv
<1>4. CASE ~(Launch \/ DriftLaunch \/ SwapLaunch \/ CloseLaunch \/ Touch)
  <2>1. Aging
    BY <1>4, AgingStep
  <2>2. pc \in {"touch", "driftTouch"} => pc' = pc \/ gap'.bare
    BY <1>4, AtStamp, EndAges
  <2>3. QED
    BY <2>1, <2>2 DEF Aging, SpacedInv
<1>5. QED
  BY <1>1, <1>2, <1>3, <1>4

LEMMA SpacedInvariant == Spec => []SpacedInv
<1>1. Init => SpacedInv
  BY ConstantsAssumption DEF Init, SpacedInv
<1>2. TypeOK /\ SpacedInv /\ [Next]_vars => SpacedInv'
  BY SpacedStep
<1>3. QED
  BY <1>1, <1>2, BrowserTyped, PTL DEF Spec

\* A disabled extension or drifted rules restart Vivaldi within the cooldown of
\* its last restart only if that one left no stamp, whatever the durations are,
\* wherever cycles are ended, and whoever else starts and ends Vivaldi.
THEOREM RestartsSpacedHolds == Spec => RestartsSpaced
<1>1. TypeOK /\ SpacedInv /\ [Next]_vars =>
        [RestartForReason => gap.ago = VV_RESTART_COOLDOWN \/ gap.bare]_vars
  <2> SUFFICES ASSUME TypeOK, SpacedInv, [Next]_vars, vars' # vars, RestartForReason
               PROVE  gap.ago = VV_RESTART_COOLDOWN \/ gap.bare
    OBVIOUS
  <2>0. \/ pc = "extension" /\ ~loc.restart /\ loc'.restart
        \/ pc = "drift" /\ pc' = "driftSync"
    BY DEF RestartForReason
  <2>1. CooledDown
    <3>1. Idle.restart = FALSE
      BY DEF Idle
    <3>2. Extension \/ DriftRunning
      <4>1. ~(UNCHANGED <<pc, loc>>)
        BY <2>0
      <4>2. ~(SlowHelper \/ User)
        BY <4>1 DEF SlowHelper, User, Outside, StartBrowser, Appear, CloseBrowser, DisableAddon,
           EditRules, DisableSet, InstallSources, RefreshSources
      <4>3. ~(Kill \/ RuntimeMax \/ ExitCycle \/ StartCycle)
        BY <2>0, <3>1 DEF Kill, RuntimeMax, ExitCycle, StartCycle, EndProcess
      <4>4. ~(\/ AddonActive \/ AddonDisabled \/ AddonWrite \/ Compare \/ NoRestart
              \/ AlreadyKilled \/ Restart \/ Launch \/ Touch \/ DriftIgnored \/ DriftStopped
              \/ DriftSync \/ DriftLaunch)
        BY <2>0 DEF AddonActive, AddonDisabled, AddonWrite, Compare, NoRestart, AlreadyKilled,
           Restart, Launch, Touch, DriftIgnored, DriftStopped, DriftSync, DriftLaunch, Step
      <4>5. ~(\/ SwapCopy \/ SwapTerm \/ SwapLaunch
              \/ CloseTerm \/ CloseCopy \/ CloseSets \/ CloseRules \/ CloseLaunch
              \/ PollTick \/ Save \/ CloseWindow \/ Challenge)
        BY <2>0 DEF SwapCopy, SwapTerm, SwapLaunch, CloseTerm, CloseCopy, CloseSets, CloseRules,
           CloseLaunch, PollTick, Save, CloseWindow, Challenge, StartChallenge, FailChallenge,
           Grant, Poll, Step
      <4>6. QED
        BY <4>2, <4>3, <4>4, <4>5 DEF Next, Daemon
    <3>3. CASE Extension
      <4>1. loc' = [loc EXCEPT !.restart = @ \/ (~vvAddon /\ CooledDown)] /\ loc \in Local
        BY <3>3 DEF Extension, TypeOK
      <4>2. pc = "extension" /\ ~loc.restart
        BY <2>0, <3>3 DEF Extension, Step
      <4>3. loc'.restart = (loc.restart \/ (~vvAddon /\ CooledDown))
        BY <4>1 DEF Local
      <4>4. QED
        BY <2>0, <4>2, <4>3
    <3>4. QED
      BY <3>2, <3>3 DEF DriftRunning
  <2>2. clock.age <= gap.ago \/ gap.bare
    BY <2>0 DEF SpacedInv
  <2>3. QED
    BY <2>1, <2>2, ClockFacts DEF CooledDown
<1>2. QED
  BY <1>1, BrowserTyped, SpacedInvariant, PTL DEF Spec, RestartsSpaced
-----------------------------------------------------------------------------
(***************************************************************************)
(* What a step does to a browser, its policy file and its mark.            *)
(***************************************************************************)
LEMMA LostStep ==
  ASSUME [Next]_vars, NEW b \in lost, proc'[b].st = "up", proc'[b].pol # "blocking",
         TypeOK
  PROVE  b \in lost'
<1>0. b \in Browsers
  BY DEF TypeOK
<1>1. (lost' = lost \/ \E bs : Overlooks(bs)) => b \in lost'
  BY <1>0 DEF Overlooks
<1>2. SUFFICES lost' = lost \/ \E bs : Overlooks(bs)
  BY <1>1
<1> USE DEF browsers
<1>3. EndProcess => \E bs : Overlooks(bs)
  BY DEF EndProcess
<1>4. CASE Kill \/ RuntimeMax \/ ExitCycle
  BY <1>3, <1>4 DEF Kill, RuntimeMax, ExitCycle
<1>5. CASE AddonDisabled \/ Restart \/ DriftRunning \/ CloseTerm \/ SwapTerm
  BY <1>5 DEF AddonDisabled, Restart, DriftRunning, CloseTerm, SwapTerm, TermAndWait
<1>6. CASE Launch \/ DriftLaunch \/ SwapLaunch \/ CloseLaunch
  BY <1>6 DEF Launch, DriftLaunch, SwapLaunch, CloseLaunch, Relaunch, Starts
<1>7. CASE User
  <2>1. Overtakes => \E bs : Overlooks(bs)
    BY DEF Overtakes
  <2>2. CASE \E x \in Browsers : StartBrowser(x) \/ Appear(x) \/ CloseBrowser(x)
    BY <2>2 DEF StartBrowser, Appear, CloseBrowser, Starts
  <2>3. CASE DisableAddon \/ EditRules \/ DisableSet \/ InstallSources \/ RefreshSources
    BY <2>1, <2>3 DEF DisableAddon, EditRules, DisableSet, InstallSources, RefreshSources
  <2>4. QED
    BY <1>7, <2>2, <2>3 DEF User
<1>8. CASE \/ SlowHelper \/ StartCycle \/ AddonActive \/ AddonWrite \/ Compare \/ Extension
           \/ NoRestart \/ AlreadyKilled \/ Touch \/ DriftIgnored \/ DriftStopped \/ DriftSync
           \/ UNCHANGED vars
  BY <1>8 DEF SlowHelper, StartCycle, AddonActive, AddonWrite, Compare, Extension, NoRestart,
     AlreadyKilled, Touch, DriftIgnored, DriftStopped, DriftSync, vars
<1>9. CASE \/ SwapCopy \/ CloseCopy \/ CloseSets \/ CloseRules \/ PollTick \/ CloseWindow
           \/ Save \/ Challenge
  BY <1>9 DEF SwapCopy, CloseCopy, CloseSets, CloseRules, PollTick, CloseWindow, Save, Challenge,
     StartChallenge, FailChallenge, Grant
<1>10. QED
  BY <1>4, <1>5, <1>6, <1>7, <1>8, <1>9 DEF Next, Daemon

\* A browser has just read its file, and is marked where nobody may notice.
Loads(b) ==
  /\ proc'[b].pol = file[b]
  /\ Unnoticed /\ file[b] # "blocking" => b \in lost'

LEMMA StartsLoads ==
  ASSUME TypeOK, NEW x \in Browsers, NEW own, Starts(x, own), NEW b \in Browsers
  PROVE  proc'[b] = proc[b] \/ proc'[b].st # "up" \/ Loads(b)
<1>0. proc' = [proc EXCEPT ![x] = Launched(x, own)] /\ proc \in [Browsers -> Process]
  BY DEF Starts, TypeOK
<1>1. CASE b # x
  BY <1>0, <1>1
<1>2. CASE b = x
  <2>1. proc'[b] = Launched(b, own)
    BY <1>0, <1>2
  <2>2. CASE Launched(b, own) = proc[b]
    BY <2>1, <2>2
  <2>3. CASE Launched(b, own) = [Down EXCEPT !.st = "starting", !.own = own]
    BY <2>1, <2>3 DEF Down
  <2>4. CASE Launched(b, own) = Loaded(b, own)
    BY <1>2, <2>1, <2>4 DEF Loads, Loaded, Starts, Overlooks
  <2>5. QED
    BY <2>2, <2>3, <2>4, ConstantsAssumption DEF Launched
<1>3. QED
  BY <1>1, <1>2

\* A browser that was told to end has ended, or is marked.
LEMMA StopMarks ==
  ASSUME TypeOK, NEW x \in Browsers, NEW o, TermAndWait(x, o)
  PROVE  /\ o.gone => proc'[x].st # "up"
         /\ ~o.gone /\ proc'[x].st = "up" /\ proc'[x].pol # "blocking" => x \in lost'
         /\ proc'[x] = proc[x] \/ proc'[x].st # "up" \/ proc'[x] = Loaded(x, FALSE)
         /\ \A b \in Browsers \ {x} : proc'[b] = proc[b]
<1>0. proc' = [proc EXCEPT ![x] = o.proc] /\ proc \in [Browsers -> Process] /\ o \in Outcomes(x)
  BY DEF TermAndWait, TypeOK
<1>1. /\ o.gone => o.proc.st # "up"
      /\ o.proc = proc[x] \/ o.proc.st # "up" \/ o.proc = Loaded(x, FALSE)
  <2>1. CASE ~Running(x)
    <3>1. o.proc = proc[x]
      BY <1>0, <2>1 DEF Outcomes
    <3>2. QED
      BY <2>1, <3>1 DEF Running
  <2>2. CASE Running(x)
    <3>1. CASE o = [gone |-> TRUE, proc |-> Down, took |-> 0]
      BY <3>1 DEF Down
    <3>2. ASSUME NEW n \in {0, TERM}, o = [gone |-> FALSE, proc |-> proc[x], took |-> n]
          PROVE  o.gone = FALSE /\ o.proc = proc[x]
      BY <3>2
    <3>3. CASE o = [gone |-> FALSE, proc |-> Loaded(x, FALSE), took |-> TERM]
      BY <3>3
    <3>4. QED
      BY <1>0, <2>2, <3>1, <3>2, <3>3 DEF Outcomes
  <2>3. QED
    BY <2>1, <2>2
<1>2. ~o.gone /\ proc'[x].st = "up" /\ proc'[x].pol # "blocking" => x \in lost'
  BY DEF TermAndWait, Overlooks
<1>3. QED
  BY <1>0, <1>1, <1>2

\* update.sh and its runner apart, a browser is as it was, is not up, or has
\* just read its file.
LEMMA ProcStep ==
  ASSUME TypeOK, [Next]_vars, ~InstallSources, ~RefreshSources, NEW b \in Browsers
  PROVE  proc'[b] = proc[b] \/ proc'[b].st # "up" \/ Loads(b)
<1>0. loc.b \in Browsers /\ {"firefox", "vivaldi"} \subseteq Browsers
      /\ proc \in [Browsers -> Process]
  BY DEF TypeOK, Local, Browsers
<1> USE DEF browsers
<1>1. CASE UNCHANGED proc
  BY <1>1
<1>2. CASE Kill \/ RuntimeMax \/ ExitCycle
  BY <1>2 DEF Kill, RuntimeMax, ExitCycle, EndProcess, Down
<1>3. CASE AddonDisabled \/ Restart \/ DriftRunning \/ CloseTerm \/ SwapTerm
  <2>1. UNCHANGED proc \/ \E x \in Browsers : \E o : TermAndWait(x, o)
    BY <1>0, <1>3 DEF AddonDisabled, Restart, DriftRunning, CloseTerm, SwapTerm
  <2>2. ASSUME NEW x \in Browsers, NEW o, TermAndWait(x, o)
        PROVE  proc'[b] = proc[b] \/ proc'[b].st # "up" \/ Loads(b)
    <3>1. CASE b # x
      BY <2>2, <3>1, StopMarks
    <3>2. CASE b = x
      <4>1. CASE proc'[b] = Loaded(b, FALSE)
        <5>1. proc'[b].st = "up" /\ proc'[b].pol = file[b]
          BY <4>1 DEF Loaded
        <5>2. QED
          BY <2>2, <3>2, <5>1, StopMarks DEF Loads
      <4>2. QED
        BY <2>2, <3>2, <4>1, StopMarks
    <3>3. QED
      BY <3>1, <3>2
  <2>3. QED
    BY <2>1, <2>2
<1>4. CASE Launch \/ DriftLaunch \/ SwapLaunch \/ CloseLaunch
  <2>1. UNCHANGED proc \/ \E x \in Browsers : \E own : Starts(x, own)
    BY <1>0, <1>4 DEF Launch, DriftLaunch, SwapLaunch, CloseLaunch, Relaunch
  <2>2. QED
    BY <2>1, StartsLoads
<1>5. CASE User
  <2>1. CASE \E x \in Browsers : StartBrowser(x)
    BY <2>1, StartsLoads DEF StartBrowser
  <2>2. ASSUME NEW x \in Browsers, Appear(x)
        PROVE  proc'[b] = proc[b] \/ Loads(b)
    <3>1. CASE b # x
      BY <1>0, <2>2, <3>1 DEF Appear
    <3>2. CASE b = x
      <4>1. proc'[b] = Loaded(b, proc[b].own)
        BY <1>0, <2>2, <3>2 DEF Appear
      <4>2. proc'[b].st = "up" /\ proc'[b].pol = file[b]
        BY <4>1 DEF Loaded
      <4>3. QED
        BY <2>2, <3>2, <4>2 DEF Appear, Overlooks, Loads
    <3>3. QED
      BY <3>1, <3>2
  <2>3. CASE \E x \in Browsers : CloseBrowser(x)
    BY <1>0, <2>3 DEF CloseBrowser, Down
  <2>4. CASE DisableAddon \/ EditRules \/ DisableSet
    BY <2>4 DEF DisableAddon, EditRules, DisableSet
  <2>5. QED
    BY <1>5, <2>1, <2>2, <2>3, <2>4 DEF User
<1>6. CASE \/ SlowHelper \/ StartCycle \/ AddonActive \/ AddonWrite \/ Compare \/ Extension
           \/ NoRestart \/ AlreadyKilled \/ Touch \/ DriftIgnored \/ DriftStopped \/ DriftSync
  BY <1>6 DEF SlowHelper, StartCycle, AddonActive, AddonWrite, Compare, Extension, NoRestart,
     AlreadyKilled, Touch, DriftIgnored, DriftStopped, DriftSync
<1>7. CASE \/ SwapCopy \/ CloseCopy \/ CloseSets \/ CloseRules \/ PollTick \/ CloseWindow
           \/ Save \/ Challenge
  BY <1>7 DEF SwapCopy, CloseCopy, CloseSets, CloseRules, PollTick, CloseWindow, Save, Challenge,
     StartChallenge, FailChallenge, Grant
<1>8. QED
  BY <1>1, <1>2, <1>3, <1>4, <1>5, <1>6, <1>7 DEF Next, Daemon, vars

\* An update gives nobody the unblocked policies, and marks who is overtaken.
LEMMA UpdateStep ==
  ASSUME TypeOK, InstallSources \/ RefreshSources, NEW b \in Browsers
  PROVE  /\ UNCHANGED <<pc, loc, mem, disk, clock, spent, active>>
         /\ file'[b] = "unblocked" => file[b] = "unblocked"
         /\ proc'[b].st = proc[b].st
         /\ proc'[b].pol = "unblocked" => proc[b].pol = "unblocked"
         /\ (Unnoticed \/ file'[b] = "blocking") /\ Running(b)' /\ proc'[b].pol # "blocking"
              => b \in lost'
<1>0. proc[b] \in Process /\ proc \in [Browsers -> Process] /\ file \in [Browsers -> Policies]
      /\ b \in {"firefox", "vivaldi"} /\ "firefox" \in Browsers
  BY DEF TypeOK, Browsers
<1>1. UNCHANGED <<pc, loc, mem, disk, clock, spent, active>>
  BY DEF InstallSources, RefreshSources, Outside, leech
<1>2. (Unnoticed \/ file'[b] = "blocking") /\ Running(b)' /\ proc'[b].pol # "blocking"
        => b \in lost'
  BY DEF InstallSources, RefreshSources, Overtakes, Overlooks, Running
<1>3. CASE InstallSources
  <2>1. file'[b] # "unblocked"
    BY <1>3 DEF InstallSources
  <2>2. \/ proc'[b] = proc[b]
        \/ \E p \in {"new", "blocking"} : proc'[b] = Relabelled(b, p, "old")
    BY <1>3 DEF InstallSources
  <2>3. \A p \in {"new", "blocking"} :
          /\ Relabelled(b, p, "old").st = proc[b].st
          /\ Relabelled(b, p, "old").pol = "unblocked" => proc[b].pol = "unblocked"
    BY <1>0 DEF Relabelled, Process
  <2>4. QED
    BY <1>1, <1>2, <2>1, <2>2, <2>3
<1>4. CASE RefreshSources
  <2>1. PICK f, q : /\ file' = [file EXCEPT !["firefox"] = f]
                    /\ proc' = [proc EXCEPT !["firefox"].pol = q]
                    /\ f = "unblocked" => file["firefox"] = "unblocked"
                    /\ q = "unblocked" => proc["firefox"].pol = "unblocked"
    <3>1. file["firefox"] \in Policies /\ proc["firefox"].pol \in Policies
      BY <1>0 DEF Process
    <3> DEFINE Renewed(p) == CASE p = "blocking" -> "old" [] p = "new" -> "blocking"
                               [] p \in {"old", "unblocked"} -> p
    <3>2. \A p \in Policies : Renewed(p) = "unblocked" => p = "unblocked"
      BY DEF Policies
    <3>3. /\ file' = [file EXCEPT !["firefox"] = Renewed(file["firefox"])]
          /\ proc' = [proc EXCEPT !["firefox"].pol = Renewed(proc["firefox"].pol)]
      BY <1>4 DEF RefreshSources
    <3> HIDE DEF Renewed
    <3> WITNESS Renewed(file["firefox"]), Renewed(proc["firefox"].pol)
    <3>4. QED
      BY <3>1, <3>2, <3>3
  <2>2. CASE b = "firefox"
    BY <1>0, <1>1, <1>2, <2>1, <2>2 DEF Process
  <2>3. CASE b # "firefox"
    BY <1>0, <1>1, <1>2, <2>1, <2>3
  <2>4. QED
    BY <2>2, <2>3
<1>5. QED
  BY <1>3, <1>4

\* Only swap_unblocked puts the unblocked policies in place.
LEMMA FileStep ==
  ASSUME TypeOK, [Next]_vars, ~SwapCopy, NEW b \in Browsers, file'[b] = "unblocked"
  PROVE  file[b] = "unblocked"
<1>1. CASE Compare \/ CloseCopy
  BY <1>1 DEF Compare, CloseCopy, TypeOK
<1>2. CASE InstallSources \/ RefreshSources
  BY <1>2, UpdateStep
<1>3. CASE \/ Kill \/ RuntimeMax \/ ExitCycle \/ SlowHelper \/ StartCycle
           \/ UNCHANGED vars
  BY <1>3 DEF Kill, RuntimeMax, ExitCycle, EndProcess, SlowHelper, StartCycle, vars
<1>4. CASE \/ AddonActive \/ AddonDisabled \/ AddonWrite \/ Extension
           \/ NoRestart \/ AlreadyKilled \/ Restart \/ Launch \/ Touch
           \/ DriftIgnored \/ DriftStopped \/ DriftRunning \/ DriftSync \/ DriftLaunch
  BY <1>4 DEF AddonActive, AddonDisabled, AddonWrite, Extension, NoRestart, AlreadyKilled,
     Restart, Launch, Touch, DriftIgnored, DriftStopped, DriftRunning, DriftSync, DriftLaunch
<1>5. CASE \/ SwapTerm \/ SwapLaunch \/ CloseTerm \/ CloseSets \/ CloseRules \/ CloseLaunch
           \/ PollTick \/ CloseWindow \/ Save \/ Challenge
  BY <1>5 DEF SwapTerm, SwapLaunch, CloseTerm, CloseSets, CloseRules, CloseLaunch, PollTick,
     CloseWindow, Save, Challenge, StartChallenge, FailChallenge, Grant
<1>6. CASE User
  BY <1>2, <1>6 DEF User, StartBrowser, Appear, CloseBrowser, DisableAddon, EditRules, DisableSet
<1>7. QED
  BY <1>1, <1>3, <1>4, <1>5, <1>6 DEF Next, Daemon
-----------------------------------------------------------------------------
(***************************************************************************)
(* What a browser keeps once it has it.                                    *)
(***************************************************************************)
\* It neither runs nor would start unblocked.
Secure(b) == file[b] # "unblocked" /\ (Running(b) => proc[b].pol # "unblocked")

\* The same, but for a browser that is marked.
Guarded(b) ==
  file[b] # "unblocked" /\ (Running(b) /\ proc[b].pol = "unblocked" => b \in lost)

\* It runs with the current policies, or is marked.
Kept(b) == Running(b) => proc[b].pol = "blocking" \/ b \in lost

LEMMA SecureStays ==
  ASSUME TypeOK, [Next]_vars, ~SwapCopy, NEW b \in Browsers, Secure(b)
  PROVE  Secure(b)'
<1>1. file'[b] # "unblocked"
  BY FileStep DEF Secure
<1>2. proc'[b].st = "up" => proc'[b].pol # "unblocked"
  BY ProcStep, UpdateStep DEF Secure, Running, Loads
<1>3. QED
  BY <1>1, <1>2 DEF Secure, Running

LEMMA GuardedStays ==
  ASSUME TypeOK, [Next]_vars, ~SwapCopy, NEW b \in Browsers, Guarded(b)
  PROVE  Guarded(b)'
<1>1. file'[b] # "unblocked"
  BY FileStep DEF Guarded
<1>2. ASSUME proc'[b].st = "up", proc'[b].pol = "unblocked" PROVE b \in lost'
  <2>1. Running(b) /\ proc[b].pol = "unblocked"
    BY <1>2, ProcStep, UpdateStep DEF Guarded, Running, Loads
  <2>2. QED
    BY <1>2, <2>1, LostStep DEF Guarded
<1>3. QED
  BY <1>1, <1>2 DEF Guarded, Running

LEMMA KeptStays ==
  ASSUME TypeOK, [Next]_vars, NEW b \in Browsers, Kept(b),
         Unnoticed \/ (file[b] = "blocking" /\ file'[b] = "blocking")
  PROVE  Kept(b)'
<1>1. SUFFICES ASSUME proc'[b].st = "up", proc'[b].pol # "blocking" PROVE b \in lost'
  BY DEF Kept, Running
<1>2. CASE InstallSources \/ RefreshSources
  BY <1>1, <1>2, UpdateStep DEF Running
<1>3. CASE ~InstallSources /\ ~RefreshSources
  <2>1. proc'[b] = proc[b] \/ Loads(b)
    BY <1>1, <1>3, ProcStep
  <2>2. CASE proc'[b] = proc[b]
    BY <1>1, <2>2, LostStep DEF Kept, Running
  <2>3. CASE Loads(b)
    BY <1>1, <2>3 DEF Loads
  <2>4. QED
    BY <2>1, <2>2, <2>3
<1>4. QED
  BY <1>2, <1>3
-----------------------------------------------------------------------------
(***************************************************************************)
(* The policies after a sync.  That a copied file has yet to be loaded is  *)
(* kept in the local variables until the browser is stopped (RestartDue);  *)
(* whoever misses that is marked.                                          *)
(***************************************************************************)
Settled(b) == Kept(b) /\ file[b] # "unblocked"

\* The sync is through with this browser.
HandledBySync(b) ==
  \/ pc \in {"touch", "drift", "driftSync", "driftLaunch", "driftTouch"}
  \/ b = "firefox" /\ pc \in SyncPC /\ loc.b = "vivaldi"

\* swap_blocking has put the blocking policies of this browser in place.
HandledByClose(b) ==
  \/ pc \in {"closeRules", "closeLaunch"}
  \/ b = "firefox" /\ \/ pc = "closeSets"
                      \/ pc \in {"closeTerm", "closeCopy"} /\ loc.b = "vivaldi"

\* Where the blocking file is, it is loaded, unless the restart is due.
FilesLoaded == \A b \in Browsers : file[b] = "blocking" /\ ~RestartDue(b) => Kept(b)

\* What the locals say of the browser at hand, on the way to its restart.
SectionInv ==
  /\ pc \in {"addon", "addonWrite"} => loc.b = "firefox"
  /\ pc = "extension" => loc.b = "vivaldi"
  /\ pc \in SyncPC /\ loc.b = "vivaldi" => ~loc.killed
  /\ pc \in {"addon", "addonWrite", "compare"} /\ loc.b = "firefox" =>
       (~loc.was["firefox"] \/ loc.killed => Kept("firefox"))
  /\ pc \in {"extension", "restart"} =>
       file[loc.b] # "unblocked" /\ (~RestartDue(loc.b) => Kept(loc.b))
  /\ pc = "launch" => Settled(loc.b)
  /\ \A b \in Browsers : HandledBySync(b) => Settled(b)

ClosedInv ==
  /\ pc = "closeCopy" => Kept(loc.b)
  /\ \A b \in Browsers : HandledByClose(b) => Guarded(b)

\* What loc.synced says.
SyncedInv ==
  /\ pc \in SwapPC => ~loc.synced
  /\ pc \in {"poll", "save"} /\ loc.synced /\ mem.phase # 2 => \A b \in Browsers : Guarded(b)

LoadedInv == FilesLoaded /\ SectionInv /\ ClosedInv /\ SyncedInv

LEMMA SettledStays ==
  ASSUME TypeOK, [Next]_vars, NEW b \in Browsers, Settled(b), Unnoticed
  PROVE  Settled(b)'
<1>1. ~SwapCopy
  BY DEF SwapCopy, Unnoticed, SyncPC
<1>2. QED
  BY <1>1, KeptStays, FileStep DEF Settled

LEMMA IntoSync ==
  ASSUME TypeOK, [Next]_vars, pc' \in SyncPC
  PROVE  \/ StartCycle
         \/ pc \in SyncPC /\ (\/ AddonActive \/ AddonDisabled \/ AddonWrite \/ Compare \/ Extension
                              \/ NoRestart \/ AlreadyKilled \/ Restart \/ Launch \/ Touch
                              \/ DriftRunning \/ DriftSync \/ DriftLaunch
                              \/ UNCHANGED <<pc, loc>>)
<1> USE DEF SyncPC
<1>1. ~(Kill \/ RuntimeMax \/ ExitCycle)
  BY DEF Kill, RuntimeMax, ExitCycle, EndProcess
<1>2. ~(SwapCopy \/ SwapTerm \/ SwapLaunch)
  BY DEF SwapCopy, SwapTerm, SwapLaunch, SwapDone, TypeOK, Local
<1>3. ~(DriftIgnored \/ DriftStopped \/ PollTick \/ CloseWindow \/ Save \/ Challenge)
  BY DEF DriftIgnored, DriftStopped, PollTick, CloseWindow, Save, Challenge, StartChallenge,
     FailChallenge, Grant, Poll
<1>4. ~(CloseTerm \/ CloseCopy \/ CloseSets \/ CloseRules \/ CloseLaunch)
  BY DEF CloseTerm, CloseCopy, CloseSets, CloseRules, CloseLaunch, Step
<1>5. CASE \/ AddonActive \/ AddonDisabled \/ AddonWrite \/ Compare \/ Extension
           \/ NoRestart \/ AlreadyKilled \/ Restart \/ Launch \/ Touch
           \/ DriftRunning \/ DriftSync \/ DriftLaunch
  BY <1>5 DEF AddonActive, AddonDisabled, AddonWrite, Compare, Extension, NoRestart, AlreadyKilled,
     Restart, Launch, Touch, DriftRunning, DriftSync, DriftLaunch, Step
<1>6. CASE SlowHelper \/ User \/ UNCHANGED vars
  BY <1>6 DEF SlowHelper, User, vars, Outside, StartBrowser, Appear, CloseBrowser,
     DisableAddon, EditRules, DisableSet, InstallSources, RefreshSources
<1>7. QED
  BY <1>1, <1>2, <1>3, <1>4, <1>5, <1>6 DEF Next, Daemon

LEMMA SectionStep ==
  ASSUME TypeOK, FilesLoaded, SectionInv, [Next]_vars
  PROVE  SectionInv'
<1>a. CASE pc' \notin SyncPC
  BY <1>a DEF SectionInv, HandledBySync, SyncPC
<1>b. CASE pc' \in SyncPC
  <2>0. /\ loc \in Local /\ loc.b \in Browsers /\ loc.b \in {"firefox", "vivaldi"}
        /\ "firefox" \in Browsers /\ "vivaldi" \in Browsers
        /\ proc \in [Browsers -> Process] /\ file \in [Browsers -> Policies]
    BY DEF TypeOK, Local, Browsers
  <2>a. PICK x \in Browsers : x = loc.b
    BY <2>0
  <2> USE DEF browsers
  <2>1. CASE StartCycle
    <3>1. pc' = "addon" /\ loc'.b = "firefox" /\ loc'.was["firefox"] = Running("firefox")
          /\ loc'.killed = FALSE /\ proc' = proc
      BY <1>b, <2>1 DEF StartCycle, TypeOK, PauseState, SyncPC, SwapPC, Idle, Browsers
    <3>2. ~Running("firefox") => Kept("firefox")'
      BY <3>1 DEF Kept, Running
    <3>3. QED
      BY <3>1, <3>2 DEF SectionInv, HandledBySync
  <2>2. CASE ~StartCycle
    <3>0. /\ pc \in SyncPC /\ Unnoticed
          /\ \/ AddonActive \/ AddonDisabled \/ AddonWrite \/ Compare \/ Extension
             \/ NoRestart \/ AlreadyKilled \/ Restart \/ Launch \/ Touch
             \/ DriftRunning \/ DriftSync \/ DriftLaunch
             \/ UNCHANGED <<pc, loc>>
      BY <1>b, <2>2, IntoSync DEF SyncPC, Unnoticed
    <3>a. \A b \in Browsers : /\ Kept(b) => Kept(b)'
                              /\ Settled(b) => Settled(b)'
      BY <3>0, KeptStays, SettledStays
    <3>b. \A b \in Browsers : file[b] # "unblocked" => file'[b] # "unblocked"
      <4>1. ~SwapCopy
        BY <3>0 DEF SwapCopy, SyncPC
      <4>2. QED
        BY <4>1, FileStep
    <3>1. CASE AddonActive \/ AddonWrite
      <4>1. pc \in {"addon", "addonWrite"} /\ pc' = "compare" /\ loc' = loc
        BY <3>1 DEF AddonActive, AddonWrite, Step
      <4>2. QED
        BY <2>0, <3>a, <4>1 DEF SectionInv, HandledBySync, SyncPC
    <3>2. CASE AddonDisabled
      <4>1. PICK o : /\ TermAndWait("firefox", o)
                     /\ loc' = [loc EXCEPT !.gone["firefox"] = o.gone, !.killed = TRUE,
                                           !.restart = TRUE]
        BY <3>2 DEF AddonDisabled
      <4>2. Kept("firefox")'
        BY <2>0, <4>1, StopMarks DEF Kept, Running
      <4>3. pc' = "addonWrite" /\ loc'.b = "firefox"
        BY <2>0, <3>2, <4>1 DEF AddonDisabled, Step, SectionInv, Local
      <4>4. QED
        BY <4>2, <4>3 DEF SectionInv, HandledBySync
    <3>3. CASE Compare
      <4>1. /\ pc = "compare" /\ proc' = proc /\ lost' = lost
            /\ file' = [file EXCEPT ![loc.b] = "blocking"] /\ file'[loc.b] = "blocking"
            /\ pc' = IF loc.b = "firefox" THEN "restart" ELSE "extension"
        BY <2>0, <2>a, <3>3 DEF Compare, Step
      <4>2. /\ loc'.b = loc.b /\ loc'.killed = loc.killed
            /\ loc'.restart = (loc.restart \/ file[loc.b] # "blocking")
            /\ loc'.was[loc.b] = IF loc.b = "vivaldi" THEN Running(loc.b) ELSE loc.was[loc.b]
        BY <2>0, <2>a, <3>3 DEF Compare, Local
      <4>3. Kept(x)' = Kept(x)
        BY <2>a, <4>1, <4>2 DEF Kept, Running
      <4>4. ASSUME ~RestartDue(x)' PROVE Kept(x)
        <5>1. ~loc'.restart \/ ~loc'.was[loc.b] \/ loc'.killed
          BY <2>a, <4>1, <4>2, <4>4 DEF RestartDue
        <5>2. CASE ~loc'.restart
          BY <2>0, <2>a, <4>1, <4>2, <5>2 DEF FilesLoaded, RestartDue
        <5>3. CASE loc.b = "firefox" /\ (~loc'.was[loc.b] \/ loc'.killed)
          BY <2>a, <4>1, <4>2, <5>3 DEF SectionInv
        <5>4. CASE loc.b = "vivaldi" /\ (~loc'.was[loc.b] \/ loc'.killed)
          BY <2>a, <3>0, <4>1, <4>2, <5>4 DEF SectionInv, Kept, Running
        <5>5. QED
          BY <2>0, <2>a, <5>1, <5>2, <5>3, <5>4
      <4>5. \A b \in Browsers : HandledBySync(b)' => Settled(b)'
        <5>1. SUFFICES ASSUME NEW b \in Browsers, HandledBySync(b)' PROVE Settled(b)'
          OBVIOUS
        <5>2. b = "firefox" /\ loc.b = "vivaldi"
          BY <4>1, <4>2, <5>1 DEF HandledBySync
        <5>3. Settled(b)
          BY <2>0, <2>a, <3>0, <5>2 DEF HandledBySync, SectionInv
        <5>4. QED
          BY <3>a, <5>3
      <4>6. QED
        <5>1. loc'.b = x /\ pc' \in {"restart", "extension"} /\ file'[x] = "blocking"
          BY <2>a, <4>1, <4>2
        <5>2. ~RestartDue(x)' => Kept(x)'
          BY <2>a, <4>3, <4>4
        <5>3. (pc' = "extension" => x = "vivaldi") /\ (x = "vivaldi" => ~loc'.killed)
          BY <2>0, <2>a, <3>0, <4>1, <4>2 DEF SectionInv
        <5>4. QED
          BY <4>5, <5>1, <5>2, <5>3 DEF SectionInv
    <3>4. CASE Extension
      <4>1. /\ pc = "extension" /\ pc' = "restart" /\ file' = file
        BY <3>4 DEF Extension, Step
      <4>2. /\ loc'.b = loc.b /\ loc'.killed = loc.killed /\ loc'.was = loc.was
            /\ loc.restart => loc'.restart
        BY <2>0, <2>a, <3>4 DEF Extension, Local
      <4>3. RestartDue(x) => RestartDue(x)'
        BY <2>a, <4>1, <4>2 DEF RestartDue
      <4>4. QED
        BY <2>0, <2>a, <3>0, <3>a, <4>1, <4>2, <4>3 DEF SectionInv, HandledBySync
    <3>5. CASE NoRestart \/ Launch \/ (Restart /\ pc' # "launch")
      <4>1. /\ pc \in {"restart", "launch"}
            /\ pc' = IF loc.b = "firefox" THEN "compare"
                     ELSE IF pc = "launch" THEN "touch" ELSE "drift"
            /\ loc' = NextBrowser(loc)
        <5>1. CASE NoRestart \/ Launch
          BY <5>1 DEF NoRestart, Launch, Step, AfterBrowser
        <5>2. CASE Restart /\ pc' # "launch"
          BY <5>2 DEF Restart, Step, AfterBrowser
        <5>3. QED
          BY <3>5, <5>1, <5>2
      <4>2. loc'.b = "vivaldi" /\ loc'.killed = FALSE
        BY <2>0, <2>a, <4>1 DEF NextBrowser, Local
      <4>3. Settled(x)'
        <5>1. CASE NoRestart
          <6>1. pc = "restart" /\ ~RestartDue(x)
            BY <2>a, <5>1 DEF NoRestart, Step, RestartDue
          <6>2. QED
            BY <2>0, <2>a, <3>a, <6>1 DEF SectionInv, Settled
        <5>2. CASE Launch
          BY <2>0, <2>a, <3>a, <5>2 DEF Launch, Step, SectionInv
        <5>3. CASE Restart /\ pc' # "launch"
          <6>1. PICK o : TermAndWait(x, o) /\ ~o.gone
            BY <2>a, <5>3 DEF Restart, Step
          <6>2. proc'[x].st = "up" /\ proc'[x].pol # "blocking" => x \in lost'
            BY <2>0, <2>a, <6>1, StopMarks
          <6>3. file'[x] # "unblocked"
            BY <2>0, <2>a, <3>b, <5>3 DEF Restart, Step, SectionInv
          <6>4. QED
            BY <6>2, <6>3 DEF Settled, Kept, Running
        <5>4. QED
          BY <3>5, <5>1, <5>2, <5>3
      <4>4. CASE loc.b = "firefox"
        BY <2>a, <4>1, <4>2, <4>3, <4>4 DEF SectionInv, HandledBySync
      <4>5. CASE loc.b = "vivaldi"
        <5>1. Settled("firefox")'
          BY <2>0, <2>a, <3>0, <3>a, <4>5 DEF SectionInv, HandledBySync
        <5>2. QED
          BY <2>a, <4>1, <4>2, <4>3, <4>5, <5>1 DEF SectionInv, HandledBySync, Browsers
      <4>6. QED
        BY <2>0, <2>a, <4>4, <4>5
    <3>6. CASE AlreadyKilled \/ (Restart /\ pc' = "launch")
      <4>1. pc = "restart" /\ pc' = "launch" /\ loc' = loc
        BY <3>6 DEF AlreadyKilled, Restart, Step, AfterBrowser
      <4>2. Settled(x)'
        <5>1. CASE AlreadyKilled
          <6>1. pc = "restart" /\ ~RestartDue(x)
            BY <2>a, <5>1 DEF AlreadyKilled, Step, RestartDue
          <6>2. QED
            BY <2>0, <2>a, <3>a, <6>1 DEF SectionInv, Settled
        <5>2. CASE Restart /\ pc' = "launch"
          <6>1. PICK o : TermAndWait(x, o) /\ o.gone
            BY <2>a, <5>2 DEF Restart, Step, AfterBrowser
          <6>2. proc'[x].st # "up"
            BY <2>0, <2>a, <6>1, StopMarks
          <6>3. file'[x] # "unblocked"
            BY <2>0, <2>a, <3>b, <4>1 DEF SectionInv
          <6>4. QED
            BY <6>2, <6>3 DEF Settled, Kept, Running
        <5>3. QED
          BY <3>6, <5>1, <5>2
      <4>3. QED
        BY <2>0, <2>a, <3>0, <3>a, <4>1, <4>2, <1>b DEF SectionInv, HandledBySync
    <3>7. CASE Touch \/ DriftRunning \/ DriftSync \/ DriftLaunch
      <4> DEFINE Late == {"touch", "drift", "driftSync", "driftLaunch", "driftTouch"}
      <4>1. pc \in Late /\ pc' \in Late /\ (loc' = loc \/ loc'.killed = FALSE)
        <5>1. CASE Touch
          BY <1>b, <2>a, <5>1 DEF Touch, Step, SyncPC
        <5>2. CASE DriftRunning
          BY <1>b, <2>a, <5>2 DEF DriftRunning, Step, SyncPC
        <5>3. CASE DriftSync \/ DriftLaunch
          BY <5>3 DEF DriftSync, DriftLaunch, Step
        <5>4. QED
          BY <3>7, <5>1, <5>2, <5>3
      <4>2. \A b \in Browsers : Settled(b)'
        BY <3>a, <4>1 DEF SectionInv, HandledBySync
      <4>3. QED
        BY <2>a, <3>0, <4>1, <4>2 DEF SectionInv
    <3>8. CASE UNCHANGED <<pc, loc>>
      <4>1. pc \in {"extension", "restart"} => RestartDue(x)' = RestartDue(x)
        BY <2>a, <3>8 DEF RestartDue
      <4>2. \A b \in Browsers : HandledBySync(b)' = HandledBySync(b)
        BY <3>8 DEF HandledBySync
      <4>3. QED
        BY <2>0, <2>a, <3>a, <3>b, <3>8, <4>1, <4>2 DEF SectionInv
    <3>9. QED
      BY <3>0, <3>1, <3>2, <3>3, <3>4, <3>5, <3>6, <3>7, <3>8
  <2>3. QED
    BY <2>1, <2>2
<1>c. QED
  BY <1>a, <1>b

\* The steps after which a browser has the current file that had not.
LEMMA FileCopied ==
  ASSUME TypeOK, [Next]_vars, NEW b \in Browsers, file[b] # "blocking", file'[b] = "blocking"
  PROVE  /\ Compare \/ CloseCopy \/ InstallSources \/ RefreshSources
         /\ Compare \/ CloseCopy => b = loc.b
<1>1. file' # file
  OBVIOUS
<1>2. ~(\/ Kill \/ RuntimeMax \/ ExitCycle \/ SlowHelper \/ StartCycle \/ UNCHANGED vars)
  BY <1>1 DEF Kill, RuntimeMax, ExitCycle, EndProcess, SlowHelper, StartCycle, vars
<1>3. ~(\/ AddonActive \/ AddonDisabled \/ AddonWrite \/ Extension
        \/ NoRestart \/ AlreadyKilled \/ Restart \/ Launch \/ Touch
        \/ DriftIgnored \/ DriftStopped \/ DriftRunning \/ DriftSync \/ DriftLaunch)
  BY <1>1 DEF AddonActive, AddonDisabled, AddonWrite, Extension, NoRestart, AlreadyKilled,
     Restart, Launch, Touch, DriftIgnored, DriftStopped, DriftRunning, DriftSync, DriftLaunch
<1>4. ~(\/ SwapTerm \/ SwapLaunch \/ CloseTerm \/ CloseSets \/ CloseRules \/ CloseLaunch
        \/ PollTick \/ CloseWindow \/ Save \/ Challenge)
  BY <1>1 DEF SwapTerm, SwapLaunch, CloseTerm, CloseSets, CloseRules, CloseLaunch, PollTick,
     CloseWindow, Save, Challenge, StartChallenge, FailChallenge, Grant
<1>5. ~(\E x \in Browsers : StartBrowser(x) \/ Appear(x) \/ CloseBrowser(x))
      /\ ~(DisableAddon \/ EditRules \/ DisableSet)
  BY <1>1 DEF StartBrowser, Appear, CloseBrowser, DisableAddon, EditRules, DisableSet
<1>6. ~SwapCopy
  BY DEF SwapCopy, TypeOK
<1>7. Compare \/ CloseCopy => b = loc.b
  BY DEF Compare, CloseCopy, TypeOK
<1>8. QED
  BY <1>2, <1>3, <1>4, <1>5, <1>6, <1>7 DEF Next, Daemon, User

LEMMA FilesStep ==
  ASSUME TypeOK, LoadedInv, [Next]_vars
  PROVE  FilesLoaded'
<1> SUFFICES ASSUME NEW b \in Browsers, file'[b] = "blocking", ~RestartDue(b)'
             PROVE  Kept(b)'
  BY DEF FilesLoaded
<1>0. /\ loc \in Local /\ loc.b \in Browsers /\ loc.b \in {"firefox", "vivaldi"}
      /\ proc \in [Browsers -> Process] /\ file \in [Browsers -> Policies]
      /\ FilesLoaded /\ SectionInv /\ ClosedInv
  BY DEF TypeOK, Local, Browsers, LoadedInv
<1> USE DEF browsers
<1>1. CASE file[b] = "blocking" /\ ~RestartDue(b)
  BY <1>0, <1>1, KeptStays DEF FilesLoaded
<1>2. CASE file[b] # "blocking"
  <2>1. CASE InstallSources \/ RefreshSources
    BY <2>1, UpdateStep DEF Kept, Running
  <2>2. CASE Compare
    <3>1. b = loc.b /\ UNCHANGED <<proc, lost>>
      BY <1>2, <2>2, FileCopied DEF Compare
    <3>2. /\ pc = "compare" /\ pc' \in {"extension", "restart"}
          /\ loc'.b = b /\ loc'.restart /\ loc'.killed = loc.killed
          /\ loc'.was[b] = IF b = "vivaldi" THEN Running(b) ELSE loc.was[b]
      BY <1>0, <1>2, <2>2, <3>1 DEF Compare, Step, Local
    <3>3. ~loc'.was[b] \/ loc'.killed
      BY <3>2 DEF RestartDue
    <3>4. CASE b = "firefox"
      BY <1>0, <3>1, <3>2, <3>3, <3>4 DEF SectionInv, Kept, Running
    <3>5. CASE b = "vivaldi"
      <4>1. ~loc.killed
        BY <1>0, <3>1, <3>2, <3>5 DEF SectionInv, SyncPC
      <4>2. QED
        BY <3>1, <3>2, <3>3, <3>5, <4>1 DEF Kept, Running
    <3>6. QED
      BY <1>0, <3>1, <3>4, <3>5
  <2>3. CASE CloseCopy
    <3>1. b = loc.b /\ UNCHANGED <<proc, lost>> /\ pc = "closeCopy"
      BY <1>2, <2>3, FileCopied DEF CloseCopy, Step
    <3>2. QED
      BY <1>0, <3>1 DEF ClosedInv, Kept, Running
  <2>4. QED
    BY <1>2, <2>1, <2>2, <2>3, FileCopied
<1>3. CASE RestartDue(b)
  <2>0. pc \in {"extension", "restart"} /\ b = loc.b /\ loc.restart /\ loc.was[b] /\ ~loc.killed
    BY <1>3 DEF RestartDue
  <2>1. ASSUME UNCHANGED <<pc, loc>> PROVE FALSE
    BY <1>3, <2>1 DEF RestartDue
  <2>2. CASE Kill \/ RuntimeMax \/ ExitCycle
    BY <1>3, <2>2 DEF Kill, RuntimeMax, ExitCycle, EndProcess, Overlooks, Kept, Running
  <2>3. ~(SlowHelper \/ User \/ UNCHANGED vars)
    BY <2>1 DEF SlowHelper, User, vars, Outside, StartBrowser, Appear, CloseBrowser,
       DisableAddon, EditRules, DisableSet, InstallSources, RefreshSources
  <2>4. ~Extension
    BY <1>0, <2>0 DEF Extension, Step, Local, RestartDue
  <2>5. CASE Restart
    <3>1. PICK o : TermAndWait(b, o)
      BY <2>0, <2>5 DEF Restart
    <3>2. QED
      BY <3>1, StopMarks DEF Kept, Running
  <2>6. ~(\/ StartCycle \/ NoRestart \/ AlreadyKilled
          \/ AddonActive \/ AddonDisabled \/ AddonWrite \/ Compare \/ Launch \/ Touch
          \/ DriftIgnored \/ DriftStopped \/ DriftRunning \/ DriftSync \/ DriftLaunch)
    BY <2>0 DEF StartCycle, NoRestart, AlreadyKilled, AddonActive, AddonDisabled, AddonWrite,
       Compare, Launch, Touch, DriftIgnored, DriftStopped, DriftRunning, DriftSync, DriftLaunch,
       Step
  <2>7. ~(\/ SwapCopy \/ SwapTerm \/ SwapLaunch
          \/ CloseTerm \/ CloseCopy \/ CloseSets \/ CloseRules \/ CloseLaunch
          \/ PollTick \/ CloseWindow \/ Save \/ Challenge)
    BY <2>0 DEF SwapCopy, SwapTerm, SwapLaunch, CloseTerm, CloseCopy, CloseSets, CloseRules,
       CloseLaunch, PollTick, CloseWindow, Save, Challenge, StartChallenge, FailChallenge,
       Grant, Poll, Step
  <2>8. QED
    BY <2>2, <2>3, <2>4, <2>5, <2>6, <2>7 DEF Next, Daemon
<1>4. QED
  BY <1>1, <1>2, <1>3

LEMMA IntoClose ==
  ASSUME TypeOK, [Next]_vars, pc' \in ClosePC
  PROVE  \/ CloseWindow
         \/ pc \in ClosePC /\ (\/ CloseTerm \/ CloseCopy \/ CloseSets \/ CloseRules \/ CloseLaunch
                               \/ User /\ UNCHANGED <<pc, loc, mem, disk>>
                               \/ SlowHelper \/ UNCHANGED vars)
<1> USE DEF ClosePC
<1>1. ~(Kill \/ RuntimeMax \/ ExitCycle)
  BY DEF Kill, RuntimeMax, ExitCycle, EndProcess
<1>2. ~StartCycle
  BY DEF StartCycle, TypeOK, PauseState
<1>3. ~(\/ AddonActive \/ AddonDisabled \/ AddonWrite \/ Compare \/ Extension \/ NoRestart
        \/ AlreadyKilled \/ Restart \/ Launch \/ Touch)
  BY DEF AddonActive, AddonDisabled, AddonWrite, Compare, Extension, NoRestart, AlreadyKilled,
     Restart, Launch, Touch, Step, AfterBrowser
<1>4. ~(DriftIgnored \/ DriftStopped \/ DriftRunning \/ DriftSync \/ DriftLaunch)
  BY DEF DriftIgnored, DriftStopped, DriftRunning, DriftSync, DriftLaunch, Step
<1>5. ~(SwapCopy \/ SwapTerm \/ SwapLaunch)
  BY DEF SwapCopy, SwapTerm, SwapLaunch, SwapDone, TypeOK, Local
<1>6. ~(PollTick \/ Save \/ Challenge)
  BY DEF PollTick, Save, Challenge, StartChallenge, FailChallenge, Grant, Poll
<1>7. CASE \/ CloseTerm \/ CloseCopy \/ CloseSets \/ CloseRules \/ CloseLaunch
  BY <1>7 DEF CloseTerm, CloseCopy, CloseSets, CloseRules, CloseLaunch, Step
<1>8. CASE SlowHelper \/ User \/ UNCHANGED vars
  BY <1>8 DEF SlowHelper, User, vars, Outside, StartBrowser, Appear, CloseBrowser,
     DisableAddon, EditRules, DisableSet, InstallSources, RefreshSources
<1>9. QED
  BY <1>1, <1>2, <1>3, <1>4, <1>5, <1>6, <1>7, <1>8 DEF Next, Daemon

LEMMA ClosedStep ==
  ASSUME TypeOK, ClosedInv, [Next]_vars
  PROVE  ClosedInv'
<1>a. CASE pc' \notin ClosePC
  BY <1>a DEF ClosedInv, HandledByClose, ClosePC
<1>b. CASE pc' \in ClosePC
  <2>0. /\ loc \in Local /\ loc.b \in Browsers /\ loc.b \in {"firefox", "vivaldi"}
        /\ "firefox" \in Browsers /\ "vivaldi" \in Browsers
        /\ file \in [Browsers -> Policies]
    BY DEF TypeOK, Local, Browsers
  <2>a. PICK x \in Browsers : x = loc.b
    BY <2>0
  <2> USE DEF browsers
  <2>1. CASE CloseWindow
    <3>1. pc' = "closeTerm" /\ loc'.b = "firefox"
      BY <2>0, <2>1 DEF CloseWindow, Local
    <3>2. QED
      BY <3>1 DEF ClosedInv, HandledByClose
  <2>2. CASE ~CloseWindow
    <3>0. /\ pc \in ClosePC
          /\ \/ CloseTerm \/ CloseCopy \/ CloseSets \/ CloseRules \/ CloseLaunch
             \/ UNCHANGED <<pc, loc>>
      BY <1>b, <2>2, IntoClose DEF SlowHelper, vars
    <3>a. \A b \in Browsers : Guarded(b) => Guarded(b)'
      <4>1. ~SwapCopy
        BY <3>0 DEF SwapCopy, ClosePC
      <4>2. QED
        BY <4>1, GuardedStays
    <3>1. CASE CloseTerm
      <4>1. PICK o : /\ TermAndWait(x, o)
                     /\ loc' = [loc EXCEPT !.was[x] = Running(x), !.gone[x] = o.gone]
        BY <2>a, <3>1 DEF CloseTerm
      <4>2. loc'.b = x /\ pc = "closeTerm" /\ pc' = "closeCopy"
        BY <2>0, <2>a, <3>1, <4>1 DEF CloseTerm, Step, Local
      <4>3. Kept(x)'
        BY <4>1, StopMarks DEF Kept, Running
      <4>4. QED
        BY <2>a, <3>a, <4>2, <4>3 DEF ClosedInv, HandledByClose
    <3>2. CASE CloseCopy
      <4>1. /\ UNCHANGED <<proc, lost, loc>> /\ pc = "closeCopy" /\ file'[x] = "blocking"
            /\ pc' = IF x = "firefox" THEN "closeSets" ELSE "closeRules"
        BY <2>0, <2>a, <3>2 DEF CloseCopy, Step
      <4>2. Guarded(x)'
        BY <2>a, <4>1 DEF ClosedInv, Kept, Guarded, Running
      <4>3. x = "vivaldi" => Guarded("firefox")'
        BY <2>0, <2>a, <3>a, <4>1 DEF ClosedInv, HandledByClose
      <4>4. QED
        BY <2>0, <2>a, <4>1, <4>2, <4>3 DEF ClosedInv, HandledByClose, Browsers
    <3>3. CASE CloseSets
      <4>1. pc = "closeSets" /\ pc' = "closeTerm"
        BY <3>3 DEF CloseSets
      <4>2. Guarded("firefox")'
        BY <2>0, <3>a, <4>1 DEF ClosedInv, HandledByClose
      <4>3. QED
        BY <4>1, <4>2 DEF ClosedInv, HandledByClose
    <3>4. CASE CloseRules \/ CloseLaunch
      <4>1. pc \in {"closeRules", "closeLaunch"} /\ pc' = "closeLaunch"
        BY <1>b, <3>4 DEF CloseRules, CloseLaunch, ClosePC
      <4>2. QED
        BY <3>a, <4>1 DEF ClosedInv, HandledByClose
    <3>5. CASE UNCHANGED <<pc, loc>>
      <4>1. pc = "closeCopy" /\ Kept(x) => Kept(x)'
        BY KeptStays DEF Unnoticed
      <4>2. QED
        BY <2>a, <3>a, <3>5, <4>1 DEF ClosedInv, HandledByClose
    <3>6. QED
      BY <3>0, <3>1, <3>2, <3>3, <3>4, <3>5
  <2>3. QED
    BY <2>1, <2>2
<1>c. QED
  BY <1>a, <1>b

\* How a sync ends.
LEMMA SyncEnding ==
  ASSUME TypeOK, Next, pc # "poll", pc' = "poll", loc'.synced, ~loc.synced
  PROVE  DriftIgnored \/ DriftStopped \/ DriftRunning \/ Touch
<1>0. loc \in Local
  BY DEF TypeOK
<1>1. ~(UNCHANGED <<pc, loc>>) /\ ~(UNCHANGED loc)
  OBVIOUS
<1>2. ~(Kill \/ RuntimeMax \/ ExitCycle \/ StartCycle)
  BY DEF Kill, RuntimeMax, ExitCycle, EndProcess, StartCycle, Idle
<1>3. ~(SlowHelper \/ User)
  BY <1>1 DEF SlowHelper, User, Outside, StartBrowser, Appear, CloseBrowser,
     DisableAddon, EditRules, DisableSet, InstallSources, RefreshSources
<1>4. ~(\/ AddonActive \/ AddonDisabled \/ AddonWrite \/ Compare \/ Extension \/ NoRestart
        \/ AlreadyKilled \/ Restart \/ Launch \/ DriftSync \/ DriftLaunch)
  BY DEF AddonActive, AddonDisabled, AddonWrite, Compare, Extension, NoRestart,
     AlreadyKilled, Restart, Launch, DriftSync, DriftLaunch, Step, AfterBrowser
<1>5. ~(SwapCopy \/ SwapTerm \/ SwapLaunch)
  <2>1. \A n : SwapDone(n) => loc'.synced = loc.synced
    BY <1>0 DEF SwapDone, Local
  <2>2. QED
    BY <2>1 DEF SwapCopy, SwapTerm, SwapLaunch
<1>6. ~(\/ CloseTerm \/ CloseCopy \/ CloseSets \/ CloseRules \/ CloseLaunch
        \/ PollTick \/ CloseWindow \/ Save \/ Challenge)
  BY DEF CloseTerm, CloseCopy, CloseSets, CloseRules, CloseLaunch, PollTick, CloseWindow,
     Save, Challenge, StartChallenge, FailChallenge, Grant, Poll, Step
<1>7. QED
  BY <1>2, <1>3, <1>4, <1>5, <1>6 DEF Next, Daemon

LEMMA SyncedLeaves ==
  ASSUME TypeOK, SectionInv, [Next]_vars,
         DriftIgnored \/ DriftStopped \/ DriftRunning \/ Touch
  PROVE  \A b \in Browsers : Settled(b)'
<1>1. pc \in {"drift", "driftTouch", "touch"}
  BY DEF DriftIgnored, DriftStopped, DriftRunning, Touch, Step
<1>2. \A b \in Browsers : Settled(b)
  BY <1>1 DEF SectionInv, HandledBySync
<1>3. Unnoticed
  BY <1>1 DEF Unnoticed, SyncPC
<1>4. QED
  BY <1>2, <1>3, SettledStays

LEMMA SettledGuarded ==
  ASSUME \A b \in Browsers : Settled(b)'
  PROVE  \A b \in Browsers : Guarded(b)'
BY DEF Settled, Kept, Guarded, Running

LEMMA SyncedStep ==
  ASSUME TypeOK, LoadedInv, [Next]_vars
  PROVE  SyncedInv'
<1>0. loc \in Local /\ SyncedInv /\ SectionInv /\ ClosedInv /\ loc.after \in {"poll", "save"}
  BY DEF TypeOK, Local, LoadedInv
<1>1. CASE pc' \notin SwapPC \union {"poll", "save"}
  BY <1>1 DEF SyncedInv, SwapPC
<1>2. ASSUME loc'.synced = FALSE PROVE SyncedInv'
  BY <1>2 DEF SyncedInv
<1>3. ASSUME \A b \in Browsers : Guarded(b)', pc' \notin SwapPC PROVE SyncedInv'
  BY <1>3 DEF SyncedInv
<1>4. CASE Kill \/ RuntimeMax \/ ExitCycle
  BY <1>1, <1>4 DEF Kill, RuntimeMax, ExitCycle, EndProcess, SwapPC
<1>5. CASE StartCycle
  <2>1. loc'.synced = FALSE
    BY <1>5 DEF StartCycle, Idle
  <2>2. QED
    BY <1>2, <2>1
<1>6. CASE DriftIgnored \/ DriftStopped \/ DriftRunning \/ Touch
  <2>1. \A b \in Browsers : Guarded(b)'
    BY <1>0, <1>6, SyncedLeaves, SettledGuarded
  <2>2. pc' \notin SwapPC
    BY <1>6 DEF DriftIgnored, DriftStopped, DriftRunning, Touch, Step, SwapPC
  <2>3. QED
    BY <1>3, <2>1, <2>2
<1>7. CASE \/ AddonActive \/ AddonDisabled \/ AddonWrite \/ Compare \/ Extension
           \/ NoRestart \/ AlreadyKilled \/ Restart \/ Launch \/ DriftSync \/ DriftLaunch
  <2>1. CASE AddonActive \/ AddonDisabled \/ AddonWrite \/ Compare \/ Extension
    BY <1>1, <2>1 DEF AddonActive, AddonDisabled, AddonWrite, Compare, Extension, Step, SwapPC
  <2>2. CASE NoRestart \/ AlreadyKilled \/ Restart \/ Launch
    BY <1>1, <2>2 DEF NoRestart, AlreadyKilled, Restart, Launch, Step, AfterBrowser, SwapPC
  <2>3. CASE DriftSync \/ DriftLaunch
    BY <1>1, <2>3 DEF DriftSync, DriftLaunch, Step, SwapPC
  <2>4. QED
    BY <1>7, <2>1, <2>2, <2>3
<1>8. CASE SwapCopy \/ SwapTerm \/ SwapLaunch
  <2>1. loc.synced = FALSE
    BY <1>0, <1>8 DEF SwapCopy, SwapTerm, SwapLaunch, SyncedInv, SwapPC, Local
  <2>2. \A n : SwapDone(n) => loc'.synced = loc.synced
    BY <1>0 DEF SwapDone, Local
  <2>3. loc'.synced = loc.synced
    BY <1>8, <2>2 DEF SwapCopy, SwapTerm, SwapLaunch
  <2>4. QED
    BY <1>2, <2>1, <2>3
<1>9. CASE CloseTerm \/ CloseCopy \/ CloseSets \/ CloseRules \/ CloseWindow
  BY <1>1, <1>9 DEF CloseTerm, CloseCopy, CloseSets, CloseRules, CloseWindow, Step, SwapPC
<1>10. CASE CloseLaunch
  <2>1. pc = "closeLaunch" /\ pc' \in {"closeLaunch", "save"}
    BY <1>10 DEF CloseLaunch
  <2>2. \A b \in Browsers : Guarded(b)'
    <3>1. \A b \in Browsers : Guarded(b)
      BY <1>0, <2>1 DEF ClosedInv, HandledByClose
    <3>2. ~SwapCopy
      BY <2>1 DEF SwapCopy
    <3>3. QED
      BY <3>1, <3>2, GuardedStays
  <2>3. QED
    BY <1>3, <2>1, <2>2 DEF SwapPC
<1>11. CASE Grant
  <2>1. loc'.synced = FALSE
    BY <1>0, <1>11 DEF Grant, Local
  <2>2. QED
    BY <1>2, <2>1
<1>12. CASE /\ pc \in {"poll", "save"} /\ pc' \in {"poll", "save"} /\ loc' = loc
            /\ mem.phase = 2 => mem'.phase = 2
  <2>1. ~SwapCopy
    BY <1>12 DEF SwapCopy
  <2>2. \A b \in Browsers : Guarded(b) => Guarded(b)'
    BY <2>1, GuardedStays
  <2>3. QED
    BY <1>0, <1>12, <2>2 DEF SyncedInv, SwapPC
<1>13. CASE PollTick \/ Save \/ StartChallenge \/ FailChallenge
  <2>1. /\ pc \in {"poll", "save"} /\ pc' \in {"poll", "save"} /\ loc' = loc
        /\ mem.phase = 2 => mem'.phase = 2
    BY <1>13 DEF PollTick, Save, StartChallenge, FailChallenge, Poll
  <2>2. QED
    BY <1>12, <2>1
<1>14. CASE User \/ SlowHelper \/ UNCHANGED vars
  <2>1. UNCHANGED <<pc, loc, mem>>
    BY <1>14 DEF SlowHelper, User, vars, Outside, StartBrowser, Appear, CloseBrowser,
       DisableAddon, EditRules, DisableSet, InstallSources, RefreshSources
  <2>2. CASE pc \in SwapPC
    BY <1>0, <1>2, <2>1, <2>2 DEF SyncedInv, Local
  <2>3. QED
    BY <1>1, <1>12, <2>1, <2>2
<1>15. QED
  BY <1>4, <1>5, <1>6, <1>7, <1>8, <1>9, <1>10, <1>11, <1>13, <1>14
     DEF Next, Daemon, Challenge

LEMMA LoadedInvariant == Spec => []LoadedInv
<1>1. Init => LoadedInv
  BY DEF Init, LoadedInv, FilesLoaded, SectionInv, ClosedInv, SyncedInv, HandledBySync,
     HandledByClose, Kept, Running, Down, SyncPC, SwapPC
<1>2. TypeOK /\ LoadedInv /\ [Next]_vars => LoadedInv'
  <2> SUFFICES ASSUME TypeOK, LoadedInv, [Next]_vars PROVE LoadedInv'
    OBVIOUS
  <2>1. FilesLoaded' /\ SectionInv' /\ ClosedInv' /\ SyncedInv'
    BY FilesStep, SectionStep, ClosedStep, SyncedStep DEF LoadedInv
  <2>2. QED
    BY <2>1 DEF LoadedInv
<1>3. QED
  BY <1>1, <1>2, BrowserTyped, PTL DEF Spec

\* After a cycle has blocked the browsers none would start unblocked, and one
\* that runs unblocked has lost its restart: wherever cycles are ended, however
\* long the browsers take and whether they obey, whenever users start them and
\* update.sh copies, and whatever helpers fail.
THEOREM BlockedAgainHolds == Spec => []BlockedAgain
<1>1. LoadedInv => BlockedAgain
  BY DEF LoadedInv, SyncedInv, Guarded, BlockedAgain
<1>2. QED
  BY <1>1, LoadedInvariant, PTL

\* A sync ends with every running browser on the current policies, those that
\* an earlier cycle copied included, but for one that has lost its restart,
\* under the same circumstances.
THEOREM SyncLoadsHolds == Spec => SyncLoads
<1>1. TypeOK /\ LoadedInv /\ [Next]_vars =>
        [SyncEnds => \A b \in Browsers :
           Running(b)' => proc'[b].pol = "blocking" \/ b \in lost']_vars
  <2> SUFFICES ASSUME TypeOK, LoadedInv, Next, SyncEnds
               PROVE  \A b \in Browsers :
                        Running(b)' => proc'[b].pol = "blocking" \/ b \in lost'
    BY DEF SyncEnds
  <2>1. DriftIgnored \/ DriftStopped \/ DriftRunning \/ Touch
    BY SyncEnding DEF SyncEnds
  <2>2. \A b \in Browsers : Settled(b)'
    BY <2>1, SyncedLeaves DEF LoadedInv
  <2>3. QED
    BY <2>2 DEF Settled, Kept
<1>2. QED
  BY <1>1, BrowserTyped, LoadedInvariant, PTL DEF Spec, SyncLoads
-----------------------------------------------------------------------------
(***************************************************************************)
(* The sets of LeechBlock after a window.  Obedient: a browser ends when   *)
(* it is told to, shows its comm as soon as it is launched, and is not     *)
(* started by its user between that and the restore of the sets: a Firefox *)
(* that runs while its sets are restored may undo it.                      *)
(***************************************************************************)
Obedient ==
  /\ Stubborn = {}
  /\ Lag = FALSE
  /\ StartPoints \intersect {"closeTerm", "closeCopy", "closeSets"} = {}

NoStarting == \A b \in Browsers : proc[b].st # "starting"

LEMMA Obeys ==
  ASSUME NEW b \in Browsers, b \notin Stubborn, pc \notin StartPoints,
         NEW o \in Outcomes(b)
  PROVE  o.proc.st # "up"
<1>1. CASE ~Running(b)
  <2>1. o = [gone |-> TRUE, proc |-> proc[b], took |-> 0]
    BY <1>1 DEF Outcomes
  <2>2. QED
    BY <1>1, <2>1 DEF Running
<1>2. CASE Running(b)
  <2>1. o = [gone |-> TRUE, proc |-> Down, took |-> 0]
    BY <1>2 DEF Outcomes
  <2>2. QED
    BY <2>1 DEF Down
<1>3. QED
  BY <1>1, <1>2

LEMMA NoStartingStep ==
  ASSUME Obedient, TypeOK, NoStarting, [Next]_vars
  PROVE  NoStarting'
<1> SUFFICES ASSUME NEW b \in Browsers PROVE proc'[b].st # "starting"
  BY DEF NoStarting
<1>0. /\ loc.b \in Browsers /\ {"firefox", "vivaldi"} \subseteq Browsers
      /\ proc \in [Browsers -> Process] /\ proc[b].st # "starting" /\ Down.st = "down"
  BY DEF TypeOK, Local, Browsers, NoStarting, Down
<1> USE DEF browsers
<1>1. ASSUME NEW x \in Browsers, NEW own, Starts(x, own) PROVE proc'[b].st # "starting"
  BY <1>0, <1>1 DEF Starts, Launched, Loaded, Obedient
<1>2. ASSUME NEW x \in Browsers, NEW o, TermAndWait(x, o) PROVE proc'[b].st # "starting"
  BY <1>0, <1>2, StopMarks, Obeys DEF Loaded, TermAndWait, Outcomes
<1>3. CASE Kill \/ RuntimeMax \/ ExitCycle
  BY <1>0, <1>3 DEF Kill, RuntimeMax, ExitCycle, EndProcess
<1>4. CASE AddonDisabled \/ Restart \/ DriftRunning \/ CloseTerm \/ SwapTerm
  BY <1>0, <1>2, <1>4 DEF AddonDisabled, Restart, DriftRunning, CloseTerm, SwapTerm
<1>5. CASE Launch \/ DriftLaunch \/ SwapLaunch \/ CloseLaunch
  BY <1>0, <1>1, <1>5 DEF Launch, DriftLaunch, SwapLaunch, CloseLaunch, Relaunch
<1>6. CASE User
  <2>1. CASE \E x \in Browsers : StartBrowser(x)
    BY <1>1, <2>1 DEF StartBrowser
  <2>2. CASE \E x \in Browsers : Appear(x) \/ CloseBrowser(x)
    BY <1>0, <2>2 DEF Appear, CloseBrowser, NoStarting
  <2>3. CASE DisableAddon \/ EditRules \/ DisableSet
    BY <1>0, <2>3 DEF DisableAddon, EditRules, DisableSet
  <2>4. CASE InstallSources \/ RefreshSources
    BY <1>0, <2>4, UpdateStep
  <2>5. QED
    BY <1>6, <2>1, <2>2, <2>3, <2>4 DEF User
<1>7. CASE \/ SlowHelper \/ StartCycle \/ AddonActive \/ AddonWrite \/ Compare \/ Extension
           \/ NoRestart \/ AlreadyKilled \/ Touch \/ DriftIgnored \/ DriftStopped \/ DriftSync
           \/ UNCHANGED vars
  BY <1>0, <1>7 DEF SlowHelper, StartCycle, AddonActive, AddonWrite, Compare, Extension, NoRestart,
     AlreadyKilled, Touch, DriftIgnored, DriftStopped, DriftSync, vars
<1>8. CASE \/ SwapCopy \/ CloseCopy \/ CloseSets \/ CloseRules \/ PollTick \/ CloseWindow
           \/ Save \/ Challenge
  BY <1>0, <1>8 DEF SwapCopy, CloseCopy, CloseSets, CloseRules, PollTick, CloseWindow, Save,
     Challenge, StartChallenge, FailChallenge, Grant
<1>9. QED
  BY <1>3, <1>4, <1>5, <1>6, <1>7, <1>8 DEF Next, Daemon

\* What users and updates can do while the daemon is at work.
LEMMA UserQuiet ==
  ASSUME Obedient, TypeOK, NoStarting, User \/ SlowHelper \/ UNCHANGED vars,
         pc \notin {"down", "poll"}
  PROVE  /\ UNCHANGED <<pc, loc, mem, disk>>
         /\ pc \notin StartPoints => \A b \in Browsers : proc'[b].st \in {proc[b].st, "down"}
         /\ Secure("firefox") => active' = active
<1>0. proc \in [Browsers -> Process] /\ Down.st = "down"
  BY DEF TypeOK, Down
<1>1. CASE SlowHelper \/ UNCHANGED vars
  BY <1>1 DEF SlowHelper, vars, leech, browsers
<1>2. CASE InstallSources \/ RefreshSources
  BY <1>2, UpdateStep, "firefox" \in Browsers DEF Browsers
<1>3. CASE \E b \in Browsers : CloseBrowser(b)
  BY <1>0, <1>3 DEF CloseBrowser, Outside, leech
<1>4. CASE DisableAddon \/ EditRules \/ DisableSet
  BY <1>4 DEF DisableAddon, EditRules, DisableSet, Outside, Secure, Running, browsers
<1>5. CASE \E b \in Browsers : StartBrowser(b)
  BY <1>5 DEF StartBrowser, Starts, Outside
<1>6. \A b \in Browsers : ~Appear(b)
  BY DEF Appear, NoStarting
<1>7. QED
  BY <1>1, <1>2, <1>3, <1>4, <1>5, <1>6 DEF User

\* swap_blocking copies, and restores the sets, with the browser down.
StoppedInv ==
  /\ NoStarting
  /\ pc = "closeCopy" => proc[loc.b].st = "down"
  /\ pc = "closeSets" => proc["firefox"].st = "down"
  /\ HandledByClose("firefox") => Secure("firefox")

LEMMA StoppedStep ==
  ASSUME Obedient, TypeOK, StoppedInv, [Next]_vars
  PROVE  StoppedInv'
<1>a. NoStarting /\ NoStarting'
  BY NoStartingStep DEF StoppedInv
<1>b. CASE pc' \notin ClosePC
  BY <1>a, <1>b DEF StoppedInv, HandledByClose, ClosePC
<1>c. CASE pc' \in ClosePC
  <2>0. /\ loc \in Local /\ loc.b \in Browsers /\ loc.b \in {"firefox", "vivaldi"}
        /\ "firefox" \in Browsers /\ proc \in [Browsers -> Process]
        /\ file \in [Browsers -> Policies]
    BY DEF TypeOK, Local, Browsers
  <2>a. PICK x \in Browsers : x = loc.b
    BY <2>0
  <2> USE DEF browsers
  <2>1. CASE CloseWindow
    <3>1. pc' = "closeTerm" /\ loc'.b = "firefox"
      BY <2>0, <2>1 DEF CloseWindow, Local
    <3>2. QED
      BY <1>a, <3>1 DEF StoppedInv, HandledByClose
  <2>2. CASE ~CloseWindow
    <3>0. /\ pc \in ClosePC /\ pc \notin {"down", "poll"} /\ ~SwapCopy
          /\ \/ CloseTerm \/ CloseCopy \/ CloseSets \/ CloseRules \/ CloseLaunch
             \/ User \/ SlowHelper \/ UNCHANGED vars
      BY <1>c, <2>2, IntoClose DEF ClosePC, SwapCopy
    <3>a. Secure("firefox") => Secure("firefox")'
      BY <2>0, <3>0, SecureStays
    <3>1. CASE CloseTerm
      <4>1. PICK o \in Outcomes(x) :
              /\ TermAndWait(x, o)
              /\ loc' = [loc EXCEPT !.was[x] = Running(x), !.gone[x] = o.gone]
        BY <2>a, <3>1 DEF CloseTerm
      <4>2. loc'.b = x /\ pc = "closeTerm" /\ pc' = "closeCopy"
        BY <2>0, <2>a, <3>1, <4>1 DEF CloseTerm, Step, Local
      <4>3. proc'[x].st = "down"
        <5>1. o.proc.st # "up" /\ proc'[x] = o.proc
          BY <2>0, <3>0, <4>1, <4>2, Obeys DEF Obedient, TermAndWait
        <5>2. o.proc \in Process
          BY <4>1, OutcomeType
        <5>3. o.proc.st \in {"down", "starting", "up"}
          BY <5>2 DEF Process
        <5>4. QED
          BY <1>a, <5>1, <5>3 DEF NoStarting
      <4>4. QED
        BY <1>a, <2>a, <3>a, <4>2, <4>3 DEF StoppedInv, HandledByClose
    <3>2. CASE CloseCopy
      <4>1. /\ UNCHANGED <<proc, loc>> /\ pc = "closeCopy" /\ file'[x] = "blocking"
            /\ pc' = IF x = "firefox" THEN "closeSets" ELSE "closeRules"
        BY <2>0, <2>a, <3>2 DEF CloseCopy, Step
      <4>2. proc'[x].st = "down"
        BY <2>a, <4>1 DEF StoppedInv
      <4>3. Secure("firefox")'
        <5>1. CASE x = "firefox"
          BY <4>1, <4>2, <5>1 DEF Secure, Running
        <5>2. CASE x = "vivaldi"
          BY <2>a, <3>a, <4>1, <5>2 DEF StoppedInv, HandledByClose
        <5>3. QED
          BY <2>0, <2>a, <5>1, <5>2
      <4>4. QED
        BY <1>a, <2>0, <2>a, <4>1, <4>2, <4>3 DEF StoppedInv
    <3>3. CASE CloseSets
      <4>1. pc = "closeSets" /\ pc' = "closeTerm"
        BY <3>3 DEF CloseSets
      <4>2. QED
        BY <1>a, <3>a, <4>1 DEF StoppedInv, HandledByClose
    <3>4. CASE CloseRules \/ CloseLaunch
      <4>1. pc \in {"closeRules", "closeLaunch"} /\ pc' = "closeLaunch"
        BY <1>c, <3>4 DEF CloseRules, CloseLaunch, ClosePC
      <4>2. QED
        BY <1>a, <3>a, <4>1 DEF StoppedInv, HandledByClose
    <3>5. CASE User \/ SlowHelper \/ UNCHANGED vars
      <4>1. UNCHANGED <<pc, loc>>
        BY <1>a, <3>0, <3>5, UserQuiet
      <4>2. CASE pc \in {"closeCopy", "closeSets"}
        <5>1. \A b \in Browsers : proc'[b].st \in {proc[b].st, "down"}
          BY <1>a, <3>0, <3>5, <4>2, UserQuiet DEF Obedient
        <5>2. QED
          BY <1>a, <2>0, <3>a, <4>1, <5>1 DEF StoppedInv, HandledByClose
      <4>3. CASE pc \notin {"closeCopy", "closeSets"}
        BY <1>a, <3>a, <4>1, <4>3 DEF StoppedInv, HandledByClose
      <4>4. QED
        BY <4>2, <4>3
    <3>6. QED
      BY <3>0, <3>1, <3>2, <3>3, <3>4, <3>5
  <2>3. QED
    BY <2>1, <2>2
<1>d. QED
  BY <1>b, <1>c

LEMMA StoppedInvariant ==
  ASSUME Obedient
  PROVE  Spec => []StoppedInv
<1>1. Init => StoppedInv
  BY DEF Init, StoppedInv, NoStarting, HandledByClose, Down
<1>2. TypeOK /\ StoppedInv /\ [Next]_vars => StoppedInv'
  BY StoppedStep
<1>3. QED
  BY <1>1, <1>2, BrowserTyped, PTL DEF Spec

SetsBack == mem.snap = 1 => active

\* The daemon and its file agree on the window except while they are about to;
\* when the file is told that it is over, the sets are back and stay.
RestoredInv ==
  /\ pc \in SyncPC \union ClosePC \union {"poll"} => mem = disk
  /\ pc \in SwapPC => mem.phase = 2 /\ (loc.after = "poll" => mem = disk)
  /\ HandledByClose("firefox") /\ pc # "closeSets" => SetsBack
  /\ pc = "save" /\ mem.phase = 0 /\ disk.phase = 2 => Secure("firefox") /\ SetsBack

LEMMA RestoredStep ==
  ASSUME Obedient, MaxFails = 0, TypeOK, StoppedInv, RestoredInv, [Next]_vars
  PROVE  RestoredInv'
<1>0. /\ loc \in Local /\ loc.b \in Browsers /\ "firefox" \in Browsers /\ NoStarting
      /\ mem \in PauseState /\ loc.after \in {"poll", "save"}
  BY DEF TypeOK, Local, Browsers, StoppedInv
<1>1. ~HelperFails
  BY DEF HelperFails, TypeOK
<1>2. CASE pc' = "down"
  BY <1>2 DEF RestoredInv, SyncPC, ClosePC, SwapPC, HandledByClose
<1>3. CASE Kill \/ RuntimeMax \/ ExitCycle
  BY <1>2, <1>3 DEF Kill, RuntimeMax, ExitCycle, EndProcess
<1>4. CASE StartCycle
  <2>1. mem' = disk' /\ pc' \notin {"save"} \union ClosePC
    BY <1>4 DEF StartCycle, TypeOK, PauseState, ClosePC
  <2>2. pc' \in SwapPC => mem'.phase = 2
    BY <1>4, <2>1 DEF StartCycle, TypeOK, PauseState, SwapPC
  <2>3. QED
    BY <2>1, <2>2 DEF RestoredInv, HandledByClose, ClosePC
<1>5. CASE /\ pc \in SyncPC /\ pc' \in SyncPC \union {"poll"} /\ UNCHANGED <<mem, disk>>
  BY <1>5 DEF RestoredInv, SyncPC, SwapPC, ClosePC, HandledByClose
<1>6. CASE \/ AddonActive \/ AddonDisabled \/ AddonWrite \/ Compare \/ Extension \/ NoRestart
           \/ AlreadyKilled \/ Restart \/ Launch \/ Touch
           \/ DriftIgnored \/ DriftStopped \/ DriftRunning \/ DriftSync \/ DriftLaunch
  <2>1. pc \in SyncPC /\ pc' \in SyncPC \union {"poll"}
    <3>1. CASE \/ AddonActive \/ AddonDisabled \/ AddonWrite \/ Compare \/ Extension \/ NoRestart
      BY <3>1 DEF AddonActive, AddonDisabled, AddonWrite, Compare, Extension, NoRestart, Step,
         AfterBrowser, SyncPC
    <3>2. CASE AlreadyKilled \/ Restart \/ Launch \/ Touch
      BY <3>2 DEF AlreadyKilled, Restart, Launch, Touch, Step, AfterBrowser, SyncPC
    <3>3. CASE DriftIgnored \/ DriftStopped \/ DriftRunning \/ DriftSync \/ DriftLaunch
      BY <3>3 DEF DriftIgnored, DriftStopped, DriftRunning, DriftSync, DriftLaunch, Step, SyncPC
    <3>4. QED
      BY <1>6, <3>1, <3>2, <3>3
  <2>2. UNCHANGED <<mem, disk>>
    BY <1>6 DEF AddonActive, AddonDisabled, AddonWrite, Compare, Extension, NoRestart,
       AlreadyKilled, Restart, Launch, Touch, DriftIgnored, DriftStopped, DriftRunning,
       DriftSync, DriftLaunch, Step
  <2>3. QED
    BY <1>5, <2>1, <2>2
<1>7. CASE SwapCopy \/ SwapTerm \/ SwapLaunch
  <2>1. pc \in SwapPC /\ UNCHANGED <<mem, disk>> /\ mem.phase = 2
    BY <1>7 DEF SwapCopy, SwapTerm, SwapLaunch, SwapPC, RestoredInv
  <2>2. \/ pc' \in SwapPC /\ loc'.after = loc.after
        \/ pc' = loc.after
    <3>1. \A n : SwapDone(n) => \/ pc' \in SwapPC /\ loc'.after = loc.after
                                \/ pc' = loc.after
      BY <1>0 DEF SwapDone, SwapPC, Local
    <3>2. QED
      BY <1>7, <3>1 DEF SwapCopy, SwapTerm, SwapLaunch, SwapPC
  <2>3. pc' \in SwapPC \/ pc' = "save" \/ (pc' = "poll" /\ mem = disk)
    BY <1>0, <2>1, <2>2 DEF RestoredInv
  <2>4. mem' = mem /\ disk' = disk /\ (pc' \in SwapPC => loc'.after = loc.after)
    BY <1>0, <2>1, <2>2 DEF SwapPC
  <2>5. CASE pc' \in SwapPC
    BY <2>1, <2>4, <2>5 DEF RestoredInv, SyncPC, SwapPC, ClosePC, HandledByClose
  <2>6. CASE pc' \in {"save", "poll"}
    BY <2>1, <2>3, <2>4, <2>6 DEF RestoredInv, SyncPC, SwapPC, ClosePC, HandledByClose
  <2>7. QED
    BY <2>3, <2>5, <2>6
<1>8. CASE CloseTerm \/ CloseCopy \/ CloseSets \/ CloseRules \/ CloseLaunch \/ CloseWindow
  <2>1. CASE CloseWindow
    <3>1. mem' = mem /\ disk' = disk /\ mem = disk /\ pc' = "closeTerm" /\ loc'.b = "firefox"
      BY <1>0, <2>1 DEF CloseWindow, Poll, RestoredInv, Local
    <3>2. QED
      BY <3>1 DEF RestoredInv, SwapPC, HandledByClose
  <2>2. CASE CloseTerm \/ CloseCopy \/ CloseRules
    <3>1. /\ mem' = mem /\ disk' = disk /\ mem = disk /\ active' = active
          /\ pc \in ClosePC /\ pc' \in ClosePC
      BY <2>2 DEF CloseTerm, CloseCopy, CloseRules, Step, RestoredInv, ClosePC, leech
    <3>2. CASE CloseTerm
      <4>1. loc'.b = loc.b /\ pc = "closeTerm" /\ pc' = "closeCopy"
        BY <1>0, <3>2 DEF CloseTerm, Step, Local
      <4>2. QED
        BY <3>1, <4>1 DEF RestoredInv, SwapPC, HandledByClose, SetsBack
    <3>3. CASE CloseCopy
      <4>1. /\ pc = "closeCopy" /\ loc.b \in {"firefox", "vivaldi"}
            /\ pc' = IF loc.b = "firefox" THEN "closeSets" ELSE "closeRules"
        BY <1>0, <3>3 DEF CloseCopy, Step, Browsers
      <4>2. QED
        BY <3>1, <4>1 DEF RestoredInv, SwapPC, HandledByClose, SetsBack
    <3>4. CASE CloseRules
      <4>1. pc = "closeRules" /\ pc' = "closeLaunch"
        BY <3>4 DEF CloseRules
      <4>2. QED
        BY <3>1, <4>1 DEF RestoredInv, SwapPC, HandledByClose, SetsBack
    <3>5. QED
      BY <2>2, <3>2, <3>3, <3>4
  <2>3. CASE CloseSets
    <3>1. /\ pc = "closeSets" /\ pc' = "closeTerm" /\ mem' = mem /\ disk' = disk /\ mem = disk
      BY <2>3 DEF CloseSets, RestoredInv, ClosePC
    <3>2. ~Running("firefox")
      BY <3>1 DEF StoppedInv, Running
    <3>3. SetsBack'
      BY <1>1, <2>3, <3>1, <3>2 DEF CloseSets, SetsBack
    <3>4. QED
      BY <3>1, <3>3 DEF RestoredInv, SwapPC
  <2>4. CASE CloseLaunch
    <3>1. /\ pc = "closeLaunch" /\ mem = disk /\ disk' = disk /\ SetsBack /\ Secure("firefox")
          /\ active' = active
      BY <1>0, <2>4 DEF CloseLaunch, RestoredInv, ClosePC, HandledByClose, Starts, Relaunch, leech, StoppedInv
    <3>2. Secure("firefox")'
      <4>1. ~SwapCopy
        BY <3>1 DEF SwapCopy
      <4>2. QED
        BY <1>0, <3>1, <4>1, SecureStays
    <3>3. CASE loc.b = "firefox"
      <4>1. pc' = pc /\ mem' = mem
        BY <2>4, <3>3 DEF CloseLaunch
      <4>2. QED
        BY <3>1, <4>1 DEF RestoredInv, SwapPC, SetsBack
    <3>4. CASE loc.b # "firefox"
      <4>1. pc' = "save" /\ mem'.snap = mem.snap
        BY <1>0, <2>4, <3>4 DEF CloseLaunch, PauseState
      <4>2. QED
        BY <3>1, <3>2, <4>1 DEF RestoredInv, SwapPC, SyncPC, ClosePC, HandledByClose, SetsBack
    <3>5. QED
      BY <3>3, <3>4
  <2>5. QED
    BY <1>8, <2>1, <2>2, <2>3, <2>4
<1>9. CASE PollTick
  BY <1>9 DEF PollTick, Poll, RestoredInv, HandledByClose, SwapPC
<1>10. CASE Save
  BY <1>10 DEF Save, RestoredInv, HandledByClose, SwapPC
<1>11. CASE StartChallenge \/ FailChallenge
  <2>1. /\ pc' = "save" /\ disk' = disk /\ disk = mem /\ mem.phase # 2
    BY <1>11 DEF StartChallenge, FailChallenge, Poll, RestoredInv
  <2>2. QED
    BY <2>1 DEF RestoredInv, HandledByClose, SwapPC, SyncPC, ClosePC
<1>12. CASE Grant
  <2>1. pc' = "swap" /\ mem'.phase = 2 /\ loc'.after = "save"
    BY <1>0, <1>12 DEF Grant, Local
  <2>2. QED
    BY <2>1 DEF RestoredInv, HandledByClose, SwapPC, SyncPC, ClosePC
<1>13. CASE User \/ SlowHelper \/ UNCHANGED vars
  <2>1. UNCHANGED <<pc, loc, mem, disk>>
    BY <1>13 DEF SlowHelper, User, vars, Outside, StartBrowser, Appear, CloseBrowser,
       DisableAddon, EditRules, DisableSet, InstallSources, RefreshSources
  <2>2. CASE pc \in {"down", "poll"}
    BY <2>1, <2>2 DEF RestoredInv, HandledByClose, SwapPC, SyncPC, ClosePC
  <2>3. CASE pc \notin {"down", "poll"}
    <3>1. Secure("firefox") => active' = active
      BY <1>0, <1>13, <2>3, UserQuiet
    <3>2. pc # "swap" /\ Secure("firefox") => Secure("firefox")'
      BY <1>0, SecureStays DEF SwapCopy
    <3>3. QED
      BY <1>0, <2>1, <3>1, <3>2 DEF RestoredInv, StoppedInv, HandledByClose, SetsBack
  <2>4. QED
    BY <2>2, <2>3
<1>14. QED
  BY <1>3, <1>4, <1>6, <1>7, <1>8, <1>9, <1>10, <1>11, <1>12, <1>13 DEF Next, Daemon, Challenge

\* Once the file says that a window is over, the sets that were active at its
\* grant are active, wherever cycles were killed and however slow helpers are,
\* if they do not fail: a helper that does leaves the sets as they are.
THEOREM SetsRestoredHolds ==
  ASSUME Obedient, MaxFails = 0
  PROVE  Spec => SetsRestored
<1>1. Init => RestoredInv
  BY DEF Init, RestoredInv, SyncPC, ClosePC, SwapPC, HandledByClose
<1>2. TypeOK /\ StoppedInv /\ RestoredInv /\ [Next]_vars => RestoredInv'
  BY RestoredStep
<1>3. TypeOK /\ RestoredInv /\ [Next]_vars =>
        [disk.phase = 2 /\ disk'.phase = 0 /\ disk'.snap = 1 => active']_vars
  <2> SUFFICES ASSUME RestoredInv, Next,
                      disk.phase = 2, disk'.phase = 0, disk'.snap = 1
               PROVE  active'
    BY DEF vars
  <2>1. disk' # disk
    OBVIOUS
  <2>2. Save
    <3>1. ~(\/ Kill \/ RuntimeMax \/ ExitCycle \/ SlowHelper \/ StartCycle \/ User)
      BY <2>1 DEF Kill, RuntimeMax, ExitCycle, EndProcess, SlowHelper, StartCycle, User, Outside,
         StartBrowser, Appear, CloseBrowser, DisableAddon, EditRules, DisableSet,
         InstallSources, RefreshSources
    <3>2. ~(\/ AddonActive \/ AddonDisabled \/ AddonWrite \/ Compare \/ Extension
            \/ NoRestart \/ AlreadyKilled \/ Restart \/ Launch \/ Touch
            \/ DriftIgnored \/ DriftStopped \/ DriftRunning \/ DriftSync \/ DriftLaunch)
      BY <2>1 DEF AddonActive, AddonDisabled, AddonWrite, Compare, Extension, NoRestart,
         AlreadyKilled, Restart, Launch, Touch, DriftIgnored, DriftStopped, DriftRunning,
         DriftSync, DriftLaunch, Step
    <3>3. ~(\/ SwapCopy \/ SwapTerm \/ SwapLaunch \/ CloseTerm \/ CloseCopy \/ CloseSets
            \/ CloseRules \/ CloseLaunch \/ PollTick \/ CloseWindow \/ Challenge)
      BY <2>1 DEF SwapCopy, SwapTerm, SwapLaunch, CloseTerm, CloseCopy, CloseSets, CloseRules,
         CloseLaunch, PollTick, CloseWindow, Challenge, StartChallenge, FailChallenge, Grant, Step
    <3>4. QED
      BY <3>1, <3>2, <3>3 DEF Next, Daemon
  <2>3. QED
    BY <2>2 DEF Save, RestoredInv, SetsBack, leech
<1>4. QED
  BY <1>1, <1>2, <1>3, BrowserTyped, StoppedInvariant, PTL DEF Spec, SetsRestored
=============================================================================
