------------------------ MODULE HostProtectionProofs ------------------------
(***************************************************************************)
(* HostProtection implements ProtectedFiles, for every manifest and every  *)
(* value of the other constants: what is proved of the files holds under   *)
(* the boot units and the update runner as well.                           *)
(***************************************************************************)
EXTENDS HostProtection, ProtectedFilesProofs

\* The runner's own types: all a step must know to be one of FilesNext.
RunTypeOK == run \in Run /\ boot \in Boot

LEMMA HostTypes ==
  /\ Len(Manifest) \in Nat
  /\ \A i \in 0..Len(Manifest) : i < Len(Manifest) => Manifest[i + 1] \in Files
  /\ {ObjectFile, UpdaterFile, RunnerFile, PinFile} \subseteq Files
  /\ MaxBoots \in Nat /\ 0 \in 0..MaxBoots /\ 0 \in 0..Len(Manifest)
BY HostAssumption

LEMMA NoRunType == NoRun \in Run
BY HostTypes, VersionTypes DEF NoRun, Run

LEMMA HostInitTypes == Init => FilesInit /\ HostTypeOK
<1>1. Init => FilesInit
  BY DEF Init
<1>2. Init => run \in Run
  BY NoRunType DEF Init
<1>3. Init => boot \in Boot
  BY HostTypes DEF Init, Boot
<1>4. Init => lsm \in BOOLEAN /\ firstboot \in BOOLEAN /\ persist \in BOOLEAN
  BY DEF Init
<1>5. QED
  BY <1>1, <1>2, <1>3, <1>4, InitTypes DEF HostTypeOK
-----------------------------------------------------------------------------
(***************************************************************************)
(* Every step maps to a step of ProtectedFiles or leaves its state alone.  *)
(***************************************************************************)
\* The loader attaches programs and notes what failed.
LEMMA LoaderMaps ==
  ASSUME FilesTypeOK, LoaderFails \/ LoaderReturns0
  PROVE  Others
<1>1. faults' \in 0..MaxFaults
  BY FaultType DEF LoaderFails, LoaderReturns0, FilesTypeOK
<1>2. lapses' \in SUBSET Lapses /\ lapses \subseteq lapses'
  BY DEF LoaderFails, LoaderReturns0, FilesTypeOK, Lapses
<1>3. pinned' \in SUBSET Programs
  BY DEF LoaderFails, LoaderReturns0, FilesTypeOK
<1>4. UNCHANGED <<content, flag, upd, exit, daemon, built, excused>>
  BY DEF LoaderFails, LoaderReturns0
<1>5. QED
  BY <1>1, <1>2, <1>3, <1>4 DEF Others

LEMMA BootMaps ==
  ASSUME FilesTypeOK, BootStep
  PROVE  Others \/ UNCHANGED fileVars
<1>1. CASE FirstbootLoads
  BY <1>1, LoaderMaps DEF FirstbootLoads
<1>2. CASE FirstbootEnables
  <2>1. faults' \in 0..MaxFaults
    BY <1>2, FaultType DEF FirstbootEnables, FilesTypeOK
  <2>2. lapses' \in SUBSET Lapses /\ lapses \subseteq lapses'
    BY <1>2 DEF FirstbootEnables, FilesTypeOK, Lapses
  <2>3. QED
    BY <1>2, <2>1, <2>2 DEF FirstbootEnables, Others, FilesTypeOK
<1>3. CASE FirstbootRemoved
  BY <1>3 DEF FirstbootRemoved
<1>4. CASE UnitLoads
  BY <1>4, LoaderMaps DEF UnitLoads
<1>5. QED
  BY <1>1, <1>2, <1>3, <1>4 DEF BootStep

LEMMA RunnerMaps ==
  ASSUME FilesTypeOK, RunTypeOK, RunnerStep
  PROVE  \/ \E mode \in {"update", "set", "clear"}, f \in Files : Invoke(mode, f)
         \/ UpdaterKilled
         \/ Others
         \/ UNCHANGED fileVars
<1>0. ASSUME NEW at, NEW f, NEW success, Skip(at, f, success)
      PROVE  Others
  <2>1. faults' \in 0..MaxFaults
    BY <1>0, FaultType DEF Skip, FilesTypeOK
  <2>2. QED
    BY <1>0, <2>1 DEF Skip, Others, FilesTypeOK
<1>1. CASE CopyActor
  BY <1>1 DEF CopyActor
<1>2. CASE Entry
  <2>1. run.i < Len(Manifest) => Manifest[run.i + 1] \in Files
    BY HostTypes DEF RunTypeOK, Run
  <2>2. QED
    BY <1>0, <1>2, <2>1 DEF Entry, Calls, TornActor, Returned
<1>3. CASE LoopEnds
  BY <1>3 DEF LoopEnds
<1>4. CASE PinClear \/ PinSet
  BY <1>0, <1>4, HostTypes DEF PinClear, PinSet, Calls, TornActor, Returned
<1>5. CASE PinGenerated
  <2>1. UNCHANGED content \/ \E v \in Version \union {Torn} : Rewritten(PinFile, v)
    BY <1>5 DEF PinGenerated, FilesTypeOK
  <2>2. faults' \in 0..MaxFaults
    BY <1>5, FaultType DEF PinGenerated, FilesTypeOK
  <2>3. QED
    BY <1>5, <2>1, <2>2, HostTypes DEF PinGenerated, Others, FilesTypeOK
<1>6. CASE Detach
  BY <1>6 DEF Detach, Others, FilesTypeOK
<1>7. CASE Load
  BY <1>7, LoaderMaps DEF Load
<1>8. CASE RunnerKilled /\ ~UpdaterKilled
  <2>1. faults' \in 0..MaxFaults
    BY <1>8, FaultType DEF RunnerKilled, FilesTypeOK
  <2>2. lapses' \in SUBSET Lapses /\ lapses \subseteq lapses'
    BY <1>8 DEF RunnerKilled, FilesTypeOK, Lapses
  <2>3. QED
    BY <1>8, <2>1, <2>2 DEF RunnerKilled, Others, FilesTypeOK
<1>9. QED
  BY <1>1, <1>2, <1>3, <1>4, <1>5, <1>6, <1>7, <1>8 DEF RunnerStep

LEMMA StepMaps ==
  FilesTypeOK /\ RunTypeOK /\ [Next]_vars => [FilesNext]_fileVars
<1> SUFFICES ASSUME FilesTypeOK, RunTypeOK, [Next]_vars
             PROVE  [FilesNext]_fileVars
  OBVIOUS
<1>1. CASE Reboot
  BY <1>1 DEF Reboot, FilesNext
<1>2. CASE BootStep
  BY <1>2, BootMaps DEF FilesNext
<1>3. ASSUME NEW reload \in BOOLEAN, RunStarts(reload)
      PROVE  UNCHANGED fileVars
  BY <1>3 DEF RunStarts
<1>4. CASE RunnerStep
  BY <1>4, RunnerMaps DEF FilesNext
<1>5. CASE Elsewhere
  <2>1. (\E f \in Toggled, on \in BOOLEAN : OtherSetsFlag(f, on))
          => \E f \in Files, on \in BOOLEAN : OtherSetsFlag(f, on)
    BY HostAssumption
  <2>2. (\E sig \in Sent : Signalled(sig)) => \E sig \in Signals : Signalled(sig)
    BY HostAssumption
  <2>3. QED
    BY <1>5, <2>1, <2>2 DEF Elsewhere, FilesNext
<1>6. CASE UNCHANGED vars
  BY <1>6 DEF vars
<1>7. QED
  BY <1>1, <1>2, <1>3, <1>4, <1>5, <1>6 DEF Next
-----------------------------------------------------------------------------
(***************************************************************************)
(* The types of the boot units and of the runner.                          *)
(***************************************************************************)
LEMMA RunUpdates ==
  ASSUME RunTypeOK
  PROVE  /\ \A at \in {"entries", "tail", "pinGen", "pinSet", "reload", "detach", "load"} :
              [run EXCEPT !.at = at] \in Run /\ [run EXCEPT !.at = at, !.jumped = TRUE] \in Run
         /\ \A f \in Files, r \in Run : [r EXCEPT !.skipped = @ \union {f}] \in Run
         /\ \A w \in BOOLEAN : [run EXCEPT !.at = "entries", !.whole = w] \in Run
         /\ \A b \in BOOLEAN, r \in Run : [r EXCEPT !.calling = b] \in Run
         /\ run.i < Len(Manifest) => NextEntry \in Run
         /\ Finished \in Run
         /\ NoRun \in Run
<1>1. run.i < Len(Manifest) => NextEntry \in Run
  BY HostTypes DEF RunTypeOK, Run, NextEntry
<1>2. /\ run.goal \in Version /\ run.whole \in BOOLEAN
      /\ run.skipped \subseteq Files /\ run.jumped \in BOOLEAN
  BY DEF RunTypeOK, Run
<1>3. Finished \in Run
  BY <1>2, HostTypes, VersionTypes DEF Finished, NoRun, Run
<1>4. QED
  BY <1>1, <1>3, NoRunType DEF RunTypeOK, Run

LEMMA RunnerTypes ==
  ASSUME FilesTypeOK, RunTypeOK, RunnerStep
  PROVE  run' \in Run
<1>1. CASE CopyActor
  BY <1>1, RunUpdates DEF CopyActor
<1>2. ASSUME NEW at, NEW success \in Run, TornActor(at, success) \/ Returned(at, success)
      PROVE  run' \in Run
  BY <1>2, RunUpdates DEF TornActor, Returned, Aborts
<1>3. ASSUME NEW at, NEW mode, NEW f, Calls(at, mode, f)
      PROVE  run' \in Run
  BY <1>3, RunUpdates DEF Calls, RunTypeOK
<1>0. ASSUME NEW at, NEW f \in Files, NEW success \in Run, Skip(at, f, success)
      PROVE  run' \in Run
  BY <1>0, RunUpdates DEF Skip
<1>4. CASE Entry
  <2>1. run.i < Len(Manifest) => Manifest[run.i + 1] \in Files
    BY HostTypes DEF RunTypeOK, Run
  <2>2. QED
    BY <1>0, <1>2, <1>3, <1>4, <2>1, RunUpdates DEF Entry
<1>5. CASE LoopEnds
  BY <1>5, RunUpdates DEF LoopEnds, Aborts
<1>6. CASE PinClear \/ PinSet
  <2>1. [run EXCEPT !.at = "pinGen"] \in Run /\ [run EXCEPT !.at = "reload"] \in Run
    BY RunUpdates
  <2>2. QED
    BY <1>0, <1>2, <1>3, <1>6, <2>1, HostTypes DEF PinClear, PinSet
<1>7. CASE PinGenerated \/ Detach \/ Load \/ RunnerKilled
  BY <1>7, RunUpdates DEF PinGenerated, Detach, Load, RunnerKilled, Aborts
<1>8. QED
  BY <1>1, <1>4, <1>5, <1>6, <1>7 DEF RunnerStep

LEMMA BootTypes ==
  ASSUME HostTypeOK, BootStep
  PROVE  /\ boot' \in Boot /\ run' = run
         /\ lsm' \in BOOLEAN /\ firstboot' \in BOOLEAN /\ persist' \in BOOLEAN
<1>1. \A at \in {"enable", "remove", "unit", "done"} : [boot EXCEPT !.at = at] \in Boot
  BY DEF HostTypeOK, Boot
<1>2. QED
  BY <1>1 DEF HostTypeOK, BootStep, FirstbootLoads, FirstbootEnables, FirstbootRemoved,
     UnitLoads, NextUnit, AfterLoad

LEMMA HostTypeStep == HostTypeOK /\ [Next]_vars => HostTypeOK'
<1> SUFFICES ASSUME HostTypeOK, [Next]_vars
             PROVE  HostTypeOK'
  OBVIOUS
<1> USE DEF HostTypeOK, RunTypeOK
<1>1. FilesTypeOK'
  BY StepMaps, FilesTypeStep
<1>2. CASE Reboot
  <2>1. run' \in Run
    BY <1>2, NoRunType DEF Reboot
  <2>2. boot' \in Boot
    BY <1>2, HostTypes DEF Reboot, Boot
  <2>3. QED
    BY <1>1, <1>2, <2>1, <2>2 DEF Reboot
<1>3. CASE BootStep
  BY <1>1, <1>3, BootTypes
<1>4. ASSUME NEW reload \in BOOLEAN, RunStarts(reload)
      PROVE  HostTypeOK'
  <2>1. content[RunnerFile] \in Version \union {Torn} /\ built \in Version
    BY HostTypes DEF FilesTypeOK
  <2>2. [NoRun EXCEPT !.at = "actor", !.script = content[RunnerFile],
           !.goal = built, !.reload = reload] \in Run
    BY <2>1, HostTypes, VersionTypes DEF NoRun, Run
  <2>3. run' \in Run
    BY <1>4, <2>2, NoRunType DEF RunStarts, Aborts
  <2>4. QED
    BY <1>1, <1>4, <2>3 DEF RunStarts
<1>5. CASE RunnerStep
  <2>1. run' \in Run
    BY <1>5, RunnerTypes
  <2>2. UNCHANGED <<boot, lsm, firstboot, persist>>
    BY <1>5 DEF RunnerStep, CopyActor, Entry, LoopEnds, PinClear, PinGenerated, PinSet,
       Detach, Load, RunnerKilled, Skip, Calls, TornActor, Returned
  <2>3. QED
    BY <1>1, <2>1, <2>2
<1>6. CASE Elsewhere \/ UNCHANGED vars
  BY <1>1, <1>6 DEF Elsewhere, hostVars, vars
<1>7. QED
  BY <1>2, <1>3, <1>4, <1>5, <1>6 DEF Next

\* Whatever the runner's script does after it was rewritten, and wherever the
\* machine was switched off, units and runner are in one of their places.
THEOREM HostTyped == Spec => []HostTypeOK
<1>1. Init => HostTypeOK
  BY HostInitTypes
<1>2. HostTypeOK /\ [Next]_vars => HostTypeOK'
  BY HostTypeStep
<1>3. QED
  BY <1>1, <1>2, PTL DEF Spec

\* The boot units and the update runner do to the files, to the daemon and to
\* the LSM programs only what ProtectedFiles allows: the detailed
\* specification implements the abstract one.
THEOREM ImplementsFiles == Spec => FilesSpec
<1>1. Init => FilesInit
  BY HostInitTypes
<1>2. HostTypeOK /\ [Next]_vars => [FilesNext]_fileVars
  BY StepMaps DEF HostTypeOK, RunTypeOK
<1>3. QED
  BY <1>1, <1>2, HostTyped, PTL DEF Spec, FilesSpec

\* LockedWhenIdle of the scripts, for every manifest and every value of the
\* other constants: whatever the runner, the boot units, power-offs and other
\* processes do, a file the updater has let go of is immutable again.
THEOREM HostLockedWhenIdle == Spec => []LockedWhenIdle
BY ImplementsFiles, LockedWhenIdleHolds, PTL
-----------------------------------------------------------------------------
(***************************************************************************)
(* CompleteRun, for every manifest: what a run of the update runner that   *)
(* says "done" has installed.                                              *)
(***************************************************************************)
\* The entry has at least the version the run set out to install.
Fresh(f) == content[f] >= run.goal

\* Or the run has said SKIP of it.
Passed(f) == f \in run.skipped \/ Fresh(f)

\* The updater is at work on f, or has failed: the run will not go on.
Unsettled(f) ==
  /\ run.at = "entries" /\ run.calling
  /\ IF upd.at = "none" THEN exit = 1 ELSE upd.file = f

(***************************************************************************)
(* The inductive invariant.  The updater works only for the runner, on the *)
(* entry the runner is at, and has written that when it comes to set the   *)
(* flag; the entries before are fresh, but for one that is listed twice.   *)
(***************************************************************************)
UpdaterServesRun ==
  /\ upd.at # "none" => run.calling
  /\ run.calling => run.at \in {"entries", "tail", "pinSet"}
  /\ run.at = "entries" /\ run.calling => run.i < Len(Manifest)
  /\ upd.at # "none" /\ run.at = "entries"
       => upd.mode = "update" /\ upd.file = Manifest[run.i + 1]
  /\ upd.at # "none" /\ run.at # "entries" => upd.mode # "update"
  /\ upd.at \in {"open", "write", "rename"} => upd.mode = "update"
  /\ upd.at = "clear" => upd.mode # "set"
  /\ upd.at = "set" /\ upd.mode = "update" => Fresh(upd.file)

EntriesFresh ==
  /\ run.goal <= built
  /\ run.at \in {"tail", "pinGen", "pinSet", "reload", "detach", "load"}
       => run.i = Len(Manifest)
  /\ run.at = "actor" => run.i = 0
  /\ run.done => run.at = "idle"
  /\ run.done /\ run.whole => \A i \in 1..Len(Manifest) : Passed(Manifest[i])
  /\ run.whole /\ run.at # "idle" =>
       \A i \in 1..run.i : Passed(Manifest[i]) \/ Unsettled(Manifest[i])
  /\ run.at = "entries" /\ run.calling /\ upd.at = "none" /\ exit = 0
       => Fresh(Manifest[run.i + 1])

CompleteInv == UpdaterServesRun /\ EntriesFresh
-----------------------------------------------------------------------------
LEMMA ManifestFiles ==
  /\ Len(Manifest) \in Nat
  /\ \A i \in 1..Len(Manifest) : Manifest[i] \in Files
BY HostAssumption

\* What no step but those of the updater and of the runner changes.
LEMMA CompleteUnchanged ==
  ASSUME CompleteInv, UNCHANGED <<run, upd, exit, content>>, run.goal <= built'
  PROVE  CompleteInv'
BY DEF CompleteInv, UpdaterServesRun, EntriesFresh, Passed, Fresh, Unsettled

\* A runner that is not there, or has not begun with the entries.
LEMMA CompleteAborted ==
  ASSUME HostTypeOK', UNCHANGED <<upd, exit, content>>, upd.at = "none", run' = NoRun
  PROVE  CompleteInv'
<1>1. built' \in Nat
  BY VersionTypes DEF HostTypeOK, FilesTypeOK, Version
<1>2. run'.goal = 0 /\ ~run'.calling /\ run'.at = "idle" /\ ~run'.done
  BY DEF NoRun
<1>3. QED
  BY <1>1, <1>2 DEF CompleteInv, UpdaterServesRun, EntriesFresh, Unsettled

(***************************************************************************)
(* Steps of the updater.                                                   *)
(***************************************************************************)
LEMMA CompleteUpdater ==
  ASSUME HostTypeOK, CompleteInv, UpdaterStep \/ UpdaterKilled, UNCHANGED run
  PROVE  CompleteInv'
<1> USE DEF At
<1>1. /\ upd.at # "none" /\ run.calling /\ ~run.done
      /\ upd \in Updater /\ upd.file \in Files /\ built \in Int
      /\ content \in [Files -> Version \union {Torn}]
      /\ run.goal \in Int /\ run.at # "idle" /\ run.i \in 0..Len(Manifest)
  <2>1. upd.at # "none"
    BY DEF UpdaterStep, GetFlags, ClearFlag, OpenTruncate, WriteContent, RenameOver,
       SetFlag, RestoreFlag, UpdaterKilled
  <2>2. run.calling /\ ~run.done /\ run.at # "idle"
    BY <2>1 DEF CompleteInv, UpdaterServesRun, EntriesFresh
  <2>3. run.goal \in Int /\ built \in Int
    BY VersionTypes DEF HostTypeOK, FilesTypeOK, Run, Version
  <2>4. QED
    BY <2>1, <2>2, <2>3, FileAtWork DEF HostTypeOK, FilesTypeOK, Run
<1>2. UNCHANGED built
  BY DEF UpdaterStep, GetFlags, ClearFlag, OpenTruncate, WriteContent, RenameOver,
     SetFlag, RestoreFlag, UpdaterKilled
<1>3. \A pc : Goto(pc) => upd'.at = pc /\ upd'.mode = upd.mode /\ upd'.file = upd.file
  BY <1>1 DEF Goto, Updater
<1>4. \A status : Return(status) => upd'.at = "none" /\ exit' = status
  BY DEF Return, NoUpdater
<1>5. \A f \in Files : content'[f] = content[f] \/ f = upd.file
  BY <1>1 DEF UpdaterStep, GetFlags, ClearFlag, OpenTruncate, WriteContent, RenameOver,
     SetFlag, RestoreFlag, UpdaterKilled
\* It goes on, with the mode and the file it has.
<1>6. ASSUME NEW pc \in UpdPC \ {"none"}, Goto(pc),
             pc \in {"open", "write", "rename"} => upd.mode = "update",
             pc = "clear" => upd.mode # "set",
             pc = "set" /\ upd.mode = "update" => Fresh(upd.file)',
             upd.mode # "update" => UNCHANGED content
      PROVE  CompleteInv'
  <2>1. upd'.at = pc /\ upd'.mode = upd.mode /\ upd'.file = upd.file
    BY <1>3, <1>6
  <2>2. UpdaterServesRun'
    BY <1>1, <1>6, <2>1 DEF CompleteInv, UpdaterServesRun, Fresh
  <2>3. run.at = "entries" => \A f \in Files : Fresh(f) => Fresh(f)' \/ Unsettled(f)'
    BY <1>1, <1>5, <1>6, <2>1 DEF Fresh, Unsettled
  <2>4. run.at # "entries" => UNCHANGED content
    BY <1>1, <1>6 DEF CompleteInv, UpdaterServesRun
  <2>5. \A f \in Files : Unsettled(f) => Unsettled(f)'
    BY <1>1, <1>6, <2>1 DEF Unsettled
  <2>6. \A i \in 1..run.i : Manifest[i] \in Files
    BY <1>1, ManifestFiles
  <2>7. EntriesFresh'
    BY <1>1, <1>2, <1>6, <2>1, <2>3, <2>4, <2>5, <2>6
    DEF CompleteInv, EntriesFresh, Passed, Fresh, Unsettled
  <2>8. QED
    BY <2>2, <2>7 DEF CompleteInv
\* It fails.
<1>7. ASSUME Return(1), UNCHANGED content
      PROVE  CompleteInv'
  <2>1. upd'.at = "none" /\ exit' = 1
    BY <1>4, <1>7
  <2>2. UpdaterServesRun'
    BY <1>1, <2>1 DEF CompleteInv, UpdaterServesRun
  <2>3. EntriesFresh'
    BY <1>1, <1>2, <1>7, <2>1 DEF CompleteInv, EntriesFresh, Passed, Fresh, Unsettled
  <2>4. QED
    BY <2>2, <2>3 DEF CompleteInv
\* It succeeds.
<1>8. ASSUME Return(0), UNCHANGED content, upd.mode = "update" => Fresh(upd.file)
      PROVE  CompleteInv'
  <2>1. upd'.at = "none" /\ exit' = 0
    BY <1>4, <1>8
  <2>2. UpdaterServesRun'
    BY <1>1, <2>1 DEF CompleteInv, UpdaterServesRun
  <2>3. run.at = "entries" => Fresh(Manifest[run.i + 1]) /\ upd.file = Manifest[run.i + 1]
    BY <1>1, <1>8 DEF CompleteInv, UpdaterServesRun
  <2>4. \A i \in 1..run.i : Unsettled(Manifest[i]) => Fresh(Manifest[i])
    BY <1>1, <2>3 DEF Unsettled
  <2>5. EntriesFresh'
    BY <1>1, <1>2, <1>8, <2>1, <2>3, <2>4 DEF CompleteInv, EntriesFresh, Passed, Fresh
  <2>6. QED
    BY <2>2, <2>5 DEF CompleteInv
<1>9. {"clear", "open", "write", "rename", "set", "restore"} \subseteq UpdPC \ {"none"}
  BY DEF UpdPC
<1>10. CASE GetFlags
  <2>1. UNCHANGED content
    BY <1>10 DEF GetFlags
  <2>2. upd.mode \in {"update", "set", "clear"}
    BY <1>1 DEF Updater
  <2>3. \/ Return(1)
        \/ upd.mode = "update" /\ (Goto("clear") \/ Goto("open"))
        \/ upd.mode # "update" /\ (Return(0) \/ Goto(upd.mode))
    BY <1>10, <2>2 DEF GetFlags
  <2>4. QED
    BY <1>6, <1>7, <1>8, <1>9, <2>1, <2>2, <2>3
<1>11. CASE ClearFlag
  <2>1. UNCHANGED content /\ upd.mode # "set"
    BY <1>11 DEF ClearFlag, CompleteInv, UpdaterServesRun
  <2>2. \/ Return(1)
        \/ upd.mode = "clear" /\ Return(0)
        \/ upd.mode = "update" /\ Goto("open")
    BY <1>1, <1>11, <2>1 DEF ClearFlag, Updater
  <2>3. QED
    BY <1>6, <1>7, <1>8, <1>9, <2>1, <2>2
<1>12. CASE OpenTruncate
  <2>1. upd.mode = "update"
    BY <1>12 DEF OpenTruncate, CompleteInv, UpdaterServesRun
  <2>2. Goto("rename") \/ Goto("write") \/ Goto("restore")
    BY <1>12 DEF OpenTruncate
  <2>3. QED
    BY <1>6, <1>9, <2>1, <2>2
<1>13. CASE WriteContent \/ RenameOver
  <2>1. upd.mode = "update" /\ run.goal <= built
    BY <1>13 DEF WriteContent, RenameOver, CompleteInv, UpdaterServesRun, EntriesFresh
  <2>2. \/ Goto("restore")
        \/ Goto("set") /\ content' = [content EXCEPT ![upd.file] = built]
    BY <1>13 DEF WriteContent, RenameOver
  <2>3. content' = [content EXCEPT ![upd.file] = built] /\ Goto("set") => Fresh(upd.file)'
    <3>1. content' = [content EXCEPT ![upd.file] = built] => content'[upd.file] = built
      BY <1>1
    <3>2. Goto("set") => upd'.file = upd.file
      BY <1>3
    <3>3. QED
      BY <1>1, <2>1, <3>1, <3>2 DEF Fresh
  <2>4. QED
    BY <1>6, <1>9, <2>1, <2>2, <2>3
<1>14. CASE SetFlag \/ RestoreFlag \/ UpdaterKilled
  <2>1. UNCHANGED content
    BY <1>14 DEF SetFlag, RestoreFlag, UpdaterKilled
  <2>2. Return(1) \/ (Return(0) /\ upd.at = "set")
    BY <1>14 DEF SetFlag, RestoreFlag, UpdaterKilled
  <2>3. upd.at = "set" /\ upd.mode = "update" => Fresh(upd.file)
    BY DEF CompleteInv, UpdaterServesRun
  <2>4. QED
    BY <1>7, <1>8, <2>1, <2>2, <2>3
<1>15. QED
  BY <1>10, <1>11, <1>12, <1>13, <1>14 DEF UpdaterStep
-----------------------------------------------------------------------------
(***************************************************************************)
(* Steps of the runner.                                                    *)
(***************************************************************************)
LEMMA CompleteRunner ==
  ASSUME HostTypeOK, CompleteInv, RunnerStep, HostTypeOK'
  PROVE  CompleteInv'
<1>1. /\ run \in Run /\ run.goal \in Int /\ built \in Int /\ run.i \in Int
      /\ run.i \in 0..Len(Manifest) /\ Len(Manifest) \in Nat
      /\ content \in [Files -> Version \union {Torn}]
      /\ upd \in Updater /\ exit \in {0, 1}
  BY VersionTypes, ManifestFiles DEF HostTypeOK, FilesTypeOK, Run, Version
<1>2. run.at # "idle" /\ ~run.done
  <2>1. run.at # "idle"
    BY DEF RunnerStep, CopyActor, Entry, LoopEnds, PinClear, PinGenerated, PinSet,
       Detach, Load, RunnerKilled, Skip, Calls, TornActor, Returned, RunAt
  <2>2. QED
    BY <2>1 DEF CompleteInv, EntriesFresh
<1>3. ~run.calling => upd.at = "none"
  BY DEF CompleteInv, UpdaterServesRun
\* A runner that waits for nothing has settled all entries it has passed.
<1>4. run.whole /\ (run.calling /\ run.at = "entries" => upd.at = "none" /\ exit = 0)
        => \A i \in 1..run.i : Passed(Manifest[i])
  BY <1>2 DEF CompleteInv, EntriesFresh, Unsettled
<1>5. ASSUME UNCHANGED <<upd, exit, content, built>>, upd.at = "none", run' = NoRun
      PROVE  CompleteInv'
  BY <1>5, CompleteAborted
\* It moves on to a step at which it waits for nothing.
<1>6. ASSUME NEW r \in Run, run' = r, upd.at = "none", UNCHANGED <<upd, exit, built>>,
             ~r.calling, r.goal = run.goal, r.whole = run.whole, ~r.done, r.i = run.i,
             r.at \in {"entries", "tail", "pinGen", "pinSet", "reload", "detach", "load"},
             r.at # "entries" => run.i = Len(Manifest),
             run.whole => \A i \in 1..run.i : Passed(Manifest[i])',
             run.goal <= built
      PROVE  CompleteInv'
  BY <1>6 DEF CompleteInv, UpdaterServesRun, EntriesFresh
<1>7. /\ run.goal <= built
      /\ run.at \in {"tail", "pinGen", "pinSet", "reload", "detach", "load"}
           => run.i = Len(Manifest)
  BY DEF CompleteInv, EntriesFresh
<1>8. ASSUME NEW at \in {"entries", "tail", "pinGen", "pinSet", "reload", "detach", "load"},
             run' \in {[run EXCEPT !.at = at], [run EXCEPT !.at = at, !.jumped = TRUE]}
      PROVE  /\ run' \in Run /\ run'.at = at /\ run'.calling = run.calling
             /\ run'.goal = run.goal /\ run'.whole = run.whole /\ run'.done = run.done
             /\ run'.i = run.i /\ run'.skipped = run.skipped
  BY <1>1, <1>8 DEF Run
<1>9. ASSUME NEW at \in {"entries", "tail", "pinGen", "pinSet", "reload", "detach", "load"},
             run' \in {[run EXCEPT !.at = at], [run EXCEPT !.at = at, !.jumped = TRUE]},
             ~run.calling,
             UNCHANGED <<upd, exit, built, content>>,
             at # "entries" => run.i = Len(Manifest)
      PROVE  CompleteInv'
  <2>1. run.whole => \A i \in 1..run.i : Passed(Manifest[i])'
    BY <1>4, <1>8, <1>9 DEF Passed, Fresh
  <2>2. QED
    BY <1>2, <1>3, <1>6, <1>7, <1>8, <1>9, <2>1
<1>10. CASE CopyActor
  <2>1. /\ run'.at = "entries" /\ run'.i = 0 /\ ~run'.calling /\ run'.goal = run.goal
        /\ ~run'.done
    BY <1>1, <1>2, <1>10 DEF CopyActor, RunAt, Run, CompleteInv, EntriesFresh
  <2>2. UNCHANGED <<upd, exit, content, built>> /\ ~run.calling
    BY <1>10 DEF CopyActor, RunAt, fileVars
  <2>3. QED
    BY <1>3, <1>7, <2>1, <2>2 DEF CompleteInv, UpdaterServesRun, EntriesFresh
\* It calls the updater.
<1>11. ASSUME NEW at \in {"entries", "tail", "pinSet"},
              NEW mode \in {"update", "set", "clear"}, NEW f \in Files,
              Calls(at, mode, f),
              IF at = "entries"
              THEN mode = "update" /\ run.i < Len(Manifest) /\ f = Manifest[run.i + 1]
              ELSE mode # "update"
       PROVE  CompleteInv'
  <2>1. /\ upd' = [at |-> "get", mode |-> mode, file |-> f]
        /\ UNCHANGED <<content, exit, built>> /\ run.at = at /\ ~run.calling
        /\ run' = [run EXCEPT !.calling = TRUE]
    BY <1>11 DEF Calls, Invoke, RunAt
  <2>2. /\ run'.calling /\ run'.at = run.at /\ run'.i = run.i /\ run'.goal = run.goal
        /\ run'.whole = run.whole /\ run'.done = run.done /\ run'.skipped = run.skipped
    BY <1>1, <2>1 DEF Run
  <2>3. run.whole => \A i \in 1..run.i : Passed(Manifest[i])'
    BY <1>4, <2>1, <2>2 DEF Passed, Fresh
  <2>4. UpdaterServesRun'
    BY <1>11, <2>1, <2>2 DEF UpdaterServesRun
  <2>5. EntriesFresh'
    BY <1>2, <1>7, <2>1, <2>2, <2>3 DEF EntriesFresh, CompleteInv
  <2>6. QED
    BY <2>4, <2>5 DEF CompleteInv
\* The updater has ended; after the one of an entry, that one is fresh too.
<1>12. CASE run.at = "entries" /\ Returned("entries", NextEntry)
  <2>1. upd.at = "none" /\ run.calling /\ UNCHANGED <<upd, exit, content, built>>
    BY <1>12 DEF Returned, fileVars
  <2>2. CASE run' = NoRun
    BY <1>5, <2>1, <2>2
  <2>3. CASE exit = 0 /\ run' = [NextEntry EXCEPT !.calling = FALSE]
    <3>1. /\ run'.at = "entries" /\ ~run'.calling /\ run'.i = run.i + 1
          /\ run'.goal = run.goal /\ run'.whole = run.whole /\ ~run'.done
          /\ run'.skipped = run.skipped
      BY <1>1, <1>2, <1>12, <2>3 DEF NextEntry, Run
    <3>2. Fresh(Manifest[run.i + 1])
      BY <1>12, <2>1, <2>3 DEF CompleteInv, EntriesFresh
    <3>3. run.whole => \A i \in 1..(run.i + 1) : Passed(Manifest[i])
      <4>1. \A i \in 1..(run.i + 1) : i \in 1..run.i \/ i = run.i + 1
        BY <1>1
      <4>2. QED
        BY <1>4, <2>1, <2>3, <3>2, <4>1 DEF Passed
    <3>4. run'.whole => \A i \in 1..run'.i : Passed(Manifest[i])'
      BY <2>1, <3>1, <3>3 DEF Passed, Fresh
    <3>5. QED
      BY <1>7, <2>1, <3>1, <3>4 DEF CompleteInv, UpdaterServesRun, EntriesFresh
  <2>4. QED
    BY <1>12, <2>2, <2>3 DEF Returned, Aborts
\* With a torn copy of the updater nothing is said of the entries.
<1>13. CASE TornActor("entries", NextEntry)
  <2>1. /\ ~run.whole /\ ~run.calling /\ UNCHANGED <<upd, exit, content, built>>
        /\ run.at = "entries" /\ run' \in {NoRun, NextEntry}
    BY <1>13 DEF TornActor, RunAt, fileVars
  <2>2. CASE run' = NextEntry
    <3>1. /\ run'.at = "entries" /\ ~run'.calling /\ run'.goal = run.goal
          /\ ~run'.whole /\ ~run'.done
      BY <1>1, <1>2, <2>1, <2>2 DEF NextEntry, Run
    <3>2. QED
      BY <1>3, <1>7, <2>1, <3>1 DEF CompleteInv, UpdaterServesRun, EntriesFresh
  <2>3. QED
    BY <1>3, <1>5, <2>1, <2>2
\* It says SKIP: the entry is passed.
<1>0. ASSUME Skip("entries", Manifest[run.i + 1], NextEntry), run.i < Len(Manifest)
      PROVE  CompleteInv'
  <2>1. /\ ~run.calling /\ run.at = "entries" /\ UNCHANGED <<upd, exit, content, built>>
        /\ run' = [NextEntry EXCEPT !.skipped = @ \union {Manifest[run.i + 1]}]
    BY <1>0 DEF Skip, RunAt
  <2>2. /\ run'.at = "entries" /\ ~run'.calling /\ run'.i = run.i + 1
        /\ run'.goal = run.goal /\ run'.whole = run.whole /\ ~run'.done
        /\ run'.skipped = run.skipped \union {Manifest[run.i + 1]}
    BY <1>1, <1>2, <2>1 DEF NextEntry, Run
  <2>3. \A i \in 1..run'.i : i \in 1..run.i \/ i = run.i + 1
    BY <1>1, <2>2
  <2>4. run'.whole => \A i \in 1..run'.i : Passed(Manifest[i])'
    BY <1>4, <2>1, <2>2, <2>3 DEF Passed, Fresh
  <2>5. QED
    BY <1>3, <1>7, <2>1, <2>2, <2>4 DEF CompleteInv, UpdaterServesRun, EntriesFresh
<1>14. CASE Entry
  <2>1. run.i < Len(Manifest) /\ Manifest[run.i + 1] \in Files
    BY <1>1, <1>14, HostTypes DEF Entry
  <2>2. Calls("entries", "update", Manifest[run.i + 1]) => CompleteInv'
    BY <1>11, <2>1
  <2>3. QED
    BY <1>0, <1>12, <1>13, <1>14, <2>2 DEF Entry, Returned
<1>15. CASE LoopEnds
  <2>1. /\ ~run.calling /\ run.i = Len(Manifest) /\ UNCHANGED <<upd, exit, content, built>>
        /\ \/ \E at \in {"tail", "pinGen", "pinSet", "reload"} :
                run' \in {[run EXCEPT !.at = at], [run EXCEPT !.at = at, !.jumped = TRUE]}
           \/ run' = NoRun
    BY <1>15 DEF LoopEnds, RunAt, Aborts, fileVars
  <2>2. QED
    BY <1>3, <1>5, <1>9, <2>1
\* The same for the two calls on the pin file.
<1>16. ASSUME NEW at \in {"tail", "pinSet"}, NEW next \in {"pinGen", "reload"},
              TornActor(at, [run EXCEPT !.at = next]) \/ Returned(at, [run EXCEPT !.at = next])
       PROVE  CompleteInv'
  <2>1. /\ run.at = at /\ upd.at = "none" /\ UNCHANGED <<upd, exit, content, built>>
        /\ run' = NoRun \/ (run' = [run EXCEPT !.at = next] /\ ~run.calling)
             \/ run' = [[run EXCEPT !.at = next] EXCEPT !.calling = FALSE]
    BY <1>3, <1>16 DEF TornActor, Returned, RunAt, Aborts, fileVars
  <2>2. run.i = Len(Manifest)
    BY <1>7, <2>1
  <2>3. CASE run' = [[run EXCEPT !.at = next] EXCEPT !.calling = FALSE]
    <3>1. /\ run' \in Run /\ run'.at = next /\ ~run'.calling /\ run'.goal = run.goal
          /\ run'.whole = run.whole /\ run'.done = run.done /\ run'.i = run.i
          /\ run'.skipped = run.skipped
      BY <1>1, <2>3 DEF Run
    <3>2. run.whole => \A i \in 1..run.i : Passed(Manifest[i])'
      BY <1>4, <2>1, <3>1 DEF Passed, Fresh
    <3>3. QED
      BY <1>2, <1>6, <1>7, <2>1, <2>2, <3>1, <3>2
  <2>4. QED
    BY <1>5, <1>9, <2>1, <2>2, <2>3
<1>17. CASE PinClear
  <2>1. CASE RunAt("tail") /\ run' = [run EXCEPT !.at = "pinGen"] /\ UNCHANGED fileVars
    BY <1>7, <1>9, <2>1 DEF RunAt, fileVars
  <2>2. Calls("tail", "clear", PinFile) => CompleteInv'
    BY <1>11, HostTypes
  <2>3. ASSUME Skip("tail", PinFile, [run EXCEPT !.at = "reload"])
        PROVE  CompleteInv'
    <3>1. /\ ~run.calling /\ run.at = "tail" /\ UNCHANGED <<upd, exit, content, built>>
          /\ run' = [[run EXCEPT !.at = "reload"] EXCEPT !.skipped = @ \union {PinFile}]
      BY <2>3 DEF Skip, RunAt
    <3>2. /\ run' \in Run /\ run'.at = "reload" /\ ~run'.calling /\ run'.goal = run.goal
          /\ run'.whole = run.whole /\ run'.done = run.done /\ run'.i = run.i
          /\ run.skipped \subseteq run'.skipped
      BY <1>1, <3>1, HostTypes DEF Run
    <3>3. run.whole => \A i \in 1..run.i : Passed(Manifest[i])'
      BY <1>4, <3>1, <3>2 DEF Passed, Fresh
    <3>4. QED
      BY <1>2, <1>3, <1>6, <1>7, <3>1, <3>2, <3>3
  <2>4. QED
    BY <1>16, <1>17, <2>1, <2>2, <2>3 DEF PinClear
<1>18. CASE PinSet
  <2>1. Calls("pinSet", "set", PinFile) => CompleteInv'
    BY <1>11, HostTypes
  <2>2. QED
    BY <1>16, <1>18, <2>1 DEF PinSet
<1>19. CASE PinGenerated
  <2>1. /\ run.at = "pinGen" /\ ~run.calling /\ UNCHANGED <<upd, exit, built>>
        /\ run' = NoRun \/ (run' = [run EXCEPT !.at = "pinSet"] /\ Rewritten(PinFile, built))
    BY <1>19 DEF PinGenerated, RunAt, Aborts
  <2>2. CASE run' = NoRun
    <3>1. /\ ~run'.calling /\ run'.at = "idle" /\ ~run'.done /\ run'.goal = 0
      BY <2>2 DEF NoRun
    <3>2. built \in Nat
      BY VersionTypes DEF HostTypeOK, FilesTypeOK, Version
    <3>3. QED
      BY <1>3, <2>1, <3>1, <3>2 DEF CompleteInv, UpdaterServesRun, EntriesFresh
  <2>3. CASE run' = [run EXCEPT !.at = "pinSet"] /\ Rewritten(PinFile, built)
    <3>1. run'.goal = run.goal /\ run'.skipped = run.skipped
      BY <1>8, <2>3
    <3>2. \A f \in Files : Passed(f) => Passed(f)'
      BY <1>1, <1>7, <2>3, <3>1 DEF Rewritten, Passed, Fresh
    <3>3. run.whole => \A i \in 1..run.i : Passed(Manifest[i])'
      <4>1. \A i \in 1..run.i : Manifest[i] \in Files
        BY <1>1, ManifestFiles
      <4>2. QED
        BY <1>4, <2>1, <3>2, <4>1
    <3>4. QED
      BY <1>2, <1>3, <1>6, <1>7, <1>8, <2>1, <2>3, <3>3
  <2>4. QED
    BY <2>1, <2>2, <2>3
\* It says "done": every entry is fresh, and nothing rewrites one until the
\* next run.
<1>20. ASSUME run' = Finished, ~run.calling, run.at \in {"reload", "load"},
              UNCHANGED <<upd, exit, content, built>>
       PROVE  CompleteInv'
  <2>1. /\ run'.at = "idle" /\ ~run'.calling /\ run'.goal = run.goal /\ run'.done
        /\ run'.whole = run.whole /\ run'.skipped = run.skipped
    BY <1>20 DEF Finished, NoRun
  <2>2. run.whole => \A i \in 1..Len(Manifest) : Passed(Manifest[i])'
    BY <1>4, <1>7, <1>20, <2>1 DEF Passed, Fresh
  <2>3. QED
    BY <1>3, <1>7, <1>20, <2>1, <2>2 DEF CompleteInv, UpdaterServesRun, EntriesFresh
<1>21. CASE Detach
  <2>1. /\ run.at \in {"reload", "detach"} /\ ~run.calling
        /\ UNCHANGED <<upd, exit, content, built>>
        /\ \/ run' = Finished /\ run.at = "reload"
           \/ \E at \in {"detach", "load"} : run' = [run EXCEPT !.at = at]
    BY <1>21 DEF Detach, RunAt
  <2>2. QED
    BY <1>7, <1>9, <1>20, <2>1
<1>22. CASE Load
  <2>1. /\ run.at = "load" /\ ~run.calling /\ UNCHANGED <<upd, exit, content, built>>
        /\ run' = Finished \/ run' = NoRun
    BY <1>22 DEF Load, RunAt, LoaderFails, LoaderReturns0, Aborts
  <2>2. QED
    BY <1>3, <1>5, <1>20, <2>1
<1>23. CASE RunnerKilled
  <2>1. /\ upd'.at = "none" /\ run' = NoRun /\ UNCHANGED built
    BY <1>23 DEF RunnerKilled, UpdaterKilled, Return, NoUpdater, Aborts
  <2>2. /\ run'.goal = 0 /\ ~run'.calling /\ run'.at = "idle" /\ ~run'.done
    BY <2>1 DEF NoRun
  <2>3. 0 <= built
    BY VersionTypes DEF HostTypeOK, FilesTypeOK, Version
  <2>4. QED
    BY <2>1, <2>2, <2>3 DEF CompleteInv, UpdaterServesRun, EntriesFresh
<1>24. QED
  BY <1>10, <1>14, <1>15, <1>17, <1>18, <1>19, <1>21, <1>22, <1>23 DEF RunnerStep

LEMMA CompleteStep ==
  HostTypeOK /\ HostTypeOK' /\ CompleteInv /\ [Next]_vars => CompleteInv'
<1> SUFFICES ASSUME HostTypeOK, HostTypeOK', CompleteInv, [Next]_vars
             PROVE  CompleteInv'
  OBVIOUS
<1>0. run.goal <= built /\ run.goal \in Int /\ built \in Nat
  BY VersionTypes DEF CompleteInv, EntriesFresh, HostTypeOK, FilesTypeOK, Run, Version
<1>1. CASE Reboot
  <2>1. run' = NoRun /\ upd' = NoUpdater /\ UNCHANGED built
    BY <1>1 DEF Reboot, Rebooted
  <2>2. /\ run'.goal = 0 /\ ~run'.calling /\ run'.at = "idle" /\ ~run'.done
        /\ upd'.at = "none"
    BY <2>1 DEF NoRun, NoUpdater
  <2>3. QED
    BY <1>0, <2>1, <2>2 DEF CompleteInv, UpdaterServesRun, EntriesFresh
<1>2. CASE BootStep
  <2>1. UNCHANGED <<run, upd, exit, content, built>>
    BY <1>2 DEF BootStep, FirstbootLoads, FirstbootEnables, FirstbootRemoved, UnitLoads,
       LoaderFails, LoaderReturns0, fileVars
  <2>2. QED
    BY <1>0, <2>1, CompleteUnchanged
<1>3. ASSUME NEW reload \in BOOLEAN, RunStarts(reload)
      PROVE  CompleteInv'
  <2>1. upd.at = "none" /\ UNCHANGED <<upd, exit, content, built>>
    BY <1>3 DEF RunStarts, RunAt, CompleteInv, UpdaterServesRun, fileVars
  <2>2. CASE run' = NoRun
    BY <2>1, <2>2, CompleteAborted
  <2>3. CASE run' = [NoRun EXCEPT !.at = "actor", !.script = content[RunnerFile],
                       !.goal = built, !.reload = reload]
    <3>1. /\ run'.at = "actor" /\ run'.i = 0 /\ run'.goal = built /\ ~run'.done
          /\ ~run'.calling
      BY <2>3 DEF NoRun
    <3>2. QED
      BY <1>0, <2>1, <3>1 DEF CompleteInv, UpdaterServesRun, EntriesFresh
  <2>4. QED
    BY <1>3, <2>2, <2>3 DEF RunStarts, Aborts
<1>4. CASE RunnerStep
  BY <1>4, CompleteRunner
<1>5. CASE (UpdaterStep \/ UpdaterKilled) /\ UNCHANGED run
  BY <1>5, CompleteUpdater
<1>6. CASE UNCHANGED <<run, upd, exit, content>> /\ built <= built'
  <2>1. built' \in Nat
    BY VersionTypes DEF HostTypeOK, FilesTypeOK, Version
  <2>2. QED
    BY <1>0, <1>6, <2>1, CompleteUnchanged
<1>7. CASE Elsewhere \/ UNCHANGED vars
  <2>1. UNCHANGED run
    BY <1>7 DEF Elsewhere, hostVars, vars
  <2>2. \/ UpdaterStep \/ UpdaterKilled
        \/ UNCHANGED <<upd, exit, content>> /\ (UNCHANGED built \/ built' = built + 1)
    BY <1>7 DEF Elsewhere, OtherSetsFlag, DaemonStarts, DaemonCycleEnds, Signalled, Build,
       vars, fileVars
  <2>3. QED
    BY <1>0, <1>5, <1>6, <2>1, <2>2
<1>8. QED
  BY <1>1, <1>2, <1>3, <1>4, <1>7 DEF Next

LEMMA CompleteInvariant == Spec => []CompleteInv
<1>1. Init => CompleteInv
  BY VersionTypes DEF Init, FilesInit, NoRun, NoUpdater, CompleteInv, UpdaterServesRun,
     EntriesFresh
<1>2. QED
  BY <1>1, CompleteStep, HostTyped, PTL DEF Spec

\* CompleteRun for every manifest, every bound and every fault: when the runner
\* says "done", each file it lists and did not say SKIP of has the version it
\* set out to install, or a later one, and is immutable.
THEOREM CompleteRunHolds == Spec => []CompleteRun
<1>1. HostTypeOK /\ CompleteInv /\ LockedWhenIdle => CompleteRun
  <2> SUFFICES ASSUME HostTypeOK, CompleteInv, LockedWhenIdle, run.done, run.whole
               PROVE  \A i \in 1..Len(Manifest) :
                        \/ Manifest[i] \in run.skipped
                        \/ /\ content[Manifest[i]] >= run.goal
                           /\ flag[Manifest[i]] \/ Manifest[i] \in excused
    BY DEF CompleteRun
  <2>1. upd.at = "none"
    BY DEF CompleteInv, UpdaterServesRun, EntriesFresh
  <2>2. upd.file \notin Files
    BY <2>1, VersionTypes DEF HostTypeOK, FilesTypeOK
  <2>3. QED
    BY <2>2, ManifestFiles DEF LockedWhenIdle, CompleteInv, EntriesFresh, Passed, Fresh
<1>2. QED
  BY <1>1, CompleteInvariant, HostTyped, HostLockedWhenIdle, PTL
-----------------------------------------------------------------------------
(***************************************************************************)
(* PinRenewed.  The inductive form follows the script from the generated   *)
(* file to the call that sets its flag, and to the end of the run.         *)
(***************************************************************************)
PinTrusted == run.whole /\ ~run.jumped /\ PinFile \notin run.skipped

PinLocked == flag[PinFile] \/ PinFile \in Toggled

PinInv ==
  /\ run.at = "pinSet" /\ upd.at # "none" => upd.mode = "set" /\ upd.file = PinFile
  /\ PinTrusted =>
       /\ run.at \in {"pinSet", "reload", "detach", "load"} \/ run.done => Fresh(PinFile)
       /\ run.at \in {"reload", "detach", "load"} \/ run.done => PinLocked
       /\ run.at = "pinSet" /\ run.calling /\ upd.at = "none" /\ exit = 0 => PinLocked

\* A run that has ended early, or has not come to the pin file.
LEMMA PinEarly ==
  ASSUME run'.at \in {"idle", "actor", "entries", "tail", "pinGen"}, ~run'.done
  PROVE  PinInv'
BY DEF PinInv

\* The updater sets the flag of the pin file and leaves its content alone.
LEMMA PinUpdater ==
  ASSUME HostTypeOK, CompleteInv, PinInv, UpdaterStep \/ UpdaterKilled, UNCHANGED run
  PROVE  PinInv'
<1> USE DEF At
<1>1. upd.at # "none" /\ upd.file \in Files
  <2>1. upd.at # "none"
    BY DEF UpdaterStep, GetFlags, ClearFlag, OpenTruncate, WriteContent, RenameOver,
       SetFlag, RestoreFlag, UpdaterKilled
  <2>2. QED
    BY <2>1, FileAtWork DEF HostTypeOK
<1>2. run.calling /\ run.at \in {"entries", "tail", "pinSet"} /\ ~run.done
  BY <1>1 DEF CompleteInv, UpdaterServesRun, EntriesFresh
<1>3. CASE run.at # "pinSet"
  BY <1>2, <1>3, PinEarly
<1>4. CASE run.at = "pinSet"
  <2>1. upd.mode = "set" /\ upd.file = PinFile
    BY <1>1, <1>4 DEF PinInv
  <2>2. ~ClearFlag /\ ~OpenTruncate /\ ~WriteContent /\ ~RenameOver /\ UNCHANGED content
    <3>1. upd.at \notin {"open", "write", "rename", "clear"}
      BY <2>1 DEF CompleteInv, UpdaterServesRun
    <3>2. ~ClearFlag /\ ~OpenTruncate /\ ~WriteContent /\ ~RenameOver
      BY <3>1 DEF ClearFlag, OpenTruncate, WriteContent, RenameOver
    <3>3. QED
      BY <3>2 DEF UpdaterStep, GetFlags, SetFlag, RestoreFlag, UpdaterKilled
  <2>3. \/ Return(1)
        \/ Return(0) /\ flag'[PinFile]
        \/ Goto("set")
    <3>1. CASE GetFlags
      BY <2>1, <3>1 DEF GetFlags, HostTypeOK, FilesTypeOK
    <3>2. CASE SetFlag
      BY <1>1, <2>1, <3>2 DEF SetFlag, Locked, HostTypeOK, FilesTypeOK
    <3>3. QED
      BY <2>2, <3>1, <3>2 DEF UpdaterStep, RestoreFlag, UpdaterKilled
  <2>4. \/ upd'.at = "none" /\ exit' = 1
        \/ upd'.at = "none" /\ flag'[PinFile]
        \/ upd'.at = "set" /\ upd'.mode = "set" /\ upd'.file = PinFile
    BY <2>1, <2>3 DEF Return, Goto, NoUpdater, HostTypeOK, FilesTypeOK, Updater
  <2>5. QED
    BY <1>2, <1>4, <2>2, <2>4 DEF PinInv, PinTrusted, PinLocked, Fresh
<1>5. QED
  BY <1>3, <1>4

LEMMA PinRunner ==
  ASSUME HostTypeOK, CompleteInv, PinInv, RunnerStep
  PROVE  PinInv'
<1>1. /\ run \in Run /\ run.goal \in Int /\ built \in Int /\ run.goal <= built
      /\ content \in [Files -> Version \union {Torn}] /\ PinFile \in Files
  BY VersionTypes, HostTypes DEF HostTypeOK, FilesTypeOK, Run, Version, CompleteInv,
     EntriesFresh
<1>2. run.at # "idle" /\ ~run.done
  <2>1. run.at # "idle"
    BY DEF RunnerStep, CopyActor, Entry, LoopEnds, PinClear, PinGenerated, PinSet,
       Detach, Load, RunnerKilled, Skip, Calls, TornActor, Returned, RunAt
  <2>2. QED
    BY <2>1 DEF CompleteInv, EntriesFresh
<1>3. ~run.calling => upd.at = "none"
  BY DEF CompleteInv, UpdaterServesRun
<1>4. run' = NoRun => PinInv'
  BY PinEarly DEF NoRun
<1>5. CASE CopyActor \/ Entry
  <2>1. CASE CopyActor
    BY <1>1, <1>2, <2>1, PinEarly DEF CopyActor, Run
  <2>2. NextEntry.at = run.at /\ ~NextEntry.done
    BY <1>1, <1>2 DEF NextEntry, Run
  <2>3. CASE Skip("entries", Manifest[run.i + 1], NextEntry)
    <3>1. run.at = "entries" /\ run' = [NextEntry EXCEPT !.skipped = @ \union {Manifest[run.i + 1]}]
      BY <2>3 DEF Skip, RunAt
    <3>2. run'.at = "entries" /\ ~run'.done
      BY <1>1, <1>2, <3>1 DEF NextEntry, Run
    <3>3. QED
      BY <3>2, PinEarly
  <2>4. CASE Calls("entries", "update", Manifest[run.i + 1])
    <3>1. run'.at = "entries" /\ ~run'.done
      BY <1>1, <1>2, <2>4 DEF Calls, RunAt, Run
    <3>2. QED
      BY <3>1, PinEarly
  <2>5. CASE TornActor("entries", NextEntry) \/ Returned("entries", NextEntry)
    <3>1. run.at = "entries" /\ run' \in {NoRun, NextEntry, [NextEntry EXCEPT !.calling = FALSE]}
      BY <2>5 DEF TornActor, Returned, RunAt, Aborts
    <3>2. [NextEntry EXCEPT !.calling = FALSE].at = run.at
          /\ ~[NextEntry EXCEPT !.calling = FALSE].done
      BY <1>1, <1>2 DEF NextEntry, Run
    <3>3. QED
      BY <1>4, <2>2, <3>1, <3>2, PinEarly
  <2>6. QED
    BY <1>5, <2>1, <2>3, <2>4, <2>5 DEF Entry
<1>6. CASE LoopEnds
  <2>1. CASE run' = [run EXCEPT !.at = "tail"]
    BY <1>1, <1>2, <2>1, PinEarly DEF Run
  <2>2. ASSUME NEW at \in {"pinGen", "pinSet", "reload"},
               run' = [run EXCEPT !.at = at, !.jumped = TRUE]
        PROVE  PinInv'
    <3>1. run'.jumped
      BY <1>1, <2>2 DEF Run
    <3>2. upd'.at = "none"
      BY <1>3, <1>6 DEF LoopEnds, RunAt, fileVars
    <3>3. QED
      BY <3>1, <3>2 DEF PinInv, PinTrusted
  <2>3. QED
    BY <1>4, <1>6, <2>1, <2>2 DEF LoopEnds, Aborts
<1>7. CASE PinClear
  <2>1. CASE Skip("tail", PinFile, [run EXCEPT !.at = "reload"])
    <3>1. PinFile \in run'.skipped /\ run'.at = "reload"
      BY <1>1, <2>1 DEF Skip, Run
    <3>2. QED
      BY <3>1 DEF PinInv, PinTrusted
  <2>2. CASE ~Skip("tail", PinFile, [run EXCEPT !.at = "reload"])
    <3>1. \/ run' = NoRun
          \/ run' = [run EXCEPT !.at = "pinGen"]
          \/ run' = [[run EXCEPT !.at = "pinGen"] EXCEPT !.calling = FALSE]
          \/ run.at = "tail" /\ run' = [run EXCEPT !.calling = TRUE]
      BY <1>7, <2>2 DEF PinClear, Calls, TornActor, Returned, RunAt, Aborts
    <3>2. run' # NoRun => run'.at \in {"tail", "pinGen"} /\ ~run'.done
      BY <1>1, <1>2, <3>1 DEF Run
    <3>3. QED
      BY <1>4, <3>2, PinEarly
  <2>3. QED
    BY <2>1, <2>2
<1>8. CASE PinGenerated
  <2>1. CASE run' = [run EXCEPT !.at = "pinSet"] /\ Rewritten(PinFile, built)
    <3>1. run'.at = "pinSet" /\ ~run'.done /\ run'.goal = run.goal /\ ~run'.calling
      BY <1>1, <1>2, <1>8, <2>1 DEF PinGenerated, RunAt, Run
    <3>2. content'[PinFile] = built
      BY <1>1, <2>1 DEF Rewritten
    <3>3. upd'.at = "none"
      BY <1>3, <1>8 DEF PinGenerated, RunAt
    <3>4. QED
      BY <1>1, <3>1, <3>2, <3>3 DEF PinInv, Fresh
  <2>2. QED
    BY <1>4, <1>8, <2>1 DEF PinGenerated, Aborts
<1>9. CASE PinSet
  <2>1. CASE Calls("pinSet", "set", PinFile)
    <3>1. /\ run'.at = "pinSet" /\ run'.goal = run.goal /\ run'.whole = run.whole
          /\ run'.jumped = run.jumped /\ run'.skipped = run.skipped /\ ~run'.done
      BY <1>1, <1>2, <2>1 DEF Calls, RunAt, Run
    <3>2. upd' = [at |-> "get", mode |-> "set", file |-> PinFile] /\ UNCHANGED content
      BY <2>1 DEF Calls, Invoke
    <3>3. run.at = "pinSet"
      BY <2>1 DEF Calls, RunAt
    <3>4. QED
      BY <3>1, <3>2, <3>3 DEF PinInv, PinTrusted, Fresh
  <2>2. CASE TornActor("pinSet", [run EXCEPT !.at = "reload"])
    <3>1. CASE run' = [run EXCEPT !.at = "reload"]
      <4>1. ~run'.whole /\ run'.at = "reload"
        BY <1>1, <2>2, <3>1 DEF TornActor, Run
      <4>2. QED
        BY <4>1 DEF PinInv, PinTrusted
    <3>2. QED
      BY <1>4, <2>2, <3>1 DEF TornActor
  <2>3. CASE Returned("pinSet", [run EXCEPT !.at = "reload"])
    <3>1. run.at = "pinSet" /\ run.calling /\ upd.at = "none" /\ UNCHANGED fileVars
      BY <2>3 DEF Returned
    <3>2. CASE exit = 0 /\ run' = [[run EXCEPT !.at = "reload"] EXCEPT !.calling = FALSE]
      <4>1. /\ run'.at = "reload" /\ run'.goal = run.goal /\ run'.whole = run.whole
            /\ run'.jumped = run.jumped /\ run'.skipped = run.skipped
        BY <1>1, <3>2 DEF Run
      <4>2. QED
        BY <3>1, <3>2, <4>1 DEF PinInv, PinTrusted, PinLocked, Fresh, fileVars
    <3>3. QED
      BY <1>4, <2>3, <3>2 DEF Returned, Aborts
  <2>4. QED
    BY <1>9, <2>1, <2>2, <2>3 DEF PinSet
<1>10. CASE Detach \/ Load
  <2>1. /\ run.at \in {"reload", "detach", "load"} /\ UNCHANGED <<content, flag>>
        /\ \/ run' \in {NoRun, Finished}
           \/ \E at \in {"detach", "load"} : run' = [run EXCEPT !.at = at]
    BY <1>10 DEF Detach, Load, RunAt, LoaderFails, LoaderReturns0, Aborts
  <2>2. CASE run' = Finished
    <3>1. /\ run'.at = "idle" /\ run'.goal = run.goal /\ run'.whole = run.whole
          /\ run'.jumped = run.jumped /\ run'.skipped = run.skipped
      BY <2>2 DEF Finished, NoRun
    <3>2. QED
      BY <2>1, <3>1 DEF PinInv, PinTrusted, PinLocked, Fresh
  <2>3. ASSUME NEW at \in {"detach", "load"}, run' = [run EXCEPT !.at = at]
        PROVE  PinInv'
    <3>1. /\ run'.at = at /\ run'.goal = run.goal /\ run'.whole = run.whole /\ ~run'.done
          /\ run'.jumped = run.jumped /\ run'.skipped = run.skipped
      BY <1>1, <1>2, <2>3 DEF Run
    <3>2. QED
      BY <2>1, <3>1 DEF PinInv, PinTrusted, PinLocked, Fresh
  <2>4. QED
    BY <1>4, <2>1, <2>2, <2>3
<1>11. CASE RunnerKilled
  BY <1>4, <1>11 DEF RunnerKilled, Aborts
<1>12. QED
  BY <1>5, <1>6, <1>7, <1>8, <1>9, <1>10, <1>11 DEF RunnerStep

LEMMA PinStep ==
  HostTypeOK /\ CompleteInv /\ PinInv /\ [Next]_vars => PinInv'
<1> SUFFICES ASSUME HostTypeOK, CompleteInv, PinInv, [Next]_vars
             PROVE  PinInv'
  OBVIOUS
<1>1. CASE Reboot
  BY <1>1, PinEarly DEF Reboot, NoRun
<1>2. ASSUME NEW reload \in BOOLEAN, RunStarts(reload)
      PROVE  PinInv'
  <2>1. \/ run' = NoRun
        \/ run' = [NoRun EXCEPT !.at = "actor", !.script = content[RunnerFile],
                     !.goal = built, !.reload = reload]
    BY <1>2 DEF RunStarts, Aborts
  <2>2. CASE run' = NoRun
    <3>1. run'.at = "idle" /\ ~run'.done
      BY <2>2 DEF NoRun
    <3>2. QED
      BY <3>1, PinEarly
  <2>3. CASE run' = [NoRun EXCEPT !.at = "actor", !.script = content[RunnerFile],
                       !.goal = built, !.reload = reload]
    <3>1. run'.at = "actor" /\ ~run'.done
      BY <2>3 DEF NoRun
    <3>2. QED
      BY <3>1, PinEarly
  <2>4. QED
    BY <2>1, <2>2, <2>3
<1>3. CASE RunnerStep
  BY <1>3, PinRunner
<1>4. CASE (UpdaterStep \/ UpdaterKilled) /\ UNCHANGED run
  BY <1>4, PinUpdater
<1>5. ASSUME NEW f \in Toggled, NEW on \in BOOLEAN, OtherSetsFlag(f, on), UNCHANGED run
      PROVE  PinInv'
  <2>1. UNCHANGED <<content, upd, exit>>
    BY <1>5 DEF OtherSetsFlag
  <2>2. PinLocked => PinLocked'
    BY <1>5, HostTypes DEF OtherSetsFlag, PinLocked, HostTypeOK, FilesTypeOK
  <2>3. QED
    BY <1>5, <2>1, <2>2 DEF PinInv, PinTrusted, Fresh
<1>6. CASE UNCHANGED <<run, upd, exit, content, flag>>
  BY <1>6 DEF PinInv, PinTrusted, PinLocked, Fresh
<1>7. CASE BootStep
  <2>1. UNCHANGED <<run, upd, exit, content, flag>>
    BY <1>7 DEF BootStep, FirstbootLoads, FirstbootEnables, FirstbootRemoved, UnitLoads,
       LoaderFails, LoaderReturns0, fileVars
  <2>2. QED
    BY <1>6, <2>1
<1>8. CASE Elsewhere \/ UNCHANGED vars
  <2>1. UNCHANGED run
    BY <1>8 DEF Elsewhere, hostVars, vars
  <2>2. \/ UpdaterStep \/ UpdaterKilled
        \/ \E f \in Toggled, on \in BOOLEAN : OtherSetsFlag(f, on)
        \/ UNCHANGED <<upd, exit, content, flag>>
    BY <1>8 DEF Elsewhere, DaemonStarts, DaemonCycleEnds, Signalled, Build, vars, fileVars
  <2>3. QED
    BY <1>4, <1>5, <1>6, <2>1, <2>2
<1>9. QED
  BY <1>1, <1>2, <1>3, <1>7, <1>8 DEF Next

\* PinRenewed for every manifest, every bound and every fault: the three calls
\* on the pin file have all been done when the runner says "done", whatever cut
\* short the runs before it.
THEOREM PinRenewedHolds == Spec => []PinRenewed
<1>1. Init => PinInv
  BY DEF Init, PinInv, NoRun, FilesInit
<1>2. PinInv => PinRenewed
  BY DEF PinInv, PinRenewed, PinTrusted, PinLocked, Fresh
<1>3. QED
  BY <1>1, <1>2, PinStep, HostTyped, CompleteInvariant, PTL DEF Spec
-----------------------------------------------------------------------------
(***************************************************************************)
(* Armed.  The inductive form follows the boot: the programs are attached  *)
(* from the loader on, except while the runner reloads them, and one unit  *)
(* or the other will load them at the next boot.                           *)
(***************************************************************************)
Clean == lapses = {}

ArmedInv ==
  /\ (~firstboot \/ boot.at = "remove") /\ "enable" \notin lapses => persist
  /\ run.at # "idle" => boot.at = "done"
  /\ boot.at # "firstboot" /\ (boot.at = "unit" => ~boot.unit)
       /\ run.at \notin {"detach", "load"} /\ lsm /\ Clean => pinned = Programs

\* A loader that returns 0 has attached everything, or an attach call failed.
LEMMA LoaderArms ==
  ASSUME LoaderFails \/ LoaderReturns0
  PROVE  /\ Clean' => LoaderReturns0 /\ pinned' = Programs /\ lapses' = lapses
         /\ "enable" \notin lapses' => "enable" \notin lapses
BY DEF LoaderFails, LoaderReturns0, Clean

LEMMA ArmedBoot ==
  ASSUME HostTypeOK, ArmedInv, BootStep
  PROVE  ArmedInv'
<1> USE DEF ArmedInv
<1>1. boot.at # "done" /\ run.at = "idle" /\ UNCHANGED <<run, lsm>>
  BY DEF BootStep, FirstbootLoads, FirstbootEnables, FirstbootRemoved, UnitLoads
<1>2. \A at \in {"enable", "remove", "unit", "done"} :
        [boot EXCEPT !.at = at].at = at /\ [boot EXCEPT !.at = at].unit = boot.unit
  BY DEF HostTypeOK, Boot
<1>3. CASE FirstbootLoads
  <2>1. UNCHANGED <<firstboot, persist>>
    BY <1>3 DEF FirstbootLoads
  <2>2. CASE ~lsm /\ boot' = [boot EXCEPT !.at = NextUnit] /\ UNCHANGED fileVars
    BY <1>1, <1>2, <2>1, <2>2 DEF NextUnit, fileVars
  <2>3. CASE LoaderFails /\ boot' = [boot EXCEPT !.at = NextUnit]
    <3>1. ~Clean' /\ ("enable" \notin lapses' => "enable" \notin lapses)
      BY <2>3 DEF LoaderFails, Clean
    <3>2. QED
      BY <1>1, <1>2, <2>1, <2>3, <3>1 DEF NextUnit
  <2>4. CASE LoaderReturns0 /\ boot' = [boot EXCEPT !.at = AfterLoad]
    BY <1>1, <1>2, <2>1, <2>4, LoaderArms DEF AfterLoad
  <2>5. QED
    BY <1>3, <2>2, <2>3, <2>4 DEF FirstbootLoads
<1>4. CASE FirstbootEnables
  <2>1. boot'.at = "remove" /\ boot'.unit = boot.unit /\ UNCHANGED <<pinned, firstboot>>
    BY <1>2, <1>4 DEF FirstbootEnables
  <2>2. persist' \/ "enable" \in lapses'
    BY <1>4 DEF FirstbootEnables
  <2>3. Clean' => Clean
    BY <1>4 DEF FirstbootEnables, Clean
  <2>4. QED
    BY <1>1, <1>4, <2>1, <2>2, <2>3 DEF FirstbootEnables
<1>5. CASE FirstbootRemoved
  BY <1>1, <1>2, <1>5 DEF FirstbootRemoved, NextUnit, Clean, fileVars
<1>6. CASE UnitLoads
  <2>1. boot'.at = "done" /\ UNCHANGED <<firstboot, persist>> /\ boot.at = "unit"
    BY <1>2, <1>6 DEF UnitLoads
  <2>2. CASE boot.unit
    <3>1. LoaderFails \/ LoaderReturns0
      BY <1>6, <2>2 DEF UnitLoads
    <3>2. QED
      BY <1>1, <2>1, <3>1, LoaderArms
  <2>3. CASE ~boot.unit
    BY <1>1, <1>6, <2>1, <2>3 DEF UnitLoads, Clean, fileVars
  <2>4. QED
    BY <2>2, <2>3
<1>7. QED
  BY <1>3, <1>4, <1>5, <1>6 DEF BootStep

LEMMA ArmedRunner ==
  ASSUME HostTypeOK, UpdaterServesRun, ArmedInv, RunnerStep
  PROVE  ArmedInv'
<1> USE DEF ArmedInv
<1>1. run.at # "idle" /\ UNCHANGED <<boot, lsm, firstboot, persist>>
  BY DEF RunnerStep, CopyActor, Entry, LoopEnds, PinClear, PinGenerated, PinSet,
     Detach, Load, RunnerKilled, Skip, Calls, TornActor, Returned, RunAt
<1>2. \A at \in {"entries", "tail", "pinGen", "pinSet", "reload", "detach", "load"} :
        /\ [run EXCEPT !.at = at].at = at
        /\ \A w \in BOOLEAN : [run EXCEPT !.at = at, !.whole = w].at = at
  BY DEF HostTypeOK, Run
<1>3. NextEntry.at = run.at /\ \A r \in Run, b \in BOOLEAN : [r EXCEPT !.calling = b].at = r.at
  BY DEF HostTypeOK, Run, NextEntry
<1>4. NoRun.at = "idle" /\ Finished.at = "idle"
  BY DEF NoRun, Finished
<1>5. CASE Load
  <2>1. CASE LoaderFails
    BY <1>1, <2>1, LoaderArms DEF LoaderFails, Clean
  <2>2. CASE LoaderReturns0
    BY <1>1, <2>2, LoaderArms
  <2>3. QED
    BY <1>5, <2>1, <2>2 DEF Load
<1>6. CASE Detach
  <2>1. UNCHANGED lapses
    BY <1>6 DEF Detach
  <2>2. \/ run.at = "reload" /\ run' = Finished /\ UNCHANGED pinned
        \/ \E at \in {"detach", "load"} : run' = [run EXCEPT !.at = at]
    BY <1>6 DEF Detach, RunAt
  <2>3. \/ run.at = "reload" /\ run'.at = "idle" /\ UNCHANGED pinned
        \/ run'.at \in {"detach", "load"}
    <3>1. ASSUME NEW at \in {"detach", "load"}, run' = [run EXCEPT !.at = at]
          PROVE  run'.at = at
      BY <1>2, <3>1
    <3>2. QED
      BY <1>4, <2>2, <3>1
  <2>4. QED
    BY <1>1, <2>1, <2>3 DEF Clean
<1>7. CASE CopyActor \/ Entry \/ LoopEnds \/ PinClear \/ PinGenerated \/ PinSet
  <2>1. run.at \notin {"detach", "load"} /\ UNCHANGED <<pinned, lapses>>
    BY <1>7 DEF CopyActor, Entry, LoopEnds, PinClear, PinGenerated, PinSet,
       Skip, Calls, TornActor, Returned, RunAt, Invoke, fileVars
  <2>2. QED
    BY <1>1, <2>1 DEF Clean
<1>8. CASE RunnerKilled
  <2>1. UNCHANGED pinned /\ ("enable" \notin lapses' => "enable" \notin lapses)
    BY <1>8 DEF RunnerKilled, UpdaterKilled
  <2>2. Clean' => Clean /\ (run.at \notin {"detach", "load"} \/ UpdaterKilled)
    BY <1>8 DEF RunnerKilled, UpdaterKilled, Clean
  <2>3. UpdaterKilled => run.at \notin {"detach", "load"}
    BY DEF UpdaterKilled, UpdaterServesRun
  <2>4. QED
    BY <1>1, <2>1, <2>2, <2>3
<1>9. QED
  BY <1>5, <1>6, <1>7, <1>8 DEF RunnerStep

LEMMA ArmedStep ==
  HostTypeOK /\ UpdaterServesRun /\ ArmedInv /\ [Next]_vars => ArmedInv'
<1> SUFFICES ASSUME HostTypeOK, UpdaterServesRun, ArmedInv, [Next]_vars
             PROVE  ArmedInv'
  OBVIOUS
<1>1. CASE Reboot
  <2>1. /\ boot' = [at |-> IF firstboot THEN "firstboot" ELSE "unit",
                     unit |-> persist, count |-> boot.count + 1]
        /\ run' = NoRun /\ UNCHANGED <<firstboot, persist>>
        /\ lapses' = lapses \intersect {"enable"}
    BY <1>1 DEF Reboot, Rebooted
  <2>2. "enable" \notin lapses' => "enable" \notin lapses
    BY <2>1
  <2>3. Clean' => "enable" \notin lapses'
    BY DEF Clean
  <2>4. QED
    BY <2>1, <2>2, <2>3 DEF ArmedInv, NoRun
<1>2. CASE BootStep
  BY <1>2, ArmedBoot
<1>3. ASSUME NEW reload \in BOOLEAN, RunStarts(reload)
      PROVE  ArmedInv'
  BY <1>3 DEF RunStarts, RunAt, ArmedInv, Clean, fileVars
<1>4. CASE RunnerStep
  BY <1>4, ArmedRunner
<1>5. CASE Elsewhere \/ UNCHANGED vars
  <2>1. UNCHANGED <<hostVars, pinned, lapses>>
    BY <1>5 DEF Elsewhere, UpdaterStep, GetFlags, ClearFlag, OpenTruncate, WriteContent,
       RenameOver, SetFlag, RestoreFlag, UpdaterKilled, OtherSetsFlag, DaemonStarts,
       DaemonCycleEnds, Signalled, Build, vars, fileVars
  <2>2. QED
    BY <2>1 DEF ArmedInv, Clean, hostVars
<1>6. QED
  BY <1>1, <1>2, <1>3, <1>4, <1>5 DEF Next

\* Armed for every value of the constants: however often the machine boots, and
\* wherever it was switched off between the steps of the installer, nothing but
\* a failure of the loader, of an attach call or of systemctl leaves a program
\* detached once the units have run.
THEOREM ArmedHolds == Spec => []Armed
<1>1. Init => ArmedInv
  BY DEF Init, FilesInit, ArmedInv, NoRun
<1>2. HostTypeOK /\ CompleteInv /\ ArmedInv /\ [Next]_vars => ArmedInv'
  BY ArmedStep DEF CompleteInv
<1>3. ArmedInv => Armed
  BY DEF ArmedInv, Armed, Clean
<1>4. QED
  BY <1>1, <1>2, <1>3, HostTyped, CompleteInvariant, PTL DEF Spec
=============================================================================
