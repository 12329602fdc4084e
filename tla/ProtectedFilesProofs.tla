------------------------ MODULE ProtectedFilesProofs ------------------------
(***************************************************************************)
(* Theorems about ProtectedFiles, for every set of files, every bound on   *)
(* faults and versions and every StartLimitBurst.                          *)
(***************************************************************************)
EXTENDS ProtectedFiles, TLAPS

(***************************************************************************)
(* Types.                                                                  *)
(***************************************************************************)
LEMMA VersionTypes ==
  /\ MaxBuilt \in Nat /\ MaxFaults \in Nat /\ BURST \in Nat /\ BURST > 0
  /\ Torn \notin Version /\ 0 \in Version /\ 0 \in 0..BURST /\ 0 \in 0..MaxFaults
  /\ DaemonFile \in Files /\ NoFile \notin Files /\ Unlocked \subseteq Files
BY FilesAssumption DEF Version, Torn

LEMMA InitTypes == FilesInit => FilesTypeOK
<1>1. FilesInit => flag \in [Files -> BOOLEAN]
  BY Zenon DEF FilesInit
<1>2. QED
  BY <1>1, VersionTypes
  DEF FilesInit, FilesTypeOK, NoUpdater, Updater, UpdPC, NotRunning, Daemon

\* Whoever fails, the count of faults stays within its bound.
LEMMA FaultType ==
  ASSUME FilesTypeOK, NEW kind, Fault(kind)
  PROVE  faults' \in 0..MaxFaults
BY VersionTypes DEF FilesTypeOK, Fault

LEMMA ReturnType ==
  ASSUME NEW status \in {0, 1}, Return(status)
  PROVE  /\ upd' \in Updater /\ exit' \in {0, 1}
         /\ (upd'.at = "none") = (upd'.file = NoFile)
BY DEF Return, NoUpdater, Updater, UpdPC

LEMMA GotoType ==
  ASSUME FilesTypeOK, upd.at # "none", NEW pc \in UpdPC \ {"none"}, Goto(pc)
  PROVE  /\ upd' \in Updater /\ exit' \in {0, 1}
         /\ (upd'.at = "none") = (upd'.file = NoFile)
         /\ upd'.file = upd.file /\ upd'.mode = upd.mode /\ upd'.at = pc
BY DEF FilesTypeOK, Goto, Updater

\* An updater at work has a file.
LEMMA FileAtWork == FilesTypeOK /\ upd.at # "none" => upd.file \in Files
BY DEF FilesTypeOK, Updater

LEMMA SetFailsType ==
  ASSUME FilesTypeOK, upd.at # "none", SetFails
  PROVE  excused' \subseteq Files /\ flag' \in [Files -> BOOLEAN]
         /\ faults' \in 0..MaxFaults
BY FileAtWork, FaultType DEF FilesTypeOK, SetFails

LEMMA LockedType ==
  ASSUME FilesTypeOK, NEW f \in Files, Locked(f)
  PROVE  excused' \subseteq Files /\ flag' \in [Files -> BOOLEAN]
BY DEF FilesTypeOK, Locked

LEMMA LeftUnlockedType == FilesTypeOK => LeftUnlocked \subseteq Files
BY DEF FilesTypeOK, LeftUnlocked, Updater

LEMMA UpdaterStepType ==
  ASSUME FilesTypeOK, UpdaterStep
  PROVE  FilesTypeOK'
<1> USE DEF At
<1>1. CASE GetFlags
  <2>1. CASE Fault("getflags") /\ Return(1)
    BY <1>1, <2>1, FaultType, ReturnType DEF GetFlags, FilesTypeOK
  <2>2. CASE UNCHANGED faults
    <3>1. CASE Return(0)
      BY <1>1, <2>2, <3>1, ReturnType DEF GetFlags, FilesTypeOK
    <3>2. CASE \E pc \in {"clear", "open", "set"} : Goto(pc)
      <4>1. PICK pc \in {"clear", "open", "set"} : Goto(pc)
        BY <3>2
      <4>2. pc \in UpdPC \ {"none"} /\ upd.at # "none"
        BY <1>1 DEF GetFlags, UpdPC
      <4>3. QED
        BY <1>1, <2>2, <4>1, <4>2, GotoType DEF GetFlags, FilesTypeOK
    <3>3. upd.mode \in {"update", "set", "clear"}
      BY DEF FilesTypeOK, Updater
    <3>4. upd.mode = "update" \/ Return(0) \/ Goto(upd.mode) \/ (Fault("getflags") /\ Return(1))
      BY <1>1 DEF GetFlags
    <3>5. upd.mode = "update" => Goto("clear") \/ Goto("open") \/ (Fault("getflags") /\ Return(1))
      BY <1>1 DEF GetFlags
    <3>6. QED
      BY <2>1, <3>1, <3>2, <3>3, <3>4, <3>5
  <2>3. QED
    BY <1>1, <2>1, <2>2 DEF GetFlags
<1>2. CASE ClearFlag
  <2>1. upd.file \in Files /\ upd.at # "none" /\ "open" \in UpdPC \ {"none"}
    BY <1>2, FileAtWork DEF ClearFlag, UpdPC
  <2>2. flag' \in [Files -> BOOLEAN] /\ excused' \subseteq Files
    BY <1>2, <2>1 DEF ClearFlag, FilesTypeOK
  <2>3. faults' \in 0..MaxFaults
    BY <1>2, FaultType DEF ClearFlag, FilesTypeOK
  <2>4. Return(0) \/ Return(1) \/ Goto("open")
    BY <1>2 DEF ClearFlag
  <2>5. /\ upd' \in Updater /\ exit' \in {0, 1}
        /\ (upd'.at = "none") = (upd'.file = NoFile)
    BY <2>1, <2>4, ReturnType, GotoType
  <2>6. QED
    BY <1>2, <2>2, <2>3, <2>5 DEF ClearFlag, FilesTypeOK
<1>3. CASE OpenTruncate
  <2>1. upd.file \in Files /\ upd.at # "none"
        /\ {"rename", "write", "restore"} \subseteq UpdPC \ {"none"}
    BY <1>3, FileAtWork DEF OpenTruncate, UpdPC
  <2>2. content' \in [Files -> Version \union {Torn}]
    BY <1>3, <2>1 DEF OpenTruncate, FilesTypeOK
  <2>3. faults' \in 0..MaxFaults
    BY <1>3, FaultType DEF OpenTruncate, FilesTypeOK
  <2>4. Goto("rename") \/ Goto("write") \/ Goto("restore")
    BY <1>3 DEF OpenTruncate
  <2>5. /\ upd' \in Updater /\ exit' \in {0, 1}
        /\ (upd'.at = "none") = (upd'.file = NoFile)
    BY <2>1, <2>4, GotoType
  <2>6. QED
    BY <1>3, <2>2, <2>3, <2>5 DEF OpenTruncate, FilesTypeOK
<1>4. CASE WriteContent
  <2>1. upd.file \in Files /\ upd.at # "none" /\ {"set", "restore"} \subseteq UpdPC \ {"none"}
    BY <1>4, FileAtWork DEF WriteContent, UpdPC
  <2>2. content' \in [Files -> Version \union {Torn}]
    BY <1>4, <2>1 DEF WriteContent, FilesTypeOK
  <2>3. faults' \in 0..MaxFaults
    BY <1>4, FaultType DEF WriteContent, FilesTypeOK
  <2>4. Goto("set") \/ Goto("restore")
    BY <1>4 DEF WriteContent
  <2>5. /\ upd' \in Updater /\ exit' \in {0, 1}
        /\ (upd'.at = "none") = (upd'.file = NoFile)
    BY <2>1, <2>4, GotoType
  <2>6. QED
    BY <1>4, <2>2, <2>3, <2>5 DEF WriteContent, FilesTypeOK
<1>5. CASE RenameOver
  <2>1. upd.file \in Files /\ upd.at # "none" /\ {"set", "restore"} \subseteq UpdPC \ {"none"}
    BY <1>5, FileAtWork DEF RenameOver, UpdPC
  <2>2. content' \in [Files -> Version \union {Torn}]
    BY <1>5, <2>1 DEF RenameOver, FilesTypeOK
  <2>3. faults' \in 0..MaxFaults
    BY <1>5, FaultType DEF RenameOver, FilesTypeOK
  <2>4. Goto("set") \/ Goto("restore")
    BY <1>5 DEF RenameOver
  <2>5. /\ upd' \in Updater /\ exit' \in {0, 1}
        /\ (upd'.at = "none") = (upd'.file = NoFile)
    BY <2>1, <2>4, GotoType
  <2>6. daemon' \in Daemon
    BY <1>5 DEF RenameOver, FilesTypeOK, Daemon
  <2>7. QED
    BY <1>5, <2>2, <2>3, <2>5, <2>6 DEF RenameOver, FilesTypeOK
<1>6. CASE SetFlag
  <2>1. upd.file \in Files /\ upd.at # "none"
    BY <1>6, FileAtWork DEF SetFlag
  <2>2. /\ flag' \in [Files -> BOOLEAN] /\ excused' \subseteq Files
        /\ faults' \in 0..MaxFaults
    BY <1>6, <2>1, LockedType, SetFailsType DEF SetFlag, FilesTypeOK
  <2>3. Return(0) \/ Return(1)
    BY <1>6 DEF SetFlag
  <2>4. QED
    BY <1>6, <2>2, <2>3, ReturnType DEF SetFlag, FilesTypeOK
<1>7. CASE RestoreFlag
  <2>1. upd.file \in Files /\ upd.at # "none"
    BY <1>7, FileAtWork DEF RestoreFlag
  <2>2. /\ flag' \in [Files -> BOOLEAN] /\ excused' \subseteq Files
        /\ faults' \in 0..MaxFaults
    BY <1>7, <2>1, LockedType, SetFailsType DEF RestoreFlag, FilesTypeOK
  <2>3. Return(1)
    BY <1>7 DEF RestoreFlag
  <2>4. QED
    BY <1>7, <2>2, <2>3, ReturnType DEF RestoreFlag, FilesTypeOK
<1>8. QED
  BY <1>1, <1>2, <1>3, <1>4, <1>5, <1>6, <1>7 DEF UpdaterStep

LEMMA FilesTypeStep == FilesTypeOK /\ [FilesNext]_fileVars => FilesTypeOK'
<1> SUFFICES ASSUME FilesTypeOK, [FilesNext]_fileVars
             PROVE  FilesTypeOK'
  OBVIOUS
<1>1. ASSUME NEW mode \in {"update", "set", "clear"}, NEW f \in Files, Invoke(mode, f)
      PROVE  FilesTypeOK'
  <2>1. upd' \in Updater /\ upd'.at # "none" /\ upd'.file \in Files
    BY <1>1 DEF Invoke, Updater, UpdPC
  <2>2. QED
    BY <1>1, <2>1, VersionTypes DEF Invoke, FilesTypeOK
<1>2. CASE UpdaterStep
  BY <1>2, UpdaterStepType
<1>3. CASE UpdaterKilled
  BY <1>3, FaultType, ReturnType, LeftUnlockedType DEF UpdaterKilled, FilesTypeOK
<1>4. ASSUME NEW f \in Files, NEW on \in BOOLEAN, OtherSetsFlag(f, on)
      PROVE  FilesTypeOK'
  BY <1>4 DEF OtherSetsFlag, FilesTypeOK
<1>5. CASE DaemonStarts
  <2>1. daemon.strikes # BURST => daemon.strikes + 1 \in 0..BURST
    BY VersionTypes DEF FilesTypeOK, Daemon
  <2>2. daemon' \in Daemon
    BY <1>5, <2>1 DEF DaemonStarts, FilesTypeOK, Daemon
  <2>3. QED
    BY <1>5, <2>2 DEF DaemonStarts, FilesTypeOK
<1>6. CASE DaemonCycleEnds
  BY <1>6, VersionTypes DEF DaemonCycleEnds, FilesTypeOK, NotRunning, Daemon
<1>7. ASSUME NEW sig \in Signals, Signalled(sig)
      PROVE  FilesTypeOK'
  <2>1. daemon' \in Daemon
    BY <1>7, VersionTypes DEF Signalled, FilesTypeOK, NotRunning, Daemon
  <2>2. QED
    BY <1>7, <2>1 DEF Signalled, FilesTypeOK
<1>8. CASE Build
  BY <1>8, VersionTypes DEF Build, FilesTypeOK, Version
<1>9. CASE Rebooted
  <2>1. daemon' \in Daemon
    BY <1>9, VersionTypes DEF Rebooted, NotRunning, Daemon
  <2>2. upd' \in Updater /\ (upd'.at = "none") = (upd'.file = NoFile)
    BY <1>9 DEF Rebooted, NoUpdater, Updater, UpdPC
  <2>3. QED
    BY <1>9, <2>1, <2>2, LeftUnlockedType DEF Rebooted, FilesTypeOK
<1>10. CASE Others
  <2>1. content' \in [Files -> Version \union {Torn}]
    BY <1>10 DEF Others, Rewritten, FilesTypeOK
  <2>2. QED
    BY <1>10, <2>1 DEF Others, FilesTypeOK
<1>11. CASE UNCHANGED fileVars
  BY <1>11 DEF fileVars, FilesTypeOK
<1>12. QED
  BY <1>1, <1>2, <1>3, <1>4, <1>5, <1>6, <1>7, <1>8, <1>9, <1>10, <1>11 DEF FilesNext

\* The updater, the daemon's unit and the flags stay in their types: systemd
\* never counts more quick starts than its limit, and an updater always has a
\* file it works on.
THEOREM FilesTyped == FilesSpec => []FilesTypeOK
<1>1. FilesInit => FilesTypeOK
  BY InitTypes
<1>2. FilesTypeOK /\ [FilesNext]_fileVars => FilesTypeOK'
  BY FilesTypeStep
<1>3. QED
  BY <1>1, <1>2, PTL DEF FilesSpec
-----------------------------------------------------------------------------
(***************************************************************************)
(* Flags.  LockedWhenIdle lets the file of a working updater be unlocked;  *)
(* the inductive form says from where to where: past the clearing of the   *)
(* flag, with the call that sets it again still to come.                   *)
(***************************************************************************)
Unlocking == {"open", "write", "rename", "set", "restore"}

LockedUnlessUpdated ==
  \A f \in Files : flag[f] \/ f \in excused \/ (upd.file = f /\ upd.at \in Unlocking)

LEMMA LockedUnlessUpdatedInit == FilesInit => LockedUnlessUpdated
BY DEF FilesInit, LockedUnlessUpdated

\* Every way out of the updater puts its file among the locked or the excused.
LEMMA UpdaterKeepsLocked ==
  ASSUME FilesTypeOK, LockedUnlessUpdated, UpdaterStep
  PROVE  LockedUnlessUpdated'
<1> USE DEF At, LockedUnlessUpdated, Unlocking
<1>1. CASE GetFlags
  <2>1. \A f \in Files : flag'[f] \/ f \in excused'
    BY <1>1 DEF GetFlags
  <2>2. QED
    BY <2>1
<1>2. CASE ClearFlag
  <2>1. \A f \in Files : flag[f] \/ f \in excused
    BY <1>2 DEF ClearFlag
  <2>2. upd.file \in Files
    BY <1>2, FileAtWork DEF ClearFlag
  <2>3. CASE flag' = [flag EXCEPT ![upd.file] = FALSE] /\ excused' = excused \union {upd.file}
    BY <2>1, <2>2, <2>3 DEF FilesTypeOK
  <2>4. CASE flag' = [flag EXCEPT ![upd.file] = FALSE] /\ Goto("open") /\ UNCHANGED excused
    <3>1. upd'.file = upd.file /\ upd'.at = "open"
      BY <1>2, <2>4, GotoType DEF ClearFlag, UpdPC
    <3>2. QED
      BY <2>1, <2>2, <2>4, <3>1 DEF FilesTypeOK
  <2>5. CASE UNCHANGED <<flag, excused>>
    BY <2>1, <2>5
  <2>6. QED
    BY <1>2, <2>3, <2>4, <2>5 DEF ClearFlag
<1>3. CASE OpenTruncate \/ WriteContent \/ RenameOver
  <2>1. \E pc \in {"rename", "write", "set", "restore"} : Goto(pc)
    BY <1>3 DEF OpenTruncate, WriteContent, RenameOver
  <2>2. upd.at # "none" /\ UNCHANGED <<flag, excused>>
    BY <1>3 DEF OpenTruncate, WriteContent, RenameOver
  <2>3. upd'.file = upd.file /\ upd'.at \in {"rename", "write", "set", "restore"}
    BY <2>1, <2>2, GotoType DEF UpdPC
  <2>4. QED
    BY <2>2, <2>3
<1>4. CASE SetFlag \/ RestoreFlag
  <2>1. upd.file \in Files
    BY <1>4, FileAtWork DEF SetFlag, RestoreFlag
  <2>2. Locked(upd.file) \/ SetFails
    BY <1>4 DEF SetFlag, RestoreFlag
  <2>3. CASE Locked(upd.file)
    BY <2>1, <2>3 DEF Locked, FilesTypeOK
  <2>4. CASE SetFails
    BY <2>1, <2>4 DEF SetFails, FilesTypeOK
  <2>5. QED
    BY <2>2, <2>3, <2>4
<1>5. QED
  BY <1>1, <1>2, <1>3, <1>4 DEF UpdaterStep

LEMMA LockedUnlessUpdatedStep ==
  FilesTypeOK /\ LockedUnlessUpdated /\ [FilesNext]_fileVars => LockedUnlessUpdated'
<1> SUFFICES ASSUME FilesTypeOK, LockedUnlessUpdated, [FilesNext]_fileVars
             PROVE  LockedUnlessUpdated'
  OBVIOUS
<1> USE DEF LockedUnlessUpdated, Unlocking
<1>1. ASSUME NEW mode \in {"update", "set", "clear"}, NEW f \in Files, Invoke(mode, f)
      PROVE  LockedUnlessUpdated'
  BY <1>1 DEF Invoke
<1>2. CASE UpdaterStep
  BY <1>2, UpdaterKeepsLocked
<1>3. CASE UpdaterKilled \/ Rebooted
  <2>1. excused' = LeftUnlocked /\ UNCHANGED flag
    BY <1>3 DEF UpdaterKilled, Rebooted
  <2>2. \A f \in Files : flag[f] \/ f \in LeftUnlocked
    BY VersionTypes DEF LeftUnlocked
  <2>3. QED
    BY <2>1, <2>2
<1>4. ASSUME NEW f \in Files, NEW on \in BOOLEAN, OtherSetsFlag(f, on)
      PROVE  LockedUnlessUpdated'
  <2>1. CASE on
    BY <1>4, <2>1 DEF OtherSetsFlag, FilesTypeOK
  <2>2. CASE ~on /\ "block_setflags_immutable" \in pinned
    <3>1. ~flag[f]
      BY <1>4, <2>2 DEF OtherSetsFlag, SetFlagsPasses
    <3>2. QED
      BY <1>4, <2>2, <3>1 DEF OtherSetsFlag, FilesTypeOK
  <2>3. CASE ~on /\ "block_setflags_immutable" \notin pinned
    BY <1>4, <2>3 DEF OtherSetsFlag, FilesTypeOK
  <2>4. QED
    BY <2>1, <2>2, <2>3
<1>5. CASE UNCHANGED <<flag, excused, upd>>
  BY <1>5
<1>6. QED
  BY <1>1, <1>2, <1>3, <1>4, <1>5
  DEF FilesNext, DaemonStarts, DaemonCycleEnds, Signalled, Build, Others, fileVars

\* LockedWhenIdle for every value of the constants: an update that fails in any
\* of its calls but the last locks the file again, and no other process unlocks
\* one while block_setflags_immutable is attached.
THEOREM LockedWhenIdleHolds == FilesSpec => []LockedWhenIdle
<1>1. FilesInit => FilesTypeOK /\ LockedUnlessUpdated
  BY InitTypes, LockedUnlessUpdatedInit
<1>2. FilesTypeOK /\ LockedUnlessUpdated /\ [FilesNext]_fileVars
        => FilesTypeOK' /\ LockedUnlessUpdated'
  BY FilesTypeStep, LockedUnlessUpdatedStep
<1>3. LockedUnlessUpdated => LockedWhenIdle
  BY DEF LockedUnlessUpdated, LockedWhenIdle
<1>4. QED
  BY <1>1, <1>2, <1>3, PTL DEF FilesSpec
=============================================================================
