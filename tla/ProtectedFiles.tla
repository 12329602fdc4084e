--------------------------- MODULE ProtectedFiles ---------------------------
(***************************************************************************)
(* The installed files of cockblockd that carry the immutable flag (+i),   *)
(* and the three programs that meet there:                                 *)
(*                                                                         *)
(*   - cockblock-updat, which clears the flag, replaces the content and    *)
(*     sets the flag again (bpf/cockblock-updat.c);                        *)
(*   - the two BPF LSM programs, which decide who may clear a flag and     *)
(*     which signals reach the daemon (bpf/cockblock_lsm.bpf.c);           *)
(*   - the daemon, whose binary is one of the files: while it executes,    *)
(*     its inode cannot be opened for writing, and a new cycle executes    *)
(*     what is found under the path.                                       *)
(*                                                                         *)
(* Who starts the updater, attaches the programs and boots the machine is  *)
(* left open here; HostProtection says it and implements this module.      *)
(***************************************************************************)
EXTENDS Integers

CONSTANTS
  Files,        \* protected files
  DaemonFile,   \* /opt/cockblock/cockblockd
  NoFile,       \* the updater is not at work
  Unlocked,     \* files that the installation leaves without the flag
  Faults,       \* kinds of call that may fail
  MaxFaults,    \* bound: failing calls
  MaxBuilt,     \* bound: versions built
  BURST         \* StartLimitBurst: quick starts of a unit that systemd takes

Programs == {"block_kill_cockblock", "block_setflags_immutable"}

FaultKinds == {"getflags", "clear", "open", "write", "rename", "set", "kill",
               "source", "gen", "attach", "load", "enable"}

ASSUME FilesAssumption ==
  /\ DaemonFile \in Files
  /\ NoFile \notin Files
  /\ Unlocked \subseteq Files
  /\ Faults \subseteq FaultKinds
  /\ MaxFaults \in Nat
  /\ MaxBuilt \in Nat
  /\ BURST \in Nat \ {0}

VARIABLES
  content,  \* version under each path, Torn if it was truncated and not rewritten
  flag,     \* FS_IMMUTABLE_FL
  upd,      \* the process cockblock-updat
  exit,     \* status of the last one: 0 or 1
  daemon,   \* the cockblockd process and its unit
  pinned,   \* BPF programs that are attached
  built,    \* version in the repository
  excused,  \* history: files never locked, unlocked on request, through an
            \* open gate, or as the updater was killed or could not set the flag
  lapses,   \* history: what went wrong since the machine was booted, "enable" ever
  faults    \* what MaxFaults counts

fileVars == <<content, flag, upd, exit, daemon, pinned, built, excused, lapses,
              faults>>
-----------------------------------------------------------------------------
Torn == -1
Version == 0..MaxBuilt

UpdPC == {"none", "get", "clear", "open", "write", "rename", "set", "restore"}
Updater == [at : UpdPC, mode : {"update", "set", "clear"}, file : Files \union {NoFile}]
NoUpdater == [at |-> "none", mode |-> "update", file |-> NoFile]

\* same: the inode that executes is the one under the path.
\* strikes: starts since a process last lived through its cycle.
Daemon == [st : {"down", "up", "failed"}, same : BOOLEAN, strikes : 0..BURST]
NotRunning(strikes) == [st |-> "down", same |-> TRUE, strikes |-> strikes]

Lapses == {"attach", "load", "enable", "reload"}

FilesTypeOK ==
  /\ content \in [Files -> Version \union {Torn}]
  /\ flag \in [Files -> BOOLEAN]
  /\ upd \in Updater
  /\ (upd.at = "none") = (upd.file = NoFile)
  /\ exit \in {0, 1}
  /\ daemon \in Daemon
  /\ pinned \subseteq Programs
  /\ built \in Version
  /\ excused \subseteq Files
  /\ lapses \subseteq Lapses
  /\ faults \in 0..MaxFaults

\* After installation: the daemon is about to start.
FilesInit ==
  /\ content = [f \in Files |-> 0]
  /\ flag = [f \in Files |-> f \notin Unlocked]
  /\ upd = NoUpdater
  /\ exit = 0
  /\ daemon = NotRunning(0)
  /\ pinned \in SUBSET Programs
  /\ built = 0
  /\ excused = Unlocked
  /\ lapses = {}
  /\ faults = 0

\* A call of that kind fails.
Fault(kind) ==
  /\ kind \in Faults
  /\ faults < MaxFaults
  /\ faults' = faults + 1
-----------------------------------------------------------------------------
(***************************************************************************)
(* The LSM programs.                                                       *)
(***************************************************************************)
\* The signals that end the daemon.  SIGTERM is let through whoever sends it:
\* the program does not look at the sender.  SIGSTOP, blocked too, is left out:
\* the SIGTERM of RuntimeMaxSec comes with a SIGCONT, so it would only delay
\* the cycle.
Signals == {"HUP", "INT", "QUIT", "KILL", "USR1", "USR2", "TERM"}
blocked_sigs == {"HUP", "INT", "QUIT", "KILL", "USR1", "USR2"}

\* lsm/task_kill on a process called cockblockd.
SignalPasses(sig) == "block_kill_cockblock" \in pinned => sig \notin blocked_sigs

\* lsm/file_ioctl for FS_IOC_SETFLAGS.
SetFlagsPasses(f, comm) ==
  ("block_setflags_immutable" \in pinned /\ flag[f]) => comm = "cockblock-updat"

Locked(f) ==
  /\ flag' = [flag EXCEPT ![f] = TRUE]
  /\ excused' = excused \ {f}
-----------------------------------------------------------------------------
(***************************************************************************)
(* cockblock-updat <mode> <file>.                                          *)
(***************************************************************************)
Invoke(mode, f) ==
  /\ upd.at = "none"
  /\ upd' = [at |-> "get", mode |-> mode, file |-> f]
  /\ UNCHANGED <<content, flag, exit, daemon, pinned, built, excused, lapses, faults>>

At(pc) == upd.at = pc

Return(status) ==
  /\ upd' = NoUpdater
  /\ exit' = status

Goto(pc) ==
  /\ upd' = [upd EXCEPT !.at = pc]
  /\ UNCHANGED exit

\* get_flags; then by mode, and nothing to do if the flag is as wanted.
GetFlags ==
  /\ At("get")
  /\ \/ Fault("getflags") /\ Return(1)
     \/ /\ IF upd.mode = "update" THEN Goto(IF flag[upd.file] THEN "clear" ELSE "open")
           ELSE IF flag[upd.file] = (upd.mode = "set") THEN Return(0)
           ELSE Goto(upd.mode)
        /\ UNCHANGED faults
  /\ UNCHANGED <<content, flag, daemon, pinned, built, excused, lapses>>

ClearFlag ==
  /\ At("clear")
  /\ \/ /\ SetFlagsPasses(upd.file, "cockblock-updat")
        /\ flag' = [flag EXCEPT ![upd.file] = FALSE]
        /\ IF upd.mode = "clear"
           THEN Return(0) /\ excused' = excused \union {upd.file}
           ELSE Goto("open") /\ UNCHANGED excused
        /\ UNCHANGED faults
     \/ Fault("clear") /\ Return(1) /\ UNCHANGED <<flag, excused>>
  /\ UNCHANGED <<content, daemon, pinned, built, lapses>>

\* ETXTBSY: the file is the image of a running process.
Busy(f) == f = DaemonFile /\ daemon.st = "up" /\ daemon.same

\* copy_file: open with O_TRUNC, or fall back to copy_file_rename.
OpenTruncate ==
  /\ At("open")
  /\ \/ /\ Busy(upd.file)
        /\ Goto("rename")
        /\ UNCHANGED <<content, faults>>
     \/ /\ ~Busy(upd.file) /\ ~flag[upd.file]
        /\ content' = [content EXCEPT ![upd.file] = Torn]
        /\ Goto("write")
        /\ UNCHANGED faults
     \/ /\ flag[upd.file]
        /\ Goto("restore")
        /\ UNCHANGED <<content, faults>>
     \/ /\ Fault("open")
        /\ Goto("restore")
        /\ UNCHANGED content
  /\ UNCHANGED <<flag, daemon, pinned, built, excused, lapses>>

WriteContent ==
  /\ At("write")
  /\ \/ /\ content' = [content EXCEPT ![upd.file] = built]
        /\ Goto("set")
        /\ UNCHANGED faults
     \/ Fault("write") /\ Goto("restore") /\ UNCHANGED content
  /\ UNCHANGED <<flag, daemon, pinned, built, excused, lapses>>

\* copy_file_rename: the process that runs keeps the old inode, the path gets
\* a new one, which has no flag.  An immutable target is refused.
RenameOver ==
  /\ At("rename")
  /\ \/ /\ ~flag[upd.file]
        /\ content' = [content EXCEPT ![upd.file] = built]
        /\ daemon' = [daemon EXCEPT !.same = FALSE]
        /\ Goto("set")
        /\ UNCHANGED faults
     \/ /\ flag[upd.file]
        /\ Goto("restore")
        /\ UNCHANGED <<content, daemon, faults>>
     \/ /\ Fault("rename")
        /\ Goto("restore")
        /\ UNCHANGED <<content, daemon>>
  /\ UNCHANGED <<flag, pinned, built, excused, lapses>>

\* The flag cannot be set: the file stays as it is.
SetFails ==
  /\ Fault("set")
  /\ excused' = IF flag[upd.file] THEN excused ELSE excused \union {upd.file}
  /\ UNCHANGED flag

SetFlag ==
  /\ At("set")
  /\ \/ Locked(upd.file) /\ Return(0) /\ UNCHANGED faults
     \/ SetFails /\ Return(1)
  /\ UNCHANGED <<content, daemon, pinned, built, lapses>>

\* Mutant: a failed copy returns at once.
RestoreFlag_None ==
  /\ At("restore")
  /\ Return(1)
  /\ UNCHANGED <<content, flag, excused, daemon, pinned, built, lapses, faults>>

\* set_flags(dst, cur | fl) after a failed copy; its result is not looked at.
RestoreFlag ==
  /\ At("restore")
  /\ \/ Locked(upd.file) /\ UNCHANGED faults
     \/ SetFails
  /\ Return(1)
  /\ UNCHANGED <<content, daemon, pinned, built, lapses>>

\* What a killed updater leaves unlocked.
LeftUnlocked == excused \union {f \in {upd.file} \ {NoFile} : ~flag[f]}

\* The updater is killed, at any point of its work.
UpdaterKilled ==
  /\ upd.at # "none"
  /\ Fault("kill")
  /\ Return(1)
  /\ excused' = LeftUnlocked
  /\ UNCHANGED <<content, flag, daemon, pinned, built, lapses>>

\* Any other root process calls FS_IOC_SETFLAGS.
OtherSetsFlag(f, on) ==
  /\ SetFlagsPasses(f, "other")
  /\ flag' = [flag EXCEPT ![f] = on]
  /\ excused' = IF on THEN excused \ {f}
                ELSE IF "block_setflags_immutable" \in pinned THEN excused
                ELSE excused \union {f}
  /\ UNCHANGED <<content, upd, exit, daemon, pinned, built, lapses, faults>>

\* Another program rewrites a file, which then has no flag.
Rewritten(f, v) ==
  /\ ~flag[f]
  /\ ~Busy(f)
  /\ content' = [content EXCEPT ![f] = v]
-----------------------------------------------------------------------------
(***************************************************************************)
(* The daemon's unit: Restart=always, RuntimeMaxSec, SendSIGKILL=no.       *)
(***************************************************************************)
\* Mutant: the unit has no start limit.
DaemonStarts_NoLimit ==
  /\ daemon.st = "down"
  /\ daemon' = [daemon EXCEPT !.strikes = @ + 1]
  /\ UNCHANGED <<content, flag, upd, exit, pinned, built, excused, lapses, faults>>

\* exec of a torn file fails, and so does exec of one that is open for
\* writing.  systemd gives up at the start after BURST quick ones.
DaemonStarts ==
  /\ daemon.st = "down"
  /\ LET torn == content[DaemonFile] = Torn \/ (At("write") /\ upd.file = DaemonFile)
     IN  daemon' = IF daemon.strikes = BURST THEN [daemon EXCEPT !.st = "failed"]
                   ELSE IF torn THEN [daemon EXCEPT !.strikes = @ + 1]
                   ELSE [st |-> "up", same |-> TRUE, strikes |-> daemon.strikes + 1]
  /\ UNCHANGED <<content, flag, upd, exit, pinned, built, excused, lapses, faults>>

\* main returns, or RuntimeMaxSec: systemd's SIGTERM comes through.  Cycles are
\* longer than the interval in which systemd counts starts.
DaemonCycleEnds ==
  /\ daemon.st = "up"
  /\ daemon' = NotRunning(0)
  /\ UNCHANGED <<content, flag, upd, exit, pinned, built, excused, lapses, faults>>

\* A signal from elsewhere, at once; the daemon handles none.
Signalled(sig) ==
  /\ daemon.st = "up"
  /\ SignalPasses(sig)
  /\ daemon' = NotRunning(daemon.strikes)
  /\ UNCHANGED <<content, flag, upd, exit, pinned, built, excused, lapses, faults>>

Build ==
  /\ built < MaxBuilt
  /\ built' = built + 1
  /\ UNCHANGED <<content, flag, upd, exit, daemon, pinned, excused, lapses, faults>>

\* The machine goes down and comes up: processes and pins are gone.
Rebooted ==
  /\ upd' = NoUpdater
  /\ excused' = LeftUnlocked
  /\ daemon' = NotRunning(0)
  /\ pinned' = {}
  /\ lapses' = lapses \intersect {"enable"}
  /\ UNCHANGED <<content, flag, exit, built, faults>>
-----------------------------------------------------------------------------
UpdaterStep ==
  GetFlags \/ ClearFlag \/ OpenTruncate \/ WriteContent \/ RenameOver
    \/ SetFlag \/ RestoreFlag

\* What other programs do here: they rewrite an unlocked file, attach and
\* detach the LSM programs, and have faults of their own.
Others ==
  /\ UNCHANGED content \/ \E f \in Files, v \in Version \union {Torn} : Rewritten(f, v)
  /\ pinned' \in SUBSET Programs
  /\ lapses' \in SUBSET Lapses /\ lapses \subseteq lapses'
  /\ faults' \in 0..MaxFaults
  /\ UNCHANGED <<flag, upd, exit, daemon, built, excused>>

FilesNext ==
  \/ \E mode \in {"update", "set", "clear"}, f \in Files : Invoke(mode, f)
  \/ UpdaterStep
  \/ UpdaterKilled
  \/ \E f \in Files, on \in BOOLEAN : OtherSetsFlag(f, on)
  \/ DaemonStarts
  \/ DaemonCycleEnds
  \/ \E sig \in Signals : Signalled(sig)
  \/ Build
  \/ Rebooted
  \/ Others

FilesSpec == FilesInit /\ [][FilesNext]_fileVars
-----------------------------------------------------------------------------
\* A file that the updater is not at work on is immutable, unless it was never
\* locked, was cleared on request, by another process that no LSM program
\* stopped, or the updater was killed or could not set the flag: whatever else
\* fails in an update, the file is locked again, and no other process unlocks it
\* while block_setflags_immutable is attached.
LockedWhenIdle ==
  \A f \in Files : flag[f] \/ f \in excused \/ upd.file = f
=============================================================================
