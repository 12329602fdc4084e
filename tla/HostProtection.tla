--------------------------- MODULE HostProtection ---------------------------
(***************************************************************************)
(* How the protection of the installed files comes up and is kept up to    *)
(* date:                                                                   *)
(*                                                                         *)
(*   - after a boot, the first-boot installer (bpf/bpf-boot.sh) or the     *)
(*     persistent unit runs the loader, which attaches the LSM programs;   *)
(*   - cockblock-update-runner.sh, started by update.sh, runs the updater  *)
(*     on each protected file, renews the apt pin file, and may detach and *)
(*     load the LSM programs again.                                        *)
(*                                                                         *)
(* Both are shell scripts: each step is a child process that may fail, and *)
(* the machine may be switched off between any two.  The files themselves, *)
(* the updater, the gates and the daemon are those of ProtectedFiles.      *)
(***************************************************************************)
EXTENDS ProtectedFiles, Sequences

CONSTANTS
  ObjectFile,   \* cockblock_loader and cockblock_lsm.bpf.o, handled alike
  UpdaterFile,  \* cockblock-updat
  RunnerFile,   \* cockblock-update-runner.sh
  PinFile,      \* /etc/apt/preferences.d/99-cockblock-no-browsers
  Manifest,     \* the files update.sh lists, in order
  Toggled,      \* files on which other processes try FS_IOC_SETFLAGS
  Sent,         \* signals other processes send to the daemon
  MaxBoots      \* bound: reboots

ASSUME HostAssumption ==
  /\ {ObjectFile, UpdaterFile, RunnerFile, PinFile} \subseteq Files
  /\ Manifest \in Seq(Files)
  /\ Toggled \subseteq Files
  /\ Sent \subseteq Signals
  /\ MaxBoots \in Nat

VARIABLES
  run,        \* the runner and, when it is idle, what the last one left
  boot,       \* the units that load the LSM programs at this boot
  lsm,        \* bpf is in the kernel's list of LSMs
  firstboot,  \* the first-boot installer is there and enabled
  persist     \* cockblock-bpf.service is enabled

hostVars == <<run, boot, lsm, firstboot, persist>>
vars == <<fileVars, hostVars>>
-----------------------------------------------------------------------------
\* i: entries handled; whole: the copy of the updater in /tmp is not torn;
\* script: version that bash executes; calling: it waits for the updater; goal:
\* version in the repository at the start; done: the last run said "done".
\* History: the files it said SKIP of, and whether bash went on in other text.
Run ==
  [at : {"idle", "actor", "entries", "tail", "pinGen", "pinSet", "reload",
         "detach", "load"},
   i : 0..Len(Manifest), whole : BOOLEAN, script : Version \union {Torn},
   calling : BOOLEAN, goal : Version, reload : BOOLEAN, done : BOOLEAN,
   skipped : SUBSET Files, jumped : BOOLEAN]

NoRun == [at |-> "idle", i |-> 0, whole |-> TRUE, script |-> 0, calling |-> FALSE,
          goal |-> 0, reload |-> FALSE, done |-> FALSE, skipped |-> {},
          jumped |-> FALSE]

\* unit: cockblock-bpf.service was enabled when the machine came up.
Boot == [at : {"firstboot", "enable", "remove", "unit", "done"},
         unit : BOOLEAN, count : 0..MaxBoots]

HostTypeOK ==
  /\ FilesTypeOK
  /\ run \in Run
  /\ boot \in Boot
  /\ lsm \in BOOLEAN
  /\ firstboot \in BOOLEAN
  /\ persist \in BOOLEAN

\* The first boot after `make install`, with or without `make grub`.
Init ==
  /\ FilesInit
  /\ pinned = {}
  /\ run = NoRun
  /\ boot = [at |-> "firstboot", unit |-> FALSE, count |-> 0]
  /\ lsm \in BOOLEAN
  /\ firstboot = TRUE
  /\ persist = FALSE
-----------------------------------------------------------------------------
(***************************************************************************)
(* Boot.                                                                   *)
(***************************************************************************)
Reboot ==
  /\ boot.count < MaxBoots
  /\ Rebooted
  /\ lsm' \in {lsm, TRUE}
  /\ boot' = [at |-> IF firstboot THEN "firstboot" ELSE "unit",
              unit |-> persist, count |-> boot.count + 1]
  /\ run' = NoRun
  /\ UNCHANGED <<firstboot, persist>>

Missing == Programs \ pinned

\* cockblock_loader returns 1 and attaches nothing.
LoaderFails ==
  /\ \/ content[ObjectFile] = Torn /\ UNCHANGED faults
     \/ content[ObjectFile] # Torn /\ Fault("load")
  /\ lapses' = lapses \union {"load"}
  /\ UNCHANGED <<content, flag, upd, exit, daemon, pinned, built, excused>>

\* It returns 0: every missing program is attached, or one that failed is
\* passed over.
LoaderReturns0 ==
  /\ content[ObjectFile] # Torn
  /\ \/ /\ pinned' = Programs
        /\ UNCHANGED <<lapses, faults>>
     \/ /\ Fault("attach")
        /\ \E p \in Missing : pinned' = Programs \ {p}
        /\ lapses' = lapses \union {"attach"}
  /\ UNCHANGED <<content, flag, upd, exit, daemon, built, excused>>

NextUnit == IF boot.unit THEN "unit" ELSE "done"

\* Mutant: the persistent unit is not enabled.
AfterLoad_Remove == "remove"

\* What the installer does when the loader has returned 0.
AfterLoad == "enable"

\* bpf-boot.sh up to the loader; when it exits 1 it is tried at the next boot.
FirstbootLoads ==
  /\ boot.at = "firstboot"
  /\ \/ /\ ~lsm
        /\ boot' = [boot EXCEPT !.at = NextUnit]
        /\ UNCHANGED fileVars
     \/ /\ lsm
        /\ LoaderFails
        /\ boot' = [boot EXCEPT !.at = NextUnit]
     \/ /\ lsm
        /\ LoaderReturns0
        /\ boot' = [boot EXCEPT !.at = AfterLoad]
  /\ UNCHANGED <<run, lsm, firstboot, persist>>

\* systemctl enable; a failure is logged.
FirstbootEnables ==
  /\ boot.at = "enable"
  /\ boot' = [boot EXCEPT !.at = "remove"]
  /\ \/ persist' = TRUE /\ UNCHANGED <<lapses, faults>>
     \/ /\ Fault("enable")
        /\ lapses' = lapses \union {"enable"}
        /\ UNCHANGED persist
  /\ UNCHANGED <<content, flag, upd, exit, daemon, pinned, built, excused,
                 run, lsm, firstboot>>

\* systemctl disable, rm: the installer is gone.
FirstbootRemoved ==
  /\ boot.at = "remove"
  /\ firstboot' = FALSE
  /\ boot' = [boot EXCEPT !.at = NextUnit]
  /\ UNCHANGED <<fileVars, run, lsm, persist>>

\* cockblock-bpf.service, when it was enabled.
UnitLoads ==
  /\ boot.at = "unit"
  /\ IF boot.unit THEN LoaderFails \/ LoaderReturns0 ELSE UNCHANGED fileVars
  /\ boot' = [boot EXCEPT !.at = "done"]
  /\ UNCHANGED <<run, lsm, firstboot, persist>>
-----------------------------------------------------------------------------
(***************************************************************************)
(* cockblock-update-runner.sh, under set -e.                               *)
(***************************************************************************)
RunAt(pc) == run.at = pc /\ ~run.calling

\* A child that fails ends the script.
Aborts == run' = NoRun

\* systemctl start cockblock-update.service, by update.sh.
RunStarts(reload) ==
  /\ RunAt("idle")
  /\ boot.at = "done"
  /\ \/ content[RunnerFile] = Torn /\ Aborts
     \/ /\ content[RunnerFile] # Torn
        /\ run' = [NoRun EXCEPT !.at = "actor", !.script = content[RunnerFile],
                     !.goal = built, !.reload = reload]
  /\ UNCHANGED <<fileVars, boot, lsm, firstboot, persist>>

\* cp "$UPDATER_INST" "$TMPD/cockblock-updat"
CopyActor ==
  /\ RunAt("actor")
  /\ run' = [run EXCEPT !.at = "entries", !.whole = content[UpdaterFile] # Torn]
  /\ UNCHANGED <<fileVars, boot, lsm, firstboot, persist>>

\* The updater is started; bash waits for it.
Calls(at, mode, f) ==
  /\ run.whole
  /\ RunAt(at)
  /\ Invoke(mode, f)
  /\ run' = [run EXCEPT !.calling = TRUE]
  /\ UNCHANGED <<boot, lsm, firstboot, persist>>

\* A copy cut short does not execute: bash returns 126 and the run aborts.  An
\* empty one is a script without commands, and "succeeds".
TornActor(at, success) ==
  /\ ~run.whole
  /\ RunAt(at)
  /\ run' \in {NoRun, success}
  /\ UNCHANGED <<fileVars, boot, lsm, firstboot, persist>>

\* Mutant: the exit status is not looked at.
Returned_AnyStatus(at, success) ==
  /\ run.at = at /\ run.calling
  /\ upd.at = "none"
  /\ run' = [success EXCEPT !.calling = FALSE]
  /\ UNCHANGED <<fileVars, boot, lsm, firstboot, persist>>

\* The updater has ended.
Returned(at, success) ==
  /\ run.at = at /\ run.calling
  /\ upd.at = "none"
  /\ IF exit = 0 THEN run' = [success EXCEPT !.calling = FALSE] ELSE Aborts
  /\ UNCHANGED <<fileVars, boot, lsm, firstboot, persist>>

\* SKIP: the source was there when update.sh wrote the manifest, and is gone.
Skip(at, f, success) ==
  /\ RunAt(at)
  /\ Fault("source")
  /\ run' = [success EXCEPT !.skipped = @ \union {f}]
  /\ UNCHANGED <<content, flag, upd, exit, daemon, pinned, built, excused, lapses,
                 boot, lsm, firstboot, persist>>

\* "$UPDATER" update "$dst" "$src" for the next entry.
NextEntry == [run EXCEPT !.i = @ + 1]

Entry ==
  /\ run.i < Len(Manifest)
  /\ \/ Skip("entries", Manifest[run.i + 1], NextEntry)
     \/ Calls("entries", "update", Manifest[run.i + 1])
     \/ TornActor("entries", NextEntry)
     \/ Returned("entries", NextEntry)

\* The rest of the script.  The loop was read as a whole, what follows is read
\* from the file: when that was rewritten with another version, bash goes on
\* somewhere in the new text.
LoopEnds ==
  /\ RunAt("entries")
  /\ run.i = Len(Manifest)
  /\ \/ run' = [run EXCEPT !.at = "tail"]
     \/ /\ content[RunnerFile] # run.script
        /\ \/ \E at \in {"pinGen", "pinSet", "reload"} :
                run' = [run EXCEPT !.at = at, !.jumped = TRUE]
           \/ Aborts
  /\ UNCHANGED <<fileVars, boot, lsm, firstboot, persist>>

\* gen-browser-pin.sh missing: SKIP; else lsattr, "$UPDATER" clear.
PinClear ==
  \/ Skip("tail", PinFile, [run EXCEPT !.at = "reload"])
  \/ /\ RunAt("tail")
     /\ ~flag[PinFile]
     /\ run' = [run EXCEPT !.at = "pinGen"]
     /\ UNCHANGED <<fileVars, boot, lsm, firstboot, persist>>
  \/ flag[PinFile] /\ Calls("tail", "clear", PinFile)
  \/ flag[PinFile] /\ TornActor("tail", [run EXCEPT !.at = "pinGen"])
  \/ Returned("tail", [run EXCEPT !.at = "pinGen"])

\* gen-browser-pin.sh > "$PREF_FILE": the redirection truncates it first.
PinGenerated ==
  /\ RunAt("pinGen")
  /\ \/ /\ Rewritten(PinFile, built)
        /\ run' = [run EXCEPT !.at = "pinSet"]
        /\ UNCHANGED faults
     \/ /\ Rewritten(PinFile, Torn)
        /\ Fault("gen")
        /\ Aborts
     \/ /\ flag[PinFile]
        /\ Aborts
        /\ UNCHANGED <<content, faults>>
  /\ UNCHANGED <<flag, upd, exit, daemon, pinned, built, excused, lapses,
                 boot, lsm, firstboot, persist>>

\* Mutant: "$UPDATER" set || true
PinSet_OrTrue ==
  \/ Calls("pinSet", "set", PinFile)
  \/ TornActor("pinSet", [run EXCEPT !.at = "reload"])
  \/ Returned_AnyStatus("pinSet", [run EXCEPT !.at = "reload"])

\* "$UPDATER" set
PinSet ==
  \/ Calls("pinSet", "set", PinFile)
  \/ TornActor("pinSet", [run EXCEPT !.at = "reload"])
  \/ Returned("pinSet", [run EXCEPT !.at = "reload"])

Finished ==
  [NoRun EXCEPT !.done = TRUE, !.goal = run.goal, !.whole = run.whole,
     !.skipped = run.skipped, !.jumped = run.jumped]

\* RELOAD_BPF: the pins are removed, one after the other.
Detach ==
  /\ \/ /\ RunAt("reload") /\ ~run.reload
        /\ run' = Finished
        /\ UNCHANGED pinned
     \/ /\ RunAt("reload") /\ run.reload
        /\ pinned' = pinned \ {"block_kill_cockblock"}
        /\ run' = [run EXCEPT !.at = "detach"]
     \/ /\ RunAt("detach")
        /\ pinned' = pinned \ {"block_setflags_immutable"}
        /\ run' = [run EXCEPT !.at = "load"]
  /\ UNCHANGED <<content, flag, upd, exit, daemon, built, excused, lapses, faults,
                 boot, lsm, firstboot, persist>>

Load ==
  /\ RunAt("load")
  /\ \/ LoaderFails /\ Aborts
     \/ LoaderReturns0 /\ run' = Finished
  /\ UNCHANGED <<boot, lsm, firstboot, persist>>

\* The service is killed, the updater with it if it is at work.
RunnerKilled ==
  /\ run.at # "idle"
  /\ Aborts
  /\ \/ UpdaterKilled
     \/ /\ upd.at = "none"
        /\ Fault("kill")
        /\ lapses' = IF run.at \in {"detach", "load"}
                     THEN lapses \union {"reload"} ELSE lapses
        /\ UNCHANGED <<content, flag, upd, exit, daemon, pinned, built, excused>>
  /\ UNCHANGED <<boot, lsm, firstboot, persist>>
-----------------------------------------------------------------------------
\* Steps of ProtectedFiles that the scripts have no part in.
Elsewhere ==
  /\ \/ UpdaterStep
     \/ UpdaterKilled
     \/ \E f \in Toggled, on \in BOOLEAN : OtherSetsFlag(f, on)
     \/ boot.at = "done" /\ DaemonStarts
     \/ DaemonCycleEnds
     \/ \E sig \in Sent : Signalled(sig)
     \/ Build
  /\ UNCHANGED hostVars

BootStep == FirstbootLoads \/ FirstbootEnables \/ FirstbootRemoved \/ UnitLoads

RunnerStep ==
  CopyActor \/ Entry \/ LoopEnds \/ PinClear \/ PinGenerated \/ PinSet
    \/ Detach \/ Load \/ RunnerKilled

Next ==
  \/ Reboot
  \/ BootStep
  \/ \E reload \in BOOLEAN : RunStarts(reload)
  \/ RunnerStep
  \/ Elsewhere

Spec == Init /\ [][Next]_vars
-----------------------------------------------------------------------------
\* A run that says "done" has installed at least the version that was built
\* when it began, complete, under every path of the manifest but those it said
\* SKIP of, and left each immutable, whatever failed before it, earlier runs cut
\* short included, and whatever the daemon did meanwhile.  The copy of the
\* updater it worked with must have been whole.
CompleteRun ==
  (run.done /\ run.whole) =>
    \A i \in 1..Len(Manifest) :
      \/ Manifest[i] \in run.skipped
      \/ /\ content[Manifest[i]] >= run.goal
         /\ flag[Manifest[i]] \/ Manifest[i] \in excused

\* So has it the apt pin file, which three children of the script clear, write
\* and set: after "done" it is the new one, and immutable unless another process
\* tries its flag.  The rest of the script must have been the one that began.
PinRenewed ==
  (run.done /\ run.whole /\ ~run.jumped) =>
    \/ PinFile \in run.skipped
    \/ /\ content[PinFile] >= run.goal
       /\ flag[PinFile] \/ PinFile \in Toggled

\* After every boot with bpf in the kernel's list both LSM programs are
\* attached once the units have run, unless the loader, an attach call or the
\* enabling of the unit failed, or a reload of the programs was cut short: the
\* installer never removes itself before something else loads them, wherever
\* the machine is switched off.
Armed ==
  (boot.at = "done" /\ lsm /\ run.at \notin {"detach", "load"} /\ lapses = {})
    => pinned = Programs

\* bpf-boot.sh:18-19: "On any failure (bpf not active yet, attach fails) it
\* exits non-zero and does NOT self-delete, so systemd retries it on the next
\* boot."  So what the installer leaves at its removal is complete.
RemovedWhenAttached ==
  [][(firstboot /\ ~firstboot') => pinned = Programs]_vars
=============================================================================
