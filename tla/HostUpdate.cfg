SPECIFICATION Spec
CONSTANTS
  tools = tools
  updat = updat
  runner = runner
  cockblockd = cockblockd
  pin = pin
  NoFile = NoFile
  Unlocked = {updat, runner, cockblockd}
  Files = {tools, updat, runner, cockblockd, pin}
  DaemonFile = cockblockd
  ObjectFile = tools
  UpdaterFile = updat
  RunnerFile = runner
  PinFile = pin
  Manifest <- Listed
  Toggled = {cockblockd}
  Sent = {"KILL", "TERM"}
  Faults = {"getflags", "clear", "open", "write", "rename", "set", "kill", "source", "gen", "attach", "load", "enable"}
  MaxFaults = 1
  MaxBuilt = 1
  BURST = 1
  MaxBoots = 1
CHECK_DEADLOCK TRUE
INVARIANT HostTypeOK
INVARIANT LockedWhenIdle
INVARIANT CompleteRun
INVARIANT PinRenewed
INVARIANT Armed
