SPECIFICATION Spec
CONSTANTS
  tools = tools
  updat = updat
  runner = runner
  cockblockd = cockblockd
  pin = pin
  NoFile = NoFile
  Unlocked = {updat, runner, cockblockd}
  Files = {tools, updat, runner, cockblockd, pin}
  DaemonFile = cockblockd
  ObjectFile = tools
  UpdaterFile = updat
  RunnerFile = runner
  PinFile = pin
  Manifest <- Listed
  Toggled = {cockblockd}
  Sent = {}
  Faults = {"attach"}
  MaxFaults = 1
  MaxBuilt = 0
  BURST = 1
  MaxBoots = 1
CHECK_DEADLOCK TRUE
PROPERTY RemovedWhenAttached
