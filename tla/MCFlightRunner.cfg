SPECIFICATION Spec
CONSTANTS
  Setpoints = {"fly"}
  Discretes = {"arm"}
  None = None
  MHZ = 2
  CYC_RANGE = 32
  PERIOD = 3
  MAX_CATCH_UP = 3
  LINK_TIMEOUT_US = 8
  US_PER_MS = 2
  AGE_MAX = 6
  PollCycles <- MCPollCycles
  StepCycles <- MCStepCycles
  BootCycles <- MCBootCycles
  IdleCycles = 1
  WATCHDOG = 28
  MaxCycles = 60
  MaxCommands = 3
CHECK_DEADLOCK FALSE
INVARIANTS
  LoopInv
  ControlledTimeTracksClock
  AgesAreTrue
  WatchdogFed
