SPECIFICATION Spec
CONSTANTS
  BURST = 2
  SENSOR_QUEUE_DEPTH = 4
  EVIDENCE_INTERVALS = 1
  MAX_SAMPLES = 2
  MaxResets = 1
  MaxWorlds = 3
  MaxMishaps = 1
INVARIANTS
  SessionInv
  ArmedAnswersOneWorld
  GenerationIsANewWorld
PROPERTY
  ResetEnds
CHECK_DEADLOCK FALSE
