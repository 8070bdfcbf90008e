SPECIFICATION Spec
CONSTANTS
  Frames <- MCFrames
  CommandOf <- MCCommandOf
  Codes <- MCCodes
  NoCommand = "none"
  RX_SIZE = 8
  RX_CHUNK = 5
  PACKET = 5
  HEADER = 2
  DFU_TIMEOUT_TICKS = 4
  DFU_RETRANSMIT_TICKS = 2
  TICK_RANGE = 8
  MaxPolls = 2
  MaxItems = 3
CHECK_DEADLOCK FALSE
INVARIANTS
  StreamInv
  RebootDialogue
