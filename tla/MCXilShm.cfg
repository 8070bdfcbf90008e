CONSTANTS
  Writers = {w1, w2}
  None = None
  MaxGrants = 2
  MaxWrites = 3
  CHECK_EVERY = 2
  MAX_ATTEMPTS = 2
  SEQLOCK_MAX_RETRIES = 2
SYMMETRY WriterSymmetry
SPECIFICATION Spec
INVARIANTS BlockInv SampleWithinOneWorld TrustIsWithdrawn
PROPERTIES OnlyTheLivingAreTrusted ImplementsRegister
CHECK_DEADLOCK FALSE
