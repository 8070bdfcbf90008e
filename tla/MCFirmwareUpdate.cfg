SPECIFICATION Spec
CONSTANTS
  SectorsPerBank = 3
  Images = {"A", "B"}
  ImageSectors <- MCImageSectors
  Builds = {TRUE, FALSE}
  MaxRequests = 3
  MaxFailures = 2
CHECK_DEADLOCK FALSE
INVARIANT
  RequestInv
PROPERTIES
  BootloaderLostToBank2
  ManifestedHoldsOwn
  UpdateRuns
