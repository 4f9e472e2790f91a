SPECIFICATION UpdateFairSpec
CONSTANTS
  PagesPerSector = 2
  SectorsPerBlock = 2
  BootSectors = 1
  AppSectors = 3
  Data <- MCData
  Erased = erased
  Junk = junk
  Scarred <- MCScarred
  BootCode = boot
  MaxFaults = 3
  TransferPages = 2
  MaxBlock = 2
  AddrSpace = 64
  CommandPages = {2, 3, 4, 5, 6, 7}
  Versions = {"a", "b"}
  Image <- MCImage
  Unchecked = {"b"}
  Nothing = nothing
INVARIANTS
  SuccessMeansInstalled
  RunsOnlyChecked
PROPERTIES
  SuccessLeadsToApp
  ImplementsAppSlot
  UpdateSucceeds
