SPECIFICATION UpdateSpec
CONSTANTS
  PagesPerSector = 2
  SectorsPerBlock = 2
  BootSectors = 1
  AppSectors = 3
  Data <- MCData
  Erased = erased
  Junk = junk
  Scarred <- MCScarred
  BootCode = boot
  MaxFaults = 1
  TransferPages = 2
  MaxBlock = 2
  AddrSpace = 64
  CommandPages = {2, 3, 4, 5, 6, 7}
  Versions = {"a", "b"}
  Image <- MCImage
  Unchecked = {}
  Nothing = nothing
INVARIANT
  OnlyUncorruptedRuns
