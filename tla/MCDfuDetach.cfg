SPECIFICATION DetachSpec
CONSTANTS
  PagesPerSector = 2
  SectorsPerBlock = 2
  BootSectors = 1
  AppSectors = 3
  Data = {d1}
  Erased = erased
  Junk = junk
  Scarred <- NoScars
  BootCode = boot
  MaxFaults = 0
  TransferPages = 2
  MaxBlock = 3
  AddrSpace = 64
  CommandPages = {2, 5}
  MaxTimeout = 2
PROPERTY
  DetachWaits
