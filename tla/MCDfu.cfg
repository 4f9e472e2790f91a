SPECIFICATION FairSpec
CONSTANTS
  PagesPerSector = 2
  SectorsPerBlock = 2
  BootSectors = 1
  AppSectors = 3
  Data = {d1}
  Erased = erased
  Junk = junk
  Scarred <- NoScars
  BootCode = boot
  MaxFaults = 1
  TransferPages = 2
  MaxBlock = 3
  AddrSpace = 64
  CommandPages = {2, 5}
INVARIANTS
  TypeOK
  BootIntact
  PromiseKept
  StatusStateAgree
  ResetIsNext
  ProgramsErasedPages
PROPERTIES
  EveryJobEnds
  ResetFollows
  JobAdvances
