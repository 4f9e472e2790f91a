CONSTANTS
  PagesPerSector = 1
  SectorsPerBlock = 2
  BootSectors = 2
  AppSectors = 2
  Data = {d}
  Erased = erased
  Junk = junk
  Scarred <- MCScarred
  d = d
  scarred = scarred
  BootCode = boot
  MaxFaults = 1
  Words = 2
  NoCall = nocall
  Wait = 2
  StartupTicks = 2
  MaxTicks = 5
SPECIFICATION BoardSpec
INVARIANTS
  BoardTypeOK
  SourceAlive
  FlashFastEnough
  TickAccounting
  TickIsMillisecond
  NoStrayInterrupt
  StartsClean
PROPERTIES
  DelayLongEnough
  TicksServed
  BoardComesUp
  ImplementsFlashDevice
