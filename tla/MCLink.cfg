SPECIFICATION LinkFairSpec
CONSTANTS
  PagesPerSector = 2
  SectorsPerBlock = 2
  BootSectors = 1
  AppSectors = 1
  Data <- MCData
  Erased = erased
  Junk = junk
  Scarred <- NoScars
  BootCode = boot
  MaxFaults = 1
  TransferPages = 1
  MaxBlock = 2
  AddrSpace = 64
  CommandPages = {2, 3}
  Versions = {"a", "b"}
  Image <- MCImage
  MaxPacket = 2
  BufferSize = 4
  Losses = {"setup", "in", "status"}
  BusFaults = 2
  BlockBytes = 4
  CommandBytes = 1
INVARIANTS
  ComponentsAgree
  ConfirmedBlocksHeld
  StatusIsCurrent
PROPERTY
  SessionSucceeds
