SPECIFICATION FairSpec
CONSTANTS
  MaxPacket = 2
  BufferSize = 4
  Transfers <- MCTransfers
  Losses = {"setup", "in", "status"}
  MaxFaults = 2
INVARIANTS
  UsbTypeOK
  BlockWhole
  ReplyWhole
  StatusMeansHandled
  AddressAgrees
PROPERTIES
  TransferEnds
  ImplementsPipe
