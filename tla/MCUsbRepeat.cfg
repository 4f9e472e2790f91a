SPECIFICATION Spec
CONSTANTS
  MaxPacket = 2
  BufferSize = 4
  Transfers <- MCTransfers
  Losses = {"out"}
  MaxFaults = 1
INVARIANT
  BlockWhole
