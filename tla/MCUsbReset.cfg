SPECIFICATION Spec
CONSTANTS
  MaxPacket = 2
  BufferSize = 4
  Transfers <- MCTransfers
  Losses = {"setup", "in", "status"}
  MaxFaults = 0
PROPERTY
  StatusBeforeReset
