CONSTANTS
  IntRange = 256
  ShortRange = 64
  CharRange = 16
  NtoaSize = 10
  PointerDigits = 8
  BufferLimit = 100
  Characters <- MCCharacters
  Builds <- MCBuilds
  Calls <- MCCalls
  Names <- MCNames
SPECIFICATION DescriptorSpec
INVARIANTS
  WithinBounds
  RenderedRight
  DescriptorFits
PROPERTY
  CallAdvances
