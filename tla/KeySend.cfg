SPECIFICATION FairSpec
CONSTANTS
  Keys = {k1, k2}
  None = None
  Buffers = 3
INVARIANT ReleaseComing
PROPERTIES KeysReleased PressesAlternate
