SPECIFICATION FairSpec
CONSTANTS
  Senders = {"s1", "s2"}
  MaxEvents = 5
  BtOutcomes = {TRUE}
INVARIANTS NoLostWakeup BringUpComing ReadNeverBlocks
PROPERTIES DeliversEvents BleComesUp
