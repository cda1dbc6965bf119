SPECIFICATION FairSpec
CONSTANTS
  FileSizes = {0, 1, 1024, 1025, 4095, 4096, 4097, 8192, 8193, 12288, 12289, 16383}
  SlotSize = 8192
  Wrap = 16384
  Reads = {0, 512, 1024}
  MaxUpgrades = 2
INVARIANTS TypeOK WritesErased TriggersWhole AlwaysStarts RunsLatest
PROPERTY UpgradeTakesEffect
CHECK_DEADLOCK FALSE
