SPECIFICATION FairSpec
CONSTANTS
  MB = 2
  Wrap = 8
  Heap = 3
  Room = 5
  Files = 4
  Sizes = {0, 1, 2, 3, 4}
  Buffers = {0, 1, 3, 4, 8, 9}
  READ_BUFFER_SIZE = 2
INVARIANTS TypeOK ObjectsAccounted ReportsAll
PROPERTIES CommandNears CommandEnds
