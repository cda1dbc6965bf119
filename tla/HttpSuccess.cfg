SPECIFICATION Spec
CONSTANTS
  Sockets = 2
  BodySizes = {0, 2, 4}
  OldSizes = {0, 1, 3}
  Room = 3
INVARIANT SuccessMeansSaved
