SPECIFICATION FairSpec
CONSTANTS
  Sockets = 2
  BodySizes = {0, 2, 4}
  OldSizes = {0, 1, 3}
  Room = 3
INVARIANTS TypeOK SocketsAccounted FileIsPrefix SavedWhileCalm
PROPERTIES CallsNear CallsEnd DownloadSaves
