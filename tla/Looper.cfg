SPECIFICATION FairSpec
CONSTANTS
  Retry = 30
  SwitchPause = 5
  ConnectedPause = 30
PROPERTIES KeepsWaking StopIsHeard
