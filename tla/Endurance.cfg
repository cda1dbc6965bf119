SPECIFICATION FairLoopSpec
CONSTANTS
  Callers = {"shell", "bt_ck"}
  Commands <- MCCommands
  Peers = {p1}
  NoAddr = NoAddr
  MaxPaired = 1
  HciOutcomes = {TRUE}
  Prompt = TRUE
  Retry = 2
  SwitchPause = 1
  ConnectedPause = 1
INVARIANTS WaitsOnAir WakeupLeavesAir
PROPERTIES ImplementsLooper QuietAfterStop StopSettles
