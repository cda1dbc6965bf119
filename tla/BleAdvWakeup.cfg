SPECIFICATION Spec
CONSTANTS
  Callers = {"shell"}
  Commands <- MCCommands
  Peers = {p1}
  NoAddr = NoAddr
  MaxPaired = 1
  HciOutcomes = {TRUE}
  Prompt = TRUE
INVARIANT WakeupSent
