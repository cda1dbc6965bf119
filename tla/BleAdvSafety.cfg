SPECIFICATION Spec
CONSTANTS
  Callers = {"shell", "bt_ck"}
  Commands <- MCCommands
  Peers = {p1, p2}
  NoAddr = NoAddr
  MaxPaired = 1
  HciOutcomes = {TRUE, FALSE}
  Prompt = TRUE
INVARIANTS TypeOK WakeupBounded NotStranded NoOrphan
