SPECIFICATION FairSpec
CONSTANTS
  Callers = {"shell", "bt_ck"}
  Commands <- MCCommands
  Peers = {p1}
  NoAddr = NoAddr
  MaxPaired = 1
  HciOutcomes = {TRUE}
  Prompt = TRUE
PROPERTIES WakeupEnds Reconnectable DeletedLetGo
