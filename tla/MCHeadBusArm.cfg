SPECIFICATION FairPodsSpec
CONSTANTS
  Addr <- MCAddr
  Babblers = {}
  ValidAddr <- MCValidAddr
  DefaultList <- MCDefaultList
  PollLists = {}
  MaxPods = 2
  ReplyTimeout = 2
  Turnaround = 1
  DefaultCadence = 5
  Cadences <- MCCadences
  ArmCommands = {TRUE, FALSE}
  Slack = 4
  WdtTimeout = 2
  PassMax = 2
  RxMax = 2
  BusRing = 1
  Lossy = FALSE

PROPERTY ArmedStateIsApplied
