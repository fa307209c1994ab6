SPECIFICATION Spec
CONSTANTS
  Addr <- MCAddr
  Babblers = {}
  ValidAddr <- MCValidAddr
  DefaultList <- MCDefaultList
  PollLists <- MCPollLists
  MaxPods = 2
  ReplyTimeout = 2
  Turnaround = 1
  DefaultCadence = 5
  Cadences <- MCConfiguredCadences
  ArmCommands = {TRUE}
  Slack = 4
  WdtTimeout = 2
  PassMax = 2
  RxMax = 1
  BusRing = 1
  Lossy = TRUE
INVARIANT NoWatchdogReset

