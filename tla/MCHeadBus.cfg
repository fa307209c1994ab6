SPECIFICATION FairSpec
CONSTANTS
  Addr <- MCAddr
  Babblers = {1, 2}
  ValidAddr <- MCValidAddr
  DefaultList <- MCDefaultList
  PollLists <- MCPollLists
  MaxPods = 2
  ReplyTimeout = 2
  Turnaround = 1
  DefaultCadence = 5
  Cadences <- MCCadences
  ArmCommands = {TRUE}
  Slack = 4
  WdtTimeout = 2
  PassMax = 2
  RxMax = 1
  BusRing = 2
  Lossy = TRUE
INVARIANTS TypeOK SweepBounded NoWatchdogReset
PROPERTIES SweepAccountsForEveryPod SweepNeverStalls
