SPECIFICATION FairLoopSpec
CONSTANTS
  Domain <- MCDomain
  DomainOrder <- MCDomainOrder
  Policy <- MCPolicy
  CurrentMa <- MCCurrentMa
  SettleMs <- MCSettleMs
  OnMs <- MCOnMs
  PeriodMs <- MCPeriodMs
  XdcrOrder <- MCXdcrOrder
  RailOf <- MCRailOf
  RawXdcr <- MCRawXdcr
  MayFail <- MCMayFail
  Calibrated <- MCCalibrated
  ReadMs <- MCReadMs
  WindowMs <- MCWindowMs
  NoDomain = "none"
  MaxChannels = 3
  SamplePeriod = 2
  WaitMax = 1
  WorkMax = 1
  Overshoot = 1
  BudgetMa = 3
  RefMax = 2
  Wrap = 11
  BackendFaulty = FALSE
INVARIANTS LoopTypeOK NothingEnergisedBetweenReads ReadsOnlySettledRails OnTimeBounded
PROPERTIES FreshMeansThisCycle PeriodicRunsAgain
