SPECIFICATION Spec
CONSTANTS
  Domain <- MCDomain
  Policy <- MCPolicy
  CurrentMa <- MCCurrentMa
  SettleMs <- MCSettleMs
  OnMs <- MCOnMs
  PeriodMs <- MCPeriodMs
  BudgetMa = 4
  RefMax = 2
  Wrap = 4
  BackendFaulty = TRUE
INVARIANTS TypeOK BudgetRespected RailRules
PROPERTY WindowIsReadBeforeItCloses
