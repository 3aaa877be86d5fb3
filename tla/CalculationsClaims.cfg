CONSTANTS
  Entries <- ClaimEntries
  PerRate = 10
  BasisPoints = 100
  SafetyBps = 2
  Fine = 2
  MaxPrompt = 4
  MaxCeiling = 2
  MaxThoughts = 2
  Policies <- MCPolicies
  Stretches <- MCStretches
  Opened <- MCOpened
SPECIFICATION MCSpec
INVARIANTS
  EstimateCoversBill
  EstimateIsTheMost
  ProvidersDoNotUndercount
  ConsoleShowsCharged
CHECK_DEADLOCK FALSE
