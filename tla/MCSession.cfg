CONSTANTS
  Shim = {shim}
  Hook = {hook}
  Console = {1, 2}
  HoldTimeout = 1
  HoldWait = 2
  Capacity = 1
  Backlog = 1
  MaxDeaths = 1
SPECIFICATION FairSpec
INVARIANTS TypeOK RunsOnlyIfPermitted DecisionCarriedOut WaitOutlastsHold LedgerFollows AllowShownIfPermitted
PROPERTIES EveryCommandEnds
ACTION_CONSTRAINTS AtMostThree OneAfterAnother InOrder
CHECK_DEADLOCK FALSE
