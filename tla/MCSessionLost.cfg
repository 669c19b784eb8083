CONSTANTS
  Shim = {shim}
  Hook = {hook}
  Console = {1, 2}
  HoldTimeout = 1
  HoldWait = 2
  Capacity = 1
  Backlog = 1
  MaxDeaths = 1
SPECIFICATION Spec
INVARIANT ApprovedRuns
ACTION_CONSTRAINTS AtMostThree OneAfterAnother InOrder
CHECK_DEADLOCK FALSE
