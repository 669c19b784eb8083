CONSTANTS
  p1 = p1
  p2 = p2
  Proc = {p1, p2}
  Id = {1, 2, 3, 4}
  Limits = {3, 4}
  DefaultLimit = 3
  Now = {0}
  Initial = {0, 3}
  MaxCrashes = 1
  Daemon = {0, 1, 2}
  Foreign = {0}
  Contract = {1, 2, 3, 4}
  MaxDeaths = 1
  MaxAttempts = 2
  MaxCommands = 2
  None = None
  Unmade = Unmade
  Pruned = Pruned
  NoFile = NoFile
  Stale = Stale
SPECIFICATION Spec
INVARIANTS TypeOK ChoiceEnforced AgentRegistered NoStrayDaemon 
PROPERTIES KeepsShelf LiveSocketKeptAlone
ACTION_CONSTRAINTS StoreFirst ByHandOnlyAsSecond OneFault
VIEW View
SYMMETRY Symmetry
CHECK_DEADLOCK FALSE
