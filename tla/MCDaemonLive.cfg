CONSTANTS
  Shape = {"build", "script"}
  Window = 3
  Threshold = 1
  Path = {"src", "docs"}
  Op = {"edit", "run"}
  GitOp = {"push"}
  NoGit = NoGit
  None = None
  Unknown = Unknown
  Orphan = Orphan
  k1 = k1
  k2 = k2
  i1 = i1
  i2 = i2
  c1 = c1
  c2 = c2
  s1 = s1
  Conn = {c1, c2}
  Id = {i1, i2}
  Session = {s1}
  ContractId = {}
  Commands <- LiveCommands
  Edits = {}
  TwinEffects <- MCTwinEffects
  Registrable <- LiveRegistrable
  Exits = {"nonzero"}
  MaxProposals = 2
SPECIFICATION FairSpec
PROPERTIES KeepsPromise EveryRequestEnds
CHECK_DEADLOCK FALSE
