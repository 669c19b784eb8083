CONSTANTS
  Shape = {"build", "script"}
  Window = 3
  Threshold = 2
  Path = {"src", "docs"}
  Op = {"edit", "run"}
  GitOp = {"push"}
  NoGit = NoGit
  None = None
  Unknown = Unknown
  Orphan = Orphan
  k1 = k1
  k2 = k2
  i1 = i1
  i2 = i2
  c1 = c1
  c2 = c2
  s1 = s1
  Conn = {c1, c2}
  Id = {i1}
  Session = {s1}
  ContractId = {k1}
  Commands <- MCCommands
  Edits <- MCEdits
  TwinEffects <- MCTwinEffects
  Registrable <- MCRegistrable
  Exits = {"nonzero"}
  MaxProposals = 3
SPECIFICATION Spec
INVARIANTS TypeOK AllowJustified ApprovalOnlyWhenUnsure HoldsReachable ResolveHonoured NamedContractGoverns BindingRegistered RecordedOnce
SYMMETRY Symmetry
CHECK_DEADLOCK FALSE
