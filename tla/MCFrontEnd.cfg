CONSTANTS
  i1 = i1
  i2 = i2
  item = item
  tractus = tractus
  Letter <- MCLetter
  Digit <- MCDigit
  Environment <- MCEnvironment
  OpaqueWord <- MCOpaqueWord
  Character <- MCCharacter
  MaxText = 6
  Word <- MCWord
  MaxWords = 4
  Root <- MCRoot
  Cwd <- MCCwd
  File = {f1, f2}
  MaxLines = 4
  Nothing = Nothing
  Component <- MCComponent
  FileName <- MCFileName
  Line <- MCLine
  Asked <- MCAsked
  Run = {i1, i2}
  Content <- MCContent
  Ours = tractus
  MaxClock = 1
  MaxEdits = 2
  MaxKills = 1
SPECIFICATION Spec
INVARIANTS SequencesCompose QuotedStaysTogether RedirectionIsAnEffect FlagsAnywhere EscapesByClimbing EveryTouchedPathReported SameContract GrantMeans NothingLost OneEntry
SYMMETRY Symmetry
CHECK_DEADLOCK FALSE
