\* Answers with one diff in five wrappings, on a host with git and on one without.
CONSTANTS
  Texts <- AllTexts
SPECIFICATION Spec
INVARIANTS
  OnlyCountsChange
  HunksFit
  CleanRepaired
  AllOrNothing
