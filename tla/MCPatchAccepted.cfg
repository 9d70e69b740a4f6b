\* Diffs whose header counts are right, with empty lines for context.
CONSTANTS
  Texts <- RightTexts
SPECIFICATION Spec
INVARIANTS
  AcceptedStays
