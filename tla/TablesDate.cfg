SPECIFICATION Spec
CONSTANTS
  Texts <- MCTexts
  DatedText <- MCDatedText
  LastYear = 2100
INVARIANT YearIsUtc
CHECK_DEADLOCK FALSE
