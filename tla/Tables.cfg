SPECIFICATION Spec
CONSTANTS
  Texts <- MCTexts
  DatedText <- MCDatedText
  LastYear = 2100
INVARIANTS TypeOK DatesAreToday SectionsRead
CHECK_DEADLOCK FALSE
