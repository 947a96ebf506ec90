SPECIFICATION PartsSpec
CONSTANTS
  Ids <- Three
  Settings <- Reviews
  Texts <- SomeTexts
  Quotes <- SomeQuotes
  Words <- Letters
  Preferences <- SomePreferences
  MaxLine = 2
  MaxChanges = 3
  MaxQuotes = 2
CHECK_DEADLOCK FALSE
INVARIANTS
  ReportIsFair EvidenceIsALine ScoreIsExact
