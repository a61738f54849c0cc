SPECIFICATION Spec
CONSTANTS
  MaxEvents = 4
INVARIANTS
  TypeOK
  AnswersAreOfThisAttempt
  StatusTellsLink
  ApFlagTells
PROPERTIES
  ScanKeepsRadio
