SPECIFICATION Spec
CONSTANTS
  Tasks <- BothTasks
  Measurements <- Identities
INVARIANTS
  TypeOK
  ReportsOneMeasurement
  OwnReadingIsFresh
  FoundStaysBound
