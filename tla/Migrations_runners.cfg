SPECIFICATION FairSpec
CONSTANTS
  Runners = {r1, r2, r3}
  Count = 2
  Statements <- MCStatements
INVARIANTS
  TypeOK
  SuccessMeansUpToDate
  ReportsAreTrue
  OnlyRacesClash
  SomeRunnerCanProceed
PROPERTIES
  EveryRunnerEnds
  ImplementsLog
