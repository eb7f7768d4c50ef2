SPECIFICATION Spec
CONSTANTS
  NFeatures = 2
  NCpus = 2
  MaxPlugs = 2
  MaxEvents = 3
  MaxFails = 1
INVARIANTS
  ReportedOnce
  TotalsNeverFall
  MissingIsReported
  NothingMissed
