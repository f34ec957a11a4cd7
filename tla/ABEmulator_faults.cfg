SPECIFICATION Spec
CONSTANTS
  Image = {2, 3, 4}
  Healthy = {2, 4}
  BootLimit = 2
  MaxFaults = 2
  MaxGen = 5
  Fallback = TRUE
INVARIANTS
  TypeOK
  ActiveIntact
  ActiveCameUp
PROPERTIES
  RecordSurvivesResets
