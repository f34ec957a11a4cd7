SPECIFICATION Spec
CONSTANTS
  Image = {2, 3}
  Healthy = {2, 3}
  BootLimit = 2
  MaxFaults = 1
  MaxGen = 3
  Fallback = TRUE
PROPERTY RecordSurvives
