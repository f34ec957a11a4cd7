SPECIFICATION FairSpec
CONSTANTS
  Image = {2, 3}
  Healthy = {2, 3}
  BootLimit = 2
  MaxFaults = 1
  MaxGen = 2
  Fallback = FALSE
PROPERTY KeepsBootable
