SPECIFICATION FairSpec
CONSTANTS
  Kinds = {"physical", "offline"}
  Scenario = {"stock-hp", "lefony-menu1", "dual"}
  MaxJobs = 2
  MaxFaults = 1
PROPERTY JobFinishes
CHECK_DEADLOCK FALSE
