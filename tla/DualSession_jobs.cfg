SPECIFICATION Spec
CONSTANTS
  Kinds = {"physical", "offline"}
  Scenario = {"stock-hp", "lefony-menu1", "dual"}
  MaxJobs = 2
  MaxFaults = 2
INVARIANTS
  TypeOK
  
  JournalTruthful
  ResumeAccepted
PROPERTIES
  VerifiedBoots
  ImplementsPromise
CHECK_DEADLOCK FALSE
