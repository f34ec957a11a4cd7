SPECIFICATION Spec
CONSTANTS
  Kinds = {"physical"}
  Scenario = {"dual"}
  MaxJobs = 1
  MaxFaults = 1
INVARIANT RefreshRouteKept
CHECK_DEADLOCK FALSE
