SPECIFICATION FairSpec
CONSTANTS
  Image = {2, 3, 4}
  Healthy = {2, 3}
  BootLimit = 2
  MaxFaults = 2
  MaxGen = 5
  Fallback = FALSE
INVARIANTS
  TypeOK
  SomeCopyValid
  ActiveIntact
  MirrorsAgree
  TokenNamesCandidate
  TriesBounded
PROPERTIES
  HealthyKept
  ImplementsPolicy
  CandidateResolved
