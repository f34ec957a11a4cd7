SPECIFICATION FairSpec
CONSTANTS
  Version = {1}
  Payload = {1}
  MaxSerial = 6
  MaxChunks = 1
  MaxFaults = 0
  Reader = {r1}
INVARIANTS
  ReadersWhole
  NoGarbage
PROPERTY OrphansReclaimed
