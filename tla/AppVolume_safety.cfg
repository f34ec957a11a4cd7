SPECIFICATION Spec
CONSTANTS
  Version = {1, 2}
  Payload = {1}
  MaxSerial = 4
  MaxChunks = 2
  MaxFaults = 1
  Reader = {}
INVARIANTS
  TypeOK
  RootWhole
