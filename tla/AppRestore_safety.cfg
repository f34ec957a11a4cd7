SPECIFICATION MCSpec
CONSTANTS
  Version = {1, 2}
  Payload = {1}
  MaxSerial = 3
  MaxChunks = 1
  MaxFaults = 1
  Reader = {}
  Archive <- Archives
  MaxRestores = 1
INVARIANTS
  RootWhole
  NamesFree
PROPERTY ImplementsStore
