\* Three commands and two writes: enough for a request left waiting by an
\* exhausted write, data left over by a request, and an unlink that races both.
CONSTANTS
  MaxCount = 3
  DeviceDescLen = 2
  QualifierLen = 1
  StringLens <- MCStringLens
  ConfigDescs <- MCConfigDescs
  StrayLens = {0}
  Shapes <- MCShapes
  UnlinkEps = {0}
  WriteEps = {1, 2}
  WriteLens = {0, 1, 3}
  MaxCommands = 3
  MaxWrites = 2
SPECIFICATION Spec
\* Once the device has failed nothing need happen any more.
CHECK_DEADLOCK FALSE
INVARIANTS
  TypeOK
  NoCommandLost
  InStreamIntact
  InOrder
  NoStalledIn
PROPERTIES
  ImplementsUrbService
