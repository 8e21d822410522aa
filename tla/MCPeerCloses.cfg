\* The host closes the connection, or sends garbage.
CONSTANTS
  MaxCount = 2
  DeviceDescLen = 3
  QualifierLen = 0
  StringLens <- MCStringLens
  ConfigDescs <- MCConfigDescs
  StrayLens = {0}
  Shapes <- AllShapes
  UnlinkEps = {0}
  WriteEps = {1}
  WriteLens = {1}
  MaxCommands = 1
  MaxWrites = 0
  Readers = {r1}
  Writers = {w}
  Stoppers = {s}
  Starter = starter
  ReadThread = readThread
  WriteThread = writeThread
  Timeouts = {"forever"}
  StartMayFail = FALSE
  SpawnMayFail = FALSE
  PeerMayClose = TRUE
SPECIFICATION FairThreadSpec
PROPERTY ShutdownCompletes
