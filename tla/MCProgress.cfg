\* Every fault; the application keeps calling read(), as main.cpp does.
CONSTANTS
  MaxCount = 2
  DeviceDescLen = 3
  QualifierLen = 0
  StringLens <- MCStringLens
  ConfigDescs <- MCConfigDescs
  StrayLens = {0}
  Shapes <- AllShapes
  UnlinkEps = {0}
  WriteEps = {1}
  WriteLens = {1}
  MaxCommands = 2
  MaxWrites = 1
  Readers = {r1}
  Writers = {w}
  Stoppers = {s}
  Starter = starter
  ReadThread = readThread
  WriteThread = writeThread
  Timeouts = {"forever"}
  StartMayFail = TRUE
  SpawnMayFail = TRUE
  PeerMayClose = TRUE
SPECIFICATION FairAppSpec
PROPERTIES
  CommandsAnswered
  CallsReturn
  ClientShutdownCompletes
