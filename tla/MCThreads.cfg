\* Two readers, every fault, two commands and one write.
CONSTANTS
  MaxCount = 2
  DeviceDescLen = 3
  QualifierLen = 0
  StringLens <- MCStringLens
  ConfigDescs <- MCConfigDescs
  StrayLens = {0}
  Shapes <- AllShapes
  UnlinkEps = {0}
  WriteEps = {1}
  WriteLens = {1}
  MaxCommands = 2
  MaxWrites = 1
  Readers = {r1, r2}
  Writers = {w}
  Stoppers = {s}
  Starter = starter
  ReadThread = readThread
  WriteThread = writeThread
  Timeouts = {"finite", "forever"}
  StartMayFail = TRUE
  SpawnMayFail = TRUE
  PeerMayClose = TRUE
SPECIFICATION ThreadSpec
INVARIANTS
  ThreadTypeOK
  SocketOutlivesThreads
  NoLostWakeup
  AsleepMeansServed
  ShutdownGoesOn
PROPERTIES
  FirstCauseWins
  QuietAfterFailure
  ImplementsCommandQueues
