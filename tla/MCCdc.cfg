\* Every pair of commands, with three lines written.
CONSTANTS
  MaxCount = 3
  DeviceDescLen <- MCDeviceDescLen
  QualifierLen <- MCQualifierLen
  StringLens <- MCStringLens
  ConfigDescs <- MCConfigDescs
  StrayLens = {0, 65535}
  Shapes <- MCShapes
  UnlinkEps = {0, 3}
  WriteEps = {2}
  WriteLens = {1024}
  MaxCommands = 2
  MaxWrites = 3
  Out2 <- MCOut2
  In2 <- MCIn2
  LineCodingLen = 7
  TextLen = 1024
SPECIFICATION AppFairSpec
\* The process ends, or everybody waits.
CHECK_DEADLOCK FALSE
INVARIANTS
  AppTypeOK
  ReplyFits
  LateWrites
PROPERTIES
  UsesDevice
  TerminalServed
  FailureEndsProcess
  HostIsAnswered
