\* One request, and one line written.
CONSTANTS
  MaxCount = 3
  DeviceDescLen <- MCDeviceDescLen
  QualifierLen <- MCQualifierLen
  StringLens <- MCStringLens
  ConfigDescs <- MCConfigDescs
  StrayLens = {0}
  Shapes <- MCShapes
  UnlinkEps = {0, 3}
  WriteEps = {2}
  WriteLens = {1024}
  MaxCommands = 1
  MaxWrites = 1
  Out2 <- MCOut2
  In2 <- MCIn2
  LineCodingLen = 7
  TextLen = 1024
SPECIFICATION AppFairSpec
CHECK_DEADLOCK FALSE
PROPERTY LineCodingAnswered
