\* Two values tell a lost, repeated or displaced element apart.
CONSTANTS
  Cap = 4
  Elements = {a, b}
  Chunks <- MCChunks
  MaxRead = 5
SPECIFICATION Spec
\* An abort ends the program.
CHECK_DEADLOCK FALSE
INVARIANT BufferOK
PROPERTY ImplementsFifo
