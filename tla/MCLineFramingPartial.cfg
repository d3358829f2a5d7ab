SPECIFICATION Spec
CONSTANTS
  Characters <- MCCharacters
  Streams <- MCStreams
  Interactive = FALSE
  MaxLines = 2
  RecvMax = 6
INVARIANTS
  FramedExactly
CHECK_DEADLOCK FALSE
