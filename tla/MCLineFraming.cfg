SPECIFICATION Spec
CONSTANTS
  Characters <- MCCharacters
  Streams <- MCStreams
  Interactive = TRUE
  MaxLines = 3
  RecvMax = 12
INVARIANTS
  TypeOK
  FramedExactly
  NeverCrashes
CHECK_DEADLOCK FALSE
