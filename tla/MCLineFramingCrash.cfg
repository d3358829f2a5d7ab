SPECIFICATION Spec
CONSTANTS
  Characters <- MCCharacters
  Streams <- MCStreams
  Interactive = FALSE
  MaxLines = 2
  RecvMax = 6
INVARIANTS
  NeverCrashes
CHECK_DEADLOCK FALSE
