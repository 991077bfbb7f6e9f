\* An invalid line read in one piece: is only that line consumed?
CONSTANTS
  BufSize = 8
  MaxLen = 6
  IOFailure = FALSE
  Streams <- MCStreamsLargeBuf
SPECIFICATION Spec
INVARIANT OneLinePerCall
