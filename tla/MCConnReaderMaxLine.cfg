\* A line of exactly MaxLen bytes: accepted, as the spec says?
CONSTANTS
  BufSize = 8
  MaxLen = 6
  IOFailure = FALSE
  Streams <- MCStreamsLargeBuf
SPECIFICATION Spec
INVARIANT TooLongOnlyBeyondMax
