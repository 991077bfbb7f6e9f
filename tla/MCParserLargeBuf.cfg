\* bufio buffer larger than MaxMessageLength: every full buffer is overlong.
CONSTANTS
  BufSize = 8
  MaxLen = 6
  IOFailure = TRUE
  Streams <- MCStreamsLargeBuf
SPECIFICATION PSpec
INVARIANT TypeOK
INVARIANT ReturnedPrefixValid
 
PROPERTY MessagesInStreamOrder
