\* bufio buffer smaller than MaxMessageLength: a valid line longer than the
\* buffer.  Are the messages ReadMessage returns still the stream's lines?
CONSTANTS
  BufSize = 6
  MaxLen = 8
  IOFailure = FALSE
  Streams <- MCStreamsSmallBuf
SPECIFICATION PSpec
PROPERTY MessagesInStreamOrder
