---------------------------- MODULE MCConnReader ----------------------------
(***************************************************************************)
(* Input streams for checking ConnReader.  A stream is NumLines lines,     *)
(* each followed by an eol, and possibly an unterminated tail.  Lines are  *)
(* built from a valid five-byte prefix ("ISUP ": type I, command SUP,      *)
(* space) padded to the length a case needs, relative to BufSize and       *)
(* MaxLen: one buffer, longer than the buffer, exactly MaxLen, overlong,   *)
(* invalid prefix, shorter than the prefix.  "IINF" is a bare FourCC: with *)
(* its eol it is five bytes, so validateMessage sees the eol as byte 4.    *)
(***************************************************************************)
EXTENDS ConnReader

NumLines == 3

Prefix == <<"I", "S", "U", "P", " ">>
ValidLine(k) == Prefix \o [i \in 1 .. k - 5 |-> "I"]
BadType == <<"S", "S", "U", "P", " ">>     \* 'S' is no type tag
NoSpace == <<"I", "S", "U", "P", "I">>     \* byte 5 is not a space
Short   == <<"I">>                         \* too short to be validated
INF     == <<"I", "I", "N", "F">>          \* a bare FourCC line

Tails == {<<>>, <<"I", "S">>}

StreamsOf(lines) ==
  { FlattenSeq([i \in 1 .. NumLines |-> ls[i] \o <<EOL>>]) \o t :
      ls \in [1 .. NumLines -> lines], t \in Tails }

\* BufSize 6, MaxLen 8: 5 fits one buffer, 7 does not, 13 is overlong.
SmallBufLines == {<<>>, INF, ValidLine(5), BadType, ValidLine(7),
                  ValidLine(13)}

\* BufSize 8, MaxLen 6: every line that fills the buffer is overlong.
LargeBufLines == {<<>>, Short, INF, ValidLine(5), ValidLine(6), ValidLine(9),
                  BadType, NoSpace}

MCStreamsSmallBuf == StreamsOf(SmallBufLines)
MCStreamsLargeBuf == StreamsOf(LargeBufLines)
=============================================================================
