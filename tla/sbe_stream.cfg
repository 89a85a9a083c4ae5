\* Three messages, one of every block length; two of the longest fill the buffer.
CONSTANTS
  Values = {1, 255}
  NullValue = 255
  Garbage <- NoNumber
  Used <- BlockLengths
  BufferLength = 64
  MaxMessages = 3
  DebugBuild = FALSE
SPECIFICATION Spec
CHECK_DEADLOCK FALSE
INVARIANTS DecodedAsSet ReaderOnTrack
