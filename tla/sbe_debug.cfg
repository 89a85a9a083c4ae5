\* All templates, two messages behind each other or one over the other.
CONSTANTS
  Values = {1, 255}
  NullValue = 255
  Garbage <- NoNumber
  Used <- Messages
  BufferLength = 64
  MaxMessages = 2
  DebugBuild = TRUE
SPECIFICATION Spec
CHECK_DEADLOCK FALSE
INVARIANTS MisreadCaught DecodedAsSet
