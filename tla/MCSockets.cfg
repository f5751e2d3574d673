SPECIFICATION MCSpec
CONSTANTS
  First <- MessageStarts
  Cap = 2
  Str = {s1, s2}
  Text <- Texts
  Block = {b1, b2}
  Slash = 47
  M_UNIX_ADDRSTRLEN = 4
  NULL = NULL
INVARIANTS
  Framed
  ShortAtEnd
  SentWhole
  StreamIntact
  StringsSound
  AssertsJustified
PROPERTIES
  CallsReturn
CHECK_DEADLOCK FALSE
