\* Two invocations, eight numbers and two messages of two pieces; one connection that
\* breaks and one more, and one read.
CONSTANTS
  MaxRounds = 2
  MaxSeq = 8
  MaxMessages = 2
  MaxPieces = 2
  MaxConnections = 2
  MaxReads = 1
SPECIFICATION ViewSpec
INVARIANTS ViewTypeOK ObserverGetsAll ReplyIsShown
CHECK_DEADLOCK FALSE
