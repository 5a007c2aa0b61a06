\* A program that also peeks, so that rx fills up, before head wraps; the
\* loop and the chip keep going.
CONSTANTS
  tooLong = tooLong
  Msg <- MCMsg
  NoMsg = NoMsg
  Oversized <- MCOversized
  ReadCalls <- MCGetAndPeek
  IndexRange = 256
  MaxCommands = 5
  MaxEvents = 6

SPECIFICATION LiveSpec

PROPERTY EverythingArrives
