\* A careful client of one queue, at the real width of head and tail.
CONSTANTS
  p1 = p1
  p2 = p2
  Msg <- MCMsg
  NoMsg = NoMsg
  IndexRange = 256

SPECIFICATION CarefulSpec

INVARIANT TypeOK
INVARIANT NoOverrun
PROPERTY ImplementsFifo
