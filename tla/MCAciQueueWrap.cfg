\* Any client: the queue as it is, checked against what its comment promises.
CONSTANTS
  p1 = p1
  p2 = p2
  Msg <- MCMsg
  NoMsg = NoMsg
  IndexRange = 256

SPECIFICATION Spec

PROPERTY ImplementsFifo
