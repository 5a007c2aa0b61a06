\* Interrupt mode, HAL_ACI_TL_DEBUG build: rx fills up and is drained.
CONSTANTS
  Msg <- MCMsg
  NoMsg = NoMsg
  Oversized <- MCNone
  ReadCalls <- MCNone
  IndexRange = 256
  MaxCommands = 6
  MaxEvents = 7
  Debug = TRUE
  Flushes = TRUE

SPECIFICATION IsrSpec

INVARIANT PacketsKeptByIsr
INVARIANT NeverSpins
INVARIANT IdleIsRequested
