\* Remote characteristics that are not read; the chip may restart, and the
\* loop polls for ever.
CONSTANTS
  Credits = 1
  Chunks = 1
  Local <- NoPipes
  Remote <- MCRemote
  BondStore = FALSE
  IsConnectable = TRUE
  ChangeTiming = FALSE
  LoopCalls <- RemoteCalls
  HandlerCalls <- NoCalls
  CallingHandlers = {}
  Careful = TRUE
  IndexRange = 8
  Openable = {0, 3, 5}
  MaxEvents = 2
  HwErrors = TRUE

SPECIFICATION LiveSpec

PROPERTY AdvertisesAgain
PROPERTY AcksArrive
