\* A careful sketch on links that come and go.
CONSTANTS
  Credits = 2
  Chunks = 1
  Local <- MCNotifyWrite
  Remote <- NoPipes
  BondStore = FALSE
  IsConnectable = TRUE
  ChangeTiming = TRUE
  LoopCalls <- SetAny
  HandlerCalls <- SetFirstOrEnd
  CallingHandlers = {"Connected", "PipeStatus", "DataReceived"}
  Careful = TRUE
  IndexRange = 5
  Openable = {1, 2, 3}
  MaxEvents = 2
  HwErrors = FALSE

SPECIFICATION Spec

INVARIANT TypeOK
INVARIANT InStep
INVARIANT CreditConserved
INVARIANT AckOnItsWay
INVARIANT TimingOncePerLink
