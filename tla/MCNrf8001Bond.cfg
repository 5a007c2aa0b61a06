\* Bonding data are restored at the start and stored after the first bond,
\* beside a broadcast; the loop polls for ever.
CONSTANTS
  Credits = 1
  Chunks = 2
  Local <- MCBeacon
  Remote <- NoPipes
  BondStore = TRUE
  IsConnectable = TRUE
  ChangeTiming = TRUE
  LoopCalls <- Broadcast
  HandlerCalls <- SetFirst
  CallingHandlers = {"Connected", "Bonded", "PipeStatus", "DataReceived", "Disconnected"}
  Careful = TRUE
  IndexRange = 5
  Openable = {2}
  MaxEvents = 2
  HwErrors = FALSE

SPECIFICATION LiveSpec

INVARIANT BondingDataWhole
INVARIANT FirstBondSaved
INVARIANT BroadcastOpened
PROPERTY AdvertisesAgain
