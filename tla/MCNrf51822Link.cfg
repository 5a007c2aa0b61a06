\* The peripheral's side: subscriptions, buffers, bonding, restarts.
CONSTANTS
  Cccds = {1}
  Peers <- NoPeerTable
  TxTotal = 2
  Keys = {1, 2}
  Locals <- MCLocals
  Services <- NoTables
  Remotes <- NoTables
  BondStore = TRUE
  LoopCalls <- LinkCalls
  HandlerCalls <- SetFirst
  CallingHandlers = {"Connected", "Subscribed", "Written", "Disconnected"}
  Careful = FALSE
  Restarts = {"power", "end"}
  MaxEvents = 2

SPECIFICATION LiveSpec

INVARIANT BuffersNotMadeUp
INVARIANT BondShared
INVARIANT BondHonoured
PROPERTY AdvertisesAgain
