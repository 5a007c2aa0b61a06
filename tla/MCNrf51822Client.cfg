\* The client's side: discovery and requests to the peer, careful sketch.
CONSTANTS
  Cccds = {1}
  Peers <- MCPeers
  TxTotal = 1
  Keys = {}
  Locals <- MCSource
  Services <- MCServices
  Remotes <- MCRemotes
  BondStore = FALSE
  LoopCalls <- RemoteCalls
  HandlerCalls <- ReadFirst
  CallingHandlers = {"Discovered", "Updated"}
  Careful = TRUE
  Restarts = {"power"}
  MaxEvents = 2

SPECIFICATION LiveSpec

INVARIANT HandlesOfThisPeer
INVARIANT RequestEnds
INVARIANT InStep
PROPERTY DiscoveryEnds
