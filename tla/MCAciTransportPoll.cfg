\* The library's use: only hal_aci_tl_event_get.  Both rings wrap.
CONSTANTS
  tooLong = tooLong
  Msg <- MCMsg
  NoMsg = NoMsg
  Oversized <- MCOversized
  ReadCalls <- MCGet
  IndexRange = 12
  MaxCommands = 14
  MaxEvents = 14

SPECIFICATION Spec

INVARIANT PacketsInOrder
INVARIANT WaitingIsRequested
INVARIANT RxDrained
PROPERTY EventLeavesRoom
