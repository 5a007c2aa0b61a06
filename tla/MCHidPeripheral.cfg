\* Each kind of HID, two of them sharing the chip's two buffers; or bonds,
\* restarts and power losses.
CONSTANTS
  Credits = 2
  Chunks = 2
  Local <- MCLocal
  Remote <- MCRemote
  BondStore = TRUE
  IsConnectable = TRUE
  ChangeTiming = FALSE
  LoopCalls <- NoCalls
  HandlerCalls <- NoCalls
  CallingHandlers = {}
  Careful = TRUE
  IndexRange = 8
  Openable = {4, 6}
  MaxEvents = 2
  HwErrors = FALSE
  EepromSize = 8
  Sizes <- MCSizes
  HidSets <- MCHidSets
  IdOffset = 1
  Characters <- MCCharacters
  Codes = {4}
  Bits <- MCBits
  Patient = TRUE
  MaxHeld = 2
  MaxBonds = 2
  MaxVersions = 2

SPECIFICATION HidSpec

INVARIANT KeysReported
INVARIANT StoreTrusted
PROPERTY CallsReturn
