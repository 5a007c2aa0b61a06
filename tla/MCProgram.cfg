\* Both devices, with and without a reset line.  The end of begin() is the
\* end of this model.
CONSTANTS
  Sketches <- MCSketches
  Uuids <- MCUuids
  Devices = {"nRF8001", "nRF51822"}
  ResetPins = {"wired", "unused"}
  Callers <- MCCallers
  DataSizes <- MCDataSizes
  EventSizes = {1, 20}
  AdvertisingIntervals <- MCIntervals
  AdvPipes = {1, 2}
  IntBits = 16
  MaxCalls = 2

SPECIFICATION ProgramSpec

INVARIANT WritesFit
INVARIANT SetupComplete
INVARIANT TablesAgree
INVARIANT PacketsReadBack
INVARIANT EventsReadBack
PROPERTY BeginReturns

CHECK_DEADLOCK FALSE
