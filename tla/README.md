# Arduino BLEPeripheral: specifications, checks and proofs

This directory holds TLA+ modules that model the arduino-BLEPeripheral
library, the TLC configurations that check them on small instances, and
theorems about them that TLAPS proves for every value of the constants.
`PROJECT.json` maps every definition to the lines of code it stands for, and
lists the runs, the findings and the hazards.

Run a configuration with `tlc -config <run>.cfg <module>.tla`, check the proofs
of a module with `tlapm <module>.tla`.

## The system

The library lets a sketch act as a Bluetooth LE peripheral. The sketch declares
characteristics, calls `BLEPeripheral::begin()` once and `poll()` in its loop.
Below that there are two drivers with the same interface (`BLEDevice`): one for
the nRF8001, a radio chip behind an SPI bus, and one for the nRF51/nRF52, whose
SoftDevice runs on the same processor.

| Part | State | Operations | Talks to |
| --- | --- | --- | --- |
| packet queue, `utility/aci_queue.cpp` | four slots, 8-bit `head` and `tail` | init, enqueue, dequeue, is_empty, is_full, peek | used twice by the transport |
| transport, `utility/hal_aci_tl.cpp` | command ring `aci_tx_q`, event ring `aci_rx_q`, lines REQN and RDYN, whether the interrupt is attached | send, event_get, event_peek, q_flush, init, `m_aci_isr` | chip (full-duplex SPI transfers), `lib_aci` |
| `utility/acilib.cpp` | none | one encoder per command, one decoder per event | `lib_aci` |
| `utility/lib_aci.cpp` | `msg_to_send`, the parameters of open-for-advertising, pipe bitmaps, data credit, bond state (`aci_state_t`) | one function per command, `event_get` | transport, driver |
| nRF8001 driver, `nRF8001.cpp` | pipe tables of local and remote characteristics, flags of the link, position in the bonding data, broadcast pipe | `begin`, `poll` and its handler of each event, the API of `BLEDevice` | `lib_aci`; calls back into `BLEPeripheral` |
| nRF51822 driver, `nRF51822.cpp` | handles, subscriptions, transmit buffer count, request flag, authentication status | as above | SoftDevice |
| `BLEPeripheral.cpp` | central, attribute lists, advertisement settings | `begin`, `poll`, `disconnect`, `end`, event listener | driver, the sketch's handlers |
| characteristics | value, subscribed and written flags, handlers | `setValue`, `broadcast`, `written`, ... | driver, sketch |
| bond store, `BLEBondStore.cpp` | a flag and bytes in EEPROM or flash | `hasData`, `clearData`, `putData`, `getData` | drivers |
| HID, `BLEHIDPeripheral.cpp` and its devices | the devices' reports, report ids | press, release, write, move, ... | `BLEPeripheral`, whose `poll()` it calls while it waits |
| beacons, UUIDs | none | encodings | `BLEPeripheral` |

What makes it hard:

* The transport is full duplex over two small rings. Sending needs room in the
  command ring, a transfer needs room in the event ring, and the request line
  must be pulled low again after every transfer.
* In an interrupt build the transfers run in an ISR that preempts the readers
  and writers of the rings between any two ring operations.
* Handling an event calls the sketch, whose handlers call the library again in
  the middle of `poll()`; they compete with the driver itself for four slots.
* Most results of `hal_aci_tl_send` are ignored, so a refused command is lost.
* What a driver knows of the link is a copy, updated by events that arrive
  after the radio changed; credits, acknowledgements, pipe states and responses
  cross with disconnections.
* Bonding data move in several messages, across events and power cycles, into a
  store that is written byte by byte.
* Arrays, handles and pipe numbers are counted in one walk over the attributes
  and used in another, and every setup message has its own length and place.
* Discovery of a peer is a chain of requests, each made by the handler of the
  last response, on a link that may end between any two.

What makes each part correct: the queue is a bounded FIFO; the transport loses,
repeats and reorders nothing, and never waits for itself; the drivers keep in
step with the radio, never spend credit or buffers they do not have, acknowledge
every write, ask for their timing once, and advertise when they are not
connected; the bond in the store is the one the peer has; every value reaches
the characteristic it belongs to; `begin()` writes within its arrays, and leaves
the radio told what the driver's tables say; a packet is read as what was
written; a host sees the keys a sketch holds down.

## Modules

| Module | Models |
| --- | --- |
| `AciRing` | the queue's record and operations as pure operators |
| `BoundedFifo` | what a queue promises, independent of its storage |
| `AciQueue` | one queue and its client; implements `BoundedFifo` |
| `AciTransport` | the polled transport: two rings, two lines, the chip |
| `AciTransportIsr` | the interrupt-driven transport, cut where it can be preempted |
| `Nrf8001Chip` | the chip behind the driver, external: modelled from the commands the driver sends and the events it handles |
| `Nrf8001` | the driver between `begin()` and `end()`, with the parts of `lib_aci`, `BLEPeripheral` and the characteristics its handlers change |
| `SoftDevice` | the SoftDevice and the peer behind it, external, from the calls and events of `nRF51822.cpp` |
| `Nrf51822` | the other driver, with `end()`, `begin()` and power cycles |
| `Peripheral` | the attribute lists, the advertisement data and what the constructors leave in an attribute: pure operators |
| `Nrf8001Setup`, `Nrf51822Setup` | the walk of each driver's `begin()` over the attributes: pure operators |
| `Setup` | the sketch's declarations, `BLEPeripheral::begin()`, the handshake with the nRF8001 |
| `AciFormats` | the structures of ACI packets, and the encoders and decoders of `acilib.cpp` as lists of offsets |
| `LibAci` | the functions of `lib_aci.cpp` over their shared buffers |
| `Program` | `Setup` followed by `LibAci` |
| `BondEeprom` | the bond store in EEPROM, one byte at a time |
| `HidDevices` | the reports the HID devices make, and how a host reads them |
| `HidPeripheral` | HID devices over `Nrf8001`, with `BondEeprom` below it |
| `AciRingLemmas`, `Iteration` | lemmas: the ring's operators; walks over a list, one step for each index |
| `AciQueueProofs`, `AciTransportProofs`, `Nrf8001Proofs`, `Nrf51822Proofs`, `HidPeripheralProofs`, `ProgramProofs` | theorems |
| `MC...` | constants for TLC |

**Queue.** `Successor` is the `uint8_t` increment. `IsFull` is the comparison
the code makes, in which `head` is promoted to `int`: for `head` of 252 and more
no `tail` can equal `head + 4`. `FullIsDetectable` names the states in which the
comparison can be trusted, or is not needed; the careful client of `AciQueue`
and the senders of `AciTransport` stay within it. Nothing above them does: see the
driver.

**Transport.** The n-th command accepted and the n-th event emitted are the
number n, so `CommandsKept` and `EventsKept`, the two parts of `PacketsInOrder`,
say that a ring holds exactly the numbers that are on their way, in order.
`Transfer` is the whole of `m_aci_event_check` after its early returns
(`NoRoom`, `NotReady`), followed by what the read call does. The SPI bytes are
left out.

In `AciTransportIsr` the main program's calls are cut at every `noInterrupts`
section of the queue, and `m_aci_isr` may run between two cuts.
`hal_aci_tl_init`, which empties the rings with interrupts on while the ISR of the
last one may be attached, is cut into the stores of `aci_queue_init` (`EmptyRings`)
and what follows. `raced` is set when the ISR runs between these stores, and the
behaviour ends. `wasFull` is the
local `was_full`, which the code assigns only if `HAL_ACI_TL_DEBUG` is defined;
any other build reads whatever is there, and `GetSample` chooses. The library
itself is built without `HAL_ACI_TL_INTERRUPT`; this module is about the build
the code offers.

**nRF8001 driver.** The transport below is reduced to what its theorems grant:
`out.tx` is a FIFO of four commands, and the exchange that fetches an event takes
a command out first (`EventLeavesRoom`). They grant it as long as no fifth command
is sent while the ring is not seen to be full. The driver does not see to that, so
`out.head` counts where the oldest command is: a fifth command is refused
(`Refused`) where `aci_queue_is_full` says so, and overruns the oldest one where it
does not, at one of the last four indices. There the behaviour ends (`Overrun`),
and every property is about what comes before. Each API call is a function of
`out`, the state calls change, so that handlers can make them in the middle of an
event (`AfterHandler`, up to two calls in one handler of a poll) and the loop
between two polls (`Call`). Each event's handler is an action, from the exchange to
the last call it makes. The loop over the pipes of a pipe status event runs on the
library's bitmap, so a handler in it that disconnects changes what the loop finds
for the characteristics behind (`InLoop`, `Looped`). Payloads are left out, a pipe
stands for the characteristic it carries. `Careful` restricts the sketch to setting
values while the characteristic is subscribed. Command responses the driver does
nothing about are left out of the chip's replies, and the commands that ask for
them are the one command `info`.

**nRF51822 driver.** Calls to the SoftDevice take effect when they are made, its
events wait in a queue until `poll()` handles one: `dev` is what calls change,
the SoftDevice's state included, `events` the queue. A peer is an attribute
table, a sequence of services with handles; discovery, reads, writes and
subscriptions are client procedures of which the SoftDevice runs one at a time.
`Restarts` says whether power may go ("power") and whether the sketch may call
`end()` and `begin()` ("end"). The bond store is one value here: a key, `NoKey`, or
`Torn`, what a power loss can leave of a page that was being erased or written and
whose first word, the only one `hasData()` looks at, is not blank. With the power on
an erase or a write is done before anything else happens.

**Setup.** A sketch is two lists of attributes and the lengths of the parts of
its advertisement. `Walk` is the whole sequence of setup messages, each with its
target, offset, length and what it says; the handshake that sends them is made of
actions of the driver's loops and of the chip, which checks that a message comes
at the next place of its target. `TablesAgree` compares, for either driver, what
the radio was told with the tables the driver goes by afterwards.

**lib_aci.** A byte of a packet is the field it belongs to and the number of the
call that wrote it, so that a byte an earlier call left in the static buffer
shows. The chip's side reads packets by the structures of the headers, acilib's
side writes them by offsets: the properties compare the two.

**HID.** `sendData` is an action of its own, between which polls run, as its loop
calls `poll()`; `use` keeps a run to typing or to bonding, which share nothing
but the link. In EEPROM power may go between any two writes of a byte. If that is
in the saving of the first data, the store says it has data that are not there
(`Half`); the sketch may clear it before `begin()`, otherwise the behaviour ends, as
does one in which a command was overrun (`Ended`).

## Runs

| Run | States | Shows |
| --- | ---: | --- |
| `queue` | 51 k | with indices of the real width, a careful client never overruns a slot (`NoOverrun`), and the ring is a bounded FIFO, results included (`ImplementsFifo`) |
| `queue_wrap` | | *violation*: any client; at `head` 252 a fifth packet is accepted |
| `transport_poll` | 615 k | only `event_get`, as the library does: nothing lost or reordered while both rings wrap, a command that could be answered is always requested, the event ring is empty between calls, a handler has room for a command |
| `transport_peek` | 21 k | `event_peek` too, so that the event ring fills up: under fairness everything arrives |
| `isr_debug` | 959 k | preemption anywhere, with flushes and repeated initialisations: nothing lost (`PacketsKeptByIsr`), the ISR never finds a full ring, no request forgotten between calls, unless the ISR ran while `hal_aci_tl_init` emptied the rings |
| `link` | 3760 k | two characteristics, links that come and go, handlers and loop that send and disconnect, until a command is overrun: `InStep`, `CreditConserved`, `AckOnItsWay`, `TimingOncePerLink` |
| `bond` | 957 k | until a command is overrun, bonding data restored and stored whole, the first bond saved, a broadcast opened, and an idle chip advertises again |
| `remote` | 398 k | remote characteristics, and hardware restarts: until a command is overrun, indications are acknowledged and advertising resumes |
| `nrf51_link` | 476 k | power cycles that may tear the bond, `end()` and `begin()`, pairing: `BuffersNotMadeUp`, `BondShared`, `BondHonoured`, and the device advertises after every link |
| `nrf51_client` | 188 k | discovery over two kinds of peers, requests, power cycles: `HandlesOfThisPeer`, `RequestEnds`, `InStep`, and discovery ends on every link that lasts |
| `program` | 359 k | `begin()` with either driver over 1494 sketches: arrays and advertisements fit (`WritesFit`), the handshake completes (`SetupComplete`, `BeginReturns`), tables agree; then every call of `lib_aci`, whose packets and events are read back whole |
| `hid` | 901 k | what the host sees pressed is what the sketch holds (`KeysReported`), the store has the peer's bond after power losses at any byte, unless one hit the first saving (`StoreTrusted`), calls return (`CallsReturn`) |

The finding in `PROJECT.json` quotes the lines that `queue_wrap` contradicts.

### Disagreements no run lists

The passing runs are about sketches for which the library does what it says. The
following show with the same modules, a changed constant or another property,
and are what a user of the library should know.

*Transport.* `Reattached` fails under `IsrLiveSpec`: an interrupt between the
sampling of `was_full` and the read leaves the ISR detached for ever.
`NeverSpins` fails in `isr_debug` with `Debug = FALSE`, where `was_full` is
uninitialised. Without the condition on `raced`, all three properties of
`isr_debug` fail: `end()` only resets the chip (`nRF8001.cpp:1197`), so the ISR is
still attached when the next `begin()` empties the rings (`hal_aci_tl.cpp:418`).
An interrupt between the new head and the new tail of a full event ring spins for
ever, one behind them leaves an event of the chip before its reset.

*nRF8001 driver.*

* A fifth command sent while the ring is full and its index within four of the wrap
  (`queue_wrap`) is accepted: it takes the place of the oldest command and is sent
  twice. What is lost may be an acknowledgement, a request to advertise or a message
  of the bonding data, and a data packet sent twice has one credit. `AckOnItsWay`,
  `AdvertisesAgain`, `CreditConserved` and the other properties of the driver end
  where that happens.
* `SendsOnOpenPipes` fails with `disconnect` among the calls, or with
  `Careful = FALSE`: `txPipeOpen` survives both `disconnect()` and a
  disconnection. `CreditTracksSends` fails with `info` among the calls: a refused
  notification costs its credit. `CreditConserved` fails with remote writes, which
  take no credit.
* A readable remote characteristic takes every packet for its own
  (`nRF8001.cpp:1135`), so `AcksArrive` fails with one before an indicating one,
  whose indications nobody acknowledges. No property says where a value belongs.
* `BroadcastOpened` fails with two characteristics to broadcast: the second's pipe
  is opened, its value refused by a full queue, and the library keeps the first's.
* `InStep` fails in `link` with `HwErrors = TRUE`, because no handler tells
  `BLEPeripheral` of a restart, and so does `BondingDataWhole` in `bond`: the
  hardware error handler advertises in the middle of the restoring.
* `AdvertisesAgain` fails in `remote` when the handler of the disconnection
  unsubscribes twice: the queue is full and `startAdvertising` is refused.
* `canUnsubscribeRemoteCharacteristic` makes the test of
  `canSubscribeRemoteCharacteristic`: it is true only while the pipe is closed.

*nRF51822 driver.*

* `end()` and `begin()` on a link leave `_remoteRequestInProgress`, the central
  and the subscriptions as they were; the destructor calls `end()` once more and
  frees the arrays twice.
* A write without response, or a request the SoftDevice refuses, leaves the
  request flag set until the link ends; subscribing does not look at it.
* A bond store torn by a power loss is taken for a bond (`BLEBondStore.cpp:33`). Its
  key is no peer's, and new bonds are refused (`nRF51822.cpp:660`) until the sketch
  calls `clearData()`. `BondShared` and `BondHonoured` are about whole keys.
* Discovery is silent if none of the services is found, if the last one ends at
  0xFFFF, or if a request of the sketch comes in between.
* Indications and write requests take from `_txBufferCount` and never return it.
* `canNotify` ignores the subscription, which `API.md:288` says it tells.
* A read response with an error other than insufficient authentication is
  delivered as a value.

*Setup.* `TablesAgree`, `WritesFit` or `BeginReturns` fail for sketches outside
`MCProgram`: a local characteristic without properties; a remote characteristic
before any remote service; two remote services with UUIDs of their own, or a
16-bit one before it (wrong UUID index); attributes constructed after the lists were
allocated; a second `begin()`, which appends two remote attributes more. Only
`advertisementData[0]` reaches the nRF8001, and the number of custom UUIDs only
if there are advertisement data. An error response leaves `begin()` waiting.

*lib_aci.* `acil_encode_cmd` always returns false, `acil_decode_evt` has no case
for echo, and the decoder of read dynamic data takes a byte too many; the library
calls none of the three. Advertising intervals from 4096 ms wrap where an `int`
has 16 bits, and a broadcast below 100 ms is refused without a word. Pipes opened
for advertising accumulate in a static bitmap even if the command is refused.

*HID and bond store.*

* With `Patient = FALSE` a report is lost on a link that lasts: values set
  before the subscription take no credit and fill the queue, and `sendData` does
  not look at the result of `setValue`. A lost release is a key that sticks.
* A report has six key slots, the report map describes five; pressing the same
  key twice takes two slots; with all slots taken a press is refused. Writing a
  shifted character releases a SHIFT the sketch holds. The mouse's wheel byte is
  not in the report map. A system control's report counts from Sleep, Power,
  Wakeup (`BLESystemControl.cpp:18-20`), the header's names for 1 and 2 are Power
  and Sleep, so a host that is sent one does the other. `Read` follows the
  descriptor, and `KeysReported` does not notice, as every system control is released
  in the call that presses it.
* A power loss in the first saving leaves a store that says it has data and has
  none; sizes read from it are not checked against the buffer of 26 bytes. After
  later ones the messages may be of two versions of the same bond.

### Bounds

* `queue`: two packets tell order, loss and repetition apart. `IndexRange` is
  the real 256.
* `transport_poll`: `IndexRange` 12 is the smallest width in which the indices
  wrap while the full test can be trusted; 14 commands and events take both
  rings past the wrap. `PacketsKept` is proved for every width and number.
* `link` and `bond` have five indices in the driver's ring and `remote` and `hid`
  eight (the code has 256), the fewest in which a full ring is seen to be full at one
  of them, and at several; the ring starts at any. The theorems hold for any number.
* `transport_peek`, `isr_debug`: six or seven events fill the ring of four and
  leave some behind it; the width does not matter, as nothing wraps.
* `link`: two characteristics, so that the loop over them can be interrupted by a
  handler in the middle; two credits, so that one characteristic with two pipes
  can spend both; two events waiting (`MaxEvents`), enough for a disconnection
  and a reconnection the driver has not seen.
* `bond`: two messages of bonding data are the fewest with a beginning and an
  end. One credit. The bond request of `PipeError` is not reached: it
  needs a remote characteristic too, and the product is too large for liveness.
* `remote`: an indicating and a notifying characteristic, one credit.
* `nrf51_link`: two keys and two buffers, one characteristic that does
  everything. `nrf51_client`: two services and two peers, one with a foreign
  service between them and one without the second service, so that handles of one
  would be wrong on the other. `MaxEvents` is two, with a third slot kept for the
  answer to the client procedure, which the SoftDevice never drops.
* Handlers make at most two calls; two calls and the driver's own command are
  what `EventLeavesRoom` does not cover.
* `program`: a service with up to two more attributes of each kind, so that each
  kind follows each other; remote lists alike; lengths at both sides of every
  limit (20, 26, 29, 31 bytes). `MaxCalls` is two: a call after a call is what a
  shared buffer can get wrong. No `end()` once `lib_aci` was called.
* `hid`: the real six slots, of which a sketch holds two (`MaxHeld`; more than
  five keys the report map does not describe), two credits, two messages of two
  sizes in eight bytes of EEPROM, two bonds with two versions of their data. A
  sketch calls only when the queue is empty (`Patient`), and links are up again
  only after the reports of the last one are gone (`Settled`).

### Fairness

`poll` (and `hal_aci_tl_event_get`) is weakly fair, as the sketch's `loop()` calls
it for ever; so are the waiting loops of `begin()` (`Loops`) and of `sendData`.
`ChipLowersRDYN`, `Chip` and `PeerAnswers` are weakly fair: a chip that is
requested answers, one that gets a setup message responds, and a client procedure
the SoftDevice started ends, as the protocol's own timeout sees to.
`HostReceives` is strongly fair: on a link that lasts the chip sends what it
took, though a disconnection may disable it again and again. In the interrupt
build an attached interrupt is taken and every call the main program makes comes
to its end. Connections, subscriptions, writes, the sketch's calls and the
chip's own events are under no obligation.

## Proofs

`AciRingLemmas` proves what the ring's operators do to the sequence
`Contents(q)`, by arithmetic on slots modulo four; the transport's proofs
follow from these facts about sequences.

* `AciQueueProofs`: `TypeCorrect`; `NoOverrunCorrect`, from the invariant that the
  occupancy is at most four and every occupied slot holds a packet (`NoOverrun`
  is inductive only together with the types); `FifoRefinement`, that each
  step of a careful client is a step of `BoundedFifo` under
  `fifo <- Contents(queue)`.
* `AciTransportProofs`: for programs that only get events (`ReadCalls = {"get"}`,
  as the library), `PacketsKept`, `RxDrainedAlways` and `RoomToAnswer`. The
  invariant joins the types, the two parts of `PacketsInOrder` and "rx is empty":
  that last part is what makes the others inductive, as the full test of rx is
  then never in doubt. `RequestedAlways` on top of it: a command that waits is
  one the chip was requested for.
  For the interrupt build, in the same module: `PacketsKeptInterrupted`,
  `NeverSpinsDebug` and `RequestedBetweenCalls`, under `BeforeWrap`: the debug
  build, and fewer events than the index of rx has values, as the full test is
  again not to be trusted beyond. `EmptyingInv` says what the stores of a repeated
  initialisation leave from one to the next. `IsrInv` ties `pc` and `wasFull` to the rings: an
  attached interrupt means there is room for the event it may bring, a detached
  one that the main program is on its way to attach it. All three end where the ISR
  runs between the stores of `EmptyRings` (`raced`).
* `Nrf8001Proofs`: `InStepAlways`, for chips that do not restart, from `StepInv`:
  what the driver believes is what the chip was when it emitted the events
  the driver has handled, so that the last event of each kind in the queue says
  what the driver will believe. `AckOnItsWayAlways`, for tables in which a pipe
  with acknowledgement has one purpose (`AckedPipesApart`): an unacknowledged
  write is in the event queue, or its acknowledgement is in the command queue.
  Both hold for any tables, calls, credits and number of events. When a handler
  disconnects inside the loop over the pipes, `StepInv` keeps only one direction for
  the subscriptions behind it, and `Closing` until the link is gone.
  Of the order of what the driver does: `TimingOnceAlways`, `BondingDataAlways`,
  `CreditConservedAlways` and `FirstBondAlways`, for chips that do not restart.
  `TurnInv` is the argument they share: a command that decides what an idle chip
  does next, an event whose handler sends one, and a chip that is busy exclude
  each other, and the events of a link come after its start and before its end.
  On top of it, `Timing` says that a request is never overtaken by what leads to
  the next link; `Bonding`, how far the data are, from the one command or
  event that moves them; `Flow` and `CreditInv`, that packets, the chip's buffers
  and the events that return credit add up to no more than the buffers;
  `FirstBond`, that a first bond to be saved is in an event, in
  `storeDynamicData`, or being read. The credit is proved for sketches that set
  values only while subscribed (`Careful`) and do not write remote
  characteristics (`NoWrites`), as the code counts neither exactly.
  Three more hold whether or not the chip restarts. `TypesAlways`: bytes and bounds
  are local matters, but that no sequence number passes the last message of
  bonding data needs `Writing`: at most one write command, or one event whose
  handler sends the next, is on its way, and it says which message.
  `BroadcastOpenedAlways`, for tables with one pipe to broadcast on
  (`OneBroadcaster`): every command in the queue that opens a pipe is for that
  one, so none undoes what the library believes. All of these hold until a command
  is overrun: where a handler or the loop sends one to a ring that is full and not
  seen to be, `out.overrun` is set and the invariants say no more. That no careful
  sketch gets there cannot be proved, as it depends on how much it calls.
* `Nrf51822Proofs`: `BondSharedAlways` and `BondHonouredAlways`. The key is in
  three places and moves by events, so the invariant says that events of a link,
  of a pairing and of an encryption never follow those of another
  (`LinksApart`, `PairingsApart`, `EncryptionsApart`), and what each will do to
  store and RAM when it is handled. They are about a whole key in the store: `Torn`,
  which a power loss in the middle of an erase or a write may leave, is nobody's.
  `InStepAlways` for this driver, unless the sketch calls `end()`, by `LinkInv`
  with the same idea as `StepInv`; over power losses, which empty the queue and
  both sides.
  Of the driver as a client of its peer: `HandlesOfThisPeerAlways`, by
  `HandleInv`: there is one search at a time, a request, its response in the
  queue or the driver between two of them; what a response carries is from the
  table of the linked peer and answers the question the driver believes it
  asked; a response of an earlier link is before the `Connected` of this one.
  `BuffersNotMadeUpAlways`, by `BufInv`: the counts of the completions in the
  queue are at least one, and their sum is taken as the cardinality of the set
  of buffers they give back (`GivenBack`), which a queue's head and tail split.
  `RequestsEnd`, by `EndInv`: what was asked is under way at the SoftDevice,
  answered in the queue, or of a link whose end is in the queue.
* `HidPeripheralProofs`: `StoreTrustedAlways`. What a list of writes leaves in the
  EEPROM (`AfterWritesFacts`), where a bond's messages are (`PlaceFacts`) and where
  the restoring finds them (`MessagesFound`) are inductions over the numbers of writes
  and messages. Every byte says of which bond, version and message it is, so that
  writing a message over another of the bond leaves one that is whole, of one
  version or the other in each byte (`PrefixKeeps`). The invariant `StoreInv` adds to
  `TurnInv` and `Bonding` what the one command or event that has the turn says of the
  store: `SavingAt`, that the messages so far are saved and the offset is behind
  them; `RestoringAt`, that the chip has those that were written back; a chip that may
  advertise has all of them (`Ready`). It needs no assumption on restarts of the
  chip, as this composition has none but those of a power loss, which begins anew
  (`Fresh`). It ends at `Half`, a store that lost power in its first saving and was
  not cleared, and where a command is overrun.
  `KeysReportedAlways`, from `KeysInv` with `StoreInv`. A keyboard's report has
  no key in two slots and none in the sixth, which the report map does not describe
  (`Keyboard`), so that what the host reads in the device's report is what the sketch
  holds (`DevicesInv`); with the descriptors one after the other, an induction gives
  that every HID is found by its id and no other one is (`AttributedAlways`, of the
  offsets in the report map by `Iterates`). Between the report and the host: the data
  commands in tx are the queued packets in their order (`CarriedInv`); credits, packets
  and the credits on their way back are no more than the chip's buffers (`BalanceInv`), so the
  chip refuses no packet of an open pipe; no `Connected` event waits while anything of an earlier
  link is left (`ComingInv`); tx has room for both commands of each report
  that is still to be sent (`RoomInv`); what a HID is owed is what is queued and
  taken of it (`OwedInv`), and the device's report is the last of those, or the one seen
  last (`LatestInv`). None is inductive alone: room needs the credits, and what was
  told needs room. Its hypotheses are those of the run: the sketch's event handlers
  call nothing and the sketch is `Patient`, as otherwise tx can be full when a report
  is sent, and the code drops the report; 0 is no key's code (`KeysOK`); the report
  characteristics notify and do not indicate, and the descriptors together are a
  report map a byte can count (`HidTables`), as `BLEHIDReportMapCharacteristic.cpp:11`
  counts with an `unsigned char`.

* `ProgramProofs`: what begin() does for every sketch, however many attributes it
  declares. `SetupIsComplete`, from `SetupInv`: `LocalTold`, `RemoteTold` and the
  other walks are recursive functions of the index, and `Iterates` of `Iteration`
  (an induction over Nat, with the statement taken as the set of numbers it holds
  of) gives what a walk is after each step; so every message of `Walk` is within the
  transport's limit, and goes on where the last one of its target ended;
  hence the chip never answers with an error, and `WireInv` says
  which one of message, response or start is on its way in each phase.
  `WritesAlwaysFit` compares what the walks write with what the counts allocate, as
  cardinalities of sets of indices. Its hypothesis `AllPiped` is that every
  characteristic has a property: one without would be written behind the end of
  the nRF8001 driver's records (`nRF8001.cpp:366`), and no class of the library
  makes one on its own.
  `PacketsAlwaysReadBack` and `EventsAlwaysReadBack`, from `LibInv`: each encoder
  and decoder is compared with the structure of its opcode, for data of any
  length, and the bytes of earlier calls left in the shared buffers are shown to be
  overwritten. `IntervalsHeld` is the first one's hypothesis: sixteen times an
  advertising interval is within an int, and the interval within the 16 bits of
  its field, as otherwise the code sends another one.

They rest on the assumptions on the constants, which TLC evaluates in each run,
on those named in the theorems, and for the transports on the guard of `Send`
(`FullIsDetectable(tx)`); `queue_wrap` shows that it is needed. `Nrf8001` ends where
its driver does not keep to that guard. In `AciTransportIsr` a chip that was just
reset has fewer events to tell than the ring has slots until `hal_aci_tl_init`
returns (`ChipStep`): that it started, and why.

The assumptions on the nRF8001's constants say that pipes are bytes, that the peer
opens none but those of the tables and that calls are about characteristics there
are; those on the nRF51822's, that subscriptions are for characteristics of the
tables and that a peer's services are apart in its attribute table; those on the
HID peripheral's, that every bond's data are as many messages as the chip has, none
of them empty, and that the EEPROM has room for them (`SizesAssumption`,
`BondsAssumption`): the code checks none of this, `nRF8001.cpp` writes on behind the
end of the store.

Those on `Program`'s constants say what a sketch can declare (`SketchesOK`: lists of
attributes of the library's classes, of any length, with UUIDs of two or sixteen
bytes), that the UUIDs the library itself uses are among them (`UuidsOK`), and that
the data of an event fit into its buffer (`SizesOK`), which the transport sees to.

Only model-checked: `TablesAgree` of `Setup`, which selects messages from the list
(`SelectSeq`, which none of the provers' backends knows) and is about the whole
walk at once rather than its steps; and all liveness (`BeginReturns`, `AdvertisesAgain`, `EverythingArrives`, ...),
which rests on fairness.

## Plan

What is left, in this order:

1. An abstract peripheral (link, subscriptions, written values) that both drivers
   implement, as a refinement of each; `InStep` of both is its invariant half.
2. A theorem: `TablesAgree`, from what each step of the walks tells, with `Iterates`.
3. The flash writes of the nRF52's SoftDevice, which `sd_flash_write` only starts:
   the driver's buffer is read until they are done.
4. Error responses of the nRF8001: what restoring and storing a bond, and
   `begin()`, do with them.
5. The compression of URLs in the Eddystone beacon, as a pure operator.

## Not modelled

Beacons, UUID parsing and value conversions (pure encodings), the vendored
SoftDevice headers, the examples, the code behind `NRF_8001_DEBUG`, timing in
milliseconds, the SPI bytes, RF test modes, handlers that call `poll()`
themselves, error status in command responses, the HID control point, and the
relative motion of the mouse.
