------------------------------- MODULE Nrf8001 -------------------------------
(***************************************************************************)
(* src/nRF8001.cpp between begin() and end(): the sketch's loop calls      *)
(* poll(), which exchanges one command and one event with the chip and     *)
(* handles the event, and calls the library's API in between.  Handling an *)
(* event calls back into BLEPeripheral and the sketch's event handlers,    *)
(* and those call the API again, in the middle of poll().                  *)
(*                                                                         *)
(* The transport is the one of module AciTransport, reduced to what its    *)
(* theorems grant: tx is a FIFO of four commands, and the exchange that    *)
(* fetches an event first takes a command out of tx.  They grant it as     *)
(* long as no fifth command is sent while the indices of the ring cannot   *)
(* tell that it is full (AciRing, run queue_wrap).  Nothing in the driver  *)
(* sees to that: when it happens, the command goes over the oldest one,    *)
(* and the behaviours of this module end.                                  *)
(***************************************************************************)
EXTENDS Nrf8001Chip, FiniteSets

CONSTANTS
  Local,            (* _localPipeInfo, one record of pipes a characteristic *)
  Remote,           (* _remotePipeInfo                                      *)
  BondStore,        (* the sketch gave a bond store                         *)
  IsConnectable,    (* setConnectable                                       *)
  ChangeTiming,     (* setConnectionInterval gave a valid interval          *)
  LoopCalls,        (* API calls the sketch makes between polls             *)
  HandlerCalls,     (* API calls its event handlers make                    *)
  CallingHandlers,  (* the handlers that make them                          *)
  Careful,          (* the sketch sets a value only while subscribed        *)
  IndexRange,       (* values of the index of the oldest command in the    *)
                    (* ring: 256 in the code                               *)
  Openable,         (* pipes the peer may open; 0 stands for "services      *)
                    (* discovered", as in the pipe bitmap                   *)
  MaxEvents,        (* bound: events waiting in the chip                    *)
  HwErrors          (* the chip may restart because of a hardware error     *)

(* The tables of pipes are arrays of structures, of bytes.                 *)
ASSUME TablesAssumption ==
  Len(Local) \in Nat /\ Len(Remote) \in Nat /\ DOMAIN Remote = 1 .. Len(Remote)

Byte == 0 .. 255

ASSUME PipesAssumption ==
  /\ \A c \in 1 .. Len(Local) :
       Local[c] \in [{"adv", "tx", "txAck", "rx", "rxAck", "set"} -> Byte]
  /\ \A r \in DOMAIN Remote :
       Remote[r] \in [{"tx", "txAck", "rx", "rxAck", "rxReq"} -> Byte]

ASSUME IndexAssumption == IndexRange \in Nat \ {0}

Characteristics == 1 .. Len(Local)

(* The pipes of the tables, 1 and the bit of the discovery: the peer opens *)
(* no others.                                                              *)
Pipes == (UNION {{Local[c][f] : f \in DOMAIN Local[c]} : c \in Characteristics})
           \cup (UNION {{Remote[r][f] : f \in DOMAIN Remote[r]} : r \in DOMAIN Remote})
           \cup {0, 1}

ASSUME OpenableAssumption == Openable \subseteq Pipes

(* Calls are about a characteristic that there is.                         *)
ASSUME CallsAssumption ==
  \A a \in LoopCalls \cup HandlerCalls :
    /\ a[1] \in {"setValue", "broadcast", "written"} => a[2] \in Characteristics
    /\ a[1] \in {"read", "write", "subscribe", "unsubscribe"} => a[2] \in DOMAIN Remote

VARIABLES
  out,         (* what API calls change: the command queue tx, the index    *)
               (* head of its oldest command, whether one was overrun, the  *)
               (* credit, the pipe bitmaps open and closed, and the         *)
               (* broadcast pipe                                            *)
  txOpen,      (* the pipes whose txPipeOpen or txAckPipeOpen is true       *)
  timingChanged, closedPipesCleared, remoteServicesDiscovered,
  storeDynamicData,
  bonded,      (* _aciState.bonded = ACI_BOND_STATUS_SUCCESS                *)
  sequenceNo,  (* _dynamicDataSequenceNo                                    *)
  stored,      (* messages of dynamic data in the bond store                *)
  subscribed, written,  (* flags of the local characteristics               *)
  central,     (* BLEPeripheral's _central has an address                   *)
  chip, events

bonding == <<storeDynamicData, bonded, sequenceNo, stored>>
link == <<timingChanged, closedPipesCleared, remoteServicesDiscovered>>
sketch == <<subscribed, written, central>>
vars == <<out, txOpen, link, bonding, sketch, chip, events>>

ACI_QUEUE_SIZE == 4
TxPipes(c) == {Local[c].tx, Local[c].txAck} \ {0}
AllTxPipes == UNION {TxPipes(c) : c \in Characteristics}
hasData == stored > 0

(* begin() leaves the chip set up and about to start, the ring where the   *)
(* setup messages took it, and BLEPeripheral::begin() asks for the         *)
(* address.                                                                *)
Begun(head) ==
  [tx |-> << <<"info", 0>> >>, head |-> head, overrun |-> FALSE, credit |-> 0,
   open |-> {}, closed |-> {}, broadcast |-> 0]

Init ==
  /\ \E head \in 0 .. IndexRange - 1 : out = Begun(head)
  /\ txOpen = {}
  /\ timingChanged = FALSE /\ closedPipesCleared = FALSE
  /\ remoteServicesDiscovered = FALSE
  /\ storeDynamicData = FALSE /\ bonded = FALSE /\ sequenceNo = 0
  /\ stored \in IF BondStore THEN {0, Chunks} ELSE {0}
  /\ subscribed = {} /\ written = {} /\ central = FALSE
  /\ chip = SetUp
  /\ events = << [type |-> "DeviceStarted", hwError |-> FALSE] >>

------------------------------------------------------------------------------
(* The API calls, as functions of out.  Every lib_aci_... call ends in     *)
(* hal_aci_tl_send, which refuses a command when aci_queue_is_full says    *)
(* so; most callers do not look at the result.  The ring is not seen to be *)
(* full when its oldest command has one of the last four indices: a fifth  *)
(* is then accepted, over the oldest.                                      *)
RoomForFive(o) == Len(o.tx) <= ACI_QUEUE_SIZE
Room(o) == Len(o.tx) < ACI_QUEUE_SIZE

SeenFull(o) == o.head + ACI_QUEUE_SIZE < IndexRange
Refused(o) == IF SeenFull(o) THEN o ELSE [o EXCEPT !.overrun = TRUE]

Sent(o, cmd) == IF Room(o) THEN [o EXCEPT !.tx = Append(@, cmd)] ELSE Refused(o)

SentTo(o, op, p) == IF p = 0 THEN o ELSE Sent(o, <<op, p>>)

(* And canIndicateCharacteristic, which is the same.                       *)
canNotifyCharacteristic(o) == o.credit > 0

NotifiedUncounted(o, flags, p) ==
  IF p \in flags /\ canNotifyCharacteristic(o) THEN Sent(o, <<"data", p>>) ELSE o

(* A value goes out on an open pipe if there is a credit, which is taken   *)
(* whether or not the command is refused.                                  *)
Notified(o, flags, p) ==
  IF p \in flags /\ canNotifyCharacteristic(o)
  THEN Sent([o EXCEPT !.credit = @ - 1], <<"data", p>>)
  ELSE o

updateCharacteristicValue(o, flags, c) ==
  LET advertised == IF o.broadcast = Local[c].adv
                    THEN SentTo(o, "setLocal", Local[c].adv) ELSE o
      readable == SentTo(advertised, "setLocal", Local[c].set)
  IN Notified(Notified(readable, flags, Local[c].tx), flags, Local[c].txAck)

broadcastUnopened(o, c) ==
  IF Local[c].adv = 0 THEN o
  ELSE IF ~Room(o) THEN Refused(o)
  ELSE [SentTo(o, "setLocal", Local[c].adv) EXCEPT !.broadcast = Local[c].adv]

(* The pipe is opened and set; either command may be refused.              *)
broadcastCharacteristic(o, c) ==
  LET opened == SentTo(o, "openAdv", Local[c].adv)
  IN IF Local[c].adv = 0 THEN o
     ELSE IF ~Room(o) THEN Refused(o)
     ELSE IF ~Room(opened) THEN Refused(opened)
     ELSE [SentTo(opened, "setLocal", Local[c].adv)
             EXCEPT !.broadcast = Local[c].adv]

(* The first pipe that exists, as the remote calls choose one.             *)
Either(p, q) == IF p # 0 THEN p ELSE q

(* Bit 0 of the bitmap of open pipes stands for the discovery.             *)
lib_aci_is_pipe_available(o, p) == p \in o.open
lib_aci_is_pipe_closed(o, p) == p \in o.closed
lib_aci_is_discovery_finished(o) == 0 \in o.open

(* The calls have the guards that the can... functions tell a sketch.      *)
canReadRemoteCharacteristic(o, r) ==
  Remote[r].rxReq # 0 /\ lib_aci_is_pipe_available(o, Remote[r].rxReq)

readRemoteCharacteristic(o, r) ==
  IF canReadRemoteCharacteristic(o, r) THEN Sent(o, <<"request", Remote[r].rxReq>>) ELSE o

canWriteRemoteCharacteristic(o, r) ==
  LET p == Either(Remote[r].txAck, Remote[r].tx)
  IN  p # 0 /\ lib_aci_is_pipe_available(o, p)

writeRemoteCharacteristic(o, r) ==
  IF canWriteRemoteCharacteristic(o, r)
  THEN Sent(o, <<"data", Either(Remote[r].txAck, Remote[r].tx)>>) ELSE o

canSubscribeRemoteCharacteristic(o, r) ==
  LET p == Either(Remote[r].rx, Remote[r].rxAck)
  IN  p # 0 /\ lib_aci_is_pipe_closed(o, p)

subscribeRemoteCharacteristic(o, r) ==
  IF canSubscribeRemoteCharacteristic(o, r)
  THEN Sent(o, <<"openRemote", Either(Remote[r].rx, Remote[r].rxAck)>>) ELSE o

unsubscribeRemoteCharacteristic(o, r) ==
  SentTo(o, "closeRemote", Either(Remote[r].rx, Remote[r].rxAck))

(* lib_aci_disconnect forgets the pipes at once if the command was taken.  *)
disconnect(o) ==
  IF Room(o)
  THEN [Sent(o, <<"disconnect", 0>>) EXCEPT !.open = {}, !.closed = {}]
  ELSE Refused(o)

(* A call is a pair of a function and the characteristic it is about.      *)
Called(o, flags, call) ==
  CASE call[1] = "setValue" -> updateCharacteristicValue(o, flags, call[2])
    [] call[1] = "broadcast" -> broadcastCharacteristic(o, call[2])
    [] call[1] = "read" -> readRemoteCharacteristic(o, call[2])
    [] call[1] = "write" -> writeRemoteCharacteristic(o, call[2])
    [] call[1] = "subscribe" -> subscribeRemoteCharacteristic(o, call[2])
    [] call[1] = "unsubscribe" -> unsubscribeRemoteCharacteristic(o, call[2])
    [] call[1] = "disconnect" -> disconnect(o)
    [] call[1] = "info" -> Sent(o, <<"info", 0>>)
    [] OTHER -> o

Allowed(calls, subs) ==
  {a \in calls : Careful /\ a[1] = "setValue" => a[2] \in subs}

(* What the handler of an event may leave behind: bounded by two calls, by *)
(* one handler in a poll.                                                  *)
AfterHandler(handler, o, flags, subs) ==
  LET calls == IF handler \in CallingHandlers
               THEN Allowed(HandlerCalls, subs) ELSE {}
      once == {Called(o, flags, a) : a \in calls}
  IN {o} \cup once \cup {Called(n, flags, a) : n \in once, a \in calls}

(* The sketch calls the API between two polls.                             *)
Call ==
  /\ \E a \in Allowed(LoopCalls, subscribed) :
       /\ out' = Called(out, txOpen, a)
       /\ written' = IF a[1] = "written" THEN written \ {a[2]} ELSE written
  /\ UNCHANGED <<txOpen, link, bonding, subscribed, central, chip, events>>

------------------------------------------------------------------------------
(* poll(): the exchange with the chip, then the handler of the event.      *)
Rest(s) == IF s = << >> THEN << >> ELSE Tail(s)

ReceivedKeepsSent == out
Received ==
  IF out.tx = << >> THEN out
  ELSE [out EXCEPT !.tx = Rest(@), !.head = (@ + 1) % IndexRange]

(* What lib_aci_event_get does with the event before it hands it on.       *)
lib_aci_event_get(o) ==
  CASE Head(events).type = "PipeStatus" ->
         [o EXCEPT !.open = Head(events).open, !.closed = Head(events).closed]
    [] Head(events).type = "Disconnected" ->
         [o EXCEPT !.open = {}, !.closed = {}, !.credit = Credits]
    [] OTHER -> o

Exchange ==
  IF out.tx = << >>
  THEN chip' = chip /\ events' = Rest(events)
  ELSE /\ chip' = ChipAfter(chip, Head(out.tx))
       /\ events' = Rest(events) \o Replies(chip, Head(out.tx))

Gets(type) == events # << >> /\ Head(events).type = type /\ Exchange

(* The exchange brought no event.                                          *)
NoEvent ==
  /\ events = << >> /\ out.tx # << >>
  /\ Exchange
  /\ out' = Received
  /\ UNCHANGED <<txOpen, link, bonding, sketch>>

startAdvertising(o, hasBond) ==
  Sent(o, << IF ~IsConnectable THEN "broadcast"
             ELSE IF ~BondStore \/ hasBond THEN "connect" ELSE "bond", 0>>)

DeviceStarted ==
  /\ Gets("DeviceStarted")
  /\ IF Head(events).hwError
     THEN out' = Received /\ UNCHANGED sequenceNo
     ELSE IF hasData
     THEN out' = Sent(Received, <<"writeDynamic", 1>>) /\ sequenceNo' = 1
     ELSE out' = startAdvertising(Received, hasData) /\ UNCHANGED sequenceNo
  /\ UNCHANGED <<txOpen, link, storeDynamicData, bonded, stored, sketch>>

(* ACI_EVT_CMD_RSP to lib_aci_read_dynamic_data and _write_dynamic_data.   *)
DataReadOnce ==
  /\ Gets("DataRead")
  /\ stored' = Head(events).seqNo
  /\ out' = startAdvertising(Received, TRUE)
  /\ UNCHANGED <<txOpen, link, storeDynamicData, bonded, sequenceNo, sketch>>

DataRead ==
  /\ Gets("DataRead")
  /\ stored' = Head(events).seqNo
  /\ out' = IF Head(events).complete
            THEN startAdvertising(Received, TRUE)
            ELSE Sent(Received, <<"readDynamic", 0>>)
  /\ UNCHANGED <<txOpen, link, storeDynamicData, bonded, sequenceNo, sketch>>

DataWritten ==
  /\ Gets("DataWritten")
  /\ IF Head(events).complete
     THEN out' = startAdvertising(Received, hasData) /\ UNCHANGED sequenceNo
     ELSE /\ sequenceNo' = sequenceNo + 1
          /\ out' = Sent(Received, <<"writeDynamic", sequenceNo'>>)
  /\ UNCHANGED <<txOpen, link, storeDynamicData, bonded, stored, sketch>>

Connected ==
  /\ Gets("Connected")
  /\ timingChanged' = FALSE
  /\ closedPipesCleared' = FALSE
  /\ remoteServicesDiscovered' = FALSE
  /\ central' = TRUE
  /\ \E o \in AfterHandler("Connected", Received, txOpen, subscribed) :
       out' = [o EXCEPT !.credit = Credits]
  /\ UNCHANGED <<txOpen, bonding, subscribed, written>>

SubscribedWith(pipes) ==
  {c \in Characteristics : TxPipes(c) \cap pipes # {}}

(* The loop over the characteristics: when the handler of characteristic c *)
(* runs, those up to c have new values, and the others old ones.           *)
UpTo(c, new, old) == {x \in new : x <= c} \cup {x \in old : x > c}

FlagsAt(c, pipes) ==
  UNION {TxPipes(d) \cap (IF d <= c THEN pipes ELSE txOpen)
           : d \in Characteristics}

RetimedAlways(pipes) == ChangeTiming /\ pipes \cap {0, 1} # {}
Retimed(pipes) == ChangeTiming /\ pipes \cap {0, 1} # {} /\ ~timingChanged

(* What the handlers leave that run in the loop, when the subscription of  *)
(* a characteristic changes, and the one behind it, when the services were *)
(* found.  Bound: one of them makes calls.                                 *)
InLoop(o, pipes, c) ==
  AfterHandler("PipeStatus", o, FlagsAt(c, pipes), UpTo(c, SubscribedWith(pipes), subscribed))

BehindLoop(o, pipes, found) ==
  IF found THEN AfterHandler("PipeStatus", o, AllTxPipes \cap pipes, SubscribedWith(pipes))
  ELSE {o}

(* The loop asks the library for the pipes of each characteristic: those   *)
(* behind c find what the handler of c left open, nothing when it          *)
(* disconnected.                                                           *)
OpenForNotifying(d, c, pipes, left) ==
  ({Local[d].tx} \ {0}) \cap (IF d <= c THEN pipes ELSE left)

OpenFor(d, c, pipes, left) == TxPipes(d) \cap (IF d <= c THEN pipes ELSE left)

Looped(c, pipes, left) ==
  /\ txOpen' = UNION {OpenFor(d, c, pipes, left) : d \in Characteristics}
  /\ subscribed' = {d \in Characteristics : OpenFor(d, c, pipes, left) # {}}

SubscribersChange(pipes) ==
  {c \in Characteristics : c \in SubscribedWith(pipes) <=> c \notin subscribed}

PipeStatus ==
  LET pipes == Head(events).open
      closed == Head(events).closed
      updated == lib_aci_event_get(Received)
      o == IF Retimed(pipes) THEN Sent(updated, <<"timing", 0>>) ELSE updated
      found == /\ closedPipesCleared' /\ lib_aci_is_discovery_finished(updated)
               /\ ~remoteServicesDiscovered
  IN
  /\ Gets("PipeStatus")
  /\ timingChanged' = (timingChanged \/ Retimed(pipes))
  /\ closedPipesCleared' = (closedPipesCleared \/ (closed = {} /\ 0 \notin pipes))
  /\ remoteServicesDiscovered' = (remoteServicesDiscovered \/ found)
  /\ \/ out' \in BehindLoop(o, pipes, found) /\ Looped(Len(Local), pipes, {})
     \/ \E c \in SubscribersChange(pipes) :
          out' \in InLoop(o, pipes, c) /\ Looped(c, pipes, out'.open)
  /\ UNCHANGED <<bonding, written, central>>

(* What the unsubscribe handlers and the disconnect handler leave.         *)
AfterUnlink(o) ==
  AfterHandler("Disconnected", o, txOpen, {})
    \cup UNION {AfterHandler("Disconnected", o, txOpen, UpTo(c, {}, subscribed))
                  : c \in subscribed}

Disconnected ==
  /\ Gets("Disconnected")
  /\ subscribed' = {}
  /\ central' = FALSE
  /\ \E o \in AfterUnlink(lib_aci_event_get(Received)) :
       out' = IF storeDynamicData THEN Sent(o, <<"readDynamic", 0>>)
              ELSE startAdvertising(o, hasData)
  /\ storeDynamicData' = FALSE
  /\ UNCHANGED <<txOpen, link, bonded, sequenceNo, stored, written>>

BondStatusForgets ==
  LET success == Head(events).success
  IN
  /\ Gets("BondStatus")
  /\ storeDynamicData' = FALSE
  /\ bonded' = success
  /\ remoteServicesDiscovered' = FALSE
  /\ out' \in IF success THEN AfterHandler("Bonded", Received, txOpen, subscribed)
             ELSE {Received}
  /\ UNCHANGED <<txOpen, timingChanged, closedPipesCleared, sequenceNo, stored,
                 sketch>>

BondStatus ==
  LET success == Head(events).success
  IN
  /\ Gets("BondStatus")
  /\ storeDynamicData' = (success /\ ~bonded)
  /\ bonded' = success
  /\ remoteServicesDiscovered' = FALSE
  /\ out' \in IF success THEN AfterHandler("Bonded", Received, txOpen, subscribed)
             ELSE {Received}
  /\ UNCHANGED <<txOpen, timingChanged, closedPipesCleared, sequenceNo, stored,
                 sketch>>

(* The peer wrote a local characteristic, or sent the value of one of its  *)
(* own: an acknowledged pipe is answered, the value is set (a local one is *)
(* sent on to whoever subscribed to it), and its handler runs.  The remote *)
(* loop runs also when the local one found the pipe's characteristic.      *)
AcknowledgedOpen(o, p, ackPipe) ==
  IF p = ackPipe /\ p \in o.open THEN Sent(o, <<"ack", p>>) ELSE o
Acknowledged(o, p, ackPipe) ==
  IF p = ackPipe THEN Sent(o, <<"ack", p>>) ELSE o

LocalMatches(c, p) == p \in {Local[c].rx, Local[c].rxAck}

RemoteMatchesNotified(r, p) == p = Remote[r].rx \/ Remote[r].rxReq # 0
RemoteMatches(r, p) ==
  p \in {Remote[r].rx, Remote[r].rxAck} \/ Remote[r].rxReq # 0

First(S) == {x \in S : \A y \in S : x <= y}

DataReceived ==
  LET p == Head(events).pipe
      mine == First({c \in Characteristics : LocalMatches(c, p)})
      theirs == First({r \in DOMAIN Remote : RemoteMatches(r, p)})
      set == {updateCharacteristicValue(Acknowledged(Received, p, Local[c].rxAck),
                                        txOpen, c) : c \in mine}
      local == IF mine = {} THEN {Received} ELSE set
      remote == IF theirs = {} THEN local
                ELSE {Acknowledged(o, p, Remote[r].rxAck)
                        : o \in local, r \in theirs}
  IN
  /\ Gets("DataReceived")
  /\ written' = written \cup mine
  /\ \E o \in remote : out' \in AfterHandler("DataReceived", o, txOpen, subscribed)
  /\ UNCHANGED <<txOpen, link, bonding, subscribed, central>>

(* data_credit_available is an unsigned byte.                              *)
Credited(o, n) == [o EXCEPT !.credit = (@ + n) % 256]

DataCredit ==
  /\ Gets("DataCredit")
  /\ out' = Credited(Received, Head(events).credit)
  /\ UNCHANGED <<txOpen, link, bonding, sketch>>

(* A packet that was not sent gives its credit back; an error response of  *)
(* the peer means that it wants a bond.                                    *)
PipeError ==
  /\ Gets("PipeError")
  /\ out' = IF ~Head(events).peer THEN Credited(Received, 1)
            ELSE IF BondStore THEN Sent(Received, <<"bondRequest", 0>>)
            ELSE Received
  /\ UNCHANGED <<txOpen, link, bonding, sketch>>

HwErrorIgnored ==
  /\ Gets("HwError")
  /\ out' = Received
  /\ UNCHANGED <<txOpen, link, bonding, sketch>>

HwError ==
  /\ Gets("HwError")
  /\ out' = startAdvertising(Received, hasData)
  /\ UNCHANGED <<txOpen, link, bonding, sketch>>

poll ==
  \/ NoEvent \/ DeviceStarted \/ DataRead \/ DataWritten \/ Connected
  \/ PipeStatus \/ Disconnected \/ BondStatus \/ DataReceived \/ DataCredit
  \/ PipeError \/ HwError

------------------------------------------------------------------------------
(* What the peer and the chip do on their own.                             *)
Emits(event) ==
  /\ Len(events) < MaxEvents
  /\ events' = Append(events, event)
  /\ UNCHANGED <<out, txOpen, link, bonding, sketch>>

PeerConnects ==
  /\ chip.mode \in Connectable
  /\ chip' = [chip EXCEPT !.mode = "connected", !.timings = 0]
  /\ Emits([type |-> "Connected"])

(* The peer opens and closes pipes, or service discovery ends, after which *)
(* the other pipes of remote characteristics are closed.                   *)
RemotePipes ==
  (UNION {{Remote[r].rx, Remote[r].rxAck} : r \in DOMAIN Remote}) \ {0}

PeerSetsPipes ==
  /\ chip.mode = "connected"
  /\ \E pipes \in SUBSET Openable \ {chip.open} :
       /\ 0 \in chip.open => 0 \in pipes
       /\ 0 \notin pipes => pipes \subseteq AllTxPipes \cup {1}
       /\ chip' = [chip EXCEPT !.open = pipes]
       /\ Emits([type |-> "PipeStatus", open |-> pipes,
                 closed |-> IF 0 \in pipes THEN RemotePipes \ pipes ELSE {}])

(* One write at a time waits for its acknowledgement.                      *)
AckedPipes ==
  {Local[c].rxAck : c \in Characteristics}
    \cup {Remote[r].rxAck : r \in DOMAIN Remote}

PeerSends ==
  /\ chip.mode = "connected"
  /\ \E p \in {Local[c].rx : c \in Characteristics} \cup AckedPipes \cup RemotePipes :
       /\ p # 0
       /\ p \in RemotePipes => p \in chip.open
       /\ p \in AckedPipes => chip.unacked = 0
       /\ chip' = [chip EXCEPT !.unacked = IF p \in AckedPipes THEN p ELSE @]
       /\ Emits([type |-> "DataReceived", pipe |-> p])

PeerTakesData ==
  /\ chip.mode = "connected" /\ chip.inFlight > 0
  /\ chip' = [chip EXCEPT !.inFlight = @ - 1]
  /\ Emits([type |-> "DataCredit", credit |-> 1])

PeerRefuses ==
  /\ chip.mode = "connected" /\ Len(Remote) > 0
  /\ UNCHANGED chip
  /\ Emits([type |-> "PipeError", peer |-> TRUE])

PeerBonds ==
  /\ chip.mode = "connected" /\ BondStore
  /\ \E success \in BOOLEAN :
       /\ chip' = [chip EXCEPT !.bonded = @ \/ success,
                              !.toSave = ~@ /\ success /\ ~chip.bonded]
       /\ Emits([type |-> "BondStatus", success |-> success])

(* The link is lost or closed, or advertising for a bond timed out.        *)
LinkEnds ==
  /\ chip.mode \in {"connected", "closing", "bond"}
  /\ chip' = Unlinked(chip)
  /\ Emits([type |-> "Disconnected"])

ChipFails ==
  /\ HwErrors /\ Len(events) + 2 <= MaxEvents
  /\ chip' = Unlinked(chip)
  /\ events' = events \o << [type |-> "DeviceStarted", hwError |-> TRUE],
                            [type |-> "HwError"] >>
  /\ UNCHANGED <<out, txOpen, link, bonding, sketch>>

Chip ==
  \/ PeerConnects \/ PeerSetsPipes \/ PeerSends \/ PeerTakesData
  \/ PeerRefuses \/ PeerBonds \/ LinkEnds \/ ChipFails

(* Bound: nothing is said of what happens after a command was overrun.     *)
Overrun == out.overrun /\ UNCHANGED vars

Next == (~out.overrun /\ (Call \/ poll \/ Chip)) \/ Overrun

Spec == Init /\ [][Next]_vars

(* The sketch's loop polls for ever.                                       *)
LiveSpec == Spec /\ WF_vars(~out.overrun /\ poll)

------------------------------------------------------------------------------
Operations == {"info", "setLocal", "openAdv", "data", "request", "openRemote",
               "closeRemote", "disconnect", "readDynamic", "writeDynamic",
               "timing", "ack", "bondRequest"} \cup Advertising

(* Every variable stays in its range; in particular the credit stays a     *)
(* byte, and tx holds no fifth command, however many calls a handler       *)
(* makes, unless one was overrun.                                          *)
TypeOK ==
  /\ DOMAIN out = {"tx", "head", "overrun", "credit", "open", "closed", "broadcast"}
  /\ out.tx \in Seq(Operations \X Nat)
  /\ out.overrun \/ Len(out.tx) <= ACI_QUEUE_SIZE
  /\ out.head \in 0 .. IndexRange - 1 /\ out.overrun \in BOOLEAN
  /\ out.credit \in Byte
  /\ out.open \subseteq Pipes /\ out.closed \subseteq Pipes
  /\ out.broadcast \in Pipes
  /\ txOpen \subseteq AllTxPipes
  /\ {timingChanged, closedPipesCleared, remoteServicesDiscovered,
      storeDynamicData, bonded, central} \subseteq BOOLEAN
  /\ sequenceNo \in 0 .. Chunks /\ stored \in 0 .. Chunks
  /\ subscribed \subseteq Characteristics /\ written \subseteq Characteristics
  /\ chip.mode \in Modes /\ chip.inFlight \in 0 .. Credits
  /\ chip.unacked \in Pipes /\ chip.open \subseteq Openable

Last(s) == s[Len(s)]

Commands(op) == {i \in 1 .. Len(out.tx) : out.tx[i][1] = op}
EventsWith(P(_)) == {i \in 1 .. Len(events) : P(events[i])}

(* The link is about to be closed: the library forgot its pipes.           *)
Closing == chip.mode = "closing" \/ Commands("disconnect") # {}

(* Whenever no event is on its way, the library and the chip agree on      *)
(* whether there is a link and on what the peer is subscribed to; after a  *)
(* handler disconnected among the characteristics, the library may know of *)
(* fewer subscriptions until the link is closed, and never of more.        *)
InStep ==
  out.overrun \/ (events = << >> =>
    /\ central <=> chip.mode \in {"connected", "closing"}
    /\ \A c \in Characteristics :
         /\ c \in subscribed => central /\ TxPipes(c) \cap chip.open # {}
         /\ central /\ TxPipes(c) \cap chip.open # {} => c \in subscribed \/ Closing)

(* Data packets a credit was spent on and that did not bring one back.     *)
Outstanding ==
  LET Returns(e) == e.type = "DataCredit" \/ (e.type = "PipeError" /\ ~e.peer)
  IN Cardinality(Commands("data")) + chip.inFlight
       + Cardinality(EventsWith(Returns))

(* On a link, credit is never made up: what is available and what is       *)
(* outstanding do not exceed the chip's buffers, also right after a        *)
(* reconnection, when the errors of the last link's packets come back.     *)
CreditConserved ==
  out.overrun \/ (central => out.credit + Outstanding <= Credits)

(* And none is lost while the link is up.                                  *)
CreditTracksSends ==
  central /\ chip.mode = "connected" /\ EventsWith(LAMBDA e : e.type = "Disconnected") = {}
    => out.credit + Outstanding = Credits

(* A write that the peer waits for is in an event the driver will see, or  *)
(* its acknowledgement is in tx, whatever the handlers and the loop send:  *)
(* a full queue never swallows one, as long as it is seen to be full.      *)
AckOnItsWay ==
  out.overrun \/ (chip.unacked # 0 =>
    \/ \E i \in 1 .. Len(events) :
         events[i].type = "DataReceived" /\ events[i].pipe = chip.unacked
    \/ \E i \in Commands("ack") : out.tx[i][2] = chip.unacked)

(* A link's timing is asked to be changed once, whatever pipe status       *)
(* events come and however late the commands of the last link arrive.      *)
TimingOncePerLink == out.overrun \/ chip.timings <= 1

(* The chip does not advertise between two messages of its bonding data:   *)
(* they were all written back, or all read.                                *)
BondingDataWhole ==
  out.overrun \/ (chip.mode \in Advertising =>
    /\ stored \in {0, Chunks}
    /\ chip.restored \in {0, Chunks}
    /\ sequenceNo > 0 => chip.restored = Chunks)

(* The first bond is in the bond store before the chip advertises again,   *)
(* unless another bond status event followed on the link.                  *)
FirstBondSaved == out.overrun \/ (chip.mode \in Advertising => ~chip.toSave)

(* What the library believes it broadcasts is advertised, or the command   *)
(* that opens the pipe is on its way.                                      *)
BroadcastOpened ==
  out.overrun \/ (out.broadcast # 0 =>
    \/ chip.adv = out.broadcast
    \/ \E i \in Commands("openAdv") : out.tx[i][2] = out.broadcast)

(* "The application can't attempt sending another message" once disconnect *)
(* was sent (lib_aci.cpp:299-300): a value set between polls goes only to  *)
(* pipes that are open.                                                    *)
SendsOnOpenPipes ==
  [][Len(out'.tx) > Len(out.tx) /\ Last(out'.tx)[1] = "data"
       => Last(out'.tx)[2] \in out.open]_vars

(* A chip that is idle is told to advertise, again after every link.       *)
AdvertisesAgain == chip.mode = "standby" ~> chip.mode \in Advertising \/ out.overrun

(* A write the peer waits for is acknowledged, or the link ends.           *)
AcksArrive == []<>(chip.unacked = 0 \/ out.overrun)
==============================================================================
