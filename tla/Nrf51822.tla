------------------------------ MODULE Nrf51822 -------------------------------
(***************************************************************************)
(* src/nRF51822.cpp: the driver for chips that run the sketch and the      *)
(* SoftDevice on one core.  Calls to the SoftDevice take effect at once;   *)
(* its events wait in a queue until poll() handles one.  Handling an event *)
(* calls back into BLEPeripheral and the sketch's handlers, which call the *)
(* API again.                                                              *)
(***************************************************************************)
EXTENDS SoftDevice, SequencesExt

CONSTANTS
  Locals,          (* _localCharacteristicInfo: what each can do           *)
  Services,        (* uuids of _remoteServiceInfo                          *)
  Remotes,         (* _remoteCharacteristicInfo: index of service, uuid    *)
  BondStore,       (* the sketch gave a bond store                         *)
  LoopCalls,       (* API calls of the sketch between polls                *)
  HandlerCalls,    (* API calls of its event handlers                      *)
  CallingHandlers, (* the handlers that make them                          *)
  Careful,         (* the sketch asks can...() first, and makes remote     *)
                   (* calls only once the services are discovered          *)
  Restarts,        (* ways the program restarts: "power", "end"            *)
  MaxEvents        (* bound: events waiting in the SoftDevice              *)

(* What a bond store holds that lost power while its page was erased or    *)
(* written, when the first word is not blank: hasData() looks at no other. *)
Torn == -1

IsRemoteCall(a) == a[1] \in {"read", "write", "subscribe", "unsubscribe"}

ASSUME ConstantsOK ==
  /\ Cccds \subseteq DOMAIN Locals
  /\ Services \in Seq({Services[j] : j \in DOMAIN Services})
  /\ \A a \in LoopCalls \cup HandlerCalls : IsRemoteCall(a) => a[2] \in DOMAIN Remotes
  /\ TxTotal \in Nat
  /\ NoKey \notin Keys /\ Torn \notin Keys
  /\ Restarts \subseteq {"power", "end"}

VARIABLES
  dev,          (* what API calls change: [conn: _connectionHandle is      *)
                (* valid, tx: _txBufferCount, requested:                   *)
                (* _remoteRequestInProgress, broadcast, sd]                *)
  notifySubscribed, indicateSubscribed,
  ranges,       (* handlesRange of each remote service                     *)
  remote,       (* valueHandle and properties of each remote               *)
                (* characteristic                                          *)
  discoveryIndex,
  encKey, stored, (* the key in _bondData and the one in the bond store    *)
  subscribed,   (* the characteristics' subscribed()                       *)
  central,      (* BLEPeripheral's _central has an address                 *)
  discovered,   (* the sketch was told of the remote services on this link *)
  events

cccd == <<notifySubscribed, indicateSubscribed>>
discovery == <<ranges, remote, discoveryIndex, discovered>>
bonding == <<encKey, stored>>
vars == <<dev, cccd, discovery, bonding, subscribed, central, events>>

NoRange == <<0, 0>>
Unknown == [handle |-> 0, props |-> {}]

(* begin(): fresh tables, the bond restored, advertising started.          *)
BegunQuietly(sd) == sd
Begun(sd) == sd_ble_gap_adv_start(sd)

hasData == stored # NoKey

Init ==
  /\ dev = [conn |-> FALSE, tx |-> 0, requested |-> FALSE, broadcast |-> 0,
            sd |-> Begun(Enabled(NoKey))]
  /\ notifySubscribed = {} /\ indicateSubscribed = {}
  /\ ranges = [s \in DOMAIN Services |-> NoRange]
  /\ remote = [r \in DOMAIN Remotes |-> Unknown]
  /\ discoveryIndex = 0
  /\ encKey = NoKey /\ stored = NoKey
  /\ subscribed = {} /\ central = FALSE /\ discovered = FALSE
  /\ events = << >>

------------------------------------------------------------------------------
(* The API calls, as functions of dev.                                     *)

broadcastCharacteristic(d, c) ==
  IF "broadcast" \in Locals[c]
  THEN [d EXCEPT !.broadcast = c, !.sd.adv = c]
  ELSE d

SentUncounted(d, flags, type, c) ==
  IF c \in flags /\ d.tx > 0 /\ d.conn
  THEN [d EXCEPT !.sd = sd_ble_gatts_hvx(@, type, c)] ELSE d

(* A value goes out to a subscriber if a buffer is believed free.          *)
Sent(d, flags, type, c) ==
  IF c \notin flags \/ d.tx = 0 THEN d
  ELSE [d EXCEPT !.tx = @ - 1,
                 !.sd = IF d.conn THEN sd_ble_gatts_hvx(@, type, c) ELSE @]

updateCharacteristicValue(d, notifying, indicating, c) ==
  LET advertised == IF d.broadcast = c THEN broadcastCharacteristic(d, c) ELSE d
  IN Sent(Sent(advertised, notifying, "notify", c), indicating, "indicate", c)

(* A request marks one in progress, whether or not it is accepted.         *)
Requested(d, request) ==
  [d EXCEPT !.requested = TRUE,
            !.sd = IF d.conn THEN Starts(@, request) ELSE @]

canReadRemoteCharacteristic(d, r) ==
  remote[r].handle # 0 /\ "read" \in remote[r].props /\ ~d.requested

readRemoteCharacteristic(d, r) ==
  IF remote[r].handle # 0 /\ "read" \in remote[r].props
  THEN Requested(d, [kind |-> "read", handle |-> remote[r].handle])
  ELSE d

canWriteRemoteCharacteristic(d, r) ==
  /\ remote[r].handle # 0
  /\ IF "write" \in remote[r].props THEN ~d.requested
     ELSE "writeWoResp" \in remote[r].props /\ d.tx > 0

(* A write with a response is preferred; both kinds count a buffer.        *)
writeRemoteCharacteristic(d, r) ==
  IF remote[r].handle = 0 \/ d.tx = 0 THEN d
  ELSE IF "write" \in remote[r].props
  THEN Requested([d EXCEPT !.tx = @ - 1],
                 [kind |-> "write", handle |-> remote[r].handle])
  ELSE IF "writeWoResp" \in remote[r].props
  THEN [d EXCEPT !.requested = TRUE, !.tx = @ - 1,
                 !.sd = IF d.conn THEN sd_ble_gattc_write_cmd(@) ELSE @]
  ELSE d

canSubscribeRemoteCharacteristic(r) ==
  remote[r].handle # 0 /\ remote[r].props \cap {"notify", "indicate"} # {}

(* The CCCD is taken to follow the value.                                  *)
subscribeRemoteCharacteristic(d, r) ==
  IF canSubscribeRemoteCharacteristic(r)
  THEN Requested(d, [kind |-> "write", handle |-> remote[r].handle + 1])
  ELSE d

unsubscribeRemoteCharacteristic(d, r) ==
  IF canSubscribeRemoteCharacteristic(r)
  THEN Requested(d, [kind |-> "write", handle |-> remote[r].handle + 1])
  ELSE d

startAdvertising(d) == [d EXCEPT !.sd = sd_ble_gap_adv_start(@)]

disconnect(d) == IF d.conn THEN [d EXCEPT !.sd = sd_ble_gap_disconnect(@)] ELSE d

Called(d, notifying, indicating, call) ==
  CASE call[1] = "setValue" ->
         updateCharacteristicValue(d, notifying, indicating, call[2])
    [] call[1] = "broadcast" -> broadcastCharacteristic(d, call[2])
    [] call[1] = "read" -> readRemoteCharacteristic(d, call[2])
    [] call[1] = "write" -> writeRemoteCharacteristic(d, call[2])
    [] call[1] = "subscribe" -> subscribeRemoteCharacteristic(d, call[2])
    [] call[1] = "unsubscribe" -> unsubscribeRemoteCharacteristic(d, call[2])
    [] call[1] = "disconnect" -> disconnect(d)
    [] OTHER -> d

(* The calls a careful sketch allows itself, told of the remote services   *)
(* or not.                                                                 *)
Allowed(d, calls, informed) ==
  {a \in calls :
     Careful =>
       CASE a[1] = "read" -> informed /\ canReadRemoteCharacteristic(d, a[2])
         [] a[1] = "write" -> informed /\ canWriteRemoteCharacteristic(d, a[2])
         [] a[1] \in {"subscribe", "unsubscribe"} ->
              informed /\ canSubscribeRemoteCharacteristic(a[2])
         [] OTHER -> TRUE}

(* What the handler of an event may leave behind: bounded by one call.     *)
AfterHandler(handler, d, notifying, indicating) ==
  LET informed == discovered \/ handler = "Discovered"
  IN
  {d} \cup
  IF handler \in CallingHandlers
  THEN {Called(d, notifying, indicating, a) : a \in Allowed(d, HandlerCalls, informed)}
  ELSE {}

(* The sketch calls the API between two polls.                             *)
Call ==
  /\ \E a \in Allowed(dev, LoopCalls, discovered) :
       /\ dev' = Called(dev, notifySubscribed, indicateSubscribed, a)
       /\ stored' = IF a[1] = "clearData" THEN NoKey ELSE stored
  /\ UNCHANGED <<cccd, discovery, encKey, subscribed, central, events>>

------------------------------------------------------------------------------
(* poll(): sd_ble_evt_get and the handler of the event.                    *)
Gets(type) ==
  events # << >> /\ Head(events).type = type /\ events' = Tail(events)

TxComplete ==
  /\ Gets("TxComplete")
  /\ dev' = [dev EXCEPT !.tx = (@ + Head(events).count) % 256]
  /\ UNCHANGED <<cccd, discovery, bonding, subscribed, central>>

(* The count of free buffers is asked for before the handler runs, and the *)
(* remote services after it (new link parameters too: left out, they do    *)
(* not come back to the driver).                                           *)
Connected ==
  LET linked == [dev EXCEPT !.conn = TRUE, !.tx = dev.sd.free]
  IN
  /\ Gets("Connected")
  /\ central' = TRUE
  /\ \E d \in AfterHandler("Connected", linked, notifySubscribed, indicateSubscribed) :
       dev' = IF Services = << >> THEN d
              ELSE [d EXCEPT !.sd = sd_ble_gattc_primary_services_discover(@, 1)]
  /\ UNCHANGED <<cccd, discovery, bonding, subscribed>>

(* The flags of the characteristics up to c are cleared when the           *)
(* unsubscribe handler of c runs.                                          *)
AfterUnlink(d) ==
  AfterHandler("Disconnected", d, {}, {})
    \cup UNION {AfterHandler("Disconnected", d, {x \in notifySubscribed : x > c},
                             {x \in indicateSubscribed : x > c}) : c \in subscribed}

HandlesKept == remote
HandlesCleared == [r \in DOMAIN Remotes |-> Unknown]

Disconnected ==
  /\ Gets("Disconnected")
  /\ notifySubscribed' = {} /\ indicateSubscribed' = {}
  /\ subscribed' = {} /\ central' = FALSE
  /\ \E d \in AfterUnlink([dev EXCEPT !.conn = FALSE, !.tx = 0]) :
       dev' = startAdvertising([d EXCEPT !.requested = FALSE])
  /\ ranges' = [s \in DOMAIN Services |-> NoRange]
  /\ remote' = HandlesCleared
  /\ discovered' = FALSE
  /\ UNCHANGED <<discoveryIndex, bonding>>

SecParamsRequestGranted ==
  /\ Gets("SecParamsRequest")
  /\ dev' = [dev EXCEPT !.sd = IF dev.conn
               THEN sd_ble_gap_sec_params_reply(@, BondStore) ELSE @]
  /\ UNCHANGED <<cccd, discovery, bonding, subscribed, central>>

(* Bonding is allowed only while the store is empty.                       *)
SecParamsRequest ==
  /\ Gets("SecParamsRequest")
  /\ dev' = [dev EXCEPT !.sd = IF dev.conn
               THEN sd_ble_gap_sec_params_reply(@, BondStore /\ ~hasData) ELSE @]
  /\ UNCHANGED <<cccd, discovery, bonding, subscribed, central>>

(* The key is handed out if it is the one asked for; a torn one is not, or *)
(* does not decrypt.                                                       *)
SecInfoRequest ==
  /\ Gets("SecInfoRequest")
  /\ dev' = [dev EXCEPT !.sd = IF dev.conn
               THEN sd_ble_gap_sec_info_reply(@, Head(events).key, encKey) ELSE @]
  /\ UNCHANGED <<cccd, discovery, bonding, subscribed, central>>

AuthStatus ==
  /\ Gets("AuthStatus")
  /\ IF Head(events).success
     THEN /\ stored' = IF BondStore THEN encKey ELSE stored
          /\ dev' \in AfterHandler("Bonded", dev, notifySubscribed, indicateSubscribed)
     ELSE UNCHANGED <<stored, dev>>
  /\ UNCHANGED <<cccd, discovery, encKey, subscribed, central>>

(* The peer wrote a value: it is set, so sent on to subscribers, and the   *)
(* written handler runs.                                                   *)
ValueWritten ==
  /\ Gets("Write") /\ ~Head(events).cccd
  /\ LET set == updateCharacteristicValue(dev, notifySubscribed,
                                          indicateSubscribed, Head(events).char)
     IN dev' \in AfterHandler("Written", set, notifySubscribed, indicateSubscribed)
  /\ UNCHANGED <<cccd, discovery, bonding, subscribed, central>>

SubscribesToIndications(bits) == "indicate" \in bits
Subscribes(bits) == bits # {}

(* The peer wrote a CCCD.                                                  *)
CccdWritten ==
  LET c == Head(events).char
      With(set, flag) == IF flag \in Head(events).bits THEN set \cup {c} ELSE set \ {c}
  IN
  /\ Gets("Write") /\ Head(events).cccd
  /\ notifySubscribed' = With(notifySubscribed, "notify")
  /\ indicateSubscribed' = With(indicateSubscribed, "indicate")
  /\ subscribed' = IF Subscribes(Head(events).bits) THEN subscribed \cup {c}
                   ELSE subscribed \ {c}
  /\ dev' \in IF subscribed' = subscribed THEN {dev}
              ELSE AfterHandler("Subscribed", dev, notifySubscribed', indicateSubscribed')
  /\ UNCHANGED <<discovery, bonding, central>>

SysAttrMissing ==
  /\ Gets("SysAttrMissing")
  /\ dev' = [dev EXCEPT !.sd = IF dev.conn THEN sd_ble_gatts_sys_attr_set(@) ELSE @]
  /\ UNCHANGED <<cccd, discovery, bonding, subscribed, central>>

(* The first remote service with a uuid gets the range.                    *)
Indices(uuid) ==
  {j \in DOMAIN Services : Services[j] = uuid
                           /\ \A k \in 1 .. j - 1 : Services[k] # uuid}

RangesFrom(found) ==
  [j \in DOMAIN Services |->
     LET mine == {i \in DOMAIN found : j \in Indices(found[i].uuid)}
         last == CHOOSE i \in mine : \A k \in mine : k <= i
     IN IF mine = {} THEN ranges[j] ELSE <<found[last].start, found[last].end>>]

DiscoverableAgain(rs, i) ==
  {j \in DOMAIN rs : j >= i /\ rs[j][1] # 0 /\ rs[j][2] # 0}

(* The remote services after index i that the peer has.                    *)
Discoverable(rs, i) ==
  {j \in DOMAIN rs : j > i /\ rs[j][1] # 0 /\ rs[j][2] # 0}

NextService(rs, i) ==
  CHOOSE j \in Discoverable(rs, i) : \A k \in Discoverable(rs, i) : j <= k

(* The search goes on behind the last service found; handles have 16 bits. *)
PrimSrvcDiscRsp ==
  LET found == Head(events).found
      discover(d, j) ==
        [d EXCEPT !.sd = IF d.conn
           THEN sd_ble_gattc_characteristics_discover(@, ranges[j]) ELSE @]
  IN
  /\ Gets("PrimSrvcDiscRsp")
  /\ IF Head(events).ok
     THEN /\ ranges' = RangesFrom(found)
          /\ dev' = [dev EXCEPT !.sd = IF dev.conn
               THEN sd_ble_gattc_primary_services_discover(@,
                      (Last(found).end + 1) % 65536) ELSE @]
          /\ UNCHANGED discoveryIndex
     ELSE /\ UNCHANGED ranges
          /\ IF Discoverable(ranges, 0) = {} THEN UNCHANGED <<dev, discoveryIndex>>
             ELSE /\ discoveryIndex' = NextService(ranges, 0)
                  /\ dev' = discover(dev, discoveryIndex')
  /\ UNCHANGED <<remote, discovered, cccd, bonding, subscribed, central>>

RemoteFrom(found) ==
  [r \in DOMAIN Remotes |->
     LET mine == {i \in DOMAIN found : /\ Remotes[r].service = discoveryIndex
                                       /\ Remotes[r].uuid = found[i].uuid}
         last == CHOOSE i \in mine : \A k \in mine : k <= i
     IN IF mine = {} THEN remote[r]
        ELSE [handle |-> found[last].handle, props |-> found[last].props]]

(* The search goes on at the last value found, until nothing is left of    *)
(* the service, and then with the next one; when there is none the sketch  *)
(* is told.                                                                *)
CharDiscRsp ==
  LET found == Head(events).found
      next == Discoverable(ranges, discoveryIndex)
      discover(range) ==
        dev' = [dev EXCEPT !.sd = IF dev.conn
           THEN sd_ble_gattc_characteristics_discover(@, range) ELSE @]
  IN
  /\ Gets("CharDiscRsp")
  /\ IF Head(events).ok
     THEN /\ remote' = RemoteFrom(found)
          /\ discover(<<Last(found).handle, ranges[discoveryIndex][2]>>)
          /\ UNCHANGED <<discoveryIndex, discovered>>
     ELSE /\ UNCHANGED remote
          /\ IF next # {}
             THEN /\ discoveryIndex' = NextService(ranges, discoveryIndex)
                  /\ discover(ranges[discoveryIndex'])
                  /\ UNCHANGED discovered
             ELSE /\ discovered' = TRUE
                  /\ dev' \in AfterHandler("Discovered", dev, notifySubscribed,
                                           indicateSubscribed)
                  /\ UNCHANGED discoveryIndex
  /\ UNCHANGED <<ranges, cccd, bonding, subscribed, central>>

(* A read that needs a bond asks for one (sd_ble_gap_authenticate, after   *)
(* which the peer may pair); the value of any other goes to the            *)
(* characteristic with its handle.                                         *)
ReadRsp ==
  LET answered == [dev EXCEPT !.requested = FALSE]
      authenticates == Head(events).refused /\ BondStore
  IN
  /\ Gets("ReadRsp")
  /\ dev' \in IF authenticates \/ \A r \in DOMAIN remote : remote[r].handle # Head(events).handle
              THEN {answered}
              ELSE AfterHandler("Updated", answered, notifySubscribed, indicateSubscribed)
  /\ UNCHANGED <<discovery, cccd, bonding, subscribed, central>>

WriteRspUnmarked ==
  Gets("WriteRsp") /\ UNCHANGED <<dev, discovery, cccd, bonding, subscribed, central>>

WriteRsp ==
  /\ Gets("WriteRsp")
  /\ dev' = [dev EXCEPT !.requested = FALSE]
  /\ UNCHANGED <<discovery, cccd, bonding, subscribed, central>>

(* An indication is confirmed, and the value goes to its characteristic.   *)
Hvx ==
  LET confirmed == IF Head(events).indication /\ dev.conn
                   THEN [dev EXCEPT !.sd.unconfirmed = FALSE] ELSE dev
  IN
  /\ Gets("Hvx")
  /\ dev' \in IF \A r \in DOMAIN remote : remote[r].handle # Head(events).handle
              THEN {confirmed}
              ELSE AfterHandler("Updated", confirmed, notifySubscribed, indicateSubscribed)
  /\ UNCHANGED <<discovery, cccd, bonding, subscribed, central>>

(* Events of no interest: security updates, confirmed indications.         *)
Ignored ==
  /\ Gets("Other")
  /\ UNCHANGED <<dev, discovery, cccd, bonding, subscribed, central>>

poll ==
  \/ TxComplete \/ Connected \/ Disconnected \/ SecParamsRequest
  \/ SecInfoRequest \/ AuthStatus \/ ValueWritten \/ CccdWritten
  \/ SysAttrMissing \/ PrimSrvcDiscRsp \/ CharDiscRsp \/ ReadRsp \/ WriteRsp
  \/ Hvx \/ Ignored

------------------------------------------------------------------------------
(* The program restarts: the power comes back, or the sketch calls end()   *)
(* and begin().  Only the first forgets what the constructor sets, and     *)
(* finds a page that was neither kept nor erased nor written to its end,   *)
(* if the power went while putData or clearData was at work.  Bound: with  *)
(* the power on, they are done before anything else happens.               *)
Rewriting ==
  \/ hasData /\ \E a \in LoopCalls : a[1] = "clearData"
  \/ /\ BondStore /\ events # << >>
     /\ Head(events).type = "AuthStatus" /\ Head(events).success

Begins ==
  /\ ranges' = [s \in DOMAIN Services |-> NoRange]
  /\ remote' = [r \in DOMAIN Remotes |-> Unknown]
  /\ notifySubscribed' = {} /\ indicateSubscribed' = {}
  /\ discovered' = FALSE /\ events' = << >>

FromStoreNothing == NoKey
FromStore == stored'

PowerCycle ==
  /\ "power" \in Restarts
  /\ Begins
  /\ stored' \in {stored} \cup IF Rewriting THEN {NoKey, Torn} ELSE {}
  /\ dev' = [conn |-> FALSE, tx |-> 0, requested |-> FALSE, broadcast |-> 0,
             sd |-> Begun(Enabled(dev.sd.peerKey))]
  /\ discoveryIndex' = 0 /\ subscribed' = {} /\ central' = FALSE
  /\ encKey' = IF BondStore THEN FromStore ELSE NoKey

EndAndBegin ==
  /\ "end" \in Restarts
  /\ Begins
  /\ dev' = [dev EXCEPT !.sd = Begun(Enabled(@.peerKey))]
  /\ UNCHANGED <<stored, discoveryIndex, subscribed, central>>
  /\ encKey' = IF BondStore /\ hasData THEN FromStore ELSE encKey

------------------------------------------------------------------------------
(* What the SoftDevice and the peer do on their own.                       *)
Emits(sd, event) ==
  /\ Len(events) < MaxEvents
  /\ dev' = [dev EXCEPT !.sd = sd]
  /\ events' = Append(events, event)
  /\ UNCHANGED <<cccd, discovery, bonding, subscribed, central>>

Up == dev.sd.mode = "connected"

PeerConnects ==
  /\ dev.sd.mode = "advertising"
  /\ \E p \in Peers : Emits(Linked(dev.sd, p), [type |-> "Connected"])

LinkEnds ==
  /\ dev.sd.mode \in {"connected", "closing"}
  /\ Emits(Unlinked(dev.sd), [type |-> "Disconnected"])

(* The peer reaches for a CCCD before the driver set the attributes.       *)
PeerMeetsNoAttrs ==
  /\ Up /\ dev.sd.attrs = "unset" /\ Cccds # {}
  /\ Emits([dev.sd EXCEPT !.attrs = "asked"], [type |-> "SysAttrMissing"])

PeerSubscribes ==
  /\ Up /\ dev.sd.attrs = "set"
  /\ \E c \in Cccds : \E bits \in SUBSET (Locals[c] \cap {"notify", "indicate"}) :
       /\ bits # dev.sd.cccd[c]
       /\ Emits([dev.sd EXCEPT !.cccd[c] = bits],
                [type |-> "Write", cccd |-> TRUE, char |-> c, bits |-> bits])

PeerWrites ==
  /\ Up
  /\ \E c \in DOMAIN Locals :
       /\ "write" \in Locals[c]
       /\ Emits(dev.sd, [type |-> "Write", cccd |-> FALSE, char |-> c])

PacketsSent ==
  /\ Up
  /\ \E n \in 1 .. TxTotal - dev.sd.free :
       Emits([dev.sd EXCEPT !.free = @ + n], [type |-> "TxComplete", count |-> n])

PeerConfirms ==
  /\ Up /\ dev.sd.indicating
  /\ Emits([dev.sd EXCEPT !.indicating = FALSE], [type |-> "Other"])

PeerPairs ==
  /\ Up /\ dev.sd.pairing = "no" /\ dev.sd.security # "asked" /\ BondStore
  /\ Emits([dev.sd EXCEPT !.pairing = "asked"], [type |-> "SecParamsRequest"])

(* The SoftDevice writes the new key to _bondData, and the peer keeps it;  *)
(* a pairing that fails may have written it already.                       *)
PairingEnds ==
  /\ Up /\ dev.sd.pairing \in {"yes", "refused"}
  /\ Len(events) < MaxEvents
  /\ \E success \in BOOLEAN, k \in Keys \cup {encKey} :
       /\ success => dev.sd.pairing = "yes" /\ k # encKey
       /\ dev.sd.pairing = "refused" => k = encKey
       /\ encKey' = k
       /\ dev' = [dev EXCEPT !.sd.pairing = "no",
                             !.sd.peerKey = IF success THEN k ELSE @,
                             !.sd.security = IF success THEN "encrypted" ELSE @]
       /\ events' = Append(events, [type |-> "AuthStatus", success |-> success])
  /\ UNCHANGED <<cccd, discovery, stored, subscribed, central>>

PeerEncrypts ==
  /\ Up /\ dev.sd.peerKey # NoKey /\ dev.sd.pairing = "no"
  /\ dev.sd.security # "asked"
  /\ Emits([dev.sd EXCEPT !.security = "asked"],
           [type |-> "SecInfoRequest", key |-> dev.sd.peerKey])

PeerNotifies ==
  /\ Up
  /\ \E r \in DOMAIN Remotes, indication \in BOOLEAN :
       /\ remote[r].handle # 0
       /\ (IF indication THEN "indicate" ELSE "notify") \in remote[r].props
       /\ indication => ~dev.sd.unconfirmed
       /\ Emits([dev.sd EXCEPT !.unconfirmed = @ \/ indication],
                [type |-> "Hvx", handle |-> remote[r].handle,
                 indication |-> indication])

(* One answer has room beside the other events.                            *)
PeerAnswers ==
  /\ Up /\ Len(events) <= MaxEvents
  /\ \E answer \in Answers(dev.sd) : events' = Append(events, answer)
  /\ dev' = [dev EXCEPT !.sd.client = Nothing]
  /\ UNCHANGED <<cccd, discovery, bonding, subscribed, central>>

SoftDeviceSteps ==
  \/ PeerConnects \/ LinkEnds \/ PeerMeetsNoAttrs \/ PeerSubscribes
  \/ PeerWrites \/ PacketsSent \/ PeerConfirms \/ PeerPairs \/ PairingEnds
  \/ PeerEncrypts \/ PeerAnswers \/ PeerNotifies

Next == Call \/ poll \/ PowerCycle \/ EndAndBegin \/ SoftDeviceSteps

Spec == Init /\ [][Next]_vars

(* The sketch's loop polls for ever, and the peer answers or the link ends. *)
LiveSpec == Spec /\ WF_vars(poll) /\ WF_vars(PeerAnswers)

------------------------------------------------------------------------------
Queued(type) == {i \in DOMAIN events : events[i].type = type}

(* Whenever no event is on its way, the driver agrees with the SoftDevice  *)
(* on whether there is a link, and the characteristics with the CCCDs on   *)
(* who is subscribed.                                                      *)
InStep ==
  events = << >> =>
    /\ dev.conn <=> dev.sd.mode \in {"connected", "closing"}
    /\ central <=> dev.conn
    /\ \A c \in Cccds : c \in subscribed <=> central /\ dev.sd.cccd[c] # {}

(* Buffers that queued events give back: a pair for each, of the event and *)
(* a number of its count.                                                  *)
GivenBack(queue) ==
  UNION {{i} \X (1 .. queue[i].count) :
           i \in {j \in DOMAIN queue : queue[j].type = "TxComplete"}}

Completed == Cardinality(GivenBack(events))

(* The driver never believes in more free buffers than there are, so what  *)
(* canNotify() promises is kept: on no order of sends, completions, lost   *)
(* links and restarts.                                                     *)
BuffersNotMadeUp == dev.tx + Completed <= dev.sd.free

(* A whole key in the bond store, the key in RAM and the key of the peer   *)
(* are the same one, also after pairings that failed and power losses.     *)
BondShared ==
  stored \in Keys => stored = encKey /\ stored = dev.sd.peerKey

(* While there is a whole key in the store, its peer is never refused.     *)
BondHonoured == stored \in Keys => dev.sd.security # "refused"

(* Handles come from the attribute table of the peer that is linked, and   *)
(* from the right service of it, whoever was linked before.                *)
HandlesOfThisPeer ==
  dev.conn /\ dev.sd.mode = "connected" =>
    \A r \in DOMAIN Remotes : remote[r].handle # 0 =>
      \E s \in DOMAIN dev.sd.peer : \E c \in DOMAIN dev.sd.peer[s].chars :
        /\ dev.sd.peer[s].uuid = Services[Remotes[r].service]
        /\ dev.sd.peer[s].chars[c].uuid = Remotes[r].uuid
        /\ dev.sd.peer[s].chars[c].handle = remote[r].handle

(* A request that is marked in progress is one that something will end:    *)
(* the SoftDevice works on it, or its response or the end of the link is   *)
(* on the way.                                                             *)
RequestEnds ==
  dev.requested =>
    \/ dev.sd.client.kind \in {"read", "write"}
    \/ dev.sd.mode = "closing"
    \/ Queued("ReadRsp") \cup Queued("WriteRsp") \cup Queued("Disconnected") # {}

(* The device advertises again after every link.                           *)
AdvertisesAgain == dev.sd.mode = "idle" ~> dev.sd.mode = "advertising"

(* Discovery comes to its end on every link that lasts.                    *)
DiscoveryEnds ==
  dev.sd.mode = "connected" /\ Services # << >>
    ~> discovered \/ dev.sd.mode # "connected"
==============================================================================
