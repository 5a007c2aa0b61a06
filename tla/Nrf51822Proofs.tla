---------------------------- MODULE Nrf51822Proofs ---------------------------
(***************************************************************************)
(* The nRF51822 driver and its peer agree on the bond, and the driver and  *)
(* the SoftDevice on the link, its subscriptions, the handles the driver   *)
(* uses as a client, its requests and the transmit buffers, for any peers, *)
(* any characteristics, any calls of the sketch and of its handlers, and   *)
(* any number of events waiting.                                           *)
(***************************************************************************)
EXTENDS Nrf51822, FiniteSetTheorems, FunctionTheorems, WellFoundedInduction,
        TLAPS

(* The fields of dev and of the SoftDevice, which no step adds or drops.   *)
SdShape(sd) ==
  DOMAIN sd = {"mode", "peer", "free", "cccd", "attrs", "indicating", "pairing",
               "client", "adv", "peerKey", "security", "unconfirmed"}

Shape(d) ==
  /\ DOMAIN d = {"conn", "tx", "requested", "broadcast", "sd"}
  /\ SdShape(d.sd)

(* What all calls but the answers to security requests leave alone.        *)
SdKeeps(a, b) ==
  /\ SdShape(b)
  /\ b.peerKey = a.peerKey /\ b.pairing = a.pairing /\ b.security = a.security
  /\ b.mode = a.mode \/ (a.mode = "connected" /\ b.mode = "closing")

Keeps(d, e) == Shape(e) /\ SdKeeps(d.sd, e.sd)

------------------------------------------------------------------------------
(* The inductive invariant.  A disconnection is the last event of its      *)
(* link, so that the events waiting are those of one link.                 *)
LinksApart ==
  /\ dev.sd.mode = "advertising" => events = << >>
  /\ \A i \in DOMAIN events :
       events[i].type = "Disconnected" => i = Len(events) /\ dev.sd.mode = "idle"

(* No pairing starts before the outcome of the last one was handled, and   *)
(* none is allowed while there is a bond: the key in RAM that an outcome   *)
(* has the driver store is the one the peer got.                           *)
PairingsApart ==
  /\ dev.sd.pairing = "yes" => stored = NoKey
  /\ dev.sd.pairing \in {"yes", "refused"} =>
       \A i \in DOMAIN events : events[i].type # "AuthStatus"
  /\ \A i \in DOMAIN events : events[i].type = "SecParamsRequest" =>
       /\ dev.sd.mode # "idle" => dev.sd.pairing = "asked"
       /\ \A j \in DOMAIN events :
            j > i => events[j].type \notin {"SecParamsRequest", "AuthStatus"}
  /\ \A i \in DOMAIN events : events[i].type = "AuthStatus" /\ events[i].success =>
       encKey = dev.sd.peerKey /\ dev.sd.security # "refused"

(* Nor does the peer pair while it asks for encryption: the key it asks    *)
(* for is the one it has.                                                  *)
EncryptionsApart ==
  /\ dev.sd.security = "asked" => dev.sd.pairing = "no"
  /\ dev.sd.mode = "idle" => dev.sd.security = "open"
  /\ \A i \in DOMAIN events : events[i].type = "SecInfoRequest" =>
       /\ dev.sd.mode # "idle" =>
            dev.sd.security = "asked" /\ events[i].key = dev.sd.peerKey
       /\ \A j \in DOMAIN events :
            j > i => events[j].type \notin {"SecInfoRequest", "AuthStatus"}

(* A sequence of some events or other.                                     *)
IsQueue(s) == \E S : s \in Seq(S)

IInv ==
  /\ Shape(dev) /\ IsQueue(events)
  /\ ~BondStore => stored = NoKey
  /\ BondShared /\ BondHonoured
  /\ LinksApart /\ PairingsApart /\ EncryptionsApart

------------------------------------------------------------------------------
(* Queues of events, whatever the events are.                              *)
LEMMA QueueFacts ==
  ASSUME NEW s, IsQueue(s)
  PROVE  Len(s) \in Nat /\ DOMAIN s = 1 .. Len(s)
BY DEF IsQueue

LEMMA AppendFacts ==
  ASSUME NEW s, NEW e, IsQueue(s)
  PROVE  /\ IsQueue(Append(s, e))
         /\ DOMAIN Append(s, e) = 1 .. Len(s) + 1
         /\ Len(Append(s, e)) = Len(s) + 1
         /\ \A i \in 1 .. Len(s) : Append(s, e)[i] = s[i]
         /\ Append(s, e)[Len(s) + 1] = e
<1>1. PICK S : s \in Seq(S)
  BY DEF IsQueue
<1> DEFINE T == S \cup {e}
<1>2. s \in Seq(T) /\ e \in T
  BY <1>1
<1>3. Append(s, e) \in Seq(T)
  BY <1>2
<1>4. QED
  BY <1>2, <1>3 DEF IsQueue

LEMMA TailFacts ==
  ASSUME NEW s, IsQueue(s), s # << >>
  PROVE  /\ IsQueue(Tail(s))
         /\ DOMAIN Tail(s) = 1 .. Len(s) - 1
         /\ Len(Tail(s)) = Len(s) - 1
         /\ \A i \in 1 .. Len(s) - 1 : Tail(s)[i] = s[i + 1]
         /\ Head(s) = s[1] /\ 1 \in DOMAIN s
<1>1. PICK S : s \in Seq(S)
  BY DEF IsQueue
<1>2. Tail(s) \in Seq(S)
  BY <1>1
<1>3. QED
  BY <1>1, <1>2 DEF IsQueue

------------------------------------------------------------------------------
(* Every call to the SoftDevice but the answers to security requests.      *)
LEMMA SoftDeviceKeeps ==
  ASSUME NEW sd, SdShape(sd), NEW x, NEW y
  PROVE  /\ SdKeeps(sd, sd)
         /\ SdKeeps(sd, [sd EXCEPT !.adv = x])
         /\ SdKeeps(sd, [sd EXCEPT !.unconfirmed = x])
         /\ SdKeeps(sd, sd_ble_gap_disconnect(sd))
         /\ SdKeeps(sd, sd_ble_gatts_hvx(sd, x, y))
         /\ SdKeeps(sd, Starts(sd, x))
         /\ SdKeeps(sd, sd_ble_gattc_primary_services_discover(sd, x))
         /\ SdKeeps(sd, sd_ble_gattc_characteristics_discover(sd, x))
         /\ SdKeeps(sd, sd_ble_gattc_write_cmd(sd))
         /\ SdKeeps(sd, sd_ble_gatts_sys_attr_set(sd))
<1>1. SdKeeps(sd, sd)
  BY DEF SdKeeps
<1>2. SdKeeps(sd, [sd EXCEPT !.adv = x]) /\ SdKeeps(sd, [sd EXCEPT !.unconfirmed = x])
  BY DEF SdKeeps, SdShape
<1>3. SdKeeps(sd, sd_ble_gap_disconnect(sd))
  BY DEF SdKeeps, SdShape, sd_ble_gap_disconnect
<1>4. SdKeeps(sd, sd_ble_gatts_hvx(sd, x, y))
  BY <1>1 DEF SdKeeps, SdShape, sd_ble_gatts_hvx
<1>5. \A r : SdKeeps(sd, Starts(sd, r))
  BY <1>1 DEF SdKeeps, SdShape, Starts
<1>6. SdKeeps(sd, sd_ble_gattc_primary_services_discover(sd, x))
  BY <1>1, <1>5 DEF sd_ble_gattc_primary_services_discover
<1>7. SdKeeps(sd, sd_ble_gattc_characteristics_discover(sd, x))
  BY <1>5 DEF sd_ble_gattc_characteristics_discover
<1>8. SdKeeps(sd, sd_ble_gattc_write_cmd(sd))
  BY <1>1 DEF SdKeeps, SdShape, sd_ble_gattc_write_cmd
<1>9. SdKeeps(sd, sd_ble_gatts_sys_attr_set(sd))
  BY <1>1 DEF SdKeeps, SdShape, sd_ble_gatts_sys_attr_set
<1>10. QED
  BY <1>1, <1>2, <1>3, <1>4, <1>5, <1>6, <1>7, <1>8, <1>9

(* Setting fields of the driver, and the SoftDevice to what keeps.         *)
LEMMA DriverKeeps ==
  ASSUME NEW d, Shape(d), NEW sd, SdKeeps(d.sd, sd), NEW x, NEW y
  PROVE  /\ Keeps(d, d)
         /\ Keeps(d, [d EXCEPT !.sd = sd])
         /\ Keeps(d, [d EXCEPT !.tx = x])
         /\ Keeps(d, [d EXCEPT !.tx = x, !.sd = sd])
         /\ Keeps(d, [d EXCEPT !.requested = x])
         /\ Keeps(d, [d EXCEPT !.requested = x, !.sd = sd])
         /\ Keeps(d, [d EXCEPT !.requested = y, !.tx = x, !.sd = sd])
         /\ Keeps(d, [d EXCEPT !.conn = y, !.tx = x])
         /\ Keeps(d, [d EXCEPT !.broadcast = x, !.sd.adv = x])
<1>1. SdShape(d.sd) /\ SdKeeps(d.sd, d.sd) /\ SdKeeps(d.sd, [d.sd EXCEPT !.adv = x])
  BY SoftDeviceKeeps DEF Shape
<1>2. SdShape(sd)
  BY DEF SdKeeps
<1>3. Keeps(d, d) /\ Keeps(d, [d EXCEPT !.sd = sd])
  BY <1>1, <1>2 DEF Keeps, Shape
<1>4. Keeps(d, [d EXCEPT !.tx = x]) /\ Keeps(d, [d EXCEPT !.tx = x, !.sd = sd])
  BY <1>1, <1>2 DEF Keeps, Shape
<1>5. /\ Keeps(d, [d EXCEPT !.requested = x])
      /\ Keeps(d, [d EXCEPT !.requested = x, !.sd = sd])
      /\ Keeps(d, [d EXCEPT !.requested = y, !.tx = x, !.sd = sd])
  BY <1>1, <1>2 DEF Keeps, Shape
<1>6. Keeps(d, [d EXCEPT !.conn = y, !.tx = x])
  BY <1>1, <1>2 DEF Keeps, Shape
<1>7. Keeps(d, [d EXCEPT !.broadcast = x, !.sd.adv = x])
  BY <1>1 DEF Keeps, Shape, SdKeeps, SdShape
<1>8. QED
  BY <1>3, <1>4, <1>5, <1>6, <1>7

(* Two steps that keep are one that does.                                  *)
LEMMA KeepsTwice ==
  ASSUME NEW d, NEW e, NEW f, Keeps(d, e), Keeps(e, f)
  PROVE  Keeps(d, f)
BY DEF Keeps, SdKeeps

------------------------------------------------------------------------------
(* Sending a value, for any subscription flags.                            *)
LEMMA SentKeeps ==
  ASSUME NEW d, Shape(d), NEW flags, NEW type, NEW c
  PROVE  Keeps(d, Sent(d, flags, type, c))
<1> DEFINE sd == IF d.conn THEN sd_ble_gatts_hvx(d.sd, type, c) ELSE d.sd
<1>1. SdKeeps(d.sd, sd)
  BY SoftDeviceKeeps DEF Shape
<1>2. Keeps(d, d) /\ Keeps(d, [d EXCEPT !.tx = d.tx - 1, !.sd = sd])
  BY <1>1, DriverKeeps
<1>3. [d EXCEPT !.tx = @ - 1,
                !.sd = IF d.conn THEN sd_ble_gatts_hvx(@, type, c) ELSE @]
        = [d EXCEPT !.tx = d.tx - 1, !.sd = sd]
  OBVIOUS
<1>4. QED
  BY <1>2, <1>3 DEF Sent

(* Choosing the characteristic to broadcast, and setting a value.          *)
LEMMA UpdateKeeps ==
  ASSUME NEW d, Shape(d), NEW notifying, NEW indicating, NEW c
  PROVE  /\ Keeps(d, broadcastCharacteristic(d, c))
         /\ Keeps(d, updateCharacteristicValue(d, notifying, indicating, c))
<1>1. Keeps(d, d) /\ Keeps(d, broadcastCharacteristic(d, c))
  BY DriverKeeps, SoftDeviceKeeps DEF broadcastCharacteristic, Shape
<1> DEFINE advertised == IF d.broadcast = c THEN broadcastCharacteristic(d, c) ELSE d
           notified == Sent(advertised, notifying, "notify", c)
<1>2. Keeps(d, advertised) /\ Shape(advertised)
  BY <1>1 DEF Keeps
<1>3. Keeps(advertised, notified) /\ Shape(notified)
  BY <1>2, SentKeeps DEF Keeps
<1>4. Keeps(notified, Sent(notified, indicating, "indicate", c))
  BY <1>3, SentKeeps
<1>5. QED
  BY <1>1, <1>2, <1>3, <1>4, KeepsTwice DEF updateCharacteristicValue

(* The calls on remote characteristics.                                    *)
LEMMA RemoteCallsKeep ==
  ASSUME NEW d, Shape(d), NEW r
  PROVE  /\ \A q : Keeps(d, Requested(d, q))
         /\ Keeps(d, readRemoteCharacteristic(d, r))
         /\ Keeps(d, writeRemoteCharacteristic(d, r))
         /\ Keeps(d, subscribeRemoteCharacteristic(d, r))
         /\ Keeps(d, unsubscribeRemoteCharacteristic(d, r))
<1>1. SdKeeps(d.sd, d.sd) /\ SdKeeps(d.sd, sd_ble_gattc_write_cmd(d.sd))
      /\ \A q : SdKeeps(d.sd, Starts(d.sd, q))
  BY SoftDeviceKeeps DEF Shape
<1>2. Keeps(d, d)
  BY DriverKeeps, <1>1
<1>3. ASSUME NEW e, Shape(e), NEW q PROVE Keeps(e, Requested(e, q))
  <2> DEFINE sd == IF e.conn THEN Starts(e.sd, q) ELSE e.sd
  <2>1. SdKeeps(e.sd, sd)
    BY SoftDeviceKeeps, <1>3 DEF Shape
  <2>2. Keeps(e, [e EXCEPT !.requested = TRUE, !.sd = sd])
    BY <2>1, <1>3, DriverKeeps
  <2>3. Requested(e, q) = [e EXCEPT !.requested = TRUE, !.sd = sd]
    BY DEF Requested
  <2>4. QED
    BY <2>2, <2>3
<1>4. Keeps(d, writeRemoteCharacteristic(d, r))
  <2> DEFINE counted == [d EXCEPT !.tx = @ - 1]
             q == [kind |-> "write", handle |-> remote[r].handle]
             sd == IF d.conn THEN sd_ble_gattc_write_cmd(d.sd) ELSE d.sd
  <2>1. Keeps(d, counted) /\ Shape(counted)
    BY DriverKeeps, <1>1 DEF Keeps
  <2>2. Keeps(d, Requested(counted, q))
    BY <2>1, <1>3, KeepsTwice
  <2>3. SdKeeps(d.sd, sd)
    BY <1>1
  <2>4. Keeps(d, [d EXCEPT !.requested = TRUE, !.tx = d.tx - 1, !.sd = sd])
    BY <2>3, DriverKeeps
  <2>5. [d EXCEPT !.requested = TRUE, !.tx = @ - 1,
                  !.sd = IF d.conn THEN sd_ble_gattc_write_cmd(@) ELSE @]
          = [d EXCEPT !.requested = TRUE, !.tx = d.tx - 1, !.sd = sd]
    OBVIOUS
  <2>6. QED
    BY <1>2, <2>2, <2>4, <2>5 DEF writeRemoteCharacteristic
<1>5. /\ Keeps(d, readRemoteCharacteristic(d, r))
      /\ Keeps(d, subscribeRemoteCharacteristic(d, r))
      /\ Keeps(d, unsubscribeRemoteCharacteristic(d, r))
  BY <1>2, <1>3 DEF readRemoteCharacteristic, subscribeRemoteCharacteristic,
                    unsubscribeRemoteCharacteristic
<1>6. QED
  BY <1>3, <1>4, <1>5

(* Every call of the API, so the handlers too, whatever they call.         *)
LEMMA CalledKeeps ==
  ASSUME NEW d, Shape(d), NEW notifying, NEW indicating
  PROVE  /\ \A a : Keeps(d, Called(d, notifying, indicating, a))
         /\ \A h : \A e \in AfterHandler(h, d, notifying, indicating) : Keeps(d, e)
<1>1. SdKeeps(d.sd, d.sd) /\ SdKeeps(d.sd, sd_ble_gap_disconnect(d.sd))
  BY SoftDeviceKeeps DEF Shape
<1>2. Keeps(d, d) /\ Keeps(d, disconnect(d))
  BY <1>1, DriverKeeps DEF disconnect
<1>3. ASSUME NEW a PROVE Keeps(d, Called(d, notifying, indicating, a))
  <2>1. /\ Keeps(d, updateCharacteristicValue(d, notifying, indicating, a[2]))
        /\ Keeps(d, broadcastCharacteristic(d, a[2]))
    BY UpdateKeeps
  <2>2. /\ Keeps(d, readRemoteCharacteristic(d, a[2]))
        /\ Keeps(d, writeRemoteCharacteristic(d, a[2]))
        /\ Keeps(d, subscribeRemoteCharacteristic(d, a[2]))
        /\ Keeps(d, unsubscribeRemoteCharacteristic(d, a[2]))
    BY RemoteCallsKeep
  <2>3. QED
    BY <1>2, <2>1, <2>2 DEF Called
<1>4. QED
  BY <1>2, <1>3 DEF AfterHandler

------------------------------------------------------------------------------
(* poll() takes an event that leaves the bond alone.                       *)
LEMMA Popped ==
  ASSUME IInv, events # << >>, events' = Tail(events), Keeps(dev, dev'),
         UNCHANGED bonding
  PROVE  IInv'
<1>1. /\ IsQueue(events') /\ Len(events) \in Nat
      /\ DOMAIN events = 1 .. Len(events)
      /\ DOMAIN events' = 1 .. Len(events) - 1 /\ Len(events') = Len(events) - 1
      /\ \A i \in DOMAIN events' : events'[i] = events[i + 1] /\ i + 1 \in DOMAIN events
  BY TailFacts, QueueFacts DEF IInv
<1>2. /\ Shape(dev')
      /\ dev'.sd.peerKey = dev.sd.peerKey
      /\ dev'.sd.pairing = dev.sd.pairing
      /\ dev'.sd.security = dev.sd.security
      /\ dev'.sd.mode = "idle" <=> dev.sd.mode = "idle"
      /\ dev'.sd.mode = "advertising" => dev.sd.mode = "advertising"
      /\ encKey' = encKey /\ stored' = stored
  BY DEF Keeps, SdKeeps, bonding
<1>3. BondShared' /\ BondHonoured' /\ (~BondStore => stored' = NoKey)
  BY <1>2 DEF IInv, BondShared, BondHonoured
<1>4. LinksApart'
  BY <1>1, <1>2 DEF IInv, LinksApart
<1>5. PairingsApart'
  BY <1>1, <1>2 DEF IInv, PairingsApart
<1>6. EncryptionsApart'
  BY <1>1, <1>2 DEF IInv, EncryptionsApart
<1>7. QED
  BY <1>1, <1>2, <1>3, <1>4, <1>5, <1>6 DEF IInv

(* The SoftDevice adds an event of a link that has nothing to do with the  *)
(* bond.                                                                   *)
LEMMA Pushed ==
  ASSUME IInv, NEW e, events' = Append(events, e),
         e.type \notin {"SecParamsRequest", "AuthStatus", "SecInfoRequest", "Disconnected"},
         dev.sd.mode \notin {"idle", "advertising"}, Keeps(dev, dev'),
         UNCHANGED bonding
  PROVE  IInv'
<1>1. /\ IsQueue(events') /\ Len(events) \in Nat
      /\ DOMAIN events = 1 .. Len(events)
      /\ DOMAIN events' = 1 .. Len(events) + 1
      /\ \A i \in 1 .. Len(events) : events'[i] = events[i]
      /\ events'[Len(events) + 1] = e
  BY AppendFacts, QueueFacts DEF IInv
<1>2. /\ Shape(dev')
      /\ dev'.sd.peerKey = dev.sd.peerKey
      /\ dev'.sd.pairing = dev.sd.pairing
      /\ dev'.sd.security = dev.sd.security
      /\ dev'.sd.mode \notin {"idle", "advertising"}
      /\ encKey' = encKey /\ stored' = stored
  BY DEF Keeps, SdKeeps, bonding
<1>3. BondShared' /\ BondHonoured' /\ (~BondStore => stored' = NoKey)
  BY <1>2 DEF IInv, BondShared, BondHonoured
<1>4. LinksApart'
  BY <1>1, <1>2 DEF IInv, LinksApart
<1>5. PairingsApart'
  BY <1>1, <1>2 DEF IInv, PairingsApart
<1>6. EncryptionsApart'
  BY <1>1, <1>2 DEF IInv, EncryptionsApart
<1>7. QED
  BY <1>1, <1>2, <1>3, <1>4, <1>5, <1>6 DEF IInv

(* A handler of poll(), run on a state that keeps.                         *)
LEMMA HandlerKeeps ==
  ASSUME NEW d, NEW e, Keeps(d, e), NEW h, NEW notifying, NEW indicating,
         NEW f \in AfterHandler(h, e, notifying, indicating)
  PROVE  Keeps(d, f)
<1>1. Shape(e)
  BY DEF Keeps
<1>2. Keeps(e, f)
  BY <1>1, CalledKeeps
<1>3. QED
  BY <1>2, KeepsTwice

(* The events of poll() that do not touch the bond.                        *)
PlainPoll ==
  \/ TxComplete \/ Connected \/ ValueWritten \/ CccdWritten \/ SysAttrMissing
  \/ PrimSrvcDiscRsp \/ CharDiscRsp \/ ReadRsp \/ WriteRsp \/ Hvx \/ Ignored

LEMMA PlainPollKeeps ==
  ASSUME Shape(dev), PlainPoll
  PROVE  Keeps(dev, dev')
<1>1. Keeps(dev, dev) /\ SdShape(dev.sd) /\ SdKeeps(dev.sd, dev.sd)
  BY DriverKeeps, SoftDeviceKeeps DEF Shape
<1>2. CASE TxComplete
  <2> DEFINE count == (dev.tx + Head(events).count) % 256
  <2>1. dev' = [dev EXCEPT !.tx = count]
    BY <1>2 DEF TxComplete
  <2> HIDE DEF count
  <2>2. Keeps(dev, [dev EXCEPT !.tx = count])
    BY <1>1, DriverKeeps
  <2>3. QED
    BY <2>1, <2>2
<1>3. CASE Connected
  <2> DEFINE linked == [dev EXCEPT !.conn = TRUE, !.tx = dev.sd.free]
  <2>1. Keeps(dev, linked)
    BY <1>1, DriverKeeps
  <2>2. PICK d \in AfterHandler("Connected", linked, notifySubscribed, indicateSubscribed) :
          dev' = IF Services = << >> THEN d
                 ELSE [d EXCEPT !.sd = sd_ble_gattc_primary_services_discover(@, 1)]
    BY <1>3 DEF Connected
  <2>3. Keeps(dev, d) /\ Shape(d)
    BY <2>1, HandlerKeeps DEF Keeps
  <2> DEFINE sd == sd_ble_gattc_primary_services_discover(d.sd, 1)
  <2>4. SdKeeps(d.sd, sd)
    BY <2>3, SoftDeviceKeeps DEF Shape
  <2>5. Keeps(d, [d EXCEPT !.sd = sd])
    BY <2>3, <2>4, DriverKeeps
  <2>6. QED
    BY <2>2, <2>3, <2>5, KeepsTwice
<1>4. CASE ValueWritten
  <2> DEFINE set == updateCharacteristicValue(dev, notifySubscribed,
                                              indicateSubscribed, Head(events).char)
  <2>1. Keeps(dev, set)
    BY UpdateKeeps
  <2>2. QED
    BY <1>4, <2>1, HandlerKeeps DEF ValueWritten
<1>5. CASE CccdWritten
  <2>1. \A d \in AfterHandler("Subscribed", dev, notifySubscribed', indicateSubscribed') :
          Keeps(dev, d)
    BY <1>1, HandlerKeeps
  <2>2. QED
    BY <1>1, <1>5, <2>1 DEF CccdWritten
<1>6. CASE SysAttrMissing
  <2> DEFINE sd == IF dev.conn THEN sd_ble_gatts_sys_attr_set(dev.sd) ELSE dev.sd
  <2>1. SdKeeps(dev.sd, sd)
    BY <1>1, SoftDeviceKeeps
  <2>2. Keeps(dev, [dev EXCEPT !.sd = sd])
    BY <2>1, DriverKeeps
  <2>3. QED
    BY <1>6, <2>2 DEF SysAttrMissing
<1>7. ASSUME NEW sd, SdKeeps(dev.sd, sd)
      PROVE  Keeps(dev, [dev EXCEPT !.sd = IF dev.conn THEN sd ELSE @])
  <2>1. SdKeeps(dev.sd, IF dev.conn THEN sd ELSE dev.sd)
    BY <1>1, <1>7
  <2>2. QED
    BY <2>1, DriverKeeps
<1>8. CASE PrimSrvcDiscRsp
  <2> DEFINE onwards == sd_ble_gattc_primary_services_discover(dev.sd,
                          (Last(Head(events).found).end + 1) % 65536)
             chars(j) == sd_ble_gattc_characteristics_discover(dev.sd, ranges[j])
  <2>1. SdKeeps(dev.sd, onwards)
    <3> DEFINE start == (Last(Head(events).found).end + 1) % 65536
    <3>1. \A x : SdKeeps(dev.sd, sd_ble_gattc_primary_services_discover(dev.sd, x))
      BY <1>1, SoftDeviceKeeps
    <3> HIDE DEF start
    <3>2. SdKeeps(dev.sd, sd_ble_gattc_primary_services_discover(dev.sd, start))
      BY <3>1
    <3>3. QED
      BY <3>2 DEF start
  <2>2. \A j : SdKeeps(dev.sd, chars(j))
    BY <1>1, SoftDeviceKeeps
  <2>3. /\ Keeps(dev, [dev EXCEPT !.sd = IF dev.conn THEN onwards ELSE @])
        /\ \A j : Keeps(dev, [dev EXCEPT !.sd = IF dev.conn THEN chars(j) ELSE @])
    BY <1>7, <2>1, <2>2
  <2>4. QED
    BY <1>1, <1>8, <2>3 DEF PrimSrvcDiscRsp
<1>9. CASE CharDiscRsp
  <2> DEFINE chars(range) == sd_ble_gattc_characteristics_discover(dev.sd, range)
  <2>1. \A range : SdKeeps(dev.sd, chars(range))
    BY <1>1, SoftDeviceKeeps
  <2>2. \A range : Keeps(dev, [dev EXCEPT !.sd = IF dev.conn THEN chars(range) ELSE @])
    BY <1>7, <2>1
  <2>3. \A d \in AfterHandler("Discovered", dev, notifySubscribed, indicateSubscribed) :
          Keeps(dev, d)
    BY <1>1, HandlerKeeps
  <2>4. QED
    BY <1>9, <2>2, <2>3 DEF CharDiscRsp
<1>10. CASE ReadRsp
  <2> DEFINE answered == [dev EXCEPT !.requested = FALSE]
  <2>1. Keeps(dev, answered)
    BY <1>1, DriverKeeps
  <2>2. \A d \in AfterHandler("Updated", answered, notifySubscribed, indicateSubscribed) :
          Keeps(dev, d)
    BY <2>1, HandlerKeeps
  <2>3. QED
    BY <1>10, <2>1, <2>2 DEF ReadRsp
<1>11. CASE WriteRsp
  BY <1>1, <1>11, DriverKeeps DEF WriteRsp
<1>12. CASE Hvx
  <2> DEFINE sd == [dev.sd EXCEPT !.unconfirmed = FALSE]
             confirmed == IF Head(events).indication /\ dev.conn
                          THEN [dev EXCEPT !.sd.unconfirmed = FALSE] ELSE dev
  <2>1. SdKeeps(dev.sd, sd) /\ [dev EXCEPT !.sd.unconfirmed = FALSE] = [dev EXCEPT !.sd = sd]
    BY <1>1, SoftDeviceKeeps
  <2>2. Keeps(dev, confirmed)
    BY <1>1, <2>1, DriverKeeps
  <2>3. \A d \in AfterHandler("Updated", confirmed, notifySubscribed, indicateSubscribed) :
          Keeps(dev, d)
    BY <2>2, HandlerKeeps
  <2>4. QED
    BY <1>12, <2>2, <2>3 DEF Hvx
<1>13. CASE Ignored
  BY <1>1, <1>13 DEF Ignored
<1>14. QED
  BY <1>2, <1>3, <1>4, <1>5, <1>6, <1>8, <1>9, <1>10, <1>11, <1>12, <1>13 DEF PlainPoll

------------------------------------------------------------------------------
(* The steps that touch the bond or the link, one lemma each.              *)

(* The sketch's calls; clearing the store ends the bond.                   *)
LEMMA CallStep == IInv /\ Call => IInv'
<1> SUFFICES ASSUME IInv, Call PROVE IInv'
  OBVIOUS
<1>1. Keeps(dev, dev')
  BY CalledKeeps DEF IInv, Call
<1>2. /\ events' = events /\ encKey' = encKey
      /\ stored' = NoKey \/ stored' = stored
  BY DEF Call
<1>3. /\ Shape(dev')
      /\ dev'.sd.peerKey = dev.sd.peerKey
      /\ dev'.sd.pairing = dev.sd.pairing
      /\ dev'.sd.security = dev.sd.security
      /\ dev'.sd.mode = "idle" <=> dev.sd.mode = "idle"
      /\ dev'.sd.mode = "advertising" => dev.sd.mode = "advertising"
  BY <1>1 DEF Keeps, SdKeeps
<1>4. BondShared' /\ BondHonoured' /\ (~BondStore => stored' = NoKey)
  BY <1>2, <1>3, ConstantsOK DEF IInv, BondShared, BondHonoured
<1>5. LinksApart' /\ PairingsApart' /\ EncryptionsApart'
  BY <1>2, <1>3 DEF IInv, LinksApart, PairingsApart, EncryptionsApart
<1>6. QED
  BY <1>2, <1>3, <1>4, <1>5 DEF IInv

(* The end of a link is its last event, so the queue is empty after it.    *)
LEMMA DisconnectedStep == IInv /\ Disconnected => IInv'
<1> SUFFICES ASSUME IInv, Disconnected PROVE IInv'
  OBVIOUS
<1>1. /\ events # << >> /\ events' = Tail(events) /\ UNCHANGED bonding
      /\ Head(events).type = "Disconnected"
  BY DEF Disconnected, Gets
<1>2. /\ events[1].type = "Disconnected" /\ 1 \in DOMAIN events /\ IsQueue(events')
      /\ DOMAIN events' = 1 .. Len(events) - 1
  BY <1>1, TailFacts DEF IInv
<1>3. Len(events) = 1 /\ dev.sd.mode = "idle"
  <2>1. \A i \in DOMAIN events :
          events[i].type = "Disconnected" => i = Len(events) /\ dev.sd.mode = "idle"
    BY DEF IInv, LinksApart
  <2>2. QED
    BY <1>2, <2>1
<1>4. events' = << >> /\ DOMAIN events' = {}
  <2>1. DOMAIN events' = {}
    BY <1>2, <1>3
  <2>2. QED
    BY <1>2, <2>1 DEF IsQueue
<1> DEFINE unlinked == [dev EXCEPT !.conn = FALSE, !.tx = 0]
<1>5. PICK d \in AfterUnlink(unlinked) :
        dev' = startAdvertising([d EXCEPT !.requested = FALSE])
  BY DEF Disconnected
<1>6. Keeps(dev, unlinked)
  BY DriverKeeps, SoftDeviceKeeps DEF IInv, Shape
<1>7. Keeps(dev, d)
  <2>1. \E n, i : d \in AfterHandler("Disconnected", unlinked, n, i)
    BY <1>5 DEF AfterUnlink
  <2>2. PICK n, i : d \in AfterHandler("Disconnected", unlinked, n, i)
    BY <2>1
  <2>3. QED
    BY <1>6, <2>2, HandlerKeeps
<1> DEFINE e == [d EXCEPT !.requested = FALSE]
<1>8. Keeps(dev, e)
  BY <1>7, DriverKeeps, SoftDeviceKeeps, KeepsTwice DEF Keeps, Shape
<1>9. /\ Shape(dev')
      /\ dev'.sd.peerKey = dev.sd.peerKey
      /\ dev'.sd.pairing = dev.sd.pairing
      /\ dev'.sd.security = dev.sd.security
      /\ dev'.sd.mode = "advertising"
  <2>1. e.sd.mode = "idle"
    BY <1>3, <1>8 DEF Keeps, SdKeeps
  <2>2. dev' = [e EXCEPT !.sd = [e.sd EXCEPT !.mode = "advertising"]]
    BY <1>5, <2>1 DEF startAdvertising, sd_ble_gap_adv_start
  <2> HIDE DEF e
  <2>3. QED
    BY <1>8, <2>2 DEF Keeps, SdKeeps, Shape, SdShape
<1>10. encKey' = encKey /\ stored' = stored
  BY <1>1 DEF bonding
<1>11. BondShared' /\ BondHonoured' /\ (~BondStore => stored' = NoKey)
  BY <1>9, <1>10 DEF IInv, BondShared, BondHonoured
<1>12. LinksApart' /\ PairingsApart' /\ EncryptionsApart'
  BY <1>3, <1>4, <1>9, <1>10 DEF IInv, LinksApart, PairingsApart, EncryptionsApart
<1>13. QED
  BY <1>2, <1>9, <1>10, <1>11, <1>12 DEF IInv

(* The request is the last one waiting, and bonding is allowed only if     *)
(* there is no bond.                                                       *)
LEMMA SecParamsRequestStep == IInv /\ SecParamsRequest => IInv'
<1> SUFFICES ASSUME IInv, SecParamsRequest PROVE IInv'
  OBVIOUS
<1>1. /\ events # << >> /\ events' = Tail(events) /\ UNCHANGED bonding
      /\ Head(events).type = "SecParamsRequest"
  BY DEF SecParamsRequest, Gets
<1>2. /\ IsQueue(events') /\ Len(events) \in Nat
      /\ DOMAIN events = 1 .. Len(events)
      /\ DOMAIN events' = 1 .. Len(events) - 1 /\ Len(events') = Len(events) - 1
      /\ \A i \in DOMAIN events' :
           events'[i] = events[i + 1] /\ i + 1 \in DOMAIN events /\ i + 1 > 1
      /\ events[1].type = "SecParamsRequest" /\ 1 \in DOMAIN events
  BY <1>1, TailFacts, QueueFacts DEF IInv
<1>3. encKey' = encKey /\ stored' = stored
  BY <1>1 DEF bonding
<1> DEFINE sd == IF dev.conn
                 THEN sd_ble_gap_sec_params_reply(dev.sd, BondStore /\ ~hasData)
                 ELSE dev.sd
<1>4. dev' = [dev EXCEPT !.sd = sd]
  BY DEF SecParamsRequest
<1>5. /\ SdShape(sd)
      /\ sd.peerKey = dev.sd.peerKey /\ sd.mode = dev.sd.mode
      /\ sd.security = dev.sd.security
      /\ \/ sd.pairing = dev.sd.pairing
         \/ /\ dev.sd.pairing = "asked"
            /\ sd.pairing = "refused" \/ (sd.pairing = "yes" /\ stored = NoKey)
  BY DEF IInv, Shape, SdShape, sd_ble_gap_sec_params_reply, hasData
<1> HIDE DEF sd
<1>6. Shape(dev') /\ dev'.sd = sd
  BY <1>4, <1>5 DEF IInv, Shape
<1>7. BondShared' /\ BondHonoured' /\ (~BondStore => stored' = NoKey)
  BY <1>3, <1>5, <1>6 DEF IInv, BondShared, BondHonoured
<1>8. LinksApart'
  BY <1>2, <1>5, <1>6 DEF IInv, LinksApart
<1>9. \A i \in DOMAIN events' : events'[i].type \notin {"SecParamsRequest", "AuthStatus"}
  BY <1>2 DEF IInv, PairingsApart
<1>10. PairingsApart'
  BY <1>3, <1>5, <1>6, <1>9 DEF IInv, PairingsApart
<1>11. EncryptionsApart'
  BY <1>2, <1>5, <1>6 DEF IInv, EncryptionsApart
<1>12. QED
  BY <1>2, <1>3, <1>6, <1>7, <1>8, <1>10, <1>11 DEF IInv

(* The key asked for is the peer's, and a bond in the store is its bond.   *)
LEMMA SecInfoRequestStep == IInv /\ SecInfoRequest => IInv'
<1> SUFFICES ASSUME IInv, SecInfoRequest PROVE IInv'
  OBVIOUS
<1>1. /\ events # << >> /\ events' = Tail(events) /\ UNCHANGED bonding
      /\ Head(events).type = "SecInfoRequest"
  BY DEF SecInfoRequest, Gets
<1>2. /\ IsQueue(events') /\ Len(events) \in Nat
      /\ DOMAIN events = 1 .. Len(events)
      /\ DOMAIN events' = 1 .. Len(events) - 1 /\ Len(events') = Len(events) - 1
      /\ \A i \in DOMAIN events' :
           events'[i] = events[i + 1] /\ i + 1 \in DOMAIN events /\ i + 1 > 1
      /\ events[1].type = "SecInfoRequest" /\ 1 \in DOMAIN events
      /\ Head(events) = events[1]
  BY <1>1, TailFacts, QueueFacts DEF IInv
<1>3. encKey' = encKey /\ stored' = stored
  BY <1>1 DEF bonding
<1> DEFINE sd == IF dev.conn
                 THEN sd_ble_gap_sec_info_reply(dev.sd, Head(events).key, encKey)
                 ELSE dev.sd
<1>4. dev' = [dev EXCEPT !.sd = sd]
  BY DEF SecInfoRequest
<1>5. /\ SdShape(sd)
      /\ sd.peerKey = dev.sd.peerKey /\ sd.mode = dev.sd.mode
      /\ sd.pairing = dev.sd.pairing
      /\ \/ sd.security = dev.sd.security
         \/ /\ dev.sd.security = "asked"
            /\ \/ sd.security = "encrypted"
               \/ sd.security = "refused" /\ encKey # events[1].key
  BY <1>2 DEF IInv, Shape, SdShape, sd_ble_gap_sec_info_reply
<1> HIDE DEF sd
<1>6. Shape(dev') /\ dev'.sd = sd
  BY <1>4, <1>5 DEF IInv, Shape
<1>7. dev.sd.security = "asked" => events[1].key = dev.sd.peerKey
  BY <1>2 DEF IInv, EncryptionsApart
<1>8. BondShared' /\ BondHonoured' /\ (~BondStore => stored' = NoKey)
  BY <1>3, <1>5, <1>6, <1>7 DEF IInv, BondShared, BondHonoured
<1>9. LinksApart'
  BY <1>2, <1>5, <1>6 DEF IInv, LinksApart
<1>10. \A i \in DOMAIN events' : events'[i].type \notin {"SecInfoRequest", "AuthStatus"}
  BY <1>2 DEF IInv, EncryptionsApart
<1>11. PairingsApart'
  BY <1>2, <1>3, <1>5, <1>6, <1>10 DEF IInv, PairingsApart
<1>12. EncryptionsApart'
  BY <1>5, <1>6, <1>10 DEF IInv, EncryptionsApart
<1>13. QED
  BY <1>2, <1>3, <1>6, <1>8, <1>9, <1>11, <1>12 DEF IInv

(* What is stored is the key the peer got, since no other pairing, and no  *)
(* request for encryption, comes between the outcome and its handler.      *)
LEMMA AuthStatusStep == IInv /\ AuthStatus => IInv'
<1> SUFFICES ASSUME IInv, AuthStatus PROVE IInv'
  OBVIOUS
<1>1. /\ events # << >> /\ events' = Tail(events) /\ encKey' = encKey
      /\ Head(events).type = "AuthStatus"
  BY DEF AuthStatus, Gets
<1>2. /\ IsQueue(events') /\ Len(events) \in Nat
      /\ DOMAIN events = 1 .. Len(events)
      /\ DOMAIN events' = 1 .. Len(events) - 1 /\ Len(events') = Len(events) - 1
      /\ \A i \in DOMAIN events' : events'[i] = events[i + 1] /\ i + 1 \in DOMAIN events
      /\ events[1].type = "AuthStatus" /\ 1 \in DOMAIN events
      /\ Head(events) = events[1]
  BY <1>1, TailFacts, QueueFacts DEF IInv
<1>3. Keeps(dev, dev)
  BY DriverKeeps, SoftDeviceKeeps DEF IInv, Shape
<1>4. Keeps(dev, dev')
  <2>1. \A d \in AfterHandler("Bonded", dev, notifySubscribed, indicateSubscribed) :
          Keeps(dev, d)
    BY <1>3, HandlerKeeps
  <2>2. QED
    BY <1>3, <2>1 DEF AuthStatus
<1>5. /\ Shape(dev')
      /\ dev'.sd.peerKey = dev.sd.peerKey
      /\ dev'.sd.pairing = dev.sd.pairing
      /\ dev'.sd.security = dev.sd.security
      /\ dev'.sd.mode = "idle" <=> dev.sd.mode = "idle"
      /\ dev'.sd.mode = "advertising" => dev.sd.mode = "advertising"
  BY <1>4 DEF Keeps, SdKeeps
<1>6. \/ stored' = stored
      \/ events[1].success /\ BondStore /\ stored' = encKey
  BY <1>2 DEF AuthStatus
<1>7. /\ events[1].success => encKey = dev.sd.peerKey /\ dev.sd.security # "refused"
      /\ dev.sd.pairing # "yes"
  BY <1>2 DEF IInv, PairingsApart
<1>8. BondShared' /\ BondHonoured' /\ (~BondStore => stored' = NoKey)
  BY <1>1, <1>5, <1>6, <1>7 DEF IInv, BondShared, BondHonoured
<1>9. LinksApart'
  BY <1>2, <1>5 DEF IInv, LinksApart
<1>10. PairingsApart'
  BY <1>1, <1>2, <1>5, <1>7 DEF IInv, PairingsApart
<1>11. EncryptionsApart'
  BY <1>2, <1>5 DEF IInv, EncryptionsApart
<1>12. QED
  BY <1>2, <1>5, <1>8, <1>9, <1>10, <1>11 DEF IInv

LEMMA PollStep == IInv /\ poll => IInv'
<1> SUFFICES ASSUME IInv, poll PROVE IInv'
  OBVIOUS
<1>1. CASE PlainPoll
  <2>1. Keeps(dev, dev')
    BY <1>1, PlainPollKeeps DEF IInv
  <2>2. events # << >> /\ events' = Tail(events) /\ UNCHANGED bonding
    BY <1>1 DEF PlainPoll, TxComplete, Connected, ValueWritten, CccdWritten,
                SysAttrMissing, PrimSrvcDiscRsp, CharDiscRsp, ReadRsp, WriteRsp,
                Hvx, Ignored, Gets
  <2>3. QED
    BY <2>1, <2>2, Popped
<1>2. QED
  BY <1>1, DisconnectedStep, SecParamsRequestStep, SecInfoRequestStep, AuthStatusStep
  DEF poll, PlainPoll

(* A restart empties the queue and reads the key back from the store,      *)
(* which is blank or torn if the power went while it was rewritten.        *)
LEMMA RestartStep == IInv /\ (PowerCycle \/ EndAndBegin) => IInv'
<1> SUFFICES ASSUME IInv, PowerCycle \/ EndAndBegin PROVE IInv'
  OBVIOUS
<1>1. events' = << >> /\ DOMAIN events' = {} /\ IsQueue(events')
  <2>1. events' = << >>
    BY DEF PowerCycle, EndAndBegin, Begins
  <2>2. << >> \in Seq({}) /\ DOMAIN << >> = {}
    OBVIOUS
  <2>3. QED
    BY <2>1, <2>2 DEF IsQueue
<1>2. /\ Shape(dev')
      /\ dev'.sd.peerKey = dev.sd.peerKey /\ dev'.sd.pairing = "no"
      /\ dev'.sd.security = "open" /\ dev'.sd.mode = "advertising"
  BY DEF PowerCycle, EndAndBegin, Begun, Enabled, sd_ble_gap_adv_start, IInv,
         Shape, SdShape
<1>3. /\ stored' \in Keys => stored' = stored
      /\ ~BondStore => stored' = NoKey
  BY ConstantsOK DEF PowerCycle, EndAndBegin, Rewriting, hasData, IInv
<1>4. stored' \in Keys => encKey' = stored'
  BY ConstantsOK, <1>3 DEF PowerCycle, EndAndBegin, FromStore, hasData, IInv
<1>7. BondShared' /\ BondHonoured' /\ (~BondStore => stored' = NoKey)
  BY <1>2, <1>3, <1>4 DEF IInv, BondShared, BondHonoured
<1>5. LinksApart' /\ PairingsApart' /\ EncryptionsApart'
  BY <1>1, <1>2 DEF LinksApart, PairingsApart, EncryptionsApart
<1>6. QED
  BY <1>1, <1>2, <1>7, <1>5 DEF IInv

------------------------------------------------------------------------------
(* The steps of the SoftDevice and the peer.                               *)

(* A new event behind those that wait.                                     *)
LEMMA EmittedFacts ==
  ASSUME NEW e, IInv, events' = Append(events, e)
  PROVE  /\ IsQueue(events') /\ Len(events) \in Nat
         /\ DOMAIN events = 1 .. Len(events)
         /\ DOMAIN events' = 1 .. Len(events) + 1
         /\ Len(events') = Len(events) + 1
         /\ \A i \in 1 .. Len(events) : events'[i] = events[i]
         /\ events'[Len(events) + 1] = e
BY AppendFacts, QueueFacts DEF IInv

(* A link starts when the queue is empty.                                  *)
LEMMA PeerConnectsStep == IInv /\ PeerConnects => IInv'
<1> SUFFICES ASSUME IInv, PeerConnects PROVE IInv'
  OBVIOUS
<1>1. PICK p \in Peers : Emits(Linked(dev.sd, p), [type |-> "Connected"])
  BY DEF PeerConnects
<1> DEFINE sd == Linked(dev.sd, p)
<1>2. /\ events' = Append(events, [type |-> "Connected"])
      /\ dev' = [dev EXCEPT !.sd = sd]
      /\ encKey' = encKey /\ stored' = stored
  BY <1>1 DEF Emits, bonding
<1>3. /\ SdShape(sd)
      /\ sd.peerKey = dev.sd.peerKey /\ sd.mode = "connected"
      /\ sd.pairing = "no" /\ sd.security = "open"
  BY DEF IInv, Shape, SdShape, Linked
<1> HIDE DEF sd
<1>4. Shape(dev') /\ dev'.sd = sd
  BY <1>2, <1>3 DEF IInv, Shape
<1>5. events = << >> /\ Len(events) = 0
  BY DEF IInv, LinksApart, PeerConnects
<1>6. IsQueue(events') /\ DOMAIN events' = 1 .. 1 /\ events'[1].type = "Connected"
  BY <1>2, <1>5, EmittedFacts
<1>7. BondShared' /\ BondHonoured' /\ (~BondStore => stored' = NoKey)
  BY <1>2, <1>3, <1>4 DEF IInv, BondShared, BondHonoured
<1>8. LinksApart' /\ PairingsApart' /\ EncryptionsApart'
  BY <1>3, <1>4, <1>6 DEF LinksApart, PairingsApart, EncryptionsApart
<1>9. QED
  BY <1>4, <1>6, <1>7, <1>8 DEF IInv

(* A link ends; nothing follows.                                           *)
LEMMA LinkEndsStep == IInv /\ LinkEnds => IInv'
<1> SUFFICES ASSUME IInv, LinkEnds PROVE IInv'
  OBVIOUS
<1> DEFINE sd == Unlinked(dev.sd)
           e == [type |-> "Disconnected"]
<1>1. /\ events' = Append(events, e) /\ dev' = [dev EXCEPT !.sd = sd]
      /\ encKey' = encKey /\ stored' = stored
      /\ dev.sd.mode \in {"connected", "closing"}
  BY DEF LinkEnds, Emits, bonding
<1>2. /\ SdShape(sd)
      /\ sd.peerKey = dev.sd.peerKey /\ sd.mode = "idle"
      /\ sd.pairing = "no" /\ sd.security = "open"
  BY DEF IInv, Shape, SdShape, Unlinked
<1> HIDE DEF sd
<1>3. Shape(dev') /\ dev'.sd = sd
  BY <1>1, <1>2 DEF IInv, Shape
<1>4. /\ IsQueue(events') /\ Len(events) \in Nat
      /\ DOMAIN events = 1 .. Len(events)
      /\ DOMAIN events' = 1 .. Len(events) + 1
      /\ Len(events') = Len(events) + 1
      /\ \A i \in 1 .. Len(events) : events'[i] = events[i]
      /\ events'[Len(events) + 1] = e
  BY <1>1, EmittedFacts
<1>5. BondShared' /\ BondHonoured' /\ (~BondStore => stored' = NoKey)
  BY <1>1, <1>2, <1>3 DEF IInv, BondShared, BondHonoured
<1>6. LinksApart'
  BY <1>1, <1>2, <1>3, <1>4 DEF IInv, LinksApart
<1>7. PairingsApart'
  BY <1>1, <1>2, <1>3, <1>4 DEF IInv, PairingsApart
<1>8. EncryptionsApart'
  BY <1>1, <1>2, <1>3, <1>4 DEF IInv, EncryptionsApart
<1>9. QED
  BY <1>3, <1>4, <1>5, <1>6, <1>7, <1>8 DEF IInv

(* A pairing begins only when none is going on and no request for          *)
(* encryption waits.                                                       *)
LEMMA PeerPairsStep == IInv /\ PeerPairs => IInv'
<1> SUFFICES ASSUME IInv, PeerPairs PROVE IInv'
  OBVIOUS
<1> DEFINE sd == [dev.sd EXCEPT !.pairing = "asked"]
           e == [type |-> "SecParamsRequest"]
<1>1. /\ events' = Append(events, e) /\ dev' = [dev EXCEPT !.sd = sd]
      /\ encKey' = encKey /\ stored' = stored
      /\ dev.sd.mode = "connected" /\ dev.sd.pairing = "no"
      /\ dev.sd.security # "asked"
  BY DEF PeerPairs, Up, Emits, bonding
<1>2. /\ SdShape(sd)
      /\ sd.peerKey = dev.sd.peerKey /\ sd.mode = dev.sd.mode
      /\ sd.pairing = "asked" /\ sd.security = dev.sd.security
  BY DEF IInv, Shape, SdShape
<1> HIDE DEF sd
<1>3. Shape(dev') /\ dev'.sd = sd
  BY <1>1, <1>2 DEF IInv, Shape
<1>4. /\ IsQueue(events') /\ Len(events) \in Nat
      /\ DOMAIN events = 1 .. Len(events)
      /\ DOMAIN events' = 1 .. Len(events) + 1
      /\ \A i \in 1 .. Len(events) : events'[i] = events[i]
      /\ events'[Len(events) + 1] = e
  BY <1>1, EmittedFacts
<1>5. \A i \in DOMAIN events : events[i].type # "SecParamsRequest"
  BY <1>1 DEF IInv, PairingsApart
<1>6. BondShared' /\ BondHonoured' /\ (~BondStore => stored' = NoKey)
  BY <1>1, <1>2, <1>3 DEF IInv, BondShared, BondHonoured
<1>7. LinksApart'
  BY <1>1, <1>2, <1>3, <1>4 DEF IInv, LinksApart
<1>8. PairingsApart'
  BY <1>1, <1>2, <1>3, <1>4, <1>5 DEF IInv, PairingsApart
<1>9. EncryptionsApart'
  BY <1>1, <1>2, <1>3, <1>4 DEF IInv, EncryptionsApart
<1>10. QED
  BY <1>3, <1>4, <1>6, <1>7, <1>8, <1>9 DEF IInv

(* When a pairing ends no request, and no other outcome, waits.            *)
LEMMA PairingEndsStep == IInv /\ PairingEnds => IInv'
<1> SUFFICES ASSUME IInv, PairingEnds PROVE IInv'
  OBVIOUS
<1>1. PICK success \in BOOLEAN, k \in Keys \cup {encKey} :
        /\ success => dev.sd.pairing = "yes" /\ k # encKey
        /\ dev.sd.pairing = "refused" => k = encKey
        /\ encKey' = k
        /\ dev' = [dev EXCEPT !.sd.pairing = "no",
                              !.sd.peerKey = IF success THEN k ELSE @,
                              !.sd.security = IF success THEN "encrypted" ELSE @]
        /\ events' = Append(events, [type |-> "AuthStatus", success |-> success])
  BY DEF PairingEnds
<1>2. /\ stored' = stored /\ dev.sd.mode = "connected"
      /\ dev.sd.pairing \in {"yes", "refused"}
  BY DEF PairingEnds, Up
<1> DEFINE e == [type |-> "AuthStatus", success |-> success]
<1>3. /\ Shape(dev') /\ dev'.sd.mode = "connected" /\ dev'.sd.pairing = "no"
      /\ dev'.sd.peerKey = IF success THEN k ELSE dev.sd.peerKey
      /\ dev'.sd.security = IF success THEN "encrypted" ELSE dev.sd.security
  BY <1>1, <1>2 DEF IInv, Shape, SdShape
<1>4. /\ IsQueue(events') /\ Len(events) \in Nat
      /\ DOMAIN events = 1 .. Len(events)
      /\ DOMAIN events' = 1 .. Len(events) + 1
      /\ \A i \in 1 .. Len(events) : events'[i] = events[i]
      /\ events'[Len(events) + 1] = e
  BY <1>1, EmittedFacts
<1>5. /\ stored # NoKey => encKey' = encKey /\ ~success
      /\ stored # NoKey => k = encKey
  BY <1>1, <1>2 DEF IInv, PairingsApart
<1>6. dev.sd.security # "asked"
  BY <1>2 DEF IInv, EncryptionsApart
<1>7. \A i \in DOMAIN events :
        events[i].type \notin {"SecParamsRequest", "AuthStatus", "SecInfoRequest"}
  BY <1>2, <1>6 DEF IInv, PairingsApart, EncryptionsApart
<1>8. BondShared' /\ BondHonoured' /\ (~BondStore => stored' = NoKey)
  BY <1>2, <1>3, <1>5, ConstantsOK DEF IInv, BondShared, BondHonoured
<1>9. LinksApart'
  BY <1>2, <1>3, <1>4 DEF IInv, LinksApart
<1>10. PairingsApart'
  BY <1>1, <1>2, <1>3, <1>4, <1>7 DEF IInv, PairingsApart
<1>11. EncryptionsApart'
  BY <1>2, <1>3, <1>4, <1>6, <1>7 DEF IInv, EncryptionsApart
<1>12. QED
  BY <1>2, <1>3, <1>4, <1>8, <1>9, <1>10, <1>11 DEF IInv

(* The peer asks for encryption with the key it has.                       *)
LEMMA PeerEncryptsStep == IInv /\ PeerEncrypts => IInv'
<1> SUFFICES ASSUME IInv, PeerEncrypts PROVE IInv'
  OBVIOUS
<1> DEFINE sd == [dev.sd EXCEPT !.security = "asked"]
           e == [type |-> "SecInfoRequest", key |-> dev.sd.peerKey]
<1>1. /\ events' = Append(events, e) /\ dev' = [dev EXCEPT !.sd = sd]
      /\ encKey' = encKey /\ stored' = stored
      /\ dev.sd.mode = "connected" /\ dev.sd.pairing = "no"
      /\ dev.sd.security # "asked"
  BY DEF PeerEncrypts, Up, Emits, bonding
<1>2. /\ SdShape(sd)
      /\ sd.peerKey = dev.sd.peerKey /\ sd.mode = dev.sd.mode
      /\ sd.pairing = dev.sd.pairing /\ sd.security = "asked"
  BY DEF IInv, Shape, SdShape
<1> HIDE DEF sd
<1>3. Shape(dev') /\ dev'.sd = sd
  BY <1>1, <1>2 DEF IInv, Shape
<1>4. /\ IsQueue(events') /\ Len(events) \in Nat
      /\ DOMAIN events = 1 .. Len(events)
      /\ DOMAIN events' = 1 .. Len(events) + 1
      /\ \A i \in 1 .. Len(events) : events'[i] = events[i]
      /\ events'[Len(events) + 1] = e
  BY <1>1, EmittedFacts
<1>5. \A i \in DOMAIN events : events[i].type # "SecInfoRequest"
  BY <1>1 DEF IInv, EncryptionsApart
<1>6. BondShared' /\ BondHonoured' /\ (~BondStore => stored' = NoKey)
  BY <1>1, <1>2, <1>3 DEF IInv, BondShared, BondHonoured
<1>7. LinksApart'
  BY <1>1, <1>2, <1>3, <1>4 DEF IInv, LinksApart
<1>8. PairingsApart'
  BY <1>1, <1>2, <1>3, <1>4 DEF IInv, PairingsApart
<1>9. EncryptionsApart'
  BY <1>1, <1>2, <1>3, <1>4, <1>5 DEF IInv, EncryptionsApart
<1>10. QED
  BY <1>3, <1>4, <1>6, <1>7, <1>8, <1>9 DEF IInv

(* The events that have nothing to do with the bond.                       *)
LEMMA PlainEvents ==
  ASSUME IInv, NEW sd, SdKeeps(dev.sd, sd), NEW e, Up, Emits(sd, e),
         e.type \notin {"SecParamsRequest", "AuthStatus", "SecInfoRequest", "Disconnected"}
  PROVE  IInv'
<1>1. dev' = [dev EXCEPT !.sd = sd] /\ events' = Append(events, e) /\ UNCHANGED bonding
  BY DEF Emits
<1>2. Keeps(dev, dev')
  BY <1>1, DriverKeeps DEF IInv
<1>3. QED
  BY <1>1, <1>2, Pushed DEF Up

(* What the answers to a client procedure are.                             *)
LEMMA AnswerTypes ==
  ASSUME NEW sd, NEW answer \in Answers(sd)
  PROVE  answer.type \in {"PrimSrvcDiscRsp", "CharDiscRsp", "ReadRsp", "WriteRsp"}
<1>1. \A type, table, left : \A a \in Found(type, table, left) : a.type = type
  BY DEF Found
<1>2. CASE sd.client.kind = "services"
  BY <1>1, <1>2 DEF Answers
<1>3. CASE sd.client.kind = "chars"
  <2>1. answer \in CharsAnswered(sd, sd.client)
    BY <1>3 DEF Answers
  <2>2. answer.type = "CharDiscRsp"
    BY <1>1, <2>1 DEF CharsAnswered
  <2>3. QED
    BY <2>2
<1>4. CASE sd.client.kind = "read"
  BY <1>4 DEF Answers
<1>5. CASE sd.client.kind = "write"
  BY <1>5 DEF Answers
<1>6. CASE sd.client.kind \notin {"services", "chars", "read", "write"}
  BY <1>6 DEF Answers
<1>7. QED
  BY <1>2, <1>3, <1>4, <1>5, <1>6

LEMMA SoftDeviceStep == IInv /\ SoftDeviceSteps => IInv'
<1> SUFFICES ASSUME IInv, SoftDeviceSteps PROVE IInv'
  OBVIOUS
<1>1. Shape(dev) /\ SdShape(dev.sd) /\ SdKeeps(dev.sd, dev.sd)
  BY SoftDeviceKeeps DEF IInv, Shape
<1>2. CASE PeerMeetsNoAttrs
  <2>1. SdKeeps(dev.sd, [dev.sd EXCEPT !.attrs = "asked"])
    BY <1>1 DEF SdKeeps, SdShape
  <2>2. QED
    BY <1>2, <2>1, PlainEvents DEF PeerMeetsNoAttrs
<1>3. CASE PeerSubscribes
  <2>1. PICK c, bits :
          /\ c \in Cccds
          /\ Emits([dev.sd EXCEPT !.cccd[c] = bits],
                   [type |-> "Write", cccd |-> TRUE, char |-> c, bits |-> bits])
    BY <1>3 DEF PeerSubscribes
  <2>2. SdKeeps(dev.sd, [dev.sd EXCEPT !.cccd[c] = bits])
    BY <1>1 DEF SdKeeps, SdShape
  <2>3. QED
    BY <1>3, <2>1, <2>2, PlainEvents DEF PeerSubscribes
<1>4. CASE PeerWrites
  BY <1>1, <1>4, PlainEvents DEF PeerWrites
<1>5. CASE PacketsSent
  <2>1. PICK n \in 1 .. TxTotal - dev.sd.free :
          Emits([dev.sd EXCEPT !.free = @ + n], [type |-> "TxComplete", count |-> n])
    BY <1>5 DEF PacketsSent
  <2>2. SdKeeps(dev.sd, [dev.sd EXCEPT !.free = @ + n])
    BY <1>1 DEF SdKeeps, SdShape
  <2>3. QED
    BY <1>5, <2>1, <2>2, PlainEvents DEF PacketsSent
<1>6. CASE PeerConfirms
  <2>1. SdKeeps(dev.sd, [dev.sd EXCEPT !.indicating = FALSE])
    BY <1>1 DEF SdKeeps, SdShape
  <2>2. QED
    BY <1>6, <2>1, PlainEvents DEF PeerConfirms
<1>7. CASE PeerNotifies
  <2>1. PICK r \in DOMAIN Remotes, indication \in BOOLEAN :
          Emits([dev.sd EXCEPT !.unconfirmed = @ \/ indication],
                [type |-> "Hvx", handle |-> remote[r].handle, indication |-> indication])
    BY <1>7 DEF PeerNotifies
  <2>2. SdKeeps(dev.sd, [dev.sd EXCEPT !.unconfirmed = @ \/ indication])
    BY <1>1 DEF SdKeeps, SdShape
  <2>3. QED
    BY <1>7, <2>1, <2>2, PlainEvents DEF PeerNotifies
<1>8. CASE PeerAnswers
  <2>1. PICK answer \in Answers(dev.sd) : events' = Append(events, answer)
    BY <1>8 DEF PeerAnswers
  <2>2. SdKeeps(dev.sd, [dev.sd EXCEPT !.client = Nothing])
    BY <1>1 DEF SdKeeps, SdShape
  <2>3. Keeps(dev, [dev EXCEPT !.sd = [dev.sd EXCEPT !.client = Nothing]])
    BY <1>1, <2>2, DriverKeeps
  <2>4. Keeps(dev, dev') /\ UNCHANGED bonding
    BY <1>8, <2>3 DEF PeerAnswers
  <2>5. answer.type \notin {"SecParamsRequest", "AuthStatus", "SecInfoRequest", "Disconnected"}
    BY AnswerTypes
  <2>6. QED
    BY <1>8, <2>1, <2>4, <2>5, Pushed DEF PeerAnswers, Up
<1>9. QED
  BY <1>2, <1>3, <1>4, <1>5, <1>6, <1>7, <1>8, PeerConnectsStep, LinkEndsStep,
     PeerPairsStep, PairingEndsStep, PeerEncryptsStep DEF SoftDeviceSteps

------------------------------------------------------------------------------
LEMMA InitIInv == Init => IInv
<1> SUFFICES ASSUME Init PROVE IInv
  OBVIOUS
<1>1. events = << >> /\ DOMAIN events = {} /\ IsQueue(events)
  <2>1. << >> \in Seq({}) /\ DOMAIN << >> = {}
    OBVIOUS
  <2>2. QED
    BY <2>1 DEF Init, IsQueue
<1>2. /\ Shape(dev) /\ dev.sd.mode = "advertising"
      /\ dev.sd.pairing = "no" /\ dev.sd.security = "open" /\ stored = NoKey
  BY DEF Init, Begun, Enabled, sd_ble_gap_adv_start, Shape, SdShape
<1>3. QED
  BY <1>1, <1>2, ConstantsOK DEF IInv, BondShared, BondHonoured, LinksApart, PairingsApart,
                    EncryptionsApart

LEMMA StepIInv == IInv /\ [Next]_vars => IInv'
<1> SUFFICES ASSUME IInv, [Next]_vars PROVE IInv'
  OBVIOUS
<1>1. CASE Next
  BY <1>1, CallStep, PollStep, RestartStep, SoftDeviceStep DEF Next
<1>2. CASE UNCHANGED vars
  BY <1>2 DEF vars, bonding, IInv, BondShared, BondHonoured, LinksApart,
              PairingsApart, EncryptionsApart
<1>3. QED
  BY <1>1, <1>2

LEMMA AlwaysIInv == Spec => []IInv
BY InitIInv, StepIInv, PTL DEF Spec

(* For every sketch, every peer and every length of the queue: a whole key *)
(* in the bond store, the key in RAM and the key of the peer are one, also *)
(* after pairings that failed, links lost in the middle of one, cleared    *)
(* stores, end() followed by begin(), and power losses, of which those in  *)
(* the middle of an erasing or a writing leave no whole key.               *)
THEOREM BondSharedAlways == Spec => []BondShared
<1>1. IInv => BondShared
  BY DEF IInv
<1>2. QED
  BY <1>1, AlwaysIInv, PTL

(* And while there is a whole key in the store the peer that asks for      *)
(* encryption with it is never refused.                                    *)
THEOREM BondHonouredAlways == Spec => []BondHonoured
<1>1. IInv => BondHonoured
  BY DEF IInv
<1>2. QED
  BY <1>1, AlwaysIInv, PTL

------------------------------------------------------------------------------
(* The driver keeps in step with the SoftDevice: the counterpart of        *)
(* InStepAlways of Nrf8001Proofs.                                          *)
Linking(sd) == sd.mode \in {"connected", "closing"}
Open(sd, c) == Linking(sd) /\ sd.cccd[c] # {}

(* What no call changes.                                                   *)
SameLink(d, e) == e.conn = d.conn /\ e.sd.cccd = d.sd.cccd

LinkEvent(e) == e.type \in {"Connected", "Disconnected"}
About(e, c) == \/ e.type = "Disconnected"
               \/ e.type = "Write" /\ e.cccd /\ e.char = c
Subscribing(e) == e.type = "Write" /\ e.bits # {}

(* What the driver will believe once it has seen the events that wait: the *)
(* last event about the link says whether there is one, and the last about *)
(* a CCCD whether it is set.                                               *)
LinkSeen ==
  /\ (\A i \in DOMAIN events : ~LinkEvent(events[i])) => (central <=> Linking(dev.sd))
  /\ \A i \in DOMAIN events :
       /\ LinkEvent(events[i])
       /\ \A j \in DOMAIN events : j > i => ~LinkEvent(events[j])
       => (events[i].type = "Connected" <=> Linking(dev.sd))

CccdsSeen ==
  \A c \in Cccds :
    /\ (\A i \in DOMAIN events : ~About(events[i], c))
         => (c \in subscribed <=> Open(dev.sd, c))
    /\ \A i \in DOMAIN events :
         /\ About(events[i], c)
         /\ \A j \in DOMAIN events : j > i => ~About(events[j], c)
         => (Subscribing(events[i]) <=> Open(dev.sd, c))

LinkInv ==
  /\ Shape(dev) /\ IsQueue(events)
  /\ DOMAIN dev.sd.cccd = Cccds
  /\ dev.conn \in BOOLEAN /\ central \in BOOLEAN /\ (central <=> dev.conn)
  /\ LinkSeen /\ CccdsSeen

------------------------------------------------------------------------------
(* The calls.                                                              *)
LEMMA SoftDeviceSame ==
  ASSUME NEW sd, SdShape(sd), NEW x, NEW y
  PROVE  /\ sd_ble_gap_disconnect(sd).cccd = sd.cccd
         /\ sd_ble_gatts_hvx(sd, x, y).cccd = sd.cccd
         /\ Starts(sd, x).cccd = sd.cccd
         /\ sd_ble_gattc_write_cmd(sd).cccd = sd.cccd
         /\ sd_ble_gatts_sys_attr_set(sd).cccd = sd.cccd
         /\ sd_ble_gap_adv_start(sd).cccd = sd.cccd
         /\ sd_ble_gap_sec_params_reply(sd, x).cccd = sd.cccd
         /\ sd_ble_gap_sec_info_reply(sd, x, y).cccd = sd.cccd
BY DEF SdShape, sd_ble_gap_disconnect, sd_ble_gatts_hvx, Starts,
       sd_ble_gattc_write_cmd, sd_ble_gatts_sys_attr_set, sd_ble_gap_adv_start,
       sd_ble_gap_sec_params_reply, sd_ble_gap_sec_info_reply

LEMMA UpdateSame ==
  ASSUME NEW d, Shape(d), NEW notifying, NEW indicating, NEW c
  PROVE  /\ SameLink(d, broadcastCharacteristic(d, c))
         /\ SameLink(d, updateCharacteristicValue(d, notifying, indicating, c))
<1>1. SameLink(d, d) /\ SameLink(d, broadcastCharacteristic(d, c))
  BY DEF SameLink, broadcastCharacteristic, Shape, SdShape
<1>2. ASSUME NEW e, Shape(e), NEW flags, NEW type
      PROVE  SameLink(e, Sent(e, flags, type, c))
  <2> DEFINE sd == IF e.conn THEN sd_ble_gatts_hvx(e.sd, type, c) ELSE e.sd
  <2>1. sd.cccd = e.sd.cccd
    BY <1>2, SoftDeviceSame DEF Shape
  <2> HIDE DEF sd
  <2>2. SameLink(e, [e EXCEPT !.tx = e.tx - 1, !.sd = sd]) /\ SameLink(e, e)
    BY <1>2, <2>1 DEF SameLink, Shape
  <2>3. [e EXCEPT !.tx = @ - 1,
                  !.sd = IF e.conn THEN sd_ble_gatts_hvx(@, type, c) ELSE @]
          = [e EXCEPT !.tx = e.tx - 1, !.sd = sd]
    BY DEF sd
  <2>4. QED
    BY <2>2, <2>3 DEF Sent
<1> DEFINE advertised == IF d.broadcast = c THEN broadcastCharacteristic(d, c) ELSE d
           notified == Sent(advertised, notifying, "notify", c)
<1>3. SameLink(d, advertised) /\ Shape(advertised)
  BY <1>1, UpdateKeeps DEF Keeps
<1>4. SameLink(advertised, notified) /\ Shape(notified)
  BY <1>2, <1>3, SentKeeps DEF Keeps
<1>5. SameLink(notified, Sent(notified, indicating, "indicate", c))
  BY <1>2, <1>4
<1>6. QED
  BY <1>1, <1>3, <1>4, <1>5 DEF SameLink, updateCharacteristicValue

LEMMA RemoteCallsSame ==
  ASSUME NEW d, Shape(d), NEW r
  PROVE  /\ SameLink(d, readRemoteCharacteristic(d, r))
         /\ SameLink(d, writeRemoteCharacteristic(d, r))
         /\ SameLink(d, subscribeRemoteCharacteristic(d, r))
         /\ SameLink(d, unsubscribeRemoteCharacteristic(d, r))
<1>1. ASSUME NEW e, Shape(e), NEW q PROVE SameLink(e, Requested(e, q))
  <2> DEFINE sd == IF e.conn THEN Starts(e.sd, q) ELSE e.sd
  <2>1. sd.cccd = e.sd.cccd
    BY <1>1, SoftDeviceSame DEF Shape
  <2>2. Requested(e, q) = [e EXCEPT !.requested = TRUE, !.sd = sd]
    BY DEF Requested
  <2> HIDE DEF sd
  <2>3. QED
    BY <1>1, <2>1, <2>2 DEF SameLink, Shape
<1>2. SameLink(d, d)
  BY DEF SameLink
<1>3. SameLink(d, writeRemoteCharacteristic(d, r))
  <2> DEFINE counted == [d EXCEPT !.tx = @ - 1]
             q == [kind |-> "write", handle |-> remote[r].handle]
             sd == IF d.conn THEN sd_ble_gattc_write_cmd(d.sd) ELSE d.sd
  <2>1. SameLink(d, counted) /\ Shape(counted)
    BY DEF SameLink, Shape
  <2>2. SameLink(d, Requested(counted, q))
    BY <1>1, <2>1 DEF SameLink
  <2>3. sd.cccd = d.sd.cccd
    BY SoftDeviceSame DEF Shape
  <2>4. [d EXCEPT !.requested = TRUE, !.tx = @ - 1,
                  !.sd = IF d.conn THEN sd_ble_gattc_write_cmd(@) ELSE @]
          = [d EXCEPT !.requested = TRUE, !.tx = d.tx - 1, !.sd = sd]
    OBVIOUS
  <2> HIDE DEF sd
  <2>5. SameLink(d, [d EXCEPT !.requested = TRUE, !.tx = d.tx - 1, !.sd = sd])
    BY <2>3 DEF SameLink, Shape
  <2>6. QED
    BY <1>2, <2>2, <2>4, <2>5 DEF writeRemoteCharacteristic
<1>4. QED
  BY <1>1, <1>2, <1>3 DEF readRemoteCharacteristic, subscribeRemoteCharacteristic,
                          unsubscribeRemoteCharacteristic

LEMMA CalledSame ==
  ASSUME NEW d, Shape(d), NEW notifying, NEW indicating
  PROVE  /\ \A a : SameLink(d, Called(d, notifying, indicating, a))
         /\ \A h : \A e \in AfterHandler(h, d, notifying, indicating) : SameLink(d, e)
<1>1. SameLink(d, d) /\ SameLink(d, disconnect(d))
  BY SoftDeviceSame DEF SameLink, disconnect, Shape
<1>2. ASSUME NEW a PROVE SameLink(d, Called(d, notifying, indicating, a))
  <2>1. /\ SameLink(d, updateCharacteristicValue(d, notifying, indicating, a[2]))
        /\ SameLink(d, broadcastCharacteristic(d, a[2]))
    BY UpdateSame
  <2>2. /\ SameLink(d, readRemoteCharacteristic(d, a[2]))
        /\ SameLink(d, writeRemoteCharacteristic(d, a[2]))
        /\ SameLink(d, subscribeRemoteCharacteristic(d, a[2]))
        /\ SameLink(d, unsubscribeRemoteCharacteristic(d, a[2]))
    BY RemoteCallsSame
  <2>3. QED
    BY <1>1, <2>1, <2>2 DEF Called
<1>3. QED
  BY <1>1, <1>2 DEF AfterHandler
------------------------------------------------------------------------------
(* poll() takes an event, and the driver does what it says.                *)
LEMMA Polled ==
  ASSUME LinkInv, events # << >>, events' = Tail(events), Shape(dev'),
         dev'.sd.cccd = dev.sd.cccd, Linking(dev'.sd) <=> Linking(dev.sd),
         dev'.conn \in BOOLEAN, central' \in BOOLEAN, central' <=> dev'.conn,
         LinkEvent(Head(events)) => (central' <=> Head(events).type = "Connected"),
         ~LinkEvent(Head(events)) => (central' <=> central),
         \A c \in Cccds : About(Head(events), c) =>
           (c \in subscribed' <=> Subscribing(Head(events))),
         \A c \in Cccds : ~About(Head(events), c) =>
           (c \in subscribed' <=> c \in subscribed)
  PROVE  LinkInv'
<1>1. /\ IsQueue(events') /\ Len(events) \in Nat
      /\ DOMAIN events = 1 .. Len(events)
      /\ DOMAIN events' = 1 .. Len(events) - 1
      /\ Head(events) = events[1] /\ 1 \in DOMAIN events
  BY TailFacts, QueueFacts DEF LinkInv
<1>2. \A i \in DOMAIN events' : i + 1 \in DOMAIN events /\ events'[i] = events[i + 1]
  BY <1>1, TailFacts DEF LinkInv
<1>3. \A j \in DOMAIN events : j > 1 => j - 1 \in DOMAIN events' /\ events'[j - 1] = events[j]
  BY <1>1, <1>2
<1>4. \A c \in Cccds : Open(dev'.sd, c) <=> Open(dev.sd, c)
  BY DEF Open
<1>5. (\A i \in DOMAIN events' : ~LinkEvent(events'[i]))
        => (central' <=> Linking(dev'.sd))
  <2> SUFFICES ASSUME \A i \in DOMAIN events' : ~LinkEvent(events'[i])
               PROVE  central' <=> Linking(dev'.sd)
    OBVIOUS
  <2>1. \A j \in DOMAIN events : j > 1 => ~LinkEvent(events[j])
    BY <1>3
  <2>2. CASE LinkEvent(events[1])
    <3>1. events[1].type = "Connected" <=> Linking(dev.sd)
      BY <1>1, <2>1, <2>2 DEF LinkInv, LinkSeen
    <3>2. QED
      BY <1>1, <2>2, <3>1
  <2>3. CASE ~LinkEvent(events[1])
    <3>1. \A j \in DOMAIN events : ~LinkEvent(events[j])
      BY <1>1, <2>1, <2>3
    <3>2. central <=> Linking(dev.sd)
      BY <3>1 DEF LinkInv, LinkSeen
    <3>3. QED
      BY <1>1, <2>3, <3>2
  <2>4. QED
    BY <2>2, <2>3
<1>6. ASSUME NEW i \in DOMAIN events', LinkEvent(events'[i]),
             \A j \in DOMAIN events' : j > i => ~LinkEvent(events'[j])
      PROVE  events'[i].type = "Connected" <=> Linking(dev'.sd)
  <2>1. i + 1 \in DOMAIN events /\ events'[i] = events[i + 1] /\ i >= 1
    BY <1>1, <1>2, <1>6
  <2>2. ASSUME NEW j \in DOMAIN events, j > i + 1 PROVE ~LinkEvent(events[j])
    <3>1. j \in Int /\ i \in Int /\ i >= 1
      BY <1>1, <2>1
    <3>2. j > 1 /\ j - 1 > i
      BY <2>2, <3>1
    <3>3. j - 1 \in DOMAIN events' /\ events'[j - 1] = events[j]
      BY <1>3, <3>2
    <3>4. QED
      BY <1>6, <3>2, <3>3
  <2>3. QED
    BY <1>6, <2>1, <2>2 DEF LinkInv, LinkSeen
<1>7. ASSUME NEW c \in Cccds, \A i \in DOMAIN events' : ~About(events'[i], c)
      PROVE  c \in subscribed' <=> Open(dev'.sd, c)
  <2>1. \A j \in DOMAIN events : j > 1 => ~About(events[j], c)
    BY <1>3, <1>7
  <2>2. CASE About(events[1], c)
    <3>1. Subscribing(events[1]) <=> Open(dev.sd, c)
      BY <1>1, <1>7, <2>1, <2>2 DEF LinkInv, CccdsSeen
    <3>2. QED
      BY <1>1, <1>4, <1>7, <2>2, <3>1
  <2>3. CASE ~About(events[1], c)
    <3>1. \A j \in DOMAIN events : ~About(events[j], c)
      BY <1>1, <2>1, <2>3
    <3>2. c \in subscribed <=> Open(dev.sd, c)
      BY <1>7, <3>1 DEF LinkInv, CccdsSeen
    <3>3. QED
      BY <1>1, <1>4, <1>7, <2>3, <3>2
  <2>4. QED
    BY <2>2, <2>3
<1>8. ASSUME NEW c \in Cccds, NEW i \in DOMAIN events', About(events'[i], c),
             \A j \in DOMAIN events' : j > i => ~About(events'[j], c)
      PROVE  Subscribing(events'[i]) <=> Open(dev'.sd, c)
  <2>1. i + 1 \in DOMAIN events /\ events'[i] = events[i + 1] /\ i >= 1
    BY <1>1, <1>2, <1>8
  <2>2. ASSUME NEW j \in DOMAIN events, j > i + 1 PROVE ~About(events[j], c)
    <3>1. j \in Int /\ i \in Int /\ i >= 1
      BY <1>1, <2>1
    <3>2. j > 1 /\ j - 1 > i
      BY <2>2, <3>1
    <3>3. j - 1 \in DOMAIN events' /\ events'[j - 1] = events[j]
      BY <1>3, <3>2
    <3>4. QED
      BY <1>8, <3>2, <3>3
  <2>3. QED
    BY <1>4, <1>8, <2>1, <2>2 DEF LinkInv, CccdsSeen
<1>9. LinkSeen' /\ CccdsSeen'
  BY <1>5, <1>6, <1>7, <1>8 DEF LinkSeen, CccdsSeen
<1>10. DOMAIN dev'.sd.cccd = Cccds
  BY DEF LinkInv
<1>11. QED
  BY <1>1, <1>9, <1>10 DEF LinkInv

(* The SoftDevice emits an event, which says what became of the link and   *)
(* of the CCCDs if either changed.                                         *)
LEMMA Emitted ==
  ASSUME LinkInv, NEW e, events' = Append(events, e), Shape(dev'),
         dev'.conn = dev.conn, UNCHANGED <<central, subscribed>>,
         DOMAIN dev'.sd.cccd = Cccds,
         LinkEvent(e) => (e.type = "Connected" <=> Linking(dev'.sd)),
         ~LinkEvent(e) => (Linking(dev'.sd) <=> Linking(dev.sd)),
         \A c \in Cccds : About(e, c) => (Subscribing(e) <=> Open(dev'.sd, c)),
         \A c \in Cccds : ~About(e, c) => (Open(dev'.sd, c) <=> Open(dev.sd, c))
  PROVE  LinkInv'
<1>1. /\ IsQueue(events') /\ Len(events) \in Nat
      /\ DOMAIN events = 1 .. Len(events)
      /\ DOMAIN events' = 1 .. Len(events) + 1
      /\ \A i \in 1 .. Len(events) : events'[i] = events[i]
      /\ events'[Len(events) + 1] = e
  BY AppendFacts, QueueFacts DEF LinkInv
<1>2. \A i \in DOMAIN events : i \in DOMAIN events' /\ events'[i] = events[i]
  BY <1>1
<1>3. LinkSeen'
  <2>1. CASE LinkEvent(e)
    BY <1>1, <2>1 DEF LinkSeen
  <2>2. CASE ~LinkEvent(e)
    <3>1. \A i \in DOMAIN events' : LinkEvent(events'[i]) =>
            i \in DOMAIN events /\ events'[i] = events[i]
      BY <1>1, <2>2
    <3>2. QED
      BY <1>2, <2>2, <3>1 DEF LinkInv, LinkSeen
  <2>3. QED
    BY <2>1, <2>2
<1>4. CccdsSeen'
  <2> SUFFICES ASSUME NEW c \in Cccds
      PROVE  /\ (\A i \in DOMAIN events' : ~About(events'[i], c))
                  => (c \in subscribed' <=> Open(dev'.sd, c))
             /\ \A i \in DOMAIN events' :
                  /\ About(events'[i], c)
                  /\ \A j \in DOMAIN events' : j > i => ~About(events'[j], c)
                  => (Subscribing(events'[i]) <=> Open(dev'.sd, c))
    BY DEF CccdsSeen
  <2>1. CASE About(e, c)
    BY <1>1, <2>1
  <2>2. CASE ~About(e, c)
    <3>1. \A i \in DOMAIN events' : About(events'[i], c) =>
            i \in DOMAIN events /\ events'[i] = events[i]
      BY <1>1, <2>2
    <3>2. QED
      BY <1>2, <2>2, <3>1 DEF LinkInv, CccdsSeen
  <2>3. QED
    BY <2>1, <2>2
<1>5. QED
  BY <1>1, <1>3, <1>4 DEF LinkInv

(* The link is the same after a call, and after what else changes only     *)
(* other fields.                                                           *)
LEMMA KeepsLinking ==
  ASSUME NEW d, NEW e, Keeps(d, e)
  PROVE  Linking(e.sd) <=> Linking(d.sd)
BY DEF Keeps, SdKeeps, Linking

LEMMA SetSame ==
  ASSUME NEW d, Shape(d), NEW sd, sd.cccd = d.sd.cccd, NEW x
  PROVE  /\ SameLink(d, d)
         /\ SameLink(d, [d EXCEPT !.sd = sd])
         /\ SameLink(d, [d EXCEPT !.tx = x])
         /\ SameLink(d, [d EXCEPT !.requested = x])
BY DEF SameLink, Shape

LEMMA HandlerSame ==
  ASSUME NEW d, NEW e, Shape(e), SameLink(d, e), NEW h, NEW notifying, NEW indicating,
         NEW f \in AfterHandler(h, e, notifying, indicating)
  PROVE  SameLink(d, f)
<1>1. SameLink(e, f)
  BY CalledSame
<1>2. QED
  BY <1>1 DEF SameLink

(* The events that are about neither the link nor a CCCD.                  *)
OtherPoll ==
  \/ TxComplete \/ ValueWritten \/ SysAttrMissing \/ PrimSrvcDiscRsp
  \/ CharDiscRsp \/ ReadRsp \/ WriteRsp \/ Hvx \/ Ignored

LEMMA OtherPollSame ==
  ASSUME Shape(dev), OtherPoll
  PROVE  SameLink(dev, dev')
<1>1. SdShape(dev.sd) /\ SameLink(dev, dev)
  BY DEF Shape, SameLink
<1>2. ASSUME NEW sd, sd.cccd = dev.sd.cccd
      PROVE  SameLink(dev, [dev EXCEPT !.sd = IF dev.conn THEN sd ELSE @])
  <2> DEFINE t == IF dev.conn THEN sd ELSE dev.sd
  <2>1. t.cccd = dev.sd.cccd
    BY <1>2
  <2> HIDE DEF t
  <2>2. SameLink(dev, [dev EXCEPT !.sd = t])
    BY <2>1, SetSame
  <2>3. QED
    BY <2>2 DEF t
<1>3. ASSUME NEW x
      PROVE  /\ sd_ble_gattc_primary_services_discover(dev.sd, x).cccd = dev.sd.cccd
             /\ sd_ble_gattc_characteristics_discover(dev.sd, x).cccd = dev.sd.cccd
  <2>1. \A r : Starts(dev.sd, r).cccd = dev.sd.cccd
    BY <1>1, SoftDeviceSame
  <2>2. QED
    BY <2>1 DEF sd_ble_gattc_primary_services_discover, sd_ble_gattc_characteristics_discover
<1>4. CASE TxComplete
  <2> DEFINE n == (dev.tx + Head(events).count) % 256
  <2>1. dev' = [dev EXCEPT !.tx = n]
    BY <1>4 DEF TxComplete
  <2> HIDE DEF n
  <2>2. QED
    BY <2>1, SetSame
<1>5. CASE ValueWritten
  <2> DEFINE set == updateCharacteristicValue(dev, notifySubscribed,
                                              indicateSubscribed, Head(events).char)
  <2>1. SameLink(dev, set) /\ Shape(set)
    BY UpdateSame, UpdateKeeps DEF Keeps
  <2>2. QED
    BY <1>5, <2>1, HandlerSame DEF ValueWritten
<1>6. CASE SysAttrMissing
  <2>1. sd_ble_gatts_sys_attr_set(dev.sd).cccd = dev.sd.cccd
    BY <1>1, SoftDeviceSame
  <2>2. QED
    BY <1>2, <1>6, <2>1 DEF SysAttrMissing
<1>7. CASE PrimSrvcDiscRsp
  <2> DEFINE start == (Last(Head(events).found).end + 1) % 65536
  <2>1. /\ \A x : SameLink(dev, [dev EXCEPT !.sd = IF dev.conn
               THEN sd_ble_gattc_primary_services_discover(@, x) ELSE @])
        /\ \A x : SameLink(dev, [dev EXCEPT !.sd = IF dev.conn
               THEN sd_ble_gattc_characteristics_discover(@, x) ELSE @])
    BY <1>2, <1>3
  <2>2. \/ dev' = dev
        \/ \E x : dev' = [dev EXCEPT !.sd = IF dev.conn
               THEN sd_ble_gattc_primary_services_discover(@, x) ELSE @]
        \/ \E x : dev' = [dev EXCEPT !.sd = IF dev.conn
               THEN sd_ble_gattc_characteristics_discover(@, x) ELSE @]
    <3>1. CASE Head(events).ok
      <4>1. dev' = [dev EXCEPT !.sd = IF dev.conn
               THEN sd_ble_gattc_primary_services_discover(@, start) ELSE @]
        BY <1>7, <3>1 DEF PrimSrvcDiscRsp
      <4> HIDE DEF start
      <4>2. QED
        BY <4>1
    <3>2. CASE ~Head(events).ok
      BY <1>7, <3>2 DEF PrimSrvcDiscRsp
    <3>3. QED
      BY <3>1, <3>2
  <2>3. QED
    BY <1>1, <2>1, <2>2
<1>8. CASE CharDiscRsp
  <2>1. \A x : SameLink(dev, [dev EXCEPT !.sd = IF dev.conn
               THEN sd_ble_gattc_characteristics_discover(@, x) ELSE @])
    BY <1>2, <1>3
  <2>2. \A d \in AfterHandler("Discovered", dev, notifySubscribed, indicateSubscribed) :
          SameLink(dev, d)
    BY <1>1, HandlerSame
  <2>3. QED
    BY <1>8, <2>1, <2>2 DEF CharDiscRsp
<1>9. CASE ReadRsp
  <2> DEFINE answered == [dev EXCEPT !.requested = FALSE]
  <2>1. SameLink(dev, answered) /\ Shape(answered)
    BY DEF SameLink, Shape
  <2>2. \A d \in AfterHandler("Updated", answered, notifySubscribed, indicateSubscribed) :
          SameLink(dev, d)
    BY <2>1, HandlerSame
  <2>3. QED
    BY <1>9, <2>1, <2>2 DEF ReadRsp
<1>10. CASE WriteRsp
  BY <1>10 DEF WriteRsp, SameLink, Shape
<1>11. CASE Hvx
  <2> DEFINE confirmed == IF Head(events).indication /\ dev.conn
                          THEN [dev EXCEPT !.sd.unconfirmed = FALSE] ELSE dev
  <2>1. SameLink(dev, confirmed) /\ Shape(confirmed)
    BY <1>1 DEF SameLink, Shape, SdShape
  <2>2. \A d \in AfterHandler("Updated", confirmed, notifySubscribed, indicateSubscribed) :
          SameLink(dev, d)
    BY <2>1, HandlerSame
  <2>3. QED
    BY <1>11, <2>1, <2>2 DEF Hvx
<1>12. CASE Ignored
  BY <1>1, <1>12 DEF Ignored
<1>13. QED
  BY <1>4, <1>5, <1>6, <1>7, <1>8, <1>9, <1>10, <1>11, <1>12 DEF OtherPoll

(* Any event that is about neither.                                        *)
LEMMA OtherPolled ==
  ASSUME LinkInv, NEW type, type \notin {"Connected", "Disconnected"}, Gets(type),
         Head(events).type = "Write" => ~Head(events).cccd,
         Shape(dev'), Linking(dev'.sd) <=> Linking(dev.sd), SameLink(dev, dev'),
         UNCHANGED <<central, subscribed>>
  PROVE  LinkInv'
<1>1. /\ events # << >> /\ events' = Tail(events)
      /\ dev'.sd.cccd = dev.sd.cccd /\ dev'.conn = dev.conn
      /\ central' = central /\ subscribed' = subscribed
  BY DEF Gets, SameLink
<1>2. ~LinkEvent(Head(events)) /\ \A c \in Cccds : ~About(Head(events), c)
  BY DEF Gets, LinkEvent, About
<1>3. dev'.conn \in BOOLEAN /\ central' \in BOOLEAN /\ (central' <=> dev'.conn)
  BY <1>1 DEF LinkInv
<1>4. QED
  BY <1>1, <1>2, <1>3, Polled

LEMMA PollInStep == LinkInv /\ poll => LinkInv'
<1> SUFFICES ASSUME LinkInv, poll PROVE LinkInv'
  OBVIOUS
<1>1. /\ Shape(dev) /\ SdShape(dev.sd) /\ DOMAIN dev.sd.cccd = Cccds
      /\ dev.conn \in BOOLEAN /\ central \in BOOLEAN /\ (central <=> dev.conn)
  BY DEF LinkInv, Shape
<1>2. CASE OtherPoll
  <2>1. Keeps(dev, dev') /\ SameLink(dev, dev')
    BY <1>1, <1>2, PlainPollKeeps, OtherPollSame DEF OtherPoll, PlainPoll
  <2>2. Shape(dev') /\ (Linking(dev'.sd) <=> Linking(dev.sd))
    BY <2>1, KeepsLinking DEF Keeps
  <2>3. PICK type : /\ type \notin {"Connected", "Disconnected"} /\ Gets(type)
                    /\ Head(events).type = "Write" => ~Head(events).cccd
                    /\ UNCHANGED <<central, subscribed>>
    BY <1>2 DEF OtherPoll, TxComplete, ValueWritten, SysAttrMissing, PrimSrvcDiscRsp,
                CharDiscRsp, ReadRsp, WriteRsp, Hvx, Ignored, Gets
  <2>4. QED
    BY <2>1, <2>2, <2>3, OtherPolled
<1>3. CASE Connected
  <2> DEFINE linked == [dev EXCEPT !.conn = TRUE, !.tx = dev.sd.free]
  <2>1. Shape(linked) /\ linked.conn = TRUE /\ linked.sd = dev.sd
    BY <1>1 DEF Shape
  <2>2. PICK d \in AfterHandler("Connected", linked, notifySubscribed, indicateSubscribed) :
          dev' = IF Services = << >> THEN d
                 ELSE [d EXCEPT !.sd = sd_ble_gattc_primary_services_discover(@, 1)]
    BY <1>3 DEF Connected
  <2> HIDE DEF linked
  <2>3. SameLink(linked, d) /\ Keeps(linked, d)
    BY <2>1, CalledSame, CalledKeeps
  <2> DEFINE sd == sd_ble_gattc_primary_services_discover(d.sd, 1)
  <2>4. Shape(d) /\ SdShape(d.sd)
    BY <2>3 DEF Keeps, Shape
  <2>5. sd.cccd = d.sd.cccd
    BY <2>4, SoftDeviceSame DEF sd_ble_gattc_primary_services_discover
  <2>6. dev' = d \/ dev' = [d EXCEPT !.sd = sd]
    BY <2>2
  <2> HIDE DEF sd
  <2>7. SameLink(d, dev')
    <3>1. SameLink(d, d) /\ SameLink(d, [d EXCEPT !.sd = sd])
      BY <2>4, <2>5, SetSame
    <3>2. QED
      BY <2>6, <3>1
  <2>8. Keeps(dev, dev')
    BY <1>1, <1>3, PlainPollKeeps DEF PlainPoll
  <2>9. dev'.conn = TRUE /\ dev'.sd.cccd = dev.sd.cccd
    BY <2>1, <2>3, <2>7 DEF SameLink
  <2>10. Shape(dev') /\ (Linking(dev'.sd) <=> Linking(dev.sd))
    BY <2>8, KeepsLinking DEF Keeps
  <2>11. /\ events # << >> /\ events' = Tail(events) /\ Head(events).type = "Connected"
         /\ central' = TRUE /\ subscribed' = subscribed
    BY <1>3 DEF Connected, Gets
  <2>12. LinkEvent(Head(events)) /\ \A c \in Cccds : ~About(Head(events), c)
    BY <2>11 DEF LinkEvent, About
  <2>13. QED
    BY <2>9, <2>10, <2>11, <2>12, Polled
<1>4. CASE Disconnected
  <2> DEFINE unlinked == [dev EXCEPT !.conn = FALSE, !.tx = 0]
  <2>1. Shape(unlinked) /\ unlinked.conn = FALSE /\ unlinked.sd = dev.sd
    BY <1>1 DEF Shape
  <2>2. PICK d \in AfterUnlink(unlinked) :
          dev' = startAdvertising([d EXCEPT !.requested = FALSE])
    BY <1>4 DEF Disconnected
  <2> HIDE DEF unlinked
  <2>3. SameLink(unlinked, d) /\ Keeps(unlinked, d)
    <3>1. \E n, i : d \in AfterHandler("Disconnected", unlinked, n, i)
      BY <2>2 DEF AfterUnlink
    <3>2. QED
      BY <2>1, <3>1, CalledSame, CalledKeeps
  <2> DEFINE sd == sd_ble_gap_adv_start(d.sd)
  <2>4. Shape(d) /\ SdShape(d.sd)
    BY <2>3 DEF Keeps, Shape
  <2>5. SdShape(sd) /\ sd.cccd = d.sd.cccd /\ (Linking(sd) <=> Linking(d.sd))
    BY <2>4 DEF sd_ble_gap_adv_start, SdShape, Linking
  <2>6. dev' = [d EXCEPT !.requested = FALSE, !.sd = sd]
    BY <2>2, <2>4 DEF startAdvertising, Shape
  <2> HIDE DEF sd
  <2>7. Shape(dev') /\ dev'.conn = d.conn /\ dev'.sd = sd
    BY <2>4, <2>5, <2>6 DEF Shape
  <2>8. /\ dev'.conn = FALSE /\ dev'.sd.cccd = dev.sd.cccd
        /\ Linking(dev'.sd) <=> Linking(dev.sd)
    BY <2>1, <2>3, <2>5, <2>7, KeepsLinking DEF SameLink
  <2>9. /\ events # << >> /\ events' = Tail(events) /\ Head(events).type = "Disconnected"
        /\ central' = FALSE /\ subscribed' = {}
    BY <1>4 DEF Disconnected, Gets
  <2>10. /\ LinkEvent(Head(events)) /\ ~Subscribing(Head(events))
         /\ \A c \in Cccds : About(Head(events), c)
    BY <2>9 DEF LinkEvent, About, Subscribing
  <2>11. QED
    BY <2>7, <2>8, <2>9, <2>10, Polled
<1>5. CASE CccdWritten
  <2>1. SameLink(dev, dev) /\ Keeps(dev, dev')
    BY <1>1, <1>5, PlainPollKeeps DEF PlainPoll, SameLink
  <2>2. \A d \in AfterHandler("Subscribed", dev, notifySubscribed', indicateSubscribed') :
          SameLink(dev, d)
    BY <1>1, <2>1, HandlerSame
  <2>3. SameLink(dev, dev')
    BY <1>5, <2>1, <2>2 DEF CccdWritten
  <2>4. Shape(dev') /\ (Linking(dev'.sd) <=> Linking(dev.sd))
    BY <2>1, KeepsLinking DEF Keeps
  <2>5. /\ events # << >> /\ events' = Tail(events) /\ central' = central
        /\ Head(events).type = "Write" /\ Head(events).cccd
        /\ subscribed' = IF Subscribes(Head(events).bits)
                         THEN subscribed \cup {Head(events).char}
                         ELSE subscribed \ {Head(events).char}
    BY <1>5 DEF CccdWritten, Gets
  <2>6. ~LinkEvent(Head(events))
    BY <2>5 DEF LinkEvent
  <2>7. \A c : About(Head(events), c) <=> Head(events).char = c
    BY <2>5 DEF About
  <2>8. Subscribes(Head(events).bits) <=> Subscribing(Head(events))
    BY <2>5 DEF Subscribes, Subscribing
  <2>9. \A c \in Cccds :
          /\ About(Head(events), c) => (c \in subscribed' <=> Subscribing(Head(events)))
          /\ ~About(Head(events), c) => (c \in subscribed' <=> c \in subscribed)
    BY <2>5, <2>7, <2>8
  <2>10. dev'.conn = dev.conn /\ dev'.sd.cccd = dev.sd.cccd
    BY <2>3 DEF SameLink
  <2>11. QED
    BY <1>1, <2>4, <2>5, <2>6, <2>9, <2>10, Polled
<1>6. CASE SecParamsRequest \/ SecInfoRequest
  <2>1. PICK sd : /\ dev' = [dev EXCEPT !.sd = IF dev.conn THEN sd ELSE @]
                  /\ \/ \E x : sd = sd_ble_gap_sec_params_reply(dev.sd, x)
                     \/ \E x, y : sd = sd_ble_gap_sec_info_reply(dev.sd, x, y)
    BY <1>6 DEF SecParamsRequest, SecInfoRequest
  <2>2. SdShape(sd) /\ sd.cccd = dev.sd.cccd /\ sd.mode = dev.sd.mode
    BY <1>1, <2>1 DEF SdShape, sd_ble_gap_sec_params_reply, sd_ble_gap_sec_info_reply
  <2>3. Shape(dev') /\ SameLink(dev, dev') /\ (Linking(dev'.sd) <=> Linking(dev.sd))
    BY <1>1, <2>1, <2>2 DEF Shape, SameLink, Linking
  <2>4. PICK type \in {"SecParamsRequest", "SecInfoRequest"} :
          Gets(type) /\ UNCHANGED <<central, subscribed>>
    BY <1>6 DEF SecParamsRequest, SecInfoRequest
  <2>5. QED
    BY <2>3, <2>4, OtherPolled DEF Gets
<1>7. CASE AuthStatus
  <2>1. Keeps(dev, dev) /\ SameLink(dev, dev)
    BY <1>1, DriverKeeps, SoftDeviceKeeps DEF SameLink
  <2>2. \A d \in AfterHandler("Bonded", dev, notifySubscribed, indicateSubscribed) :
          Keeps(dev, d) /\ SameLink(dev, d)
    BY <1>1, CalledKeeps, CalledSame
  <2>3. Keeps(dev, dev') /\ SameLink(dev, dev')
    BY <1>7, <2>1, <2>2 DEF AuthStatus
  <2>4. Shape(dev') /\ (Linking(dev'.sd) <=> Linking(dev.sd))
    BY <2>3, KeepsLinking DEF Keeps
  <2>5. Gets("AuthStatus") /\ UNCHANGED <<central, subscribed>>
    BY <1>7 DEF AuthStatus
  <2>6. QED
    BY <2>3, <2>4, <2>5, OtherPolled DEF Gets
<1>8. QED
  BY <1>2, <1>3, <1>4, <1>5, <1>6, <1>7 DEF poll, OtherPoll

------------------------------------------------------------------------------
(* The steps of the SoftDevice and the peer.                               *)
LEMMA EmitsFacts ==
  ASSUME LinkInv, NEW sd, NEW e, Emits(sd, e), SdShape(sd)
  PROVE  /\ events' = Append(events, e) /\ Shape(dev') /\ dev'.sd = sd
         /\ dev'.conn = dev.conn /\ UNCHANGED <<central, subscribed>>
BY DEF LinkInv, Shape, Emits

(* What neither changes the link nor the CCCDs, nor tells of it.           *)
LEMMA OtherEmitted ==
  ASSUME LinkInv, NEW e, events' = Append(events, e),
         ~LinkEvent(e), e.type = "Write" => ~e.cccd,
         Shape(dev'), dev'.conn = dev.conn, dev'.sd.cccd = dev.sd.cccd,
         dev'.sd.mode = dev.sd.mode, UNCHANGED <<central, subscribed>>
  PROVE  LinkInv'
<1>1. Linking(dev'.sd) <=> Linking(dev.sd)
  BY DEF Linking
<1>2. \A c \in Cccds : ~About(e, c) /\ (Open(dev'.sd, c) <=> Open(dev.sd, c))
  BY <1>1 DEF About, LinkEvent, Open
<1>3. DOMAIN dev'.sd.cccd = Cccds
  BY DEF LinkInv
<1>4. QED
  BY <1>1, <1>2, <1>3, Emitted

LEMMA QuietEmits ==
  ASSUME LinkInv, NEW sd, SdShape(sd), sd.cccd = dev.sd.cccd, sd.mode = dev.sd.mode,
         NEW e, Emits(sd, e), e.type \notin {"Connected", "Disconnected", "Write"}
  PROVE  LinkInv'
BY EmitsFacts, OtherEmitted DEF LinkEvent

LEMMA SoftDeviceInStep == LinkInv /\ SoftDeviceSteps => LinkInv'
<1> SUFFICES ASSUME LinkInv, SoftDeviceSteps PROVE LinkInv'
  OBVIOUS
<1>1. Shape(dev) /\ SdShape(dev.sd) /\ DOMAIN dev.sd.cccd = Cccds
  BY DEF LinkInv, Shape
<1>2. CASE PeerConnects
  <2>1. PICK p \in Peers : Emits(Linked(dev.sd, p), [type |-> "Connected"])
    BY <1>2 DEF PeerConnects
  <2> DEFINE sd == Linked(dev.sd, p)
             e == [type |-> "Connected"]
  <2>2. /\ SdShape(sd) /\ sd.mode = "connected" /\ DOMAIN sd.cccd = Cccds
        /\ \A c \in Cccds : sd.cccd[c] = {}
    BY <1>1 DEF SdShape, Linked
  <2> HIDE DEF sd
  <2>3. Linking(sd) /\ ~Linking(dev.sd)
    BY <1>2, <2>2 DEF Linking, PeerConnects
  <2>4. /\ events' = Append(events, e) /\ Shape(dev') /\ dev'.sd = sd
        /\ dev'.conn = dev.conn /\ UNCHANGED <<central, subscribed>>
    BY <2>1, <2>2, EmitsFacts DEF sd
  <2>5. \A c \in Cccds : ~Open(dev'.sd, c) /\ ~Open(dev.sd, c)
    BY <2>2, <2>3, <2>4 DEF Open
  <2>6. e.type = "Connected" /\ LinkEvent(e) /\ \A c : ~About(e, c)
    BY DEF LinkEvent, About
  <2> HIDE DEF e
  <2>7. QED
    BY <2>2, <2>3, <2>4, <2>5, <2>6, Emitted
<1>3. CASE LinkEnds
  <2> DEFINE sd == Unlinked(dev.sd)
             e == [type |-> "Disconnected"]
  <2>1. SdShape(sd) /\ sd.mode = "idle" /\ sd.cccd = dev.sd.cccd
    BY <1>1 DEF SdShape, Unlinked
  <2>2. Emits(sd, e)
    BY <1>3 DEF LinkEnds
  <2> HIDE DEF sd
  <2>3. /\ events' = Append(events, e) /\ Shape(dev') /\ dev'.sd = sd
        /\ dev'.conn = dev.conn /\ UNCHANGED <<central, subscribed>>
    BY <2>1, <2>2, EmitsFacts
  <2>4. ~Linking(dev'.sd) /\ \A c \in Cccds : ~Open(dev'.sd, c)
    BY <2>1, <2>3 DEF Linking, Open
  <2>5. e.type # "Connected" /\ LinkEvent(e) /\ ~Subscribing(e) /\ \A c : About(e, c)
    BY DEF LinkEvent, About, Subscribing
  <2> HIDE DEF e
  <2>6. QED
    BY <1>1, <2>1, <2>3, <2>4, <2>5, Emitted
<1>4. CASE PeerSubscribes
  <2>1. PICK c, bits :
          /\ c \in Cccds
          /\ Emits([dev.sd EXCEPT !.cccd[c] = bits],
                   [type |-> "Write", cccd |-> TRUE, char |-> c, bits |-> bits])
    BY <1>4 DEF PeerSubscribes
  <2> DEFINE sd == [dev.sd EXCEPT !.cccd[c] = bits]
             e == [type |-> "Write", cccd |-> TRUE, char |-> c, bits |-> bits]
  <2>2. /\ SdShape(sd) /\ sd.mode = dev.sd.mode /\ DOMAIN sd.cccd = Cccds
        /\ sd.cccd[c] = bits /\ \A x \in Cccds \ {c} : sd.cccd[x] = dev.sd.cccd[x]
    BY <1>1, <2>1 DEF SdShape
  <2> HIDE DEF sd
  <2>3. Linking(sd) /\ Linking(dev.sd)
    BY <1>4, <2>2 DEF Linking, PeerSubscribes, Up
  <2>4. /\ events' = Append(events, e) /\ Shape(dev') /\ dev'.sd = sd
        /\ dev'.conn = dev.conn /\ UNCHANGED <<central, subscribed>>
    BY <2>1, <2>2, EmitsFacts DEF sd
  <2>5. /\ Open(dev'.sd, c) <=> bits # {}
        /\ \A x \in Cccds \ {c} : Open(dev'.sd, x) <=> Open(dev.sd, x)
    BY <2>2, <2>3, <2>4 DEF Open
  <2>6. /\ ~LinkEvent(e)
        /\ Subscribing(e) <=> bits # {}
        /\ \A x : About(e, x) <=> x = c
    BY DEF LinkEvent, About, Subscribing
  <2> HIDE DEF e
  <2>7. QED
    BY <2>2, <2>3, <2>4, <2>5, <2>6, Emitted
<1>5. CASE PeerMeetsNoAttrs \/ PeerWrites \/ PeerConfirms \/ PeerPairs \/ PeerEncrypts
  <2>1. ASSUME NEW x
        PROVE  /\ SdShape([dev.sd EXCEPT !.attrs = x])
               /\ [dev.sd EXCEPT !.attrs = x].cccd = dev.sd.cccd
               /\ [dev.sd EXCEPT !.attrs = x].mode = dev.sd.mode
               /\ SdShape([dev.sd EXCEPT !.indicating = x])
               /\ [dev.sd EXCEPT !.indicating = x].cccd = dev.sd.cccd
               /\ [dev.sd EXCEPT !.indicating = x].mode = dev.sd.mode
               /\ SdShape([dev.sd EXCEPT !.pairing = x])
               /\ [dev.sd EXCEPT !.pairing = x].cccd = dev.sd.cccd
               /\ [dev.sd EXCEPT !.pairing = x].mode = dev.sd.mode
               /\ SdShape([dev.sd EXCEPT !.security = x])
               /\ [dev.sd EXCEPT !.security = x].cccd = dev.sd.cccd
               /\ [dev.sd EXCEPT !.security = x].mode = dev.sd.mode
    BY <1>1 DEF SdShape
  <2>2. CASE PeerMeetsNoAttrs
    <3> DEFINE sd == [dev.sd EXCEPT !.attrs = "asked"]
               e == [type |-> "SysAttrMissing"]
    <3>1. Emits(sd, e) /\ e.type \notin {"Connected", "Disconnected", "Write"}
      BY <2>2 DEF PeerMeetsNoAttrs
    <3>2. SdShape(sd) /\ sd.cccd = dev.sd.cccd /\ sd.mode = dev.sd.mode
      BY <2>1
    <3> HIDE DEF sd, e
    <3>3. QED
      BY <3>1, <3>2, QuietEmits
  <2>3. CASE PeerWrites
    <3>1. PICK c : Emits(dev.sd, [type |-> "Write", cccd |-> FALSE, char |-> c])
      BY <2>3 DEF PeerWrites
    <3> DEFINE e == [type |-> "Write", cccd |-> FALSE, char |-> c]
    <3>2. ~LinkEvent(e) /\ e.cccd = FALSE
      BY DEF LinkEvent
    <3> HIDE DEF e
    <3>3. /\ events' = Append(events, e) /\ Shape(dev') /\ dev'.sd = dev.sd
          /\ dev'.conn = dev.conn /\ UNCHANGED <<central, subscribed>>
      BY <1>1, <3>1, EmitsFacts DEF e
    <3>4. QED
      BY <3>2, <3>3, OtherEmitted
  <2>4. CASE PeerConfirms
    BY <2>1, <2>4, QuietEmits DEF PeerConfirms
  <2>5. CASE PeerPairs
    <3> DEFINE sd == [dev.sd EXCEPT !.pairing = "asked"]
               e == [type |-> "SecParamsRequest"]
    <3>1. Emits(sd, e) /\ e.type \notin {"Connected", "Disconnected", "Write"}
      BY <2>5 DEF PeerPairs
    <3>2. SdShape(sd) /\ sd.cccd = dev.sd.cccd /\ sd.mode = dev.sd.mode
      BY <2>1
    <3> HIDE DEF sd, e
    <3>3. QED
      BY <3>1, <3>2, QuietEmits
  <2>6. CASE PeerEncrypts
    <3> DEFINE sd == [dev.sd EXCEPT !.security = "asked"]
               e == [type |-> "SecInfoRequest", key |-> dev.sd.peerKey]
    <3>1. Emits(sd, e) /\ e.type \notin {"Connected", "Disconnected", "Write"}
      BY <2>6 DEF PeerEncrypts
    <3>2. SdShape(sd) /\ sd.cccd = dev.sd.cccd /\ sd.mode = dev.sd.mode
      BY <2>1
    <3> HIDE DEF sd, e
    <3>3. QED
      BY <3>1, <3>2, QuietEmits
  <2>7. QED
    BY <1>5, <2>2, <2>3, <2>4, <2>5, <2>6
<1>6. CASE PacketsSent
  <2>1. PICK n \in 1 .. TxTotal - dev.sd.free :
          Emits([dev.sd EXCEPT !.free = @ + n], [type |-> "TxComplete", count |-> n])
    BY <1>6 DEF PacketsSent
  <2> DEFINE sd == [dev.sd EXCEPT !.free = @ + n]
             e == [type |-> "TxComplete", count |-> n]
  <2>2. SdShape(sd) /\ sd.cccd = dev.sd.cccd /\ sd.mode = dev.sd.mode
    BY <1>1 DEF SdShape
  <2>3. Emits(sd, e) /\ e.type \notin {"Connected", "Disconnected", "Write"}
    BY <2>1
  <2> HIDE DEF sd, e
  <2>4. QED
    BY <2>2, <2>3, QuietEmits
<1>7. CASE PeerNotifies
  <2>1. PICK r \in DOMAIN Remotes, indication \in BOOLEAN :
          Emits([dev.sd EXCEPT !.unconfirmed = @ \/ indication],
                [type |-> "Hvx", handle |-> remote[r].handle, indication |-> indication])
    BY <1>7 DEF PeerNotifies
  <2> DEFINE sd == [dev.sd EXCEPT !.unconfirmed = @ \/ indication]
  <2>2. SdShape(sd) /\ sd.cccd = dev.sd.cccd /\ sd.mode = dev.sd.mode
    BY <1>1 DEF SdShape
  <2> HIDE DEF sd
  <2>3. QED
    BY <2>1, <2>2, QuietEmits DEF sd
<1>8. CASE PeerAnswers
  <2>1. PICK answer \in Answers(dev.sd) : events' = Append(events, answer)
    BY <1>8 DEF PeerAnswers
  <2>2. ~LinkEvent(answer) /\ answer.type # "Write"
    BY AnswerTypes DEF LinkEvent
  <2>3. /\ Shape(dev') /\ dev'.conn = dev.conn /\ dev'.sd.cccd = dev.sd.cccd
        /\ dev'.sd.mode = dev.sd.mode /\ UNCHANGED <<central, subscribed>>
    BY <1>1, <1>8 DEF PeerAnswers, Shape, SdShape
  <2>4. QED
    BY <2>1, <2>2, <2>3, OtherEmitted
<1>9. CASE PairingEnds
  <2>1. PICK success, k, key, security :
          /\ dev' = [dev EXCEPT !.sd.pairing = "no", !.sd.peerKey = key,
                                !.sd.security = security]
          /\ events' = Append(events, [type |-> "AuthStatus", success |-> success])
          /\ UNCHANGED <<central, subscribed>>
    BY <1>9 DEF PairingEnds
  <2>2. /\ Shape(dev') /\ dev'.conn = dev.conn /\ dev'.sd.cccd = dev.sd.cccd
        /\ dev'.sd.mode = dev.sd.mode
    BY <1>1, <2>1 DEF Shape, SdShape
  <2>3. QED
    BY <2>1, <2>2, OtherEmitted DEF LinkEvent
<1>10. QED
  BY <1>2, <1>3, <1>4, <1>5, <1>6, <1>7, <1>8, <1>9 DEF SoftDeviceSteps

------------------------------------------------------------------------------
LEMMA EmptyInStep ==
  ASSUME Shape(dev), DOMAIN dev.sd.cccd = Cccds, dev.sd.mode = "advertising",
         dev.conn = FALSE, central = FALSE, subscribed = {}, events = << >>
  PROVE  LinkInv
<1>1. IsQueue(events) /\ DOMAIN events = {}
  <2>1. << >> \in Seq({}) /\ DOMAIN << >> = {}
    OBVIOUS
  <2>2. QED
    BY <2>1 DEF IsQueue
<1>2. ~Linking(dev.sd) /\ \A c : ~Open(dev.sd, c)
  BY DEF Linking, Open
<1>3. QED
  BY <1>1, <1>2 DEF LinkInv, LinkSeen, CccdsSeen

LEMMA PowerCycleInStep == PowerCycle => LinkInv'
<1> SUFFICES ASSUME PowerCycle PROVE LinkInv'
  OBVIOUS
<1>1. /\ Shape(dev') /\ DOMAIN dev'.sd.cccd = Cccds /\ dev'.sd.mode = "advertising"
      /\ dev'.conn = FALSE /\ central' = FALSE /\ subscribed' = {} /\ events' = << >>
  BY DEF PowerCycle, Begins, Begun, Enabled, sd_ble_gap_adv_start, Shape, SdShape
<1>2. IsQueue(events') /\ DOMAIN events' = {}
  <2>1. << >> \in Seq({}) /\ DOMAIN << >> = {}
    OBVIOUS
  <2>2. QED
    BY <1>1, <2>1 DEF IsQueue
<1>3. ~Linking(dev'.sd) /\ \A c : ~Open(dev'.sd, c)
  BY <1>1 DEF Linking, Open
<1>4. QED
  BY <1>1, <1>2, <1>3 DEF LinkInv, LinkSeen, CccdsSeen

LEMMA CallInStep == LinkInv /\ Call => LinkInv'
<1> SUFFICES ASSUME LinkInv, Call PROVE LinkInv'
  OBVIOUS
<1>1. /\ Keeps(dev, dev') /\ SameLink(dev, dev')
      /\ UNCHANGED <<central, subscribed, events>>
  BY CalledKeeps, CalledSame DEF LinkInv, Call
<1>2. /\ Shape(dev') /\ dev'.conn = dev.conn /\ dev'.sd.cccd = dev.sd.cccd
      /\ Linking(dev'.sd) <=> Linking(dev.sd)
  BY <1>1, KeepsLinking DEF Keeps, SameLink
<1>3. \A c : Open(dev'.sd, c) <=> Open(dev.sd, c)
  BY <1>2 DEF Open
<1>4. LinkSeen' /\ CccdsSeen'
  BY <1>1, <1>2, <1>3 DEF LinkInv, LinkSeen, CccdsSeen
<1>5. QED
  BY <1>1, <1>2, <1>4 DEF LinkInv

(* Whenever no event is on its way, the driver agrees with the SoftDevice  *)
(* on whether there is a link and on who is subscribed, whatever the       *)
(* links, calls, handlers and power losses before: unless the sketch calls *)
(* end(), which drops the events and resets neither.                       *)
THEOREM InStepAlways == ASSUME "end" \notin Restarts PROVE Spec => []InStep
<1>1. LinkInv => InStep
  <2> SUFFICES ASSUME LinkInv, events = << >> PROVE InStep
    BY DEF InStep
  <2>1. DOMAIN events = {}
    OBVIOUS
  <2>2. (central <=> Linking(dev.sd)) /\ (central <=> dev.conn)
    BY <2>1 DEF LinkInv, LinkSeen
  <2>3. \A c \in Cccds : c \in subscribed <=> Open(dev.sd, c)
    BY <2>1 DEF LinkInv, CccdsSeen
  <2>4. QED
    BY <2>2, <2>3 DEF InStep, Linking, Open
<1>2. Init => LinkInv
  <2> SUFFICES ASSUME Init PROVE LinkInv
    OBVIOUS
  <2>1. /\ Shape(dev) /\ DOMAIN dev.sd.cccd = Cccds /\ dev.sd.mode = "advertising"
        /\ dev.conn = FALSE /\ central = FALSE /\ subscribed = {} /\ events = << >>
    BY DEF Init, Begun, Enabled, sd_ble_gap_adv_start, Shape, SdShape
  <2>2. QED
    BY <2>1, EmptyInStep
<1>3. LinkInv /\ [Next]_vars => LinkInv'
  <2> SUFFICES ASSUME LinkInv, [Next]_vars PROVE LinkInv'
    OBVIOUS
  <2>1. ~EndAndBegin
    BY DEF EndAndBegin
  <2>2. CASE UNCHANGED vars
    BY <2>2 DEF vars, LinkInv, LinkSeen, CccdsSeen
  <2>3. QED
    BY <2>1, <2>2, CallInStep, PollInStep, PowerCycleInStep, SoftDeviceInStep DEF Next
<1>4. QED
  BY <1>1, <1>2, <1>3, PTL DEF Spec

------------------------------------------------------------------------------
(* The driver as a client, and its transmit buffers: the handles it uses   *)
(* are of the peer that is linked, its requests end, and it counts no      *)
(* buffer that is not free.                                                *)

(* What every call leaves alone: the link, and a request in progress.  A   *)
(* call may start a request where there is none, and end a link.           *)
SdAsks(a, b) ==
  /\ b.peer = a.peer /\ b.attrs = a.attrs
  /\ b.mode = a.mode \/ (a.mode = "connected" /\ b.mode = "closing")
  /\ \/ b.client = a.client
     \/ /\ a.client = Nothing /\ a.mode = "connected"
        /\ b.client.kind \in {"read", "write"}

Asks(d, e) ==
  /\ Shape(e) /\ e.conn = d.conn /\ SdAsks(d.sd, e.sd)
  /\ e.sd.client # d.sd.client => d.conn

(* No call takes more buffers than the driver counts, and none before the  *)
(* peer's attributes are set or its values known.                          *)
Spends(d, e) ==
  d.tx \in Nat /\ d.sd.free \in Nat =>
    /\ e.tx \in Nat /\ e.sd.free \in Nat
    /\ e.tx <= d.tx /\ e.sd.free <= d.sd.free
    /\ d.sd.free - e.sd.free <= d.tx - e.tx
    /\ d.sd.attrs # "set" /\ (\A r \in DOMAIN Remotes : remote[r].handle = 0)
         => e.sd.free = d.sd.free

(* A call that marks a request in progress has one, unless the link is     *)
(* over.                                                                   *)
Marks(d, e) ==
  \/ e.requested = d.requested
  \/ /\ e.requested = TRUE
     /\ d.conn /\ d.sd.mode = "connected" /\ d.sd.client = Nothing
          => e.sd.client.kind \in {"read", "write"}

LEMMA AsksTwice ==
  ASSUME NEW d, NEW e, NEW f, Asks(d, e), Asks(e, f)
  PROVE  Asks(d, f)
BY DEF Asks, SdAsks

LEMMA SpendsTwice ==
  ASSUME NEW d, NEW e, NEW f, Spends(d, e), Spends(e, f), e.sd.attrs = d.sd.attrs
  PROVE  Spends(d, f)
BY DEF Spends

------------------------------------------------------------------------------
(* The calls to the SoftDevice.                                            *)
LEMMA SoftDeviceAsks ==
  ASSUME NEW sd, SdShape(sd), NEW x, NEW y
  PROVE  /\ SdAsks(sd, sd)
         /\ SdAsks(sd, [sd EXCEPT !.adv = x])
         /\ SdAsks(sd, [sd EXCEPT !.unconfirmed = x])
         /\ SdAsks(sd, sd_ble_gap_disconnect(sd))
         /\ SdAsks(sd, sd_ble_gatts_hvx(sd, x, y))
         /\ x.kind \in {"read", "write"} => SdAsks(sd, Starts(sd, x))
         /\ SdAsks(sd, sd_ble_gattc_write_cmd(sd))
<1>1. SdAsks(sd, sd)
  BY DEF SdAsks
<1>2. SdAsks(sd, [sd EXCEPT !.adv = x]) /\ SdAsks(sd, [sd EXCEPT !.unconfirmed = x])
  BY DEF SdAsks, SdShape
<1>3. SdAsks(sd, sd_ble_gap_disconnect(sd))
  BY DEF SdAsks, SdShape, sd_ble_gap_disconnect
<1>4. SdAsks(sd, sd_ble_gatts_hvx(sd, x, y))
  BY <1>1 DEF SdAsks, SdShape, sd_ble_gatts_hvx
<1>5. x.kind \in {"read", "write"} => SdAsks(sd, Starts(sd, x))
  BY <1>1 DEF SdAsks, SdShape, Starts
<1>6. SdAsks(sd, sd_ble_gattc_write_cmd(sd))
  BY <1>1 DEF SdAsks, SdShape, sd_ble_gattc_write_cmd
<1>7. QED
  BY <1>1, <1>2, <1>3, <1>4, <1>5, <1>6

LEMMA SoftDeviceSpends ==
  ASSUME NEW sd, SdShape(sd), sd.free \in Nat, NEW x, NEW y
  PROVE  /\ sd_ble_gap_disconnect(sd).free = sd.free
         /\ Starts(sd, x).free = sd.free
         /\ sd_ble_gatts_hvx(sd, x, y).free \in {sd.free, sd.free - 1} \cap Nat
         /\ sd.attrs # "set" => sd_ble_gatts_hvx(sd, x, y).free = sd.free
         /\ sd_ble_gattc_write_cmd(sd).free \in {sd.free, sd.free - 1} \cap Nat
BY DEF SdShape, sd_ble_gap_disconnect, Starts, sd_ble_gatts_hvx, sd_ble_gattc_write_cmd

------------------------------------------------------------------------------
(* Setting a value.                                                        *)
Quiet(d, e) == Asks(d, e) /\ Spends(d, e) /\ e.requested = d.requested

LEMMA SentQuiet ==
  ASSUME NEW d, Shape(d), NEW flags, NEW type, NEW c
  PROVE  Quiet(d, Sent(d, flags, type, c))
<1> DEFINE sd == IF d.conn THEN sd_ble_gatts_hvx(d.sd, type, c) ELSE d.sd
           e == [d EXCEPT !.tx = d.tx - 1, !.sd = sd]
<1>1. SdShape(d.sd) /\ SdShape(sd) /\ SdAsks(d.sd, sd) /\ SdAsks(d.sd, d.sd)
      /\ sd.client = d.sd.client
  <2>1. SdShape(d.sd)
    BY DEF Shape
  <2>2. SdShape(sd)
    BY <2>1, SoftDeviceKeeps DEF SdKeeps
  <2>3. SdAsks(d.sd, sd) /\ SdAsks(d.sd, d.sd)
    BY <2>1, SoftDeviceAsks
  <2>4. sd.client = d.sd.client
    BY <2>1 DEF SdShape, sd_ble_gatts_hvx
  <2>5. QED
    BY <2>1, <2>2, <2>3, <2>4
<1>2. d.sd.free \in Nat => /\ sd.free \in {d.sd.free, d.sd.free - 1} \cap Nat
                           /\ d.sd.attrs # "set" => sd.free = d.sd.free
  BY <1>1, SoftDeviceSpends
<1> HIDE DEF sd
<1>3. Asks(d, d) /\ Asks(d, e)
  BY <1>1 DEF Asks, Shape
<1>4. Spends(d, d)
  BY DEF Spends
<1>5. d.tx # 0 => Spends(d, e)
  <2>1. e.tx = d.tx - 1 /\ e.sd = sd
    BY DEF Shape
  <2>2. QED
    BY <1>2, <2>1 DEF Spends
<1>6. e.requested = d.requested
  BY DEF Shape
<1>7. Sent(d, flags, type, c) = IF c \notin flags \/ d.tx = 0 THEN d ELSE e
  BY DEF Sent, sd
<1>8. QED
  BY <1>3, <1>4, <1>5, <1>6, <1>7 DEF Quiet

LEMMA QuietTwice ==
  ASSUME NEW d, NEW e, NEW f, Quiet(d, e), Quiet(e, f)
  PROVE  Quiet(d, f)
<1>1. Asks(d, f)
  BY AsksTwice DEF Quiet
<1>2. Spends(d, f)
  BY SpendsTwice DEF Quiet, Asks, SdAsks
<1>3. QED
  BY <1>1, <1>2 DEF Quiet

LEMMA UpdateQuiet ==
  ASSUME NEW d, Shape(d), NEW notifying, NEW indicating, NEW c
  PROVE  /\ Quiet(d, broadcastCharacteristic(d, c))
         /\ Quiet(d, updateCharacteristicValue(d, notifying, indicating, c))
<1> DEFINE advertised == IF d.broadcast = c THEN broadcastCharacteristic(d, c) ELSE d
           notified == Sent(advertised, notifying, "notify", c)
<1>1. Quiet(d, d) /\ Quiet(d, broadcastCharacteristic(d, c))
  BY DEF Quiet, Asks, SdAsks, Spends, broadcastCharacteristic, Shape, SdShape
<1>2. Quiet(d, advertised) /\ Shape(advertised)
  BY <1>1 DEF Quiet, Asks
<1> HIDE DEF advertised
<1>3. Quiet(advertised, notified)
  BY <1>2, SentQuiet
<1>4. Quiet(d, notified) /\ Shape(notified)
  BY <1>2, <1>3, QuietTwice DEF Quiet, Asks
<1>5. Quiet(notified, Sent(notified, indicating, "indicate", c))
  BY <1>4, SentQuiet
<1>6. QED
  BY <1>1, <1>4, <1>5, QuietTwice DEF updateCharacteristicValue, advertised

(* Setting a value has nothing to do with the link or with requests.       *)
LEMMA UpdateSameSearch ==
  ASSUME NEW d, Shape(d), NEW notifying, NEW indicating, NEW c
  PROVE  /\ updateCharacteristicValue(d, notifying, indicating, c).sd.client = d.sd.client
         /\ updateCharacteristicValue(d, notifying, indicating, c).sd.mode = d.sd.mode
<1> DEFINE Same(e, f) == Shape(f) /\ f.sd.client = e.sd.client /\ f.sd.mode = e.sd.mode
           advertised == IF d.broadcast = c THEN broadcastCharacteristic(d, c) ELSE d
           notified == Sent(advertised, notifying, "notify", c)
<1>1. Same(d, advertised)
  BY DEF broadcastCharacteristic, Shape, SdShape
<1>2. ASSUME NEW e, Shape(e), NEW flags, NEW type PROVE Same(e, Sent(e, flags, type, c))
  <2> DEFINE sd == IF e.conn THEN sd_ble_gatts_hvx(e.sd, type, c) ELSE e.sd
             f == [e EXCEPT !.tx = e.tx - 1, !.sd = sd]
  <2>1. SdShape(sd) /\ sd.client = e.sd.client /\ sd.mode = e.sd.mode
    BY <1>2 DEF Shape, SdShape, sd_ble_gatts_hvx
  <2>2. Sent(e, flags, type, c) = IF c \notin flags \/ e.tx = 0 THEN e ELSE f
    BY DEF Sent
  <2> HIDE DEF sd
  <2>3. Same(e, e) /\ Same(e, f)
    BY <1>2, <2>1 DEF Shape
  <2> HIDE DEF Same, f
  <2>4. QED
    BY <2>2, <2>3
<1>3. Same(advertised, notified)
  BY <1>1, <1>2
<1>4. Same(notified, Sent(notified, indicating, "indicate", c))
  BY <1>2, <1>3
<1>5. QED
  BY <1>1, <1>3, <1>4 DEF updateCharacteristicValue

------------------------------------------------------------------------------
(* The calls on remote characteristics.  Of those, a write without a       *)
(* response is never answered.                                             *)
WritesAnswered ==
  \A r \in DOMAIN Remotes :
    "writeWoResp" \in remote[r].props => "write" \in remote[r].props

LEMMA RequestedAsks ==
  ASSUME NEW d, Shape(d), NEW q, q.kind \in {"read", "write"}
  PROVE  /\ Asks(d, Requested(d, q))
         /\ Marks(d, Requested(d, q))
         /\ Requested(d, q).tx = d.tx
         /\ d.sd.free \in Nat => Requested(d, q).sd.free = d.sd.free
<1> DEFINE sd == IF d.conn THEN Starts(d.sd, q) ELSE d.sd
           e == [d EXCEPT !.requested = TRUE, !.sd = sd]
<1>1. SdShape(d.sd) /\ SdShape(sd) /\ SdAsks(d.sd, sd)
  BY SoftDeviceKeeps, SoftDeviceAsks DEF Shape, SdKeeps
<1>2. d.conn /\ d.sd.mode = "connected" /\ d.sd.client = Nothing => sd.client = q
  BY <1>1 DEF Starts, SdShape
<1>3. sd.client # d.sd.client => d.conn
  OBVIOUS
<1>4. d.sd.free \in Nat => sd.free = d.sd.free
  BY <1>1, SoftDeviceSpends
<1>5. Requested(d, q) = e
  BY DEF Requested
<1> HIDE DEF sd
<1>6. Shape(e) /\ e.conn = d.conn /\ e.sd = sd /\ e.tx = d.tx /\ e.requested = TRUE
  BY <1>1 DEF Shape
<1> HIDE DEF e
<1>7. Asks(d, e)
  BY <1>1, <1>3, <1>6 DEF Asks
<1>8. Marks(d, e)
  BY <1>2, <1>6 DEF Marks
<1>9. QED
  BY <1>4, <1>5, <1>6, <1>7, <1>8

LEMMA WriteAsks ==
  ASSUME NEW d, Shape(d), NEW r \in DOMAIN Remotes
  PROVE  /\ Asks(d, writeRemoteCharacteristic(d, r))
         /\ Spends(d, writeRemoteCharacteristic(d, r))
         /\ WritesAnswered => Marks(d, writeRemoteCharacteristic(d, r))
<1> DEFINE counted == [d EXCEPT !.tx = @ - 1]
           q == [kind |-> "write", handle |-> remote[r].handle]
           sd == IF d.conn THEN sd_ble_gattc_write_cmd(d.sd) ELSE d.sd
           sent == [d EXCEPT !.requested = TRUE, !.tx = d.tx - 1, !.sd = sd]
<1>1. CASE remote[r].handle = 0 \/ d.tx = 0
  <2>1. writeRemoteCharacteristic(d, r) = d
    BY <1>1 DEF writeRemoteCharacteristic
  <2>2. Asks(d, d) /\ Spends(d, d) /\ Marks(d, d)
    BY DEF Asks, SdAsks, Spends, Marks
  <2>3. QED
    BY <2>1, <2>2
<1>2. CASE remote[r].handle # 0 /\ d.tx # 0 /\ "write" \in remote[r].props
  <2>1. writeRemoteCharacteristic(d, r) = Requested(counted, q)
    BY <1>2 DEF writeRemoteCharacteristic
  <2>2. Shape(counted) /\ Asks(d, counted) /\ counted.requested = d.requested
        /\ counted.sd = d.sd /\ counted.conn = d.conn /\ counted.tx = d.tx - 1
    BY DEF Shape, Asks, SdAsks
  <2> HIDE DEF counted
  <2>3. q.kind \in {"read", "write"}
    OBVIOUS
  <2> HIDE DEF q
  <2> DEFINE e == Requested(counted, q)
  <2>4. /\ Asks(counted, e) /\ Marks(counted, e) /\ e.tx = counted.tx
        /\ counted.sd.free \in Nat => e.sd.free = counted.sd.free
    BY <2>2, <2>3, RequestedAsks
  <2> HIDE DEF e
  <2>5. Asks(d, e)
    BY <2>2, <2>4, AsksTwice
  <2>6. Spends(d, e)
    BY <1>2, <2>2, <2>4 DEF Spends
  <2>7. Marks(d, e)
    BY <2>2, <2>4 DEF Marks
  <2>8. QED
    BY <2>1, <2>5, <2>6, <2>7 DEF e
<1>3. CASE remote[r].handle # 0 /\ d.tx # 0 /\ "write" \notin remote[r].props
           /\ "writeWoResp" \in remote[r].props
  <2>1. writeRemoteCharacteristic(d, r) = sent
    BY <1>3 DEF writeRemoteCharacteristic
  <2>2. SdShape(d.sd) /\ SdShape(sd) /\ SdAsks(d.sd, sd) /\ sd.client = d.sd.client
    BY SoftDeviceKeeps, SoftDeviceAsks DEF Shape, SdKeeps, SdShape, sd_ble_gattc_write_cmd
  <2>3. d.sd.free \in Nat => sd.free \in {d.sd.free, d.sd.free - 1} \cap Nat
    BY <2>2, SoftDeviceSpends
  <2> HIDE DEF sd
  <2>4. Shape(sent) /\ sent.conn = d.conn /\ sent.sd = sd /\ sent.tx = d.tx - 1
    BY <2>2 DEF Shape
  <2> HIDE DEF sent
  <2>5. Asks(d, sent)
    BY <2>2, <2>4 DEF Asks
  <2>6. Spends(d, sent)
    BY <1>3, <2>3, <2>4 DEF Spends
  <2>7. ~WritesAnswered
    BY <1>3 DEF WritesAnswered
  <2>8. QED
    BY <2>1, <2>5, <2>6, <2>7
<1>4. CASE remote[r].handle # 0 /\ d.tx # 0 /\ "write" \notin remote[r].props
           /\ "writeWoResp" \notin remote[r].props
  <2>1. writeRemoteCharacteristic(d, r) = d
    BY <1>4 DEF writeRemoteCharacteristic
  <2>2. Asks(d, d) /\ Spends(d, d) /\ Marks(d, d)
    BY DEF Asks, SdAsks, Spends, Marks
  <2>3. QED
    BY <2>1, <2>2
<1>5. QED
  BY <1>1, <1>2, <1>3, <1>4

LEMMA ReadAsks ==
  ASSUME NEW d, Shape(d), NEW r
  PROVE  /\ Asks(d, readRemoteCharacteristic(d, r))
         /\ Spends(d, readRemoteCharacteristic(d, r))
         /\ Marks(d, readRemoteCharacteristic(d, r))
         /\ Asks(d, subscribeRemoteCharacteristic(d, r))
         /\ Spends(d, subscribeRemoteCharacteristic(d, r))
         /\ Marks(d, subscribeRemoteCharacteristic(d, r))
<1> DEFINE q == [kind |-> "read", handle |-> remote[r].handle]
           w == [kind |-> "write", handle |-> remote[r].handle + 1]
<1>1. q.kind \in {"read", "write"} /\ w.kind \in {"read", "write"}
  OBVIOUS
<1>2. /\ readRemoteCharacteristic(d, r) = d \/ readRemoteCharacteristic(d, r) = Requested(d, q)
      /\ subscribeRemoteCharacteristic(d, r) = d
           \/ subscribeRemoteCharacteristic(d, r) = Requested(d, w)
  BY DEF readRemoteCharacteristic, subscribeRemoteCharacteristic
<1> HIDE DEF q, w
<1>3. Asks(d, d) /\ Spends(d, d) /\ Marks(d, d)
  BY DEF Asks, SdAsks, Spends, Marks
<1>4. ASSUME NEW x, x.kind \in {"read", "write"}
      PROVE  Asks(d, Requested(d, x)) /\ Spends(d, Requested(d, x)) /\ Marks(d, Requested(d, x))
  <2>1. /\ Asks(d, Requested(d, x)) /\ Marks(d, Requested(d, x))
        /\ Requested(d, x).tx = d.tx
        /\ d.sd.free \in Nat => Requested(d, x).sd.free = d.sd.free
    BY <1>4, RequestedAsks
  <2>2. Spends(d, Requested(d, x))
    BY <2>1 DEF Spends
  <2>3. QED
    BY <2>1, <2>2
<1>5. QED
  BY <1>1, <1>2, <1>3, <1>4

(* Every call of the API.                                                  *)
LEMMA CalledAsks ==
  ASSUME NEW d, Shape(d), NEW notifying, NEW indicating,
         NEW a, IsRemoteCall(a) => a[2] \in DOMAIN Remotes
  PROVE  /\ Asks(d, Called(d, notifying, indicating, a))
         /\ Spends(d, Called(d, notifying, indicating, a))
         /\ WritesAnswered => Marks(d, Called(d, notifying, indicating, a))
         /\ ~IsRemoteCall(a) => Called(d, notifying, indicating, a).requested = d.requested
<1> DEFINE e == Called(d, notifying, indicating, a)
<1>1. CASE a[1] = "setValue" \/ a[1] = "broadcast"
  <2>1. Quiet(d, e)
    BY <1>1, UpdateQuiet DEF Called
  <2>2. QED
    BY <2>1 DEF Quiet, Marks
<1>2. CASE a[1] \in {"read", "subscribe", "unsubscribe"}
  <2>1. e = readRemoteCharacteristic(d, a[2]) \/ e = subscribeRemoteCharacteristic(d, a[2])
    BY <1>2 DEF Called, subscribeRemoteCharacteristic, unsubscribeRemoteCharacteristic
  <2>2. Asks(d, e) /\ Spends(d, e) /\ Marks(d, e)
    BY <2>1, ReadAsks
  <2>3. IsRemoteCall(a)
    BY <1>2 DEF IsRemoteCall
  <2>4. QED
    BY <2>2, <2>3
<1>3. CASE a[1] = "write"
  <2>1. e = writeRemoteCharacteristic(d, a[2]) /\ IsRemoteCall(a)
    BY <1>3 DEF Called, IsRemoteCall
  <2>2. QED
    BY <2>1, WriteAsks
<1>4. CASE a[1] = "disconnect"
  <2>1. e = disconnect(d)
    BY <1>4 DEF Called
  <2>2. Quiet(d, d)
    BY DEF Quiet, Asks, SdAsks, Spends
  <2>3. CASE d.conn
    <3> DEFINE sd == sd_ble_gap_disconnect(d.sd)
    <3>1. SdShape(d.sd) /\ SdAsks(d.sd, sd)
      BY SoftDeviceAsks DEF Shape
    <3>2. SdShape(sd) /\ sd.client = d.sd.client /\ sd.free = d.sd.free
      BY <3>1 DEF SdShape, sd_ble_gap_disconnect
    <3>3. e = [d EXCEPT !.sd = sd]
      BY <2>1, <2>3 DEF disconnect
    <3> HIDE DEF sd, e
    <3>4. /\ Shape(e) /\ e.sd = sd /\ e.conn = d.conn /\ e.tx = d.tx
          /\ e.requested = d.requested
      BY <3>2, <3>3 DEF Shape
    <3>5. Asks(d, e) /\ Spends(d, e)
      BY <3>1, <3>2, <3>4 DEF Asks, Spends
    <3>6. QED
      BY <3>4, <3>5 DEF Marks, e
  <2>4. CASE ~d.conn
    BY <2>1, <2>2, <2>4 DEF disconnect, Quiet, Marks
  <2>5. QED
    BY <2>3, <2>4
<1>5. CASE a[1] \notin {"setValue", "broadcast", "read", "write", "subscribe",
                       "unsubscribe", "disconnect"}
  <2>1. e = d
    BY <1>5 DEF Called
  <2>2. Asks(d, d) /\ Spends(d, d) /\ Marks(d, d)
    BY DEF Asks, SdAsks, Spends, Marks
  <2>3. QED
    BY <2>1, <2>2
<1>6. QED
  BY <1>1, <1>2, <1>3, <1>4, <1>5

LEMMA HandlerAsks ==
  ASSUME NEW d, Shape(d), NEW notifying, NEW indicating, NEW h,
         NEW e \in AfterHandler(h, d, notifying, indicating)
  PROVE  /\ Asks(d, e) /\ Spends(d, e) /\ Keeps(d, e)
         /\ Careful /\ h # "Discovered" /\ ~discovered => e.requested = d.requested
         /\ WritesAnswered => Marks(d, e)
<1>1. CASE e = d
  <2>1. SdKeeps(d.sd, d.sd)
    BY SoftDeviceKeeps DEF Shape
  <2>2. Keeps(d, d)
    BY <2>1, DriverKeeps
  <2>3. Asks(d, d) /\ Spends(d, d) /\ Marks(d, d)
    BY DEF Asks, SdAsks, Spends, Marks
  <2>4. QED
    BY <1>1, <2>2, <2>3
<1>2. CASE e # d
  <2> DEFINE informed == discovered \/ h = "Discovered"
  <2>1. PICK a \in Allowed(d, HandlerCalls, informed) : e = Called(d, notifying, indicating, a)
    BY <1>2 DEF AfterHandler
  <2>2. a \in HandlerCalls
    BY DEF Allowed
  <2>3. IsRemoteCall(a) => a[2] \in DOMAIN Remotes
    BY <2>2, ConstantsOK
  <2>4. Careful /\ ~informed => ~IsRemoteCall(a)
    BY DEF Allowed, IsRemoteCall
  <2>5. QED
    BY <2>1, <2>3, <2>4, CalledAsks, CalledKeeps
<1>3. QED
  BY <1>1, <1>2

------------------------------------------------------------------------------
(* Least and greatest of finitely many numbers.                            *)
LEMMA LeastExists ==
  ASSUME NEW S, S \subseteq Nat, S # {}
  PROVE  \E x \in S : \A y \in S : x <= y
<1> DEFINE Less == {ss \in Nat \X Nat : ss[1] < ss[2]}
<1>1. OpToRel(<, Nat) = Less
  BY DEF OpToRel
<1>2. IsWellFoundedOn(Less, Nat)
  BY <1>1, NatLessThanWellFounded
<1>3. PICK x \in S : \A y \in S : ~ (<<y, x>> \in Less)
  BY <1>2, WFMin
<1>4. ASSUME NEW y \in S, y < x PROVE <<y, x>> \in Less
  <2>1. <<y, x>> \in Nat \X Nat /\ <<y, x>>[1] = y /\ <<y, x>>[2] = x
    OBVIOUS
  <2>2. QED
    BY <1>4, <2>1
<1> HIDE DEF Less
<1>5. \A y \in S : x <= y
  <2>1. \A y \in S : y \in Nat /\ x \in Nat /\ ~(y < x)
    BY <1>3, <1>4
  <2>2. QED
    BY <2>1
<1>6. QED
  BY <1>5

LEMMA GreatestExists ==
  ASSUME NEW n \in Nat, NEW S, S \subseteq 1 .. n, S # {}
  PROVE  \E x \in S : \A y \in S : y <= x
<1> DEFINE T == {n - i : i \in S}
<1>1. T \subseteq Nat /\ T # {}
  <2>1. \A i \in S : n - i \in Nat
    OBVIOUS
  <2>2. T \subseteq Nat
    BY <2>1
  <2>3. T # {}
    BY Zenon
  <2>4. QED
    BY <2>2, <2>3
<1>2. PICK t \in T : \A u \in T : t <= u
  BY <1>1, LeastExists
<1>3. PICK x \in S : t = n - x
  OBVIOUS
<1>4. \A y \in S : n - y \in T /\ y \in Nat /\ x \in Nat
  OBVIOUS
<1> HIDE DEF T
<1>5. \A y \in S : n - x <= n - y
  BY <1>2, <1>3, <1>4
<1>6. \A y \in S : y <= x
  BY <1>4, <1>5
<1>7. QED
  BY <1>6

LEMMA MinFacts ==
  ASSUME NEW S, S \subseteq Nat, S # {}
  PROVE  Min(S) \in S /\ \A y \in S : Min(S) <= y
<1> DEFINE IsLeast(x) == \A y \in S : x <= y
<1>1. \E x \in S : IsLeast(x)
  BY LeastExists
<1>2. Min(S) = CHOOSE x \in S : IsLeast(x)
  BY DEF Min
<1> HIDE DEF IsLeast
<1>3. Min(S) \in S /\ IsLeast(Min(S))
  BY <1>1, <1>2
<1>4. QED
  BY <1>3 DEF IsLeast

------------------------------------------------------------------------------
(* The peer's tables and what it finds in them.                            *)
Table(p) == p \in Peers \cup {<< >>}

LEMMA HandleFacts == \A h \in Handles : h \in Nat /\ h # 0
<1>1. MaxHandle \in Nat
  BY DEF MaxHandle
<1>2. QED
  BY <1>1 DEF Handles

LEMMA TableFacts ==
  ASSUME NEW p, Table(p)
  PROVE  /\ IsQueue(p)
         /\ \A s, t \in DOMAIN p : \A h \in Nat :
              /\ p[s].start <= h /\ h <= p[s].end
              /\ p[t].start <= h /\ h <= p[t].end
              => s = t
         /\ \A s \in DOMAIN p :
              /\ p[s].start \in Handles /\ p[s].end \in Handles /\ p[s].start <= p[s].end
              /\ IsQueue(p[s].chars)
              /\ \A c \in DOMAIN p[s].chars : p[s].chars[c].handle \in p[s].start .. p[s].end
<1>1. CASE p = << >>
  <2>1. p \in Seq({}) /\ DOMAIN p = {}
    BY <1>1
  <2>2. QED
    BY <2>1 DEF IsQueue
<1>2. CASE p \in Peers
  <2>1. AttributeTable(p)
    BY <1>2, PeersAssumption
  <2>2. IsQueue(p)
    BY <2>1 DEF AttributeTable, IsQueue
  <2>3. ASSUME NEW s \in DOMAIN p
        PROVE  /\ p[s].start \in Handles /\ p[s].end \in Handles /\ p[s].start <= p[s].end
               /\ IsQueue(p[s].chars)
               /\ \A c \in DOMAIN p[s].chars : p[s].chars[c].handle \in p[s].start .. p[s].end
    <3>1. Service(p[s])
      BY <2>1 DEF AttributeTable
    <3>2. QED
      BY <3>1 DEF Service, IsQueue
  <2>4. ASSUME NEW s \in DOMAIN p, NEW t \in DOMAIN p, NEW h \in Nat,
               p[s].start <= h, h <= p[s].end, p[t].start <= h, h <= p[t].end
        PROVE  s = t
    <3>1. DOMAIN p = 1 .. Len(p) /\ Len(p) \in Nat
      BY <2>2, QueueFacts
    <3>2. s \in Nat /\ t \in Nat
      BY <3>1
    <3>3. /\ s < t => p[s].end < p[t].start
          /\ t < s => p[t].end < p[s].start
      BY <2>1 DEF AttributeTable
    <3>4. /\ p[s].start \in Nat /\ p[s].end \in Nat
          /\ p[t].start \in Nat /\ p[t].end \in Nat
      BY <2>3, HandleFacts
    <3>5. ~(s < t) /\ ~(t < s)
      BY <2>4, <3>3, <3>4
    <3>6. QED
      BY <3>2, <3>5
  <2>5. QED
    BY <2>2, <2>3, <2>4
<1>3. QED
  BY <1>1, <1>2 DEF Table

(* An answer lists entries of the table, at least one unless it is an      *)
(* error.                                                                  *)
FoundIn(a, type, table) ==
  /\ a.type = type
  /\ a.ok => /\ IsQueue(a.found) /\ Len(a.found) > 0
             /\ \A k \in DOMAIN a.found : \E i \in DOMAIN table : a.found[k] = table[i]

LEMMA FoundFacts ==
  ASSUME NEW type, NEW table, IsQueue(table), NEW left, left \subseteq DOMAIN table,
         NEW a \in Found(type, table, left)
  PROVE  FoundIn(a, type, table)
<1>1. CASE left = {}
  BY <1>1 DEF Found, FoundIn
<1>2. CASE left # {}
  <2>1. PICK n \in left : a = [type |-> type, ok |-> TRUE,
                              found |-> SubSeq(table, Min(left), n)]
    BY <1>2 DEF Found
  <2>2. PICK S : table \in Seq(S)
    BY DEF IsQueue
  <2>3. DOMAIN table = 1 .. Len(table) /\ Len(table) \in Nat
    BY <2>2
  <2>4. left \subseteq Nat
    BY <2>3
  <2>5. Min(left) \in left /\ Min(left) <= n
    BY <1>2, <2>4, MinFacts
  <2> DEFINE m == Min(left)
  <2> HIDE DEF m
  <2>6. m \in 1 .. Len(table) /\ n \in 1 .. Len(table) /\ m <= n
    BY <2>3, <2>5 DEF m
  <2>7. /\ SubSeq(table, m, n) \in Seq(S)
        /\ Len(SubSeq(table, m, n)) = n - m + 1
        /\ \A k \in 1 .. n - m + 1 : SubSeq(table, m, n)[k] = table[m + k - 1]
    BY <2>2, <2>6
  <2> DEFINE found == SubSeq(table, m, n)
  <2> HIDE DEF found
  <2>8. IsQueue(found) /\ Len(found) > 0 /\ DOMAIN found = 1 .. n - m + 1
    <3>1. found \in Seq(S) /\ Len(found) = n - m + 1
      BY <2>7 DEF found
    <3>2. m \in Int /\ n \in Int /\ n - m + 1 > 0
      BY <2>6
    <3>3. DOMAIN found = 1 .. Len(found)
      BY <3>1
    <3>4. QED
      BY <3>1, <3>2, <3>3 DEF IsQueue
  <2>9. ASSUME NEW k \in DOMAIN found PROVE \E i \in DOMAIN table : found[k] = table[i]
    <3>1. m + k - 1 \in DOMAIN table
      BY <2>3, <2>6, <2>8
    <3>2. found[k] = table[m + k - 1]
      BY <2>7, <2>8 DEF found
    <3>3. QED
      BY <3>1, <3>2
  <2>10. a.type = type /\ a.found = found
    BY <2>1 DEF found, m
  <2>11. QED
    BY <2>8, <2>9, <2>10 DEF FoundIn
<1>3. QED
  BY <1>1, <1>2

------------------------------------------------------------------------------
(* The search for the peer's services and characteristics is one chain:    *)
(* the connection, a request or an answer, never two of them, and nothing  *)
(* of it is left once the sketch is told.                                  *)
SearchEvent(e) == e.type \in {"Connected", "PrimSrvcDiscRsp", "CharDiscRsp"}
Searching(sd) == sd.client.kind \in {"services", "chars"}

OneSearch ==
  /\ \A i, j \in DOMAIN events : SearchEvent(events[i]) /\ SearchEvent(events[j]) => i = j
  /\ \A i \in DOMAIN events : SearchEvent(events[i]) => ~Searching(dev.sd) /\ ~discovered
  /\ discovered => ~Searching(dev.sd)

(* What is known of the peer, and nothing of it.                           *)
RangeOf(p, j, range) ==
  \E s \in DOMAIN p : p[s].uuid = Services[j] /\ range = <<p[s].start, p[s].end>>

CharOf(p, r, known) ==
  \E s \in DOMAIN p : \E c \in DOMAIN p[s].chars :
    /\ p[s].uuid = Services[Remotes[r].service]
    /\ p[s].chars[c].uuid = Remotes[r].uuid
    /\ known.handle = p[s].chars[c].handle /\ known.props = p[s].chars[c].props

TablesOfPeer ==
  /\ DOMAIN ranges = DOMAIN Services
  /\ \A j \in DOMAIN Services : ranges[j] = NoRange \/ RangeOf(dev.sd.peer, j, ranges[j])
  /\ \A r \in DOMAIN Remotes : remote[r] = Unknown \/ CharOf(dev.sd.peer, r, remote[r])

Blank ==
  /\ \A j \in DOMAIN Services : ranges[j] = NoRange
  /\ \A r \in DOMAIN Remotes : remote[r] = Unknown
  /\ ~discovered

(* What is being asked, and what is answered.                              *)
ServiceSought(p, handle, index) ==
  \E s \in DOMAIN p : /\ p[s].uuid = Services[index]
                      /\ handle \in Nat /\ p[s].start <= handle /\ handle <= p[s].end

CharsOf(p, found, index) ==
  /\ IsQueue(found) /\ Len(found) > 0
  /\ \E s \in DOMAIN p :
       /\ p[s].uuid = Services[index]
       /\ \A k \in DOMAIN found : \E c \in DOMAIN p[s].chars : found[k] = p[s].chars[c]

ServicesOf(p, found) ==
  IsQueue(found) /\ \A k \in DOMAIN found : \E s \in DOMAIN p : found[k] = p[s]

AnswerOf(p, e, index) ==
  /\ e.type = "CharDiscRsp" /\ e.ok => CharsOf(p, e.found, index)
  /\ e.type = "PrimSrvcDiscRsp" /\ e.ok => ServicesOf(p, e.found)

SearchOfPeer ==
  /\ dev.sd.client.kind = "chars" =>
       ServiceSought(dev.sd.peer, dev.sd.client.start, discoveryIndex)
  /\ \A i \in DOMAIN events : AnswerOf(dev.sd.peer, events[i], discoveryIndex)

Clients(client) ==
  client = Nothing \/ client.kind \in {"services", "chars", "read", "write"}

LinkOver ==
  /\ dev.sd.mode \in {"idle", "advertising"} => dev.sd.client = Nothing
  /\ dev.sd.mode = "advertising" => Blank
  /\ \A i \in DOMAIN events : events[i].type = "Connected" => Blank

HandleInv ==
  /\ Shape(dev) /\ IsQueue(events)
  /\ Table(dev.sd.peer) /\ Clients(dev.sd.client)
  /\ LinkOver /\ OneSearch /\ TablesOfPeer /\ SearchOfPeer

------------------------------------------------------------------------------
(* Steps that are not about the search.                                    *)
SdPlain(a, b) ==
  /\ b.peer = a.peer
  /\ b.mode \in {a.mode, "closing", "idle"}
  /\ a.mode \in {"idle", "advertising"} => b.mode = a.mode
  /\ b.mode = "idle" => b.client = Nothing
  /\ \/ b.client = a.client
     \/ b.client = Nothing
     \/ /\ a.client = Nothing /\ a.mode = "connected"
        /\ b.client.kind \in {"read", "write"}

LEMMA NothingKind ==
  /\ Nothing.kind = "none"
  /\ \A sd : sd.client = Nothing => ~Searching(sd)
BY DEF Nothing, Searching

LEMMA PlainFacts ==
  ASSUME NEW a, NEW b, SdPlain(a, b)
  PROVE  /\ Searching(b) => Searching(a)
         /\ b.client.kind = "chars" => b.client = a.client
         /\ Clients(a.client) => Clients(b.client)
<1>1. b.client = Nothing => b.client.kind = "none"
  BY DEF Nothing
<1>2. QED
  BY <1>1 DEF SdPlain, Searching, Clients

LEMMA PlainStep ==
  ASSUME HandleInv, Shape(dev'), SdPlain(dev.sd, dev'.sd),
         UNCHANGED <<ranges, remote, discoveryIndex, discovered>>,
         IsQueue(events'), NEW n \in {0, 1},
         \A i \in DOMAIN events' : SearchEvent(events'[i]) =>
           i + n \in DOMAIN events /\ events'[i] = events[i + n]
  PROVE  HandleInv'
<1>1. Table(dev'.sd.peer) /\ Clients(dev'.sd.client)
  BY PlainFacts DEF HandleInv, SdPlain
<1>2. DOMAIN events' \subseteq Int
  BY QueueFacts
<1>3. TablesOfPeer' /\ (Blank => Blank')
  BY DEF HandleInv, TablesOfPeer, Blank, SdPlain
<1>4. LinkOver'
  <2>1. dev'.sd.mode \in {"idle", "advertising"} => dev'.sd.client = Nothing
    <3>1. dev'.sd.mode = "advertising" =>
            dev.sd.mode = "advertising" /\ dev.sd.client = Nothing
      BY DEF HandleInv, LinkOver, SdPlain
    <3>2. QED
      BY <3>1 DEF SdPlain
  <2>2. dev'.sd.mode = "advertising" => Blank'
    BY <1>3 DEF HandleInv, LinkOver, SdPlain
  <2>3. \A i \in DOMAIN events' : events'[i].type = "Connected" => Blank'
    BY <1>3 DEF HandleInv, LinkOver, SearchEvent
  <2>4. QED
    BY <2>1, <2>2, <2>3 DEF LinkOver
<1>5. OneSearch'
  <2>1. ASSUME NEW i \in DOMAIN events', NEW j \in DOMAIN events',
               SearchEvent(events'[i]), SearchEvent(events'[j])
        PROVE  i = j
    <3>1. i + n = j + n
      BY <2>1 DEF HandleInv, OneSearch
    <3>2. QED
      BY <1>2, <3>1
  <2>2. \A i \in DOMAIN events' : SearchEvent(events'[i]) => ~Searching(dev'.sd) /\ ~discovered'
    BY PlainFacts DEF HandleInv, OneSearch
  <2>3. discovered' => ~Searching(dev'.sd)
    BY PlainFacts DEF HandleInv, OneSearch
  <2>4. QED
    BY <2>1, <2>2, <2>3 DEF OneSearch
<1>6. SearchOfPeer'
  <2>1. dev'.sd.client.kind = "chars" =>
          ServiceSought(dev'.sd.peer, dev'.sd.client.start, discoveryIndex')
    BY PlainFacts DEF HandleInv, SearchOfPeer, SdPlain
  <2>2. ASSUME NEW i \in DOMAIN events'
        PROVE  AnswerOf(dev'.sd.peer, events'[i], discoveryIndex')
    <3>1. CASE SearchEvent(events'[i])
      BY <3>1 DEF HandleInv, SearchOfPeer, SdPlain
    <3>2. CASE ~SearchEvent(events'[i])
      BY <3>2 DEF AnswerOf, SearchEvent
    <3>3. QED
      BY <3>1, <3>2
  <2>3. QED
    BY <2>1, <2>2 DEF SearchOfPeer
<1>7. QED
  BY <1>1, <1>3, <1>4, <1>5, <1>6 DEF HandleInv

LEMMA AsksPlain ==
  ASSUME NEW d, NEW e, Asks(d, e),
         d.sd.mode \in {"idle", "advertising"} => d.sd.client = Nothing
  PROVE  SdPlain(d.sd, e.sd)
BY DEF Asks, SdAsks, SdPlain

(* A call of the sketch, or a handler, when the search is not concerned.   *)
LEMMA PlainCall ==
  ASSUME HandleInv, NEW d, Asks(dev, d), dev' = d, UNCHANGED <<discovery, events>>
  PROVE  HandleInv'
<1>1. SdPlain(dev.sd, dev'.sd) /\ Shape(dev')
  BY AsksPlain DEF HandleInv, LinkOver, Asks
<1>2. DOMAIN events \subseteq Int /\ \A i \in DOMAIN events : i + 0 = i
  BY QueueFacts DEF HandleInv
<1>3. QED
  BY <1>1, <1>2, PlainStep DEF discovery, HandleInv

LEMMA PlainPop ==
  ASSUME HandleInv, Shape(dev'), SdPlain(dev.sd, dev'.sd), UNCHANGED discovery,
         events # << >>, events' = Tail(events)
  PROVE  HandleInv'
<1>1. /\ IsQueue(events') /\ Len(events) \in Nat
      /\ DOMAIN events = 1 .. Len(events) /\ DOMAIN events' = 1 .. Len(events) - 1
      /\ \A i \in 1 .. Len(events) - 1 : events'[i] = events[i + 1]
  BY TailFacts, QueueFacts DEF HandleInv
<1>2. \A i \in DOMAIN events' : i + 1 \in DOMAIN events /\ events'[i] = events[i + 1]
  BY <1>1
<1>3. QED
  BY <1>1, <1>2, PlainStep DEF discovery

LEMMA PlainPush ==
  ASSUME HandleInv, Shape(dev'), SdPlain(dev.sd, dev'.sd), UNCHANGED discovery,
         NEW e, ~SearchEvent(e), events' = Append(events, e)
  PROVE  HandleInv'
<1>1. /\ IsQueue(events') /\ Len(events) \in Nat
      /\ DOMAIN events = 1 .. Len(events) /\ DOMAIN events' = 1 .. Len(events) + 1
      /\ \A i \in 1 .. Len(events) : events'[i] = events[i]
      /\ events'[Len(events) + 1] = e
  BY AppendFacts, QueueFacts DEF HandleInv
<1>2. \A i \in DOMAIN events' : SearchEvent(events'[i]) =>
        i + 0 \in DOMAIN events /\ events'[i] = events[i + 0]
  <2> SUFFICES ASSUME NEW i \in DOMAIN events', SearchEvent(events'[i])
               PROVE  i + 0 \in DOMAIN events /\ events'[i] = events[i + 0]
    OBVIOUS
  <2>1. i # Len(events) + 1
    BY <1>1
  <2>2. i \in 1 .. Len(events) /\ i + 0 = i
    BY <1>1, <2>1
  <2>3. QED
    BY <1>1, <2>2
<1>3. QED
  BY <1>1, <1>2, PlainStep DEF discovery

(* poll() takes the one event of the search.                               *)
LEMMA SearchPop ==
  ASSUME HandleInv, events # << >>, SearchEvent(Head(events)), events' = Tail(events),
         Shape(dev'), dev'.sd.peer = dev.sd.peer, Clients(dev'.sd.client),
         dev'.sd.mode # "advertising",
         dev'.sd.mode = "idle" => dev'.sd.client = Nothing,
         discovered' => ~Searching(dev'.sd), TablesOfPeer',
         dev'.sd.client.kind = "chars" =>
           ServiceSought(dev'.sd.peer, dev'.sd.client.start, discoveryIndex')
  PROVE  HandleInv'
<1>1. /\ IsQueue(events') /\ Len(events) \in Nat
      /\ DOMAIN events = 1 .. Len(events) /\ DOMAIN events' = 1 .. Len(events) - 1
      /\ \A i \in 1 .. Len(events) - 1 : events'[i] = events[i + 1]
      /\ Head(events) = events[1] /\ 1 \in DOMAIN events
  BY TailFacts, QueueFacts DEF HandleInv
<1>2. ASSUME NEW i \in DOMAIN events' PROVE ~SearchEvent(events'[i])
  <2>1. i + 1 \in DOMAIN events /\ events'[i] = events[i + 1] /\ i + 1 # 1
    BY <1>1
  <2>2. SearchEvent(events[1]) /\ 1 \in DOMAIN events
    BY <1>1
  <2>3. QED
    BY <2>1, <2>2 DEF HandleInv, OneSearch
<1>3. OneSearch' /\ LinkOver'
  BY <1>2 DEF OneSearch, LinkOver, SearchEvent
<1>4. SearchOfPeer'
  BY <1>2 DEF SearchOfPeer, AnswerOf, SearchEvent
<1>5. QED
  BY <1>1, <1>3, <1>4 DEF HandleInv

------------------------------------------------------------------------------
(* The answers of the search.                                              *)
LEMMA NextFacts ==
  ASSUME NEW rs, DOMAIN rs = DOMAIN Services, NEW i, Discoverable(rs, i) # {}
  PROVE  /\ NextService(rs, i) \in DOMAIN Services
         /\ rs[NextService(rs, i)][1] # 0
<1> DEFINE D == Discoverable(rs, i)
           Least(x) == \A k \in D : x <= k
<1>1. D \subseteq DOMAIN Services /\ \A j \in D : rs[j][1] # 0
  BY DEF Discoverable
<1>2. DOMAIN Services \subseteq Nat
  BY ConstantsOK
<1>3. \E x \in D : Least(x)
  BY <1>1, <1>2, LeastExists
<1>4. NextService(rs, i) = CHOOSE x \in D : Least(x)
  BY DEF NextService
<1> HIDE DEF D, Least
<1>5. NextService(rs, i) \in D
  BY <1>3, <1>4
<1>6. QED
  BY <1>1, <1>5

(* The last of some answers that match.                                    *)
LEMMA LastFacts ==
  ASSUME NEW found, IsQueue(found), NEW mine, mine \subseteq DOMAIN found, mine # {}
  PROVE  (CHOOSE i \in mine : \A k \in mine : k <= i) \in mine
<1> DEFINE Greatest(x) == \A k \in mine : k <= x
<1>1. DOMAIN found = 1 .. Len(found) /\ Len(found) \in Nat
  BY QueueFacts
<1>2. \E x \in mine : Greatest(x)
  BY <1>1, GreatestExists
<1> HIDE DEF Greatest
<1>3. (CHOOSE i \in mine : Greatest(i)) \in mine
  BY <1>2
<1>4. QED
  BY <1>3 DEF Greatest

LEMMA RangesFromFacts ==
  ASSUME HandleInv, NEW found, ServicesOf(dev.sd.peer, found)
  PROVE  /\ DOMAIN RangesFrom(found) = DOMAIN Services
         /\ \A j \in DOMAIN Services : \/ RangesFrom(found)[j] = NoRange
                                      \/ RangeOf(dev.sd.peer, j, RangesFrom(found)[j])
<1>1. DOMAIN RangesFrom(found) = DOMAIN Services
  BY DEF RangesFrom
<1>2. ASSUME NEW j \in DOMAIN Services
      PROVE  \/ RangesFrom(found)[j] = NoRange
             \/ RangeOf(dev.sd.peer, j, RangesFrom(found)[j])
  <2> DEFINE mine == {i \in DOMAIN found : j \in Indices(found[i].uuid)}
             last == CHOOSE i \in mine : \A k \in mine : k <= i
  <2>1. RangesFrom(found)[j]
          = IF mine = {} THEN ranges[j] ELSE <<found[last].start, found[last].end>>
    BY DEF RangesFrom
  <2>2. CASE mine = {}
    BY <2>1, <2>2 DEF HandleInv, TablesOfPeer
  <2>3. CASE mine # {}
    <3>1. last \in mine
      BY <2>3, LastFacts DEF ServicesOf
    <3>2. last \in DOMAIN found /\ Services[j] = found[last].uuid
      BY <3>1 DEF Indices
    <3> HIDE DEF last
    <3>3. PICK s \in DOMAIN dev.sd.peer : found[last] = dev.sd.peer[s]
      BY <3>2 DEF ServicesOf
    <3>4. RangeOf(dev.sd.peer, j, <<found[last].start, found[last].end>>)
      BY <3>2, <3>3 DEF RangeOf
    <3>5. QED
      BY <2>1, <2>3, <3>4
  <2>4. QED
    BY <2>2, <2>3
<1>3. QED
  BY <1>1, <1>2

LEMMA RemoteFromFacts ==
  ASSUME HandleInv, NEW found, CharsOf(dev.sd.peer, found, discoveryIndex)
  PROVE  \A r \in DOMAIN Remotes : \/ RemoteFrom(found)[r] = Unknown
                                  \/ CharOf(dev.sd.peer, r, RemoteFrom(found)[r])
<1> SUFFICES ASSUME NEW r \in DOMAIN Remotes
             PROVE  \/ RemoteFrom(found)[r] = Unknown
                    \/ CharOf(dev.sd.peer, r, RemoteFrom(found)[r])
  OBVIOUS
<1> DEFINE mine == {i \in DOMAIN found : /\ Remotes[r].service = discoveryIndex
                                        /\ Remotes[r].uuid = found[i].uuid}
           last == CHOOSE i \in mine : \A k \in mine : k <= i
<1>1. RemoteFrom(found)[r]
        = IF mine = {} THEN remote[r]
          ELSE [handle |-> found[last].handle, props |-> found[last].props]
  BY DEF RemoteFrom
<1>2. CASE mine = {}
  BY <1>1, <1>2 DEF HandleInv, TablesOfPeer
<1>3. CASE mine # {}
  <2>1. last \in mine
    BY <1>3, LastFacts DEF CharsOf
  <2>2. /\ last \in DOMAIN found /\ Remotes[r].uuid = found[last].uuid
        /\ Remotes[r].service = discoveryIndex
    BY <2>1
  <2> HIDE DEF last
  <2>3. PICK s \in DOMAIN dev.sd.peer :
          /\ dev.sd.peer[s].uuid = Services[discoveryIndex]
          /\ \A k \in DOMAIN found : \E c \in DOMAIN dev.sd.peer[s].chars :
               found[k] = dev.sd.peer[s].chars[c]
    BY DEF CharsOf
  <2>4. PICK c \in DOMAIN dev.sd.peer[s].chars : found[last] = dev.sd.peer[s].chars[c]
    BY <2>2, <2>3
  <2> DEFINE known == [handle |-> found[last].handle, props |-> found[last].props]
  <2>5. known.handle = found[last].handle /\ known.props = found[last].props
    OBVIOUS
  <2>6. RemoteFrom(found)[r] = known
    BY <1>1, <1>3
  <2> HIDE DEF known, mine
  <2>7. CharOf(dev.sd.peer, r, known)
    BY <2>2, <2>3, <2>4, <2>5 DEF CharOf
  <2>8. QED
    BY <2>6, <2>7
<1>4. QED
  BY <1>2, <1>3

(* The requests of the search.                                             *)
Moves(d, e, q) ==
  e = d \/ e = [d EXCEPT !.sd = d.sd] \/ e = [d EXCEPT !.sd = Starts(d.sd, q)]

LEMMA SearchStarts ==
  ASSUME NEW d, Shape(d), NEW q, NEW e, Moves(d, e, q)
  PROVE  /\ Shape(e) /\ e.sd.peer = d.sd.peer /\ e.sd.mode = d.sd.mode
         /\ e.sd.client = d.sd.client \/ (e.sd.client = q /\ e.sd.mode = "connected")
         /\ e.conn = d.conn /\ e.requested = d.requested /\ e.tx = d.tx
         /\ e.sd.free = d.sd.free /\ e.sd.attrs = d.sd.attrs
         /\ d.sd.client # Nothing => e.sd.client = d.sd.client
<1>1. SdShape(d.sd)
  BY DEF Shape
<1>2. CASE e = d
  BY <1>2
<1>3. CASE e = [d EXCEPT !.sd = d.sd]
  BY <1>1, <1>3 DEF Shape
<1>4. CASE e = [d EXCEPT !.sd = Starts(d.sd, q)]
  <2>1. /\ SdShape(Starts(d.sd, q)) /\ Starts(d.sd, q).peer = d.sd.peer
        /\ Starts(d.sd, q).mode = d.sd.mode /\ Starts(d.sd, q).free = d.sd.free
        /\ Starts(d.sd, q).attrs = d.sd.attrs
        /\ \/ Starts(d.sd, q).client = d.sd.client
           \/ d.sd.mode = "connected" /\ Starts(d.sd, q).client = q
        /\ d.sd.client # Nothing => Starts(d.sd, q).client = d.sd.client
    BY <1>1 DEF Starts, SdShape
  <2> DEFINE sd == Starts(d.sd, q)
  <2>2. e = [d EXCEPT !.sd = sd]
    BY <1>4
  <2> HIDE DEF sd
  <2>3. Shape(e) /\ e.sd = sd /\ e.conn = d.conn /\ e.requested = d.requested /\ e.tx = d.tx
    BY <2>1, <2>2 DEF Shape, sd
  <2>4. QED
    BY <2>1, <2>3 DEF sd
<1>5. QED
  BY <1>2, <1>3, <1>4 DEF Moves

------------------------------------------------------------------------------
(* poll(), the events of the search.                                       *)
LEMMA SearchHead ==
  ASSUME IInv, HandleInv, events # << >>
  PROVE  /\ dev.sd.mode # "advertising"
         /\ SearchEvent(Head(events)) => ~Searching(dev.sd) /\ ~discovered
         /\ AnswerOf(dev.sd.peer, Head(events), discoveryIndex)
<1>1. Head(events) = events[1] /\ 1 \in DOMAIN events
  BY TailFacts DEF HandleInv
<1>2. QED
  BY <1>1 DEF IInv, LinksApart, HandleInv, OneSearch, SearchOfPeer

LEMMA ConnectedHandles == IInv /\ HandleInv /\ Connected => HandleInv'
<1> SUFFICES ASSUME IInv, HandleInv, Connected PROVE HandleInv'
  OBVIOUS
<1> DEFINE linked == [dev EXCEPT !.conn = TRUE, !.tx = dev.sd.free]
           q == [kind |-> "services", start |-> 1]
<1>1. PICK d \in AfterHandler("Connected", linked, notifySubscribed, indicateSubscribed) :
        dev' = IF Services = << >> THEN d
               ELSE [d EXCEPT !.sd = sd_ble_gattc_primary_services_discover(@, 1)]
  BY DEF Connected
<1>2. Shape(linked) /\ linked.sd = dev.sd
  BY DEF HandleInv, Shape
<1>3. Asks(linked, d)
  BY <1>2, HandlerAsks
<1> HIDE DEF linked
<1>4. SdPlain(dev.sd, d.sd) /\ Shape(d)
  BY <1>2, <1>3, AsksPlain DEF HandleInv, LinkOver, Asks
<1>5. Moves(d, dev', q)
  BY <1>1 DEF sd_ble_gattc_primary_services_discover, Moves
<1>6. q.kind = "services"
  OBVIOUS
<1> HIDE DEF q
<1>7. /\ Shape(dev') /\ dev'.sd.peer = d.sd.peer /\ dev'.sd.mode = d.sd.mode
      /\ dev'.sd.client = d.sd.client \/ (dev'.sd.client = q /\ dev'.sd.mode = "connected")
  BY <1>4, <1>5, SearchStarts
<1>8. /\ events # << >> /\ SearchEvent(Head(events)) /\ events' = Tail(events)
      /\ UNCHANGED discovery
  BY DEF Connected, Gets, SearchEvent
<1>9. ~Searching(dev.sd) /\ ~discovered /\ dev.sd.mode # "advertising"
  BY <1>8, SearchHead
<1>10. ~Searching(d.sd) /\ Clients(d.sd.client)
  BY <1>4, <1>9, PlainFacts DEF HandleInv
<1>11. Clients(dev'.sd.client) /\ dev'.sd.client.kind # "chars"
  BY <1>6, <1>7, <1>10 DEF Clients, Searching
<1>12. dev'.sd.peer = dev.sd.peer /\ dev'.sd.mode # "advertising"
  BY <1>4, <1>7, <1>9 DEF SdPlain
<1>13. dev'.sd.mode = "idle" => dev'.sd.client = Nothing
  BY <1>4, <1>7 DEF SdPlain
<1>14. TablesOfPeer' /\ ~discovered'
  BY <1>8, <1>9, <1>12 DEF discovery, HandleInv, TablesOfPeer
<1>15. QED
  BY <1>7, <1>8, <1>11, <1>12, <1>13, <1>14, SearchPop

(* What the answers do to the rest.                                        *)
LEMMA SearchGoesOn ==
  ASSUME IInv, HandleInv, events # << >>, SearchEvent(Head(events)), events' = Tail(events),
         NEW q, Moves(dev, dev', q), q.kind \in {"services", "chars"},
         q.kind = "chars" => ServiceSought(dev.sd.peer, q.start, discoveryIndex'),
         discovered' = discovered, DOMAIN ranges' = DOMAIN Services,
         \A j \in DOMAIN Services : ranges'[j] = NoRange \/ RangeOf(dev.sd.peer, j, ranges'[j]),
         \A r \in DOMAIN Remotes : remote'[r] = Unknown \/ CharOf(dev.sd.peer, r, remote'[r])
  PROVE  HandleInv'
<1>1. /\ Shape(dev') /\ dev'.sd.peer = dev.sd.peer /\ dev'.sd.mode = dev.sd.mode
      /\ dev'.sd.client = dev.sd.client \/ (dev'.sd.client = q /\ dev'.sd.mode = "connected")
  BY SearchStarts DEF HandleInv
<1>2. ~Searching(dev.sd) /\ ~discovered /\ dev.sd.mode # "advertising"
  BY SearchHead
<1>3. Clients(dev'.sd.client)
  <2>1. Clients(dev.sd.client)
    BY DEF HandleInv
  <2>2. Clients(q)
    BY DEF Clients
  <2>3. QED
    BY <1>1, <2>1, <2>2
<1>4. dev'.sd.client.kind = "chars" => dev'.sd.client = q
  BY <1>1, <1>2 DEF Searching
<1>5. dev'.sd.client.kind = "chars" =>
        ServiceSought(dev'.sd.peer, dev'.sd.client.start, discoveryIndex')
  BY <1>1, <1>4
<1>6. dev'.sd.mode = "idle" => dev'.sd.client = Nothing
  BY <1>1 DEF HandleInv, LinkOver
<1>7. TablesOfPeer' /\ ~discovered'
  BY <1>1, <1>2 DEF TablesOfPeer
<1>8. QED
  BY <1>1, <1>2, <1>3, <1>5, <1>6, <1>7, SearchPop

(* A search for characteristics starts where its service does.             *)
LEMMA ServiceStart ==
  ASSUME HandleInv, NEW rs, NEW j \in DOMAIN Services,
         rs[j] = NoRange \/ RangeOf(dev.sd.peer, j, rs[j]), rs[j][1] # 0
  PROVE  ServiceSought(dev.sd.peer, rs[j][1], j)
<1>1. RangeOf(dev.sd.peer, j, rs[j])
  BY DEF NoRange
<1>2. PICK s \in DOMAIN dev.sd.peer :
        /\ dev.sd.peer[s].uuid = Services[j]
        /\ rs[j] = <<dev.sd.peer[s].start, dev.sd.peer[s].end>>
  BY <1>1 DEF RangeOf
<1>3. /\ dev.sd.peer[s].start \in Handles
      /\ dev.sd.peer[s].start <= dev.sd.peer[s].end
  BY TableFacts DEF HandleInv
<1>4. dev.sd.peer[s].start \in Nat /\ rs[j][1] = dev.sd.peer[s].start
  BY <1>2, <1>3, HandleFacts
<1>5. QED
  BY <1>2, <1>3, <1>4 DEF ServiceSought

LEMMA PrimSrvcDiscRspHandles == IInv /\ HandleInv /\ PrimSrvcDiscRsp => HandleInv'
<1> SUFFICES ASSUME IInv, HandleInv, PrimSrvcDiscRsp PROVE HandleInv'
  OBVIOUS
<1>1. /\ events # << >> /\ Head(events).type = "PrimSrvcDiscRsp"
      /\ events' = Tail(events) /\ SearchEvent(Head(events))
      /\ UNCHANGED <<remote, discovered>>
  BY DEF PrimSrvcDiscRsp, Gets, SearchEvent
<1>2. AnswerOf(dev.sd.peer, Head(events), discoveryIndex)
  BY <1>1, SearchHead
<1>3. CASE Head(events).ok
  <2> DEFINE start == (Last(Head(events).found).end + 1) % 65536
  <2>1. /\ ranges' = RangesFrom(Head(events).found)
        /\ dev' = [dev EXCEPT !.sd = IF dev.conn
             THEN sd_ble_gattc_primary_services_discover(@, start) ELSE @]
    BY <1>3 DEF PrimSrvcDiscRsp
  <2> HIDE DEF start
  <2> DEFINE q == [kind |-> "services", start |-> start]
  <2>2. Moves(dev, dev', q)
    BY <2>1 DEF sd_ble_gattc_primary_services_discover, Moves
  <2>3. q.kind = "services"
    OBVIOUS
  <2> HIDE DEF q
  <2>4. ServicesOf(dev.sd.peer, Head(events).found)
    BY <1>1, <1>2, <1>3 DEF AnswerOf
  <2>5. /\ DOMAIN ranges' = DOMAIN Services
        /\ \A j \in DOMAIN Services :
             ranges'[j] = NoRange \/ RangeOf(dev.sd.peer, j, ranges'[j])
    BY <2>1, <2>4, RangesFromFacts
  <2>6. \A r \in DOMAIN Remotes : remote'[r] = Unknown \/ CharOf(dev.sd.peer, r, remote'[r])
    BY <1>1 DEF HandleInv, TablesOfPeer
  <2>7. QED
    BY <1>1, <2>2, <2>3, <2>5, <2>6, SearchGoesOn
<1>4. CASE ~Head(events).ok
  <2> DEFINE j == NextService(ranges, 0)
             q == [kind |-> "chars", start |-> ranges[j][1], end |-> ranges[j][2]]
  <2>1. /\ DOMAIN ranges' = DOMAIN Services /\ ranges' = ranges
        /\ \A i \in DOMAIN Services :
             ranges'[i] = NoRange \/ RangeOf(dev.sd.peer, i, ranges'[i])
    BY <1>4 DEF PrimSrvcDiscRsp, HandleInv, TablesOfPeer
  <2>2. \A r \in DOMAIN Remotes : remote'[r] = Unknown \/ CharOf(dev.sd.peer, r, remote'[r])
    BY <1>1 DEF HandleInv, TablesOfPeer
  <2>3. q.kind = "chars" /\ q.start = ranges[j][1]
    OBVIOUS
  <2>4. CASE Discoverable(ranges, 0) = {}
    <3> DEFINE p == [kind |-> "services"]
    <3>1. Moves(dev, dev', p) /\ p.kind = "services"
      BY <1>4, <2>4 DEF PrimSrvcDiscRsp, Moves
    <3> HIDE DEF p
    <3>2. QED
      BY <1>1, <2>1, <2>2, <3>1, SearchGoesOn
  <2>5. CASE Discoverable(ranges, 0) # {}
    <3>1. /\ discoveryIndex' = j
          /\ dev' = [dev EXCEPT !.sd = IF dev.conn
               THEN sd_ble_gattc_characteristics_discover(@, ranges[j]) ELSE @]
      BY <1>4, <2>5 DEF PrimSrvcDiscRsp
    <3>2. Moves(dev, dev', q)
      BY <3>1 DEF sd_ble_gattc_characteristics_discover, Moves
    <3> HIDE DEF q
    <3>3. j \in DOMAIN Services /\ ranges[j][1] # 0
      BY <2>1, <2>5, NextFacts
    <3> HIDE DEF j
    <3>4. ServiceSought(dev.sd.peer, q.start, discoveryIndex')
      BY <2>1, <2>3, <3>1, <3>3, ServiceStart
    <3>5. QED
      BY <1>1, <2>1, <2>2, <2>3, <3>2, <3>4, SearchGoesOn
  <2>6. QED
    BY <2>4, <2>5
<1>5. QED
  BY <1>3, <1>4

LEMMA CharDiscRspHandles == IInv /\ HandleInv /\ CharDiscRsp => HandleInv'
<1> SUFFICES ASSUME IInv, HandleInv, CharDiscRsp PROVE HandleInv'
  OBVIOUS
<1>1. /\ events # << >> /\ Head(events).type = "CharDiscRsp"
      /\ events' = Tail(events) /\ SearchEvent(Head(events))
      /\ UNCHANGED ranges
  BY DEF CharDiscRsp, Gets, SearchEvent
<1>2. AnswerOf(dev.sd.peer, Head(events), discoveryIndex)
  BY <1>1, SearchHead
<1>3. /\ DOMAIN ranges' = DOMAIN Services /\ ranges' = ranges
      /\ \A i \in DOMAIN Services :
           ranges'[i] = NoRange \/ RangeOf(dev.sd.peer, i, ranges'[i])
  BY <1>1 DEF HandleInv, TablesOfPeer
<1>4. CASE Head(events).ok
  <2> DEFINE found == Head(events).found
             range == <<Last(found).handle, ranges[discoveryIndex][2]>>
             q == [kind |-> "chars", start |-> range[1], end |-> range[2]]
  <2>1. /\ remote' = RemoteFrom(found)
        /\ dev' = [dev EXCEPT !.sd = IF dev.conn
             THEN sd_ble_gattc_characteristics_discover(@, range) ELSE @]
        /\ UNCHANGED <<discoveryIndex, discovered>>
    BY <1>4 DEF CharDiscRsp
  <2>2. Moves(dev, dev', q)
    BY <2>1 DEF sd_ble_gattc_characteristics_discover, Moves
  <2>3. q.kind = "chars" /\ q.start = Last(found).handle
    OBVIOUS
  <2>4. CharsOf(dev.sd.peer, found, discoveryIndex)
    BY <1>1, <1>2, <1>4 DEF AnswerOf
  <2> HIDE DEF q, range, found
  <2>5. \A r \in DOMAIN Remotes : remote'[r] = Unknown \/ CharOf(dev.sd.peer, r, remote'[r])
    BY <2>1, <2>4, RemoteFromFacts
  <2>6. ServiceSought(dev.sd.peer, q.start, discoveryIndex')
    <3>1. PICK s \in DOMAIN dev.sd.peer :
            /\ dev.sd.peer[s].uuid = Services[discoveryIndex]
            /\ \A k \in DOMAIN found : \E c \in DOMAIN dev.sd.peer[s].chars :
                 found[k] = dev.sd.peer[s].chars[c]
      BY <2>4 DEF CharsOf
    <3>2. Len(found) \in DOMAIN found /\ Last(found) = found[Len(found)]
      BY <2>4, QueueFacts DEF CharsOf, Last
    <3>3. PICK c \in DOMAIN dev.sd.peer[s].chars : Last(found) = dev.sd.peer[s].chars[c]
      BY <3>1, <3>2
    <3>4. /\ dev.sd.peer[s].start \in Handles /\ dev.sd.peer[s].end \in Handles
          /\ Last(found).handle \in dev.sd.peer[s].start .. dev.sd.peer[s].end
      BY <3>3, TableFacts DEF HandleInv
    <3>5. dev.sd.peer[s].start \in Nat /\ dev.sd.peer[s].end \in Nat
      BY <3>4, HandleFacts
    <3>6. /\ Last(found).handle \in Nat
          /\ dev.sd.peer[s].start <= Last(found).handle
          /\ Last(found).handle <= dev.sd.peer[s].end
      BY <3>4, <3>5
    <3>7. QED
      BY <2>1, <2>3, <3>1, <3>6 DEF ServiceSought
  <2>7. QED
    BY <1>1, <1>3, <2>1, <2>2, <2>3, <2>5, <2>6, SearchGoesOn
<1>5. CASE ~Head(events).ok /\ Discoverable(ranges, discoveryIndex) # {}
  <2> DEFINE j == NextService(ranges, discoveryIndex)
             q == [kind |-> "chars", start |-> ranges[j][1], end |-> ranges[j][2]]
  <2>1. /\ discoveryIndex' = j
        /\ dev' = [dev EXCEPT !.sd = IF dev.conn
             THEN sd_ble_gattc_characteristics_discover(@, ranges[j]) ELSE @]
        /\ UNCHANGED <<remote, discovered>>
    BY <1>5 DEF CharDiscRsp
  <2>2. Moves(dev, dev', q)
    BY <2>1 DEF sd_ble_gattc_characteristics_discover, Moves
  <2>3. q.kind = "chars" /\ q.start = ranges[j][1]
    OBVIOUS
  <2> HIDE DEF q
  <2>4. j \in DOMAIN Services /\ ranges[j][1] # 0
    BY <1>3, <1>5, NextFacts
  <2> HIDE DEF j
  <2>5. ServiceSought(dev.sd.peer, q.start, discoveryIndex')
    BY <1>3, <2>1, <2>3, <2>4, ServiceStart
  <2>6. \A r \in DOMAIN Remotes : remote'[r] = Unknown \/ CharOf(dev.sd.peer, r, remote'[r])
    BY <2>1 DEF HandleInv, TablesOfPeer
  <2>7. QED
    BY <1>1, <1>3, <2>1, <2>2, <2>3, <2>5, <2>6, SearchGoesOn
<1>6. CASE ~Head(events).ok /\ Discoverable(ranges, discoveryIndex) = {}
  <2>1. /\ dev' \in AfterHandler("Discovered", dev, notifySubscribed, indicateSubscribed)
        /\ UNCHANGED <<remote, discoveryIndex>>
    BY <1>6 DEF CharDiscRsp
  <2>2. Asks(dev, dev')
    BY <2>1, HandlerAsks DEF HandleInv
  <2>3. SdPlain(dev.sd, dev'.sd) /\ Shape(dev')
    BY <2>2, AsksPlain DEF HandleInv, LinkOver, Asks
  <2>4. ~Searching(dev.sd) /\ dev.sd.mode # "advertising"
    BY <1>1, SearchHead
  <2>5. /\ ~Searching(dev'.sd) /\ Clients(dev'.sd.client)
        /\ dev'.sd.peer = dev.sd.peer /\ dev'.sd.mode # "advertising"
        /\ dev'.sd.mode = "idle" => dev'.sd.client = Nothing
    BY <2>3, <2>4, PlainFacts DEF HandleInv, SdPlain
  <2>6. dev'.sd.client.kind # "chars"
    BY <2>5 DEF Searching
  <2>7. TablesOfPeer'
    BY <1>1, <2>1, <2>5 DEF HandleInv, TablesOfPeer
  <2>8. QED
    BY <1>1, <2>3, <2>5, <2>6, <2>7, SearchPop
<1>7. QED
  BY <1>4, <1>5, <1>6

------------------------------------------------------------------------------
(* poll(), the other events of a link: what the driver does before the     *)
(* handler, if any, is called.                                             *)
QuietPoll ==
  \/ TxComplete \/ SecParamsRequest \/ SecInfoRequest \/ AuthStatus \/ ValueWritten
  \/ CccdWritten \/ SysAttrMissing \/ ReadRsp \/ WriteRsp \/ Hvx \/ Ignored

Handled(e) ==
  /\ Shape(e) /\ e.conn = dev.conn
  /\ e.sd.mode = dev.sd.mode /\ e.sd.peer = dev.sd.peer /\ e.sd.client = dev.sd.client
  /\ Head(events).type # "SysAttrMissing" => e.sd.attrs = dev.sd.attrs
  /\ IF Head(events).type \in {"ReadRsp", "WriteRsp"} THEN e.requested = FALSE
     ELSE e.requested = dev.requested
  /\ IF Head(events).type = "TxComplete"
     THEN e.tx = (dev.tx + Head(events).count) % 256 /\ e.sd.free = dev.sd.free
     ELSE Spends(dev, e)

Leaves(e) ==
  \/ dev' = e
  \/ \E h, n, i : h # "Discovered" /\ dev' \in AfterHandler(h, e, n, i)

LEMMA QuietHead ==
  ASSUME QuietPoll
  PROVE  /\ events # << >> /\ events' = Tail(events)
         /\ ~SearchEvent(Head(events)) /\ Head(events).type # "Disconnected"
         /\ UNCHANGED discovery
BY DEF QuietPoll, TxComplete, SecParamsRequest, SecInfoRequest, AuthStatus, ValueWritten,
       CccdWritten, SysAttrMissing, ReadRsp, WriteRsp, Hvx, Ignored, Gets, SearchEvent

LEMMA QuietPolled ==
  ASSUME Shape(dev), QuietPoll
  PROVE  \E e : Handled(e) /\ Leaves(e)
<1> DEFINE type == Head(events).type
<1>1. SdShape(dev.sd) /\ Spends(dev, dev)
  BY DEF Shape, Spends
<1>2. type \notin {"TxComplete", "ReadRsp", "WriteRsp"} => Handled(dev)
  BY <1>1 DEF Handled
<1>3. ASSUME NEW sd, SdShape(sd), sd.mode = dev.sd.mode, sd.peer = dev.sd.peer,
             sd.client = dev.sd.client, sd.free = dev.sd.free,
             sd.attrs = dev.sd.attrs \/ type = "SysAttrMissing",
             type \notin {"TxComplete", "ReadRsp", "WriteRsp"}
      PROVE  Handled([dev EXCEPT !.sd = sd])
  <2> DEFINE e == [dev EXCEPT !.sd = sd]
  <2>1. /\ Shape(e) /\ e.sd = sd /\ e.conn = dev.conn /\ e.tx = dev.tx
        /\ e.requested = dev.requested
    BY <1>3 DEF Shape
  <2> HIDE DEF e
  <2>2. Spends(dev, e)
    BY <1>3, <2>1 DEF Spends
  <2>3. Handled(e)
    BY <1>3, <2>1, <2>2 DEF Handled
  <2>4. QED
    BY <2>3 DEF e
<1>4. CASE TxComplete
  <2> DEFINE count == (dev.tx + Head(events).count) % 256
             e == [dev EXCEPT !.tx = count]
  <2>1. dev' = e /\ type = "TxComplete"
    BY <1>4 DEF TxComplete, Gets
  <2> HIDE DEF count
  <2>2. /\ Shape(e) /\ e.sd = dev.sd /\ e.conn = dev.conn /\ e.tx = count
        /\ e.requested = dev.requested
    BY DEF Shape
  <2> HIDE DEF e
  <2>3. Handled(e)
    BY <2>1, <2>2 DEF Handled, count
  <2>4. QED
    BY <2>1, <2>3 DEF Leaves
<1>5. CASE SecParamsRequest \/ SecInfoRequest
  <2>1. PICK sd : /\ dev' = [dev EXCEPT !.sd = IF dev.conn THEN sd ELSE @]
                  /\ \/ \E x : sd = sd_ble_gap_sec_params_reply(dev.sd, x)
                     \/ \E x, y : sd = sd_ble_gap_sec_info_reply(dev.sd, x, y)
    BY <1>5 DEF SecParamsRequest, SecInfoRequest
  <2>2. /\ SdShape(sd) /\ sd.mode = dev.sd.mode /\ sd.peer = dev.sd.peer
        /\ sd.client = dev.sd.client /\ sd.free = dev.sd.free /\ sd.attrs = dev.sd.attrs
    BY <1>1, <2>1 DEF SdShape, sd_ble_gap_sec_params_reply, sd_ble_gap_sec_info_reply
  <2> DEFINE t == IF dev.conn THEN sd ELSE dev.sd
  <2>3. /\ SdShape(t) /\ t.mode = dev.sd.mode /\ t.peer = dev.sd.peer
        /\ t.client = dev.sd.client /\ t.free = dev.sd.free /\ t.attrs = dev.sd.attrs
    BY <1>1, <2>2
  <2>4. type \notin {"TxComplete", "ReadRsp", "WriteRsp"}
    BY <1>5 DEF SecParamsRequest, SecInfoRequest, Gets
  <2>5. dev' = [dev EXCEPT !.sd = t]
    BY <2>1
  <2> HIDE DEF t
  <2>6. Handled([dev EXCEPT !.sd = t])
    BY <1>3, <2>3, <2>4
  <2>7. QED
    BY <2>5, <2>6 DEF Leaves
<1>6. CASE AuthStatus
  <2>1. type = "AuthStatus"
        /\ (dev' = dev \/ dev' \in AfterHandler("Bonded", dev, notifySubscribed, indicateSubscribed))
    BY <1>6 DEF AuthStatus, Gets
  <2>2. QED
    BY <1>2, <2>1 DEF Leaves
<1>7. CASE ValueWritten
  <2> DEFINE set == updateCharacteristicValue(dev, notifySubscribed,
                                              indicateSubscribed, Head(events).char)
  <2>1. /\ type = "Write"
        /\ dev' \in AfterHandler("Written", set, notifySubscribed, indicateSubscribed)
    BY <1>7 DEF ValueWritten, Gets
  <2>2. Quiet(dev, set) /\ Keeps(dev, set)
    BY UpdateQuiet, UpdateKeeps
  <2>3. set.sd.client = dev.sd.client /\ set.sd.mode = dev.sd.mode
    BY UpdateSameSearch
  <2> HIDE DEF set
  <2>4. Handled(set)
    BY <2>1, <2>2, <2>3 DEF Handled, Quiet, Asks, SdAsks
  <2>5. QED
    BY <2>1, <2>4 DEF Leaves
<1>8. CASE CccdWritten
  <2>1. /\ type = "Write"
        /\ \/ dev' = dev
           \/ dev' \in AfterHandler("Subscribed", dev, notifySubscribed', indicateSubscribed')
    BY <1>8 DEF CccdWritten, Gets
  <2>2. QED
    BY <1>2, <2>1 DEF Leaves
<1>9. CASE SysAttrMissing
  <2> DEFINE t == IF dev.conn THEN sd_ble_gatts_sys_attr_set(dev.sd) ELSE dev.sd
  <2>1. dev' = [dev EXCEPT !.sd = t] /\ type = "SysAttrMissing"
    BY <1>9 DEF SysAttrMissing, Gets
  <2>2. /\ SdShape(t) /\ t.mode = dev.sd.mode /\ t.peer = dev.sd.peer
        /\ t.client = dev.sd.client /\ t.free = dev.sd.free
    BY <1>1 DEF SdShape, sd_ble_gatts_sys_attr_set
  <2> HIDE DEF t
  <2>3. Handled([dev EXCEPT !.sd = t])
    BY <1>3, <2>1, <2>2
  <2>4. QED
    BY <2>1, <2>3 DEF Leaves
<1>10. CASE ReadRsp \/ WriteRsp
  <2> DEFINE e == [dev EXCEPT !.requested = FALSE]
  <2>1. /\ type \in {"ReadRsp", "WriteRsp"}
        /\ \/ dev' = e
           \/ dev' \in AfterHandler("Updated", e, notifySubscribed, indicateSubscribed)
    BY <1>10 DEF ReadRsp, WriteRsp, Gets
  <2>2. /\ Shape(e) /\ e.sd = dev.sd /\ e.conn = dev.conn /\ e.tx = dev.tx
        /\ e.requested = FALSE
    BY DEF Shape
  <2> HIDE DEF e
  <2>3. Spends(dev, e)
    BY <2>2 DEF Spends
  <2>4. Handled(e)
    BY <2>1, <2>2, <2>3 DEF Handled
  <2>5. QED
    BY <2>1, <2>4 DEF Leaves
<1>11. CASE Hvx
  <2> DEFINE t == [dev.sd EXCEPT !.unconfirmed = FALSE]
             e == IF Head(events).indication /\ dev.conn
                  THEN [dev EXCEPT !.sd = t] ELSE dev
  <2>1. /\ type = "Hvx"
        /\ \/ dev' = e
           \/ dev' \in AfterHandler("Updated", e, notifySubscribed, indicateSubscribed)
    BY <1>11 DEF Hvx, Gets
  <2>2. /\ SdShape(t) /\ t.mode = dev.sd.mode /\ t.peer = dev.sd.peer
        /\ t.client = dev.sd.client /\ t.free = dev.sd.free /\ t.attrs = dev.sd.attrs
    BY <1>1 DEF SdShape
  <2> HIDE DEF t
  <2>3. Handled(e)
    BY <1>2, <1>3, <2>1, <2>2
  <2>4. QED
    BY <2>1, <2>3 DEF Leaves
<1>12. CASE Ignored
  BY <1>2, <1>12 DEF Ignored, Gets, Leaves
<1>13. QED
  BY <1>4, <1>5, <1>6, <1>7, <1>8, <1>9, <1>10, <1>11, <1>12 DEF QuietPoll

LEMMA QuietPollHandles ==
  ASSUME IInv', HandleInv, QuietPoll
  PROVE  HandleInv'
<1>1. PICK e : Handled(e) /\ Leaves(e)
  BY QuietPolled DEF HandleInv
<1>2. Asks(e, dev')
  BY <1>1, HandlerAsks DEF Leaves, Handled, Asks, SdAsks
<1>3. e.sd.mode \in {"idle", "advertising"} => e.sd.client = Nothing
  BY <1>1 DEF Handled, HandleInv, LinkOver
<1>4. SdPlain(e.sd, dev'.sd)
  BY <1>2, <1>3, AsksPlain
<1>5. SdPlain(dev.sd, dev'.sd)
  BY <1>1, <1>4 DEF Handled, SdPlain
<1>6. QED
  BY <1>5, QuietHead, PlainPop DEF IInv

------------------------------------------------------------------------------
(* The end of a link and the restarts: nothing is known any more.          *)
LEMMA BlankAgain ==
  ASSUME Shape(dev'), IsQueue(events'), DOMAIN events' = {}, Table(dev'.sd.peer),
         Blank', DOMAIN ranges' = DOMAIN Services, dev'.sd.client = Nothing
  PROVE  HandleInv'
<1>1. dev'.sd.client.kind = "none" /\ ~Searching(dev'.sd)
  BY DEF Nothing, Searching
<1>2. Clients(dev'.sd.client) /\ LinkOver' /\ TablesOfPeer'
  BY DEF Clients, LinkOver, TablesOfPeer, Blank
<1>3. OneSearch' /\ SearchOfPeer'
  BY <1>1 DEF OneSearch, SearchOfPeer, Blank
<1>4. QED
  BY <1>2, <1>3 DEF HandleInv

LEMMA InitHandles == Init => HandleInv
<1> SUFFICES ASSUME Init PROVE HandleInv
  OBVIOUS
<1>1. /\ Shape(dev) /\ dev.sd.client = Nothing /\ dev.sd.peer = << >>
      /\ events = << >>
  BY DEF Init, Begun, Enabled, sd_ble_gap_adv_start, Shape, SdShape
<1>2. IsQueue(events) /\ DOMAIN events = {} /\ Table(dev.sd.peer)
  <2>1. << >> \in Seq({}) /\ DOMAIN << >> = {}
    OBVIOUS
  <2>2. QED
    BY <1>1, <2>1 DEF IsQueue, Table
<1>3. Blank /\ DOMAIN ranges = DOMAIN Services
  BY DEF Init, Blank
<1>4. dev.sd.client.kind = "none" /\ ~Searching(dev.sd)
  BY <1>1 DEF Nothing, Searching
<1>5. Clients(dev.sd.client) /\ LinkOver /\ TablesOfPeer
  BY <1>1, <1>2, <1>3 DEF Clients, LinkOver, TablesOfPeer, Blank
<1>6. OneSearch /\ SearchOfPeer
  BY <1>2, <1>3, <1>4 DEF OneSearch, SearchOfPeer, Blank
<1>7. QED
  BY <1>1, <1>2, <1>5, <1>6 DEF HandleInv

LEMMA RestartHandles ==
  ASSUME IInv', PowerCycle \/ EndAndBegin
  PROVE  HandleInv'
<1>1. dev'.sd.client = Nothing /\ dev'.sd.peer = << >>
  <2>1. dev'.sd = Begun(Enabled(dev.sd.peerKey))
    <3>1. CASE PowerCycle
      BY <3>1 DEF PowerCycle
    <3>2. CASE EndAndBegin
      <4>1. dev' = [dev EXCEPT !.sd = Begun(Enabled(@.peerKey))]
        BY <3>2 DEF EndAndBegin
      <4>2. "sd" \in DOMAIN dev'
        BY DEF IInv, Shape
      <4>3. QED
        BY <4>1, <4>2
    <3>3. QED
      BY <3>1, <3>2
  <2>2. QED
    BY <2>1 DEF Begun, Enabled, sd_ble_gap_adv_start
<1>2. events' = << >> /\ DOMAIN << >> = {} /\ DOMAIN events' = {}
  BY DEF PowerCycle, EndAndBegin, Begins
<1>3. Blank' /\ DOMAIN ranges' = DOMAIN Services
  BY DEF PowerCycle, EndAndBegin, Begins, Blank
<1>4. Shape(dev') /\ IsQueue(events') /\ Table(dev'.sd.peer)
  BY <1>1 DEF IInv, Table
<1>5. QED
  BY <1>1, <1>2, <1>3, <1>4, BlankAgain

(* The handlers of the end of the link call, and then it is forgotten.     *)
LEMMA UnlinkAsks ==
  ASSUME NEW d, Shape(d), NEW e \in AfterUnlink(d)
  PROVE  Asks(d, e) /\ Spends(d, e)
<1>1. \E n, i : e \in AfterHandler("Disconnected", d, n, i)
  BY DEF AfterUnlink
<1>2. QED
  BY <1>1, HandlerAsks

LEMMA AdvertisingSame ==
  ASSUME NEW d, Shape(d)
  PROVE  /\ startAdvertising([d EXCEPT !.requested = FALSE]).sd = sd_ble_gap_adv_start(d.sd)
         /\ startAdvertising([d EXCEPT !.requested = FALSE]).conn = d.conn
         /\ startAdvertising([d EXCEPT !.requested = FALSE]).tx = d.tx
         /\ startAdvertising([d EXCEPT !.requested = FALSE]).requested = FALSE
         /\ sd_ble_gap_adv_start(d.sd).client = d.sd.client
         /\ sd_ble_gap_adv_start(d.sd).peer = d.sd.peer
         /\ sd_ble_gap_adv_start(d.sd).free = d.sd.free
         /\ sd_ble_gap_adv_start(d.sd).attrs = d.sd.attrs
         /\ sd_ble_gap_adv_start(d.sd).mode =
              IF d.sd.mode = "idle" THEN "advertising" ELSE d.sd.mode
<1> DEFINE e == [d EXCEPT !.requested = FALSE]
           sd == sd_ble_gap_adv_start(d.sd)
<1>1. SdShape(d.sd) /\ Shape(e) /\ e.sd = d.sd /\ e.conn = d.conn /\ e.tx = d.tx
      /\ e.requested = FALSE
  BY DEF Shape
<1>2. startAdvertising(e) = [e EXCEPT !.sd = sd]
  BY <1>1 DEF startAdvertising
<1>3. /\ sd.client = d.sd.client /\ sd.peer = d.sd.peer /\ sd.free = d.sd.free
      /\ sd.attrs = d.sd.attrs
      /\ sd.mode = IF d.sd.mode = "idle" THEN "advertising" ELSE d.sd.mode
  BY <1>1 DEF sd_ble_gap_adv_start, SdShape
<1> HIDE DEF e, sd
<1>4. /\ [e EXCEPT !.sd = sd].sd = sd /\ [e EXCEPT !.sd = sd].conn = e.conn
      /\ [e EXCEPT !.sd = sd].tx = e.tx /\ [e EXCEPT !.sd = sd].requested = e.requested
  BY <1>1 DEF Shape
<1>5. /\ startAdvertising(e).sd = sd /\ startAdvertising(e).conn = d.conn
      /\ startAdvertising(e).tx = d.tx /\ startAdvertising(e).requested = FALSE
  BY <1>1, <1>2, <1>4
<1>6. QED
  BY <1>3, <1>5 DEF e, sd

(* What is left after the end of a link: an empty queue, and advertising.  *)
LEMMA Unlinks ==
  ASSUME IInv, HandleInv, Disconnected
  PROVE  /\ events # << >> /\ events' = Tail(events) /\ DOMAIN events' = {}
         /\ events' = << >>
         /\ dev'.sd.peer = dev.sd.peer /\ dev'.sd.client = Nothing
         /\ dev'.sd.mode = "advertising" /\ dev'.requested = FALSE
         /\ dev'.conn = FALSE
         /\ dev.sd.free \in Nat => dev'.tx = 0 /\ dev'.sd.free = dev.sd.free
         /\ dev'.sd.attrs = dev.sd.attrs
<1> DEFINE unlinked == [dev EXCEPT !.conn = FALSE, !.tx = 0]
<1>1. PICK d \in AfterUnlink(unlinked) : dev' = startAdvertising([d EXCEPT !.requested = FALSE])
  BY DEF Disconnected
<1>2. /\ Shape(unlinked) /\ unlinked.sd = dev.sd /\ unlinked.conn = FALSE
      /\ unlinked.tx = 0
  BY DEF HandleInv, Shape
<1> HIDE DEF unlinked
<1>3. Asks(unlinked, d) /\ Spends(unlinked, d)
  BY <1>2, UnlinkAsks
<1>4. /\ events # << >> /\ events' = Tail(events) /\ Head(events) = events[1]
      /\ 1 \in DOMAIN events /\ events[1].type = "Disconnected"
      /\ Len(events) \in Nat /\ DOMAIN events' = 1 .. Len(events) - 1
      /\ Len(events') = Len(events) - 1
  BY TailFacts, QueueFacts DEF HandleInv, Disconnected, Gets
<1>5. Len(events) = 1 /\ dev.sd.mode = "idle"
  BY <1>4 DEF IInv, LinksApart
<1>6. /\ Shape(d) /\ d.conn = FALSE /\ d.sd.peer = dev.sd.peer
      /\ d.sd.client = Nothing /\ d.sd.mode = "idle" /\ d.sd.attrs = dev.sd.attrs
  BY <1>2, <1>3, <1>5 DEF Asks, SdAsks, HandleInv, LinkOver
<1>7. /\ dev.sd.free \in Nat => d.tx = 0 /\ d.sd.free = dev.sd.free
  BY <1>2, <1>3 DEF Spends
<1>8. events' = << >> /\ DOMAIN events' = {}
  <2>1. IsQueue(events')
    BY <1>4, TailFacts DEF HandleInv
  <2>2. Len(events') = 0
    BY <1>4, <1>5
  <2>3. PICK S : events' \in Seq(S)
    BY <2>1 DEF IsQueue
  <2>4. events' = << >>
    BY <2>2, <2>3
  <2>5. QED
    BY <1>4, <1>5, <2>4
<1>9. QED
  BY <1>1, <1>4, <1>6, <1>7, <1>8, AdvertisingSame

LEMMA DisconnectedHandles ==
  ASSUME IInv, IInv', HandleInv, Disconnected
  PROVE  HandleInv'
<1>1. /\ DOMAIN events' = {} /\ dev'.sd.peer = dev.sd.peer /\ dev'.sd.client = Nothing
  BY Unlinks
<1>2. Blank' /\ DOMAIN ranges' = DOMAIN Services
  BY DEF Disconnected, Blank, HandlesCleared
<1>3. Shape(dev') /\ IsQueue(events') /\ Table(dev'.sd.peer)
  BY <1>1 DEF IInv, HandleInv
<1>4. QED
  BY <1>1, <1>2, <1>3, BlankAgain

LEMMA CallHandles == HandleInv /\ Call => HandleInv'
<1> SUFFICES ASSUME HandleInv, Call PROVE HandleInv'
  OBVIOUS
<1>1. PICK a \in LoopCalls : dev' = Called(dev, notifySubscribed, indicateSubscribed, a)
  BY DEF Call, Allowed
<1>2. UNCHANGED <<discovery, events>>
  BY DEF Call
<1>3. Asks(dev, dev')
  BY <1>1, ConstantsOK, CalledAsks DEF HandleInv
<1>4. QED
  BY <1>2, <1>3, PlainCall

------------------------------------------------------------------------------
(* The SoftDevice and the peer.                                            *)
QuietStep ==
  \/ PeerMeetsNoAttrs \/ PeerSubscribes \/ PeerWrites \/ PeerConfirms \/ PeerPairs
  \/ PairingEnds \/ PeerEncrypts \/ PeerNotifies

LEMMA EmitsDevice ==
  ASSUME Shape(dev), NEW sd, NEW e, SdShape(sd), Emits(sd, e)
  PROVE  /\ events' = Append(events, e) /\ UNCHANGED discovery
         /\ Shape(dev') /\ dev'.sd = sd
         /\ dev'.conn = dev.conn /\ dev'.tx = dev.tx /\ dev'.requested = dev.requested
BY DEF Shape, Emits

SdQuiet(a, b) ==
  /\ SdShape(b) /\ b.peer = a.peer /\ b.mode = a.mode /\ b.client = a.client
  /\ b.free = a.free /\ (b.attrs = "set" => a.attrs = "set")

QuietEvent(e) ==
  e.type \notin {"Connected", "PrimSrvcDiscRsp", "CharDiscRsp", "Disconnected", "TxComplete"}

(* What these steps leave alone, and what they tell.                       *)
LEMMA QuietStepDevice ==
  ASSUME Shape(dev), QuietStep
  PROVE  /\ \E e : events' = Append(events, e) /\ QuietEvent(e)
         /\ UNCHANGED discovery /\ Up
         /\ Shape(dev') /\ SdQuiet(dev.sd, dev'.sd)
         /\ dev'.conn = dev.conn /\ dev'.tx = dev.tx /\ dev'.requested = dev.requested
<1>1. SdShape(dev.sd) /\ SdQuiet(dev.sd, dev.sd)
  BY DEF Shape, SdQuiet
<1>2. ASSUME NEW x
      PROVE  /\ x # "set" => SdQuiet(dev.sd, [dev.sd EXCEPT !.attrs = x])
             /\ SdQuiet(dev.sd, [dev.sd EXCEPT !.cccd = x])
             /\ SdQuiet(dev.sd, [dev.sd EXCEPT !.indicating = x])
             /\ SdQuiet(dev.sd, [dev.sd EXCEPT !.pairing = x])
             /\ SdQuiet(dev.sd, [dev.sd EXCEPT !.security = x])
             /\ SdQuiet(dev.sd, [dev.sd EXCEPT !.unconfirmed = x])
  BY <1>1 DEF SdShape, SdQuiet
<1>3. CASE PairingEnds
  <2>1. PICK success, k, key, security :
          /\ dev' = [dev EXCEPT !.sd.pairing = "no", !.sd.peerKey = key,
                                !.sd.security = security]
          /\ events' = Append(events, [type |-> "AuthStatus", success |-> success])
          /\ UNCHANGED discovery /\ Up
    BY <1>3 DEF PairingEnds
  <2>2. /\ Shape(dev') /\ SdQuiet(dev.sd, dev'.sd)
        /\ dev'.conn = dev.conn /\ dev'.tx = dev.tx /\ dev'.requested = dev.requested
    BY <1>1, <2>1 DEF Shape, SdShape, SdQuiet
  <2>3. QuietEvent([type |-> "AuthStatus", success |-> success])
    BY DEF QuietEvent
  <2>4. QED
    BY <2>1, <2>2, <2>3
<1>4. CASE ~PairingEnds
  <2>1. PICK sd, e : Emits(sd, e) /\ QuietEvent(e) /\ SdQuiet(dev.sd, sd)
    <3>1. CASE PeerMeetsNoAttrs
      <4> DEFINE e == [type |-> "SysAttrMissing"]
      <4>1. Emits([dev.sd EXCEPT !.attrs = "asked"], e) /\ QuietEvent(e)
        BY <3>1 DEF PeerMeetsNoAttrs, QuietEvent
      <4>2. QED
        BY <1>2, <4>1
    <3>2. CASE PeerSubscribes
      <4>1. PICK c, bits :
              Emits([dev.sd EXCEPT !.cccd[c] = bits],
                    [type |-> "Write", cccd |-> TRUE, char |-> c, bits |-> bits])
        BY <3>2 DEF PeerSubscribes
      <4> DEFINE e == [type |-> "Write", cccd |-> TRUE, char |-> c, bits |-> bits]
                 sd == [dev.sd EXCEPT !.cccd[c] = bits]
      <4>2. QuietEvent(e) /\ SdQuiet(dev.sd, sd)
        BY <1>1 DEF QuietEvent, SdShape, SdQuiet
      <4>3. QED
        BY <4>1, <4>2
    <3>3. CASE PeerWrites
      <4>1. PICK c : Emits(dev.sd, [type |-> "Write", cccd |-> FALSE, char |-> c])
        BY <3>3 DEF PeerWrites
      <4>2. QuietEvent([type |-> "Write", cccd |-> FALSE, char |-> c])
        BY DEF QuietEvent
      <4>3. QED
        BY <1>1, <4>1, <4>2
    <3>4. CASE PeerConfirms
      <4> DEFINE e == [type |-> "Other"]
      <4>1. Emits([dev.sd EXCEPT !.indicating = FALSE], e) /\ QuietEvent(e)
        BY <3>4 DEF PeerConfirms, QuietEvent
      <4>2. QED
        BY <1>2, <4>1
    <3>5. CASE PeerPairs
      <4> DEFINE e == [type |-> "SecParamsRequest"]
      <4>1. Emits([dev.sd EXCEPT !.pairing = "asked"], e) /\ QuietEvent(e)
        BY <3>5 DEF PeerPairs, QuietEvent
      <4>2. QED
        BY <1>2, <4>1
    <3>6. CASE PeerEncrypts
      <4> DEFINE e == [type |-> "SecInfoRequest", key |-> dev.sd.peerKey]
      <4>1. Emits([dev.sd EXCEPT !.security = "asked"], e) /\ QuietEvent(e)
        BY <3>6 DEF PeerEncrypts, QuietEvent
      <4>2. QED
        BY <1>2, <4>1
    <3>7. CASE PeerNotifies
      <4>1. PICK r \in DOMAIN Remotes, indication \in BOOLEAN :
              Emits([dev.sd EXCEPT !.unconfirmed = @ \/ indication],
                    [type |-> "Hvx", handle |-> remote[r].handle, indication |-> indication])
        BY <3>7 DEF PeerNotifies
      <4> DEFINE e == [type |-> "Hvx", handle |-> remote[r].handle, indication |-> indication]
                 sd == [dev.sd EXCEPT !.unconfirmed = @ \/ indication]
      <4>2. QuietEvent(e)
        BY DEF QuietEvent
      <4>3. SdQuiet(dev.sd, sd)
        BY <1>1 DEF SdQuiet, SdShape
      <4>4. QED
        BY <4>1, <4>2, <4>3
    <3>8. QED
      BY <1>4, <3>1, <3>2, <3>3, <3>4, <3>5, <3>6, <3>7 DEF QuietStep
  <2>2. Up
    BY <1>4 DEF QuietStep, PeerMeetsNoAttrs, PeerSubscribes, PeerWrites, PeerConfirms,
               PeerPairs, PeerEncrypts, PeerNotifies
  <2>3. /\ events' = Append(events, e) /\ UNCHANGED discovery
        /\ Shape(dev') /\ dev'.sd = sd
        /\ dev'.conn = dev.conn /\ dev'.tx = dev.tx /\ dev'.requested = dev.requested
    BY <2>1, EmitsDevice DEF SdQuiet
  <2>4. QED
    BY <2>1, <2>2, <2>3
<1>5. QED
  BY <1>3, <1>4

LEMMA PacketsSentDevice ==
  ASSUME Shape(dev), PacketsSent
  PROVE  \E n \in 1 .. TxTotal - dev.sd.free :
           /\ events' = Append(events, [type |-> "TxComplete", count |-> n])
           /\ UNCHANGED discovery /\ Up
           /\ Shape(dev') /\ dev'.sd.peer = dev.sd.peer /\ dev'.sd.mode = dev.sd.mode
           /\ dev'.sd.client = dev.sd.client /\ dev'.sd.attrs = dev.sd.attrs
           /\ dev'.sd.free = dev.sd.free + n
           /\ dev'.conn = dev.conn /\ dev'.tx = dev.tx /\ dev'.requested = dev.requested
<1>1. PICK n \in 1 .. TxTotal - dev.sd.free :
        Emits([dev.sd EXCEPT !.free = @ + n], [type |-> "TxComplete", count |-> n])
  BY DEF PacketsSent
<1> DEFINE e == [type |-> "TxComplete", count |-> n]
           sd == [dev.sd EXCEPT !.free = @ + n]
<1>2. /\ SdShape(sd) /\ sd.peer = dev.sd.peer /\ sd.mode = dev.sd.mode
      /\ sd.client = dev.sd.client /\ sd.attrs = dev.sd.attrs /\ sd.free = dev.sd.free + n
  BY DEF Shape, SdShape
<1> HIDE DEF sd
<1>3. /\ events' = Append(events, e) /\ UNCHANGED discovery
      /\ Shape(dev') /\ dev'.sd = sd
      /\ dev'.conn = dev.conn /\ dev'.tx = dev.tx /\ dev'.requested = dev.requested
  BY <1>1, <1>2, EmitsDevice DEF sd
<1>4. Up
  BY DEF PacketsSent
<1>5. QED
  BY <1>2, <1>3, <1>4

LEMMA LinkEndsDevice ==
  ASSUME Shape(dev), LinkEnds
  PROVE  /\ events' = Append(events, [type |-> "Disconnected"])
         /\ UNCHANGED discovery /\ dev.sd.mode \in {"connected", "closing"}
         /\ Shape(dev') /\ dev'.sd.peer = dev.sd.peer /\ dev'.sd.mode = "idle"
         /\ dev'.sd.client = Nothing /\ dev'.sd.attrs = dev.sd.attrs
         /\ dev'.sd.free = TxTotal
         /\ dev'.conn = dev.conn /\ dev'.tx = dev.tx /\ dev'.requested = dev.requested
<1> DEFINE e == [type |-> "Disconnected"]
           sd == Unlinked(dev.sd)
<1>1. /\ SdShape(sd) /\ sd.peer = dev.sd.peer /\ sd.mode = "idle"
      /\ sd.client = Nothing /\ sd.attrs = dev.sd.attrs /\ sd.free = TxTotal
  BY DEF Shape, SdShape, Unlinked
<1>2. Emits(sd, e) /\ dev.sd.mode \in {"connected", "closing"}
  BY DEF LinkEnds
<1> HIDE DEF sd
<1>3. /\ events' = Append(events, e) /\ UNCHANGED discovery
      /\ Shape(dev') /\ dev'.sd = sd
      /\ dev'.conn = dev.conn /\ dev'.tx = dev.tx /\ dev'.requested = dev.requested
  BY <1>1, <1>2, EmitsDevice
<1>4. QED
  BY <1>1, <1>2, <1>3

LEMMA PeerConnectsDevice ==
  ASSUME Shape(dev), PeerConnects
  PROVE  \E p \in Peers :
           /\ events' = Append(events, [type |-> "Connected"])
           /\ UNCHANGED discovery /\ dev.sd.mode = "advertising"
           /\ Shape(dev') /\ dev'.sd.peer = p /\ dev'.sd.mode = "connected"
           /\ dev'.sd.client = Nothing /\ dev'.sd.attrs = "unset"
           /\ dev'.sd.free = TxTotal
           /\ dev'.conn = dev.conn /\ dev'.tx = dev.tx /\ dev'.requested = dev.requested
<1>1. PICK p \in Peers : Emits(Linked(dev.sd, p), [type |-> "Connected"])
  BY DEF PeerConnects
<1> DEFINE e == [type |-> "Connected"]
           sd == Linked(dev.sd, p)
<1>2. /\ SdShape(sd) /\ sd.peer = p /\ sd.mode = "connected"
      /\ sd.client = Nothing /\ sd.attrs = "unset" /\ sd.free = TxTotal
  BY DEF Shape, SdShape, Linked
<1> HIDE DEF sd
<1>3. /\ events' = Append(events, e) /\ UNCHANGED discovery
      /\ Shape(dev') /\ dev'.sd = sd
      /\ dev'.conn = dev.conn /\ dev'.tx = dev.tx /\ dev'.requested = dev.requested
  BY <1>1, <1>2, EmitsDevice DEF sd
<1>4. QED
  BY <1>2, <1>3 DEF PeerConnects

(* The answers are about what was asked.                                   *)
LEMMA AnswerFacts ==
  ASSUME HandleInv, NEW answer \in Answers(dev.sd)
  PROVE  /\ AnswerOf(dev.sd.peer, answer, discoveryIndex)
         /\ answer.type \in {"PrimSrvcDiscRsp", "CharDiscRsp", "ReadRsp", "WriteRsp"}
         /\ SearchEvent(answer) <=> Searching(dev.sd)
         /\ dev.sd.client # Nothing
<1> DEFINE p == dev.sd.peer
           kind == dev.sd.client.kind
<1>1. Table(p) /\ IsQueue(p)
  BY TableFacts DEF HandleInv
<1>2. CASE kind = "services"
  <2>1. answer \in Found("PrimSrvcDiscRsp", p, ServicesFrom(dev.sd, dev.sd.client.start))
    BY <1>2 DEF Answers
  <2>2. ServicesFrom(dev.sd, dev.sd.client.start) \subseteq DOMAIN p
    BY DEF ServicesFrom
  <2>3. FoundIn(answer, "PrimSrvcDiscRsp", p)
    BY <1>1, <2>1, <2>2, FoundFacts
  <2>4. AnswerOf(p, answer, discoveryIndex) /\ answer.type = "PrimSrvcDiscRsp"
    BY <2>3 DEF AnswerOf, ServicesOf, FoundIn
  <2>5. SearchEvent(answer) /\ Searching(dev.sd)
    BY <1>2, <2>4 DEF SearchEvent, Searching
  <2>6. dev.sd.client # Nothing
    BY <1>2 DEF Nothing
  <2>7. QED
    BY <2>4, <2>5, <2>6
<1>3. CASE kind = "chars"
  <2>1. answer \in CharsAnswered(dev.sd, dev.sd.client)
    BY <1>3 DEF Answers
  <2> DEFINE start == dev.sd.client.start
  <2>2. PICK t \in DOMAIN p : /\ p[t].uuid = Services[discoveryIndex]
                              /\ start \in Nat /\ p[t].start <= start /\ start <= p[t].end
    BY <1>3 DEF HandleInv, SearchOfPeer, ServiceSought
  <2>3. t \in ServicesWith(dev.sd, start)
    BY <2>2 DEF ServicesWith
  <2>4. PICK s \in ServicesWith(dev.sd, start) :
          answer \in Found("CharDiscRsp", p[s].chars, CharsIn(p[s], dev.sd.client))
    BY <2>1, <2>3 DEF CharsAnswered
  <2>5. s = t
    BY <1>1, <2>2, <2>4, TableFacts DEF ServicesWith
  <2>6. CharsIn(p[s], dev.sd.client) \subseteq DOMAIN p[s].chars /\ IsQueue(p[s].chars)
    BY <1>1, <2>2, <2>5, TableFacts DEF CharsIn
  <2>7. FoundIn(answer, "CharDiscRsp", p[s].chars)
    BY <2>4, <2>6, FoundFacts
  <2>8. AnswerOf(p, answer, discoveryIndex) /\ answer.type = "CharDiscRsp"
    BY <2>2, <2>5, <2>7 DEF AnswerOf, CharsOf, FoundIn
  <2>9. SearchEvent(answer) /\ Searching(dev.sd)
    BY <1>3, <2>8 DEF SearchEvent, Searching
  <2>10. dev.sd.client # Nothing
    BY <1>3 DEF Nothing
  <2>11. QED
    BY <2>8, <2>9, <2>10
<1>4. CASE kind \in {"read", "write"}
  <2>1. answer.type \in {"ReadRsp", "WriteRsp"}
    BY <1>4 DEF Answers
  <2>2. QED
    BY <1>4, <2>1 DEF AnswerOf, SearchEvent, Searching, Nothing
<1>5. CASE kind \notin {"services", "chars", "read", "write"}
  BY <1>5 DEF Answers
<1>6. QED
  BY <1>2, <1>3, <1>4, <1>5

LEMMA PeerAnswersDevice ==
  ASSUME Shape(dev), PeerAnswers
  PROVE  /\ \E answer \in Answers(dev.sd) : events' = Append(events, answer)
         /\ UNCHANGED discovery /\ Up
         /\ Shape(dev') /\ dev'.sd.peer = dev.sd.peer /\ dev'.sd.mode = dev.sd.mode
         /\ dev'.sd.client = Nothing /\ dev'.sd.attrs = dev.sd.attrs
         /\ dev'.sd.free = dev.sd.free
         /\ dev'.conn = dev.conn /\ dev'.tx = dev.tx /\ dev'.requested = dev.requested
<1> DEFINE sd == [dev.sd EXCEPT !.client = Nothing]
<1>1. dev' = [dev EXCEPT !.sd = sd]
  BY DEF PeerAnswers
<1>2. /\ SdShape(sd) /\ sd.peer = dev.sd.peer /\ sd.mode = dev.sd.mode
      /\ sd.client = Nothing /\ sd.attrs = dev.sd.attrs /\ sd.free = dev.sd.free
  BY DEF Shape, SdShape
<1> HIDE DEF sd
<1>3. /\ Shape(dev') /\ dev'.sd = sd
      /\ dev'.conn = dev.conn /\ dev'.tx = dev.tx /\ dev'.requested = dev.requested
  BY <1>1, <1>2 DEF Shape
<1>4. QED
  BY <1>2, <1>3 DEF PeerAnswers

LEMMA PeerAnswersHandles ==
  ASSUME HandleInv, PeerAnswers
  PROVE  HandleInv'
<1>1. /\ UNCHANGED discovery /\ Up
      /\ Shape(dev') /\ dev'.sd.peer = dev.sd.peer /\ dev'.sd.mode = dev.sd.mode
      /\ dev'.sd.client = Nothing
  BY PeerAnswersDevice DEF HandleInv
<1>2. PICK answer \in Answers(dev.sd) : events' = Append(events, answer)
  BY PeerAnswersDevice DEF HandleInv
<1>3. CASE ~SearchEvent(answer)
  <2>1. SdPlain(dev.sd, dev'.sd)
    BY <1>1 DEF SdPlain, Up
  <2>2. QED
    BY <1>1, <1>2, <1>3, <2>1, PlainPush
<1>4. CASE SearchEvent(answer)
  <2>1. /\ IsQueue(events') /\ Len(events) \in Nat
        /\ DOMAIN events = 1 .. Len(events) /\ DOMAIN events' = 1 .. Len(events) + 1
        /\ \A i \in 1 .. Len(events) : events'[i] = events[i]
        /\ events'[Len(events) + 1] = answer
    BY <1>2, AppendFacts, QueueFacts DEF HandleInv
  <2>2. Searching(dev.sd) /\ AnswerOf(dev.sd.peer, answer, discoveryIndex)
        /\ answer.type # "Connected"
    BY <1>2, <1>4, AnswerFacts
  <2>3. ~discovered /\ \A i \in DOMAIN events : ~SearchEvent(events[i])
    BY <2>2 DEF HandleInv, OneSearch
  <2>4. \A i \in DOMAIN events' : SearchEvent(events'[i]) => i = Len(events) + 1
    BY <2>1, <2>3
  <2>5. dev'.sd.client.kind = "none" /\ ~Searching(dev'.sd)
    BY <1>1 DEF Nothing, Searching
  <2>6. OneSearch'
    <3>1. \A i, j \in DOMAIN events' : SearchEvent(events'[i]) /\ SearchEvent(events'[j]) => i = j
      BY <2>4
    <3>2. ~discovered'
      BY <1>1, <2>3 DEF discovery
    <3>3. QED
      BY <2>5, <3>1, <3>2 DEF OneSearch
  <2>7. LinkOver'
    <3>1. \A i \in DOMAIN events' : events'[i].type # "Connected"
      BY <2>1, <2>2, <2>3 DEF SearchEvent
    <3>2. dev'.sd.mode # "advertising"
      BY <1>1 DEF Up
    <3>3. QED
      BY <1>1, <3>1, <3>2 DEF LinkOver
  <2>8. SearchOfPeer'
    <3>1. \A i \in DOMAIN events' : AnswerOf(dev'.sd.peer, events'[i], discoveryIndex')
      BY <1>1, <2>1, <2>2 DEF HandleInv, SearchOfPeer, discovery
    <3>2. QED
      BY <2>5, <3>1 DEF SearchOfPeer
  <2>9. TablesOfPeer' /\ Table(dev'.sd.peer) /\ Clients(dev'.sd.client)
    BY <1>1 DEF HandleInv, TablesOfPeer, Clients, discovery
  <2>10. QED
    BY <1>1, <2>1, <2>6, <2>7, <2>8, <2>9 DEF HandleInv
<1>5. QED
  BY <1>3, <1>4

LEMMA PeerConnectsHandles ==
  ASSUME IInv, HandleInv, PeerConnects
  PROVE  HandleInv'
<1>1. PICK p \in Peers :
        /\ events' = Append(events, [type |-> "Connected"])
        /\ UNCHANGED discovery /\ dev.sd.mode = "advertising"
        /\ Shape(dev') /\ dev'.sd.peer = p /\ dev'.sd.mode = "connected"
        /\ dev'.sd.client = Nothing
  BY PeerConnectsDevice DEF HandleInv
<1>2. events = << >> /\ Blank
  BY <1>1 DEF IInv, LinksApart, HandleInv, LinkOver
<1>3. IsQueue(events') /\ DOMAIN events' = {1} /\ events'[1].type = "Connected"
  <2>1. Len(events) = 0
    BY <1>2
  <2> DEFINE e == [type |-> "Connected"]
  <2>2. e.type = "Connected" /\ events' = Append(events, e) /\ IsQueue(events)
    BY <1>1 DEF HandleInv
  <2> HIDE DEF e
  <2>3. /\ IsQueue(events') /\ DOMAIN events' = 1 .. Len(events) + 1
        /\ events'[Len(events) + 1] = e
    BY <2>2, AppendFacts
  <2>4. QED
    BY <2>1, <2>2, <2>3
<1>4. Blank'
  BY <1>1, <1>2 DEF Blank, discovery
<1>5. dev'.sd.client.kind = "none" /\ ~Searching(dev'.sd)
  BY <1>1 DEF Nothing, Searching
<1>6. Table(dev'.sd.peer) /\ Clients(dev'.sd.client) /\ LinkOver'
  BY <1>1, <1>4 DEF Table, Clients, LinkOver
<1>7. OneSearch' /\ SearchOfPeer'
  BY <1>3, <1>4, <1>5 DEF OneSearch, SearchOfPeer, AnswerOf, Blank
<1>8. TablesOfPeer'
  BY <1>1, <1>4 DEF TablesOfPeer, Blank, HandleInv, discovery
<1>9. QED
  BY <1>1, <1>3, <1>6, <1>7, <1>8 DEF HandleInv

LEMMA SoftDeviceHandles ==
  ASSUME IInv, HandleInv, SoftDeviceSteps
  PROVE  HandleInv'
<1>1. CASE QuietStep
  <2>1. PICK e : events' = Append(events, e) /\ QuietEvent(e)
    BY <1>1, QuietStepDevice DEF HandleInv
  <2>2. UNCHANGED discovery /\ Up /\ Shape(dev') /\ SdQuiet(dev.sd, dev'.sd)
    BY <1>1, QuietStepDevice DEF HandleInv
  <2>3. SdPlain(dev.sd, dev'.sd) /\ ~SearchEvent(e)
    BY <2>1, <2>2 DEF SdPlain, SdQuiet, Up, QuietEvent, SearchEvent
  <2>4. QED
    BY <2>1, <2>2, <2>3, PlainPush
<1>2. CASE LinkEnds \/ PacketsSent
  <2>1. PICK e : events' = Append(events, e) /\ e.type \in {"Disconnected", "TxComplete"}
    <3>1. CASE LinkEnds
      <4> DEFINE e == [type |-> "Disconnected"]
      <4>1. events' = Append(events, e) /\ e.type = "Disconnected"
        BY <3>1, LinkEndsDevice DEF HandleInv
      <4>2. QED
        BY <4>1
    <3>2. CASE PacketsSent
      <4>1. PICK n : events' = Append(events, [type |-> "TxComplete", count |-> n])
        BY <3>2, PacketsSentDevice DEF HandleInv
      <4> DEFINE e == [type |-> "TxComplete", count |-> n]
      <4>2. e.type = "TxComplete"
        OBVIOUS
      <4>3. QED
        BY <4>1, <4>2
    <3>3. QED
      BY <1>2, <3>1, <3>2
  <2>2. /\ UNCHANGED discovery /\ Shape(dev') /\ dev'.sd.peer = dev.sd.peer
        /\ dev.sd.mode \in {"connected", "closing"}
        /\ \/ dev'.sd.mode = dev.sd.mode /\ dev'.sd.client = dev.sd.client
           \/ dev'.sd.mode = "idle" /\ dev'.sd.client = Nothing
    BY <1>2, PacketsSentDevice, LinkEndsDevice DEF HandleInv, Up
  <2>3. SdPlain(dev.sd, dev'.sd) /\ ~SearchEvent(e)
    BY <2>1, <2>2 DEF SdPlain, SearchEvent
  <2>4. QED
    BY <2>1, <2>2, <2>3, PlainPush
<1>3. QED
  BY <1>1, <1>2, PeerConnectsHandles, PeerAnswersHandles DEF SoftDeviceSteps, QuietStep

------------------------------------------------------------------------------
LEMMA StepHandles ==
  ASSUME IInv, IInv', HandleInv, [Next]_vars
  PROVE  HandleInv'
<1>1. CASE UNCHANGED vars
  BY <1>1 DEF vars, discovery, HandleInv, TablesOfPeer, LinkOver, OneSearch, SearchOfPeer, Blank
<1>2. CASE poll
  BY <1>2, QuietPollHandles, ConnectedHandles, DisconnectedHandles,
     PrimSrvcDiscRspHandles, CharDiscRspHandles DEF poll, QuietPoll
<1>3. QED
  BY <1>1, <1>2, CallHandles, RestartHandles, SoftDeviceHandles DEF Next

LEMMA AlwaysHandleInv == Spec => []HandleInv
<1>1. IInv /\ IInv' /\ HandleInv /\ [Next]_vars => HandleInv'
  BY StepHandles
<1>2. QED
  BY <1>1, AlwaysIInv, InitHandles, PTL DEF Spec

(* The handles the driver sends requests to are of the peer that is        *)
(* linked, and from the service and with the uuid that the sketch's        *)
(* characteristic has: for any attribute tables, any peers one after the   *)
(* other, answers of any length, calls of any sketch, careful or not, and  *)
(* restarts.                                                               *)
THEOREM HandlesOfThisPeerAlways == Spec => []HandlesOfThisPeer
<1>1. HandleInv => HandlesOfThisPeer
  <2> SUFFICES ASSUME HandleInv, NEW r \in DOMAIN Remotes, remote[r].handle # 0
      PROVE  \E s \in DOMAIN dev.sd.peer : \E c \in DOMAIN dev.sd.peer[s].chars :
               /\ dev.sd.peer[s].uuid = Services[Remotes[r].service]
               /\ dev.sd.peer[s].chars[c].uuid = Remotes[r].uuid
               /\ dev.sd.peer[s].chars[c].handle = remote[r].handle
    BY DEF HandlesOfThisPeer
  <2>1. remote[r] # Unknown
    BY DEF Unknown
  <2>2. CharOf(dev.sd.peer, r, remote[r])
    BY <2>1 DEF HandleInv, TablesOfPeer
  <2>3. QED
    BY <2>2 DEF CharOf
<1>2. QED
  BY <1>1, AlwaysHandleInv, PTL

------------------------------------------------------------------------------
(* The buffers that queued events give back, when one more event waits or  *)
(* one less.                                                               *)
Counts(q) ==
  \A i \in DOMAIN q : q[i].type = "TxComplete" => q[i].count \in 1 .. TxTotal

Returned(e) == IF e.type = "TxComplete" THEN e.count ELSE 0

LEMMA GivenBackMembers ==
  ASSUME NEW q, NEW x
  PROVE  x \in GivenBack(q) <=>
           \E i \in DOMAIN q : q[i].type = "TxComplete" /\ x \in {i} \X (1 .. q[i].count)
BY DEF GivenBack

LEMMA GivenBackFinite ==
  ASSUME NEW q, IsQueue(q), Counts(q)
  PROVE  IsFiniteSet(GivenBack(q)) /\ Cardinality(GivenBack(q)) \in Nat
<1> DEFINE All == (1 .. Len(q)) \X (1 .. TxTotal)
<1>1. Len(q) \in Int /\ TxTotal \in Int /\ 1 \in Int /\ DOMAIN q = 1 .. Len(q)
  BY QueueFacts, ConstantsOK
<1>2. IsFiniteSet(1 .. Len(q)) /\ IsFiniteSet(1 .. TxTotal)
  BY <1>1, FS_Interval
<1>3. IsFiniteSet(All)
  BY <1>2, FS_Product
<1>4. ASSUME NEW x \in GivenBack(q) PROVE x \in All
  <2>1. PICK i \in DOMAIN q : q[i].type = "TxComplete" /\ x \in {i} \X (1 .. q[i].count)
    BY GivenBackMembers
  <2>2. q[i].count \in 1 .. TxTotal
    BY <2>1 DEF Counts
  <2>3. QED
    BY <1>1, <2>1, <2>2
<1> HIDE DEF All
<1>5. IsFiniteSet(GivenBack(q))
  BY <1>3, <1>4, FS_Subset
<1>6. QED
  BY <1>5, FS_CardinalityType

LEMMA OfOneEvent ==
  ASSUME NEW i, NEW n \in Nat
  PROVE  IsFiniteSet({i} \X (1 .. n)) /\ Cardinality({i} \X (1 .. n)) = n
<1>1. IsFiniteSet({i}) /\ Cardinality({i}) = 1
  BY FS_Singleton
<1>2. IsFiniteSet(1 .. n) /\ Cardinality(1 .. n) = n
  <2> DEFINE size == IF 1 > n THEN 0 ELSE n - 1 + 1
  <2>1. 1 \in Int /\ n \in Int
    OBVIOUS
  <2>2. size = n
    OBVIOUS
  <2>3. IsFiniteSet(1 .. n) /\ Cardinality(1 .. n) = size
    BY <2>1, FS_Interval, Zenon
  <2> HIDE DEF size
  <2>4. QED
    BY <2>2, <2>3
<1> DEFINE S == {i}
           T == 1 .. n
<1> HIDE DEF S, T
<1>3. IsFiniteSet(S \X T) /\ Cardinality(S \X T) = Cardinality(S) * Cardinality(T)
  <2>1. IsFiniteSet(S) /\ IsFiniteSet(T)
    BY <1>1, <1>2 DEF S, T
  <2>2. QED
    BY <2>1, FS_Product, Zenon
<1>4. Cardinality(S) = 1 /\ Cardinality(T) = n
  BY <1>1, <1>2 DEF S, T
<1>5. Cardinality(S \X T) = n
  BY <1>3, <1>4
<1>6. QED
  BY <1>3, <1>5 DEF S, T

LEMMA GivenBackAppend ==
  ASSUME NEW q, IsQueue(q), Counts(q), NEW e,
         e.type = "TxComplete" => e.count \in 1 .. TxTotal
  PROVE  /\ Counts(Append(q, e))
         /\ Cardinality(GivenBack(Append(q, e))) = Cardinality(GivenBack(q)) + Returned(e)
<1> DEFINE s == Append(q, e)
           n == Len(q) + 1
           New == {n} \X (1 .. e.count)
<1>1. /\ IsQueue(s) /\ Len(q) \in Nat /\ DOMAIN q = 1 .. Len(q) /\ DOMAIN s = 1 .. n
      /\ \A i \in DOMAIN q : s[i] = q[i]
      /\ s[n] = e
  BY AppendFacts, QueueFacts
<1> HIDE DEF s
<1>2. DOMAIN s = DOMAIN q \cup {n} /\ n \notin DOMAIN q
  BY <1>1
<1>3. Counts(s)
  BY <1>1, <1>2 DEF Counts
<1>4. IsFiniteSet(GivenBack(q)) /\ Cardinality(GivenBack(q)) \in Nat
  BY GivenBackFinite
<1>5. CASE e.type # "TxComplete"
  <2>1. ASSUME NEW x PROVE x \in GivenBack(s) <=> x \in GivenBack(q)
    BY <1>1, <1>2, <1>5, GivenBackMembers
  <2>2. GivenBack(s) = GivenBack(q)
    BY <2>1
  <2>3. QED
    BY <1>3, <1>4, <1>5, <2>2 DEF s, Returned
<1>6. CASE e.type = "TxComplete"
  <2>1. ASSUME NEW x PROVE x \in GivenBack(s) <=> x \in GivenBack(q) \cup New
    BY <1>1, <1>2, <1>6, GivenBackMembers
  <2>2. GivenBack(s) = GivenBack(q) \cup New
    BY <2>1
  <2>3. GivenBack(q) \cap New = {}
    <3>1. ASSUME NEW x \in GivenBack(q), x \in New PROVE FALSE
      <4>1. PICK i \in DOMAIN q : x \in {i} \X (1 .. q[i].count)
        BY GivenBackMembers
      <4>2. x[1] = i /\ x[1] = n
        BY <3>1, <4>1
      <4>3. QED
        BY <1>2, <4>2
    <3>2. QED
      BY <3>1
  <2>4. e.count \in Nat
    BY <1>6, ConstantsOK
  <2>5. IsFiniteSet(New) /\ Cardinality(New) = e.count
    BY <2>4, OfOneEvent
  <2> HIDE DEF New
  <2>6. Cardinality(GivenBack(q) \cap New) = 0
    BY <2>3, FS_EmptySet
  <2>7. Cardinality(GivenBack(s))
          = Cardinality(GivenBack(q)) + Cardinality(New) - Cardinality(GivenBack(q) \cap New)
    BY <1>4, <2>2, <2>5, FS_Union
  <2>8. QED
    BY <1>3, <1>4, <1>6, <2>4, <2>5, <2>6, <2>7 DEF s, Returned
<1>7. QED
  BY <1>5, <1>6

LEMMA GivenBackTail ==
  ASSUME NEW q, IsQueue(q), Counts(q), q # << >>
  PROVE  /\ Counts(Tail(q))
         /\ Cardinality(GivenBack(q)) = Cardinality(GivenBack(Tail(q))) + Returned(Head(q))
         /\ Returned(Head(q)) \in 0 .. TxTotal
<1> DEFINE t == Tail(q)
           e == Head(q)
           Old == {x \in GivenBack(q) : x[1] = 1}
           Rest == GivenBack(q) \ Old
           f == [x \in GivenBack(t) |-> <<x[1] + 1, x[2]>>]
<1>1. /\ IsQueue(t) /\ Len(q) \in Nat /\ DOMAIN q = 1 .. Len(q) /\ DOMAIN t = 1 .. Len(q) - 1
      /\ \A i \in 1 .. Len(q) - 1 : t[i] = q[i + 1]
      /\ e = q[1] /\ 1 \in DOMAIN q
  BY TailFacts, QueueFacts
<1> HIDE DEF t, e
<1>2. \A i \in DOMAIN t : i \in Nat /\ i + 1 \in DOMAIN q /\ i + 1 # 1 /\ t[i] = q[i + 1]
  BY <1>1
<1>3. \A i \in DOMAIN q : i # 1 => i \in Nat /\ i - 1 \in DOMAIN t /\ t[i - 1] = q[i]
  BY <1>1
<1>4. Counts(t)
  BY <1>2 DEF Counts
<1>5. IsFiniteSet(GivenBack(q)) /\ Cardinality(GivenBack(q)) \in Nat
      /\ IsFiniteSet(GivenBack(t)) /\ Cardinality(GivenBack(t)) \in Nat
  BY <1>1, <1>4, GivenBackFinite
<1>6. Old \subseteq GivenBack(q) /\ GivenBack(q) \cap Old = Old
  OBVIOUS
<1>7. IsFiniteSet(Old) /\ Cardinality(Old) = Returned(e) /\ Returned(e) \in 0 .. TxTotal
  <2>1. CASE e.type = "TxComplete"
    <3>1. ASSUME NEW x PROVE x \in Old <=> x \in {1} \X (1 .. e.count)
      <4>1. ASSUME x \in Old PROVE x \in {1} \X (1 .. e.count)
        <5>1. PICK i \in DOMAIN q : x \in {i} \X (1 .. q[i].count)
          BY <4>1, GivenBackMembers
        <5>2. i = 1
          BY <4>1, <5>1
        <5>3. QED
          BY <1>1, <5>1, <5>2
      <4>2. ASSUME x \in {1} \X (1 .. e.count) PROVE x \in Old
        <5>1. x \in GivenBack(q)
          BY <1>1, <2>1, <4>2, GivenBackMembers
        <5>2. x[1] = 1
          BY <4>2
        <5>3. QED
          BY <5>1, <5>2
      <4>3. QED
        BY <4>1, <4>2
    <3>2. Old = {1} \X (1 .. e.count)
      BY <3>1
    <3>3. e.count \in 1 .. TxTotal /\ e.count \in Nat
      BY <1>1, <2>1, ConstantsOK DEF Counts
    <3> HIDE DEF Old
    <3>4. IsFiniteSet(Old) /\ Cardinality(Old) = e.count
      BY <3>2, <3>3, OfOneEvent
    <3>5. QED
      BY <2>1, <3>3, <3>4, ConstantsOK DEF Returned
  <2>2. CASE e.type # "TxComplete"
    <3>1. ASSUME NEW x \in GivenBack(q) PROVE x[1] # 1
      <4>1. PICK i \in DOMAIN q : q[i].type = "TxComplete" /\ x \in {i} \X (1 .. q[i].count)
        BY GivenBackMembers
      <4>2. QED
        BY <1>1, <2>2, <4>1
    <3>2. Old = {}
      BY <3>1
    <3> HIDE DEF Old
    <3>3. QED
      BY <2>2, <3>2, FS_EmptySet, ConstantsOK DEF Returned
  <2>3. QED
    BY <2>1, <2>2
<1>8. Cardinality(Rest) = Cardinality(GivenBack(t))
  <2>1. ASSUME NEW x \in GivenBack(t)
        PROVE  /\ f[x] \in Rest
               /\ x[1] \in Nat /\ x = <<x[1], x[2]>>
    <3>1. PICK i \in DOMAIN t : t[i].type = "TxComplete" /\ x \in {i} \X (1 .. t[i].count)
      BY GivenBackMembers
    <3>2. x = <<i, x[2]>> /\ x[1] = i /\ x[2] \in 1 .. t[i].count
      BY <3>1
    <3>3. i \in Nat /\ i + 1 \in DOMAIN q /\ i + 1 # 1 /\ t[i] = q[i + 1]
      BY <1>2
    <3>4. f[x] = <<i + 1, x[2]>>
      BY <3>2
    <3>5. f[x] \in {i + 1} \X (1 .. q[i + 1].count) /\ f[x][1] # 1
      BY <3>2, <3>3, <3>4
    <3>6. f[x] \in GivenBack(q)
      BY <3>1, <3>3, <3>5, GivenBackMembers
    <3>7. QED
      BY <3>2, <3>3, <3>5, <3>6
  <2>2. ASSUME NEW y \in Rest PROVE \E x \in GivenBack(t) : f[x] = y
    <3>1. PICK i \in DOMAIN q : q[i].type = "TxComplete" /\ y \in {i} \X (1 .. q[i].count)
      BY GivenBackMembers
    <3>2. y = <<i, y[2]>> /\ i # 1 /\ y[2] \in 1 .. q[i].count
      BY <3>1
    <3>3. i \in Nat /\ i - 1 \in DOMAIN t /\ t[i - 1] = q[i]
      BY <1>3, <3>2
    <3> DEFINE x == <<i - 1, y[2]>>
    <3>4. x \in {i - 1} \X (1 .. t[i - 1].count)
      BY <3>2, <3>3
    <3>5. x \in GivenBack(t)
      BY <3>1, <3>3, <3>4, GivenBackMembers
    <3>6. f[x] = <<i - 1 + 1, y[2]>> /\ i - 1 + 1 = i
      BY <3>3, <3>5
    <3>7. QED
      BY <3>2, <3>5, <3>6
  <2>3. f \in Surjection(GivenBack(t), Rest)
    BY <2>1, <2>2, Fun_IsSurj
  <2>4. ASSUME NEW x \in GivenBack(t), NEW y \in GivenBack(t), f[x] = f[y] PROVE x = y
    <3>1. f[x] = <<x[1] + 1, x[2]>> /\ f[y] = <<y[1] + 1, y[2]>>
      OBVIOUS
    <3>2. <<x[1] + 1, x[2]>> = <<y[1] + 1, y[2]>>
      BY <2>4, <3>1
    <3>3. x[1] + 1 = y[1] + 1 /\ x[2] = y[2]
      BY <3>2
    <3>4. x[1] \in Nat /\ y[1] \in Nat /\ x = <<x[1], x[2]>> /\ y = <<y[1], y[2]>>
      BY <2>1
    <3>5. QED
      BY <3>3, <3>4
  <2>5. f \in Injection(GivenBack(t), Rest)
    BY <2>1, <2>4, Fun_IsInj
  <2> HIDE DEF f, Rest
  <2>6. QED
    BY <1>5, <2>3, <2>5, FS_Surjection
<1> HIDE DEF Old
<1>9. Cardinality(Rest) = Cardinality(GivenBack(q)) - Cardinality(Old)
  BY <1>5, <1>6, FS_Difference
<1> HIDE DEF Rest
<1>10. Cardinality(GivenBack(q)) = Cardinality(GivenBack(t)) + Returned(e)
  BY <1>5, <1>7, <1>8, <1>9, ConstantsOK
<1>11. QED
  BY <1>4, <1>7, <1>10 DEF t, e

------------------------------------------------------------------------------
(* The inductive invariant of the buffers.  The driver believes in no more *)
(* than are free, of those the events that wait do not give back; and when *)
(* it hears of a link none has been taken on that link, since neither are  *)
(* the peer's attributes set nor its characteristics known.                *)
Honest(d, returned) ==
  /\ d.tx \in Nat /\ d.sd.free \in 0 .. TxTotal
  /\ d.tx + returned <= d.sd.free

NoneTaken ==
  \A i \in DOMAIN events : events[i].type = "Connected" =>
    /\ i = 1 /\ dev.sd.free = TxTotal /\ dev.sd.attrs # "set"
    /\ \A j \in DOMAIN events : events[j].type # "TxComplete"

BufInv == Honest(dev, Completed) /\ Counts(events) /\ NoneTaken

LEMMA HonestSpends ==
  ASSUME NEW d, NEW e, NEW c \in Nat, Honest(d, c), Spends(d, e)
  PROVE  Honest(e, c)
<1>1. /\ d.tx \in Nat /\ d.sd.free \in Nat /\ e.tx \in Nat /\ e.sd.free \in Nat
      /\ e.tx <= d.tx /\ e.sd.free <= d.sd.free /\ d.sd.free <= TxTotal
      /\ d.sd.free - e.sd.free <= d.tx - e.tx /\ d.tx + c <= d.sd.free
  BY ConstantsOK DEF Honest, Spends
<1>2. e.sd.free \in 0 .. TxTotal /\ e.tx + c <= e.sd.free
  BY <1>1, ConstantsOK
<1>3. QED
  BY <1>1, <1>2 DEF Honest

LEMMA HonestSame ==
  ASSUME NEW d, NEW e, NEW c, Honest(d, c), e.tx = d.tx, e.sd.free = d.sd.free
  PROVE  Honest(e, c)
BY DEF Honest

LEMMA CompletedFacts ==
  ASSUME IsQueue(events), BufInv
  PROVE  Completed \in Nat
BY GivenBackFinite DEF BufInv, Completed

(* poll() takes an event.                                                  *)
LEMMA HonestPop ==
  ASSUME IsQueue(events), BufInv, events # << >>, events' = Tail(events)
  PROVE  /\ Completed = Completed' + Returned(Head(events))
         /\ Returned(Head(events)) \in Nat /\ Completed' \in Nat
         /\ Counts(events') /\ NoneTaken'
<1>1. /\ IsQueue(events') /\ Len(events) \in Nat
      /\ DOMAIN events = 1 .. Len(events) /\ DOMAIN events' = 1 .. Len(events) - 1
      /\ \A i \in 1 .. Len(events) - 1 : events'[i] = events[i + 1]
  BY TailFacts, QueueFacts
<1>2. /\ Counts(events')
      /\ Cardinality(GivenBack(events))
           = Cardinality(GivenBack(events')) + Returned(Head(events))
      /\ Returned(Head(events)) \in 0 .. TxTotal
  BY GivenBackTail DEF BufInv
<1>3. Cardinality(GivenBack(events')) \in Nat
  BY <1>1, <1>2, GivenBackFinite
<1>4. ASSUME NEW i \in DOMAIN events' PROVE events'[i].type # "Connected"
  <2>1. i + 1 \in DOMAIN events /\ i + 1 # 1 /\ events'[i] = events[i + 1]
    BY <1>1
  <2>2. QED
    BY <2>1 DEF BufInv, NoneTaken
<1>5. QED
  BY <1>2, <1>3, <1>4, ConstantsOK DEF Completed, NoneTaken

LEMMA QuietPollBuffers ==
  ASSUME HandleInv, BufInv, QuietPoll
  PROVE  BufInv'
<1>1. PICK e : Handled(e) /\ Leaves(e)
  BY QuietPolled DEF HandleInv
<1>2. Spends(e, dev')
  <2>1. Spends(e, e)
    BY DEF Spends
  <2>2. QED
    BY <1>1, <2>1, HandlerAsks DEF Leaves, Handled
<1>3. /\ Completed = Completed' + Returned(Head(events))
      /\ Returned(Head(events)) \in Nat /\ Completed' \in Nat
      /\ Counts(events') /\ NoneTaken'
  BY QuietHead, HonestPop DEF HandleInv
<1>4. Honest(e, Completed')
  <2> DEFINE c == Completed
             n == Completed'
  <2>1. c \in Nat /\ n \in Nat /\ Honest(dev, c)
    BY <1>3, CompletedFacts DEF HandleInv, BufInv
  <2>2. CASE Head(events).type = "TxComplete"
    <3> DEFINE k == Head(events).count
    <3>0. c = n + k /\ k \in Nat
      BY <1>3, <2>2 DEF Returned
    <3>1. e.tx = (dev.tx + k) % 256 /\ e.sd.free = dev.sd.free
      BY <1>1, <2>2 DEF Handled
    <3> HIDE DEF c, n, k
    <3>2. /\ dev.tx \in Nat /\ dev.sd.free \in 0 .. TxTotal /\ dev.tx + c <= dev.sd.free
      BY <2>1 DEF Honest
    <3> DEFINE m == dev.tx + k
               total == dev.sd.free
    <3>3. dev.tx + k \in Nat /\ total \in Nat
      BY <3>0, <3>2, ConstantsOK
    <3>4. dev.tx + (n + k) <= total
      BY <3>0, <3>2
    <3>5. e.tx = m % 256 /\ m \in Nat /\ m + n <= total
      <4> HIDE DEF total
      <4>1. m + n <= total
        BY <2>1, <3>0, <3>2, <3>4
      <4>2. QED
        BY <3>1, <3>3, <4>1
    <3> HIDE DEF m, total
    <3>6. e.tx \in Nat /\ e.tx <= m
      BY <3>5
    <3>7. e.tx + n <= total
      BY <2>1, <3>3, <3>5, <3>6
    <3>8. Honest(e, n)
      BY <3>1, <3>2, <3>6, <3>7 DEF Honest, total
    <3>9. QED
      BY <3>8 DEF n
  <2>3. CASE Head(events).type # "TxComplete"
    <3>1. Spends(dev, e)
      BY <1>1, <2>3 DEF Handled
    <3>2. Returned(Head(events)) = 0
      BY <2>3 DEF Returned
    <3>3. c = n
      BY <1>3, <3>2
    <3> HIDE DEF c, n
    <3>4. Honest(e, n)
      BY <2>1, <3>1, <3>3, HonestSpends
    <3>5. QED
      BY <3>4 DEF n
  <2>4. QED
    BY <2>2, <2>3
<1> DEFINE n == Completed'
<1>5. n \in Nat /\ Honest(e, n)
  BY <1>3, <1>4
<1> HIDE DEF n
<1>6. Honest(dev', n)
  BY <1>2, <1>5, HonestSpends
<1>7. QED
  BY <1>3, <1>6 DEF BufInv, n

(* The events of the search give no buffers back.                          *)
LEMMA SearchPopBuffers ==
  ASSUME IsQueue(events), BufInv, events # << >>, events' = Tail(events),
         Head(events).type # "TxComplete",
         NEW e, Honest(e, Completed), Spends(e, dev')
         \/ (dev'.tx = e.tx /\ dev'.sd.free = e.sd.free)
  PROVE  BufInv'
<1>1. Completed' = Completed /\ Completed \in Nat /\ Counts(events') /\ NoneTaken'
  <2>1. Returned(Head(events)) = 0
    BY DEF Returned
  <2>2. QED
    BY <2>1, HonestPop
<1>2. Honest(dev', Completed)
  BY <1>1, HonestSpends, HonestSame
<1>3. QED
  BY <1>1, <1>2 DEF BufInv

LEMMA ConnectedBuffers ==
  ASSUME HandleInv, BufInv, Connected
  PROVE  BufInv'
<1> DEFINE linked == [dev EXCEPT !.conn = TRUE, !.tx = dev.sd.free]
           q == [kind |-> "services", start |-> 1]
<1>1. PICK d \in AfterHandler("Connected", linked, notifySubscribed, indicateSubscribed) :
        dev' = IF Services = << >> THEN d
               ELSE [d EXCEPT !.sd = sd_ble_gattc_primary_services_discover(@, 1)]
  BY DEF Connected
<1>2. Shape(linked) /\ linked.sd = dev.sd /\ linked.tx = dev.sd.free
  BY DEF HandleInv, Shape
<1>3. Shape(d) /\ Spends(linked, d)
  BY <1>2, HandlerAsks DEF Asks
<1> HIDE DEF linked
<1>4. Moves(d, dev', q)
  BY <1>1 DEF sd_ble_gattc_primary_services_discover, Moves
<1> HIDE DEF q
<1>5. dev'.tx = d.tx /\ dev'.sd.free = d.sd.free
  BY <1>3, <1>4, SearchStarts
<1>6. /\ events # << >> /\ events' = Tail(events) /\ Head(events) = events[1]
      /\ 1 \in DOMAIN events /\ events[1].type = "Connected"
  BY TailFacts DEF HandleInv, Connected, Gets
<1>7. \A i \in DOMAIN events : events[i].type # "TxComplete"
  BY <1>6 DEF BufInv, NoneTaken
<1>8. Completed = 0
  <2>1. GivenBack(events) = {}
    BY <1>7 DEF GivenBack
  <2>2. QED
    BY <2>1, FS_EmptySet DEF Completed
<1>9. Honest(linked, Completed)
  BY <1>2, <1>8, ConstantsOK DEF BufInv, Honest
<1>10. Honest(d, Completed)
  BY <1>3, <1>8, <1>9, HonestSpends
<1>11. QED
  BY <1>5, <1>6, <1>10, SearchPopBuffers DEF HandleInv

LEMMA PrimSrvcDiscRspBuffers ==
  ASSUME HandleInv, BufInv, PrimSrvcDiscRsp
  PROVE  BufInv'
<1>1. \E q : Moves(dev, dev', q)
  BY DEF PrimSrvcDiscRsp, Moves, sd_ble_gattc_primary_services_discover,
         sd_ble_gattc_characteristics_discover
<1>2. dev'.tx = dev.tx /\ dev'.sd.free = dev.sd.free
  BY <1>1, SearchStarts DEF HandleInv
<1>3. /\ events # << >> /\ events' = Tail(events)
      /\ Head(events).type = "PrimSrvcDiscRsp"
  BY DEF PrimSrvcDiscRsp, Gets
<1>4. QED
  BY <1>2, <1>3, SearchPopBuffers DEF HandleInv, BufInv

LEMMA CharDiscRspBuffers ==
  ASSUME HandleInv, BufInv, CharDiscRsp
  PROVE  BufInv'
<1>1. /\ events # << >> /\ events' = Tail(events) /\ Head(events).type = "CharDiscRsp"
  BY DEF CharDiscRsp, Gets
<1>2. \/ \E q : Moves(dev, dev', q)
      \/ dev' \in AfterHandler("Discovered", dev, notifySubscribed, indicateSubscribed)
  BY DEF CharDiscRsp, Moves, sd_ble_gattc_characteristics_discover
<1>3. \/ dev'.tx = dev.tx /\ dev'.sd.free = dev.sd.free
      \/ Spends(dev, dev')
  BY <1>2, SearchStarts, HandlerAsks DEF HandleInv
<1>4. QED
  BY <1>1, <1>3, SearchPopBuffers DEF HandleInv, BufInv

LEMMA DisconnectedBuffers ==
  ASSUME IInv, HandleInv, BufInv, Disconnected
  PROVE  BufInv'
<1>1. dev.sd.free \in Nat /\ dev.sd.free \in 0 .. TxTotal
  BY ConstantsOK DEF BufInv, Honest
<1>2. DOMAIN events' = {} /\ dev'.tx = 0 /\ dev'.sd.free = dev.sd.free
  BY <1>1, Unlinks
<1>3. GivenBack(events') = {} /\ Counts(events') /\ NoneTaken'
  BY <1>2 DEF GivenBack, Counts, NoneTaken
<1>4. Completed' = 0
  BY <1>3, FS_EmptySet DEF Completed
<1>5. QED
  BY <1>1, <1>2, <1>3, <1>4, ConstantsOK DEF BufInv, Honest

LEMMA RestartBuffers ==
  ASSUME Shape(dev), IsQueue(events), BufInv, PowerCycle \/ EndAndBegin
  PROVE  BufInv'
<1> DEFINE sd == Begun(Enabled(dev.sd.peerKey))
<1>1. sd.free = TxTotal
  BY DEF Begun, Enabled, sd_ble_gap_adv_start
<1> HIDE DEF sd
<1>2. dev'.sd.free = TxTotal /\ (dev'.tx = 0 \/ dev'.tx = dev.tx)
  <2>1. CASE PowerCycle
    BY <1>1, <2>1 DEF PowerCycle, sd
  <2>2. CASE EndAndBegin
    <3>1. dev' = [dev EXCEPT !.sd = sd]
      BY <2>2 DEF EndAndBegin, sd
    <3>2. QED
      BY <1>1, <3>1 DEF Shape
  <2>3. QED
    BY <2>1, <2>2
<1>3. events' = << >> /\ DOMAIN << >> = {} /\ DOMAIN events' = {}
  BY DEF PowerCycle, EndAndBegin, Begins
<1>4. GivenBack(events') = {} /\ Counts(events') /\ NoneTaken'
  BY <1>3 DEF GivenBack, Counts, NoneTaken
<1>5. Completed' = 0
  BY <1>4, FS_EmptySet DEF Completed
<1>6. dev.tx \in Nat /\ dev.tx <= TxTotal
  BY CompletedFacts, ConstantsOK DEF BufInv, Honest
<1>7. QED
  BY <1>2, <1>4, <1>5, <1>6, ConstantsOK DEF BufInv, Honest

LEMMA CallBuffers ==
  ASSUME HandleInv, BufInv, Call
  PROVE  BufInv'
<1>1. PICK a \in LoopCalls : dev' = Called(dev, notifySubscribed, indicateSubscribed, a)
  BY DEF Call, Allowed
<1>2. events' = events /\ Completed' = Completed /\ Counts(events')
  BY DEF Call, Completed, BufInv
<1>3. Asks(dev, dev') /\ Spends(dev, dev')
  BY <1>1, ConstantsOK, CalledAsks DEF HandleInv
<1>4. Honest(dev', Completed')
  BY <1>2, <1>3, CompletedFacts, HonestSpends DEF BufInv, HandleInv
<1>5. NoneTaken'
  <2> SUFFICES ASSUME NEW i \in DOMAIN events, events[i].type = "Connected"
               PROVE  dev'.sd.free = TxTotal /\ dev'.sd.attrs # "set"
    BY <1>2 DEF BufInv, NoneTaken
  <2>1. dev.sd.free = TxTotal /\ dev.sd.attrs # "set"
    BY DEF BufInv, NoneTaken
  <2>2. \A r \in DOMAIN Remotes : remote[r].handle = 0
    BY DEF HandleInv, LinkOver, Blank, Unknown
  <2>3. dev.tx \in Nat /\ dev.sd.free \in Nat
    BY <2>1, ConstantsOK DEF BufInv, Honest
  <2>4. QED
    BY <1>3, <2>1, <2>2, <2>3 DEF Spends, Asks, SdAsks
<1>6. QED
  BY <1>2, <1>4, <1>5 DEF BufInv

(* The SoftDevice adds an event.                                           *)
LEMMA HonestPush ==
  ASSUME IsQueue(events), BufInv, NEW e, events' = Append(events, e),
         e.type = "TxComplete" => e.count \in 1 .. TxTotal,
         Honest(dev', Completed + Returned(e)),
         e.type = "Connected" =>
           events = << >> /\ dev'.sd.free = TxTotal /\ dev'.sd.attrs # "set",
         dev.sd.free = TxTotal /\ dev.sd.attrs # "set" =>
           e.type # "TxComplete" /\ dev'.sd.free = TxTotal /\ dev'.sd.attrs # "set"
  PROVE  BufInv'
<1>1. /\ IsQueue(events') /\ Len(events) \in Nat
      /\ DOMAIN events = 1 .. Len(events) /\ DOMAIN events' = 1 .. Len(events) + 1
      /\ \A i \in 1 .. Len(events) : events'[i] = events[i]
      /\ events'[Len(events) + 1] = e
  BY AppendFacts, QueueFacts
<1>2. /\ Counts(events')
      /\ Cardinality(GivenBack(events')) = Cardinality(GivenBack(events)) + Returned(e)
  BY GivenBackAppend DEF BufInv
<1>3. NoneTaken'
  <2> SUFFICES ASSUME NEW i \in DOMAIN events', events'[i].type = "Connected"
               PROVE  /\ i = 1 /\ dev'.sd.free = TxTotal /\ dev'.sd.attrs # "set"
                      /\ \A j \in DOMAIN events' : events'[j].type # "TxComplete"
    BY DEF NoneTaken
  <2>1. CASE i = Len(events) + 1
    <3>1. e.type = "Connected" /\ events = << >>
      BY <1>1, <2>1
    <3>2. Len(events) = 0
      BY <3>1
    <3>3. i = 1 /\ DOMAIN events' = {1} /\ events'[1] = e
      BY <1>1, <2>1, <3>2
    <3>4. QED
      BY <3>1, <3>3
  <2>2. CASE i # Len(events) + 1
    <3>1. i \in DOMAIN events /\ events[i].type = "Connected"
      BY <1>1, <2>2
    <3>2. /\ i = 1 /\ dev.sd.free = TxTotal /\ dev.sd.attrs # "set"
          /\ \A j \in DOMAIN events : events[j].type # "TxComplete"
      BY <3>1 DEF BufInv, NoneTaken
    <3>3. e.type # "TxComplete" /\ dev'.sd.free = TxTotal /\ dev'.sd.attrs # "set"
      BY <3>2
    <3>4. \A j \in DOMAIN events' : events'[j].type # "TxComplete"
      BY <1>1, <3>2, <3>3
    <3>5. QED
      BY <3>2, <3>3, <3>4
  <2>3. QED
    BY <2>1, <2>2
<1>4. QED
  BY <1>2, <1>3 DEF BufInv, Completed

(* Events that give nothing back.                                          *)
LEMMA NothingReturned ==
  ASSUME IsQueue(events), BufInv, NEW e, e.type # "TxComplete", dev'.tx = dev.tx,
         dev'.sd.free \in {dev.sd.free, TxTotal}
  PROVE  Honest(dev', Completed + Returned(e))
<1>1. Completed \in Nat /\ Returned(e) = 0
  BY CompletedFacts DEF Returned
<1>2. Completed + Returned(e) = Completed
  BY <1>1
<1>3. Honest(dev', Completed)
  <2> DEFINE c == Completed
  <2>1. c \in Nat /\ Honest(dev, c)
    BY <1>1 DEF BufInv
  <2> HIDE DEF c
  <2>2. Honest(dev', c)
    BY <2>1, ConstantsOK DEF Honest
  <2>3. QED
    BY <2>2 DEF c
<1>4. QED
  BY <1>2, <1>3

LEMMA SoftDeviceBuffers ==
  ASSUME IInv, HandleInv, BufInv, SoftDeviceSteps
  PROVE  BufInv'
<1>1. CASE QuietStep
  <2>1. PICK e : events' = Append(events, e) /\ QuietEvent(e)
    BY <1>1, QuietStepDevice DEF HandleInv
  <2>2. SdQuiet(dev.sd, dev'.sd) /\ dev'.tx = dev.tx
    BY <1>1, QuietStepDevice DEF HandleInv
  <2>3. e.type \notin {"Connected", "TxComplete"}
    BY <2>1 DEF QuietEvent
  <2>4. dev'.sd.free = dev.sd.free /\ (dev'.sd.attrs = "set" => dev.sd.attrs = "set")
    BY <2>2 DEF SdQuiet
  <2>5. Honest(dev', Completed + Returned(e))
    BY <2>2, <2>3, <2>4, NothingReturned DEF HandleInv
  <2>6. QED
    BY <2>1, <2>3, <2>4, <2>5, HonestPush DEF HandleInv
<1>2. CASE LinkEnds
  <2> DEFINE e == [type |-> "Disconnected"]
  <2>1. /\ events' = Append(events, e) /\ e.type = "Disconnected"
        /\ dev'.sd.attrs = dev.sd.attrs /\ dev'.sd.free = TxTotal /\ dev'.tx = dev.tx
    BY <1>2, LinkEndsDevice DEF HandleInv
  <2> HIDE DEF e
  <2>2. Honest(dev', Completed + Returned(e))
    BY <2>1, NothingReturned DEF HandleInv
  <2>3. QED
    BY <2>1, <2>2, HonestPush DEF HandleInv
<1>3. CASE PacketsSent
  <2>1. PICK n \in 1 .. TxTotal - dev.sd.free :
          /\ events' = Append(events, [type |-> "TxComplete", count |-> n])
          /\ dev'.sd.attrs = dev.sd.attrs /\ dev'.sd.free = dev.sd.free + n
          /\ dev'.tx = dev.tx
    BY <1>3, PacketsSentDevice DEF HandleInv
  <2> DEFINE e == [type |-> "TxComplete", count |-> n]
             c == Completed
  <2>2. e.type = "TxComplete" /\ e.count = n /\ events' = Append(events, e)
    BY <2>1
  <2>3. Returned(e) = n
    BY <2>2 DEF Returned
  <2> HIDE DEF e
  <2>4. c \in Nat /\ Honest(dev, c)
    BY CompletedFacts DEF HandleInv, BufInv
  <2> HIDE DEF c
  <2>5. /\ dev.tx \in Nat /\ dev.sd.free \in Nat /\ dev.sd.free <= TxTotal
        /\ dev.tx + c <= dev.sd.free
    BY <2>4, ConstantsOK DEF Honest
  <2>6. n \in Nat /\ n # 0 /\ dev.sd.free + n <= TxTotal /\ n <= TxTotal
    BY <2>5, ConstantsOK
  <2>7. Honest(dev', c + Returned(e))
    <3>1. dev'.tx \in Nat /\ dev'.tx = dev.tx /\ dev'.sd.free = dev.sd.free + n
      BY <2>1, <2>5
    <3>2. dev'.sd.free \in 0 .. TxTotal
      BY <2>5, <2>6, <3>1, ConstantsOK
    <3>3. dev'.tx + (c + n) <= dev'.sd.free
      BY <2>4, <2>5, <2>6, <3>1
    <3>4. QED
      BY <2>3, <3>1, <3>2, <3>3 DEF Honest
  <2>8. dev.sd.free # TxTotal
    BY <2>5, <2>6, ConstantsOK
  <2>9. e.count \in 1 .. TxTotal
    BY <2>2, <2>6, ConstantsOK
  <2>10. QED
    BY <2>2, <2>7, <2>8, <2>9, HonestPush DEF c, HandleInv
<1>4. CASE PeerAnswers
  <2>1. PICK e \in Answers(dev.sd) : events' = Append(events, e)
    BY <1>4, PeerAnswersDevice DEF HandleInv
  <2>2. e.type \in {"PrimSrvcDiscRsp", "CharDiscRsp", "ReadRsp", "WriteRsp"}
    BY <2>1, AnswerFacts
  <2>3. /\ dev'.sd.attrs = dev.sd.attrs /\ dev'.sd.free = dev.sd.free
        /\ dev'.tx = dev.tx
    BY <1>4, PeerAnswersDevice DEF HandleInv
  <2>4. Honest(dev', Completed + Returned(e))
    BY <2>2, <2>3, NothingReturned DEF HandleInv
  <2>5. QED
    BY <2>1, <2>2, <2>3, <2>4, HonestPush DEF HandleInv
<1>5. CASE PeerConnects
  <2> DEFINE e == [type |-> "Connected"]
  <2>1. /\ events' = Append(events, e) /\ e.type = "Connected"
        /\ dev.sd.mode = "advertising" /\ dev'.sd.attrs = "unset"
        /\ dev'.sd.free = TxTotal /\ dev'.tx = dev.tx
    BY <1>5, PeerConnectsDevice DEF HandleInv
  <2> HIDE DEF e
  <2>2. events = << >>
    BY <2>1 DEF IInv, LinksApart
  <2>3. Honest(dev', Completed + Returned(e))
    BY <2>1, NothingReturned DEF HandleInv
  <2>4. QED
    BY <2>1, <2>2, <2>3, HonestPush DEF HandleInv
<1>6. QED
  BY <1>1, <1>2, <1>3, <1>4, <1>5 DEF SoftDeviceSteps, QuietStep

LEMMA InitBuffers == Init => BufInv
<1> SUFFICES ASSUME Init PROVE BufInv
  OBVIOUS
<1>1. dev.tx = 0 /\ dev.sd.free = TxTotal /\ events = << >> /\ DOMAIN << >> = {}
  BY DEF Init, Begun, Enabled, sd_ble_gap_adv_start
<1>2. GivenBack(events) = {} /\ Counts(events) /\ NoneTaken
  BY <1>1 DEF GivenBack, Counts, NoneTaken
<1>3. Completed = 0
  BY <1>2, FS_EmptySet DEF Completed
<1>4. QED
  BY <1>1, <1>2, <1>3, ConstantsOK DEF BufInv, Honest

LEMMA StepBuffers ==
  ASSUME IInv, HandleInv, BufInv, [Next]_vars
  PROVE  BufInv'
<1>1. CASE UNCHANGED vars
  <2>1. dev' = dev /\ events' = events
    BY <1>1 DEF vars
  <2>2. QED
    BY <2>1 DEF BufInv, NoneTaken, Completed
<1>2. CASE poll
  BY <1>2, QuietPollBuffers, ConnectedBuffers, DisconnectedBuffers,
     PrimSrvcDiscRspBuffers, CharDiscRspBuffers DEF poll, QuietPoll
<1>3. QED
  BY <1>1, <1>2, CallBuffers, RestartBuffers, SoftDeviceBuffers DEF Next, HandleInv

(* canNotify() and the like promise no buffer that is not there: for any   *)
(* number of buffers, calls of any sketch and of its handlers, careful or  *)
(* not, links that end with packets under way, and restarts.               *)
THEOREM BuffersNotMadeUpAlways == Spec => []BuffersNotMadeUp
<1>1. IInv /\ HandleInv /\ BufInv /\ [Next]_vars => BufInv'
  BY StepBuffers
<1>2. BufInv => BuffersNotMadeUp
  BY DEF BufInv, Honest, BuffersNotMadeUp
<1>3. QED
  BY <1>1, <1>2, AlwaysIInv, AlwaysHandleInv, InitBuffers, PTL DEF Spec

------------------------------------------------------------------------------
(* The inductive invariant of the requests.  Only a link that the driver   *)
(* knows of has a client procedure, and the sketch calls only then; a link *)
(* that ended has its last event waiting.                                  *)
Ending(e) == e.type \in {"ReadRsp", "WriteRsp", "Disconnected"}
Answered(e) == e.type \in {"PrimSrvcDiscRsp", "CharDiscRsp"}

EndWaits(d, q) ==
  d.sd.mode = "idle" => q # << >> /\ q[Len(q)].type = "Disconnected"

LinkKnown ==
  dev.sd.client # Nothing \/ discovered \/ (\E i \in DOMAIN events : Answered(events[i]))
    => dev.conn

Ends(d, q) ==
  d.requested =>
    \/ d.sd.client.kind \in {"read", "write"}
    \/ d.sd.mode = "closing"
    \/ \E i \in DOMAIN q : Ending(q[i])

Modes == {"idle", "advertising", "connected", "closing"}

EndInv ==
  dev.sd.mode \in Modes /\ EndWaits(dev, events) /\ LinkKnown /\ Ends(dev, events)

(* No characteristic of a peer can only be written without a response.     *)
WritesConfirmed ==
  \A p \in Peers : \A s \in DOMAIN p : \A c \in DOMAIN p[s].chars :
    "writeWoResp" \in p[s].chars[c].props => "write" \in p[s].chars[c].props

LEMMA WritesAreAnswered ==
  ASSUME HandleInv, WritesConfirmed
  PROVE  WritesAnswered
<1> SUFFICES ASSUME NEW r \in DOMAIN Remotes, "writeWoResp" \in remote[r].props
             PROVE  "write" \in remote[r].props
  BY DEF WritesAnswered
<1>1. remote[r] # Unknown
  BY DEF Unknown
<1>2. CharOf(dev.sd.peer, r, remote[r])
  BY <1>1 DEF HandleInv, TablesOfPeer
<1>3. PICK s \in DOMAIN dev.sd.peer : \E c \in DOMAIN dev.sd.peer[s].chars :
        remote[r].props = dev.sd.peer[s].chars[c].props
  BY <1>2 DEF CharOf
<1>4. dev.sd.peer \in Peers
  <2>1. dev.sd.peer # << >>
    BY <1>3
  <2>2. QED
    BY <2>1 DEF HandleInv, Table
<1>5. QED
  BY <1>3, <1>4 DEF WritesConfirmed

(* A device from which a remote call may be made.                          *)
Linkable(d, q) ==
  /\ d.conn /\ ~Searching(d.sd) /\ Clients(d.sd.client)
  /\ d.sd.mode \in Modes \ {"advertising"} /\ EndWaits(d, q)

LEMMA LastWaits ==
  ASSUME NEW d, NEW q, IsQueue(q), EndWaits(d, q), d.sd.mode = "idle"
  PROVE  \E i \in DOMAIN q : Ending(q[i])
<1>1. PICK S : q \in Seq(S)
  BY DEF IsQueue
<1>2. Len(q) \in DOMAIN q
  BY <1>1 DEF EndWaits
<1>3. QED
  BY <1>2 DEF EndWaits, Ending

LEMMA CallEnds ==
  ASSUME NEW d, NEW e, NEW q, IsQueue(q), Asks(d, e), Ends(d, q),
         e.requested = d.requested \/ (Marks(d, e) /\ Linkable(d, q))
  PROVE  Ends(e, q)
<1>1. CASE e.requested = d.requested
  <2> SUFFICES ASSUME d.requested PROVE Ends(e, q)
    BY <1>1 DEF Ends
  <2>1. CASE d.sd.client.kind \in {"read", "write"}
    <3>1. d.sd.client # Nothing
      BY <2>1 DEF Nothing
    <3>2. e.sd.client = d.sd.client
      BY <3>1 DEF Asks, SdAsks
    <3>3. QED
      BY <2>1, <3>2 DEF Ends
  <2>2. CASE d.sd.mode = "closing"
    BY <2>2 DEF Ends, Asks, SdAsks
  <2>3. QED
    BY <2>1, <2>2 DEF Ends
<1>2. CASE e.requested # d.requested
  <2>1. /\ Linkable(d, q)
        /\ d.sd.mode = "connected" /\ d.sd.client = Nothing
             => e.sd.client.kind \in {"read", "write"}
    BY <1>2 DEF Marks, Linkable
  <2>2. CASE d.sd.mode = "connected" /\ d.sd.client = Nothing
    BY <2>1, <2>2 DEF Ends
  <2>3. CASE d.sd.mode = "connected" /\ d.sd.client # Nothing
    <3>1. d.sd.client.kind \in {"read", "write"} /\ e.sd.client = d.sd.client
      BY <2>1, <2>3 DEF Linkable, Clients, Searching, Asks, SdAsks
    <3>2. QED
      BY <3>1 DEF Ends
  <2>4. CASE d.sd.mode = "closing"
    BY <2>4 DEF Ends, Asks, SdAsks
  <2>5. CASE d.sd.mode = "idle"
    BY <2>1, <2>5, LastWaits DEF Linkable, Ends
  <2>6. QED
    BY <2>1, <2>2, <2>3, <2>4, <2>5 DEF Linkable, Modes
<1>3. QED
  BY <1>1, <1>2

(* What a sketch that was told of the services may rely on.                *)
LEMMA ToldOfServices ==
  ASSUME HandleInv, EndInv, discovered
  PROVE  Linkable(dev, events)
<1>1. dev.conn /\ ~Searching(dev.sd)
  BY DEF EndInv, LinkKnown, HandleInv, OneSearch
<1>2. dev.sd.mode # "advertising"
  BY DEF HandleInv, LinkOver, Blank
<1>3. QED
  BY <1>1, <1>2 DEF Linkable, EndInv, HandleInv

(* poll() takes an event that is not of the end.                           *)
LEMMA EndPop ==
  ASSUME IsQueue(events), events # << >>, events' = Tail(events),
         NEW d, NEW e, e.sd.mode = d.sd.mode
  PROVE  /\ IsQueue(events')
         /\ Head(events).type # "Disconnected" /\ EndWaits(d, events) => EndWaits(e, events')
         /\ \A i \in DOMAIN events' : \E j \in DOMAIN events : events'[i] = events[j]
         /\ \A j \in DOMAIN events :
              events[j] = Head(events) \/ \E i \in DOMAIN events' : events'[i] = events[j]
<1>1. /\ IsQueue(events') /\ Len(events) \in Nat /\ Len(events') = Len(events) - 1
      /\ DOMAIN events = 1 .. Len(events) /\ DOMAIN events' = 1 .. Len(events) - 1
      /\ \A i \in 1 .. Len(events) - 1 : events'[i] = events[i + 1]
      /\ Head(events) = events[1] /\ 1 \in DOMAIN events
  BY TailFacts, QueueFacts
<1>2. \A i \in DOMAIN events' : i + 1 \in DOMAIN events /\ events'[i] = events[i + 1]
  BY <1>1
<1>3. ASSUME NEW j \in DOMAIN events, j # 1
      PROVE  j - 1 \in DOMAIN events' /\ events'[j - 1] = events[j]
  <2>1. j - 1 \in 1 .. Len(events) - 1 /\ j - 1 + 1 = j
    BY <1>1, <1>3
  <2>2. QED
    BY <1>1, <2>1
<1>4. ASSUME Head(events).type # "Disconnected", EndWaits(d, events)
      PROVE  EndWaits(e, events')
  <2> SUFFICES ASSUME d.sd.mode = "idle"
               PROVE  events' # << >> /\ events'[Len(events')].type = "Disconnected"
    BY DEF EndWaits
  <2>1. events[Len(events)].type = "Disconnected"
    BY <1>4 DEF EndWaits
  <2>2. Len(events) # 1 /\ Len(events) \in DOMAIN events
    BY <1>1, <1>4, <2>1
  <2>3. events'[Len(events')] = events[Len(events)] /\ Len(events) - 1 \in DOMAIN events'
    BY <1>1, <1>3, <2>2
  <2>4. DOMAIN << >> = {}
    OBVIOUS
  <2>5. QED
    BY <2>1, <2>3, <2>4
<1>5. QED
  BY <1>1, <1>2, <1>3, <1>4

LEMMA QuietPollEnds ==
  ASSUME Careful, WritesConfirmed, HandleInv, EndInv, QuietPoll
  PROVE  EndInv'
<1>1. PICK e : Handled(e) /\ Leaves(e)
  BY QuietPolled DEF HandleInv
<1>2. /\ Shape(e) /\ e.conn = dev.conn /\ e.sd.mode = dev.sd.mode
      /\ e.sd.client = dev.sd.client
      /\ IF Head(events).type \in {"ReadRsp", "WriteRsp"} THEN e.requested = FALSE
         ELSE e.requested = dev.requested
  BY <1>1 DEF Handled
<1>3. /\ events # << >> /\ events' = Tail(events) /\ discovered' = discovered
      /\ Head(events).type # "Disconnected"
  BY QuietHead DEF discovery
<1>4. /\ Asks(e, dev')
      /\ dev'.requested = e.requested \/ (Marks(e, dev') /\ discovered)
  <2>1. CASE dev' = e
    BY <1>2, <2>1 DEF Asks, SdAsks
  <2>2. CASE dev' # e
    <3>1. PICK h, n, i : h # "Discovered" /\ dev' \in AfterHandler(h, e, n, i)
      BY <1>1, <2>2 DEF Leaves
    <3>2. QED
      BY <1>2, <3>1, HandlerAsks, WritesAreAnswered
  <2>3. QED
    BY <2>1, <2>2
<1>5. /\ IsQueue(events') /\ EndWaits(e, events')
      /\ \A i \in DOMAIN events' : \E j \in DOMAIN events : events'[i] = events[j]
      /\ \A j \in DOMAIN events :
           events[j] = Head(events) \/ \E i \in DOMAIN events' : events'[i] = events[j]
  BY <1>2, <1>3, EndPop DEF HandleInv, EndInv
<1>6. Ends(e, events')
  <2>1. CASE Head(events).type \in {"ReadRsp", "WriteRsp"}
    BY <1>2, <2>1 DEF Ends
  <2>2. CASE Head(events).type \notin {"ReadRsp", "WriteRsp"}
    <3>1. ~Ending(Head(events)) /\ e.requested = dev.requested
      BY <1>2, <1>3, <2>2 DEF Ending
    <3>2. (\E j \in DOMAIN events : Ending(events[j]))
            => \E i \in DOMAIN events' : Ending(events'[i])
      BY <1>5, <3>1
    <3>3. QED
      BY <1>2, <3>1, <3>2 DEF Ends, EndInv
  <2>3. QED
    BY <2>1, <2>2
<1>7. discovered => Linkable(e, events')
  BY <1>2, <1>5, ToldOfServices DEF Linkable, Searching
<1>8. Ends(dev', events')
  BY <1>4, <1>5, <1>6, <1>7, CallEnds
<1>9. dev'.sd.mode \in Modes /\ EndWaits(dev', events')
  BY <1>2, <1>4, <1>5 DEF EndInv, EndWaits, Modes, Asks, SdAsks
<1>10. LinkKnown'
  <2>1. dev'.sd.client # Nothing => dev.sd.client # Nothing \/ dev.conn
    BY <1>2, <1>4 DEF Asks
  <2>2. dev'.conn = dev.conn
    BY <1>2, <1>4 DEF Asks
  <2>3. QED
    BY <1>3, <1>5, <2>1, <2>2 DEF EndInv, LinkKnown
<1>11. QED
  BY <1>8, <1>9, <1>10 DEF EndInv

(* The events of the search, whose handlers move it on.                    *)
LEMMA SearchMoves ==
  ASSUME NEW d, Shape(d), NEW q, NEW e, Moves(d, e, q), NEW s, Ends(d, s)
  PROVE  Ends(e, s) /\ e.conn = d.conn /\ e.sd.mode = d.sd.mode
<1>1. /\ e.sd.mode = d.sd.mode /\ e.conn = d.conn /\ e.requested = d.requested
      /\ d.sd.client # Nothing => e.sd.client = d.sd.client
  BY SearchStarts
<1>2. d.sd.client.kind \in {"read", "write"} => d.sd.client # Nothing
  BY DEF Nothing
<1>3. QED
  BY <1>1, <1>2 DEF Ends

LEMMA SearchPopEnds ==
  ASSUME HandleInv, EndInv, events # << >>, events' = Tail(events),
         SearchEvent(Head(events)),
         NEW d, d.requested = dev.requested, d.sd.client = dev.sd.client,
         d.sd.mode = dev.sd.mode
  PROVE  IsQueue(events') /\ Ends(d, events') /\ EndWaits(d, events')
<1>1. ~Ending(Head(events)) /\ Head(events).type # "Disconnected"
  BY DEF SearchEvent, Ending
<1>2. /\ IsQueue(events') /\ EndWaits(d, events')
      /\ \A j \in DOMAIN events :
           events[j] = Head(events) \/ \E i \in DOMAIN events' : events'[i] = events[j]
  BY <1>1, EndPop DEF HandleInv, EndInv
<1>3. (\E j \in DOMAIN events : Ending(events[j]))
        => \E i \in DOMAIN events' : Ending(events'[i])
  BY <1>1, <1>2
<1>4. QED
  BY <1>2, <1>3 DEF Ends, EndInv

LEMMA SearchStepEnds ==
  ASSUME dev'.conn = TRUE, dev'.sd.mode \in Modes, EndWaits(dev', events'),
         Ends(dev', events')
  PROVE  EndInv'
BY DEF EndInv, LinkKnown

LEMMA ConnectedEnds ==
  ASSUME Careful, IInv, HandleInv, EndInv, Connected
  PROVE  EndInv'
<1> DEFINE linked == [dev EXCEPT !.conn = TRUE, !.tx = dev.sd.free]
           q == [kind |-> "services", start |-> 1]
<1>1. PICK d \in AfterHandler("Connected", linked, notifySubscribed, indicateSubscribed) :
        dev' = IF Services = << >> THEN d
               ELSE [d EXCEPT !.sd = sd_ble_gattc_primary_services_discover(@, 1)]
  BY DEF Connected
<1>2. /\ Shape(linked) /\ linked.sd = dev.sd /\ linked.conn = TRUE
      /\ linked.requested = dev.requested
  BY DEF HandleInv, Shape
<1>3. events # << >> /\ events' = Tail(events) /\ SearchEvent(Head(events))
  BY DEF Connected, Gets, SearchEvent
<1>4. ~discovered
  BY <1>3, SearchHead
<1> HIDE DEF linked
<1>5. Asks(linked, d) /\ d.requested = linked.requested
  BY <1>2, <1>4, HandlerAsks
<1>6. IsQueue(events') /\ Ends(linked, events') /\ EndWaits(linked, events')
  BY <1>2, <1>3, SearchPopEnds
<1>7. Ends(d, events') /\ Shape(d)
  BY <1>5, <1>6, CallEnds DEF Asks
<1>8. Moves(d, dev', q)
  BY <1>1 DEF sd_ble_gattc_primary_services_discover, Moves
<1> HIDE DEF q
<1>9. Ends(dev', events') /\ dev'.conn = TRUE /\ dev'.sd.mode = d.sd.mode
  BY <1>2, <1>5, <1>7, <1>8, SearchMoves DEF Asks
<1>10. dev'.sd.mode \in Modes /\ EndWaits(dev', events')
  BY <1>2, <1>5, <1>6, <1>9 DEF EndInv, EndWaits, Modes, Asks, SdAsks
<1>11. QED
  BY <1>9, <1>10, SearchStepEnds

(* An answer that waits is of a link that the driver knows of.             *)
LEMMA AnswerKnown ==
  ASSUME HandleInv, EndInv, events # << >>, Answered(Head(events))
  PROVE  dev.conn
<1>1. Head(events) = events[1] /\ 1 \in DOMAIN events
  BY TailFacts DEF HandleInv
<1>2. QED
  BY <1>1 DEF EndInv, LinkKnown

LEMMA MovedEnds ==
  ASSUME HandleInv, EndInv, events # << >>, events' = Tail(events),
         Answered(Head(events)), NEW q, Moves(dev, dev', q)
  PROVE  EndInv'
<1>1. dev.conn /\ SearchEvent(Head(events))
  BY AnswerKnown DEF Answered, SearchEvent
<1>2. IsQueue(events') /\ Ends(dev, events') /\ EndWaits(dev, events')
  BY <1>1, SearchPopEnds
<1>3. Ends(dev', events') /\ dev'.conn = dev.conn /\ dev'.sd.mode = dev.sd.mode
  BY <1>2, SearchMoves DEF HandleInv
<1>4. dev'.sd.mode \in Modes /\ EndWaits(dev', events')
  BY <1>2, <1>3 DEF EndInv, EndWaits
<1>5. QED
  BY <1>1, <1>3, <1>4 DEF EndInv, LinkKnown

LEMMA PrimSrvcDiscRspEnds ==
  ASSUME HandleInv, EndInv, PrimSrvcDiscRsp
  PROVE  EndInv'
<1>1. \E q : Moves(dev, dev', q)
  BY DEF PrimSrvcDiscRsp, Moves, sd_ble_gattc_primary_services_discover,
         sd_ble_gattc_characteristics_discover
<1>2. events # << >> /\ events' = Tail(events) /\ Answered(Head(events))
  BY DEF PrimSrvcDiscRsp, Gets, Answered
<1>3. QED
  BY <1>1, <1>2, MovedEnds

LEMMA CharDiscRspEnds ==
  ASSUME WritesConfirmed, IInv, HandleInv, EndInv, CharDiscRsp
  PROVE  EndInv'
<1>1. /\ events # << >> /\ events' = Tail(events) /\ Answered(Head(events))
      /\ SearchEvent(Head(events))
  BY DEF CharDiscRsp, Gets, Answered, SearchEvent
<1>2. CASE \E q : Moves(dev, dev', q)
  BY <1>1, <1>2, MovedEnds
<1>3. CASE dev' \in AfterHandler("Discovered", dev, notifySubscribed, indicateSubscribed)
  <2>1. Asks(dev, dev') /\ Marks(dev, dev')
    BY <1>3, HandlerAsks, WritesAreAnswered DEF HandleInv
  <2>2. IsQueue(events') /\ Ends(dev, events') /\ EndWaits(dev, events')
    BY <1>1, SearchPopEnds
  <2>3. dev.conn /\ ~Searching(dev.sd) /\ dev.sd.mode # "advertising"
    BY <1>1, AnswerKnown, SearchHead
  <2>4. Linkable(dev, events')
    BY <2>2, <2>3 DEF Linkable, EndInv, HandleInv
  <2>5. Ends(dev', events')
    BY <2>1, <2>2, <2>4, CallEnds
  <2>6. dev'.sd.mode \in Modes /\ EndWaits(dev', events') /\ dev'.conn
    BY <2>1, <2>2, <2>3 DEF EndInv, EndWaits, Modes, Asks, SdAsks
  <2>7. QED
    BY <2>5, <2>6 DEF EndInv, LinkKnown
<1>4. QED
  BY <1>2, <1>3 DEF CharDiscRsp, Moves, sd_ble_gattc_characteristics_discover

(* Nothing is asked, nothing waits, and nothing is to end.                 *)
LEMMA NothingEnds ==
  ASSUME dev'.requested = FALSE, dev'.sd.mode = "advertising", dev'.sd.client = Nothing,
         discovered' = FALSE, DOMAIN events' = {}
  PROVE  EndInv'
<1>1. LinkKnown' /\ Ends(dev', events')
  BY DEF LinkKnown, Ends
<1>2. EndWaits(dev', events') /\ dev'.sd.mode \in Modes
  BY DEF EndWaits, Modes
<1>3. QED
  BY <1>1, <1>2 DEF EndInv

LEMMA RestartEnds ==
  ASSUME "end" \notin Restarts, PowerCycle \/ EndAndBegin
  PROVE  EndInv'
<1>1. PowerCycle
  BY DEF EndAndBegin
<1>2. /\ dev'.requested = FALSE
      /\ dev'.sd = Begun(Enabled(dev.sd.peerKey))
  BY <1>1 DEF PowerCycle
<1>3. dev'.sd.mode = "advertising" /\ dev'.sd.client = Nothing
  BY <1>2 DEF Begun, Enabled, sd_ble_gap_adv_start
<1>4. events' = << >> /\ DOMAIN << >> = {} /\ discovered' = FALSE
  BY <1>1 DEF PowerCycle, Begins
<1>5. QED
  BY <1>2, <1>3, <1>4, NothingEnds

LEMMA CallEndsStep ==
  ASSUME Careful, WritesConfirmed, HandleInv, EndInv, Call
  PROVE  EndInv'
<1>1. PICK a \in Allowed(dev, LoopCalls, discovered) :
        dev' = Called(dev, notifySubscribed, indicateSubscribed, a)
  BY DEF Call
<1>2. /\ a \in LoopCalls
      /\ ~discovered => ~IsRemoteCall(a)
  BY DEF Allowed, IsRemoteCall
<1>3. IsRemoteCall(a) => a[2] \in DOMAIN Remotes
  BY <1>2, ConstantsOK
<1>4. /\ Asks(dev, dev')
      /\ dev'.requested = dev.requested \/ (Marks(dev, dev') /\ discovered)
  <2>1. /\ Asks(dev, dev') /\ Marks(dev, dev')
        /\ ~IsRemoteCall(a) => dev'.requested = dev.requested
    BY <1>1, <1>3, CalledAsks, WritesAreAnswered DEF HandleInv
  <2>2. QED
    BY <1>2, <2>1
<1>5. events' = events /\ discovered' = discovered
  BY DEF Call, discovery
<1>6. Ends(dev', events')
  BY <1>4, <1>5, ToldOfServices, CallEnds DEF EndInv, HandleInv
<1>7. dev'.sd.mode \in Modes /\ EndWaits(dev', events')
  BY <1>4, <1>5 DEF EndInv, EndWaits, Modes, Asks, SdAsks
<1>8. LinkKnown'
  BY <1>4, <1>5 DEF EndInv, LinkKnown, Asks
<1>9. QED
  BY <1>6, <1>7, <1>8 DEF EndInv

(* The SoftDevice adds an event.                                           *)
LEMMA EndPush ==
  ASSUME IsQueue(events), EndInv, NEW e, events' = Append(events, e),
         UNCHANGED discovered,
         dev'.conn = dev.conn, dev'.requested = dev.requested,
         dev'.sd.mode \in Modes \ {"idle"} \/ e.type = "Disconnected",
         dev'.sd.mode = dev.sd.mode \/ e.type = "Disconnected",
         \/ dev'.sd.client = dev.sd.client
         \/ /\ dev'.sd.client = Nothing
            /\ dev.sd.client.kind \in {"read", "write"} => Ending(e),
         Answered(e) => dev.sd.client # Nothing, dev'.sd.mode \in Modes
  PROVE  EndInv'
<1>1. /\ IsQueue(events') /\ Len(events) \in Nat /\ Len(events') = Len(events) + 1
      /\ DOMAIN events = 1 .. Len(events) /\ DOMAIN events' = 1 .. Len(events) + 1
      /\ \A i \in 1 .. Len(events) : events'[i] = events[i]
      /\ events'[Len(events) + 1] = e
  BY AppendFacts, QueueFacts
<1>2. /\ \A i \in DOMAIN events : i \in DOMAIN events' /\ events'[i] = events[i]
      /\ Len(events') \in DOMAIN events' /\ events'[Len(events')] = e
      /\ \A i \in DOMAIN events' : events'[i] = e \/ (i \in DOMAIN events /\ events'[i] = events[i])
  BY <1>1
<1>3. EndWaits(dev', events')
  <2>1. CASE e.type = "Disconnected"
    <3>1. DOMAIN << >> = {}
      OBVIOUS
    <3>2. events' # << >>
      BY <1>2, <3>1
    <3>3. QED
      BY <1>2, <2>1, <3>2 DEF EndWaits
  <2>2. CASE e.type # "Disconnected"
    BY <2>2 DEF EndWaits
  <2>3. QED
    BY <2>1, <2>2
<1>4. LinkKnown'
  BY <1>2 DEF EndInv, LinkKnown
<1>5. Ends(dev', events')
  <2> SUFFICES ASSUME dev.requested PROVE Ends(dev', events')
    BY DEF Ends
  <2>1. CASE Ending(e)
    BY <1>2, <2>1 DEF Ends
  <2>2. CASE ~Ending(e)
    <3>1. dev'.sd.mode = dev.sd.mode
      BY <2>2 DEF Ending
    <3>2. dev.sd.client.kind \in {"read", "write"} => dev'.sd.client = dev.sd.client
      BY <2>2
    <3>3. QED
      BY <1>2, <3>1, <3>2 DEF EndInv, Ends
  <2>3. QED
    BY <2>1, <2>2
<1>6. QED
  BY <1>3, <1>4, <1>5 DEF EndInv

LEMMA PeerConnectsEnds ==
  ASSUME IInv, HandleInv, EndInv, PeerConnects
  PROVE  EndInv'
<1>1. /\ events' = Append(events, [type |-> "Connected"])
      /\ dev.sd.mode = "advertising" /\ dev'.sd.mode = "connected"
      /\ dev'.sd.client = Nothing /\ dev'.requested = dev.requested
      /\ discovered' = discovered
  BY PeerConnectsDevice DEF HandleInv, discovery
<1>2. /\ events = << >> /\ dev.sd.client = Nothing /\ ~discovered
  BY <1>1 DEF IInv, LinksApart, HandleInv, LinkOver, Blank
<1>3. ~dev.requested
  <2>1. dev.sd.client.kind = "none" /\ DOMAIN events = {}
    BY <1>2 DEF Nothing
  <2>2. QED
    BY <1>1, <2>1 DEF EndInv, Ends
<1> DEFINE e == [type |-> "Connected"]
<1>4. ~Answered(e) /\ events' = Append(events, e)
  BY <1>1 DEF Answered
<1> HIDE DEF e
<1>5. \A i \in DOMAIN events' : events'[i] = e
  <2>1. /\ DOMAIN events' = 1 .. Len(events) + 1 /\ events'[Len(events) + 1] = e
    BY <1>4, AppendFacts DEF HandleInv
  <2>2. Len(events) = 0
    BY <1>2
  <2>3. QED
    BY <2>1, <2>2
<1>6. LinkKnown'
  BY <1>1, <1>2, <1>4, <1>5 DEF LinkKnown
<1>7. Ends(dev', events') /\ EndWaits(dev', events') /\ dev'.sd.mode \in Modes
  BY <1>1, <1>3 DEF Ends, EndWaits, Modes
<1>8. QED
  BY <1>6, <1>7 DEF EndInv

LEMMA SoftDeviceEnds ==
  ASSUME IInv, HandleInv, EndInv, SoftDeviceSteps
  PROVE  EndInv'
<1>1. CASE QuietStep
  <2>1. PICK e : events' = Append(events, e) /\ QuietEvent(e)
    BY <1>1, QuietStepDevice DEF HandleInv
  <2>2. /\ Up /\ SdQuiet(dev.sd, dev'.sd) /\ discovered' = discovered
        /\ dev'.conn = dev.conn /\ dev'.requested = dev.requested
    BY <1>1, QuietStepDevice DEF HandleInv, discovery
  <2>3. ~Answered(e)
    BY <2>1 DEF QuietEvent, Answered
  <2>4. /\ dev'.sd.mode = dev.sd.mode /\ dev'.sd.client = dev.sd.client
        /\ dev'.sd.mode = "connected"
    BY <2>2 DEF SdQuiet, Up
  <2>5. QED
    BY <2>1, <2>2, <2>3, <2>4, EndPush DEF HandleInv, Modes
<1>2. CASE LinkEnds
  <2> DEFINE e == [type |-> "Disconnected"]
  <2>1. /\ events' = Append(events, e) /\ e.type = "Disconnected"
        /\ dev'.sd.mode = "idle" /\ dev'.sd.client = Nothing
        /\ discovered' = discovered
        /\ dev'.conn = dev.conn /\ dev'.requested = dev.requested
    BY <1>2, LinkEndsDevice DEF HandleInv, discovery
  <2> HIDE DEF e
  <2>2. Ending(e) /\ ~Answered(e)
    BY <2>1 DEF Ending, Answered
  <2>3. QED
    BY <2>1, <2>2, EndPush DEF HandleInv, Modes
<1>3. CASE PacketsSent
  <2>1. PICK n : events' = Append(events, [type |-> "TxComplete", count |-> n])
    BY <1>3, PacketsSentDevice DEF HandleInv
  <2>2. /\ Up /\ dev'.sd.mode = dev.sd.mode /\ dev'.sd.client = dev.sd.client
        /\ discovered' = discovered
        /\ dev'.conn = dev.conn /\ dev'.requested = dev.requested
    BY <1>3, PacketsSentDevice DEF HandleInv, discovery
  <2> DEFINE e == [type |-> "TxComplete", count |-> n]
  <2>3. e.type = "TxComplete" /\ ~Answered(e) /\ events' = Append(events, e)
    BY <2>1 DEF Answered
  <2> HIDE DEF e
  <2>4. QED
    BY <2>2, <2>3, EndPush DEF HandleInv, Modes, Up
<1>4. CASE PeerAnswers
  <2>1. PICK e \in Answers(dev.sd) : events' = Append(events, e)
    BY <1>4, PeerAnswersDevice DEF HandleInv
  <2>2. /\ Up /\ dev'.sd.mode = dev.sd.mode /\ dev'.sd.client = Nothing
        /\ discovered' = discovered
        /\ dev'.conn = dev.conn /\ dev'.requested = dev.requested
    BY <1>4, PeerAnswersDevice DEF HandleInv, discovery
  <2>3. /\ e.type \in {"PrimSrvcDiscRsp", "CharDiscRsp", "ReadRsp", "WriteRsp"}
        /\ dev.sd.client # Nothing
        /\ SearchEvent(e) => Searching(dev.sd)
    BY <2>1, AnswerFacts
  <2>4. dev.sd.client.kind \in {"read", "write"} => Ending(e)
    BY <2>3 DEF SearchEvent, Searching, Ending
  <2>5. QED
    BY <2>1, <2>2, <2>3, <2>4, EndPush DEF HandleInv, Modes, Up
<1>5. QED
  BY <1>1, <1>2, <1>3, <1>4, PeerConnectsEnds DEF SoftDeviceSteps, QuietStep

LEMMA StepEnds ==
  ASSUME Careful, "end" \notin Restarts, WritesConfirmed,
         IInv, HandleInv, EndInv, [Next]_vars
  PROVE  EndInv'
<1>1. CASE UNCHANGED vars
  <2>1. dev' = dev /\ events' = events /\ discovered' = discovered
    BY <1>1 DEF vars, discovery
  <2>2. QED
    BY <2>1 DEF EndInv, LinkKnown
<1>2. CASE Disconnected
  <2>1. discovered' = FALSE
    BY <1>2 DEF Disconnected
  <2>2. QED
    BY <1>2, <2>1, Unlinks, NothingEnds
<1>3. CASE poll /\ ~Disconnected
  BY <1>3, QuietPollEnds, ConnectedEnds, PrimSrvcDiscRspEnds, CharDiscRspEnds
  DEF poll, QuietPoll
<1>4. QED
  BY <1>1, <1>2, <1>3, CallEndsStep, RestartEnds, SoftDeviceEnds DEF Next

(* A request marked in progress is one that something will end: when the   *)
(* sketch asks can...() first and waits to be told of the services, no     *)
(* characteristic of a peer can only be written without a response, which  *)
(* is never answered, and the sketch does not call end(), which keeps the  *)
(* mark and stops everything that could clear it.                          *)
THEOREM RequestsEnd ==
  ASSUME Careful, "end" \notin Restarts, WritesConfirmed
  PROVE  Spec => []RequestEnds
<1>1. Init => EndInv
  <2> SUFFICES ASSUME Init PROVE EndInv
    OBVIOUS
  <2>1. /\ dev.requested = FALSE /\ dev.sd.mode = "advertising"
        /\ dev.sd.client = Nothing /\ discovered = FALSE /\ DOMAIN events = {}
    BY DEF Init, Begun, Enabled, sd_ble_gap_adv_start
  <2>2. QED
    BY <2>1 DEF EndInv, EndWaits, LinkKnown, Ends, Modes
<1>2. IInv /\ HandleInv /\ EndInv /\ [Next]_vars => EndInv'
  BY StepEnds
<1>3. EndInv => RequestEnds
  BY DEF EndInv, Ends, Ending, RequestEnds, Queued
<1>4. QED
  BY <1>1, <1>2, <1>3, AlwaysIInv, AlwaysHandleInv, PTL DEF Spec
==============================================================================
