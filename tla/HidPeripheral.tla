---------------------------- MODULE HidPeripheral ----------------------------
(***************************************************************************)
(* BLEHIDPeripheral on an AVR with an nRF8001: HID devices whose reports   *)
(* wait in sendData until the characteristic can notify, polling meanwhile, *)
(* and the bond store in EEPROM, over power losses.  Module Nrf8001 is the *)
(* driver; its Local characteristics are the HIDs' report characteristics, *)
(* in the order of addHID.  The control point is left out: nothing comes   *)
(* of the peer's writes to it.                                             *)
(***************************************************************************)
EXTENDS Nrf8001, HidDevices, BondEeprom

CONSTANTS
  HidSets,     (* the HIDs a sketch adds                                    *)
  IdOffset,    (* setReportIdOffset                                         *)
  Characters,  (* what it writes to the keyboard                            *)
  Codes, Bits, (* what it presses: key codes, modifiers or buttons          *)
  Patient,     (* the sketch polls until tx is empty before it calls again  *)
  MaxHeld,     (* bound: keys pressed at once                               *)
  MaxBonds, MaxVersions  (* bounds: bonds made, changes of their data       *)

ASSUME MaxHeldAssumption == MaxHeld \in 0 .. 5

(* Every bond's data are as many messages as the chip has.                 *)
ASSUME BondsAssumption ==
  /\ MaxBonds \in Nat
  /\ \A bond \in 1 .. MaxBonds : bond \in DOMAIN Sizes /\ Len(Sizes[bond]) = Chunks

VARIABLES
  use,      (* "typing" or "bonding"                                        *)
  kinds,    (* _hids                                                        *)
  device,   (* the report of each                                           *)
  sending,  (* [hid, report]: what sendData still has to send for the call  *)
  queued,   (* [hid, report, told]: the reports of the data packets in tx   *)
  taken,    (* and of those the chip has taken                              *)
  told,     (* the HIDs whose last report was sent to a peer that listened  *)
  seen,     (* the report of each that the peer received last               *)
  owed,     (* how many such reports of each it has not received            *)
  held,     (* what the sketch holds down on each                           *)
  eeprom,
  offset,   (* _dynamicDataOffset                                           *)
  message,  (* the message in the last command that writes dynamic data     *)
  dynamic,  (* the chip's dynamic data, as messages                         *)
  peer,     (* the bond the peer has, and how often its data changed        *)
  saved     (* the version that was saved: 0 when none was completely, Mixed *)
            (* when another one was being saved over one, Half when power    *)
            (* was lost while the first was being saved                      *)

typing == <<device, sending, queued, taken, told, seen, owed, held>>
storing == <<eeprom, offset, message, dynamic, peer, saved>>
hidVars == <<vars, use, kinds, typing, storing>>

Hids == DOMAIN kinds
Pipe(i) == Local[i].tx

HidInit ==
  /\ Init /\ stored = 0
  /\ use \in {"typing", "bonding"} /\ kinds \in HidSets
  /\ device = [i \in Hids |-> Blank(kinds[i])] /\ seen = device
  /\ sending = << >> /\ queued = << >> /\ taken = << >> /\ told = {}
  /\ owed = [i \in Hids |-> 0] /\ held = [i \in Hids |-> {}]
  /\ eeprom = FreshEeprom /\ offset = 0 /\ message = << >> /\ dynamic = << >>
  /\ peer = [bond |-> 0, version |-> 0] /\ saved = 0

------------------------------------------------------------------------------
(* BLEHID::sendData.  canNotify looks at the credit alone.                 *)
canNotifyListener ==
  out.credit > 0 /\ \A k \in DOMAIN sending : Pipe(sending[k].hid) \in txOpen

canNotify == out.credit > 0

DataPackets(o) == Cardinality({k \in DOMAIN o.tx : o.tx[k][1] = "data"})

(* The peer is there and listens, and the driver knows.                    *)
Listens(i) ==
  chip.mode = "connected" /\ Pipe(i) \in chip.open /\ Pipe(i) \in txOpen

sendData ==
  LET i == Head(sending).hid
      after == updateCharacteristicValue(out, txOpen, i)
  IN  /\ sending # << >> /\ canNotify
      /\ sending' = Tail(sending)
      /\ out' = after
      /\ queued' = IF DataPackets(after) > DataPackets(out)
                   THEN Append(queued, [hid |-> i, report |-> Head(sending).report, told |-> Listens(i)])
                   ELSE queued
      /\ told' = IF Listens(i) THEN told \cup {i} ELSE told \ {i}
      /\ owed' = [owed EXCEPT ![i] = IF Listens(i) THEN @ + 1 ELSE @]
      /\ UNCHANGED <<txOpen, link, bonding, sketch, chip, events, use, kinds, device, taken,
                     seen, held, storing>>

(* A call of the sketch, in the loop of the examples: while a central is   *)
(* connected.  The reports it makes are sent one after the other.          *)
Calls(i, reports, holding) ==
  /\ use = "typing" /\ central /\ sending = << >>
  /\ Patient => out.tx = << >>
  /\ sending' = [k \in DOMAIN reports |-> [hid |-> i, report |-> reports[k]]]
  /\ device' = IF reports = << >> THEN device ELSE [device EXCEPT ![i] = Last(reports)]
  /\ held' = [held EXCEPT ![i] = holding]
  /\ UNCHANGED <<vars, use, kinds, queued, taken, told, seen, owed, storing>>

Of(kind) == {i \in Hids : kinds[i] = kind}
Key(code) == <<"key", code>>
HeldKeys(i) == {h \in held[i] : h[1] = "key"}

(* The sketch writes characters whose keys and modifiers it does not hold. *)
KeyboardWrite ==
  \E i \in Of("keyboard"), k \in Characters :
    /\ Cardinality(HeldKeys(i)) < MaxHeld
    /\ Key(keyToCodeAndModifier(k).code) \notin held[i]
    /\ keyToCodeAndModifier(k).modifiers \cap held[i] = {}
    /\ Calls(i, Typing(device[i], k), held[i])

KeyboardPress ==
  \E i \in Of("keyboard") :
    \/ \E code \in Codes :
         /\ Cardinality(HeldKeys(i)) < MaxHeld /\ Key(code) \notin held[i]
         /\ Calls(i, Pressing(device[i], code, {}), held[i] \cup {Key(code)})
    \/ \E bit \in Bits : Calls(i, Pressing(device[i], 0, {bit}), held[i] \cup {bit})

KeyboardRelease ==
  \E i \in Of("keyboard") :
    \/ \E code \in Codes : Calls(i, Releasing(device[i], code, {}), held[i] \ {Key(code)})
    \/ \E bit \in Bits : Calls(i, Releasing(device[i], 0, {bit}), held[i] \ {bit})

KeyboardReleaseAll ==
  \E i \in Of("keyboard") : Calls(i, <<Blank("keyboard")>>, {})

MouseMove == \E i \in Of("mouse") : Calls(i, Moving(device[i], 1, 0, 0), held[i])
MousePress ==
  \E i \in Of("mouse"), b \in Bits : Calls(i, ButtonPressed(device[i], b), held[i] \cup {b})
MouseRelease ==
  \E i \in Of("mouse"), b \in Bits : Calls(i, ButtonReleased(device[i], b), held[i] \ {b})
MouseClick ==
  \E i \in Of("mouse"), b \in Bits : Calls(i, Clicking(device[i], b), held[i] \ {b})

MultimediaWrite ==
  \E i \in Of("multimedia"), k \in Codes : Calls(i, MultimediaWritten(k), {})
SystemControlWrite ==
  \E i \in Of("systemControl") : Calls(i, SystemControlWritten(SYSCTRLKEY_POWER), {})

Sketch ==
  \/ KeyboardWrite \/ KeyboardPress \/ KeyboardRelease \/ KeyboardReleaseAll
  \/ MouseMove \/ MousePress \/ MouseRelease \/ MouseClick
  \/ MultimediaWrite \/ SystemControlWrite

------------------------------------------------------------------------------
(* A poll: a data packet leaves tx, and the chip takes it or not.          *)
Carries(op) == out.tx # << >> /\ Head(out.tx)[1] = op

ReportLeaves ==
  /\ queued' = IF Carries("data") THEN Tail(queued) ELSE queued
  /\ taken' = IF Carries("data") /\ Takes(chip, Head(out.tx)[2])
              THEN Append(taken, Head(queued)) ELSE taken
  /\ UNCHANGED <<device, sending, told, seen, owed, held>>

Handles(type) == events # << >> /\ Head(events).type = type

(* The writes that save the message of a DataRead event.  Message 1 goes   *)
(* to the start of the store.                                              *)
Mixed == -1
Half == -2
Interrupted == IF saved = 0 THEN 0 ELSE Mixed

SaveOffsetKept == offset
SaveOffset == IF Head(events).seqNo = 1 THEN 0 ELSE offset
Saving == MessagePut(dynamic[Head(events).seqNo], SaveOffset)

Saves ==
  IF Handles("DataRead")
  THEN /\ eeprom' = AfterWrites(eeprom, Saving)
       /\ offset' = SaveOffset + 1 + Len(dynamic[Head(events).seqNo])
       /\ saved' = IF Head(events).complete THEN peer.version ELSE Interrupted
       /\ UNCHANGED message
  ELSE UNCHANGED <<eeprom, saved>>

(* The next message is read from the store to be written to the chip.      *)
RestoresAt(from) ==
  /\ message' = MessageGot(eeprom, from)
  /\ offset' = from + 1 + Len(MessageGot(eeprom, from))

Restores ==
  CASE Handles("DeviceStarted") /\ ~Head(events).hwError /\ hasDataIn(eeprom) -> RestoresAt(0)
    [] Handles("DataWritten") /\ ~Head(events).complete -> RestoresAt(offset)
    [] Handles("DataRead") -> TRUE
    [] OTHER -> UNCHANGED <<offset, message>>

ChipRestored ==
  /\ dynamic' = IF Carries("writeDynamic") /\ chip.mode = "standby" /\ chip.restored < Chunks
                THEN Append(dynamic, message) ELSE dynamic
  /\ UNCHANGED peer

HidPoll ==
  /\ sending = << >> \/ ~canNotify
  /\ poll
  /\ ReportLeaves /\ Saves /\ Restores /\ ChipRestored
  /\ UNCHANGED <<use, kinds>>

------------------------------------------------------------------------------
(* The peer and the chip.  Bound: a link comes up after the loop has sent  *)
(* what it had, which takes it less time than advertising.                 *)
Settled ==
  out.tx = << >> /\ events = << >> /\ (sending = << >> \/ ~canNotify)

HostConnects ==
  /\ PeerConnects /\ (use = "typing" => Settled)
  /\ UNCHANGED <<use, kinds, typing, storing>>

(* Reports to a pipe that is closed are no longer expected.                *)
Forgotten(lost, packets) ==
  [k \in DOMAIN packets |->
     [packets[k] EXCEPT !.told = @ /\ packets[k].hid \notin lost]]

Unheard(lost) ==
  /\ told' = told \ lost
  /\ owed' = [i \in Hids |-> IF i \in lost THEN 0 ELSE owed[i]]
  /\ queued' = Forgotten(lost, queued)

HostSetsPipes ==
  /\ use = "typing" /\ PeerSetsPipes
  /\ chip'.open \subseteq {Pipe(i) : i \in Hids}
  /\ Unheard({i \in Hids : Pipe(i) \notin chip'.open})
  /\ taken' = Forgotten({i \in Hids : Pipe(i) \notin chip'.open}, taken)
  /\ UNCHANGED <<use, kinds, device, sending, seen, held, storing>>

HostReceives ==
  /\ PeerTakesData
  /\ taken' = Tail(taken)
  /\ seen' = [seen EXCEPT ![Head(taken).hid] = Head(taken).report]
  /\ owed' = [owed EXCEPT ![Head(taken).hid] = IF Head(taken).told THEN @ - 1 ELSE @]
  /\ UNCHANGED <<use, kinds, device, sending, queued, told, held, storing>>

HostLeaves ==
  /\ LinkEnds
  /\ Unheard(Hids) /\ taken' = << >>
  /\ seen' = [i \in Hids |-> Blank(kinds[i])]
  /\ UNCHANGED <<use, kinds, device, sending, held, storing>>

Data(bond, version) == [i \in 1 .. Chunks |-> Message(bond, version, i)]

(* The peer makes a bond with a chip that has none, or uses the one they   *)
(* have, which may change the data of it.                                  *)
HostBonds ==
  /\ use = "bonding" /\ PeerBonds
  /\ IF ~Last(events').success THEN UNCHANGED <<peer, dynamic>>
     ELSE /\ \/ dynamic = << >> /\ peer.bond < MaxBonds
                /\ peer' = [bond |-> peer.bond + 1, version |-> 1]
             \/ dynamic # << >> /\ UNCHANGED peer
             \/ dynamic # << >> /\ peer.version < MaxVersions
                /\ peer' = [peer EXCEPT !.version = @ + 1]
          /\ dynamic' = Data(peer'.bond, peer'.version)
  /\ UNCHANGED <<use, kinds, typing, eeprom, offset, message, saved>>

(* Power is lost with the store like that, and comes back; setup() may     *)
(* clear the store before begin() starts the driver and the chip anew,     *)
(* with an empty ring.                                                     *)
Restarts(store, version) ==
  /\ \/ eeprom' = store /\ saved' = version
     \/ eeprom' = clearData(store) /\ saved' = 0
  /\ stored' = IF hasDataIn(eeprom') THEN Chunks ELSE 0
  /\ \E head \in 0 .. IndexRange - 1 : out' = Begun(head)
  /\ txOpen' = {} /\ timingChanged' = FALSE /\ closedPipesCleared' = FALSE
  /\ remoteServicesDiscovered' = FALSE
  /\ storeDynamicData' = FALSE /\ bonded' = FALSE /\ sequenceNo' = 0
  /\ subscribed' = {} /\ written' = {} /\ central' = FALSE
  /\ chip' = SetUp /\ events' = << [type |-> "DeviceStarted", hwError |-> FALSE] >>
  /\ offset' = 0 /\ message' = << >> /\ dynamic' = << >>
  /\ UNCHANGED <<use, kinds, typing, peer>>

(* putData sets the flag with the first byte, so that a store is taken to  *)
(* have data while the first are being saved.                              *)
PowerLost ==
  /\ use = "bonding"
  /\ Restarts(eeprom, IF hasDataIn(eeprom) /\ saved = 0 THEN Half ELSE saved)

(* Between two bytes of a message.                                         *)
PowerLostSaving ==
  /\ use = "bonding" /\ Handles("DataRead")
  /\ \E n \in 1 .. Len(Saving) - 1 :
       Restarts(AfterWrites(eeprom, SubSeq(Saving, 1, n)), IF saved = 0 THEN Half ELSE Mixed)

Host ==
  \/ HostConnects \/ HostSetsPipes \/ HostReceives \/ HostLeaves
  \/ HostBonds \/ PowerLost \/ PowerLostSaving

(* Bound: nothing is said of what happens after a command was overrun, nor *)
(* of begin() with half a bond's data in the store: the sizes of the other *)
(* messages are whatever bytes are there, 0xff of an erased one, and       *)
(* reading so many overruns the driver's buffer.                           *)
Ended == out.overrun \/ saved = Half

HidNext == \/ ~Ended /\ (sendData \/ Sketch \/ HidPoll \/ Host)
           \/ Ended /\ UNCHANGED hidVars

(* sendData polls, and so does the loop; a peer that listens takes what it *)
(* is sent, whatever else it does in between.                              *)
HidSpec ==
  /\ HidInit /\ [][HidNext]_hidVars
  /\ WF_hidVars(~Ended /\ sendData) /\ WF_hidVars(~Ended /\ HidPoll)
  /\ SF_hidVars(~Ended /\ HostReceives)

------------------------------------------------------------------------------
(* The HID whose id a report's reference descriptor has is the one that    *)
(* the report map describes with it.                                       *)
Attributed(i) == Described(kinds, IdOffset, addHID(i, IdOffset)) = {i}

(* What the host sees pressed is what the sketch holds down: when the last *)
(* report of a HID was sent to a peer that listened, and none of its       *)
(* reports is on the way, the peer received each of those and reads them   *)
(* as keys, modifiers or buttons that the sketch's calls ask for; no key   *)
(* sticks and none is missing, however often the driver ran out of credit  *)
(* in the middle of a call or the link was lost.                           *)
KeysReported ==
  \A i \in Hids :
    (\A packets \in {queued, taken} : \A k \in DOMAIN packets : packets[k].hid # i) =>
      /\ owed[i] = 0
      /\ i \in told /\ sending = << >> =>
           Attributed(i) /\ Read(kinds[i], seen[i]) = held[i]

(* A call that waits in sendData returns, or the link it waits on ends.    *)
CallsReturn == []<>(sending = << >> \/ ~central \/ out.overrun)

(* When the chip advertises, a store that says it has data has those of    *)
(* the peer's bond, every byte of every message found at its place, and of *)
(* the last version if that was saved completely; and what was written     *)
(* back to the chip after a restart is that too.  Power may have been lost *)
(* between any two bytes, unless that was while the first data of a bond   *)
(* were being saved and the store was not cleared then.                    *)
OfBond(messages) ==
  \A i \in 1 .. Chunks :
    /\ Len(messages[i]) = Sizes[peer.bond][i]
    /\ \A k \in DOMAIN messages[i] :
         \E version \in 1 .. peer.version : messages[i][k] = <<peer.bond, version, i, k>>

StoreTrusted ==
  \/ Ended
  \/ /\ hasDataIn(eeprom) <=> stored > 0
     /\ chip.mode \in Advertising =>
          /\ dynamic # << >> => Len(dynamic) = Chunks /\ OfBond(dynamic)
          /\ stored > 0 =>
               /\ OfBond(MessagesIn(eeprom, Chunks))
               /\ saved > 0 => MessagesIn(eeprom, Chunks) = Data(peer.bond, saved)
==============================================================================
