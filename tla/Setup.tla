------------------------------- MODULE Setup --------------------------------
(***************************************************************************)
(* From the sketch's declarations to the end of BLEPeripheral::begin(),    *)
(* with either driver.  nRF51822::begin() makes calls that take effect at  *)
(* once.  nRF8001::begin() resets the chip, waits for it, and sends it one *)
(* setup message after the other, waiting for the response to each; the    *)
(* messages do not depend on the responses, so that the walk that makes    *)
(* them is one function, Walk.                                             *)
(***************************************************************************)
EXTENDS Nrf8001Setup, Nrf51822Setup

CONSTANTS
  Sketches,   (* what sketches declare: [local, remote: lists of           *)
              (* attributes, settings: lengths of the advertisement's      *)
              (* parts]                                                    *)
  Uuids,      (* the UUIDs of attributes                                   *)
  Devices,    (* "nRF8001", "nRF51822"                                     *)
  ResetPins   (* the nRF8001's reset line: "wired", "unused"               *)

(* The attributes the library has classes for, on its own side and on the  *)
(* peer's, and the advertisement's parts: a UUID has 2 bytes or 16.        *)
Attributes(types) ==
  [type : types, uuid : Uuids, uuidLength : {2, 16},
   properties : SUBSET Range(LocalOrder), size : Nat]
LocalAttributes == Attributes({"service", "characteristic", "descriptor"})
RemoteAttributes == Attributes({"service", "characteristic"})
Settings == [solicitation : {0, 2, 16}, service : {0, 2, 16}, manufacturer : Nat, name : Nat]

ASSUME UuidsOK == {"1800", "1801", "2a00", "2a01", "2a05"} \subseteq Uuids
ASSUME SketchesOK ==
  \A s \in Sketches :
    s.local \in Seq(LocalAttributes) /\ s.remote \in Seq(RemoteAttributes) /\ s.settings \in Settings
ASSUME DevicesOK == Devices \subseteq {"nRF8001", "nRF51822"}
ASSUME ResetPinsOK == ResetPins \subseteq {"wired", "unused"}

VARIABLES
  device, resetPin, sketch,
  lists,      (* the attribute lists, and the room allocated for them      *)
  phase,      (* of begin(): "declaring", "waiting" for setup mode,        *)
              (* "sending" setup messages, "running"                       *)
  driver,     (* what the driver's walk over the attributes made           *)
  sent,       (* the setup message that was sent last                      *)
  commands,   (* on their way to the nRF8001: RadioReset or the index of   *)
              (* a setup message                                           *)
  chip,       (* the nRF8001: [mode, expected: the next offset of each     *)
              (* target]                                                   *)
  events      (* on their way from it                                      *)

choices == <<device, resetPin, sketch>>
tables == <<lists, driver>>
wire == <<commands, chip, events>>
vars == <<choices, tables, phase, sent, wire>>

HAL_ACI_MAX_LENGTH == 31
RadioReset == 0

ConstructedLocal == Len(GenericAttributes) + Len(sketch.local)
ConstructedRemote == Len(RemoteGenericAttributes) + Len(sketch.remote)

NoDriver == [messages |-> << >>]
Targets == {"header", "device", "data", "gatt", "services", "pipes", "uuids", "crc"}
ChipIn(mode) == [mode |-> mode, expected |-> [t \in Targets |-> 0]]
Started(mode) == [type |-> "started", mode |-> mode]
Response(status) == [type |-> "response", status |-> status]

(* The chip is powered with the microcontroller.                           *)
Init ==
  /\ device \in Devices /\ resetPin \in ResetPins /\ sketch \in Sketches
  /\ lists = NoLists /\ driver = NoDriver
  /\ phase = "declaring" /\ sent = 0
  /\ commands = << >> /\ chip = ChipIn("setup") /\ events = <<Started("setup")>>

------------------------------------------------------------------------------
(* The sketch's calls before begin().                                      *)
DeclaredLocally ==
  IF lists.localRoom = NULL THEN 0 ELSE Len(lists.local) - Len(GenericAttributes)

addLocalAttribute ==
  /\ phase = "declaring" /\ DeclaredLocally < Len(sketch.local)
  /\ lists' = AddedLocally(lists, ConstructedLocal, sketch.local[DeclaredLocally + 1])
  /\ UNCHANGED <<choices, driver, phase, sent, wire>>

addRemoteAttribute ==
  /\ phase = "declaring" /\ Len(lists.remote) < Len(sketch.remote)
  /\ lists' = AddedRemotely(lists, ConstructedRemote,
                            sketch.remote[Len(lists.remote) + 1])
  /\ UNCHANGED <<choices, driver, phase, sent, wire>>

AllDeclared ==
  DeclaredLocally = Len(sketch.local) /\ Len(lists.remote) = Len(sketch.remote)

------------------------------------------------------------------------------
(* begin().                                                                *)
Advertised == AdvertisementData(sketch.settings, Limits(device))
Scanned == ScanData(sketch.settings, Limits(device))

nRF51822_begin(l) ==
  /\ device = "nRF51822"
  /\ driver' = [local |-> LocalsRegistered(l.local),
                remote |-> RemotesRegistered(l.remote)]
  /\ phase' = "running"
  /\ UNCHANGED <<sent, wire>>

(* lib_aci_init empties the queues and resets the chip; without a reset    *)
(* line it asks the chip to reset its radio instead.                       *)
nRF8001_begin(l) ==
  /\ device = "nRF8001"
  /\ driver' = Walk(l, Advertised, Scanned)
  /\ phase' = "waiting" /\ sent' = 0
  /\ IF resetPin = "wired"
     THEN commands' = << >> /\ chip' = ChipIn("reset") /\ events' = << >>
     ELSE commands' = <<RadioReset>> /\ UNCHANGED <<chip, events>>

begin ==
  LET begun == BegunLists(lists, ConstructedLocal, ConstructedRemote)
  IN  /\ lists' = begun
      /\ nRF51822_begin(begun) \/ nRF8001_begin(begun)
      /\ UNCHANGED choices

Begin == phase = "declaring" /\ AllDeclared /\ begin

(* The sketch calls end() and begin() again.  Only without remote          *)
(* attributes, which are appended to another time, and not on a chip that  *)
(* cannot be reset.                                                        *)
EndAndBegin ==
  /\ phase = "running"
  /\ sketch.remote = << >>
  /\ device = "nRF8001" => resetPin = "wired"
  /\ begin

(* hal_aci_tl_send refuses what is too long; sendSetupMessage does not     *)
(* look at its result.                                                     *)
Sends(k) ==
  /\ sent' = k
  /\ commands' = IF driver.messages[k].length > HAL_ACI_MAX_LENGTH THEN commands
                 ELSE Append(commands, k)

Gets(type) == events # << >> /\ Head(events).type = type /\ events' = Tail(events)

(* The end of waitForSetupMode: a start in whatever mode, or a response.   *)
SetupModeReached ==
  /\ phase = "waiting"
  /\ Gets("started") \/ Gets("response")
  /\ phase' = "sending" /\ Sends(1)
  /\ UNCHANGED <<choices, tables, chip>>

AnswersAny(e) == e.type = "response"

(* The responses that end the wait of sendSetupMessage.                    *)
Answers(e) == e.type = "response" /\ e.status \in {"continue", "complete"}

MessageAnswered ==
  /\ phase = "sending"
  /\ events # << >> /\ Answers(Head(events))
  /\ events' = Tail(events)
  /\ IF sent < Len(driver.messages) THEN Sends(sent + 1) /\ UNCHANGED phase
     ELSE phase' = "running" /\ UNCHANGED <<sent, commands>>
  /\ UNCHANGED <<choices, tables, chip>>

(* Any other event is dropped.                                             *)
EventDropped ==
  /\ phase = "sending"
  /\ events # << >> /\ ~Answers(Head(events))
  /\ events' = Tail(events)
  /\ UNCHANGED <<choices, tables, phase, sent, commands, chip>>

------------------------------------------------------------------------------
(* The nRF8001.  A setup message is right if it goes on where the last one *)
(* of its target ended.                                                    *)
ChipStarts ==
  /\ chip.mode = "reset"
  /\ chip' = [chip EXCEPT !.mode = "setup"]
  /\ events' = Append(events, Started("setup"))
  /\ UNCHANGED <<choices, tables, phase, sent, commands>>

ChipTakes ==
  /\ commands # << >> /\ chip.mode # "reset"
  /\ commands' = Tail(commands)
  /\ IF Head(commands) = RadioReset
     THEN events' = Append(events, Response("state invalid")) /\ UNCHANGED chip
     ELSE LET m == driver.messages[Head(commands)]
              taken == [chip EXCEPT !.expected[m.target] = @ + m.length - 3]
          IN  IF m.offset # chip.expected[m.target]
              THEN events' = Append(events, Response("error")) /\ UNCHANGED chip
              ELSE IF m.target = "crc"
              THEN /\ events' = events \o <<Response("complete"), Started("standby")>>
                   /\ chip' = [taken EXCEPT !.mode = "standby"]
              ELSE events' = Append(events, Response("continue")) /\ chip' = taken
  /\ UNCHANGED <<choices, tables, phase, sent>>

Loops == SetupModeReached \/ MessageAnswered \/ EventDropped
Chip == ChipStarts \/ ChipTakes

Next ==
  \/ addLocalAttribute \/ addRemoteAttribute
  \/ Begin \/ EndAndBegin
  \/ Loops \/ Chip

Spec == Init /\ [][Next]_vars

(* The loops of begin() go on reading events, and the chip answers.        *)
LiveSpec == Spec /\ WF_vars(Loops) /\ WF_vars(Chip)

------------------------------------------------------------------------------
(* The library allocates its arrays from counts it takes before it fills   *)
(* them, in the lists from the number of attributes that were constructed: *)
(* what is written never exceeds what was counted, and the advertisement   *)
(* never the buffers it is assembled in.                                   *)
WritesFit ==
  /\ lists.localRoom # NULL => Len(lists.local) <= lists.localRoom
  /\ lists.remoteRoom # NULL => Len(lists.remote) <= lists.remoteRoom
  /\ phase # "declaring" /\ device = "nRF8001" =>
       /\ driver.localSlots <= CountLocal(lists.local).piped
       /\ Len(driver.remotes) <= CountRemote(lists.remote).piped
       /\ \A f \in Range(Advertised \o Scanned) : f.length + 2 <= 22
  /\ phase # "declaring" /\ device = "nRF51822" =>
       /\ Len(driver.local.records) <= LocalRoom(lists.local)
       /\ Len(driver.remote.services) <= RemoteRoom(lists.remote).services
       /\ Len(driver.remote.characteristics) <= RemoteRoom(lists.remote).characteristics
       /\ AdvertisementLength(Advertised) <= 31
       /\ SizeOf(Scanned) <= 31

(* begin() returns only when the chip has taken every setup message and    *)
(* left the setup mode, whatever responses and starts were on the way.     *)
SetupComplete ==
  phase = "running" /\ device = "nRF8001" => chip.mode = "standby" /\ commands = << >>

(* begin() returns: no setup message is too long for the transport or out  *)
(* of place in the chip's memory, which would leave it waiting for ever.   *)
BeginReturns == phase = "waiting" ~> phase = "running"

------------------------------------------------------------------------------
Messages(what) == SelectSeq(driver.messages, LAMBDA m : m.says.what = what)

(* The handles of the attributes told to the chip, in the order told.      *)
ToldHandles ==
  LET attributes == SelectSeq(driver.messages, LAMBDA m : m.target = "gatt" /\ "handle" \in DOMAIN m.says)
  IN  [k \in DOMAIN attributes |-> attributes[k].says.handle]

PipesIn(infos) == UNION {Range(infos[k].pipes) : k \in DOMAIN infos}
NumberOfPipes(infos) == FoldLeft(LAMBDA n, i : n + Cardinality(DOMAIN i.pipes), 0, infos)

(* The custom UUIDs an index refers to are the ones told at that place.    *)
UuidToldAt(says) ==
  says.uuid # 1 => Messages("uuid")[says.uuid - 1].says.attribute = says.attribute

(* What the chip was told is what it was announced, and what the driver    *)
(* will act upon: handles are numbered without gaps and each pipe points   *)
(* to the value and the configuration of its characteristic, pipes are     *)
(* numbered without gaps in the order of the records, and indices of UUIDs *)
(* lead to the right one.                                                  *)
ChipAgrees ==
  LET counts == Messages("counts")[1].says
      pipes == driver.locals \o driver.remotes
      value(h) == \E k \in DOMAIN driver.messages : driver.messages[k].says = [what |-> "valueAttribute", handle |-> h]
      configuration(h) == \E k \in DOMAIN driver.messages : driver.messages[k].says = [what |-> "configuration", handle |-> h]
  IN
  /\ ToldHandles = [k \in 1 .. Len(ToldHandles) |-> k]
  /\ counts.local.piped = Len(Messages("localPipes"))
  /\ counts.remote.piped = Len(Messages("remotePipes"))
  /\ counts.remote.services = Len(Messages("remoteService"))
  /\ PipesIn(pipes) = 1 .. NumberOfPipes(pipes)
  /\ counts.local.pipes + counts.remote.pipes = NumberOfPipes(pipes)
  /\ \A i \in Range(driver.locals) :
       value(i.valueHandle) /\ (i.configHandle # 0 => configuration(i.configHandle))
  /\ \A m \in Range(Messages("remoteService")) :
       /\ UuidToldAt(m.says)
       /\ m.says.pipesBefore = Cardinality({p \in PipesIn(pipes) :
            \A i \in Range(driver.remotes) : p \in Range(i.pipes) => i.characteristic < m.says.attribute})
  /\ \A m \in Range(Messages("remotePipes")) : UuidToldAt(m.says)

(* Every characteristic of the sketch has one record, under the service it *)
(* was declared in, which is also where the SoftDevice put it; so have the *)
(* remote ones.                                                            *)
DeclaredIn(list, i) ==
  LET services == {j \in 1 .. i : IsService(list[j])}
  IN  IF services = {} THEN NULL ELSE Max(services)

SoftDeviceAgrees ==
  LET own == {i \in Len(GenericAttributes) + 1 .. Len(lists.local) : IsCharacteristic(lists.local[i])}
      added(i) == \E x \in Range(driver.local.added) :
                    x = [kind |-> "characteristic", attribute |-> i, within |-> DeclaredIn(lists.local, i)]
      records == driver.local.records
      remotes == driver.remote.characteristics
  IN
  /\ {records[k].characteristic : k \in DOMAIN records} = own
  /\ Len(records) = Cardinality(own)
  /\ \A r \in Range(records) : added(r.characteristic) /\ r.service = DeclaredIn(lists.local, r.characteristic)
  /\ \A r \in Range(remotes) : r.service = DeclaredIn(lists.remote, r.characteristic)
  /\ {remotes[k].characteristic : k \in DOMAIN remotes}
       = {i \in DOMAIN sketch.remote : IsCharacteristic(sketch.remote[i])}

(* When begin() has returned, the tables the driver goes by and what the   *)
(* radio was told of the attributes are about the same handles, pipes and  *)
(* characteristics.                                                        *)
TablesAgree ==
  phase = "running" => IF device = "nRF8001" THEN ChipAgrees ELSE SoftDeviceAgrees
==============================================================================
