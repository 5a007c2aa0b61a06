----------------------------- MODULE Peripheral -----------------------------
(* What a sketch declares before BLEPeripheral::begin(), and what begin()  *)
(* makes of it: the lists of attributes and the fields of the              *)
(* advertisement.  An attribute is a record of what the drivers look at;   *)
(* its place in a list stands for the object.                              *)
EXTENDS Naturals, Sequences, FiniteSets, SequencesExt, FiniteSetsExt

Attribute(type, uuid, uuidLength, properties, size) ==
    [type |-> type, uuid |-> uuid, uuidLength |-> uuidLength,
     properties |-> properties, size |-> size]

Service(uuid, uuidLength) == Attribute("service", uuid, uuidLength, {}, 0)
\* A characteristic has a buffer for a bounded value; a constant one does not.
BLE_ATTRIBUTE_MAX_VALUE_LENGTH == 20
Characteristic(uuid, uuidLength, properties, size) ==
    Attribute("characteristic", uuid, uuidLength, properties,
              Min({size, BLE_ATTRIBUTE_MAX_VALUE_LENGTH}))
ConstantCharacteristic(uuid, length) ==
    Attribute("characteristic", uuid, 2, {"read"}, length)
Descriptor(uuid, length) == Attribute("descriptor", uuid, 2, {}, length)

IsService(a) == a.type = "service"
IsCharacteristic(a) == a.type = "characteristic"
Piped(a) == IsCharacteristic(a) /\ a.properties # {}
CountOf(list, Test(_)) == Cardinality({i \in DOMAIN list : Test(list[i])})

(***************************************************************************)
(* The attributes every peripheral has, and those that begin() appends to  *)
(* the remote ones, if there are any.                                      *)
(***************************************************************************)
GenericAttributes == <<
    Service("1800", 2),
    Characteristic("2a00", 2, {"read"}, 19),
    Characteristic("2a01", 2, {"read"}, 2),
    Service("1801", 2),
    Characteristic("2a05", 2, {"indicate"}, 4) >>

RemoteGenericAttributes == <<
    Service("1801", 2), Characteristic("2a05", 2, {"indicate"}, 0) >>

(***************************************************************************)
(* The arrays behind the lists are allocated at the first use, with one    *)
(* slot for each attribute constructed so far.                             *)
(***************************************************************************)
NULL == 0
NoLists == [local |-> <<>>, remote |-> <<>>, localRoom |-> NULL, remoteRoom |-> NULL]

initLocalAttributes(l, constructed) ==
    IF l.localRoom # NULL THEN l
    ELSE [l EXCEPT !.local = GenericAttributes, !.localRoom = constructed]

AddedLocally(l, constructed, a) ==
    LET ready == initLocalAttributes(l, constructed)
    IN  [ready EXCEPT !.local = Append(@, a)]

AddedRemotely(l, constructed, a) ==
    [l EXCEPT !.remoteRoom = IF @ = NULL THEN constructed ELSE @,
              !.remote = Append(@, a)]

\* Room for the two attributes begin() appends was not counted.
BegunListsUncounted(l, constructedLocal, constructedRemote) ==
    LET ready == initLocalAttributes(l, constructedLocal)
    IN  IF ready.remote = <<>> THEN ready
        ELSE [ready EXCEPT !.remote = @ \o RemoteGenericAttributes, !.remoteRoom = @ - 2]

BegunLists(l, constructedLocal, constructedRemote) ==
    LET ready == initLocalAttributes(l, constructedLocal)
    IN  IF ready.remote = <<>> THEN ready
        ELSE AddedRemotely(AddedRemotely(ready, constructedRemote, RemoteGenericAttributes[1]),
                           constructedRemote, RemoteGenericAttributes[2])

(***************************************************************************)
(* The advertisement: a field takes two bytes and its data.  settings has  *)
(* the lengths of the two UUIDs, the manufacturer data and the local name, *)
(* 0 for what is not set; limits the sizes of BLEDeviceLimits.h.           *)
(***************************************************************************)
Limits(device) ==
    IF device = "nRF51822" THEN [advertisement |-> 26, scan |-> 29, eir |-> 29]
                           ELSE [advertisement |-> 20, scan |-> 20, eir |-> 20]

Field(type, length) == [type |-> type, length |-> length]
SizeOf(fields) ==
    LET size[k \in 0..Len(fields)] == IF k = 0 THEN 0 ELSE size[k - 1] + fields[k].length + 2
    IN  size[Len(fields)]

AdvertisementData(settings, limits) ==
    LET room == limits.advertisement + 2
        solicited == IF settings.solicitation = 0 THEN <<>>
                     ELSE << Field("solicitation", settings.solicitation) >>
        served == IF settings.service = 0 \/ SizeOf(solicited) + settings.service + 2 > room
                  THEN solicited
                  ELSE Append(solicited, Field("service", settings.service))
        left == room - SizeOf(served)
    IN  IF settings.manufacturer = 0 \/ left < 3 THEN served
        ELSE Append(served, Field("manufacturer", Min({settings.manufacturer, left - 2})))

ScanData(settings, limits) ==
    IF settings.name = 0 THEN <<>>
    ELSE << Field(IF settings.name > limits.scan THEN "short name" ELSE "name",
                  Min({settings.name, limits.scan})) >>
=============================================================================
