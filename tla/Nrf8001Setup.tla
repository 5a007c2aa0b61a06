---------------------------- MODULE Nrf8001Setup ----------------------------
(* The setup messages nRF8001::begin() sends, and the pipe tables it       *)
(* fills on the way.  A message is what it is about (target), its place    *)
(* in the chip's memory for that target (offset), the value of its length  *)
(* byte, and what it says; a walk over the attributes carries the          *)
(* messages so far with the next handle, pipe and offsets.                 *)
EXTENDS Peripheral

Says(what) == [what |-> what]

(***************************************************************************)
(* The seven messages of baseSetupMsgs, with the counts, the flags and the *)
(* advertisement that begin() writes into them.                            *)
(***************************************************************************)
LocalOrder == <<"broadcast", "notify", "indicate", "writeWithoutResponse", "write", "read">>
RemoteOrder == <<"writeWithoutResponse", "write", "read", "notify", "indicate">>

PipesOf(list, order) ==
    FoldLeft(LAMBDA n, a : n + Cardinality(a.properties \cap Range(order)), 0,
             SelectSeq(list, IsCharacteristic))

CountLocal(list) == [piped |-> CountOf(list, Piped), pipes |-> PipesOf(list, LocalOrder)]

CountRemote(list) ==
    [services |-> CountOf(list, IsService),
     piped    |-> CountOf(list, Piped),
     pipes    |-> PipesOf(list, RemoteOrder),
     customs  |-> CountOf(list, LAMBDA a : a.uuidLength > 2)]

Base(target, offset, length, says) ==
    [target |-> target, offset |-> offset, length |-> length, says |-> says]

BaseSetupMsgs(lists, advertised, scanned) ==
    LET counts == [what |-> "counts", local |-> CountLocal(lists.local),
                   remote |-> CountRemote(lists.remote)]
        first(fields) == [what |-> "advertisement",
                          field |-> IF fields = <<>> THEN Field("none", 0) ELSE fields[1]]
    IN  << Base("header", 0, 7, Says("base")),
           Base("device", 0, 31, counts),
           Base("device", 28, 31, [what |-> "advertise", on |-> advertised # <<>>,
                                   customs |-> IF advertised = <<>> THEN 0 ELSE counts.remote.customs]),
           Base("device", 56, 31, [what |-> "scan", on |-> scanned # <<>>]),
           Base("device", 84, 5, Says("bond")),
           Base("data", 0, 25, first(advertised)),
           Base("data", 22, 25, first(scanned)) >>

(***************************************************************************)
(* sendSetupMessage writes the running offset of the target into the       *)
(* message and moves it on by the data.                                    *)
(***************************************************************************)
Told(w, target, length, says) ==
    [w EXCEPT !.messages = Append(@, Base(target, w.offset[target], length, says)),
              !.offset[target] = @ + length - 3]

\* The messages hold 32 bytes: chunks of 29 with a four byte header.
MAX_PER_MESSAGE_BUFFER == 29
MAX_ATTRIBUTE_VALUE_PER_SETUP_MSG == 28

Chunks(size) == (size + MAX_ATTRIBUTE_VALUE_PER_SETUP_MSG - 1) \div MAX_ATTRIBUTE_VALUE_PER_SETUP_MSG

ChunkTold(w, size, k) ==
    LET most == MAX_ATTRIBUTE_VALUE_PER_SETUP_MSG
    IN  Told(w, "gatt", 3 + Min({size - most * (k - 1), most}), Says("value"))

ValueTold(w, size) ==
    LET told[k \in 0..Chunks(size)] == IF k = 0 THEN w ELSE ChunkTold(told[k - 1], size, k)
    IN  told[Chunks(size)]

\* Pipes are numbered from first, in the given order of the properties.
PipesFrom(order, properties, first) ==
    LET present == SelectSeq(order, LAMBDA p : p \in properties)
    IN  [p \in Range(present) |-> first + (CHOOSE k \in DOMAIN present : present[k] = p) - 1]

(***************************************************************************)
(* The walk over the local attributes.                                     *)
(***************************************************************************)
ServiceTold(w, a) ==
    Told([w EXCEPT !.handle = @ + 1], "gatt", 12 + a.uuidLength,
         [what |-> "service", handle |-> w.handle])

DescriptorTold(w, a) ==
    ValueTold(Told([w EXCEPT !.handle = @ + 1], "gatt", 12,
                   [what |-> "descriptor", handle |-> w.handle]), a.size)

HasConfiguration(a) == a.properties \cap {"notify", "indicate"} # {}

LocalPipeInfo(w, a, i) ==
    [characteristic |-> i,
     pipes        |-> PipesFrom(LocalOrder, a.properties, w.pipe),
     valueHandle  |-> w.handle + 1,
     configHandle |-> IF HasConfiguration(a) THEN w.handle + 2 ELSE 0]

ConfigurationTold(w, a) ==
    IF ~HasConfiguration(a) THEN w
    ELSE Told([w EXCEPT !.handle = @ + 1], "gatt", 14,
              [what |-> "configuration", handle |-> w.handle])

CharacteristicTold(w, a, i) ==
    LET info == LocalPipeInfo(w, a, i)
        declared == Told([w EXCEPT !.handle = @ + 2], "gatt", 15 + a.uuidLength,
                         [what |-> "characteristic", handle |-> w.handle,
                          valueHandle |-> info.valueHandle])
        typed == Told(declared, "gatt", 12, [what |-> "valueAttribute", handle |-> info.valueHandle])
    IN  [ConfigurationTold(ValueTold(typed, a.size), a) EXCEPT
            !.pipe = @ + Cardinality(DOMAIN info.pipes),
            !.localSlots = Max({@, Len(w.locals) + 1}),
            !.locals = IF a.properties = {} THEN @ ELSE Append(@, info)]

AttributeTold(w, list, i) ==
    CASE IsService(list[i])        -> ServiceTold(w, list[i])
      [] IsCharacteristic(list[i]) -> CharacteristicTold(w, list[i], i)
      [] OTHER                     -> DescriptorTold(w, list[i])

LocalTold(w, list) ==
    LET told[i \in 0..Len(list)] == IF i = 0 THEN w ELSE AttributeTold(told[i - 1], list, i)
    IN  told[Len(list)]

(***************************************************************************)
(* The walk over the remote services and the characteristics after each.   *)
(***************************************************************************)
CharacteristicsOf(list, i) ==
    LET after == {j \in i + 1..Len(list) : ~IsCharacteristic(list[j])} \cup {Len(list) + 1}
    IN  [list |-> list, service |-> i, number |-> Min(after) - i - 1]

RemotePipeInfo(w, members, k) ==
    LET i == members.service + k
        info == [characteristic |-> i,
                 pipes |-> PipesFrom(RemoteOrder, members.list[i].properties, w.pipe)]
    IN  [w EXCEPT !.remotes = Append(@, info),
                  !.pipe = @ + Cardinality(DOMAIN info.pipes)]

RemotePipeInfos(w, members) ==
    LET told[k \in 0..members.number] == IF k = 0 THEN w ELSE RemotePipeInfo(told[k - 1], members, k)
    IN  told[members.number]

FIRST_CUSTOM_UUID == 2
UuidIndex(w, a) == IF a.uuidLength = 2 THEN 1 ELSE w.customUuid
\* The index is not moved on.
CountedNever(w, a) == w
Counted(w, a) == [w EXCEPT !.customUuid = IF a.uuidLength = 2 THEN @ ELSE @ + 1]

RemoteServiceTold(w, list, i) ==
    LET members == CharacteristicsOf(list, i)
        says == [what |-> "remoteService", attribute |-> i, uuid |-> UuidIndex(w, list[i]),
                 pipesBefore |-> w.pipe - 1, characteristics |-> members.number]
    IN  Counted(Told(RemotePipeInfos(w, members), "services", 8, says), list[i])

RemoteAttributeTold(w, list, i) ==
    IF IsService(list[i]) THEN RemoteServiceTold(w, list, i) ELSE w

RemoteTold(w, list) ==
    LET told[i \in 0..Len(list)] == IF i = 0 THEN w ELSE RemoteAttributeTold(told[i - 1], list, i)
    IN  told[Len(list)]

(***************************************************************************)
(* The pipe tables, the list of UUIDs (the short ones too) and the CRC.    *)
(***************************************************************************)
LocalPipeTold(w, infos, k) ==
    LET info == infos[k]
    IN  Told(w, "pipes", 13,
             [what |-> "localPipes", characteristic |-> info.characteristic,
              pipes |-> info.pipes, valueHandle |-> info.valueHandle,
              configHandle |-> info.configHandle])

LocalPipesTold(w) ==
    LET told[k \in 0..Len(w.locals)] == IF k = 0 THEN w ELSE LocalPipeTold(told[k - 1], w.locals, k)
    IN  told[Len(w.locals)]

RemotePipeTold(w, list, k) ==
    LET info == w.remotes[k]
        a == list[info.characteristic]
    IN  Counted(Told(w, "pipes", 13,
                     [what |-> "remotePipes", attribute |-> info.characteristic,
                      pipes |-> info.pipes, uuid |-> UuidIndex(w, a)]), a)

RemotePipesTold(w, list) ==
    LET told[k \in 0..Len(w.remotes)] == IF k = 0 THEN w ELSE RemotePipeTold(told[k - 1], list, k)
    IN  told[Len(w.remotes)]

UuidTold(w, list, i) ==
    Told(w, "uuids", 3 + list[i].uuidLength, [what |-> "uuid", attribute |-> i])

UuidsTold(w, list) ==
    LET told[i \in 0..Len(list)] == IF i = 0 THEN w ELSE UuidTold(told[i - 1], list, i)
    IN  told[Len(list)]

Walk(lists, advertised, scanned) ==
    LET start == [messages |-> BaseSetupMsgs(lists, advertised, scanned),
                  offset |-> [t \in {"gatt", "services", "pipes", "uuids", "crc"} |-> 0],
                  handle |-> 1, pipe |-> 1, customUuid |-> FIRST_CUSTOM_UUID,
                  locals |-> <<>>, remotes |-> <<>>, localSlots |-> 0]
        local == Told(LocalTold(start, lists.local), "gatt", 4, Says("terminator"))
        remote == RemoteTold(local, lists.remote)
        pipes == RemotePipesTold(LocalPipesTold(remote), lists.remote)
    IN  Told(UuidsTold(pipes, lists.remote), "crc", 6, Says("crc"))
=============================================================================
