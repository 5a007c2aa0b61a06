--------------------------- MODULE Nrf51822Setup ----------------------------
(* What nRF51822::begin() registers with the SoftDevice, and the tables it *)
(* fills on the way.  The SoftDevice hands out the handles, and puts a     *)
(* characteristic into the service that was added last.                    *)
EXTENDS Peripheral

Flags == 3
AdvertisementLength(fields) == Flags + SizeOf(fields)

(***************************************************************************)
(* The attributes the SoftDevice has on its own, or gets as a part of the  *)
(* characteristic before.                                                  *)
(***************************************************************************)
SkippedService(a) == a.uuid \in {"1800", "1801"}
OwnCharacteristic(a) == a.uuid \in {"2a00", "2a01", "2a05"}
SkippedDescriptor(a) == a.uuid \in {"2901", "2902", "2903", "2904"}

(***************************************************************************)
(* Records are allocated for all but three of the characteristics.         *)
(***************************************************************************)
LocalRoom(list) == CountOf(list, IsCharacteristic) - 3

\* The descriptors that follow a characteristic describe it.
Described(list, i) ==
    {j \in i + 1..Len(list) : /\ \A k \in i + 1..j : list[k].type = "descriptor"
                              /\ list[j].uuid \in {"2901", "2904"}}

Registered(w, list, i) ==
    LET a == list[i]
        add(kind) == Append(w.added, [kind |-> kind, attribute |-> i, within |-> w.service])
    IN  CASE IsService(a) ->
               IF SkippedService(a) THEN w
               ELSE [w EXCEPT !.added = add("service"), !.service = i]
          [] IsCharacteristic(a) ->
               IF OwnCharacteristic(a) THEN w
               ELSE [w EXCEPT !.added = add("characteristic"),
                              !.described = @ \cup Described(list, i),
                              !.records = Append(@, [characteristic |-> i, service |-> w.service])]
          [] OTHER ->
               IF SkippedDescriptor(a) THEN w ELSE [w EXCEPT !.added = add("descriptor")]

NoneRegistered == [added |-> <<>>, service |-> NULL, records |-> <<>>, described |-> {}]

LocalsRegistered(list) ==
    LET registered[i \in 0..Len(list)] ==
          IF i = 0 THEN NoneRegistered ELSE Registered(registered[i - 1], list, i)
    IN  registered[Len(list)]

(***************************************************************************)
(* The remote attributes without the two that BLEPeripheral::begin() put   *)
(* at the end: the SoftDevice looks for those itself.                      *)
(***************************************************************************)
Own(list) == IF list = <<>> THEN list ELSE SubSeq(list, 1, Len(list) - 2)

RemoteRoom(list) ==
    [services |-> CountOf(Own(list), IsService),
     characteristics |-> CountOf(Own(list), IsCharacteristic)]

RemoteRegistered(w, list, i) ==
    IF IsService(list[i])
    THEN [w EXCEPT !.services = Append(@, i), !.last = i]
    ELSE [w EXCEPT !.characteristics = Append(@, [characteristic |-> i, service |-> w.last])]

NoRemoteRegistered == [services |-> <<>>, characteristics |-> <<>>, last |-> NULL]

RemotesRegistered(list) ==
    LET registered[i \in 0..Len(Own(list))] ==
          IF i = 0 THEN NoRemoteRegistered ELSE RemoteRegistered(registered[i - 1], list, i)
    IN  registered[Len(Own(list))]
=============================================================================
