----------------------------- MODULE MCProgram ------------------------------
EXTENDS Program

Plain(local, remote) ==
  [local |-> local, remote |-> remote,
   settings |-> [solicitation |-> 0, service |-> 2, manufacturer |-> 0, name |-> 4]]

S2 == Service("fff0", 2)
S16 == Service("custom", 16)
C(props, size) == Characteristic("fff1", 2, props, size)
Custom(props) == Characteristic("own", 16, props, 20)

(* A service with up to two more attributes of these, and one with         *)
(* everything: each kind of pipe, values of none, one and two messages.    *)
Members ==
  {ConstantCharacteristic("2a4a", 28), ConstantCharacteristic("2a4b", 29),
   C({"notify", "read"}, 20), C({"indicate", "write"}, 1), Custom({"broadcast"}),
   Descriptor("2901", 6), Descriptor("2910", 30), S16}

Full ==
  << S16, Custom({"broadcast", "notify", "indicate", "writeWithoutResponse", "write", "read"}),
     S2, C({"indicate"}, 0), C({"notify"}, 20), Descriptor("2902", 2) >>

MCLocals ==
  {<< >>, Full, <<S2>>} \cup {<<S2, a>> : a \in Members} \cup {<<S2, a, b>> : a, b \in Members}

(* Remote services with 16-bit UUIDs in any order, and one with UUIDs of   *)
(* its own before them.                                                    *)
Short == {S2, C({"read", "notify"}, 0), C({"write", "indicate"}, 0)}
Foreign == << S16, Custom({"notify", "writeWithoutResponse"}), Custom({"write"}) >>

MCRemotes ==
  {<< >>, <<S2>>, Foreign} \cup {<<S2, a>> : a \in Short} \cup {<<S2, a, b>> : a, b \in Short}
    \cup {Foreign \o <<S2, a>> : a \in Short}

(* Lengths at and around the limits of both devices.                       *)
MCSettings ==
  [solicitation : {0, 2, 16}, service : {0, 2, 16}, manufacturer : {0, 1, 20, 26},
   name : {0, 20, 21, 30}]

MCSketches ==
  {Plain(l, r) : l \in MCLocals, r \in MCRemotes}
    \cup {[local |-> << >>, remote |-> << >>, settings |-> s] : s \in MCSettings}

MCUuids ==
  {"1800", "1801", "2a00", "2a01", "2a05", "2a4a", "2a4b", "2901", "2902", "2910",
   "fff0", "fff1", "own", "custom"}

(* One of them calls the library: lengths around 20 and 29, intervals that *)
(* an int of 16 bits holds 16 times.                                       *)
MCCallers == {Plain(<<S2>>, << >>)}
MCDataSizes == {1, 20, 21, 26, 29, 30}
MCIntervals == {20, 100, 1023, 4095}
==============================================================================
