----------------------------- MODULE BondEeprom ------------------------------
(***************************************************************************)
(* BLEBondStore.cpp on a board with EEPROM, and how nRF8001.cpp lays the   *)
(* messages of dynamic data out in it: a flag, then for each message its   *)
(* size and its bytes.  Every byte of the EEPROM is written for itself, so *)
(* that a power loss finds some of a call's bytes written and others not.  *)
(*                                                                         *)
(* A byte is <<bond, version, message, k>>: byte k of a message of that    *)
(* version of a bond's data, its size being byte 0.                        *)
(***************************************************************************)
EXTENDS Integers, Sequences

CONSTANT EepromSize  (* bytes of EEPROM after the flag                      *)

ASSUME EepromSizeAssumption == EepromSize \in Nat

Erased == <<0, 0, 0, -1>>
FreshEeprom == [flag |-> FALSE, bytes |-> [a \in 0 .. EepromSize - 1 |-> Erased]]

hasDataIn(store) == store.flag
clearData(store) == [store EXCEPT !.flag = FALSE]

(* putData: the flag, then the bytes from an offset on, as a list of       *)
(* writes in the order in which they are made.                             *)
Flagged == <<"flag", 0, Erased>>
putData(bytes, from) ==
  <<Flagged>> \o [i \in DOMAIN bytes |-> <<"byte", from + i - 1, bytes[i]>>]

WrittenTo(store, write) ==
  IF write[1] = "flag" THEN [store EXCEPT !.flag = TRUE]
  ELSE [store EXCEPT !.bytes[write[2]] = write[3]]

AfterWrites(store, writes) ==
  LET after[n \in 0 .. Len(writes)] ==
        IF n = 0 THEN store ELSE WrittenTo(after[n - 1], writes[n])
  IN  after[Len(writes)]

getData(store, from, length) ==
  [i \in 1 .. length |->
     IF from + i - 1 < EepromSize THEN store.bytes[from + i - 1] ELSE Erased]

------------------------------------------------------------------------------
(* nRF8001.cpp.                                                            *)
CONSTANT Sizes  (* the sizes of the messages of each bond's data            *)

(* Where the messages of a bond's data are, and where the next would be.   *)
Place(bond) ==
  LET at[i \in 1 .. Len(Sizes[bond]) + 1] ==
        IF i = 1 THEN 0 ELSE at[i - 1] + 1 + Sizes[bond][i - 1]
  IN  at

(* No message is empty, and the EEPROM has room for all of a bond.         *)
ASSUME SizesAssumption ==
  \A bond \in DOMAIN Sizes :
    /\ DOMAIN Sizes[bond] = 1 .. Len(Sizes[bond]) /\ Len(Sizes[bond]) \in Nat
    /\ \A i \in DOMAIN Sizes[bond] : Sizes[bond][i] \in Nat \ {0}
    /\ Place(bond)[Len(Sizes[bond]) + 1] <= EepromSize

(* What a byte is as a number: only a size is one, and one that was erased *)
(* is 0xff; the others are taken to be as bad.                             *)
SizeOf(byte) == IF byte[4] = 0 THEN Sizes[byte[1]][byte[3]] ELSE 255

Message(bond, version, i) ==
  [k \in 1 .. Sizes[bond][i] |-> <<bond, version, i, k>>]

(* A message that was read from the chip is appended: its size, then its   *)
(* bytes.                                                                  *)
MessagePut(bytes, from) ==
  LET first == bytes[1]
  IN  putData(<< <<first[1], first[2], first[3], 0>> >>, from)
        \o putData(bytes, from + 1)

(* The message at an offset, for writing it back to the chip.              *)
MessageGot(store, from) ==
  getData(store, from + 1, SizeOf(getData(store, from, 1)[1]))

(* The first n messages of the store, found one after the other.           *)
MessagesIn(store, n) ==
  LET start[i \in 1 .. n] ==
        IF i = 1 THEN 0
        ELSE start[i - 1] + 1 + Len(MessageGot(store, start[i - 1]))
  IN  [i \in 1 .. n |-> MessageGot(store, start[i])]
==============================================================================
