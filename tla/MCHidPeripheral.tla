--------------------------- MODULE MCHidPeripheral ---------------------------
EXTENDS HidPeripheral

(* A report characteristic is read and notified: a set and a tx pipe.      *)
MCNone == [adv |-> 0, tx |-> 0, txAck |-> 0, rx |-> 0, rxAck |-> 0, set |-> 0]
MCLocal ==
  << [MCNone EXCEPT !.set = 3, !.tx = 4], [MCNone EXCEPT !.set = 5, !.tx = 6] >>
MCRemote == << >>
MCHidSets == { <<"keyboard">>, <<"mouse">>, <<"multimedia", "systemControl">> }

(* 'A' and 'b'; key 4 is the one of 'A'.                                   *)
MCCharacters == {65, 98}
MCBits == {<<"bit", 1>>}
MCSizes == << <<2, 1>>, <<1, 2>> >>
NoCalls == {}
==============================================================================
