------------------------------ MODULE MCNrf8001 ------------------------------
(* Pipes are numbered from 1 in the order begin() allots them.             *)
EXTENDS Nrf8001

None == [adv |-> 0, tx |-> 0, txAck |-> 0, rx |-> 0, rxAck |-> 0, set |-> 0]
NoRemote == [tx |-> 0, txAck |-> 0, rx |-> 0, rxAck |-> 0, rxReq |-> 0]

(* A characteristic that notifies and indicates, one that is written.      *)
MCNotifyWrite ==
  << [None EXCEPT !.tx = 1, !.txAck = 2], [None EXCEPT !.tx = 3, !.rxAck = 4] >>

(* One that notifies, is written and is broadcast.                         *)
MCBeacon == << [None EXCEPT !.adv = 1, !.tx = 2, !.rxAck = 3] >>

(* Two remote characteristics, one that indicates and one that notifies    *)
(* and is written.                                                         *)
MCRemote ==
  << [NoRemote EXCEPT !.rxAck = 3], [NoRemote EXCEPT !.tx = 4, !.rx = 5] >>

NoPipes == << >>
NoCalls == {}
SetFirst == {<<"setValue", 1>>}
SetFirstOrEnd == {<<"setValue", 1>>, <<"disconnect", 0>>}
RemoteCalls == {<<"subscribe", 2>>, <<"unsubscribe", 2>>}
Broadcast == {<<"broadcast", 1>>}
SetAny == {<<"setValue", 1>>, <<"setValue", 2>>}
==============================================================================
