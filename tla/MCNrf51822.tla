------------------------------ MODULE MCNrf51822 -----------------------------
EXTENDS Nrf51822

(* A characteristic that does everything.                                  *)
MCLocals == << {"notify", "indicate", "write", "broadcast"} >>

MCSource == << {"notify", "indicate"} >>

NoTables == << >>

MCServices == << "a", "b" >>
MCRemotes == << [service |-> 1, uuid |-> "x"], [service |-> 2, uuid |-> "y"] >>

X == [uuid |-> "x", handle |-> 3, props |-> {"read", "notify"}]
Y(h) == [uuid |-> "y", handle |-> h, props |-> {"write", "indicate"}]

(* A peer with a foreign service between the two, and one without the      *)
(* second service and with two characteristics in the first.               *)
Both == << [uuid |-> "a", start |-> 1, end |-> 4, chars |-> << X >>],
           [uuid |-> "z", start |-> 5, end |-> 6, chars |-> << >>],
           [uuid |-> "b", start |-> 7, end |-> 10, chars |-> << Y(9) >>] >>
First == << [uuid |-> "a", start |-> 1, end |-> 8,
             chars |-> << [Y(3) EXCEPT !.uuid = "w"], [X EXCEPT !.handle = 6] >>] >>

NoPeerTable == { << >> }
MCPeers == {Both, First}

LinkCalls == {<<"setValue", 1>>, <<"broadcast", 1>>, <<"disconnect", 0>>, <<"clearData", 0>>}
SetFirst == {<<"setValue", 1>>}
RemoteCalls == {<<"read", 1>>, <<"write", 2>>, <<"subscribe", 1>>,
                <<"unsubscribe", 2>>, <<"setValue", 1>>, <<"disconnect", 0>>}
ReadFirst == {<<"read", 1>>}
==============================================================================
