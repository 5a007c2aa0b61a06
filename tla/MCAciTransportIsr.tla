-------------------------- MODULE MCAciTransportIsr --------------------------
(* Packets are numbers.                                                    *)
EXTENDS AciTransportIsr

MCMsg == 1 .. (IF MaxCommands > MaxEvents THEN MaxCommands ELSE MaxEvents)
MCNone == {}
==============================================================================
