--------------------------- MODULE MCAciTransport ----------------------------
(* Packets are numbers; the index range is the smallest that lets head and *)
(* tail wrap while four packets are queued.                                *)
EXTENDS AciTransport

CONSTANT tooLong
MCMsg == 1 .. (IF MaxCommands > MaxEvents THEN MaxCommands ELSE MaxEvents)
MCOversized == {tooLong}
MCGet == {"get"}
MCGetAndPeek == {"get", "peek"}
==============================================================================
