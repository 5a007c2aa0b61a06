----------------------------- MODULE BoundedFifo -----------------------------
(***************************************************************************)
(* What a packet queue promises its callers, independently of how it is    *)
(* stored: packets leave in the order in which they were accepted, each    *)
(* exactly once, and a packet is refused exactly when Capacity packets are *)
(* waiting.  The comment on aci_queue_t (aci_queue.h:44-50) and the return *)
(* values documented in hal_aci_tl.h:97-105 promise this much.             *)
(***************************************************************************)
EXTENDS Naturals, Sequences

CONSTANTS Msg,       (* the packets                                        *)
          Capacity   (* the number of packets the queue can hold           *)

VARIABLES fifo,      (* the waiting packets, oldest first                  *)
          ret        (* what the last call returned: ok, and the packets   *)
                     (* it handed out (none, or one)                       *)

fifoVars == <<fifo, ret>>

Returns(ok, out) == ret' = [ok |-> ok, out |-> out]

FifoInit == fifo = <<>> /\ ret = [ok |-> TRUE, out |-> <<>>]

Put(m) ==
  \/ /\ Len(fifo) < Capacity
     /\ fifo' = Append(fifo, m)
     /\ Returns(TRUE, <<>>)
  \/ /\ Len(fifo) = Capacity
     /\ Returns(FALSE, <<>>)
     /\ UNCHANGED fifo

Take ==
  \/ /\ fifo # <<>>
     /\ fifo' = Tail(fifo)
     /\ Returns(TRUE, <<Head(fifo)>>)
  \/ /\ fifo = <<>>
     /\ Returns(FALSE, <<>>)
     /\ UNCHANGED fifo

Look ==
  /\ Returns(fifo # <<>>, IF fifo = <<>> THEN <<>> ELSE <<Head(fifo)>>)
  /\ UNCHANGED fifo

Clear == fifo' = <<>> /\ Returns(TRUE, <<>>)

FifoNext == Take \/ Look \/ Clear \/ \E m \in Msg : Put(m)

FifoSpec == FifoInit /\ [][FifoNext]_fifoVars
==============================================================================
