------------------------------ MODULE AciQueue -------------------------------
(***************************************************************************)
(* One aci_queue_t and a client that calls its operations in any order.    *)
(***************************************************************************)
EXTENDS AciRing

VARIABLES queue,   (* the aci_queue_t                                      *)
          ret      (* what the last call returned, and what it copied out  *)

vars == <<queue, ret>>

Returned(ok, out) == ret' = [ok |-> ok, out |-> out]

Init == queue = EmptyQueue /\ ret = [ok |-> TRUE, out |-> <<>>]

aci_queue_init ==
  /\ queue' = EmptyQueue
  /\ Returned(TRUE, <<>>)

aci_queue_enqueue(m) ==
  /\ queue' = Enqueued(queue, m)
  /\ Returned(~IsFull(queue), <<>>)

aci_queue_dequeue ==
  /\ queue' = Dequeued(queue)
  /\ Returned(~IsEmpty(queue), IF IsEmpty(queue) THEN <<>> ELSE <<Oldest(queue)>>)

aci_queue_peek ==
  /\ Returned(~IsEmpty(queue), IF IsEmpty(queue) THEN <<>> ELSE <<Oldest(queue)>>)
  /\ UNCHANGED queue

Reads == aci_queue_init \/ aci_queue_dequeue \/ aci_queue_peek

Next == Reads \/ \E m \in Msg : aci_queue_enqueue(m)

Spec == Init /\ [][Next]_vars

(* The client that never tries to put a fifth packet into the queue while  *)
(* IsFull could not tell that it is full.                                  *)
CarefulNext ==
  Reads \/ \E m \in Msg : FullIsDetectable(queue) /\ aci_queue_enqueue(m)

CarefulSpec == Init /\ [][CarefulNext]_vars

------------------------------------------------------------------------------
(* queue and ret have the types the C declarations give them.              *)
TypeOK ==
  /\ queue \in Queue
  /\ ret.ok \in BOOLEAN
  /\ ret.out = <<>> \/ \E m \in Msg \cup {NoMsg} : ret.out = <<m>>

(* A careful client never has more packets queued than there are slots,    *)
(* and every one of them is a packet it queued: aci_queue_enqueue never    *)
(* overwrites a packet that aci_queue_dequeue has not handed out.          *)
NoOverrun ==
  /\ Occupancy(queue) <= ACI_QUEUE_SIZE
  /\ \A i \in 1 .. Occupancy(queue) : Contents(queue)[i] \in Msg

(* The ring implements the bounded FIFO its comment promises               *)
(* (aci_queue.h:44-50): the queued packets are Contents(queue), and every  *)
(* call returns what the FIFO would.                                       *)
Fifo == INSTANCE BoundedFifo
          WITH fifo <- Contents(queue), Capacity <- ACI_QUEUE_SIZE

ImplementsFifo == Fifo!FifoSpec
==============================================================================
