------------------------------- MODULE AciRing --------------------------------
(***************************************************************************)
(* utility/aci_queue.cpp: the ring of four ACI packets that the transport  *)
(* uses twice, for commands to the nRF8001 and for events from it.         *)
(*                                                                         *)
(* A queue is a record with the C structure's fields.  head and tail are   *)
(* uint8_t counters that run freely and wrap at IndexRange (256 in the     *)
(* code); a slot is found by reducing them modulo ACI_QUEUE_SIZE.  The     *)
(* operators are pure: AciQueue makes one queue and its client of them,    *)
(* and the transport modules apply them to their own two queues.           *)
(***************************************************************************)
EXTENDS Naturals, Sequences

CONSTANTS Msg,         (* the packets                                      *)
          NoMsg,       (* the contents of a slot nothing was written to    *)
          IndexRange   (* one more than the largest uint8_t: 256           *)

ACI_QUEUE_SIZE == 4

ASSUME NoMsgAssumption == NoMsg \notin Msg

(* The width of head and tail matters only through these two facts.        *)
ASSUME IndexRangeAssumption ==
  /\ IndexRange \in Nat
  /\ IndexRange > 2 * ACI_QUEUE_SIZE
  /\ IndexRange % ACI_QUEUE_SIZE = 0

Index == 0 .. IndexRange - 1
Slot == 0 .. ACI_QUEUE_SIZE - 1

Queue == [data : [Slot -> Msg \cup {NoMsg}], head : Index, tail : Index]

(* uint8_t increment                                                       *)
SuccessorUnbounded(i) == i + 1
Successor(i) == IF i = IndexRange - 1 THEN 0 ELSE i + 1

EmptyQueue == [data |-> [s \in Slot |-> NoMsg], head |-> 0, tail |-> 0]

IsEmpty(q) == q.head = q.tail

(* head is promoted to int before ACI_QUEUE_SIZE is added, so the sum does *)
(* not wrap although tail does.                                            *)
IsFullOffByOne(q) == q.tail = q.head + ACI_QUEUE_SIZE - 1
IsFullNever(q) == q.tail = q.head + 2 * ACI_QUEUE_SIZE
IsFull(q) == q.tail = q.head + ACI_QUEUE_SIZE

Oldest(q) == q.data[q.head % ACI_QUEUE_SIZE]

EnqueuedAtHead(q, m) ==
  IF IsFull(q) THEN q
  ELSE [q EXCEPT !.data[q.head % ACI_QUEUE_SIZE] = m,
                 !.tail = Successor(q.tail)]
Enqueued(q, m) ==
  IF IsFull(q) THEN q
  ELSE [q EXCEPT !.data[q.tail % ACI_QUEUE_SIZE] = m,
                 !.tail = Successor(q.tail)]

DequeuedNoAdvance(q) == q
Dequeued(q) == IF IsEmpty(q) THEN q ELSE [q EXCEPT !.head = Successor(q.head)]

------------------------------------------------------------------------------
(* The packets a queue holds, oldest first: how the ring is read back.     *)
Occupancy(q) ==
  IF q.tail >= q.head THEN q.tail - q.head ELSE q.tail + IndexRange - q.head

Contents(q) ==
  [i \in 1 .. Occupancy(q) |-> q.data[(q.head + i - 1) % ACI_QUEUE_SIZE]]

(* A fifth packet is recognised as one too many only while head +          *)
(* ACI_QUEUE_SIZE is a value tail can have.  A client with fewer than four *)
(* packets in flight need not care, whatever the value of head.            *)
FullIsDetectable(q) ==
  Occupancy(q) < ACI_QUEUE_SIZE \/ q.head + ACI_QUEUE_SIZE < IndexRange
==============================================================================
