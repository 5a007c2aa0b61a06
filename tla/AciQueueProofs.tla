--------------------------- MODULE AciQueueProofs ----------------------------
(***************************************************************************)
(* The ring of aci_queue.cpp implements the FIFO its comment promises, as  *)
(* long as nobody tries to put a fifth packet into it at a point where     *)
(* IsFull cannot see that it is full.                                      *)
(***************************************************************************)
EXTENDS AciQueue, AciRingLemmas

USE DEF ACI_QUEUE_SIZE

------------------------------------------------------------------------------
(* The C types, for every client.                                          *)
THEOREM TypeCorrect == Spec => []TypeOK
<1>1. Init => TypeOK
  BY EmptyQueueFacts DEF Init, TypeOK
<1>2. TypeOK /\ [Next]_vars => TypeOK'
  <2> SUFFICES ASSUME TypeOK, [Next]_vars PROVE TypeOK'
    OBVIOUS
  <2>1. CASE aci_queue_init
    BY <2>1, EmptyQueueFacts DEF aci_queue_init, Returned, TypeOK
  <2>2. ASSUME NEW m \in Msg, aci_queue_enqueue(m) PROVE TypeOK'
    BY <2>2, EnqueuedType DEF aci_queue_enqueue, Returned, TypeOK
  <2>3. CASE aci_queue_dequeue
    BY <2>3, DequeuedType DEF aci_queue_dequeue, Returned, TypeOK
  <2>4. CASE aci_queue_peek
    BY <2>4, DequeuedType DEF aci_queue_peek, Returned, TypeOK
  <2>5. CASE UNCHANGED vars
    BY <2>5 DEF vars, TypeOK
  <2>6. QED
    BY <2>1, <2>2, <2>3, <2>4, <2>5 DEF Next, Reads
<1>3. QED
  BY <1>1, <1>2, PTL DEF Spec

(* A careful client's ring never holds more packets than it has slots, and *)
(* what it holds are packets.                                              *)
IInv == TypeOK /\ NoOverrun

LEMMA IInvInit == Init => IInv
  BY EmptyQueueFacts DEF Init, IInv, TypeOK, NoOverrun, ACI_QUEUE_SIZE

(* A careful client finds the ring reported full exactly when it is.       *)
LEMMA FullExact ==
  ASSUME IInv, FullIsDetectable(queue)
  PROVE  IsFull(queue) <=> Occupancy(queue) = ACI_QUEUE_SIZE
  BY OccupancyFacts, IndexRangeAssumption
     DEF IInv, TypeOK, NoOverrun, FullIsDetectable, Index, Queue

LEMMA IInvStep == IInv /\ [CarefulNext]_vars => IInv'
<1> SUFFICES ASSUME IInv, [CarefulNext]_vars PROVE IInv'
  OBVIOUS
<1>1. queue \in Queue /\ Occupancy(queue) \in Nat /\ Occupancy(queue) <= ACI_QUEUE_SIZE
  BY OccupancyFacts DEF IInv, TypeOK, NoOverrun, Index
<1>2. CASE aci_queue_init
  <2>1. Occupancy(queue') = 0
    BY <1>2, EmptyQueueFacts DEF aci_queue_init
  <2>2. TypeOK'
    BY <1>2, EmptyQueueFacts DEF aci_queue_init, Returned, TypeOK
  <2>3. QED
    BY <2>1, <2>2 DEF IInv, NoOverrun
<1>3. ASSUME NEW m \in Msg, FullIsDetectable(queue), aci_queue_enqueue(m)
      PROVE  IInv'
  <2>1. TypeOK'
    BY <1>1, <1>3, EnqueuedType DEF IInv, aci_queue_enqueue, Returned, TypeOK
  <2>2. CASE IsFull(queue)
    BY <1>3, <2>1, <2>2 DEF IInv, NoOverrun, aci_queue_enqueue, Enqueued
  <2>3. CASE ~IsFull(queue)
    <3>1. Occupancy(queue) < ACI_QUEUE_SIZE
      BY <1>1, <1>3, <2>3, FullExact
    <3>2. queue' = Enqueued(queue, m)
      BY <1>3 DEF aci_queue_enqueue
    <3>3. /\ Occupancy(queue') = Occupancy(queue) + 1
          /\ \A i \in 1 .. Occupancy(queue) :
               Contents(queue')[i] = Contents(queue)[i]
          /\ Contents(queue')[Occupancy(queue) + 1] = m
      BY <1>1, <3>1, <3>2, EnqueuedContents
    <3>4. \A i \in 1 .. Occupancy(queue) : Contents(queue)[i] \in Msg
      BY DEF IInv, NoOverrun
    <3>5. QED
      BY <1>1, <2>1, <3>1, <3>3, <3>4 DEF IInv, NoOverrun
  <2>4. QED
    BY <2>2, <2>3
<1>4. CASE aci_queue_dequeue
  <2>1. TypeOK'
    BY <1>1, <1>4, DequeuedType DEF IInv, aci_queue_dequeue, Returned, TypeOK
  <2>2. CASE Occupancy(queue) = 0
    BY <1>1, <1>4, <2>1, <2>2, OccupancyFacts
       DEF IInv, NoOverrun, aci_queue_dequeue, Dequeued
  <2>3. CASE Occupancy(queue) > 0
    <3>1. /\ Occupancy(queue') = Occupancy(queue) - 1
          /\ \A i \in 1 .. Occupancy(queue) - 1 :
               Contents(queue')[i] = Contents(queue)[i + 1]
      BY <1>1, <1>4, <2>3, DequeuedContents DEF aci_queue_dequeue
    <3>2. \A i \in 1 .. Occupancy(queue) : Contents(queue)[i] \in Msg
      BY DEF IInv, NoOverrun
    <3>3. QED
      BY <1>1, <2>1, <3>1, <3>2 DEF IInv, NoOverrun
  <2>4. QED
    BY <1>1, <2>2, <2>3
<1>5. CASE aci_queue_peek
  BY <1>5, DequeuedType DEF IInv, NoOverrun, aci_queue_peek, Returned, TypeOK
<1>6. CASE UNCHANGED vars
  BY <1>6 DEF vars, IInv, TypeOK, NoOverrun
<1>7. QED
  BY <1>2, <1>3, <1>4, <1>5, <1>6 DEF CarefulNext, Reads

(* No packet a careful client queued is overwritten before it is taken.    *)
THEOREM NoOverrunCorrect == CarefulSpec => []NoOverrun
<1>1. IInv => NoOverrun
  BY DEF IInv
<1>2. QED
  BY <1>1, IInvInit, IInvStep, PTL DEF CarefulSpec

(* The ring implements the bounded FIFO for every careful client: packets  *)
(* come out in order, once each, also across the wrap of head and tail.    *)
THEOREM FifoRefinement == CarefulSpec => ImplementsFifo
<1>1. Init => Fifo!FifoInit
  BY EmptyQueueFacts, ContentsSeq DEF Init, Fifo!FifoInit
<1>2. IInv /\ [CarefulNext]_vars => [Fifo!FifoNext]_(Fifo!fifoVars)
  <2> SUFFICES ASSUME IInv, [CarefulNext]_vars
               PROVE  [Fifo!FifoNext]_(Fifo!fifoVars)
    OBVIOUS
  <2>1. /\ queue \in Queue
        /\ Occupancy(queue) \in Nat
        /\ Occupancy(queue) <= ACI_QUEUE_SIZE
        /\ Len(Contents(queue)) = Occupancy(queue)
        /\ Contents(queue) = <<>> <=> Occupancy(queue) = 0
        /\ IsEmpty(queue) <=> Occupancy(queue) = 0
    BY OccupancyFacts, ContentsSeq DEF IInv, TypeOK, NoOverrun, Index
  <2>2. CASE aci_queue_init
    <3>1. Contents(queue') = <<>>
      BY <2>2, EmptyQueueFacts, ContentsSeq DEF aci_queue_init
    <3>2. QED
      BY <2>2, <3>1
         DEF aci_queue_init, Returned, Fifo!FifoNext, Fifo!Clear, Fifo!Returns
  <2>3. ASSUME NEW m \in Msg, FullIsDetectable(queue), aci_queue_enqueue(m)
        PROVE  Fifo!Put(m)
    <3>1. CASE IsFull(queue)
      <4>1. Len(Contents(queue)) = ACI_QUEUE_SIZE
        BY <2>1, <3>1, OccupancyFacts
      <4>2. queue' = queue /\ ret' = [ok |-> FALSE, out |-> <<>>]
        BY <2>3, <3>1 DEF aci_queue_enqueue, Enqueued, Returned
      <4>3. QED
        BY <4>1, <4>2 DEF Fifo!Put, Fifo!Returns
    <3>2. CASE ~IsFull(queue)
      <4>1. Occupancy(queue) < ACI_QUEUE_SIZE
        BY <2>1, <2>3, <3>2, FullExact
      <4>2. Contents(queue') = Append(Contents(queue), m)
        BY <2>1, <2>3, <4>1, EnqueuedAppends DEF aci_queue_enqueue
      <4>3. ret' = [ok |-> TRUE, out |-> <<>>]
        BY <2>3, <3>2 DEF aci_queue_enqueue, Returned
      <4>4. QED
        BY <2>1, <4>1, <4>2, <4>3 DEF Fifo!Put, Fifo!Returns
    <3>3. QED
      BY <3>1, <3>2
  <2>4. CASE aci_queue_dequeue
    <3>1. CASE IsEmpty(queue)
      <4>1. queue' = queue /\ ret' = [ok |-> FALSE, out |-> <<>>]
        BY <2>4, <3>1 DEF aci_queue_dequeue, Dequeued, Returned
      <4>2. QED
        BY <2>1, <3>1, <4>1 DEF Fifo!FifoNext, Fifo!Take, Fifo!Returns
    <3>2. CASE ~IsEmpty(queue)
      <4>1. /\ Contents(queue') = Tail(Contents(queue))
            /\ Oldest(queue) = Head(Contents(queue))
        BY <2>1, <2>4, <3>2, DequeuedDropsFirst DEF aci_queue_dequeue
      <4>2. ret' = [ok |-> TRUE, out |-> <<Oldest(queue)>>]
        BY <2>4, <3>2 DEF aci_queue_dequeue, Returned
      <4>3. QED
        BY <2>1, <3>2, <4>1, <4>2 DEF Fifo!FifoNext, Fifo!Take, Fifo!Returns
    <3>3. QED
      BY <3>1, <3>2
  <2>5. CASE aci_queue_peek
    <3>1. queue' = queue
      BY <2>5 DEF aci_queue_peek
    <3>2. CASE IsEmpty(queue)
      BY <2>1, <2>5, <3>1, <3>2
         DEF aci_queue_peek, Returned, Fifo!FifoNext, Fifo!Look, Fifo!Returns
    <3>3. CASE ~IsEmpty(queue)
      <4>1. Oldest(queue) = Head(Contents(queue))
        BY <2>1, <3>3, DequeuedDropsFirst
      <4>2. QED
        BY <2>1, <2>5, <3>1, <3>3, <4>1
           DEF aci_queue_peek, Returned, Fifo!FifoNext, Fifo!Look, Fifo!Returns
    <3>4. QED
      BY <3>2, <3>3
  <2>6. CASE UNCHANGED vars
    BY <2>6 DEF vars, Fifo!fifoVars
  <2>7. QED
    BY <2>2, <2>3, <2>4, <2>5, <2>6 DEF CarefulNext, Reads, Fifo!FifoNext
<1>3. QED
  BY <1>1, <1>2, IInvInit, IInvStep, PTL
     DEF CarefulSpec, ImplementsFifo, Fifo!FifoSpec
==============================================================================
