---------------------------- MODULE AciRingLemmas -----------------------------
(***************************************************************************)
(* What the operators of AciRing do to the packets a ring holds, for every *)
(* set of packets and every index width that is a multiple of the ring's   *)
(* size.  All of them hold across the wrap of head and tail.               *)
(***************************************************************************)
EXTENDS AciRing, TLAPS


USE DEF ACI_QUEUE_SIZE

(* The number of queued packets is an index difference, and IsFull and     *)
(* IsEmpty say what it is, except where head + 4 is no uint8_t value.      *)
LEMMA OccupancyFacts ==
  ASSUME NEW q \in Queue
  PROVE  /\ Occupancy(q) \in Index
         /\ IsEmpty(q) <=> Occupancy(q) = 0
         /\ IsFull(q) => Occupancy(q) = ACI_QUEUE_SIZE
         /\ q.head + ACI_QUEUE_SIZE < IndexRange
              => (Occupancy(q) = ACI_QUEUE_SIZE => IsFull(q))
  BY IndexRangeAssumption DEF Queue, Index, Occupancy, IsEmpty, IsFull

(* Enqueuing keeps the C types.                                            *)
LEMMA EnqueuedType ==
  ASSUME NEW q \in Queue, NEW m \in Msg
  PROVE  Enqueued(q, m) \in Queue
<1>1. q.tail % ACI_QUEUE_SIZE \in Slot /\ Successor(q.tail) \in Index
  BY IndexRangeAssumption DEF Queue, Index, Slot, Successor
<1>2. [q.data EXCEPT ![q.tail % ACI_QUEUE_SIZE] = m] \in [Slot -> Msg \cup {NoMsg}]
  BY <1>1 DEF Queue
<1>3. QED
  BY <1>1, <1>2 DEF Queue, Enqueued

(* Dequeuing keeps the C types, and hands out the contents of a slot.      *)
LEMMA DequeuedType ==
  ASSUME NEW q \in Queue
  PROVE  /\ Dequeued(q) \in Queue
         /\ Oldest(q) \in Msg \cup {NoMsg}
  BY IndexRangeAssumption DEF Queue, Index, Slot, Dequeued, Successor, Oldest

(* init yields an empty queue.                                             *)
LEMMA EmptyQueueFacts ==
  /\ EmptyQueue \in Queue
  /\ Occupancy(EmptyQueue) = 0
  BY IndexRangeAssumption DEF EmptyQueue, Queue, Index, Slot, Occupancy

(* A packet put into a ring with a free slot is behind all the others,     *)
(* which stay where they are.                                              *)
LEMMA EnqueuedContents ==
  ASSUME NEW q \in Queue, NEW m \in Msg, Occupancy(q) < ACI_QUEUE_SIZE
  PROVE  /\ Occupancy(Enqueued(q, m)) = Occupancy(q) + 1
         /\ \A i \in 1 .. Occupancy(q) :
              Contents(Enqueued(q, m))[i] = Contents(q)[i]
         /\ Contents(Enqueued(q, m))[Occupancy(q) + 1] = m
<1> DEFINE r == Enqueued(q, m)
<1>1. r = [q EXCEPT !.data[q.tail % ACI_QUEUE_SIZE] = m,
                    !.tail = Successor(q.tail)]
  BY OccupancyFacts DEF Enqueued
<1>2. Occupancy(r) = Occupancy(q) + 1
  BY <1>1, IndexRangeAssumption DEF Queue, Index, Occupancy, Successor
<1>3. ASSUME NEW i \in 1 .. Occupancy(q)
      PROVE  Contents(r)[i] = Contents(q)[i]
  <2>1. (q.head + i - 1) % ACI_QUEUE_SIZE # q.tail % ACI_QUEUE_SIZE
    BY IndexRangeAssumption DEF Queue, Index, Occupancy
  <2>2. (q.head + i - 1) % ACI_QUEUE_SIZE \in Slot
    BY IndexRangeAssumption DEF Queue, Index, Occupancy, Slot
  <2>3. r.head = q.head /\ r.data[(q.head + i - 1) % ACI_QUEUE_SIZE]
                           = q.data[(q.head + i - 1) % ACI_QUEUE_SIZE]
    BY <1>1, <2>1, <2>2 DEF Queue
  <2>4. i \in 1 .. Occupancy(r)
    BY <1>2, OccupancyFacts DEF Index
  <2> HIDE DEF r
  <2>5. QED
    BY <2>3, <2>4 DEF Contents
<1>4. Contents(r)[Occupancy(q) + 1] = m
  <2>1. (q.head + Occupancy(q)) % ACI_QUEUE_SIZE = q.tail % ACI_QUEUE_SIZE
    BY IndexRangeAssumption DEF Queue, Index, Occupancy
  <2>2. q.tail % ACI_QUEUE_SIZE \in Slot
    BY IndexRangeAssumption DEF Queue, Index, Slot
  <2>3. r.head = q.head /\ r.data[q.tail % ACI_QUEUE_SIZE] = m
    BY <1>1, <2>2 DEF Queue
  <2>4. Occupancy(q) + 1 \in 1 .. Occupancy(r)
    BY <1>2, OccupancyFacts DEF Index
  <2>5. q.head + (Occupancy(q) + 1) - 1 = q.head + Occupancy(q)
    BY OccupancyFacts DEF Index, Queue
  <2> HIDE DEF r
  <2>6. QED
    BY <2>1, <2>3, <2>4, <2>5 DEF Contents
<1>5. QED
  BY <1>2, <1>3, <1>4

(* The packet taken from a ring that is not empty is the oldest one, and   *)
(* each of the others moves up by one place.                               *)
LEMMA DequeuedContents ==
  ASSUME NEW q \in Queue, Occupancy(q) > 0
  PROVE  /\ Occupancy(Dequeued(q)) = Occupancy(q) - 1
         /\ Oldest(q) = Contents(q)[1]
         /\ \A i \in 1 .. Occupancy(q) - 1 :
              Contents(Dequeued(q))[i] = Contents(q)[i + 1]
<1> DEFINE r == Dequeued(q)
<1>1. r = [q EXCEPT !.head = Successor(q.head)]
  BY OccupancyFacts DEF Dequeued, Index
<1>2. Occupancy(r) = Occupancy(q) - 1
  BY <1>1, IndexRangeAssumption DEF Queue, Index, Occupancy, Successor
<1>3. Oldest(q) = Contents(q)[1]
  <2>1. 1 \in 1 .. Occupancy(q) /\ q.head + 1 - 1 = q.head
    BY OccupancyFacts DEF Queue, Index
  <2>2. QED
    BY <2>1 DEF Oldest, Contents
<1>4. ASSUME NEW i \in 1 .. Occupancy(q) - 1
      PROVE  Contents(r)[i] = Contents(q)[i + 1]
  <2>1. r.data = q.data /\ r.head = Successor(q.head)
    BY <1>1 DEF Queue
  <2>2. (Successor(q.head) + i - 1) % ACI_QUEUE_SIZE
          = (q.head + (i + 1) - 1) % ACI_QUEUE_SIZE
    BY IndexRangeAssumption, OccupancyFacts DEF Queue, Index, Successor
  <2>3. i \in 1 .. Occupancy(r) /\ i + 1 \in 1 .. Occupancy(q)
    BY <1>2, OccupancyFacts DEF Index
  <2> HIDE DEF r
  <2>4. QED
    BY <2>1, <2>2, <2>3 DEF Contents
<1>5. QED
  BY <1>2, <1>3, <1>4

(* Contents is a sequence as long as the number of queued packets.         *)
LEMMA ContentsSeq ==
  ASSUME NEW q \in Queue
  PROVE  /\ Contents(q) \in Seq(Msg \cup {NoMsg})
         /\ Len(Contents(q)) = Occupancy(q)
         /\ Contents(q) = <<>> <=> Occupancy(q) = 0
<1>1. Occupancy(q) \in Nat
  BY OccupancyFacts DEF Index
<1>2. \A i \in 1 .. Occupancy(q) : q.data[(q.head + i - 1) % ACI_QUEUE_SIZE] \in Msg \cup {NoMsg}
  <2>1. \A i \in 1 .. Occupancy(q) : (q.head + i - 1) % ACI_QUEUE_SIZE \in Slot
    BY <1>1 DEF Queue, Index, Slot
  <2>2. QED
    BY <2>1 DEF Queue
<1>3. QED
  BY <1>1, <1>2 DEF Contents

(* The sequence forms of the two content lemmas.                           *)
LEMMA EnqueuedAppends ==
  ASSUME NEW q \in Queue, NEW m \in Msg, Occupancy(q) < ACI_QUEUE_SIZE
  PROVE  Contents(Enqueued(q, m)) = Append(Contents(q), m)
<1> DEFINE r == Enqueued(q, m)
<1>1. r \in Queue
  BY EnqueuedType
<1>2. /\ Contents(r) \in Seq(Msg \cup {NoMsg})
      /\ Len(Contents(r)) = Occupancy(q) + 1
  BY <1>1, ContentsSeq, EnqueuedContents
<1>3. Contents(q) \in Seq(Msg \cup {NoMsg}) /\ Len(Contents(q)) = Occupancy(q)
  BY ContentsSeq
<1>4. Occupancy(q) \in Nat
  BY OccupancyFacts DEF Index
<1>5. /\ \A i \in 1 .. Occupancy(q) : Contents(r)[i] = Contents(q)[i]
      /\ Contents(r)[Occupancy(q) + 1] = m
  BY EnqueuedContents
<1> HIDE DEF r
<1>6. QED
  BY <1>2, <1>3, <1>4, <1>5 DEF r

LEMMA DequeuedDropsFirst ==
  ASSUME NEW q \in Queue, Occupancy(q) > 0
  PROVE  /\ Contents(Dequeued(q)) = Tail(Contents(q))
         /\ Oldest(q) = Head(Contents(q))
<1> DEFINE r == Dequeued(q)
<1>1. r \in Queue
  BY DequeuedType
<1>2. /\ Contents(r) \in Seq(Msg \cup {NoMsg})
      /\ Len(Contents(r)) = Occupancy(q) - 1
  BY <1>1, ContentsSeq, DequeuedContents
<1>3. /\ Contents(q) \in Seq(Msg \cup {NoMsg}) 
      /\ Len(Contents(q)) = Occupancy(q)
      /\ Contents(q) # <<>>
  BY ContentsSeq
<1>4. Occupancy(q) \in Nat
  BY OccupancyFacts DEF Index
<1>5. /\ \A i \in 1 .. Occupancy(q) - 1 : Contents(r)[i] = Contents(q)[i + 1]
      /\ Oldest(q) = Contents(q)[1]
  BY DequeuedContents
<1> HIDE DEF r
<1>6. QED
  BY <1>2, <1>3, <1>4, <1>5 DEF r
==============================================================================
