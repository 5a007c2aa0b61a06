-------------------------- MODULE AciTransportProofs -------------------------
(***************************************************************************)
(* The polling transport neither loses, repeats nor reorders a packet, and *)
(* leaves room for an answer to every event, for every width of head and   *)
(* tail and any number of packets.  The theorems are about the library's   *)
(* own use of the transport: it reads events with hal_aci_tl_event_get     *)
(* only, so that rx never holds more than the event being handed out.      *)
(***************************************************************************)
EXTENDS AciTransportIsr, AciRingLemmas

USE DEF ACI_QUEUE_SIZE

(* Enqueuing the next number keeps the numbering of a ring.                *)
LEMMA HoldsEnqueued ==
  ASSUME NEW q \in Queue, NEW from \in Nat, NEW upTo \in Nat,
         Holds(q, from, upTo), Occupancy(q) < ACI_QUEUE_SIZE, upTo + 1 \in Msg
  PROVE  /\ Enqueued(q, upTo + 1) \in Queue
         /\ Occupancy(Enqueued(q, upTo + 1)) = Occupancy(q) + 1
         /\ Holds(Enqueued(q, upTo + 1), from, upTo + 1)
<1> DEFINE r == Enqueued(q, upTo + 1)
<1>1. r \in Queue /\ Occupancy(q) \in Nat
  BY EnqueuedType, OccupancyFacts DEF Index
<1>2. /\ Occupancy(r) = Occupancy(q) + 1
      /\ \A i \in 1 .. Occupancy(q) : Contents(r)[i] = Contents(q)[i]
      /\ Contents(r)[Occupancy(q) + 1] = upTo + 1
  BY EnqueuedContents
<1> HIDE DEF r
<1>3. Holds(r, from, upTo + 1)
  BY <1>1, <1>2 DEF Holds
<1>4. QED
  BY <1>1, <1>2, <1>3 DEF r

(* Dequeuing hands out the next number and keeps the numbering of the rest *)
LEMMA HoldsDequeued ==
  ASSUME NEW q \in Queue, NEW from \in Nat, NEW upTo \in Nat,
         Holds(q, from, upTo), ~IsEmpty(q)
  PROVE  /\ Dequeued(q) \in Queue
         /\ Occupancy(Dequeued(q)) = Occupancy(q) - 1
         /\ Occupancy(q) > 0
         /\ Oldest(q) = from + 1
         /\ Holds(Dequeued(q), from + 1, upTo)
<1> DEFINE r == Dequeued(q)
<1>1. r \in Queue /\ Occupancy(q) \in Nat /\ Occupancy(q) > 0
  BY DequeuedType, OccupancyFacts DEF Index
<1>2. /\ Occupancy(r) = Occupancy(q) - 1
      /\ Oldest(q) = Contents(q)[1]
      /\ \A i \in 1 .. Occupancy(q) - 1 : Contents(r)[i] = Contents(q)[i + 1]
  BY <1>1, DequeuedContents
<1> HIDE DEF r
<1>3. Holds(r, from + 1, upTo)
  BY <1>1, <1>2 DEF Holds
<1>4. Oldest(q) = from + 1
  BY <1>1, <1>2 DEF Holds
<1>5. QED
  BY <1>1, <1>2, <1>3, <1>4 DEF r

------------------------------------------------------------------------------
(* What is true between any two calls: rx is empty, so the event a read    *)
(* call fetches always fits, and tx holds at most its four slots' worth.   *)
IInv ==
  /\ TypeOK
  /\ CommandsKept
  /\ EventsKept
  /\ WaitingIsRequested
  /\ IsEmpty(rx)
  /\ Occupancy(tx) <= ACI_QUEUE_SIZE
  /\ clockedOut <= emitted

LEMMA IInvFacts ==
  ASSUME IInv
  PROVE  /\ tx \in Queue /\ rx \in Queue
         /\ Occupancy(tx) \in Nat /\ Occupancy(rx) = 0
         /\ IsEmpty(tx) <=> Occupancy(tx) = 0
         /\ ~IsFull(rx)
         /\ Holds(tx, clockedIn, accepted)
         /\ clockedIn \in Nat /\ accepted \in Nat
         /\ delivered = clockedOut /\ clockedOut \in Nat
<1>1. /\ tx \in Queue /\ rx \in Queue
      /\ clockedIn \in Nat /\ accepted \in Nat
      /\ clockedOut \in Nat /\ delivered \in Nat
  BY BoundsAssumption DEF IInv, TypeOK
<1>2. /\ Occupancy(tx) \in Nat /\ Occupancy(rx) = 0 /\ ~IsFull(rx)
      /\ IsEmpty(tx) <=> Occupancy(tx) = 0
  BY <1>1, OccupancyFacts DEF IInv, Index
<1>3. Holds(tx, clockedIn, accepted) /\ delivered = clockedOut
  BY <1>1, <1>2 DEF IInv, CommandsKept, EventsKept, Holds
<1>4. QED
  BY <1>1, <1>2, <1>3

(* The empty ring is numbered by any point at which nothing is in flight.  *)
LEMMA HoldsEmpty ==
  ASSUME NEW n \in Nat
  PROVE  /\ EmptyQueue \in Queue /\ Occupancy(EmptyQueue) = 0
         /\ IsEmpty(EmptyQueue)
         /\ Holds(EmptyQueue, n, n)
  BY EmptyQueueFacts, OccupancyFacts DEF Holds

LEMMA IInvInit == Init => IInv
<1> SUFFICES ASSUME Init PROVE IInv
  OBVIOUS
<1>1. /\ EmptyQueue \in Queue /\ Occupancy(EmptyQueue) = 0
      /\ IsEmpty(EmptyQueue) /\ Holds(EmptyQueue, 0, 0)
  BY HoldsEmpty
<1>2. 0 \in 0 .. MaxCommands /\ 0 \in 0 .. MaxEvents
  BY BoundsAssumption
<1>3. TypeOK
  BY <1>1, <1>2 DEF Init, TypeOK
<1>4. QED
  BY <1>1, <1>3 DEF Init, IInv, CommandsKept, EventsKept, WaitingIsRequested

LEMMA IInvSend == IInv /\ Send => IInv'
<1> SUFFICES ASSUME IInv, Send PROVE IInv'
  OBVIOUS
<1>1. PICK m \in {accepted + 1} \cup Oversized : hal_aci_tl_send(m)
  BY DEF Send
<1>2. CASE SendRefuses(m)
  BY <1>2 DEF SendRefuses, vars, IInv, TypeOK, CommandsKept, EventsKept,
              WaitingIsRequested
<1>3. CASE m \notin Oversized /\ SendAccepts(m)
  <2>1. m = accepted + 1 /\ accepted + 1 \in 1 .. MaxCommands
    BY <1>3, IInvFacts, BoundsAssumption DEF Send
  <2>2. accepted + 1 \in Msg
    BY <2>1, MsgAssumption
  <2>3. Occupancy(tx) < ACI_QUEUE_SIZE
    <3>1. tx.head \in Index /\ ~IsFull(tx) /\ FullIsDetectable(tx)
      BY <1>3, IInvFacts DEF SendAccepts, Send, Queue
    <3>2. QED
      BY <3>1, IInvFacts, OccupancyFacts DEF IInv, FullIsDetectable
  <2>4. /\ tx' \in Queue
        /\ Occupancy(tx') = Occupancy(tx) + 1
        /\ Holds(tx', clockedIn, accepted + 1)
    BY <1>3, <2>1, <2>2, <2>3, IInvFacts, HoldsEnqueued DEF SendAccepts
  <2>5. requested' = TRUE /\ rx' = rx /\ accepted' = accepted + 1
    BY <1>3, <2>1, IInvFacts DEF SendAccepts
  <2>6. UNCHANGED <<delivered, ready, clockedIn, emitted, clockedOut>>
    BY <1>3 DEF SendAccepts, wires
  <2>7. TypeOK'
    BY <2>1, <2>4, <2>5, <2>6 DEF IInv, TypeOK
  <2>8. EventsKept'
    BY <2>5, <2>6 DEF IInv, EventsKept, Holds
  <2>9. QED
    BY <2>3, <2>4, <2>5, <2>6, <2>7, <2>8, IInvFacts
       DEF IInv, CommandsKept, WaitingIsRequested
<1>4. QED
  BY <1>1, <1>2, <1>3 DEF hal_aci_tl_send

(* Nothing is fetched: the rings stay as they are.                         *)
LEMMA IInvNotReady == IInv /\ NotReady("get") => IInv' /\ delivered' = delivered
<1> SUFFICES ASSUME IInv, NotReady("get") PROVE IInv' /\ delivered' = delivered
  OBVIOUS
<1>1. /\ tx' = tx /\ rx' = rx /\ delivered' = delivered
      /\ requested' = (requested \/ ~IsEmpty(tx))
      /\ UNCHANGED <<accepted, ready, clockedIn, emitted, clockedOut>>
  BY DEF NotReady, Reads, GetsEvent, Dequeued, IInv, wires
<1>2. TypeOK'
  BY <1>1 DEF IInv, TypeOK
<1>3. QED
  BY <1>1, <1>2 DEF IInv, CommandsKept, EventsKept, WaitingIsRequested, Holds

(* One transfer: the oldest command goes, and the event that comes is      *)
(* handed out at once.                                                     *)
LEMMA IInvTransfer ==
  ASSUME IInv, Transfer("get")
  PROVE  IInv' /\ Occupancy(tx') < ACI_QUEUE_SIZE
<1>1. GetsEvent(TxAfter, RxAfter, ~IsEmpty(TxAfter))
  BY DEF Transfer, Reads
<1>2. /\ clockedIn' = IF IsEmpty(tx) THEN clockedIn ELSE Oldest(tx)
      /\ clockedOut' = IF EventPending THEN clockedOut + 1 ELSE clockedOut
      /\ ready' = FALSE
      /\ UNCHANGED <<accepted, emitted>>
  BY DEF Transfer, m_aci_spi_transfer
<1>3. /\ tx' \in Queue
      /\ Occupancy(tx') \in Nat /\ Occupancy(tx') < ACI_QUEUE_SIZE
      /\ Holds(tx', clockedIn', accepted)
      /\ clockedIn' \in Nat
  <2>1. CASE IsEmpty(tx)
    BY <1>1, <1>2, <2>1, IInvFacts DEF GetsEvent, TxAfter, Dequeued
  <2>2. CASE ~IsEmpty(tx)
    <3>1. /\ tx' \in Queue
          /\ Occupancy(tx') = Occupancy(tx) - 1 /\ Occupancy(tx) > 0
          /\ clockedIn' = clockedIn + 1
          /\ Holds(tx', clockedIn + 1, accepted)
      BY <1>1, <1>2, <2>2, IInvFacts, HoldsDequeued DEF GetsEvent, TxAfter
    <3>2. QED
      BY <3>1, IInvFacts DEF IInv
  <2>3. QED
    BY <2>1, <2>2
<1>4. clockedIn' \in 0 .. MaxCommands
  BY <1>3, BoundsAssumption DEF Holds, IInv, TypeOK
<1>5. requested' = TRUE \/ (requested' = FALSE /\ IsEmpty(tx'))
  BY <1>1 DEF GetsEvent
<1>6. /\ rx' \in Queue /\ Occupancy(rx') = 0
      /\ delivered' = clockedOut'
      /\ clockedOut' \in 0 .. MaxEvents /\ clockedOut' <= emitted
  <2>1. CASE ~EventPending
    BY <1>1, <1>2, <2>1, IInvFacts DEF GetsEvent, RxAfter, Dequeued, IInv, TypeOK
  <2>2. CASE EventPending
    <3>1. /\ clockedOut + 1 <= emitted
          /\ clockedOut + 1 \in 1 .. MaxEvents
      BY <2>2, IInvFacts, BoundsAssumption DEF EventPending, IInv, TypeOK
    <3>2. clockedOut + 1 \in Msg
      BY <3>1, MsgAssumption
    <3>3. Holds(rx, clockedOut, clockedOut)
      BY IInvFacts DEF Holds
    <3>4. /\ RxAfter \in Queue /\ Occupancy(RxAfter) = 1
          /\ Holds(RxAfter, clockedOut, clockedOut + 1)
      BY <2>2, <3>2, <3>3, IInvFacts, HoldsEnqueued DEF RxAfter
    <3>5. ~IsEmpty(RxAfter)
      BY <3>4, OccupancyFacts
    <3>6. /\ Dequeued(RxAfter) \in Queue
          /\ Occupancy(Dequeued(RxAfter)) = 0
          /\ Oldest(RxAfter) = clockedOut + 1
      BY <3>4, <3>5, IInvFacts, HoldsDequeued
    <3>7. QED
      BY <1>1, <1>2, <2>2, <3>1, <3>5, <3>6 DEF GetsEvent
  <2>3. QED
    BY <2>1, <2>2
<1>7. IsEmpty(rx')
  BY <1>6, OccupancyFacts
<1>8. TypeOK'
  BY <1>2, <1>3, <1>4, <1>5, <1>6 DEF IInv, TypeOK
<1>9. EventsKept'
  <2>1. clockedOut' \in Nat
    BY <1>6, BoundsAssumption
  <2>2. clockedOut' = delivered' + Occupancy(rx')
    <3>1. \A n \in Nat : n = n + 0
      OBVIOUS
    <3>2. QED
      BY <1>6, <2>1, <3>1, Zenon
  <2>3. \A i \in 1 .. Occupancy(rx') : FALSE
    BY <1>6
  <2>4. QED
    BY <2>2, <2>3 DEF EventsKept, Holds
<1>10. QED
  BY <1>2, <1>3, <1>5, <1>6, <1>7, <1>8, <1>9
     DEF IInv, CommandsKept, WaitingIsRequested

LEMMA IInvGet ==
  ASSUME IInv, hal_aci_tl_event_get
  PROVE  IInv' /\ (delivered' # delivered => Occupancy(tx') < ACI_QUEUE_SIZE)
<1>1. ~NoRoom("get")
  BY IInvFacts DEF NoRoom
<1>2. QED
  BY <1>1, IInvNotReady, IInvTransfer DEF hal_aci_tl_event_get, Read

LEMMA IInvChip == IInv /\ Chip => IInv' /\ delivered' = delivered
<1> SUFFICES ASSUME IInv, Chip PROVE IInv' /\ delivered' = delivered
  OBVIOUS
<1>1. /\ UNCHANGED <<tx, rx, requested, accepted, delivered, clockedIn, clockedOut>>
      /\ ready' \in BOOLEAN
      /\ emitted' \in 0 .. MaxEvents /\ emitted' >= emitted
  <2>1. CASE ChipEmits
    BY <2>1, BoundsAssumption DEF ChipEmits, hostVars, IInv, TypeOK
  <2>2. CASE ChipLowersRDYN
    BY <2>2, BoundsAssumption DEF ChipLowersRDYN, hostVars, IInv, TypeOK
  <2>3. QED
    BY <2>1, <2>2 DEF Chip
<1>2. TypeOK'
  BY <1>1 DEF IInv, TypeOK
<1>3. clockedOut' <= emitted'
  BY <1>1, BoundsAssumption DEF IInv, TypeOK
<1>4. QED
  BY <1>1, <1>2, <1>3 DEF IInv, CommandsKept, EventsKept, WaitingIsRequested, Holds

LEMMA IInvFlush == IInv /\ hal_aci_tl_q_flush => IInv' /\ Occupancy(tx') = 0
<1> SUFFICES ASSUME IInv, hal_aci_tl_q_flush PROVE IInv' /\ Occupancy(tx') = 0
  OBVIOUS
<1>1. /\ tx' = EmptyQueue /\ rx' = EmptyQueue
      /\ accepted' = clockedIn /\ delivered' = clockedOut
      /\ UNCHANGED <<requested, ready, clockedIn, emitted, clockedOut>>
  BY DEF hal_aci_tl_q_flush, wires
<1>2. /\ EmptyQueue \in Queue /\ Occupancy(EmptyQueue) = 0 /\ IsEmpty(EmptyQueue)
      /\ Holds(EmptyQueue, clockedIn, clockedIn)
      /\ Holds(EmptyQueue, clockedOut, clockedOut)
  BY IInvFacts, HoldsEmpty
<1>3. TypeOK'
  BY <1>1, <1>2 DEF IInv, TypeOK
<1>4. QED
  BY <1>1, <1>2, <1>3 DEF IInv, CommandsKept, EventsKept, WaitingIsRequested

LEMMA IInvReset == hal_aci_tl_init => IInv' /\ Occupancy(tx') = 0
<1> SUFFICES ASSUME hal_aci_tl_init PROVE IInv' /\ Occupancy(tx') = 0
  OBVIOUS
<1>1. /\ EmptyQueue \in Queue /\ Occupancy(EmptyQueue) = 0
      /\ IsEmpty(EmptyQueue) /\ Holds(EmptyQueue, 0, 0)
  BY HoldsEmpty
<1>2. 0 \in 0 .. MaxCommands /\ 0 \in 0 .. MaxEvents
  BY BoundsAssumption
<1>3. TypeOK'
  BY <1>1, <1>2 DEF hal_aci_tl_init, TypeOK
<1>4. QED
  BY <1>1, <1>3
     DEF hal_aci_tl_init, IInv, CommandsKept, EventsKept, WaitingIsRequested

(* Every step keeps IInv, and a step that hands out an event leaves room.  *)
LEMMA IInvStep ==
  ASSUME ReadCalls = {"get"}
  PROVE  IInv /\ [Next]_vars
           => IInv' /\ (delivered' # delivered => Occupancy(tx') < ACI_QUEUE_SIZE)
<1> SUFFICES ASSUME IInv, [Next]_vars
             PROVE  /\ IInv'
                    /\ delivered' # delivered => Occupancy(tx') < ACI_QUEUE_SIZE
  OBVIOUS
<1>1. CASE Send
  <2>1. delivered' = delivered
    BY <1>1 DEF Send, hal_aci_tl_send, SendAccepts, SendRefuses, vars
  <2>2. QED
    BY <1>1, <2>1, IInvSend
<1>2. CASE hal_aci_tl_event_get
  BY <1>2, IInvGet
<1>3. CASE hal_aci_tl_event_peek
  BY <1>3 DEF hal_aci_tl_event_peek
<1>4. CASE Chip
  BY <1>4, IInvChip
<1>5. CASE hal_aci_tl_q_flush
  BY <1>5, IInvFlush
<1>6. CASE hal_aci_tl_init
  BY <1>6, IInvReset
<1>7. CASE UNCHANGED vars
  BY <1>7 DEF vars, IInv, TypeOK, CommandsKept, EventsKept, WaitingIsRequested, Holds
<1>8. QED
  BY <1>1, <1>2, <1>3, <1>4, <1>5, <1>6, <1>7 DEF Next, Host

LEMMA IInvAlways ==
  ASSUME ReadCalls = {"get"}
  PROVE  Spec => []IInv
  BY IInvInit, IInvStep, PTL DEF Spec

(* No packet is lost, repeated or overtaken, in either direction; no       *)
(* waiting command is forgotten; the C types are kept.                     *)
THEOREM PacketsKept ==
  ASSUME ReadCalls = {"get"}
  PROVE  Spec => [](TypeOK /\ PacketsInOrder /\ WaitingIsRequested)
<1>1. IInv => TypeOK /\ PacketsInOrder /\ WaitingIsRequested
  BY DEF IInv, PacketsInOrder
<1>2. QED
  BY <1>1, IInvAlways, PTL

(* hal_aci_tl_event_get always finds rx empty.                             *)
THEOREM RxDrainedAlways == ASSUME ReadCalls = {"get"} PROVE Spec => []RxDrained
<1>1. IInv => RxDrained
  BY DEF IInv, RxDrained
<1>2. QED
  BY <1>1, IInvAlways, PTL

(* After every event handed out there is room to answer it.                *)
THEOREM RoomToAnswer == ASSUME ReadCalls = {"get"} PROVE Spec => EventLeavesRoom
<1>1. IInv /\ [Next]_vars
        => [ReadCalls = {"get"} /\ delivered' # delivered
              => Occupancy(tx') < ACI_QUEUE_SIZE]_vars
  BY IInvStep
<1>2. QED
  BY <1>1, IInvAlways, PTL DEF Spec, EventLeavesRoom

------------------------------------------------------------------------------
(* The request line needs less, and holds for programs that peek too, with *)
(* rx full or not: a full ring is never taken for an empty one.            *)
RequestInv ==
  /\ rx \in Queue /\ clockedOut \in Nat /\ emitted \in 0 .. MaxEvents
  /\ WaitingIsRequested

LEMMA FullIsNotEmpty == ASSUME NEW q \in Queue, IsFull(q) PROVE ~IsEmpty(q)
  BY DEF Queue, Index, IsFull, IsEmpty

(* What a read call leaves: a caller that takes an event from a full ring  *)
(* makes room, and asks for the transfer that was held up.                 *)
LEMMA ReadsRequest ==
  ASSUME NEW call, NEW t, NEW r \in Queue, NEW req, Reads(call, t, r, req),
         ~IsEmpty(t) /\ ~IsFull(r) => req
  PROVE  rx' \in Queue /\ WaitingIsRequested'
<1>1. Dequeued(r) \in Queue /\ (IsFull(r) => ~IsEmpty(r))
  BY DequeuedType, FullIsNotEmpty
<1>2. CASE GetsEvent(t, r, req)
  BY <1>1, <1>2 DEF GetsEvent, WaitingIsRequested
<1>3. CASE PeeksEvent(t, r, req)
  BY <1>3 DEF PeeksEvent, WaitingIsRequested
<1>4. QED
  BY <1>2, <1>3 DEF Reads

LEMMA ReadKeepsRequest ==
  ASSUME RequestInv, NEW call, Read(call)
  PROVE  RequestInv'
<1>1. CASE NoRoom(call)
  <2>1. rx' \in Queue /\ WaitingIsRequested'
    BY <1>1, ReadsRequest DEF NoRoom, RequestInv, WaitingIsRequested
  <2>2. QED
    BY <1>1, <2>1 DEF NoRoom, RequestInv, wires
<1>2. CASE NotReady(call)
  <2>1. rx' \in Queue /\ WaitingIsRequested'
    BY <1>2, ReadsRequest DEF NotReady, RequestInv
  <2>2. QED
    BY <1>2, <2>1 DEF NotReady, RequestInv, wires
<1>3. CASE Transfer(call)
  <2>1. RxAfter \in Queue /\ clockedOut' \in Nat /\ emitted' = emitted
    <3>1. EventPending => clockedOut + 1 \in 1 .. MaxEvents
      BY BoundsAssumption DEF EventPending, RequestInv
    <3>2. EventPending => Enqueued(rx, clockedOut + 1) \in Queue
      BY <3>1, MsgAssumption, EnqueuedType DEF RequestInv
    <3>3. QED
      BY <1>3, <3>2 DEF Transfer, m_aci_spi_transfer, RxAfter, RequestInv
  <2>2. rx' \in Queue /\ WaitingIsRequested'
    BY <1>3, <2>1, ReadsRequest DEF Transfer
  <2>3. QED
    BY <2>1, <2>2 DEF RequestInv
<1>4. QED
  BY <1>1, <1>2, <1>3 DEF Read

(* A command that waits while its reply would fit has REQN low, whatever   *)
(* the program reads with and however full rx is: no path through send,    *)
(* event_get, event_peek or flush forgets to ask for the transfer.         *)
THEOREM RequestedAlways == Spec => []WaitingIsRequested
<1>1. Init => RequestInv
  <2>1. EmptyQueue \in Queue /\ IsEmpty(EmptyQueue)
    BY HoldsEmpty
  <2>2. 0 \in Nat /\ 0 \in 0 .. MaxEvents
    BY BoundsAssumption
  <2>3. QED
    BY <2>1, <2>2 DEF Init, RequestInv, WaitingIsRequested
<1>2. RequestInv /\ [Next]_vars => RequestInv'
  <2> SUFFICES ASSUME RequestInv, [Next]_vars PROVE RequestInv'
    OBVIOUS
  <2>1. CASE Send
    <3>1. PICK m \in {accepted + 1} \cup Oversized : hal_aci_tl_send(m)
      BY <2>1 DEF Send
    <3>2. CASE SendAccepts(m)
      BY <3>2 DEF SendAccepts, wires, RequestInv, WaitingIsRequested
    <3>3. CASE SendRefuses(m)
      BY <3>3 DEF SendRefuses, vars, RequestInv, WaitingIsRequested
    <3>4. QED
      BY <3>1, <3>2, <3>3 DEF hal_aci_tl_send
  <2>2. CASE hal_aci_tl_event_get \/ hal_aci_tl_event_peek
    BY <2>2, ReadKeepsRequest DEF hal_aci_tl_event_get, hal_aci_tl_event_peek
  <2>3. CASE Chip
    BY <2>3, BoundsAssumption
       DEF Chip, ChipEmits, ChipLowersRDYN, hostVars, RequestInv, WaitingIsRequested
  <2>4. CASE hal_aci_tl_q_flush
    BY <2>4, EmptyQueueFacts
       DEF hal_aci_tl_q_flush, wires, EmptyQueue, RequestInv, WaitingIsRequested, IsEmpty
  <2>5. CASE hal_aci_tl_init
    BY <2>5, EmptyQueueFacts, BoundsAssumption
       DEF hal_aci_tl_init, EmptyQueue, RequestInv, WaitingIsRequested, IsEmpty
  <2>6. CASE UNCHANGED vars
    BY <2>6 DEF vars, RequestInv, WaitingIsRequested
  <2>7. QED
    BY <2>1, <2>2, <2>3, <2>4, <2>5, <2>6 DEF Next, Host
<1>3. RequestInv => WaitingIsRequested
  BY DEF RequestInv
<1>4. QED
  BY <1>1, <1>2, <1>3, PTL DEF Spec

------------------------------------------------------------------------------
(***************************************************************************)
(* The interrupt build with debugging, which samples was_full: wherever    *)
(* the ISR interrupts the main program, it never finds rx full, no packet  *)
(* is lost, repeated or overtaken, and no command is forgotten.  That is   *)
(* as long as the index of rx has not come round: from there on a full     *)
(* ring can be missed, which run queue_wrap shows; and until the ISR runs  *)
(* while a repeated hal_aci_tl_init empties the rings with it attached.    *)
(***************************************************************************)

(* Fewer events than it takes the index of rx to come round.               *)
BeforeWrap == Debug /\ MaxEvents + ACI_QUEUE_SIZE < IndexRange

(* The ISR is attached only while rx has room, so a full ring is dealt     *)
(* with by the main program alone: while it reads from a ring it found     *)
(* full, the ISR cannot come in between.                                   *)
AttachedHasRoom ==
  /\ attached => ~IsFull(rx)
  /\ pc \in {"dequeue", "copy"} /\ wasFull => ~attached /\ IsFull(rx)
  /\ pc = "attach" /\ wasFull => ~attached /\ ~IsFull(rx)

(* What the main program tested still holds when it acts on it.            *)
TestsHold ==
  /\ pc = "copy" => ~IsEmpty(rx)
  /\ pc = "enqueue" => Occupancy(tx) < ACI_QUEUE_SIZE /\ accepted < MaxCommands

(* The request is missing only where the main program is about to make it. *)
RequestedOrAbout ==
  WaitingIsRequested \/ pc \in {"attach", "request", "testRoom", "lower"}

(* head counts the events delivered since rx was emptied.                  *)
HeadBehind == rx.head <= delivered /\ clockedOut <= emitted

(* Nothing was sent yet to a chip that was just reset.                     *)
JustStarted ==
  pc \in Started => IsEmpty(tx) /\ emitted < ACI_QUEUE_SIZE /\ delivered = 0

RingsBounded == Occupancy(tx) <= ACI_QUEUE_SIZE /\ Occupancy(rx) <= ACI_QUEUE_SIZE

(* While no ring is being emptied.                                         *)
InUse == ~raced /\ ~spinning /\ pc \notin Emptying

IsrInv ==
  /\ IsrTypeOK /\ InUse
  /\ CommandsKept /\ EventsKept
  /\ AttachedHasRoom /\ TestsHold /\ RequestedOrAbout /\ HeadBehind /\ RingsBounded
  /\ JustStarted

(* While they are: what was stored stays so, as the ISR has not run.       *)
EmptyingInv ==
  /\ IsrTypeOK /\ ~raced /\ ~spinning
  /\ pc \in Emptying
  /\ pc # "txTail" => tx.tail = 0
  /\ tx.head = 0
  /\ pc \in {"rxHead", "rxTail", "rxData", "reset"} => tx = EmptyQueue
  /\ pc \in {"rxTail", "rxData", "reset"} => rx.head = 0
  /\ pc \in {"rxData", "reset"} => rx.tail = 0
  /\ pc = "reset" => rx = EmptyQueue

USE DEF ACI_QUEUE_SIZE

(* Before the wrap, a full ring is seen as one.                            *)
LEMMA RxFacts ==
  ASSUME BeforeWrap, IsrInv
  PROVE  /\ tx \in Queue /\ rx \in Queue
         /\ Occupancy(tx) \in Nat /\ Occupancy(rx) \in Nat
         /\ clockedIn \in Nat /\ accepted \in Nat /\ delivered \in Nat
         /\ clockedOut \in Nat
         /\ ~IsFull(rx) => Occupancy(rx) < ACI_QUEUE_SIZE
         /\ IsEmpty(rx) <=> Occupancy(rx) = 0
         /\ IsFull(rx) => Occupancy(rx) = ACI_QUEUE_SIZE
<1>1. /\ tx \in Queue /\ rx \in Queue
      /\ clockedIn \in Nat /\ accepted \in Nat /\ delivered \in Nat /\ clockedOut \in Nat
      /\ delivered <= MaxEvents
  BY BoundsAssumption DEF IsrInv, IsrTypeOK, TypeOK
<1>2. rx.head \in Nat /\ rx.head + ACI_QUEUE_SIZE < IndexRange
  BY <1>1, BoundsAssumption, IndexRangeAssumption
     DEF BeforeWrap, IsrInv, HeadBehind, Queue, Index
<1>3. Occupancy(tx) \in Nat /\ Occupancy(rx) \in Nat
  BY <1>1, OccupancyFacts DEF Index
<1>4. QED
  BY <1>1, <1>2, <1>3, OccupancyFacts DEF IsrInv, RingsBounded

LEMMA IsrInvInit == IsrInit => IsrInv
<1> SUFFICES ASSUME IsrInit PROVE IsrInv
  OBVIOUS
<1>1. IInv
  BY IInvInit DEF IsrInit
<1>2. IsEmpty(rx) /\ ~IsFull(rx) /\ Occupancy(tx) = 0 /\ Occupancy(rx) = 0
  BY <1>1, IInvFacts, HoldsEmpty DEF IsrInit, Init
<1>3. rx.head = 0
  BY DEF IsrInit, Init, EmptyQueue
<1>4. QED
  BY <1>1, <1>2, <1>3
     DEF IsrInit, Init, IInv, IsrInv, IsrTypeOK, Steps, InUse, Emptying, Started,
         AttachedHasRoom, TestsHold, RequestedOrAbout, HeadBehind, RingsBounded, JustStarted

(* What initialisation, flush and reset leave of a ring.                   *)
LEMMA EmptyRing ==
  /\ EmptyQueue \in Queue /\ Occupancy(EmptyQueue) = 0 /\ IsEmpty(EmptyQueue)
  /\ ~IsFull(EmptyQueue) /\ EmptyQueue.head = 0
  /\ \A n \in Nat : Holds(EmptyQueue, n, n)
<1>1. EmptyQueue \in Queue /\ Occupancy(EmptyQueue) = 0 /\ IsEmpty(EmptyQueue)
      /\ \A n \in Nat : Holds(EmptyQueue, n, n)
  BY HoldsEmpty
<1>2. ~IsFull(EmptyQueue)
  BY <1>1, OccupancyFacts
<1>3. QED
  BY <1>1, <1>2 DEF EmptyQueue

(* The interrupt: rx has room, as the ISR is attached.                     *)
LEMMA IsrTransfers ==
  ASSUME BeforeWrap, IsrInv, m_aci_isr
  PROVE  IsrInv'
<1>1. /\ tx' = TxAfter /\ rx' = RxAfter
      /\ clockedIn' = IF IsEmpty(tx) THEN clockedIn ELSE Oldest(tx)
      /\ clockedOut' = IF EventPending THEN clockedOut + 1 ELSE clockedOut
      /\ ready' = FALSE
      /\ requested' = (~IsFull(rx) /\ ~IsEmpty(TxAfter))
      /\ spinning' = (EventPending /\ IsFull(rx))
      /\ attached' = ~(EventPending /\ IsFull(RxAfter))
      /\ raced' = (pc \in Emptying)
      /\ UNCHANGED <<emitted, accepted, delivered, pc, wasFull>>
  BY DEF m_aci_isr, m_aci_spi_transfer, Detaches
<1>2. attached /\ ~IsFull(rx)
  BY DEF m_aci_isr, IsrInv, AttachedHasRoom
<1>3. Occupancy(rx) < ACI_QUEUE_SIZE
  BY <1>2, RxFacts
<1>4. /\ tx' \in Queue /\ Occupancy(tx') \in Nat /\ Occupancy(tx') <= Occupancy(tx)
      /\ Holds(tx', clockedIn', accepted) /\ clockedIn' \in Nat
  <2>1. CASE IsEmpty(tx)
    BY <1>1, <2>1, RxFacts DEF TxAfter, Dequeued, IsrInv, CommandsKept
  <2>2. CASE ~IsEmpty(tx)
    <3>1. /\ tx' \in Queue
          /\ Occupancy(tx') = Occupancy(tx) - 1 /\ Occupancy(tx) > 0
          /\ clockedIn' = clockedIn + 1
          /\ Holds(tx', clockedIn + 1, accepted)
      BY <1>1, <2>2, RxFacts, HoldsDequeued DEF TxAfter, IsrInv, CommandsKept
    <3>2. QED
      BY <3>1, RxFacts
  <2>3. QED
    BY <2>1, <2>2
<1>5. clockedIn' \in 0 .. MaxCommands
  BY <1>4, BoundsAssumption DEF Holds, IsrInv, IsrTypeOK, TypeOK
<1>6. /\ rx' \in Queue /\ rx'.head = rx.head
      /\ Occupancy(rx') \in Nat /\ Occupancy(rx') <= ACI_QUEUE_SIZE
      /\ Occupancy(rx') >= Occupancy(rx)
      /\ Holds(rx', delivered, clockedOut')
      /\ clockedOut' \in 0 .. MaxEvents /\ clockedOut' <= emitted
  <2>1. CASE ~EventPending
    BY <1>1, <1>3, <2>1, RxFacts DEF RxAfter, IsrInv, IsrTypeOK, TypeOK, EventsKept, HeadBehind
  <2>2. CASE EventPending
    <3>1. clockedOut + 1 <= emitted /\ clockedOut + 1 \in 1 .. MaxEvents
      BY <2>2, RxFacts, BoundsAssumption DEF EventPending, IsrInv, IsrTypeOK, TypeOK
    <3>2. clockedOut + 1 \in Msg
      BY <3>1, MsgAssumption
    <3>3. /\ RxAfter \in Queue /\ Occupancy(RxAfter) = Occupancy(rx) + 1
          /\ Holds(RxAfter, delivered, clockedOut + 1)
      BY <1>3, <2>2, <3>2, RxFacts, HoldsEnqueued DEF RxAfter, IsrInv, EventsKept
    <3>4. RxAfter.head = rx.head
      BY <2>2, RxFacts DEF RxAfter, Enqueued, Queue
    <3>5. QED
      BY <1>1, <1>3, <2>2, <3>1, <3>3, <3>4, RxFacts
  <2>3. QED
    BY <2>1, <2>2
<1>7. InUse' /\ spinning' = FALSE /\ raced' = FALSE
  <2>1. pc \notin Emptying /\ pc' = pc
    BY <1>1 DEF IsrInv, InUse
  <2>2. spinning' = FALSE
    <3>1. spinning' = (EventPending /\ IsFull(rx))
      BY DEF m_aci_isr
    <3>2. ~(EventPending /\ IsFull(rx))
      BY <1>2
    <3>3. QED
      BY <3>1, <3>2, Zenon
  <2>3. raced' = FALSE
    <3>1. raced' = (pc \in Emptying)
      BY DEF m_aci_isr
    <3>2. (pc \in Emptying) = FALSE
      BY <2>1
    <3>3. QED
      BY <3>1, <3>2
  <2>4. QED
    BY <2>1, <2>2, <2>3 DEF InUse
<1>8. IsrTypeOK'
  BY <1>1, <1>4, <1>5, <1>6, <1>7 DEF IsrInv, IsrTypeOK, TypeOK
<1>9. AttachedHasRoom'
  <2>1. attached' => ~IsFull(rx')
    BY <1>1, <1>2 DEF RxAfter
  <2>2. pc \in {"dequeue", "copy", "attach"} => ~wasFull
    BY <1>2 DEF IsrInv, AttachedHasRoom
  <2>3. QED
    BY <1>1, <2>1, <2>2 DEF AttachedHasRoom
<1>10. TestsHold'
  <2>1. pc = "copy" => Occupancy(rx') # 0
    BY <1>6, RxFacts DEF IsrInv, TestsHold
  <2>2. IsEmpty(rx') <=> Occupancy(rx') = 0
    BY <1>6, OccupancyFacts
  <2>3. QED
    BY <1>1, <1>4, <2>1, <2>2, RxFacts DEF IsrInv, TestsHold
<1>11. RequestedOrAbout'
  BY <1>1, <1>2 DEF RequestedOrAbout, WaitingIsRequested
<1>12. CommandsKept' /\ EventsKept'
  BY <1>1, <1>4, <1>6 DEF CommandsKept, EventsKept, Holds
<1>13. HeadBehind' /\ RingsBounded'
  BY <1>1, <1>4, <1>6, RxFacts DEF IsrInv, HeadBehind, RingsBounded
<1>14. JustStarted'
  <2>1. pc \in Started => tx' = tx
    BY <1>1 DEF IsrInv, JustStarted, TxAfter, Dequeued
  <2>2. QED
    BY <1>1, <2>1 DEF IsrInv, JustStarted, IsEmpty
<1>15. QED
  BY <1>7, <1>8, <1>9, <1>10, <1>11, <1>12, <1>13, <1>14 DEF IsrInv

(* Steps of the main program that leave rings, lines and counters alone.   *)
LEMMA IsrQuietSteps ==
  ASSUME BeforeWrap, IsrInv,
         \/ GetSample \/ GetIsEmpty \/ GetAttach \/ GetRequest
         \/ SendIsFull \/ SendTestRoom
  PROVE  IsrInv'
<1>1. UNCHANGED vars /\ UNCHANGED <<spinning, raced>>
      /\ pc' \in {"idle", "dequeue", "copy", "request", "lower", "enqueue"}
  BY DEF GetSample, GetIsEmpty, GetAttach, GetRequest, SendIsFull, SendTestRoom, GoTo
<1>2. /\ TypeOK' /\ InUse' /\ CommandsKept' /\ EventsKept' /\ HeadBehind' /\ RingsBounded'
      /\ JustStarted'
  BY <1>1 DEF vars, IsrInv, IsrTypeOK, TypeOK, InUse, Emptying, Started, CommandsKept,
              EventsKept, Holds, HeadBehind, RingsBounded, JustStarted
<1>3. CASE GetSample
  <2>1. wasFull' = IsFull(rx) /\ pc' = "dequeue" /\ UNCHANGED attached /\ pc = "idle"
    BY <1>3 DEF GetSample, At, GoTo, BeforeWrap
  <2>2. IsrTypeOK'
    BY <1>1, <1>2, <2>1 DEF IsrInv, IsrTypeOK, Steps, IsFull
  <2>3. AttachedHasRoom' /\ TestsHold' /\ RequestedOrAbout'
    BY <1>1, <2>1 DEF vars, IsrInv, AttachedHasRoom, TestsHold, RequestedOrAbout,
                      WaitingIsRequested
  <2>4. QED
    BY <1>2, <2>2, <2>3 DEF IsrInv
<1>4. CASE GetIsEmpty
  <2>1. /\ pc' = (IF IsEmpty(rx) THEN "idle" ELSE "copy") /\ UNCHANGED <<wasFull, attached>>
        /\ pc = "dequeue"
    BY <1>4 DEF GetIsEmpty, At, GoTo
  <2>2. IsrTypeOK'
    BY <1>1, <1>2, <2>1 DEF IsrInv, IsrTypeOK, Steps
  <2>3. AttachedHasRoom' /\ TestsHold' /\ RequestedOrAbout'
    BY <1>1, <2>1 DEF vars, IsrInv, AttachedHasRoom, TestsHold, RequestedOrAbout,
                      WaitingIsRequested
  <2>4. QED
    BY <1>2, <2>2, <2>3 DEF IsrInv
<1>5. CASE GetAttach
  <2>1. /\ attached' = (attached \/ wasFull) /\ pc' = "request" /\ UNCHANGED wasFull
        /\ pc = "attach"
    BY <1>5 DEF GetAttach, At, GoTo
  <2>2. IsrTypeOK'
    BY <1>1, <1>2, <2>1 DEF IsrInv, IsrTypeOK, Steps
  <2>3. AttachedHasRoom' /\ TestsHold' /\ RequestedOrAbout'
    BY <1>1, <2>1 DEF vars, IsrInv, AttachedHasRoom, TestsHold, RequestedOrAbout
  <2>4. QED
    BY <1>2, <2>2, <2>3 DEF IsrInv
<1>6. CASE GetRequest
  <2>1. /\ pc' = (IF ~IsFull(rx) /\ ~IsEmpty(tx) THEN "lower" ELSE "idle")
        /\ UNCHANGED <<wasFull, attached>>
    BY <1>6 DEF GetRequest, GoTo
  <2>2. IsrTypeOK'
    BY <1>1, <1>2, <2>1 DEF IsrInv, IsrTypeOK, Steps
  <2>3. AttachedHasRoom' /\ TestsHold' /\ RequestedOrAbout'
    BY <1>1, <2>1 DEF vars, IsrInv, AttachedHasRoom, TestsHold, RequestedOrAbout,
                      WaitingIsRequested
  <2>4. QED
    BY <1>2, <2>2, <2>3 DEF IsrInv
<1>7. CASE SendIsFull
  <2>1. /\ pc' = (IF IsFull(tx) THEN "idle" ELSE "enqueue") /\ UNCHANGED <<wasFull, attached>>
        /\ pc = "idle" /\ accepted < MaxCommands /\ FullIsDetectable(tx)
    BY <1>7 DEF SendIsFull, At, GoTo
  <2>2. ~IsFull(tx) => Occupancy(tx) < ACI_QUEUE_SIZE
    BY <2>1, RxFacts, OccupancyFacts DEF FullIsDetectable, IsrInv, RingsBounded
  <2>3. IsrTypeOK'
    BY <1>1, <1>2, <2>1 DEF IsrInv, IsrTypeOK, Steps
  <2>4. AttachedHasRoom' /\ TestsHold' /\ RequestedOrAbout'
    BY <1>1, <2>1, <2>2 DEF vars, IsrInv, AttachedHasRoom, TestsHold, RequestedOrAbout,
                            WaitingIsRequested
  <2>5. QED
    BY <1>2, <2>3, <2>4 DEF IsrInv
<1>8. CASE SendTestRoom
  <2>1. /\ pc' = (IF IsFull(rx) THEN "idle" ELSE "lower") /\ UNCHANGED <<wasFull, attached>>
    BY <1>8 DEF SendTestRoom, GoTo
  <2>2. IsrTypeOK'
    BY <1>1, <1>2, <2>1 DEF IsrInv, IsrTypeOK, Steps
  <2>3. AttachedHasRoom' /\ TestsHold' /\ RequestedOrAbout'
    BY <1>1, <2>1 DEF vars, IsrInv, AttachedHasRoom, TestsHold, RequestedOrAbout,
                      WaitingIsRequested
  <2>4. QED
    BY <1>2, <2>2, <2>3 DEF IsrInv
<1>9. QED
  BY <1>3, <1>4, <1>5, <1>6, <1>7, <1>8

LEMMA IsrLowersREQN ==
  ASSUME IsrInv, LowerREQN
  PROVE  IsrInv'
<1>1. /\ requested' = TRUE /\ pc' = "idle"
      /\ UNCHANGED <<tx, rx, accepted, delivered, ready, clockedIn, emitted, clockedOut,
                     wasFull, attached, spinning, raced>>
  BY DEF LowerREQN, GoTo, wires
<1>2. QED
  BY <1>1 DEF IsrInv, IsrTypeOK, TypeOK, Steps, InUse, Emptying, Started, CommandsKept,
              EventsKept, Holds, AttachedHasRoom, TestsHold, RequestedOrAbout,
              WaitingIsRequested, HeadBehind, RingsBounded, JustStarted

(* The main program takes the oldest event; the ISR only added to them.    *)
LEMMA IsrCopies ==
  ASSUME BeforeWrap, IsrInv, GetCopy
  PROVE  IsrInv'
<1>1. /\ rx' = Dequeued(rx) /\ delivered' = Oldest(rx)
      /\ pc = "copy" /\ pc' = "attach"
      /\ UNCHANGED <<tx, requested, accepted, ready, clockedIn, emitted, clockedOut,
                     wasFull, attached, spinning, raced>>
  BY DEF GetCopy, At, GoTo, wires
<1>2. ~IsEmpty(rx)
  BY <1>1 DEF IsrInv, TestsHold
<1>3. /\ rx' \in Queue /\ Occupancy(rx') = Occupancy(rx) - 1 /\ Occupancy(rx) > 0
      /\ delivered' = delivered + 1 /\ Holds(rx', delivered + 1, clockedOut)
  BY <1>1, <1>2, RxFacts, HoldsDequeued DEF IsrInv, EventsKept
<1>4. ~IsFull(rx') /\ Occupancy(rx') < ACI_QUEUE_SIZE
  BY <1>3, RxFacts, OccupancyFacts DEF IsrInv, RingsBounded
<1>5. delivered' \in 0 .. MaxEvents
  BY <1>3, RxFacts, BoundsAssumption DEF IsrInv, IsrTypeOK, TypeOK, EventsKept, Holds
<1>6. rx'.head <= rx.head + 1
  BY <1>1, RxFacts, IndexRangeAssumption DEF Dequeued, Successor, Queue, Index
<1>7. IsrTypeOK' /\ InUse' /\ JustStarted'
  BY <1>1, <1>3, <1>5
     DEF IsrInv, IsrTypeOK, TypeOK, Steps, InUse, Emptying, Started, JustStarted
<1>8. CommandsKept' /\ EventsKept'
  BY <1>1, <1>3 DEF IsrInv, CommandsKept, EventsKept, Holds
<1>9. AttachedHasRoom' /\ TestsHold' /\ RequestedOrAbout'
  BY <1>1, <1>4 DEF IsrInv, AttachedHasRoom, TestsHold, RequestedOrAbout
<1>10. HeadBehind' /\ RingsBounded'
  <2>1. rx.head \in Nat /\ rx'.head \in Nat
    BY <1>3, RxFacts, IndexRangeAssumption DEF Queue, Index
  <2>2. QED
    BY <1>1, <1>3, <1>4, <1>6, <2>1, RxFacts DEF IsrInv, HeadBehind, RingsBounded
<1>11. QED
  BY <1>7, <1>8, <1>9, <1>10 DEF IsrInv

(* A command goes into the ring that was found to have room; the ISR only  *)
(* took from it.                                                           *)
LEMMA IsrEnqueues ==
  ASSUME BeforeWrap, IsrInv, SendEnqueue
  PROVE  IsrInv'
<1>1. /\ tx' = Enqueued(tx, accepted + 1) /\ accepted' = accepted + 1
      /\ pc = "enqueue" /\ pc' = "testRoom"
      /\ UNCHANGED <<rx, requested, delivered, ready, clockedIn, emitted, clockedOut,
                     wasFull, attached, spinning, raced>>
  BY DEF SendEnqueue, At, GoTo, wires
<1>2. Occupancy(tx) < ACI_QUEUE_SIZE /\ accepted + 1 \in 1 .. MaxCommands
  BY <1>1, RxFacts, BoundsAssumption DEF IsrInv, TestsHold
<1>3. accepted + 1 \in Msg
  BY <1>2, MsgAssumption
<1>4. /\ tx' \in Queue /\ Occupancy(tx') = Occupancy(tx) + 1
      /\ Holds(tx', clockedIn, accepted + 1)
  BY <1>1, <1>2, <1>3, RxFacts, HoldsEnqueued DEF IsrInv, CommandsKept
<1>5. IsrTypeOK' /\ InUse' /\ JustStarted'
  BY <1>1, <1>2, <1>4
     DEF IsrInv, IsrTypeOK, TypeOK, Steps, InUse, Emptying, Started, JustStarted
<1>6. CommandsKept' /\ EventsKept'
  BY <1>1, <1>4 DEF IsrInv, CommandsKept, EventsKept, Holds
<1>7. AttachedHasRoom' /\ TestsHold' /\ RequestedOrAbout'
  BY <1>1 DEF IsrInv, AttachedHasRoom, TestsHold, RequestedOrAbout
<1>8. HeadBehind' /\ RingsBounded'
  BY <1>1, <1>2, <1>4, RxFacts DEF IsrInv, HeadBehind, RingsBounded
<1>9. QED
  BY <1>5, <1>6, <1>7, <1>8 DEF IsrInv

(* Interrupts are off while the rings are flushed.                         *)
LEMMA IsrFlushes ==
  ASSUME BeforeWrap, IsrInv, Flush
  PROVE  IsrInv'
<1>1. /\ pc = "idle"
      /\ UNCHANGED <<pc, wasFull, spinning, raced, attached, requested, ready, emitted,
                     clockedIn, clockedOut>>
      /\ tx' = EmptyQueue /\ rx' = EmptyQueue
      /\ accepted' = clockedIn /\ delivered' = clockedOut
  BY DEF Flush, At, hal_aci_tl_q_flush, wires
<1>2. /\ clockedIn \in Nat /\ clockedOut \in Nat /\ clockedOut <= emitted
      /\ clockedIn \in 0 .. MaxCommands /\ clockedOut \in 0 .. MaxEvents
  BY RxFacts, BoundsAssumption DEF IsrInv, IsrTypeOK, TypeOK, HeadBehind
<1>3. /\ EmptyQueue \in Queue /\ Occupancy(EmptyQueue) = 0 /\ IsEmpty(EmptyQueue)
      /\ ~IsFull(EmptyQueue) /\ EmptyQueue.head = 0
      /\ Holds(EmptyQueue, clockedIn, clockedIn) /\ Holds(EmptyQueue, clockedOut, clockedOut)
  BY <1>2, EmptyRing
<1>4. IsrTypeOK' /\ InUse' /\ JustStarted'
  BY <1>1, <1>2, <1>3
     DEF IsrInv, IsrTypeOK, TypeOK, InUse, Emptying, Started, JustStarted
<1>5. CommandsKept' /\ EventsKept'
  BY <1>1, <1>2, <1>3 DEF CommandsKept, EventsKept
<1>6. AttachedHasRoom' /\ TestsHold' /\ RequestedOrAbout'
  BY <1>1, <1>3 DEF AttachedHasRoom, TestsHold, RequestedOrAbout, WaitingIsRequested
<1>7. HeadBehind' /\ RingsBounded'
  BY <1>1, <1>2, <1>3 DEF HeadBehind, RingsBounded
<1>8. QED
  BY <1>4, <1>5, <1>6, <1>7 DEF IsrInv

(* The rings are emptied, one store after the other.                       *)
LEMMA StoresEmpty ==
  ASSUME IsrInv \/ EmptyingInv, EmptyRings
  PROVE  EmptyingInv'
<1>1. /\ tx \in Queue /\ rx \in Queue /\ 0 \in Index
      /\ EmptyQueue \in Queue /\ EmptyQueue.head = 0 /\ EmptyQueue.tail = 0
  BY HoldsEmpty, IndexRangeAssumption DEF IsrInv, EmptyingInv, IsrTypeOK, TypeOK, EmptyQueue, Index
<1>2. \A q \in Queue :
        /\ [q EXCEPT !.head = 0] \in Queue /\ [q EXCEPT !.head = 0].head = 0
        /\ [q EXCEPT !.head = 0].tail = q.tail
        /\ [q EXCEPT !.tail = 0] \in Queue /\ [q EXCEPT !.tail = 0].tail = 0
        /\ [q EXCEPT !.tail = 0].head = q.head
        /\ q.head = 0 /\ q.tail = 0 => [q EXCEPT !.data = EmptyQueue.data] = EmptyQueue
  BY <1>1 DEF Queue, EmptyQueue
<1>3. /\ UNCHANGED <<requested, accepted, delivered, ready, clockedIn, emitted, clockedOut,
                     wasFull, attached, spinning, raced>>
      /\ ~spinning /\ ~raced
  BY DEF EmptyRings, Store, wires, IsrInv, EmptyingInv, InUse
<1>4. CASE Store("idle", "txTail", [tx EXCEPT !.head = 0], rx)
  <2>1. tx' \in Queue /\ rx' \in Queue /\ pc' = "txTail" /\ tx'.head = 0
    BY <1>1, <1>2, <1>4 DEF Store, GoTo
  <2>2. QED
    BY <1>3, <2>1 DEF EmptyingInv, IsrInv, IsrTypeOK, TypeOK, Steps, Emptying
<1>5. CASE ~Store("idle", "txTail", [tx EXCEPT !.head = 0], rx)
  <2>1. EmptyingInv
    BY <1>5 DEF EmptyRings, Store, At, IsrInv, InUse, Emptying
  <2>2. tx' \in Queue /\ rx' \in Queue /\ pc' \in Emptying \ {"txTail"}
    BY <1>1, <1>2, <1>5, <2>1 DEF EmptyRings, Store, At, GoTo, EmptyingInv, Emptying
  <2>3. tx'.tail = 0 /\ tx'.head = 0
    BY <1>1, <1>2, <1>5, <2>1 DEF EmptyRings, Store, At, GoTo, EmptyingInv
  <2>4. pc' \in {"rxHead", "rxTail", "rxData", "reset"} => tx' = EmptyQueue
    <3>1. CASE pc \in {"rxHead", "rxTail", "rxData"}
      <4>1. tx = EmptyQueue
        BY <2>1, <3>1 DEF EmptyingInv
      <4>2. tx' = tx
        BY <1>5, <3>1 DEF EmptyRings, Store, At
      <4>3. QED
        BY <4>1, <4>2
    <3>2. CASE pc = "txData"
      <4>1. tx' = [tx EXCEPT !.data = EmptyQueue.data]
        BY <1>5, <3>2 DEF EmptyRings, Store, At
      <4>2. tx.head = 0 /\ tx.tail = 0
        BY <2>1, <3>2 DEF EmptyingInv
      <4>3. QED
        BY <1>1, <1>2, <4>1, <4>2
    <3>3. CASE pc \notin {"rxHead", "rxTail", "rxData", "txData"}
      BY <1>5, <3>3 DEF EmptyRings, Store, At, GoTo
    <3>4. QED
      BY <3>1, <3>2, <3>3
  <2>5. /\ pc' \in {"rxTail", "rxData", "reset"} => rx'.head = 0
        /\ pc' \in {"rxData", "reset"} => rx'.tail = 0
    BY <1>1, <1>2, <1>5, <2>1 DEF EmptyRings, Store, At, GoTo, EmptyingInv
  <2>6. pc' = "reset" => rx' = EmptyQueue
    BY <1>1, <1>2, <1>5, <2>1 DEF EmptyRings, Store, At, GoTo, EmptyingInv
  <2>7. IsrTypeOK'
    BY <1>3, <2>1, <2>2 DEF EmptyingInv, IsrTypeOK, TypeOK, Steps
  <2>8. QED
    BY <1>3, <2>2, <2>3, <2>4, <2>5, <2>6, <2>7 DEF EmptyingInv
<1>6. QED
  BY <1>4, <1>5

(* The chip starts anew beside two empty rings.                            *)
LEMMA IsrResets ==
  ASSUME EmptyingInv, ResetChip
  PROVE  IsrInv'
<1>1. /\ tx' = EmptyQueue /\ rx' = EmptyQueue /\ pc' = "release" /\ ready' = FALSE
      /\ accepted' = 0 /\ clockedIn' = 0 /\ emitted' = 0 /\ clockedOut' = 0 /\ delivered' = 0
      /\ UNCHANGED <<requested, wasFull, attached, spinning, raced>>
  BY DEF ResetChip, At, GoTo, EmptyingInv
<1>2. /\ EmptyQueue \in Queue /\ Occupancy(EmptyQueue) = 0 /\ IsEmpty(EmptyQueue)
      /\ ~IsFull(EmptyQueue) /\ EmptyQueue.head = 0 /\ Holds(EmptyQueue, 0, 0)
  BY EmptyRing
<1>3. IsrTypeOK' /\ InUse'
  <2>1. 0 \in 0 .. MaxCommands /\ 0 \in 0 .. MaxEvents
    BY BoundsAssumption
  <2>2. TypeOK'
    BY <1>1, <1>2, <2>1 DEF EmptyingInv, IsrTypeOK, TypeOK
  <2>3. /\ pc' \in Steps /\ pc' \notin Emptying
        /\ ~raced' /\ ~spinning'
        /\ wasFull' \in BOOLEAN /\ attached' \in BOOLEAN
        /\ spinning' \in BOOLEAN /\ raced' \in BOOLEAN
    BY <1>1 DEF EmptyingInv, IsrTypeOK, Steps, Started, Emptying
  <2>4. QED
    BY <2>2, <2>3 DEF IsrTypeOK, InUse
<1>4. CommandsKept' /\ EventsKept'
  BY <1>1, <1>2 DEF CommandsKept, EventsKept
<1>5. AttachedHasRoom' /\ TestsHold' /\ RequestedOrAbout'
  BY <1>1, <1>2 DEF AttachedHasRoom, TestsHold, RequestedOrAbout, WaitingIsRequested
<1>6. HeadBehind' /\ RingsBounded' /\ JustStarted'
  BY <1>1, <1>2 DEF HeadBehind, RingsBounded, JustStarted
<1>7. QED
  BY <1>3, <1>4, <1>5, <1>6 DEF IsrInv

(* REQN is let go while nothing waits, and the ISR attached while rx has   *)
(* room, as the chip had little to tell.                                   *)
LEMMA IsrStarts ==
  ASSUME BeforeWrap, IsrInv, ReleaseREQN \/ AttachAgain
  PROVE  IsrInv'
<1>1. IsEmpty(tx) /\ emitted < ACI_QUEUE_SIZE /\ delivered = 0
  BY DEF IsrInv, JustStarted, Started, ReleaseREQN, AttachAgain, At
<1>2. clockedOut = Occupancy(rx) /\ Occupancy(rx) < ACI_QUEUE_SIZE
  BY <1>1, RxFacts DEF IsrInv, IsrTypeOK, TypeOK, EventsKept, Holds, HeadBehind
<1>3. ~IsFull(rx)
  BY <1>2, RxFacts
<1>4. /\ UNCHANGED <<tx, rx, accepted, delivered, ready, clockedIn, emitted, clockedOut,
                     wasFull, spinning, raced>>
      /\ requested' \in BOOLEAN /\ attached' \in BOOLEAN
      /\ pc' \in {"reattach", "idle"}
  BY DEF ReleaseREQN, AttachAgain, GoTo, vars, wires, IsrInv, IsrTypeOK, TypeOK
<1>5. IsrTypeOK' /\ InUse' /\ JustStarted'
  BY <1>1, <1>4 DEF IsrInv, IsrTypeOK, TypeOK, Steps, Started, InUse, Emptying, JustStarted
<1>6. CommandsKept' /\ EventsKept' /\ HeadBehind' /\ RingsBounded'
  BY <1>4 DEF IsrInv, CommandsKept, EventsKept, Holds, HeadBehind, RingsBounded
<1>7. AttachedHasRoom' /\ TestsHold' /\ RequestedOrAbout'
  BY <1>1, <1>3, <1>4 DEF AttachedHasRoom, TestsHold, RequestedOrAbout, WaitingIsRequested
<1>8. QED
  BY <1>5, <1>6, <1>7 DEF IsrInv

LEMMA IsrChip ==
  ASSUME BeforeWrap, IsrInv, ChipStep
  PROVE  IsrInv'
<1>1. /\ UNCHANGED <<tx, rx, requested, accepted, delivered, clockedIn, clockedOut,
                     pc, wasFull, attached, spinning, raced>>
      /\ ready' \in BOOLEAN
      /\ emitted' \in 0 .. MaxEvents /\ emitted' >= emitted
      /\ pc \in Started => emitted' < ACI_QUEUE_SIZE
  <2>1. ready \in BOOLEAN /\ emitted \in 0 .. MaxEvents
    BY DEF IsrInv, IsrTypeOK, TypeOK
  <2>2. CASE ChipEmits
    BY <2>1, <2>2, BoundsAssumption DEF ChipStep, ChipEmits, hostVars
  <2>3. CASE ChipLowersRDYN
    BY <2>1, <2>3, BoundsAssumption DEF ChipStep, ChipLowersRDYN, hostVars
  <2>4. QED
    BY <2>2, <2>3 DEF ChipStep, Chip
<1>2. HeadBehind'
  BY <1>1, RxFacts DEF IsrInv, IsrTypeOK, TypeOK, HeadBehind
<1>3. QED
  BY <1>1, <1>2
     DEF IsrInv, IsrTypeOK, TypeOK, InUse, CommandsKept, EventsKept, Holds,
         AttachedHasRoom, TestsHold, RequestedOrAbout, WaitingIsRequested, RingsBounded,
         JustStarted

LEMMA EmptyingChip ==
  ASSUME EmptyingInv, ChipStep
  PROVE  EmptyingInv'
<1>1. ready \in BOOLEAN /\ emitted \in 0 .. MaxEvents
  BY DEF EmptyingInv, IsrTypeOK, TypeOK
<1>2. /\ UNCHANGED <<tx, rx, requested, accepted, delivered, clockedIn, clockedOut,
                     pc, wasFull, attached, spinning, raced>>
      /\ ready' \in BOOLEAN /\ emitted' \in 0 .. MaxEvents
  <2>1. CASE ChipEmits
    BY <1>1, <2>1, BoundsAssumption DEF ChipStep, ChipEmits, hostVars
  <2>2. CASE ChipLowersRDYN
    BY <1>1, <2>2, BoundsAssumption DEF ChipStep, ChipLowersRDYN, hostVars
  <2>3. QED
    BY <2>1, <2>2 DEF ChipStep, Chip
<1>3. QED
  BY <1>2 DEF EmptyingInv, IsrTypeOK, TypeOK

IsrAll == raced \/ IsrInv \/ EmptyingInv

LEMMA IsrStep ==
  ASSUME BeforeWrap, IsrAll, [IsrNext]_isrVars
  PROVE  IsrAll'
<1>1. CASE UNCHANGED isrVars
  BY <1>1 DEF isrVars, vars, IsrAll, IsrInv, EmptyingInv, IsrTypeOK, TypeOK, InUse,
              CommandsKept, EventsKept, Holds, AttachedHasRoom, TestsHold,
              RequestedOrAbout, WaitingIsRequested, HeadBehind, RingsBounded, JustStarted
<1>2. CASE ~UNCHANGED isrVars
  <2>1. ~raced /\ (m_aci_isr \/ Main \/ ChipStep)
    BY <1>2 DEF IsrNext, Raced
  <2>2. CASE IsrInv
    BY <2>1, <2>2, IsrTransfers, IsrQuietSteps, IsrLowersREQN, IsrCopies, IsrEnqueues,
       IsrFlushes, StoresEmpty, IsrStarts, IsrChip
       DEF IsrAll, Main, Get, Restart, ResetChip, At, IsrInv, InUse, Emptying
  <2>3. CASE EmptyingInv
    <3>1. CASE m_aci_isr
      BY <2>3, <3>1 DEF m_aci_isr, EmptyingInv, IsrAll
    <3>2. CASE Main
      <4>1. EmptyRings \/ ResetChip
        BY <2>3, <3>2 DEF Main, Get, GetSample, GetIsEmpty, GetCopy, GetAttach, GetRequest,
           LowerREQN, SendIsFull, SendEnqueue, SendTestRoom, Flush, Restart, ReleaseREQN,
           AttachAgain, At, EmptyingInv, Emptying
      <4>2. QED
        BY <2>3, <4>1, StoresEmpty, IsrResets DEF IsrAll
    <3>3. CASE ChipStep
      BY <2>3, <3>3, EmptyingChip DEF IsrAll
    <3>4. QED
      BY <2>1, <3>1, <3>2, <3>3
  <2>4. QED
    BY <2>1, <2>2, <2>3 DEF IsrAll
<1>3. QED
  BY <1>1, <1>2

LEMMA IsrInvAlways == BeforeWrap => (IsrSpec => []IsrAll)
<1> SUFFICES ASSUME BeforeWrap PROVE IsrSpec => []IsrAll
  OBVIOUS
<1>1. IsrInit => IsrAll
  BY IsrInvInit DEF IsrAll
<1>2. IsrAll /\ [IsrNext]_isrVars => IsrAll'
  BY IsrStep
<1>3. QED
  BY <1>1, <1>2, PTL DEF IsrSpec

------------------------------------------------------------------------------
(* The ISR never finds rx full with an event to store, wherever it         *)
(* interrupts the main program: but in a repeated hal_aci_tl_init that     *)
(* empties the rings, and after that.                                      *)
THEOREM NeverSpinsDebug == ASSUME BeforeWrap PROVE IsrSpec => []NeverSpins
<1>1. IsrAll => NeverSpins
  BY DEF IsrAll, IsrInv, EmptyingInv, InUse, NeverSpins
<1>2. QED
  BY <1>1, IsrInvAlways, BeforeWrap, PTL

(* No packet is lost, repeated or overtaken in either direction, through   *)
(* flushes and repeated initialisations too, as long as the ISR does not   *)
(* run while one of these empties the rings.                               *)
THEOREM PacketsKeptInterrupted == ASSUME BeforeWrap PROVE IsrSpec => []PacketsKeptByIsr
<1>1. IsrAll => PacketsKeptByIsr
  BY DEF IsrAll, IsrInv, EmptyingInv, PacketsKeptByIsr, PacketsInOrder
<1>2. QED
  BY <1>1, IsrInvAlways, BeforeWrap, PTL

(* Between two calls no command waits without a request for the transfer,  *)
(* unless the ISR once ran while the rings were emptied.                   *)
THEOREM RequestedBetweenCalls == ASSUME BeforeWrap PROVE IsrSpec => []IdleIsRequested
<1>1. IsrAll => IdleIsRequested
  BY DEF IsrAll, IsrInv, EmptyingInv, Emptying, RequestedOrAbout, IdleIsRequested
<1>2. QED
  BY <1>1, IsrInvAlways, BeforeWrap, PTL
==============================================================================
