--------------------------- MODULE AciTransportIsr ---------------------------
(***************************************************************************)
(* utility/hal_aci_tl.cpp compiled with HAL_ACI_TL_INTERRUPT, on a board   *)
(* whose pins say interface_is_interrupt.                                  *)
(*                                                                         *)
(* The transfers run in m_aci_isr, which the low level of RDYN triggers    *)
(* while it is attached.  It interrupts the main program anywhere outside  *)
(* the noInterrupts sections of aci_queue.cpp, so hal_aci_tl_event_get and *)
(* hal_aci_tl_send are cut into one step per such section here, and        *)
(* hal_aci_tl_init, which empties the rings with interrupts on, into its   *)
(* stores; the ISR itself runs to its end.  Chip, rings and numbering are  *)
(* AciTransport's.                                                         *)
(***************************************************************************)
EXTENDS AciTransport

CONSTANTS Debug,   (* the build also defines HAL_ACI_TL_DEBUG              *)
          Flushes  (* the program calls hal_aci_tl_q_flush                 *)

ASSUME BuildAssumption == Debug \in BOOLEAN /\ Flushes \in BOOLEAN

VARIABLES pc,        (* where the main program stands                      *)
          wasFull,   (* the local was_full of hal_aci_tl_event_get         *)
          attached,  (* the ISR is attached to RDYN                        *)
          spinning,  (* m_aci_isr is in its while(1)                       *)
          raced      (* it ran while hal_aci_tl_init emptied the rings     *)

isrVars == <<vars, pc, wasFull, attached, spinning, raced>>

Emptying == {"txTail", "txData", "rxHead", "rxTail", "rxData", "reset"}
Started == {"release", "reattach"}
Steps == {"idle", "dequeue", "copy", "attach", "request", "enqueue",
          "testRoom", "lower"} \cup Emptying \cup Started

(* hal_aci_tl_init has returned for the first time.                        *)
IsrInit ==
  /\ Init
  /\ pc = "idle" /\ wasFull = FALSE /\ attached = TRUE
  /\ spinning = FALSE /\ raced = FALSE

At(from) == ~spinning /\ pc = from
GoTo(to) == pc' = to

------------------------------------------------------------------------------
(* m_aci_isr: one transfer; REQN is pulled low again if a command is left  *)
(* and rx has room before the event just fetched is stored; the interrupt  *)
(* is detached when that event fills rx.                                   *)
DetachesNever == FALSE
Detaches == EventPending /\ IsFull(RxAfter)

m_aci_isr ==
  /\ attached /\ ready /\ ~spinning
  /\ m_aci_spi_transfer
  /\ tx' = TxAfter /\ rx' = RxAfter
  /\ requested' = (~IsFull(rx) /\ ~IsEmpty(TxAfter))
  /\ spinning' = (EventPending /\ IsFull(rx))
  /\ attached' = ~Detaches
  /\ raced' = (pc \in Emptying)
  /\ UNCHANGED <<accepted, delivered, pc, wasFull>>

------------------------------------------------------------------------------
(* hal_aci_tl_event_get.  Only a HAL_ACI_TL_DEBUG build stores what it     *)
(* sampled in was_full; any other build reads it uninitialised.            *)
GetSample ==
  /\ At("idle")
  /\ wasFull' \in (IF Debug THEN {IsFull(rx)} ELSE BOOLEAN)
  /\ GoTo("dequeue")
  /\ UNCHANGED <<vars, attached, spinning, raced>>

GetIsEmpty ==
  /\ At("dequeue")
  /\ GoTo(IF IsEmpty(rx) THEN "idle" ELSE "copy")
  /\ UNCHANGED <<vars, wasFull, attached, spinning, raced>>

GetCopy ==
  /\ At("copy")
  /\ rx' = Dequeued(rx)
  /\ delivered' = Oldest(rx)
  /\ GoTo("attach")
  /\ UNCHANGED <<tx, requested, accepted, wires, wasFull, attached, spinning, raced>>

GetAttach ==
  /\ At("attach")
  /\ attached' = (attached \/ wasFull)
  /\ GoTo("request")
  /\ UNCHANGED <<vars, wasFull, spinning, raced>>

GetRequest ==
  /\ At("request")
  /\ GoTo(IF ~IsFull(rx) /\ ~IsEmpty(tx) THEN "lower" ELSE "idle")
  /\ UNCHANGED <<vars, wasFull, attached, spinning, raced>>

LowerREQN ==
  /\ At("lower")
  /\ requested' = TRUE
  /\ GoTo("idle")
  /\ UNCHANGED <<tx, rx, accepted, delivered, wires, wasFull, attached, spinning, raced>>

------------------------------------------------------------------------------
(* hal_aci_tl_send.                                                        *)
SendIsFull ==
  /\ At("idle")
  /\ accepted < MaxCommands /\ FullIsDetectable(tx)
  /\ GoTo(IF IsFull(tx) THEN "idle" ELSE "enqueue")
  /\ UNCHANGED <<vars, wasFull, attached, spinning, raced>>

SendEnqueue ==
  /\ At("enqueue")
  /\ tx' = Enqueued(tx, accepted + 1)
  /\ accepted' = accepted + 1
  /\ GoTo("testRoom")
  /\ UNCHANGED <<rx, requested, delivered, wires, wasFull, attached, spinning, raced>>

SendTestRoomInverted ==
  /\ At("testRoom")
  /\ GoTo(IF IsFull(rx) THEN "lower" ELSE "idle")
  /\ UNCHANGED <<vars, wasFull, attached, spinning, raced>>

SendTestRoom ==
  /\ At("testRoom")
  /\ GoTo(IF IsFull(rx) THEN "idle" ELSE "lower")
  /\ UNCHANGED <<vars, wasFull, attached, spinning, raced>>

------------------------------------------------------------------------------
(* m_aci_q_flush runs with interrupts off, and leaves the ISR as it is.    *)
Flush ==
  /\ Flushes /\ At("idle")
  /\ hal_aci_tl_q_flush
  /\ UNCHANGED <<pc, wasFull, attached, spinning, raced>>

(* hal_aci_tl_init, while the ISR of the last one may still be attached:   *)
(* aci_queue_init stores head, tail and the slots of one ring and then of  *)
(* the other.  Then the chip is reset, REQN let go, and the ISR attached.  *)
Store(from, to, t, r) ==
  /\ At(from) /\ GoTo(to)
  /\ tx' = t /\ rx' = r
  /\ UNCHANGED <<requested, accepted, delivered, wires, wasFull, attached, spinning, raced>>

EmptyRings ==
  \/ Store("idle", "txTail", [tx EXCEPT !.head = 0], rx)
  \/ Store("txTail", "txData", [tx EXCEPT !.tail = 0], rx)
  \/ Store("txData", "rxHead", [tx EXCEPT !.data = EmptyQueue.data], rx)
  \/ Store("rxHead", "rxTail", tx, [rx EXCEPT !.head = 0])
  \/ Store("rxTail", "rxData", tx, [rx EXCEPT !.tail = 0])
  \/ Store("rxData", "reset", tx, [rx EXCEPT !.data = EmptyQueue.data])

ResetChip ==
  /\ At("reset") /\ GoTo("release")
  /\ ready' = FALSE
  /\ accepted' = 0 /\ clockedIn' = 0
  /\ emitted' = 0 /\ clockedOut' = 0 /\ delivered' = 0
  /\ UNCHANGED <<tx, rx, requested, wasFull, attached, spinning, raced>>

ReleaseREQN ==
  /\ At("release") /\ GoTo("reattach")
  /\ requested' = FALSE
  /\ UNCHANGED <<tx, rx, accepted, delivered, wires, wasFull, attached, spinning, raced>>

AttachAgain ==
  /\ At("reattach") /\ GoTo("idle")
  /\ attached' = TRUE
  /\ UNCHANGED <<vars, wasFull, spinning, raced>>

Restart == EmptyRings \/ ResetChip \/ ReleaseREQN \/ AttachAgain

Get == GetSample \/ GetIsEmpty \/ GetCopy \/ GetAttach \/ GetRequest

Main ==
  \/ Get \/ LowerREQN
  \/ SendIsFull \/ SendEnqueue \/ SendTestRoom
  \/ Flush \/ Restart

(* A chip that was just reset has less to tell than the ring holds, until  *)
(* it is sent a command: that it started, and why.                         *)
ChipStep ==
  /\ Chip
  /\ pc \in Started => emitted' < ACI_QUEUE_SIZE
  /\ UNCHANGED <<pc, wasFull, attached, spinning, raced>>

(* Bound: nothing is said of what happens after the ISR found the rings    *)
(* half emptied.                                                           *)
Raced == raced /\ UNCHANGED isrVars

IsrNext == (~raced /\ (m_aci_isr \/ Main \/ ChipStep)) \/ Raced

IsrSpec == IsrInit /\ [][IsrNext]_isrVars

(* The main program keeps reading events, every call it makes ends, the    *)
(* chip answers a request, and an attached interrupt is taken.             *)
IsrLiveSpec ==
  /\ IsrSpec
  /\ WF_isrVars(~raced /\ Get) /\ WF_isrVars(~raced /\ LowerREQN)
  /\ WF_isrVars(~raced /\ SendEnqueue) /\ WF_isrVars(~raced /\ SendTestRoom)
  /\ WF_isrVars(~raced /\ pc # "idle" /\ Restart)
  /\ WF_isrVars(~raced /\ ChipLowersRDYN
                 /\ UNCHANGED <<pc, wasFull, attached, spinning, raced>>)
  /\ WF_isrVars(~raced /\ m_aci_isr)

------------------------------------------------------------------------------
(* The types of AciTransport, kept under preemption: in particular the     *)
(* packet hal_aci_tl_event_get hands out was put into rx by the ISR.       *)
IsrTypeOK ==
  /\ TypeOK
  /\ pc \in Steps
  /\ wasFull \in BOOLEAN /\ attached \in BOOLEAN
  /\ spinning \in BOOLEAN /\ raced \in BOOLEAN

(* Wherever the ISR interrupts the main program, no packet is lost,        *)
(* repeated or overtaken in either direction, through every transfer,      *)
(* flush, reset and wrap: unless it did while hal_aci_tl_init emptied the  *)
(* rings, where the half emptied ones may hold what they never held.       *)
PacketsKeptByIsr == raced \/ pc \in Emptying \/ PacketsInOrder

(* m_aci_isr never finds rx full when it has an event to store: "Should    *)
(* never happen" (hal_aci_tl.cpp:121-123).  With the head of a full ring   *)
(* stored and its tail not yet, it does.                                   *)
NeverSpins == raced \/ ~spinning

(* Between two calls of the main program, a command that waits while its   *)
(* reply would fit has REQN low, whatever the ISR did during the calls,    *)
(* hal_aci_tl_init excepted.                                               *)
IdleIsRequested == raced \/ (pc = "idle" => WaitingIsRequested)

(* The ISR stays detached only "until we have room to store incoming       *)
(* messages" (hal_aci_tl.cpp:128): once the program has read an event, the *)
(* interrupt comes back.                                                   *)
Reattached == (~attached /\ ~IsFull(rx)) ~> (attached \/ raced)
==============================================================================
