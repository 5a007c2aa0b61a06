---------------------------- MODULE AciTransport -----------------------------
(***************************************************************************)
(* utility/hal_aci_tl.cpp as the library builds it: HAL_ACI_TL_INTERRUPT   *)
(* is not defined, and the sketch's loop polls the RDYN line.              *)
(*                                                                         *)
(* Two rings carry commands to the nRF8001 (tx) and events from it (rx).   *)
(* The microcontroller pulls REQN low to ask for a transfer, the nRF8001   *)
(* pulls RDYN low when it is ready for one, or has an event of its own.    *)
(* One transfer is full duplex: it moves at most one command down and at   *)
(* most one event up, and ends with both lines high.                       *)
(*                                                                         *)
(* Packets carry no data here.  The n-th command the transport accepts and *)
(* the n-th event the chip emits since the last reset are the number n, so *)
(* that a packet lost, duplicated or out of order shows as a wrong number. *)
(***************************************************************************)
EXTENDS AciRing

CONSTANTS MaxCommands,  (* bound: commands accepted since the last reset   *)
          MaxEvents,    (* bound: events emitted since the last reset      *)
          ReadCalls,    (* the calls that read events: the library only    *)
                        (* uses "get"; hal_aci_tl.h also exports "peek"    *)
          Oversized     (* commands longer than HAL_ACI_MAX_LENGTH         *)

ASSUME BoundsAssumption == MaxCommands \in Nat /\ MaxEvents \in Nat
ASSUME MsgAssumption == 1 .. MaxCommands \subseteq Msg /\ 1 .. MaxEvents \subseteq Msg
ASSUME OversizedAssumption == Oversized \cap Msg = {}
ASSUME ReadCallsAssumption == ReadCalls \subseteq {"get", "peek"}

VARIABLES tx,         (* aci_tx_q                                          *)
          rx,         (* aci_rx_q                                          *)
          requested,  (* REQN is low                                       *)
          ready,      (* RDYN is low                                       *)
          accepted,   (* number of the last command hal_aci_tl_send took   *)
          clockedIn,  (* number of the last command the chip received      *)
          emitted,    (* number of the last event the chip made available  *)
          clockedOut, (* number of the last event a transfer fetched       *)
          delivered   (* number of the last event handed to the caller     *)

hostVars == <<tx, rx, requested, accepted, delivered>>
wires == <<ready, clockedIn, emitted, clockedOut>>
vars == <<tx, rx, requested, ready, accepted, clockedIn, emitted, clockedOut,
          delivered>>

EventPending == clockedOut < emitted

Init ==
  /\ tx = EmptyQueue /\ rx = EmptyQueue
  /\ requested = FALSE /\ ready = FALSE
  /\ accepted = 0 /\ clockedIn = 0
  /\ emitted = 0 /\ clockedOut = 0 /\ delivered = 0

------------------------------------------------------------------------------
(* The nRF8001, as far as the transport can tell.                          *)

ChipEmits ==
  /\ emitted < MaxEvents
  /\ emitted' = emitted + 1
  /\ UNCHANGED <<hostVars, ready, clockedIn, clockedOut>>

ChipLowersRDYN ==
  /\ ~ready
  /\ requested \/ EventPending
  /\ ready' = TRUE
  /\ UNCHANGED <<hostVars, clockedIn, emitted, clockedOut>>

------------------------------------------------------------------------------
(* One full-duplex transfer: the chip gets the oldest command, if there is *)
(* one, and its oldest event, if there is one, is fetched.                 *)
m_aci_spi_transfer ==
  /\ clockedIn' = IF IsEmpty(tx) THEN clockedIn ELSE Oldest(tx)
  /\ clockedOut' = IF EventPending THEN clockedOut + 1 ELSE clockedOut
  /\ ready' = FALSE
  /\ UNCHANGED emitted

(* What the rings hold once the transfer's packets left tx and entered rx. *)
TxAfterKeepsSent == tx
TxAfter == Dequeued(tx)

RxAfterDropsEvent == rx
RxAfter == IF EventPending THEN Enqueued(rx, clockedOut + 1) ELSE rx

------------------------------------------------------------------------------
(* hal_aci_tl_send: a command is taken if it fits and there is room, and a *)
(* transfer is requested if the reply fits too.                            *)
SendForgetsRequest(m) ==
  /\ ~IsFull(tx)
  /\ tx' = Enqueued(tx, m)
  /\ accepted' = m
  /\ UNCHANGED <<rx, requested, delivered, wires>>

SendAccepts(m) ==
  /\ ~IsFull(tx)
  /\ tx' = Enqueued(tx, m)
  /\ accepted' = m
  /\ requested' = (requested \/ ~IsFull(rx))
  /\ UNCHANGED <<rx, delivered, wires>>

SendRefuses(m) ==
  /\ IsFull(tx) \/ m \in Oversized
  /\ UNCHANGED vars

hal_aci_tl_send(m) == (m \notin Oversized /\ SendAccepts(m)) \/ SendRefuses(m)

(* The layers above are assumed not to send a fifth command while tx       *)
(* cannot tell that it is full; AciQueue shows what happens if they do.    *)
Send ==
  /\ FullIsDetectable(tx)
  /\ accepted < MaxCommands
  /\ \E m \in {accepted + 1} \cup Oversized : hal_aci_tl_send(m)

------------------------------------------------------------------------------
(* What a read call does after m_aci_event_check left the rings as t and r *)
(* and the request line as req: "get" takes the oldest event, and asks for *)
(* a transfer because there is room now; "peek" leaves everything alone.   *)
GetsEvent(t, r, req) ==
  /\ tx' = t
  /\ rx' = Dequeued(r)
  /\ requested' = (req \/ (~IsEmpty(r) /\ ~IsFull(rx') /\ ~IsEmpty(t)))
  /\ delivered' = IF IsEmpty(r) THEN delivered ELSE Oldest(r)

PeeksEvent(t, r, req) ==
  /\ tx' = t /\ rx' = r /\ requested' = req
  /\ UNCHANGED delivered

Reads(call, t, r, req) ==
  \/ call = "get" /\ GetsEvent(t, r, req)
  \/ call = "peek" /\ PeeksEvent(t, r, req)

(* m_aci_event_check has no room for an event, and returns.                *)
NoRoom(call) ==
  /\ IsFull(rx)
  /\ Reads(call, tx, rx, requested)
  /\ UNCHANGED <<accepted, wires>>

(* RDYN is high: a transfer is requested if a command waits.               *)
NotReady(call) ==
  /\ ~IsFull(rx) /\ ~ready
  /\ Reads(call, tx, rx, requested \/ ~IsEmpty(tx))
  /\ UNCHANGED <<accepted, wires>>

(* RDYN is low: one SPI transfer, which pulls REQN low and lets it go      *)
(* high again, and is requested anew if a command is left.  The room for   *)
(* its event was tested, so the spin for a full rx is out of reach.        *)
Transfer(call) ==
  /\ ~IsFull(rx) /\ ready
  /\ Reads(call, TxAfter, RxAfter, ~IsEmpty(TxAfter))
  /\ m_aci_spi_transfer
  /\ UNCHANGED accepted

Read(call) == NoRoom(call) \/ NotReady(call) \/ Transfer(call)

hal_aci_tl_event_get == "get" \in ReadCalls /\ Read("get")
hal_aci_tl_event_peek == "peek" \in ReadCalls /\ Read("peek")

------------------------------------------------------------------------------
(* hal_aci_tl_q_flush drops what both rings hold; the numbering goes on    *)
(* where the chip is.                                                      *)
hal_aci_tl_q_flush ==
  /\ tx' = EmptyQueue /\ rx' = EmptyQueue
  /\ accepted' = clockedIn
  /\ delivered' = clockedOut
  /\ UNCHANGED <<requested, wires>>

(* hal_aci_tl_init empties the rings, resets the chip and releases REQN.   *)
hal_aci_tl_init ==
  /\ tx' = EmptyQueue /\ rx' = EmptyQueue
  /\ requested' = FALSE /\ ready' = FALSE
  /\ accepted' = 0 /\ clockedIn' = 0
  /\ emitted' = 0 /\ clockedOut' = 0 /\ delivered' = 0

Chip == ChipEmits \/ ChipLowersRDYN

Host ==
  \/ Send
  \/ hal_aci_tl_event_get
  \/ hal_aci_tl_event_peek
  \/ hal_aci_tl_q_flush
  \/ hal_aci_tl_init

Next == Chip \/ Host

Spec == Init /\ [][Next]_vars

(* The sketch's loop polls for ever, and the chip answers a request.       *)
LiveSpec == Spec /\ WF_vars(hal_aci_tl_event_get) /\ WF_vars(ChipLowersRDYN)

------------------------------------------------------------------------------
(* Both rings are aci_queue_t values, and every packet number is one that  *)
(* was given out.                                                          *)
TypeOK ==
  /\ tx \in Queue /\ rx \in Queue
  /\ requested \in BOOLEAN /\ ready \in BOOLEAN
  /\ accepted \in 0 .. MaxCommands /\ clockedIn \in 0 .. MaxCommands
  /\ emitted \in 0 .. MaxEvents
  /\ clockedOut \in 0 .. MaxEvents /\ delivered \in 0 .. MaxEvents

(* A ring holds exactly the packets numbered from + 1 to upTo, in order.   *)
Holds(q, from, upTo) ==
  /\ upTo = from + Occupancy(q)
  /\ \A i \in 1 .. Occupancy(q) : Contents(q)[i] = from + i

(* Every command accepted by hal_aci_tl_send is either with the chip or in *)
(* tx, in the order of the calls: none is lost, repeated or overtaken,     *)
(* also when head and tail wrap.                                           *)
CommandsKept == Holds(tx, clockedIn, accepted)

(* The same of the events: m_aci_event_check puts every event it clocks    *)
(* out of the chip into rx, and the read calls hand them out in order.     *)
EventsKept == Holds(rx, delivered, clockedOut)

(* Both: what is on its way in either direction is exactly what the rings  *)
(* hold, in order, through every transfer, reset, flush and wrap.          *)
PacketsInOrder == CommandsKept /\ EventsKept

(* A command that waits while its reply would fit has REQN low: no branch  *)
(* of the polling code forgets to ask for the transfer.                    *)
WaitingIsRequested == ~IsEmpty(tx) /\ ~IsFull(rx) => requested

(* A program that only calls hal_aci_tl_event_get finds rx empty whenever  *)
(* it calls: each event is handed out by the call that fetched it.         *)
RxDrained == ReadCalls = {"get"} => IsEmpty(rx)

(* When hal_aci_tl_event_get hands out an event, the same transfer took a  *)
(* command out of tx if there was one, so that whoever handles the event   *)
(* can send one command without being refused.                             *)
EventLeavesRoom ==
  [][ReadCalls = {"get"} /\ delivered' # delivered
       => Occupancy(tx') < ACI_QUEUE_SIZE]_vars

(* If the loop polls and the chip answers requests, every accepted command *)
(* reaches the chip and every event reaches the caller, unless the rings   *)
(* are flushed or the chip is reset.                                       *)
CommandsArrive ==
  \A n \in 1 .. MaxCommands :
    accepted >= n ~> (clockedIn >= n \/ accepted < n)

EventsArrive ==
  \A n \in 1 .. MaxEvents : emitted >= n ~> (delivered >= n \/ emitted < n)

(* The two directions do not starve each other: an event ring that stays   *)
(* full holds up the commands too, and a command that waits for ever would *)
(* hold up the events behind it.                                           *)
EverythingArrives == CommandsArrive /\ EventsArrive
==============================================================================
