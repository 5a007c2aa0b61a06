------------------------------- MODULE LibAci --------------------------------
(***************************************************************************)
(* The functions of lib_aci.cpp: each fills a parameter structure, has     *)
(* acilib.cpp write it into msg_to_send, a static buffer they share, and   *)
(* hands that to hal_aci_tl_send, which copies it into its ring or refuses *)
(* it.  In the other direction, an event is in the caller's buffer, where  *)
(* it replaced the one before.                                             *)
(*                                                                         *)
(* A byte carries the number of the call that wrote it, so that one that   *)
(* an earlier call left behind can be told from one of this call.          *)
(***************************************************************************)
EXTENDS AciFormats, FiniteSets

CONSTANTS
  DataSizes,            (* lengths of data that a caller passes            *)
  EventSizes,           (* lengths of data in events                       *)
  AdvertisingIntervals, (* in milliseconds, as sketches set them           *)
  AdvPipes,             (* pipes that can be advertised                    *)
  IntBits,              (* width of an int: 16 on AVR, 32 on ARM           *)
  MaxCalls              (* bound: calls and events                         *)

ASSUME IntBitsAssumption == IntBits \in {16, 32}
ASSUME MaxCallsAssumption == MaxCalls \in Nat

(* Data fit into the buffer of an event behind up to two other bytes.      *)
ASSUME SizesOK == DataSizes \subseteq Nat /\ EventSizes \subseteq 0 .. 28

VARIABLES
  msg_to_send, (* [length, opcode, params: the bytes, interval and pipes:  *)
               (* the values of the fields of those names]                 *)
  advPipes,    (* aci_cmd_params_open_adv_pipe, which also is static       *)
  asked,       (* the last call: [call: its number, opcode, size, interval, *)
               (* pipe]                                                    *)
  packet,      (* what hal_aci_tl_send copied of it, or NoPacket           *)
  event,       (* the caller's buffer: [call: its number, opcode, answers,  *)
               (* size, params]                                            *)
  calls        (* number of calls and events                               *)

libVars == <<msg_to_send, advPipes, asked, packet, event, calls>>

ACI_PACKET_MAX_LEN == 32
ACI_PIPE_TX_DATA_MAX_LEN == 20
ACI_ECHO_DATA_MAX_LEN == ACI_PACKET_MAX_LEN - 3
HAL_ACI_MAX_LEN == 31

NoByte == <<0, "none", 0>>
NoCall == [call |-> 0, opcode |-> "none", size |-> 0, interval |-> 0, pipe |-> 0]
NoPacket == [length |-> 0, opcode |-> "none", interval |-> 0, pipes |-> {},
             params |-> [i \in 0 .. ACI_PACKET_MAX_LEN - 3 |-> NoByte]]
NoEvent == [call |-> 0, opcode |-> "none", answers |-> "none", size |-> 0, params |-> NoPacket.params]

LibInit ==
  /\ msg_to_send = NoPacket /\ advPipes = {}
  /\ asked = NoCall /\ packet = NoPacket /\ event = NoEvent
  /\ calls = 0

(* The parameters after the given bytes were written over them.            *)
Written(params, bytes) ==
  [i \in DOMAIN params |-> IF i \in DOMAIN bytes THEN <<calls + 1>> \o bytes[i] ELSE params[i]]

------------------------------------------------------------------------------
(* Commands.  startAdvertising computes the interval in ints: the sketch's  *)
(* milliseconds become units of 0.625 ms.                                  *)
Interval(ms) == (((ms * 16) % 2 ^ IntBits) \div 10) % 2 ^ 16

hal_aci_tl_send(msg) ==
  \/ msg.length <= HAL_ACI_MAX_LEN /\ packet' = msg
  \/ packet' = NoPacket

(* The part that all functions have in common.                             *)
Passes(call, interval, pipes) ==
  LET encoded == Encoder(call.opcode, call.size)
  IN  /\ asked' = [call EXCEPT !.call = calls + 1]
      /\ msg_to_send' = [length |-> encoded.length, opcode |-> call.opcode,
                         interval |-> interval, pipes |-> pipes,
                         params |-> Written(msg_to_send.params, encoded.bytes)]
      /\ hal_aci_tl_send(msg_to_send')
      /\ UNCHANGED event

Refuses(call) ==
  /\ asked' = call /\ packet' = NoPacket
  /\ UNCHANGED <<msg_to_send, event>>

Simple(opcode, size) == [NoCall EXCEPT !.opcode = opcode, !.size = size]

(* The functions that pass on their parameters, none or of fixed length.   *)
DeviceCommands ==
  {"SET_APP_LATENCY", "TEST", "SLEEP", "RADIO_RESET", "CONNECT_DIRECT",
   "GET_DEVICE_VERSION", "WAKEUP", "SET_TX_POWER", "GET_DEVICE_ADDRESS",
   "GET_TEMPERATURE", "GET_BATTERY_LEVEL"}
PipeCommands ==
  {"REQUEST_DATA", "OPEN_REMOTE_PIPE", "CLOSE_REMOTE_PIPE", "SEND_DATA_ACK",
   "SEND_DATA_NACK", "DISCONNECT", "BOND_SECURITY_REQUEST"}

DeviceCall ==
  /\ \E opcode \in DeviceCommands \cup {"READ_DYNAMIC_DATA", "DTM_CMD"} :
       Passes(Simple(opcode, 0), 0, {})
  /\ UNCHANGED advPipes

PipeCall ==
  /\ \E opcode \in PipeCommands : Passes(Simple(opcode, 0), 0, {})
  /\ UNCHANGED advPipes

(* With the parameters, or with none.                                      *)
lib_aci_change_timing ==
  /\ \E size \in {0, 8} : Passes(Simple("CHANGE_TIMING", size), 0, {})
  /\ UNCHANGED advPipes

(* A key of six digits, or the reject.                                     *)
lib_aci_set_key ==
  /\ \E size \in {0, 6} : Passes(Simple("SET_KEY", size), 0, {})
  /\ UNCHANGED advPipes

(* A value is as long as its characteristic, a chunk of bonding data as    *)
(* long as an event had room for.                                          *)
lib_aci_set_local_data ==
  /\ \E size \in DataSizes :
       size <= ACI_PIPE_TX_DATA_MAX_LEN /\ Passes(Simple("SET_LOCAL_DATA", size), 0, {})
  /\ UNCHANGED advPipes

lib_aci_write_dynamic_data ==
  /\ \E size \in DataSizes : Passes(Simple("WRITE_DYNAMIC_DATA", size), 0, {})
  /\ UNCHANGED advPipes

lib_aci_send_data ==
  /\ \E size \in DataSizes :
       IF size > ACI_PIPE_TX_DATA_MAX_LEN THEN Refuses(Simple("SEND_DATA", size))
       ELSE Passes(Simple("SEND_DATA", size), 0, {})
  /\ UNCHANGED advPipes

lib_aci_echo_msg ==
  /\ \E size \in DataSizes :
       IF size > ACI_ECHO_DATA_MAX_LEN THEN Refuses(Simple("ECHO", size))
       ELSE Passes(Simple("ECHO", size), 0, {})
  /\ UNCHANGED advPipes

Advertises(opcode, ms) == [NoCall EXCEPT !.opcode = opcode, !.interval = ms]

lib_aci_connect ==
  /\ \E opcode \in {"CONNECT", "BOND"}, ms \in AdvertisingIntervals :
       Passes(Advertises(opcode, ms), Interval(ms), {})
  /\ UNCHANGED advPipes

lib_aci_broadcast ==
  /\ \E ms \in AdvertisingIntervals :
       IF Interval(ms) \in 160 .. 16384
       THEN Passes(Advertises("BROADCAST", ms), Interval(ms), {})
       ELSE Refuses(Advertises("BROADCAST", ms))
  /\ UNCHANGED advPipes

Opens(pipe) == [NoCall EXCEPT !.opcode = "OPEN_ADV_PIPE", !.pipe = pipe]

(* The pipes that are to be open from now on.                              *)
lib_aci_open_adv_pipes ==
  \E pipe \in AdvPipes :
    advPipes' = {pipe} /\ Passes(Opens(pipe), 0, {pipe})

(* One more pipe than were open, whether the last command was sent or not. *)
lib_aci_open_adv_pipe ==
  \E pipe \in AdvPipes :
    /\ advPipes' = advPipes \cup {pipe}
    /\ Passes(Opens(pipe), 0, advPipes')

------------------------------------------------------------------------------
ResponsesWithParameters ==
  {"DTM_CMD", "READ_DYNAMIC_DATA", "GET_DEVICE_VERSION", "GET_DEVICE_ADDRESS",
   "GET_BATTERY_LEVEL", "GET_TEMPERATURE"}

(* An event arrives in the caller's buffer: no more bytes than it has.     *)
EventArrives ==
  \E opcode \in aci_evt_opcode_t, size \in EventSizes :
  \E answers \in IF opcode = "CMD_RSP" THEN ResponsesWithParameters \cup {"SETUP"} ELSE {"none"} :
    LET laid == Laid(aci_evt_t(opcode, answers, size))
    IN  /\ event' = [call |-> calls + 1, opcode |-> opcode, answers |-> answers, size |-> size,
                     params |-> Written(event.params, [i \in 0 .. Len(laid) - 1 |-> laid[i + 1]])]
        /\ UNCHANGED <<msg_to_send, advPipes, asked, packet>>

Command ==
  \/ DeviceCall \/ PipeCall
  \/ lib_aci_change_timing \/ lib_aci_set_key
  \/ lib_aci_set_local_data \/ lib_aci_write_dynamic_data
  \/ lib_aci_send_data \/ lib_aci_echo_msg
  \/ lib_aci_connect \/ lib_aci_broadcast
  \/ lib_aci_open_adv_pipes \/ lib_aci_open_adv_pipe

LibNext == calls < MaxCalls /\ calls' = calls + 1 /\ (Command \/ EventArrives)

------------------------------------------------------------------------------
(* The chip, which goes by the structures of aci_cmds.h, reads from every  *)
(* packet it gets what the caller of that function asked for: the length   *)
(* is that of the structure, and each of its bytes is at its place and was *)
(* written by this call, nothing being left over from the last.  An        *)
(* advertising interval is the sketch's, to the unit, and a pipe that was  *)
(* opened for advertising is.  A structure that was filled from the packet *)
(* and goes through acil_encode_cmd becomes that packet again, unless it   *)
(* asks for a change of timing without parameters, which it cannot.        *)
PacketsReadBack ==
  packet # NoPacket =>
    LET laid == Laid(aci_cmd_t(asked.opcode, asked.size))
    IN  /\ packet.opcode = asked.opcode
        /\ packet.length = 1 + Len(laid)
        /\ \A k \in DOMAIN laid : packet.params[k - 1] = <<asked.call>> \o laid[k]
        /\ asked.interval * 16 - packet.interval * 10 \in 0 .. 9
        /\ asked.pipe # 0 => asked.pipe \in packet.pipes
        /\ asked.opcode \in Picked /\ ~(asked.opcode = "CHANGE_TIMING" /\ asked.size = 0) =>
             acil_encode_cmd(asked.opcode, packet.length) = Encoder(asked.opcode, asked.size)

(* acilib.cpp reads from an event what the structures of aci_evts.h, which *)
(* nRF8001.cpp lays over it, have at that place: every byte of this event  *)
(* and none that an earlier one left in the buffer.  Bonding data are left *)
(* out: acilib takes one byte more than there are.                         *)
EventsReadBack ==
  event # NoEvent /\ ~(event.opcode = "CMD_RSP" /\ event.answers = "READ_DYNAMIC_DATA") =>
    LET laid == Laid(aci_evt_t(event.opcode, event.answers, event.size))
        decoded == acil_decode_evt(event.opcode, event.answers, 1 + Len(laid))
    IN  /\ DOMAIN decoded = 0 .. Len(laid) - 1
        /\ \A i \in DOMAIN decoded : event.params[i] = <<event.call>> \o decoded[i]
==============================================================================
