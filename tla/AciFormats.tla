----------------------------- MODULE AciFormats -----------------------------
(***************************************************************************)
(* ACI packets: the packed structures of aci_cmds.h and aci_evts.h, and    *)
(* the offsets at which acilib.cpp writes commands and reads events byte   *)
(* by byte.  A byte of the parameters is <<field, k>>: the k-th byte, the  *)
(* least significant first, of the field of that name; which value it has  *)
(* is left out.  n is the number of bytes of a field "data" that ends a    *)
(* packet.                                                                 *)
(***************************************************************************)
EXTENDS Naturals, Sequences

(* The opcodes; their values are left out.                                 *)
aci_cmd_opcode_t ==
  {"TEST", "ECHO", "DTM_CMD", "SLEEP", "WAKEUP", "SETUP", "READ_DYNAMIC_DATA",
   "WRITE_DYNAMIC_DATA", "GET_DEVICE_VERSION", "GET_DEVICE_ADDRESS",
   "GET_BATTERY_LEVEL", "GET_TEMPERATURE", "SET_LOCAL_DATA", "RADIO_RESET",
   "CONNECT", "BOND", "DISCONNECT", "SET_TX_POWER", "CHANGE_TIMING",
   "OPEN_REMOTE_PIPE", "SEND_DATA", "SEND_DATA_ACK", "REQUEST_DATA",
   "SEND_DATA_NACK", "SET_APP_LATENCY", "SET_KEY", "OPEN_ADV_PIPE", "BROADCAST",
   "BOND_SECURITY_REQUEST", "CONNECT_DIRECT", "CLOSE_REMOTE_PIPE"}

aci_evt_opcode_t ==
  {"DEVICE_STARTED", "ECHO", "HW_ERROR", "CMD_RSP", "CONNECTED", "DISCONNECTED",
   "BOND_STATUS", "PIPE_STATUS", "TIMING", "DATA_CREDIT", "DATA_ACK",
   "DATA_RECEIVED", "PIPE_ERROR", "DISPLAY_PASSKEY", "KEY_REQUEST"}

------------------------------------------------------------------------------
(* Structures are lists of fields with their widths.                       *)
One(field) == <<field, 1>>
Two(field) == <<field, 2>>
Data(n) == <<"data", n>>
FieldLaid(bytes, struct, i) ==
  bytes \o [k \in 1 .. struct[i][2] |-> <<struct[i][1], k>>]
Laid(struct) ==
  LET laid[i \in 0 .. Len(struct)] == IF i = 0 THEN << >> ELSE FieldLaid(laid[i - 1], struct, i)
  IN  laid[Len(struct)]

aci_ll_conn_params_t ==
  <<Two("min_conn_interval"), Two("max_conn_interval"), Two("slave_latency"), Two("timeout_mult")>>
aci_tx_data_t(n) == <<One("pipe_number"), Data(n)>>
aci_advertising_t == <<Two("timeout"), Two("adv_interval")>>

aci_first_cmd_params(opcode, n) ==
  CASE opcode = "TEST"                            -> <<One("test_mode_change")>>
    [] opcode \in {"ECHO", "SETUP"}               -> <<Data(n)>>
    [] opcode = "DTM_CMD"                         -> <<One("cmd_msb"), One("cmd_lsb")>>
    [] opcode = "WRITE_DYNAMIC_DATA"              -> <<One("seq_no"), Data(n)>>
    [] opcode \in {"SET_LOCAL_DATA", "SEND_DATA"} -> aci_tx_data_t(n)
    [] OTHER                                      -> << >>

aci_cmd_t(opcode, n) ==
  CASE opcode \in {"CONNECT", "BOND", "BROADCAST"}                    -> aci_advertising_t
    [] opcode = "DISCONNECT"                                      -> <<One("reason")>>
    [] opcode = "SET_TX_POWER"                                    -> <<One("device_power")>>
    [] opcode = "CHANGE_TIMING" /\ n > 0                          -> aci_ll_conn_params_t
    [] opcode \in {"OPEN_REMOTE_PIPE", "CLOSE_REMOTE_PIPE",
                   "REQUEST_DATA", "SEND_DATA_ACK"}               -> <<One("pipe_number")>>
    [] opcode = "SEND_DATA_NACK"                                  -> <<One("pipe_number"), One("error_code")>>
    [] opcode = "SET_APP_LATENCY"                                 -> <<One("mode"), Two("latency")>>
    [] opcode = "SET_KEY"                                         -> <<One("key_type"), Data(n)>>
    [] opcode = "OPEN_ADV_PIPE"                                   -> << <<"pipes", 8>> >>
    [] OTHER                                                      -> aci_first_cmd_params(opcode, n)

(* A command response is named for the command, with its parameters after  *)
(* the opcode and the status.                                              *)
aci_evt_cmd_rsp_params(opcode, n) ==
  CASE opcode = "DTM_CMD"            -> <<One("evt_msb"), One("evt_lsb")>>
    [] opcode = "READ_DYNAMIC_DATA"  -> <<One("seq_no"), Data(n)>>
    [] opcode = "GET_DEVICE_VERSION" -> <<Two("configuration_id"), One("aci_version"), One("setup_format"),
                                          <<"setup_id", 4>>, One("setup_status")>>
    [] opcode = "GET_DEVICE_ADDRESS" -> << <<"bd_addr_own", 6>>, One("bd_addr_type")>>
    [] opcode = "GET_BATTERY_LEVEL"  -> <<Two("battery_level")>>
    [] opcode = "GET_TEMPERATURE"    -> <<Two("temperature_value")>>
    [] OTHER                         -> << >>

aci_evt_t(opcode, answers, n) ==
  CASE opcode = "DEVICE_STARTED"  -> <<One("device_mode"), One("hw_error"), One("credit_available")>>
    [] opcode = "HW_ERROR"        -> <<Two("line_num"), Data(n)>>
    [] opcode = "CMD_RSP"         -> <<One("cmd_opcode"), One("cmd_status")>> \o aci_evt_cmd_rsp_params(answers, n)
    [] opcode = "CONNECTED"       -> <<One("dev_addr_type"), <<"dev_addr", 6>>, Two("conn_rf_interval"),
                                       Two("conn_slave_rf_latency"), Two("conn_rf_timeout"),
                                       One("master_clock_accuracy")>>
    [] opcode = "DISCONNECTED"    -> <<One("aci_status"), One("btle_status")>>
    [] opcode = "BOND_STATUS"     -> <<One("status_code"), One("status_source"), One("secmode1_bitmap"),
                                       One("secmode2_bitmap"), One("keys_exchanged_slave"),
                                       One("keys_exchanged_master")>>
    [] opcode = "PIPE_STATUS"     -> << <<"pipes_open_bitmap", 8>>, <<"pipes_closed_bitmap", 8>> >>
    [] opcode = "TIMING"          -> <<Two("conn_rf_interval"), Two("conn_slave_rf_latency"), Two("conn_rf_timeout")>>
    [] opcode = "DATA_CREDIT"     -> <<One("credit")>>
    [] opcode = "DATA_ACK"        -> <<One("pipe_number")>>
    [] opcode = "DATA_RECEIVED"   -> <<One("pipe_number"), Data(n)>>
    [] opcode = "PIPE_ERROR"      -> <<One("pipe_number"), One("error_code"), <<"error_data", 1>> >>
    [] opcode = "DISPLAY_PASSKEY" -> << <<"passkey", 6>> >>
    [] opcode = "KEY_REQUEST"     -> <<One("key_type")>>
    [] OTHER                      -> <<Data(n)>>

------------------------------------------------------------------------------
(* Bytes at offsets into the parameters, which follow length and opcode.   *)
Byte(field, offset) == [i \in {offset} |-> <<field, 1>>]
Word(field, lsb, msb) == [i \in {lsb, msb} |-> <<field, IF i = lsb THEN 1 ELSE 2>>]
Bytes(field, offset, n) == [i \in offset .. offset + n - 1 |-> <<field, i - offset + 1>>]
Nothing == [i \in {} |-> << >>]
f ++ g == [i \in DOMAIN f \cup DOMAIN g |-> IF i \in DOMAIN f THEN f[i] ELSE g[i]]

Encoded(length, bytes) == [length |-> length, bytes |-> bytes]

(* acilib.cpp's encoders: the length byte and the parameter bytes written, *)
(* in two parts.  The timing is asked for with parameters, or without any  *)
(* to use the ones of the setup.                                           *)
Advertising == Word("timeout", 0, 1) ++ Word("adv_interval", 2, 3)

(* The bytes of the timeout change places.                                 *)
ConnectionParametersSwapped ==
  Word("min_conn_interval", 0, 1) ++ Word("max_conn_interval", 2, 3)
    ++ Word("slave_latency", 4, 5) ++ Word("timeout_mult", 7, 6)

ConnectionParameters ==
  Word("min_conn_interval", 0, 1) ++ Word("max_conn_interval", 2, 3)
    ++ Word("slave_latency", 4, 5) ++ Word("timeout_mult", 6, 7)

LaterEncoder(opcode, n) ==
  CASE opcode = "WRITE_DYNAMIC_DATA"     -> Encoded(2 + n, Byte("seq_no", 0) ++ Bytes("data", 1, n))
    [] opcode = "CHANGE_TIMING" /\ n > 0 -> Encoded(9, ConnectionParameters)
    [] opcode = "SET_APP_LATENCY"        -> Encoded(4, Byte("mode", 0) ++ Word("latency", 1, 2))
    [] opcode = "SETUP"                  -> Encoded(1 + n, Bytes("data", 0, n))
    [] opcode = "DTM_CMD"                -> Encoded(3, Byte("cmd_msb", 0) ++ Byte("cmd_lsb", 1))
    [] opcode = "SEND_DATA_ACK"          -> Encoded(2, Byte("pipe_number", 0))
    [] opcode = "SEND_DATA_NACK"         -> Encoded(3, Byte("pipe_number", 0) ++ Byte("error_code", 1))
    [] opcode = "BROADCAST"              -> Encoded(5, Advertising)
    [] opcode = "OPEN_ADV_PIPE"          -> Encoded(9, Bytes("pipes", 0, 8))
    [] opcode = "SET_KEY"                -> Encoded(2 + n, Byte("key_type", 0) ++ Bytes("data", 1, n))
    [] OTHER                             -> Encoded(1, Nothing)

Encoder(opcode, n) ==
  CASE opcode = "TEST"                        -> Encoded(2, Byte("test_mode_change", 0))
    [] opcode \in {"SET_LOCAL_DATA", "SEND_DATA"} ->
         Encoded(2 + n, Byte("pipe_number", 0) ++ Bytes("data", 1, n))
    [] opcode \in {"CONNECT", "BOND"}         -> Encoded(5, Advertising)
    [] opcode = "DISCONNECT"                  -> Encoded(2, Byte("reason", 0))
    [] opcode = "SET_TX_POWER"                -> Encoded(2, Byte("device_power", 0))
    [] opcode \in {"REQUEST_DATA", "OPEN_REMOTE_PIPE", "CLOSE_REMOTE_PIPE"} ->
         Encoded(2, Byte("pipe_number", 0))
    [] opcode = "ECHO"                        -> Encoded(1 + n, Bytes("data", 0, n))
    [] OTHER                                  -> LaterEncoder(opcode, n)

(* acil_encode_cmd picks the encoder of a command that is in a structure,  *)
(* and tells it how much data there is from the command's length.          *)
BaseLength(opcode) ==
  CASE opcode \in {"WRITE_DYNAMIC_DATA", "SEND_DATA", "SET_LOCAL_DATA"} -> 2
    [] OTHER                                                            -> 1

Picked ==
  aci_cmd_opcode_t \ {"SEND_DATA_NACK", "SET_APP_LATENCY", "SET_KEY", "OPEN_ADV_PIPE",
                      "BROADCAST", "CONNECT_DIRECT", "CLOSE_REMOTE_PIPE"}

acil_encode_cmd(opcode, length) == Encoder(opcode, length - BaseLength(opcode))

------------------------------------------------------------------------------
(* A size that leaves out the opcode only.                                 *)
ReceivedSizeWithPipe(length) == length - 1

(* The data in an event that starts with the number of a pipe.             *)
ReceivedSize(length) == length - 2

(* acilib.cpp's decoders: where each byte of a field is read from, given   *)
(* the event's length byte; a size that depends on it is worked out first. *)
acil_decode_evt_command_response(answers, length) ==
  Byte("cmd_opcode", 0) ++ Byte("cmd_status", 1) ++
  CASE answers = "GET_DEVICE_VERSION" ->
         Word("configuration_id", 2, 3) ++ Byte("aci_version", 4) ++ Byte("setup_format", 5)
           ++ Bytes("setup_id", 6, 4) ++ Byte("setup_status", 10)
    [] answers = "GET_DEVICE_ADDRESS" -> Bytes("bd_addr_own", 2, 6) ++ Byte("bd_addr_type", 8)
    [] answers = "GET_TEMPERATURE"    -> Word("temperature_value", 2, 3)
    [] answers = "GET_BATTERY_LEVEL"  -> Word("battery_level", 2, 3)
    [] answers = "READ_DYNAMIC_DATA"  -> Byte("seq_no", 2) ++ Bytes("data", 3, length - 3)
    [] answers = "DTM_CMD"            -> Byte("evt_msb", 2) ++ Byte("evt_lsb", 3)
    [] OTHER                          -> Nothing

acil_decode_evt(opcode, answers, length) ==
  CASE opcode = "DEVICE_STARTED"  -> Byte("device_mode", 0) ++ Byte("hw_error", 1) ++ Byte("credit_available", 2)
    [] opcode = "PIPE_STATUS"     -> Bytes("pipes_open_bitmap", 0, 8) ++ Bytes("pipes_closed_bitmap", 8, 8)
    [] opcode = "DISCONNECTED"    -> Byte("aci_status", 0) ++ Byte("btle_status", 1)
    [] opcode = "BOND_STATUS"     -> Byte("status_code", 0) ++ Byte("status_source", 1)
                                       ++ Byte("secmode1_bitmap", 2) ++ Byte("secmode2_bitmap", 3)
                                       ++ Byte("keys_exchanged_slave", 4) ++ Byte("keys_exchanged_master", 5)
    [] opcode = "DATA_RECEIVED"   -> Byte("pipe_number", 0) ++ Bytes("data", 1, ReceivedSize(length))
    [] opcode = "DATA_ACK"        -> Byte("pipe_number", 0)
    [] opcode = "HW_ERROR"        -> Word("line_num", 0, 1) ++ Bytes("data", 2, length - 3)
    [] opcode = "DATA_CREDIT"     -> Byte("credit", 0)
    [] opcode = "CONNECTED"       -> Byte("dev_addr_type", 0) ++ Bytes("dev_addr", 1, 6)
                                       ++ Word("conn_rf_interval", 7, 8) ++ Word("conn_slave_rf_latency", 9, 10)
                                       ++ Word("conn_rf_timeout", 11, 12) ++ Byte("master_clock_accuracy", 13)
    [] opcode = "TIMING"          -> Word("conn_rf_interval", 0, 1) ++ Word("conn_slave_rf_latency", 2, 3)
                                       ++ Word("conn_rf_timeout", 4, 5)
    [] opcode = "PIPE_ERROR"      -> Byte("pipe_number", 0) ++ Byte("error_code", 1) ++ Byte("error_data", 2)
    [] opcode = "KEY_REQUEST"     -> Byte("key_type", 0)
    [] opcode = "ECHO"            -> Bytes("data", 0, length - 1)
    [] opcode = "DISPLAY_PASSKEY" -> Bytes("passkey", 0, 6)
    [] OTHER                      -> acil_decode_evt_command_response(answers, length)
=============================================================================
