----------------------------- MODULE SoftDevice ------------------------------
(***************************************************************************)
(* The Nordic SoftDevice as src/nRF51822.cpp uses it, and the peer behind  *)
(* it: one link at a time, transmit buffers, one client procedure at a     *)
(* time, pairing.  It is not in the repository; its calls take the shape   *)
(* of the declarations in src/utility/RFduino/.                            *)
(***************************************************************************)
EXTENDS Integers, Sequences, FiniteSetsExt

CONSTANTS
  Cccds,     (* the local characteristics that have a CCCD                 *)
  Peers,     (* attribute tables of the peers: sequences of services       *)
  TxTotal,   (* transmit buffers                                           *)
  Keys       (* long-term keys a pairing can create                        *)

MaxHandle == 65535
Handles == 1 .. MaxHandle

(* A table lists services and characteristics in the order of their        *)
(* handles, and a characteristic has its handle from its service's range.  *)
Service(s) ==
  /\ s.start \in Handles /\ s.end \in Handles /\ s.start <= s.end
  /\ s.chars \in Seq({s.chars[c] : c \in DOMAIN s.chars})
  /\ \A c \in DOMAIN s.chars :
       /\ s.chars[c].handle \in s.start .. s.end
       /\ \A d \in DOMAIN s.chars : c < d => s.chars[c].handle < s.chars[d].handle

AttributeTable(p) ==
  /\ p \in Seq({p[s] : s \in DOMAIN p})
  /\ \A s \in DOMAIN p : Service(p[s])
  /\ \A s, t \in DOMAIN p : s < t => p[s].end < p[t].start

ASSUME PeersAssumption == \A p \in Peers : AttributeTable(p)

Nothing == [kind |-> "none"]
NoKey == 0

(* A link starts, with peer p.                                             *)
Linked(sd, p) ==
  [sd EXCEPT !.mode = "connected", !.peer = p, !.free = TxTotal,
             !.cccd = [c \in Cccds |-> {}], !.attrs = "unset",
             !.indicating = FALSE, !.pairing = "no", !.client = Nothing,
             !.security = "open", !.unconfirmed = FALSE]

Unlinked(sd) ==
  [sd EXCEPT !.mode = "idle", !.free = TxTotal, !.indicating = FALSE,
             !.pairing = "no", !.client = Nothing, !.security = "open",
             !.unconfirmed = FALSE]

(* After sd_softdevice_enable; the peer keeps its key.                     *)
Enabled(peerKey) ==
  [mode |-> "idle", peer |-> << >>, free |-> TxTotal,
   cccd |-> [c \in Cccds |-> {}], attrs |-> "unset", indicating |-> FALSE,
   pairing |-> "no", client |-> Nothing, adv |-> 0, peerKey |-> peerKey,
   security |-> "open", unconfirmed |-> FALSE]

sd_ble_gap_adv_start(sd) ==
  IF sd.mode = "idle" THEN [sd EXCEPT !.mode = "advertising"] ELSE sd

sd_ble_gap_disconnect(sd) ==
  IF sd.mode = "connected" THEN [sd EXCEPT !.mode = "closing"] ELSE sd

(* A notification takes a buffer, an indication does not: it waits for its *)
(* confirmation instead.                                                   *)
sd_ble_gatts_hvx(sd, type, c) ==
  IF sd.mode # "connected" \/ sd.attrs # "set" \/ type \notin sd.cccd[c] THEN sd
  ELSE IF type = "notify"
  THEN IF sd.free > 0 THEN [sd EXCEPT !.free = @ - 1] ELSE sd
  ELSE [sd EXCEPT !.indicating = TRUE]

(* Discovery, reads and writes with a response are client procedures;      *)
(* while one is in progress the SoftDevice is busy.                        *)
Starts(sd, request) ==
  IF sd.mode = "connected" /\ sd.client = Nothing
  THEN [sd EXCEPT !.client = request]
  ELSE sd

sd_ble_gattc_primary_services_discover(sd, start) ==
  IF start = 0 THEN sd ELSE Starts(sd, [kind |-> "services", start |-> start])

sd_ble_gattc_characteristics_discover(sd, range) ==
  Starts(sd, [kind |-> "chars", start |-> range[1], end |-> range[2]])

sd_ble_gattc_write_cmd(sd) ==
  IF sd.mode = "connected" /\ sd.free > 0 THEN [sd EXCEPT !.free = @ - 1] ELSE sd

sd_ble_gap_sec_params_reply(sd, accept) ==
  IF sd.pairing = "asked"
  THEN [sd EXCEPT !.pairing = IF accept THEN "yes" ELSE "refused"]
  ELSE sd

sd_ble_gap_sec_info_reply(sd, asked, key) ==
  IF sd.security = "asked"
  THEN [sd EXCEPT !.security = IF key = asked THEN "encrypted" ELSE "refused"]
  ELSE sd

sd_ble_gatts_sys_attr_set(sd) ==
  IF sd.mode = "connected" THEN [sd EXCEPT !.attrs = "set"] ELSE sd

(* What the peer answers to a client procedure: of the entries of a table  *)
(* that are left from the handle asked for, as many at a time as it likes  *)
(* from the first one on, or an error.                                     *)
Found(type, table, left) ==
  IF left = {} THEN {[type |-> type, ok |-> FALSE, found |-> << >>]}
  ELSE {[type |-> type, ok |-> TRUE, found |-> SubSeq(table, Min(left), n)] : n \in left}

ServicesFrom(sd, start) == {s \in DOMAIN sd.peer : sd.peer[s].start >= start}

(* The service a handle is in, and what it has in the range asked for,     *)
(* whose declarations come right before the values.                        *)
ServicesWith(sd, handle) ==
  {s \in DOMAIN sd.peer : sd.peer[s].start <= handle /\ handle <= sd.peer[s].end}

CharsIn(service, request) ==
  {c \in DOMAIN service.chars : /\ service.chars[c].handle - 1 >= request.start
                                /\ service.chars[c].handle <= request.end}

CharsAnswered(sd, request) ==
  IF ServicesWith(sd, request.start) = {} THEN Found("CharDiscRsp", << >>, {})
  ELSE UNION {Found("CharDiscRsp", sd.peer[s].chars, CharsIn(sd.peer[s], request)) :
                s \in ServicesWith(sd, request.start)}

Answers(sd) ==
  CASE sd.client.kind = "services" ->
         Found("PrimSrvcDiscRsp", sd.peer, ServicesFrom(sd, sd.client.start))
    [] sd.client.kind = "chars" -> CharsAnswered(sd, sd.client)
    [] sd.client.kind = "read" ->
         {[type |-> "ReadRsp", refused |-> b, handle |-> sd.client.handle] : b \in BOOLEAN}
    [] sd.client.kind = "write" ->
         {[type |-> "WriteRsp", refused |-> b] : b \in BOOLEAN}
    [] OTHER -> {}
==============================================================================
