----------------------------- MODULE Nrf8001Chip -----------------------------
(***************************************************************************)
(* The nRF8001 as its driver knows it: an external part, modelled from the *)
(* commands src/nRF8001.cpp sends and the events its poll() handles.       *)
(*                                                                         *)
(* A command is a pair <<operation, pipe>>, the pipe being 0 when it has   *)
(* none; an event is a record with a type.  Payloads are left out.         *)
(***************************************************************************)
EXTENDS Integers, Sequences

CONSTANTS Credits,  (* data packets the chip buffers: data_credit_total    *)
          Chunks    (* messages its dynamic (bonding) data is made of      *)

ASSUME CreditsAssumption == Credits \in 1 .. 255
ASSUME ChunksAssumption == Chunks \in Nat \ {0}

(* Advertising modes are named after the command that starts them.         *)
Connectable == {"connect", "bond"}
Advertising == Connectable \cup {"broadcast"}
Modes == Advertising \cup {"standby", "connected", "closing"}

(* A chip that was just set up: no link, nothing restored.                 *)
SetUp ==
  [mode     |-> "standby",
   inFlight |-> 0,      (* data packets taken and not yet credited         *)
   unacked  |-> 0,      (* pipe whose write waits for an acknowledgement   *)
   open     |-> {},     (* pipes in use on this link                       *)
   timings  |-> 0,      (* timing changes requested on this link           *)
   adv      |-> 0,      (* pipe whose value is in the advertisements       *)
   bonded   |-> FALSE,  (* a bond was made since it was set up             *)
   toSave   |-> FALSE,  (* the last bond status event reported the first   *)
                        (* bond, and its data were not read since          *)
   read     |-> 0,      (* messages of dynamic data read in this round     *)
   restored |-> 0]      (* messages of dynamic data written back           *)

(* The peer is gone: what belongs to the link expires with it.             *)
Unlinked(k) ==
  [k EXCEPT !.mode = "standby", !.inFlight = 0, !.unacked = 0, !.open = {}]

Takes(k, p) == k.mode = "connected" /\ p \in k.open /\ k.inFlight < Credits

(* The chip after it received a command; one it cannot obey in its mode    *)
(* changes nothing.                                                        *)
ChipAfter(k, cmd) ==
  CASE cmd[1] = "data" /\ Takes(k, cmd[2]) -> [k EXCEPT !.inFlight = @ + 1]
    [] cmd[1] = "ack" /\ k.unacked = cmd[2] -> [k EXCEPT !.unacked = 0]
    [] cmd[1] = "openAdv" -> [k EXCEPT !.adv = cmd[2]]
    [] cmd[1] = "timing" /\ k.mode = "connected" ->
         [k EXCEPT !.timings = @ + 1]
    [] cmd[1] = "disconnect" /\ k.mode = "connected" ->
         [k EXCEPT !.mode = "closing"]
    [] cmd[1] \in Advertising /\ k.mode = "standby" ->
         [k EXCEPT !.mode = cmd[1]]
    [] cmd[1] = "readDynamic" /\ k.mode = "standby" ->
         [k EXCEPT !.read = (@ + 1) % Chunks,
                   !.toSave = @ /\ k.read + 1 # Chunks]
    [] cmd[1] = "writeDynamic" /\ k.mode = "standby" /\ k.restored < Chunks ->
         [k EXCEPT !.restored = @ + 1]
    [] OTHER -> k

(* The events a command causes at once.  Responses poll() does nothing     *)
(* about are left out.                                                     *)
Replies(k, cmd) ==
  CASE cmd[1] = "data" /\ ~Takes(k, cmd[2]) ->
         << [type |-> "PipeError", peer |-> FALSE] >>
    [] cmd[1] = "readDynamic" /\ k.mode = "standby" ->
         << [type |-> "DataRead", seqNo |-> k.read + 1,
             complete |-> k.read + 1 = Chunks] >>
    [] cmd[1] = "writeDynamic" /\ k.mode = "standby" /\ k.restored < Chunks ->
         << [type |-> "DataWritten", complete |-> k.restored + 1 = Chunks] >>
    [] OTHER -> << >>
==============================================================================
