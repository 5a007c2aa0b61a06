------------------------------ MODULE Program -------------------------------
(***************************************************************************)
(* A sketch's setup() and what follows it: begin() with either driver, and *)
(* with an nRF8001 the functions of lib_aci that the driver then calls.    *)
(***************************************************************************)
EXTENDS Setup, LibAci

CONSTANT Callers  (* the sketches that go on to call the library           *)

programVars == <<vars, libVars>>

(* Bound: no end() and begin() once the library was called; they leave its *)
(* buffers as they are.                                                    *)
SettingUp(step) == calls = 0 /\ step /\ UNCHANGED libVars

Calling ==
  /\ phase = "running" /\ device = "nRF8001" /\ sketch \in Callers
  /\ LibNext
  /\ UNCHANGED vars

ProgramInit == Init /\ LibInit

ProgramNext == SettingUp(Next) \/ Calling

ProgramSpec ==
  /\ ProgramInit /\ [][ProgramNext]_programVars
  /\ WF_programVars(SettingUp(Loops)) /\ WF_programVars(SettingUp(Chip))
=============================================================================
