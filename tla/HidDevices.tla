----------------------------- MODULE HidDevices ------------------------------
(***************************************************************************)
(* The HID devices of the library: what each call of a sketch makes of a   *)
(* device's report, and the report map that tells the host how to read it. *)
(* A report is [bits: a set of modifiers or buttons, bytes: the bytes      *)
(* after them].                                                            *)
(***************************************************************************)
EXTENDS Integers, Sequences

Kinds == {"keyboard", "mouse", "multimedia", "systemControl"}

Report(bits, bytes) == [bits |-> bits, bytes |-> bytes]

(* The constructors' reports, all bytes 0.                                 *)
Blank(kind) ==
  Report({}, CASE kind = "keyboard" -> [i \in 1 .. 6 |-> 0]
               [] kind = "mouse" -> <<0, 0, 0>>
               [] OTHER -> <<0>>)

------------------------------------------------------------------------------
(* BLEKeyboard: asciiMap gives a character's key and whether it is shifted. *)
SHIFT == 128
KEYCODE_MOD_LEFT_SHIFT == <<"bit", 2>>
SYSCTRLKEY_POWER == 1

Punctuation ==
  << <<8, 42>>, <<9, 43>>, <<10, 40>>, <<32, 44>>, <<33, 30 + SHIFT>>, <<34, 52 + SHIFT>>,
     <<35, 32 + SHIFT>>, <<36, 33 + SHIFT>>, <<37, 34 + SHIFT>>, <<38, 36 + SHIFT>>,
     <<39, 52>>, <<40, 38 + SHIFT>>, <<41, 39 + SHIFT>>, <<42, 37 + SHIFT>>,
     <<43, 46 + SHIFT>>, <<44, 54>>, <<45, 45>>, <<46, 55>>, <<47, 56>>, <<48, 39>>,
     <<58, 51 + SHIFT>>, <<59, 51>>, <<60, 54 + SHIFT>>, <<61, 46>>, <<62, 55 + SHIFT>>,
     <<63, 56 + SHIFT>>, <<64, 31 + SHIFT>>, <<91, 47>>, <<92, 49>>, <<93, 48>>,
     <<94, 35 + SHIFT>>, <<95, 45 + SHIFT>>, <<96, 53>>, <<123, 47 + SHIFT>>,
     <<124, 49 + SHIFT>>, <<125, 48 + SHIFT>>, <<126, 53 + SHIFT>> >>

asciiMap(k) ==
  CASE k \in 49 .. 57  -> 30 + k - 49
    [] k \in 65 .. 90  -> 4 + k - 65 + SHIFT
    [] k \in 97 .. 122 -> 4 + k - 97
    [] OTHER -> LET found == {i \in DOMAIN Punctuation : Punctuation[i][1] = k}
                IN  IF found = {} THEN 0 ELSE Punctuation[CHOOSE i \in found : TRUE][2]

keyToCodeAndModifier(k) ==
  LET code == IF k < 128 THEN asciiMap(k) ELSE 0
  IN  [code |-> code % SHIFT,
       modifiers |-> IF code >= SHIFT THEN {KEYCODE_MOD_LEFT_SHIFT} ELSE {}]

(* The first slot that holds a code; 0 stands for a free one.              *)
Slots(report, code) == {i \in DOMAIN report.bytes : report.bytes[i] = code}
FirstSlot(report, code) ==
  CHOOSE i \in Slots(report, code) : \A j \in Slots(report, code) : i <= j

(* Whether press and release do anything, and the report they leave.       *)
Presses(report, code, modifiers) ==
  IF code = 0 THEN modifiers # {} ELSE Slots(report, 0) # {}

pressOver(report, code, modifiers) ==
  [bits |-> report.bits \cup modifiers,
   bytes |-> IF code = 0 THEN report.bytes ELSE [report.bytes EXCEPT ![1] = code]]

press(report, code, modifiers) ==
  [bits |-> report.bits \cup modifiers,
   bytes |-> IF code = 0 THEN report.bytes
             ELSE [report.bytes EXCEPT ![FirstSlot(report, 0)] = code]]

Releases(report, code, modifiers) ==
  IF code = 0 THEN modifiers # {} ELSE Slots(report, code) # {}

release(report, code, modifiers) ==
  [bits |-> report.bits \ modifiers,
   bytes |-> IF code = 0 THEN report.bytes
             ELSE [report.bytes EXCEPT ![FirstSlot(report, code)] = 0]]

------------------------------------------------------------------------------
(* The reports that a call sends, in order; the last one is what the       *)
(* device's report is from then on.                                        *)
Pressing(report, code, modifiers) ==
  IF Presses(report, code, modifiers) THEN <<press(report, code, modifiers)>> ELSE << >>

Releasing(report, code, modifiers) ==
  IF Releases(report, code, modifiers) THEN <<release(report, code, modifiers)>> ELSE << >>

(* BLEKeyboard::write releases what it could press.                        *)
Typing(report, k) ==
  LET key == keyToCodeAndModifier(k)
      pressed == Pressing(report, key.code, key.modifiers)
  IN  IF pressed = << >> THEN << >>
      ELSE pressed \o Releasing(pressed[1], key.code, key.modifiers)

(* BLEMouse: a move is sent with the buttons that are down.                *)
Moving(report, x, y, wheel) == <<Report(report.bits, <<x, y, wheel>>)>>
ButtonPressed(report, button) == <<Report(report.bits \cup {button}, <<0, 0, 0>>)>>
ButtonReleased(report, button) == <<Report(report.bits \ {button}, <<0, 0, 0>>)>>
Clicking(report, button) ==
  ButtonPressed(report, button) \o ButtonReleased(ButtonPressed(report, button)[1], button)

(* BLEMultimedia and BLESystemControl: the key, then none.                 *)
MultimediaWritten(k) == <<Report({}, <<k>>), Report({}, <<0>>)>>
SystemControlWritten(k) == <<Report({}, <<k>>), Report({}, <<0>>)>>

------------------------------------------------------------------------------
(* Report descriptors: their lengths, and the offset of the report id.     *)
DescriptorLength(kind) ==
  CASE kind = "keyboard" -> 49 [] kind = "mouse" -> 52
    [] kind = "multimedia" -> 25 [] kind = "systemControl" -> 29
reportIdOffset(kind) == IF kind = "mouse" THEN 11 ELSE 7

(* What a descriptor tells the host about the bytes after the bits: how    *)
(* many keys it has to look for there.                                     *)
KeysDescribed(kind) ==
  CASE kind = "keyboard" -> 5 [] kind = "mouse" -> 0
    [] kind = "multimedia" -> 1 [] kind = "systemControl" -> 1

addHID(i, idOffset) == (i - 1 + idOffset) % 256

(* The report map: the descriptors of the HIDs one after the other, with   *)
(* lengths and offsets in a byte, and the ids at their places.             *)
OffsetAfter(n, kinds, k) == (n + DescriptorLength(kinds[k])) % 256
TotalOffset(kinds, i) ==
  LET total[k \in 0 .. Len(kinds)] ==
        IF k = 0 THEN 0 ELSE OffsetAfter(total[k - 1], kinds, k)
  IN  total[i - 1]

ReportMapSize(kinds) == TotalOffset(kinds, Len(kinds) + 1)

ReportIdAt(kinds, idOffset, offset) ==
  LET at == {i \in DOMAIN kinds :
               offset \in TotalOffset(kinds, i) .. TotalOffset(kinds, i) + DescriptorLength(kinds[i]) - 1}
      i == CHOOSE j \in at : \A k \in at : j <= k
  IN  IF at # {} /\ offset - TotalOffset(kinds, i) = reportIdOffset(kinds[i])
      THEN addHID(i, idOffset) ELSE -1

(* The HID whose reports have an id, as the host finds it in the map.      *)
Described(kinds, idOffset, id) ==
  {i \in DOMAIN kinds :
     /\ TotalOffset(kinds, i) + reportIdOffset(kinds[i]) < ReportMapSize(kinds)
     /\ ReportIdAt(kinds, idOffset, TotalOffset(kinds, i) + reportIdOffset(kinds[i])) = id}

(* The system controls a descriptor lists for 1, 2 and 3, in two bits:     *)
(* Sleep, Power and Wakeup.  The header's names for them are others.       *)
SystemUsages == <<130, 129, 131>>

Usage(kind, byte) ==
  IF kind # "systemControl" THEN byte
  ELSE IF byte % 4 = 0 THEN 0 ELSE SystemUsages[byte % 4]

(* What the host makes of a report.                                        *)
Read(kind, report) ==
  report.bits \cup ({<<"key", Usage(kind, report.bytes[i])>> : i \in 1 .. KeysDescribed(kind)}
                      \ {<<"key", 0>>})
==============================================================================
