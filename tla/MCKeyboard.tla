----------------------------- MODULE MCKeyboard -----------------------------
(* Which keys are pressed; every other bound is in the configurations.       *)
EXTENDS Keyboard
(* a / enter keypad-enter ctrl, overlapping; enter, b, volume up, the         *)
(* keypad's 7 and Print Screen, overlapping; pairs of keys of every kind;     *)
(* every key there is; c d space / enter.                                     *)
Mixed == [keys |-> {30, 53, 28, KeypadEnter, 29}, presses |-> 4]
Awkward == [keys |-> {28, 48, 1048, 71, PrintScreen}, presses |-> 3]
ReadablePair == [keys |-> {1, 2, 13, 16, 28, 41, 42, 53, 59, KeypadEnter, KeypadSlash,
                           1056, 1071, 1109, PrintScreen, PauseKey}, presses |-> 2]
EveryKey == [keys |-> AllKeys, presses |-> 1]
EveryReadable == [keys |-> ReadableKeys, presses |-> 1]
MCSessions == {Mixed, Awkward, ReadablePair, EveryKey, EveryReadable}
CdSessions == {[keys |-> {46, 32, SpaceKey, 53, 28}, presses |-> 5]}
=============================================================================
