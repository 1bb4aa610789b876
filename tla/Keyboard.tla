------------------------------ MODULE Keyboard ------------------------------
(***************************************************************************)
(* Console input: the PS/2 controller's queue of set-1 scan codes,         *)
(* keyboard_read, which polls it and decodes one code at a time, and       *)
(* syscall_read, which fills the caller's buffer up to Enter.  Keys are     *)
(* pressed and released in any overlapping order, between reads too, and    *)
(* the controller drops what does not fit its queue.                        *)
(***************************************************************************)
EXTENDS Integers, FiniteSets, SequencesExt

CONSTANTS
    Sessions,   \* the sessions looked at: the keys pressed, and a bound on their presses
    MaxHeld,    \* bound: keys down at once
    QueueSize,  \* codes the controller holds
    Length      \* the length the program passes to read

-----------------------------------------------------------------------------
(* The keyboard (external), a US one with media keys: the codes each key     *)
(* sends, and the character printed on it without Shift, which the kernel    *)
(* does not look at.  A key is named by its code, 1000 more when the code    *)
(* follows the prefix 224.  A released key sends its code with bit 7 set.    *)
DigitRow == <<"1", "2", "3", "4", "5", "6", "7", "8", "9", "0", "-", "=">>
TopRow == <<"q", "w", "e", "r", "t", "y", "u", "i", "o", "p", "[", "]", "enter">>
HomeRow == <<"a", "s", "d", "f", "g", "h", "j", "k", "l", ";", "quote", "backquote">>
BottomRow == <<"backslash", "z", "x", "c", "v", "b", "n", "m", ",", ".", "/">>
Keypad == <<"7", "8", "9", "-", "4", "5", "6", "+", "1", "2", "3", "0", ".">>

RowKeys == (2 .. 13) \cup (16 .. 28) \cup (30 .. 41) \cup (43 .. 53)
SpaceKey == 57
KeypadKeys == {55} \cup (71 .. 83)   \* with Num Lock on
KeypadEnter == 1028
KeypadSlash == 1053
PrintedKeys == RowKeys \cup {SpaceKey, KeypadEnter, KeypadSlash} \cup KeypadKeys

Printed == [key \in PrintedKeys |->
    CASE key \in 2 .. 13 -> DigitRow[key - 1]
      [] key \in 16 .. 28 -> TopRow[key - 15]
      [] key \in 30 .. 41 -> HomeRow[key - 29]
      [] key \in 43 .. 53 -> BottomRow[key - 42]
      [] key \in 71 .. 83 -> Keypad[key - 70]
      [] key = 55 -> "*"
      [] key = SpaceKey -> "space"
      [] key = KeypadEnter -> "enter"
      [] key = KeypadSlash -> "/"]

(* Previous, next, mute, calculator, play, stop, volume and home: their code *)
(* after the prefix is that of a letter.                                     *)
MediaKeys == {1016, 1025, 1032, 1033, 1034, 1036, 1046, 1048, 1050}
PrintScreen == 2055
PauseKey == 2069

(* 1 .. 83 has Escape, Backspace, Tab, Ctrl, both Shift keys, Alt, Caps Lock, *)
(* F1 to F10 and the locks besides the printed keys.                          *)
OneCodeKeys == (1 .. 83) \cup {87, 88}
ExtendedKeys ==
    MediaKeys \cup {KeypadEnter, KeypadSlash, 1029, 1056, 1075, 1077, 1099}
    \cup (1071 .. 1073) \cup (1079 .. 1083) \cup (1091 .. 1095) \cup (1101 .. 1109)
AllKeys == OneCodeKeys \cup ExtendedKeys \cup {PrintScreen, PauseKey}

ASSUME KeyboardAssumption ==
    /\ \A s \in Sessions : s.keys \subseteq AllKeys /\ s.presses \in Nat
    /\ MaxHeld \in Nat /\ QueueSize \in Nat \ {0} /\ Length \in Nat \ {0}

MakeCodes(key) ==
    CASE key \in OneCodeKeys -> <<key>>
      [] key \in ExtendedKeys -> <<224, key - 1000>>
      [] key = PrintScreen -> <<224, 42, 224, 55>>
      [] key = PauseKey -> <<225, 29, 69, 225, 157, 197>>

BreakCodes(key) ==
    CASE key \in OneCodeKeys -> <<key + 128>>
      [] key \in ExtendedKeys -> <<224, (key - 1000) + 128>>
      [] key = PrintScreen -> <<224, 183, 224, 170>>
      [] key = PauseKey -> <<>>

(* What the user types with a key, and what the key stands for when its       *)
(* prefix is ignored.                                                         *)
Types(key) == IF key \in PrintedKeys THEN <<Printed[key]>> ELSE <<>>
Strikes(key) == IF key \in MediaKeys THEN <<Printed[key - 1000]>> ELSE Types(key)

VARIABLES
    session,  \* which keys this session presses, and how many times
    held,     \* keys that are down
    presses,  \* how many presses so far
    typed,    \* the characters of the keys pressed
    struck,   \* the same, with the letter of each media key pressed
    queue,    \* the controller's output queue
    port60,   \* the byte last read at port 0x60
    lost,     \* whether the controller dropped a code
    reading,  \* whether a read is in progress
    buffer,   \* what the read has stored so far
    reads     \* the results of the reads that returned

vars == <<session, held, presses, typed, struck, queue, port60, lost, reading, buffer, reads>>

Init ==
    /\ session \in Sessions
    /\ held = {} /\ presses = 0 /\ typed = <<>> /\ struck = <<>>
    /\ queue = <<>> /\ port60 = 0 /\ lost = FALSE
    /\ reading = FALSE /\ buffer = <<>> /\ reads = <<>>

Sent(codes) ==
    LET all == queue \o codes IN
    /\ queue' = SubSeq(all, 1, IF Len(all) > QueueSize THEN QueueSize ELSE Len(all))
    /\ lost' = (lost \/ Len(all) > QueueSize)

Press(key) ==
    /\ presses < session.presses /\ Cardinality(held) < MaxHeld /\ key \notin held
    /\ held' = held \cup {key}
    /\ presses' = presses + 1
    /\ typed' = typed \o Types(key)
    /\ struck' = struck \o Strikes(key)
    /\ Sent(MakeCodes(key))
    /\ UNCHANGED <<session, port60, reading, buffer, reads>>

Release(key) ==
    /\ key \in held
    /\ held' = held \ {key}
    /\ Sent(BreakCodes(key))
    /\ UNCHANGED <<session, presses, typed, struck, port60, reading, buffer, reads>>

-----------------------------------------------------------------------------
(* keyboard_read.                                                            *)
Unmapped == "?"

keymap == <<"?", "?", "1", "2", "3", "4", "5", "6", "7", "8", "9", "0", "-", "=", "?", "?",
            "q", "w", "e", "r", "t", "y", "u", "i", "o", "p", "[", "]", "?", "?",
            "a", "s", "d", "f", "g", "h", "j", "k", "l", ";", "quote", "backquote", "?",
            "backslash", "z", "x", "c", "v", "b", "n", "m", ",", ".", "/">>

Decode_bothEdges(scan) ==
    IF scan % 128 >= Len(keymap) THEN Unmapped
    ELSE IF scan % 128 = 28 THEN "enter"
    ELSE keymap[(scan % 128) + 1]

(* The character of a scan code, Unmapped when keyboard_read skips it. *)
Decode(scan) ==
    IF scan >= 128 \/ scan >= Len(keymap) THEN Unmapped
    ELSE IF scan = 28 THEN "enter"
    ELSE IF scan = 57 THEN "space"
    ELSE keymap[scan + 1]

ReadDone_full(bytes) == Len(bytes) = Length

(* syscall_read returns at Enter or when the buffer is full. *)
ReadDone(bytes) == Last(bytes) = "enter" \/ Len(bytes) = Length

StartRead ==
    /\ ~reading
    /\ reading' = TRUE
    /\ buffer' = <<>>
    /\ UNCHANGED <<session, held, presses, typed, struck, queue, port60, lost, reads>>

Store(c) ==
    IF c = Unmapped THEN UNCHANGED <<reading, buffer, reads>>
    ELSE LET bytes == Append(buffer, c) IN
         IF ReadDone(bytes)
         THEN reading' = FALSE /\ buffer' = <<>> /\ reads' = Append(reads, bytes)
         ELSE reading' = TRUE /\ buffer' = bytes /\ reads' = reads

Poll_noStatus ==
    /\ reading
    /\ port60' = IF queue = <<>> THEN port60 ELSE Head(queue)
    /\ queue' = IF queue = <<>> THEN queue ELSE Tail(queue)
    /\ Store(Decode(port60'))
    /\ UNCHANGED <<session, held, presses, typed, struck, lost>>

(* One turn of the polling loop that finds the controller's status bit set. *)
Poll ==
    /\ reading
    /\ queue # <<>>
    /\ port60' = Head(queue)
    /\ queue' = Tail(queue)
    /\ Store(Decode(Head(queue)))
    /\ UNCHANGED <<session, held, presses, typed, struck, lost>>

Next == StartRead \/ Poll \/ \E key \in session.keys : Press(key) \/ Release(key)

(* The program reads again after every read and the loop polls for ever; the *)
(* user need not type.                                                       *)
Spec == Init /\ [][Next]_vars /\ WF_vars(StartRead) /\ WF_vars(Poll)
-----------------------------------------------------------------------------
Delivered == FlattenSeq(reads) \o buffer

MaxPresses == CHOOSE n \in {s.presses : s \in Sessions} : \A s \in Sessions : s.presses <= n
Enters(s) == Cardinality({i \in DOMAIN s : s[i] = "enter"})

(* Types: the controller's queue and the caller's buffer keep their bounds.  *)
TypeOK ==
    /\ held \subseteq session.keys /\ Cardinality(held) <= MaxHeld
    /\ Len(queue) <= QueueSize /\ \A i \in DOMAIN queue : queue[i] \in 0 .. 255
    /\ port60 \in 0 .. 255
    /\ lost \in BOOLEAN /\ reading \in BOOLEAN
    /\ Len(buffer) < Length
    /\ \A i \in DOMAIN reads : Len(reads[i]) \in 1 .. Length

(* When the controller dropped nothing and is drained by a read, the program  *)
(* has received exactly the characters typed, in order and once each,         *)
(* whichever keys overlap and wherever the reads begin and end.               *)
ExactText == reading /\ queue = <<>> /\ ~lost => Delivered = typed

(* The printed keys whose code lies beyond keymap.                            *)
SilentKeys == {SpaceKey} \cup KeypadKeys
ReadableKeys == AllKeys \ (SilentKeys \cup MediaKeys)

(* With every key but the space bar, the keypad's own characters and the      *)
(* media keys, that is so: modifiers, function keys, navigation keys, the     *)
(* keypad's Enter and slash behind their prefix, and every release deliver    *)
(* what they should, which is mostly nothing.                                 *)
ExactReadable == session.keys \subseteq ReadableKeys => ExactText

(* Whatever the controller dropped, even a prefix without its code, what the  *)
(* program received is the text typed with characters missing, but for the    *)
(* letters of media keys, whose prefix keyboard_read ignores: nothing else is *)
(* invented, repeated or out of order, and each press gives one letter.       *)
NothingInvented ==
    \E kept \in SUBSET (DOMAIN struck) :
        /\ Cardinality(kept) = Len(Delivered)
        /\ \A i \in kept : struck[i] = Delivered[Cardinality({j \in kept : j <= i})]

(* A read ends only with Enter as its last byte, or full: no line is cut      *)
(* short and no two lines are merged in one result.                           *)
ReadsAreLines ==
    \A i \in DOMAIN reads :
        /\ Last(reads[i]) = "enter" \/ Len(reads[i]) = Length
        /\ \A j \in 1 .. Len(reads[i]) - 1 : reads[i][j] # "enter"

(* An Enter that reached the queue ends a read: every line typed is handed to *)
(* the program, however its keys overlapped with earlier reads.               *)
EnterEndsRead ==
    \A n \in 1 .. MaxPresses : (Enters(typed) >= n) ~> (lost \/ Enters(FlattenSeq(reads)) >= n)
=============================================================================
