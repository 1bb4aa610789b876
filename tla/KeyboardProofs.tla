--------------------------- MODULE KeyboardProofs ---------------------------
(* Machine-checked proofs about console input: what the reads deliver is what *)
(* was typed, for every set of sessions, every queue size and every length    *)
(* passed to read.                                                            *)
EXTENDS Keyboard, FiniteSetTheorems, WellFoundedInduction, TLAPS

-----------------------------------------------------------------------------
(* Induction over the natural numbers, for a set: the well-foundedness of <   *)
(* gives a least number outside it.                                          *)
LEMMA NatSetInduction ==
    ASSUME NEW S, 0 \in S, \A n \in Nat : n \in S => n + 1 \in S
    PROVE  Nat \subseteq S
<1> DEFINE R == OpToRel(<, Nat)
           T == Nat \ S
<1>1. IsWellFoundedOn(R, Nat)
  BY NatLessThanWellFounded
<1>2. \A x, y \in Nat : y < x => <<y, x>> \in R
  BY DEF OpToRel
<1> HIDE DEF R
<1>3. ASSUME T # {} PROVE FALSE
  <2>1. T \subseteq Nat
    OBVIOUS
  <2> HIDE DEF T
  <2>2. \E x \in T : \A y \in T : ~(<<y, x>> \in R)
    BY <1>1, <1>3, <2>1, WFMin
  <2>3. PICK x \in T : \A y \in T : ~(<<y, x>> \in R)
    BY <2>2
  <2> USE DEF T
  <2>4. x # 0 /\ x - 1 \in Nat /\ x - 1 < x /\ x = (x - 1) + 1
    BY <2>3
  <2>5. x - 1 \in S
    BY <1>2, <2>3, <2>4
  <2> QED
    BY <2>4, <2>5
<1> QED
  BY <1>3


-----------------------------------------------------------------------------
(* What FlattenSeq computes, one element at a time from the left.             *)
Flattens(seqs, n, f) ==
    f = [i \in 1 .. n |-> IF i = 1 THEN seqs[i] ELSE f[i - 1] \o seqs[i]]

(* The function exists for every length... *)
LEMMA FlattensExist ==
    ASSUME NEW S, NEW seqs \in Seq(Seq(S))
    PROVE  \A n \in Nat : n <= Len(seqs) => \E f \in [1 .. n -> Seq(S)] : Flattens(seqs, n, f)
<1> DEFINE Good == {n \in Nat : n <= Len(seqs) =>
                       \E f \in [1 .. n -> Seq(S)] : Flattens(seqs, n, f)}
<1>1. 0 \in Good
  <2>1. [i \in 1 .. 0 |-> <<>>] \in [1 .. 0 -> Seq(S)]
    OBVIOUS
  <2>2. Flattens(seqs, 0, [i \in 1 .. 0 |-> <<>>])
    BY DEF Flattens
  <2> QED
    BY <2>1, <2>2
<1>2. ASSUME NEW n \in Nat, n \in Good PROVE n + 1 \in Good
  <2> SUFFICES ASSUME n + 1 <= Len(seqs)
               PROVE  \E f \in [1 .. n + 1 -> Seq(S)] : Flattens(seqs, n + 1, f)
    OBVIOUS
  <2>1. PICK f \in [1 .. n -> Seq(S)] : Flattens(seqs, n, f)
    BY <1>2
  <2> DEFINE g == [i \in 1 .. n + 1 |->
                     IF i \in 1 .. n THEN f[i]
                     ELSE IF n = 0 THEN seqs[1] ELSE f[n] \o seqs[n + 1]]
  <2>2. \A i \in 1 .. n + 1 : seqs[i] \in Seq(S)
    OBVIOUS
  <2>3. \A a, b \in Seq(S) : a \o b \in Seq(S)
    OBVIOUS
  <2>4. \A i \in 1 .. n + 1 : g[i] \in Seq(S)
    BY <2>2, <2>3
  <2>5. g \in [1 .. n + 1 -> Seq(S)]
    BY <2>4
  <2>6. \A i \in 1 .. n : f[i] = IF i = 1 THEN seqs[i] ELSE f[i - 1] \o seqs[i]
    BY <2>1 DEF Flattens
  <2>7. \A i \in 1 .. n + 1 : g[i] = IF i = 1 THEN seqs[i] ELSE g[i - 1] \o seqs[i]
    <3> SUFFICES ASSUME NEW i \in 1 .. n + 1
                 PROVE  g[i] = IF i = 1 THEN seqs[i] ELSE g[i - 1] \o seqs[i]
      OBVIOUS
    <3>1. CASE i = 1
      <4>1. CASE n = 0
        BY <3>1, <4>1
      <4>2. CASE n # 0
        <5>1. i \in 1 .. n
          BY <3>1, <4>2
        <5> QED
          BY <3>1, <2>6, <5>1
      <4> QED
        BY <4>1, <4>2
    <3>2. CASE i # 1 /\ i \in 1 .. n
      <4>1. i - 1 \in 1 .. n /\ i - 1 \in 1 .. n + 1
        BY <3>2
      <4> QED
        BY <3>2, <2>6, <4>1
    <3>3. CASE i # 1 /\ i = n + 1
      <4>1. i - 1 = n /\ n \in 1 .. n /\ n \in 1 .. n + 1 /\ n # 0 /\ n + 1 \notin 1 .. n
        BY <3>3
      <4>2. g[n] = f[n] /\ g[n + 1] = f[n] \o seqs[n + 1]
        BY <4>1
      <4> QED
        BY <3>3, <4>1, <4>2
    <3> QED
      BY <3>1, <3>2, <3>3
  <2> HIDE DEF g
  <2>8. Flattens(seqs, n + 1, g)
    BY <2>5, <2>7 DEF Flattens
  <2> QED
    BY <2>5, <2>8
<1> HIDE DEF Good
<1>3. Nat \subseteq Good
  BY <1>1, <1>2, NatSetInduction
<1> QED
  BY <1>3 DEF Good

(* ... and FlattenSeq is its last value. *)
LEMMA FlattenIs ==
    ASSUME NEW S, NEW seqs \in Seq(Seq(S)), Len(seqs) # 0
    PROVE  \E f \in [1 .. Len(seqs) -> Seq(S)] :
              Flattens(seqs, Len(seqs), f) /\ FlattenSeq(seqs) = f[Len(seqs)]
<1> DEFINE h == CHOOSE f : Flattens(seqs, Len(seqs), f)
<1>1. Len(seqs) \in Nat /\ Len(seqs) <= Len(seqs)
  OBVIOUS
<1>2. PICK f \in [1 .. Len(seqs) -> Seq(S)] : Flattens(seqs, Len(seqs), f)
  BY <1>1, FlattensExist
<1>3. Flattens(seqs, Len(seqs), h)
  BY <1>2
<1>4. FlattenSeq(seqs) = h[Len(seqs)]
  BY DEF FlattenSeq, Flattens
<1> HIDE DEF h
<1>5. DOMAIN h = 1 .. Len(seqs)
      /\ \A i \in 1 .. Len(seqs) : h[i] = IF i = 1 THEN seqs[i] ELSE h[i - 1] \o seqs[i]
  BY <1>3 DEF Flattens
<1>6. h = [i \in 1 .. Len(seqs) |-> h[i]]
  BY <1>3 DEF Flattens
<1>7. \A i \in 1 .. Len(seqs) : h[i] \in Seq(S)
  <2> DEFINE Good == {n \in Nat : n \in 1 .. Len(seqs) => h[n] \in Seq(S)}
  <2>1. 0 \in Good
    OBVIOUS
  <2>2. ASSUME NEW n \in Nat, n \in Good PROVE n + 1 \in Good
    <3> SUFFICES ASSUME n + 1 \in 1 .. Len(seqs)
                 PROVE  h[n + 1] \in Seq(S)
      OBVIOUS
    <3>1. seqs[n + 1] \in Seq(S)
      OBVIOUS
    <3>2. CASE n = 0
      <4>1. n + 1 = 1
        BY <3>2
      <4>2. h[n + 1] = seqs[n + 1]
        BY <1>5, <4>1
      <4> QED
        BY <3>1, <4>2
    <3>3. CASE n # 0
      <4>1. n \in 1 .. Len(seqs) /\ (n + 1) - 1 = n /\ n + 1 # 1
        BY <3>3
      <4>2. h[n] \in Seq(S)
        BY <2>2, <4>1
      <4>3. h[n + 1] = h[n] \o seqs[n + 1]
        BY <1>5, <4>1
      <4> QED
        BY <3>1, <4>2, <4>3
    <3> QED
      BY <3>2, <3>3
  <2> HIDE DEF Good
  <2>3. Nat \subseteq Good
    BY <2>1, <2>2, NatSetInduction
  <2> QED
    BY <1>1, <2>3 DEF Good
<1>8. h \in [1 .. Len(seqs) -> Seq(S)]
  BY <1>6, <1>7
<1> QED
  BY <1>3, <1>4, <1>8

(* A read's result goes at the end of the text of the earlier ones. *)
LEMMA FlattenAppend ==
    ASSUME NEW S, NEW r \in Seq(Seq(S)), NEW b \in Seq(S)
    PROVE  /\ FlattenSeq(r) \in Seq(S)
           /\ FlattenSeq(Append(r, b)) = FlattenSeq(r) \o b
<1> DEFINE n == Len(r)
           q == Append(r, b)
<1>1. n \in Nat /\ n = Len(r) /\ q \in Seq(Seq(S)) /\ Len(q) = n + 1 /\ q[n + 1] = b
      /\ (\A i \in 1 .. n : q[i] = r[i])
  OBVIOUS
<1> HIDE DEF n, q
<1>2. PICK f \in [1 .. n + 1 -> Seq(S)] : Flattens(q, n + 1, f) /\ FlattenSeq(q) = f[n + 1]
  <2>1. q \in Seq(Seq(S)) /\ Len(q) # 0 /\ Len(q) = n + 1
    BY <1>1
  <2>2. \E f \in [1 .. Len(q) -> Seq(S)] :
           Flattens(q, Len(q), f) /\ FlattenSeq(q) = f[Len(q)]
    BY <2>1, FlattenIs
  <2> QED
    BY <2>1, <2>2
<1>3. \A i \in 1 .. n + 1 : f[i] = IF i = 1 THEN q[i] ELSE f[i - 1] \o q[i]
  BY <1>2 DEF Flattens
<1>4. CASE n = 0
  <2>1. r = <<>> /\ FlattenSeq(r) = <<>>
    <3>1. Len(r) = 0
      BY <1>1, <1>4
    <3>2. r = <<>>
      BY <3>1
    <3> QED
      BY <3>1, <3>2 DEF FlattenSeq
  <2>2. FlattenSeq(q) = b
    BY <1>1, <1>2, <1>3, <1>4
  <2> QED
    <3>1. <<>> \in Seq(S) /\ <<>> \o b = b
      OBVIOUS
    <3> QED
      BY <2>1, <2>2, <3>1 DEF q
<1>5. CASE n # 0
  <2>1. PICK g \in [1 .. n -> Seq(S)] : Flattens(r, n, g) /\ FlattenSeq(r) = g[n]
    BY <1>1, <1>5, FlattenIs
  <2>2. \A i \in 1 .. n : g[i] = IF i = 1 THEN r[i] ELSE g[i - 1] \o r[i]
    BY <2>1 DEF Flattens
  <2> DEFINE Good == {k \in Nat : k \in 1 .. n => f[k] = g[k]}
  <2>3. 0 \in Good
    OBVIOUS
  <2>4. ASSUME NEW k \in Nat, k \in Good PROVE k + 1 \in Good
    <3> SUFFICES ASSUME k + 1 \in 1 .. n PROVE f[k + 1] = g[k + 1]
      OBVIOUS
    <3>1. q[k + 1] = r[k + 1] /\ k + 1 \in 1 .. n + 1
      BY <1>1
    <3>2. CASE k = 0
      <4>1. k + 1 = 1
        BY <3>2
      <4>2. f[k + 1] = q[k + 1]
        BY <1>3, <3>1, <4>1
      <4>3. g[k + 1] = r[k + 1]
        BY <2>2, <4>1
      <4> QED
        BY <3>1, <4>2, <4>3
    <3>3. CASE k # 0
      <4>1. k \in 1 .. n /\ (k + 1) - 1 = k /\ k + 1 # 1
        <5>1. n \in Nat /\ k \in Nat /\ k + 1 <= n
          BY <1>1
        <5> QED
          BY <3>3, <5>1
      <4>2. f[k] = g[k]
        BY <2>4, <4>1
      <4>3. f[k + 1] = f[k] \o q[k + 1]
        BY <1>3, <3>1, <4>1
      <4>4. g[k + 1] = g[k] \o r[k + 1]
        BY <2>2, <4>1
      <4> QED
        BY <3>1, <4>2, <4>3, <4>4
    <3> QED
      BY <3>2, <3>3
  <2> HIDE DEF Good
  <2>5. Nat \subseteq Good
    BY <2>3, <2>4, NatSetInduction
  <2>6. f[n] = g[n] /\ n \in 1 .. n /\ g[n] \in Seq(S)
    <3>1. n \in 1 .. n /\ n \in Good
      BY <1>1, <1>5, <2>5
    <3> QED
      BY <3>1 DEF Good
  <2>7. f[n + 1] = f[n] \o b
    <3>1. n + 1 \in 1 .. n + 1 /\ n + 1 # 1 /\ (n + 1) - 1 = n
      BY <1>1, <1>5
    <3> QED
      BY <1>1, <1>3, <3>1
  <2> QED
    BY <1>2, <2>1, <2>6, <2>7 DEF q
<1> QED
  BY <1>4, <1>5

-----------------------------------------------------------------------------
(* The characters a read gets from one code: one, or none.                    *)
Chars(code) == IF Decode(code) = Unmapped THEN <<>> ELSE <<Decode(code)>>

Code == 0 .. 255

(* The characters a read can deliver, and those the keys print. *)
Char == {Decode(code) : code \in Code} \cup {Printed[key] : key \in PrintedKeys} \cup {"enter"}

(* What a read gets from a code is text. *)
LEMMA CharsType == \A code \in Code : Chars(code) \in Seq(Char)
<1> SUFFICES ASSUME NEW code \in Code PROVE Chars(code) \in Seq(Char)
  OBVIOUS
<1>1. Decode(code) \in Char
  BY DEF Char
<1>2. <<>> \in Seq(Char) /\ <<Decode(code)>> \in Seq(Char)
  BY <1>1
<1> QED
  BY <1>2 DEF Chars

(* The i-th key of a row prints what keymap has for its code. *)
Prints(row, i, code) == row[i] = keymap[code + 1] /\ row[i] # Unmapped

(* The rows of the keyboard against keymap, key by key. *)
LEMMA DigitRowPrints == \A key \in 2 .. 13 : Prints(DigitRow, key - 1, key)
<1>1. Prints(DigitRow, 1, 2) /\ Prints(DigitRow, 2, 3) /\ Prints(DigitRow, 3, 4) /\ Prints(DigitRow, 4, 5)
  BY DEF Prints, DigitRow, keymap, Unmapped
<1>2. Prints(DigitRow, 5, 6) /\ Prints(DigitRow, 6, 7) /\ Prints(DigitRow, 7, 8) /\ Prints(DigitRow, 8, 9)
  BY DEF Prints, DigitRow, keymap, Unmapped
<1>3. Prints(DigitRow, 9, 10) /\ Prints(DigitRow, 10, 11) /\ Prints(DigitRow, 11, 12) /\ Prints(DigitRow, 12, 13)
  BY DEF Prints, DigitRow, keymap, Unmapped
<1> SUFFICES ASSUME NEW key \in 2 .. 13 PROVE Prints(DigitRow, key - 1, key)
  OBVIOUS
<1>4. CASE key = 2 \/ key = 3 \/ key = 4 \/ key = 5
  BY <1>1, <1>4
<1>5. CASE key = 6 \/ key = 7 \/ key = 8 \/ key = 9
  BY <1>2, <1>5
<1>6. CASE key = 10 \/ key = 11 \/ key = 12 \/ key = 13
  BY <1>3, <1>6
<1> QED
  BY <1>4, <1>5, <1>6

LEMMA TopRowPrints == \A key \in 16 .. 27 : Prints(TopRow, key - 15, key)
<1>1. Prints(TopRow, 1, 16) /\ Prints(TopRow, 2, 17) /\ Prints(TopRow, 3, 18) /\ Prints(TopRow, 4, 19)
  BY DEF Prints, TopRow, keymap, Unmapped
<1>2. Prints(TopRow, 5, 20) /\ Prints(TopRow, 6, 21) /\ Prints(TopRow, 7, 22) /\ Prints(TopRow, 8, 23)
  BY DEF Prints, TopRow, keymap, Unmapped
<1>3. Prints(TopRow, 9, 24) /\ Prints(TopRow, 10, 25) /\ Prints(TopRow, 11, 26) /\ Prints(TopRow, 12, 27)
  BY DEF Prints, TopRow, keymap, Unmapped
<1> SUFFICES ASSUME NEW key \in 16 .. 27 PROVE Prints(TopRow, key - 15, key)
  OBVIOUS
<1>4. CASE key = 16 \/ key = 17 \/ key = 18 \/ key = 19
  BY <1>1, <1>4
<1>5. CASE key = 20 \/ key = 21 \/ key = 22 \/ key = 23
  BY <1>2, <1>5
<1>6. CASE key = 24 \/ key = 25 \/ key = 26 \/ key = 27
  BY <1>3, <1>6
<1> QED
  BY <1>4, <1>5, <1>6

LEMMA HomeRowPrints == \A key \in 30 .. 41 : Prints(HomeRow, key - 29, key)
<1>1. Prints(HomeRow, 1, 30) /\ Prints(HomeRow, 2, 31) /\ Prints(HomeRow, 3, 32) /\ Prints(HomeRow, 4, 33)
  BY DEF Prints, HomeRow, keymap, Unmapped
<1>2. Prints(HomeRow, 5, 34) /\ Prints(HomeRow, 6, 35) /\ Prints(HomeRow, 7, 36) /\ Prints(HomeRow, 8, 37)
  BY DEF Prints, HomeRow, keymap, Unmapped
<1>3. Prints(HomeRow, 9, 38) /\ Prints(HomeRow, 10, 39) /\ Prints(HomeRow, 11, 40) /\ Prints(HomeRow, 12, 41)
  BY DEF Prints, HomeRow, keymap, Unmapped
<1> SUFFICES ASSUME NEW key \in 30 .. 41 PROVE Prints(HomeRow, key - 29, key)
  OBVIOUS
<1>4. CASE key = 30 \/ key = 31 \/ key = 32 \/ key = 33
  BY <1>1, <1>4
<1>5. CASE key = 34 \/ key = 35 \/ key = 36 \/ key = 37
  BY <1>2, <1>5
<1>6. CASE key = 38 \/ key = 39 \/ key = 40 \/ key = 41
  BY <1>3, <1>6
<1> QED
  BY <1>4, <1>5, <1>6

LEMMA BottomRowPrints == \A key \in 43 .. 53 : Prints(BottomRow, key - 42, key)
<1>1. Prints(BottomRow, 1, 43) /\ Prints(BottomRow, 2, 44) /\ Prints(BottomRow, 3, 45) /\ Prints(BottomRow, 4, 46)
  BY DEF Prints, BottomRow, keymap, Unmapped
<1>2. Prints(BottomRow, 5, 47) /\ Prints(BottomRow, 6, 48) /\ Prints(BottomRow, 7, 49) /\ Prints(BottomRow, 8, 50)
  BY DEF Prints, BottomRow, keymap, Unmapped
<1>3. Prints(BottomRow, 9, 51) /\ Prints(BottomRow, 10, 52) /\ Prints(BottomRow, 11, 53)
  BY DEF Prints, BottomRow, keymap, Unmapped
<1> SUFFICES ASSUME NEW key \in 43 .. 53 PROVE Prints(BottomRow, key - 42, key)
  OBVIOUS
<1>4. CASE key = 43 \/ key = 44 \/ key = 45 \/ key = 46
  BY <1>1, <1>4
<1>5. CASE key = 47 \/ key = 48 \/ key = 49 \/ key = 50
  BY <1>2, <1>5
<1>6. CASE key = 51 \/ key = 52 \/ key = 53
  BY <1>3, <1>6
<1> QED
  BY <1>4, <1>5, <1>6

(* keymap agrees with the keys of every row. *)
LEMMA RowsAgree ==
    \A key \in RowKeys : Decode(key) = Printed[key] /\ Printed[key] # Unmapped
<1> SUFFICES ASSUME NEW key \in RowKeys
             PROVE  Decode(key) = Printed[key] /\ Printed[key] # Unmapped
  OBVIOUS
<1>1. Len(keymap) = 54
  BY DEF keymap
<1>2. key # 28 => Decode(key) = keymap[key + 1]
  BY <1>1 DEF Decode, RowKeys
<1>3. CASE key \in 2 .. 13
  <2>1. Printed[key] = DigitRow[key - 1]
    BY <1>3 DEF Printed, PrintedKeys, RowKeys, KeypadKeys, SpaceKey, KeypadEnter, KeypadSlash
  <2> QED
    BY <1>2, <1>3, <2>1, DigitRowPrints DEF Prints
<1>4. CASE key \in 16 .. 27
  <2>1. Printed[key] = TopRow[key - 15]
    BY <1>4 DEF Printed, PrintedKeys, RowKeys, KeypadKeys, SpaceKey, KeypadEnter, KeypadSlash
  <2> QED
    BY <1>2, <1>4, <2>1, TopRowPrints DEF Prints
<1>5. CASE key = 28
  <2>1. Printed[28] = TopRow[13] /\ TopRow[13] = "enter"
    BY DEF Printed, PrintedKeys, RowKeys, TopRow, KeypadKeys, SpaceKey, KeypadEnter, KeypadSlash
  <2> QED
    BY <1>1, <1>5, <2>1 DEF Decode, Unmapped
<1>6. CASE key \in 30 .. 41
  <2>1. Printed[key] = HomeRow[key - 29]
    BY <1>6 DEF Printed, PrintedKeys, RowKeys, KeypadKeys, SpaceKey, KeypadEnter, KeypadSlash
  <2> QED
    BY <1>2, <1>6, <2>1, HomeRowPrints DEF Prints
<1>7. CASE key \in 43 .. 53
  <2>1. Printed[key] = BottomRow[key - 42]
    BY <1>7 DEF Printed, PrintedKeys, RowKeys, KeypadKeys, SpaceKey, KeypadEnter, KeypadSlash
  <2> QED
    BY <1>2, <1>7, <2>1, BottomRowPrints DEF Prints
<1> QED
  BY <1>3, <1>4, <1>5, <1>6, <1>7 DEF RowKeys

(* keyboard_read skips the codes beyond keymap, and those it has no character *)
(* for.                                                                       *)
LEMMA SilentCodes ==
    /\ \A code \in 54 .. 255 : Chars(code) = <<>>
    /\ \A code \in {1, 14, 15, 29, 42} : Chars(code) = <<>>
<1>1. Len(keymap) = 54
  BY DEF keymap
<1>2. \A code \in 54 .. 255 : Decode(code) = Unmapped
  BY <1>1 DEF Decode
<1>3. Decode(1) = Unmapped /\ Decode(14) = Unmapped /\ Decode(15) = Unmapped
  BY DEF Decode, keymap, Unmapped
<1>4. Decode(29) = Unmapped /\ Decode(42) = Unmapped
  BY DEF Decode, keymap, Unmapped
<1> QED
  BY <1>2, <1>3, <1>4 DEF Chars

LEMMA RowChars == \A key \in RowKeys : Chars(key) = <<Printed[key]>> /\ key \in Code
<1> SUFFICES ASSUME NEW key \in RowKeys
             PROVE  Chars(key) = <<Printed[key]>> /\ key \in Code
  OBVIOUS
<1>1. Chars(key) = <<Printed[key]>>
  BY RowsAgree DEF Chars
<1>2. key \in Code
  BY DEF Code, RowKeys
<1> QED
  BY <1>1, <1>2

(* Codes none of which decodes to a character. *)
Silent(codes) == codes \in Seq(Code) /\ \A i \in 1 .. Len(codes) : Chars(codes[i]) = <<>>

(* Short runs of silent codes. *)
LEMMA SilentRuns ==
    /\ Silent(<<>>)
    /\ \A a \in Code : Chars(a) = <<>> => Silent(<<a>>)
    /\ \A a, b \in Code : Chars(a) = <<>> /\ Chars(b) = <<>> => Silent(<<a, b>>)
BY DEF Silent

(* Pause and Print Screen are silent from the first code to the last. *)
LEMMA LongKeys ==
    /\ Silent(<<224, 42, 224>>) /\ Silent(<<224, 183, 224, 170>>)
    /\ Silent(<<225, 29, 69, 225, 157>>)
<1>1. \A c \in {224, 42, 183, 170, 225, 29, 69, 157} : c \in Code /\ Chars(c) = <<>>
  <2> SUFFICES ASSUME NEW c \in {224, 42, 183, 170, 225, 29, 69, 157}
               PROVE  c \in Code /\ Chars(c) = <<>>
    OBVIOUS
  <2>1. c \in 54 .. 255 \/ c \in {1, 14, 15, 29, 42}
    OBVIOUS
  <2>2. Chars(c) = <<>>
    BY <2>1, SilentCodes, Zenon
  <2> QED
    BY <2>1, <2>2 DEF Code
<1>2. Silent(<<224, 42, 224>>)
  BY <1>1 DEF Silent
<1>3. Silent(<<224, 183, 224, 170>>)
  BY <1>1 DEF Silent
<1>4. Silent(<<225, 29, 69, 225, 157>>)
  BY <1>1 DEF Silent
<1> QED
  BY <1>2, <1>3, <1>4

(* What a key stands for is text. *)
LEMMA StrikesType == \A key \in AllKeys : Types(key) \in Seq(Char) /\ Strikes(key) \in Seq(Char)
<1> SUFFICES ASSUME NEW key \in AllKeys
             PROVE  Types(key) \in Seq(Char) /\ Strikes(key) \in Seq(Char)
  OBVIOUS
<1>1. \A k \in PrintedKeys : <<Printed[k]>> \in Seq(Char)
  <2> SUFFICES ASSUME NEW k \in PrintedKeys PROVE <<Printed[k]>> \in Seq(Char)
    OBVIOUS
  <2>1. Printed[k] \in Char
    BY DEF Char
  <2> QED
    BY <2>1
<1>2. <<>> \in Seq(Char)
  OBVIOUS
<1>3. Types(key) \in Seq(Char)
  BY <1>1, <1>2 DEF Types
<1>4. key \in MediaKeys => key - 1000 \in PrintedKeys
  BY DEF MediaKeys, PrintedKeys, RowKeys
<1> QED
  BY <1>1, <1>3, <1>4 DEF Strikes

(* The last code of a pressed key gives what the key stands for, or nothing   *)
(* for a key beyond keymap; the codes before it give nothing.                 *)
KeyCodes(key, before, c) ==
    /\ MakeCodes(key) = Append(before, c)
    /\ Silent(before) /\ c \in Code
    /\ key \in SilentKeys => Chars(c) = <<>>
    /\ key \notin SilentKeys => Chars(c) = Strikes(key)

LEMMA OneCodeFacts == \A key \in OneCodeKeys : KeyCodes(key, <<>>, key)
<1> SUFFICES ASSUME NEW key \in OneCodeKeys PROVE KeyCodes(key, <<>>, key)
  OBVIOUS
<1>1. MakeCodes(key) = Append(<<>>, key) /\ key \in Code /\ key \notin MediaKeys
      /\ key \notin {KeypadEnter, KeypadSlash}
  <2>1. MakeCodes(key) = <<key>>
    <3>1. key \notin ExtendedKeys /\ key # PrintScreen /\ key # PauseKey
      BY DEF OneCodeKeys, ExtendedKeys, PrintScreen, PauseKey, MediaKeys, KeypadEnter, KeypadSlash
    <3> QED
      BY <3>1 DEF MakeCodes
  <2>2. key \in Code /\ key \notin MediaKeys /\ key \notin {KeypadEnter, KeypadSlash}
    BY DEF OneCodeKeys, MediaKeys, Code, KeypadEnter, KeypadSlash
  <2> QED
    BY <2>1, <2>2
<1>2. CASE key \in RowKeys
  <2>1. key \notin SilentKeys /\ key \in PrintedKeys
    BY <1>2 DEF RowKeys, SilentKeys, SpaceKey, KeypadKeys, PrintedKeys
  <2>2. Chars(key) = Strikes(key)
    BY <1>1, <1>2, <2>1, RowChars DEF Strikes, Types
  <2> QED
    BY <1>1, <2>1, <2>2, SilentRuns DEF KeyCodes
<1>3. CASE key \in SilentKeys
  <2>1. key \in 54 .. 255
    BY <1>3 DEF SilentKeys, SpaceKey, KeypadKeys
  <2>2. Chars(key) = <<>>
    BY <2>1, SilentCodes
  <2> QED
    BY <1>1, <1>3, <2>2, SilentRuns DEF KeyCodes
<1>4. CASE key \notin RowKeys /\ key \notin SilentKeys
  <2>1. key \notin PrintedKeys
    BY <1>1, <1>4 DEF PrintedKeys, SilentKeys
  <2>2. key \in 54 .. 255 \/ key \in {1, 14, 15, 29, 42}
    BY <1>4 DEF OneCodeKeys, RowKeys
  <2>3. Chars(key) = Strikes(key)
    <3>1. Chars(key) = <<>>
      BY <2>2, SilentCodes, Zenon
    <3> QED
      BY <1>1, <2>1, <3>1 DEF Strikes, Types
  <2> QED
    BY <1>1, <1>4, <2>3, SilentRuns DEF KeyCodes
<1> QED
  BY <1>2, <1>3, <1>4

LEMMA ExtendedFacts == \A key \in ExtendedKeys : KeyCodes(key, <<224>>, key - 1000)
<1> SUFFICES ASSUME NEW key \in ExtendedKeys PROVE KeyCodes(key, <<224>>, key - 1000)
  OBVIOUS
<1>1. /\ key \notin OneCodeKeys /\ key # PrintScreen /\ key # PauseKey /\ key \notin SilentKeys
      /\ key - 1000 \in Code
  BY DEF OneCodeKeys, ExtendedKeys, PrintScreen, PauseKey, MediaKeys, KeypadEnter, KeypadSlash,
         SilentKeys, SpaceKey, KeypadKeys, Code
<1>2. MakeCodes(key) = <<224, key - 1000>>
  BY <1>1 DEF MakeCodes
<1>3. MakeCodes(key) = Append(<<224>>, key - 1000) /\ Silent(<<224>>)
  <2>1. 224 \in 54 .. 255 /\ 224 \in Code
    BY DEF Code
  <2>2. Chars(224) = <<>>
    BY <2>1, SilentCodes, Zenon
  <2>3. MakeCodes(key) = Append(<<224>>, key - 1000)
    BY <1>2
  <2> QED
    BY <2>1, <2>2, <2>3, SilentRuns
<1>4. CASE key \in MediaKeys
  <2>1. key - 1000 \in RowKeys
    BY <1>4 DEF MediaKeys, RowKeys
  <2>2. Chars(key - 1000) = Strikes(key)
    BY <1>4, <2>1, RowChars DEF Strikes
  <2> QED
    BY <1>1, <1>3, <2>2 DEF KeyCodes
<1>5. CASE key \in {KeypadEnter, KeypadSlash}
  <2>1. Strikes(key) = <<Printed[key]>>
    BY <1>5 DEF Strikes, Types, PrintedKeys, MediaKeys, KeypadEnter, KeypadSlash
  <2>2. Printed[1028] = "enter" /\ Printed[1053] = "/"
    BY DEF Printed, PrintedKeys, RowKeys, KeypadKeys, SpaceKey, KeypadEnter, KeypadSlash
  <2>3. Chars(28) = <<"enter">> /\ Chars(53) = <<"/">>
    BY DEF Chars, Decode, keymap, Unmapped
  <2>4. Chars(key - 1000) = Strikes(key)
    BY <1>5, <2>1, <2>2, <2>3 DEF KeypadEnter, KeypadSlash
  <2> QED
    BY <1>1, <1>3, <2>4 DEF KeyCodes
<1>6. CASE key \notin MediaKeys /\ key \notin {KeypadEnter, KeypadSlash}
  <2>1. key \notin PrintedKeys
    BY <1>1, <1>6 DEF PrintedKeys, RowKeys, KeypadKeys, SpaceKey, ExtendedKeys
  <2>2. key - 1000 \in 54 .. 255 \/ key - 1000 \in {1, 14, 15, 29, 42}
    BY <1>6 DEF ExtendedKeys
  <2>3. Chars(key - 1000) = Strikes(key)
    <3> DEFINE c == key - 1000
    <3>1. c \in 54 .. 255 \/ c \in {1, 14, 15, 29, 42}
      BY <2>2
    <3> HIDE DEF c
    <3>2. Chars(c) = <<>>
      BY <3>1, SilentCodes
    <3>3. Chars(key - 1000) = <<>>
      BY <3>2 DEF c
    <3> QED
      BY <1>6, <2>1, <3>3 DEF Strikes, Types
  <2> QED
    BY <1>1, <1>3, <2>3 DEF KeyCodes
<1> QED
  BY <1>4, <1>5, <1>6

(* Every key of the keyboard, pressed... *)
LEMMA PressFacts ==
    ASSUME NEW key \in AllKeys
    PROVE  \E before \in Seq(Code), c \in Code : KeyCodes(key, before, c)
<1>1. CASE key \in OneCodeKeys
  BY <1>1, OneCodeFacts, SilentRuns DEF KeyCodes, Silent
<1>2. CASE key \in ExtendedKeys
  <2>1. KeyCodes(key, <<224>>, key - 1000)
    BY <1>2, ExtendedFacts
  <2>2. key - 1000 \in Code /\ <<224>> \in Seq(Code)
    BY <2>1 DEF KeyCodes, Silent
  <2> DEFINE c == key - 1000
  <2>3. KeyCodes(key, <<224>>, c) /\ c \in Code
    BY <2>1, <2>2
  <2> HIDE DEF c
  <2> QED
    BY <2>2, <2>3
<1>3. CASE key = PrintScreen \/ key = PauseKey
  <2>1. /\ key \notin OneCodeKeys /\ key \notin ExtendedKeys /\ key \notin SilentKeys
        /\ key \notin PrintedKeys /\ key \notin MediaKeys
    BY <1>3 DEF OneCodeKeys, ExtendedKeys, PrintScreen, PauseKey, MediaKeys, KeypadEnter,
                KeypadSlash, SilentKeys, SpaceKey, KeypadKeys, PrintedKeys, RowKeys
  <2>2. Strikes(key) = <<>>
    BY <2>1 DEF Strikes, Types
  <2>3. CASE key = PrintScreen
    <3>1. MakeCodes(key) = Append(<<224, 42, 224>>, 55)
      BY <2>1, <2>3 DEF MakeCodes, PrintScreen, PauseKey
    <3>2. Chars(55) = <<>> /\ 55 \in Code
      BY SilentCodes DEF Code
    <3>3. KeyCodes(key, <<224, 42, 224>>, 55)
      BY <2>1, <2>2, <3>1, <3>2, LongKeys DEF KeyCodes
    <3> QED
      BY <3>2, <3>3 DEF KeyCodes, Silent
  <2>4. CASE key = PauseKey
    <3>1. MakeCodes(key) = Append(<<225, 29, 69, 225, 157>>, 197)
      BY <2>1, <2>4 DEF MakeCodes, PrintScreen, PauseKey
    <3>2. Chars(197) = <<>> /\ 197 \in Code
      BY SilentCodes DEF Code
    <3>3. KeyCodes(key, <<225, 29, 69, 225, 157>>, 197)
      BY <2>1, <2>2, <3>1, <3>2, LongKeys DEF KeyCodes
    <3> QED
      BY <3>2, <3>3 DEF KeyCodes, Silent
  <2> QED
    BY <1>3, <2>3, <2>4
<1> QED
  BY <1>1, <1>2, <1>3 DEF AllKeys

(* ... and released. *)
LEMMA ReleaseFacts == \A key \in AllKeys : Silent(BreakCodes(key))
<1> SUFFICES ASSUME NEW key \in AllKeys PROVE Silent(BreakCodes(key))
  OBVIOUS
<1>1. CASE key \in OneCodeKeys
  <2>1. BreakCodes(key) = <<key + 128>> /\ key + 128 \in 54 .. 255
    <3>1. key \notin ExtendedKeys /\ key # PrintScreen /\ key # PauseKey
      BY <1>1 DEF OneCodeKeys, ExtendedKeys, PrintScreen, PauseKey, MediaKeys, KeypadEnter, KeypadSlash
    <3> QED
      BY <1>1, <3>1 DEF BreakCodes, OneCodeKeys
  <2>2. Chars(key + 128) = <<>>
    BY <2>1, SilentCodes, Zenon
  <2>3. key + 128 \in Code
    BY <2>1 DEF Code
  <2> QED
    BY <2>1, <2>2, <2>3, SilentRuns
<1>2. CASE key \in ExtendedKeys
  <2>1. key \notin OneCodeKeys /\ key # PrintScreen /\ key # PauseKey
        /\ (key - 1000) + 128 \in 54 .. 255
    BY <1>2 DEF OneCodeKeys, ExtendedKeys, PrintScreen, PauseKey, MediaKeys, KeypadEnter, KeypadSlash
  <2>2. BreakCodes(key) = <<224, (key - 1000) + 128>>
    BY <1>2, <2>1 DEF BreakCodes
  <2>3. Chars((key - 1000) + 128) = <<>>
    <3> DEFINE c == (key - 1000) + 128
    <3>1. c \in 54 .. 255
      BY <2>1
    <3> HIDE DEF c
    <3>2. Chars(c) = <<>>
      BY <3>1, SilentCodes
    <3> QED
      BY <3>2 DEF c
  <2>4. Chars(224) = <<>> /\ 224 \in Code
    BY SilentCodes DEF Code
  <2>5. (key - 1000) + 128 \in Code
    BY <2>1 DEF Code
  <2> QED
    BY <2>2, <2>3, <2>4, <2>5, SilentRuns
<1>3. CASE key = PrintScreen \/ key = PauseKey
  <2>1. key \notin OneCodeKeys /\ key \notin ExtendedKeys /\ PrintScreen # PauseKey
    BY <1>3 DEF OneCodeKeys, ExtendedKeys, PrintScreen, PauseKey, MediaKeys, KeypadEnter, KeypadSlash
  <2>2. BreakCodes(key) = <<224, 183, 224, 170>> \/ BreakCodes(key) = <<>>
    BY <1>3, <2>1 DEF BreakCodes
  <2> QED
    BY <2>2, LongKeys, SilentRuns
<1> QED
  BY <1>1, <1>2, <1>3 DEF AllKeys

-----------------------------------------------------------------------------
(* s is t with characters missing: its i-th character is the e[i]-th of t.    *)
Embeds(e, s, t) ==
    /\ e \in [1 .. Len(s) -> 1 .. Len(t)]
    /\ \A i, j \in 1 .. Len(s) : i < j => e[i] < e[j]
    /\ \A i \in 1 .. Len(s) : s[i] = t[e[i]]

Subtext(s, t) == \E e : Embeds(e, s, t)

(* Typing more keeps a subtext one... *)
LEMMA SubtextLonger ==
    ASSUME NEW s \in Seq(Char), NEW t \in Seq(Char), NEW u \in Seq(Char), Subtext(s, t)
    PROVE  Subtext(s, t \o u)
<1>1. PICK e : Embeds(e, s, t)
  BY DEF Subtext
<1>2. Len(t) \in Nat /\ Len(t \o u) \in Nat /\ Len(t) <= Len(t \o u)
      /\ \A i \in 1 .. Len(t) : (t \o u)[i] = t[i]
  OBVIOUS
<1>3. 1 .. Len(t) \subseteq 1 .. Len(t \o u)
  BY <1>2
<1>4. e \in [1 .. Len(s) -> 1 .. Len(t \o u)]
  BY <1>1, <1>3 DEF Embeds
<1>5. \A i \in 1 .. Len(s) : s[i] = (t \o u)[e[i]]
  BY <1>1, <1>2 DEF Embeds
<1>6. Embeds(e, s, t \o u)
  BY <1>1, <1>4, <1>5 DEF Embeds
<1> QED
  BY <1>6 DEF Subtext

(* ... also with the character typed added to both. *)
LEMMA SubtextBoth ==
    ASSUME NEW s \in Seq(Char), NEW t \in Seq(Char), NEW c \in Char, Subtext(s, t)
    PROVE  Subtext(s \o <<c>>, t \o <<c>>)
<1>1. PICK e : Embeds(e, s, t)
  BY DEF Subtext
<1> DEFINE m == Len(s)
           n == Len(t)
           x == s \o <<c>>
           y == t \o <<c>>
           g == [i \in 1 .. m + 1 |-> IF i = m + 1 THEN n + 1 ELSE e[i]]
<1>2. /\ m \in Nat /\ n \in Nat /\ m = Len(s) /\ n = Len(t)
      /\ Len(x) = m + 1 /\ Len(y) = n + 1 /\ x[m + 1] = c /\ y[n + 1] = c
      /\ (\A i \in 1 .. m : x[i] = s[i]) /\ (\A i \in 1 .. n : y[i] = t[i])
  OBVIOUS
<1> HIDE DEF m, n, x, y
<1>3. /\ \A i \in 1 .. m : e[i] \in 1 .. n /\ s[i] = t[e[i]]
      /\ \A i, j \in 1 .. m : i < j => e[i] < e[j]
  BY <1>1, <1>2 DEF Embeds
<1>4. \A i \in 1 .. m + 1 : i \in 1 .. m \/ i = m + 1
  BY <1>2
<1>5. m + 1 \in 1 .. m + 1 /\ n + 1 \in 1 .. n + 1 /\ (\A i \in 1 .. m : i # m + 1 /\ i \in 1 .. m + 1)
  BY <1>2
<1>6. g[m + 1] = n + 1 /\ \A i \in 1 .. m : g[i] = e[i]
  BY <1>5
<1>7. DOMAIN g = 1 .. m + 1 /\ g = [i \in 1 .. m + 1 |-> g[i]]
  OBVIOUS
<1> HIDE DEF g
<1>8. \A i \in 1 .. m + 1 : g[i] \in 1 .. n + 1
  BY <1>2, <1>3, <1>4, <1>5, <1>6
<1>9. g \in [1 .. m + 1 -> 1 .. n + 1]
  BY <1>7, <1>8
<1>10. \A i, j \in 1 .. m + 1 : i < j => g[i] < g[j]
  <2> SUFFICES ASSUME NEW i \in 1 .. m + 1, NEW j \in 1 .. m + 1, i < j PROVE g[i] < g[j]
    OBVIOUS
  <2>1. i \in 1 .. m
    BY <1>2
  <2>2. CASE j \in 1 .. m
    BY <1>3, <1>6, <2>1, <2>2
  <2>3. CASE j = m + 1
    BY <1>2, <1>3, <1>6, <2>1, <2>3
  <2> QED
    BY <1>4, <2>2, <2>3
<1>11. \A i \in 1 .. m + 1 : x[i] = y[g[i]]
  <2> SUFFICES ASSUME NEW i \in 1 .. m + 1 PROVE x[i] = y[g[i]]
    OBVIOUS
  <2>1. CASE i \in 1 .. m
    BY <1>2, <1>3, <1>6, <2>1
  <2>2. CASE i = m + 1
    BY <1>2, <1>6, <2>2
  <2> QED
    BY <1>4, <2>1, <2>2
<1>12. Embeds(g, x, y)
  BY <1>2, <1>9, <1>10, <1>11 DEF Embeds
<1> QED
  BY <1>12 DEF Subtext, x, y

(* A subtext of the text typed is what NothingInvented asks for. *)
LEMMA SubtextKept ==
    ASSUME NEW s \in Seq(Char), NEW t \in Seq(Char), Subtext(s, t)
    PROVE  \E kept \in SUBSET (DOMAIN t) :
              /\ Cardinality(kept) = Len(s)
              /\ \A i \in kept : t[i] = s[Cardinality({j \in kept : j <= i})]
<1>1. PICK e : Embeds(e, s, t)
  BY DEF Subtext
<1> DEFINE n == Len(s)
           kept == {e[i] : i \in 1 .. n}
           upto(k) == {e[i] : i \in 1 .. k}
<1>2. n \in Nat /\ n = Len(s) /\ Len(t) \in Nat /\ DOMAIN t = 1 .. Len(t)
  OBVIOUS
<1> HIDE DEF n
<1>3. e \in [1 .. n -> 1 .. Len(t)] /\ (\A i, j \in 1 .. n : i < j => e[i] < e[j])
      /\ (\A i \in 1 .. n : s[i] = t[e[i]] /\ e[i] \in 1 .. Len(t))
  BY <1>1, <1>2 DEF Embeds
<1>4. ASSUME NEW k \in 0 .. n PROVE Cardinality(upto(k)) = k
  <2> DEFINE f == [i \in 1 .. k |-> e[i]]
  <2>1. \A i, j \in 1 .. k : i \in 1 .. n /\ j \in 1 .. n /\ i \in Int /\ j \in Int
    BY <1>2
  <2>2. \A i, j \in 1 .. k : e[i] = e[j] => i = j
    <3> SUFFICES ASSUME NEW i \in 1 .. k, NEW j \in 1 .. k, i # j PROVE e[i] # e[j]
      OBVIOUS
    <3>1. i < j \/ j < i
      BY <2>1
    <3> QED
      BY <1>3, <2>1, <3>1
  <2>3. f \in Bijection(1 .. k, upto(k))
    BY <2>2 DEF Bijection, Injection, Surjection, IsInjective
  <2>4. IsFiniteSet(1 .. k) /\ Cardinality(1 .. k) = k
    <3>1. k \in Nat
      BY <1>2
    <3> QED
      BY <3>1, FS_Interval
  <2>5. ExistsBijection(1 .. k, upto(k))
    BY <2>3 DEF ExistsBijection
  <2> HIDE DEF f
  <2> QED
    BY <2>4, <2>5, FS_Bijection
<1>5. kept \in SUBSET (DOMAIN t) /\ Cardinality(kept) = Len(s)
  <2>1. kept \subseteq DOMAIN t
    BY <1>2, <1>3
  <2>2. n \in 0 .. n /\ kept = upto(n)
    BY <1>2
  <2> QED
    BY <1>2, <1>4, <2>1, <2>2
<1>6. ASSUME NEW i \in kept PROVE t[i] = s[Cardinality({j \in kept : j <= i})]
  <2>1. PICK k \in 1 .. n : i = e[k]
    OBVIOUS
  <2>2. k \in 0 .. n /\ k \in Int
    BY <1>2
  <2>3. \A j \in 1 .. n : e[j] <= e[k] <=> j <= k
    <3> SUFFICES ASSUME NEW j \in 1 .. n PROVE e[j] <= e[k] <=> j <= k
      OBVIOUS
    <3>1. j < k \/ j = k \/ k < j
      BY <1>2, <2>2
    <3> QED
      BY <1>2, <1>3, <2>2, <3>1
  <2>4. {j \in kept : j <= i} = upto(k)
    BY <1>2, <2>1, <2>2, <2>3
  <2>5. Cardinality({j \in kept : j <= i}) = k
    BY <1>4, <2>2, <2>4
  <2> QED
    BY <1>3, <2>1, <2>5
<1> HIDE DEF kept
<1> QED
  BY <1>5, <1>6

-----------------------------------------------------------------------------
(* A queue q of codes, text d delivered before it and text t typed: H[i] is    *)
(* what will have been delivered after the first i codes.  It is never more    *)
(* than was typed and, when exact holds, all of it in the end.                 *)
Promises(H, q, d, t, exact) ==
    /\ H \in [0 .. Len(q) -> Seq(Char)]
    /\ H[0] = d
    /\ \A i \in 1 .. Len(q) : H[i] = H[i - 1] \o Chars(q[i])
    /\ \A i \in 0 .. Len(q) : Subtext(H[i], t)
    /\ exact => H[Len(q)] = t

Promised(q, d, t, exact) == \E H : Promises(H, q, d, t, exact)

(* Typing what the queue never gets keeps the promise, but not exactly. *)
LEMMA TypedMore ==
    ASSUME NEW q \in Seq(Code), NEW d \in Seq(Char), NEW t \in Seq(Char), NEW u \in Seq(Char),
           NEW exact, Promised(q, d, t, exact)
    PROVE  Promised(q, d, t \o u, FALSE)
<1>1. PICK H : Promises(H, q, d, t, exact)
  BY DEF Promised
<1>2. \A i \in 0 .. Len(q) : H[i] \in Seq(Char) /\ Subtext(H[i], t)
  BY <1>1 DEF Promises
<1>3. \A i \in 0 .. Len(q) : Subtext(H[i], t \o u)
  BY <1>2, SubtextLonger
<1>4. Promises(H, q, d, t \o u, FALSE)
  BY <1>1, <1>3 DEF Promises
<1> QED
  BY <1>4 DEF Promised

(* A code that decodes to the character typed, or to none, keeps it. *)
LEMMA QueuedCode ==
    ASSUME NEW q \in Seq(Code), NEW d \in Seq(Char), NEW t \in Seq(Char), NEW c \in Code,
           NEW exact, Promised(q, d, t, exact)
    PROVE  Promised(Append(q, c), d, t \o Chars(c), exact)
<1>1. PICK H : Promises(H, q, d, t, exact)
  BY DEF Promised
<1> DEFINE n == Len(q)
           p == Append(q, c)
           w == t \o Chars(c)
           G == [i \in 0 .. n + 1 |-> IF i = n + 1 THEN H[n] \o Chars(c) ELSE H[i]]
<1>2. n \in Nat /\ n = Len(q) /\ Len(p) = n + 1 /\ p[n + 1] = c /\ \A i \in 1 .. n : p[i] = q[i]
  OBVIOUS
<1> HIDE DEF n, p
<1>3. /\ \A i \in 0 .. n : H[i] \in Seq(Char) /\ Subtext(H[i], t)
      /\ H[0] = d /\ (exact => H[n] = t)
      /\ \A i \in 1 .. n : H[i] = H[i - 1] \o Chars(q[i])
  BY <1>1, <1>2 DEF Promises
<1>4. Chars(c) \in Seq(Char)
  BY CharsType
<1>5. \A i \in 0 .. n : i \in 0 .. n + 1 /\ i # n + 1
  BY <1>2
<1>6. n + 1 \in 0 .. n + 1 /\ n \in 0 .. n /\ 0 \in 0 .. n
  BY <1>2
<1>7. G[n + 1] = H[n] \o Chars(c) /\ \A i \in 0 .. n : G[i] = H[i]
  BY <1>5, <1>6
<1>8. G = [i \in 0 .. n + 1 |-> G[i]]
  OBVIOUS
<1> HIDE DEF G
<1>9. \A i \in 0 .. n + 1 : i \in 0 .. n \/ i = n + 1
  BY <1>2
<1>10. H[n] \o Chars(c) \in Seq(Char)
  BY <1>3, <1>4, <1>6
<1>11. \A i \in 0 .. n + 1 : G[i] \in Seq(Char)
  BY <1>3, <1>7, <1>9, <1>10
<1>12. G \in [0 .. n + 1 -> Seq(Char)]
  BY <1>8, <1>11
<1>13. \A i \in 1 .. n + 1 : G[i] = G[i - 1] \o Chars(p[i])
  <2> SUFFICES ASSUME NEW i \in 1 .. n + 1 PROVE G[i] = G[i - 1] \o Chars(p[i])
    OBVIOUS
  <2>1. CASE i \in 1 .. n
    <3>1. i \in 0 .. n /\ i - 1 \in 0 .. n
      BY <1>2, <2>1
    <3> QED
      BY <1>2, <1>3, <1>7, <2>1, <3>1
  <2>2. CASE i = n + 1
    <3>1. i - 1 = n
      BY <1>2, <2>2
    <3> QED
      BY <1>2, <1>6, <1>7, <2>2, <3>1
  <2> QED
    BY <1>2, <2>1, <2>2
<1>14. \A s \in Seq(Char) : Subtext(s, t) => Subtext(s, w) /\ Subtext(s \o Chars(c), w)
  <2> SUFFICES ASSUME NEW s \in Seq(Char), Subtext(s, t)
               PROVE  Subtext(s, w) /\ Subtext(s \o Chars(c), w)
    OBVIOUS
  <2>1. Subtext(s, w)
    BY <1>4, SubtextLonger
  <2>2. CASE Decode(c) = Unmapped
    <3>1. Chars(c) = <<>>
      BY <2>2 DEF Chars
    <3>2. s \o <<>> = s
      OBVIOUS
    <3> QED
      BY <2>1, <3>1, <3>2
  <2>3. CASE Decode(c) # Unmapped
    <3>1. Chars(c) = <<Decode(c)>> /\ Decode(c) \in Char
      BY <2>3 DEF Chars, Char
    <3> QED
      BY <2>1, <3>1, SubtextBoth
  <2> QED
    BY <2>2, <2>3
<1>15. \A i \in 0 .. n + 1 : Subtext(G[i], w)
  <2> HIDE DEF w
  <2>1. \A i \in 0 .. n : Subtext(G[i], w)
    BY <1>3, <1>7, <1>14
  <2>2. Subtext(G[n + 1], w)
    BY <1>3, <1>6, <1>7, <1>14
  <2> QED
    BY <1>9, <2>1, <2>2
<1>16. exact => G[n + 1] = w
  BY <1>3, <1>7
<1>17. Promises(G, p, d, w, exact)
  <2> HIDE DEF w
  <2> QED
    BY <1>2, <1>3, <1>6, <1>7, <1>12, <1>13, <1>15, <1>16 DEF Promises
<1> QED
  BY <1>17 DEF Promised, p

(* A code that decodes to nothing can be queued at any time. *)
LEMMA QueuedSilent ==
    ASSUME NEW q \in Seq(Code), NEW d \in Seq(Char), NEW t \in Seq(Char), NEW c \in Code,
           NEW exact, Chars(c) = <<>>, Promised(q, d, t, exact)
    PROVE  Promised(Append(q, c), d, t, exact)
<1>1. t \o <<>> = t
  OBVIOUS
<1> QED
  BY <1>1, QueuedCode

(* So can as much of a silent run as fits. *)
LEMMA QueuedRun ==
    ASSUME NEW q \in Seq(Code), NEW d \in Seq(Char), NEW t \in Seq(Char),
           NEW exact, NEW codes, Silent(codes), Promised(q, d, t, exact)
    PROVE  \A n \in 0 .. Len(codes) : Promised(q \o SubSeq(codes, 1, n), d, t, exact)
<1>1. codes \in Seq(Code) /\ Len(codes) \in Nat /\ \A i \in 1 .. Len(codes) : Chars(codes[i]) = <<>>
  BY DEF Silent
<1> DEFINE Good == {n \in Nat : n <= Len(codes) => Promised(q \o SubSeq(codes, 1, n), d, t, exact)}
<1>2. 0 \in Good
  <2>1. q \o SubSeq(codes, 1, 0) = q
    BY <1>1
  <2> QED
    BY <2>1
<1>3. ASSUME NEW n \in Nat, n \in Good PROVE n + 1 \in Good
  <2> SUFFICES ASSUME n + 1 <= Len(codes)
               PROVE  Promised(q \o SubSeq(codes, 1, n + 1), d, t, exact)
    OBVIOUS
  <2> DEFINE p == q \o SubSeq(codes, 1, n)
  <2>1. Promised(p, d, t, exact)
    BY <1>1, <1>3
  <2>2. p \in Seq(Code) /\ codes[n + 1] \in Code /\ Chars(codes[n + 1]) = <<>>
    BY <1>1
  <2>3. q \o SubSeq(codes, 1, n + 1) = Append(p, codes[n + 1])
    BY <1>1
  <2> HIDE DEF p
  <2>4. Promised(Append(p, codes[n + 1]), d, t, exact)
    BY <2>1, <2>2, QueuedSilent
  <2> QED
    BY <2>3, <2>4
<1> HIDE DEF Good
<1>4. Nat \subseteq Good
  BY <1>2, <1>3, NatSetInduction
<1> QED
  BY <1>1, <1>4 DEF Good

(* Taking the first code delivers its characters. *)
LEMMA TakenCode ==
    ASSUME NEW q \in Seq(Code), NEW d \in Seq(Char), NEW t \in Seq(Char),
           NEW exact, q # <<>>, Promised(q, d, t, exact)
    PROVE  Promised(Tail(q), d \o Chars(Head(q)), t, exact)
<1>1. PICK H : Promises(H, q, d, t, exact)
  BY DEF Promised
<1> DEFINE n == Len(q) - 1
           p == Tail(q)
           G == [i \in 0 .. n |-> H[i + 1]]
<1>2. n \in Nat /\ Len(q) = n + 1 /\ Len(p) = n /\ \A i \in 1 .. n : p[i] = q[i + 1]
  OBVIOUS
<1>3. Head(q) = q[1]
  OBVIOUS
<1> HIDE DEF n, p
<1>4. /\ \A i \in 0 .. n + 1 : H[i] \in Seq(Char) /\ Subtext(H[i], t)
      /\ H[0] = d /\ (exact => H[n + 1] = t)
      /\ \A i \in 1 .. n + 1 : H[i] = H[i - 1] \o Chars(q[i])
  BY <1>1, <1>2 DEF Promises
<1>5. \A i \in 0 .. n : i + 1 \in 0 .. n + 1 /\ i + 1 \in 1 .. n + 1
  BY <1>2
<1>6. G \in [0 .. n -> Seq(Char)] /\ \A i \in 0 .. n : Subtext(G[i], t)
  BY <1>4, <1>5
<1>7. G[0] = d \o Chars(Head(q))
  <2>1. 0 \in 0 .. n /\ 1 \in 1 .. n + 1 /\ 0 + 1 = 1 /\ 1 - 1 = 0
    BY <1>2
  <2>2. G[0] = H[1]
    BY <2>1
  <2>3. H[1] = H[0] \o Chars(q[1])
    BY <1>4, <2>1
  <2> QED
    BY <1>3, <1>4, <2>2, <2>3
<1>8. \A i \in 1 .. n : G[i] = G[i - 1] \o Chars(p[i])
  <2> SUFFICES ASSUME NEW i \in 1 .. n PROVE G[i] = G[i - 1] \o Chars(p[i])
    OBVIOUS
  <2>1. i \in 0 .. n /\ i - 1 \in 0 .. n /\ (i - 1) + 1 = i /\ (i + 1) - 1 = i /\ i + 1 \in 1 .. n + 1
    BY <1>2
  <2>2. G[i] = H[i + 1] /\ G[i - 1] = H[i]
    BY <2>1
  <2>3. H[i + 1] = H[i] \o Chars(q[i + 1])
    BY <1>4, <2>1
  <2> QED
    BY <1>2, <2>2, <2>3
<1>9. exact => G[n] = t
  BY <1>2, <1>4
<1> HIDE DEF G
<1>10. Promises(G, p, d \o Chars(Head(q)), t, exact)
  BY <1>2, <1>6, <1>7, <1>8, <1>9 DEF Promises
<1> QED
  BY <1>10 DEF Promised, p

-----------------------------------------------------------------------------
(* The inductive invariant: the bounds of queue and buffer, the lines read so  *)
(* far, and the text the queue still promises.                                *)
Readable == session.keys \subseteq ReadableKeys

KeyTypes ==
    /\ session \in Sessions
    /\ held \subseteq session.keys
    /\ queue \in Seq(Code) /\ Len(queue) <= QueueSize
    /\ typed \in Seq(Char) /\ struck \in Seq(Char)
    /\ lost \in BOOLEAN /\ reading \in BOOLEAN
    /\ buffer \in Seq(Char) /\ Len(buffer) < Length
    /\ reads \in Seq(Seq(Char))

LineSoFar ==
    /\ ~reading => buffer = <<>>
    /\ \A i \in 1 .. Len(buffer) : buffer[i] # "enter"

TextPromised ==
    /\ Promised(queue, Delivered, struck, FALSE)
    /\ Readable => struck = typed
    /\ ~lost /\ Readable => Promised(queue, Delivered, struck, TRUE)

KeyInv == KeyTypes /\ LineSoFar /\ ReadsAreLines /\ TextPromised

(* What is sent goes to the end of the queue as far as it fits. *)
LEMMA SentSome ==
    ASSUME KeyTypes, NEW codes \in Seq(Code), Sent(codes)
    PROVE  /\ queue' \in Seq(Code) /\ Len(queue') <= QueueSize /\ lost' \in BOOLEAN
           /\ \E n \in 0 .. Len(codes) :
                 /\ queue' = queue \o SubSeq(codes, 1, n)
                 /\ ~lost' => ~lost /\ n = Len(codes)
<1>1. queue \in Seq(Code) /\ Len(queue) \in Nat /\ Len(queue) <= QueueSize /\ lost \in BOOLEAN
      /\ QueueSize \in Nat /\ Len(codes) \in Nat
  BY KeyboardAssumption DEF KeyTypes
<1> DEFINE all == queue \o codes
           fits == IF Len(all) > QueueSize THEN QueueSize ELSE Len(all)
           n == fits - Len(queue)
<1>2. all \in Seq(Code) /\ Len(all) = Len(queue) + Len(codes)
  BY <1>1
<1>3. queue' = SubSeq(all, 1, fits) /\ lost' = (lost \/ Len(all) > QueueSize)
  BY DEF Sent
<1>4. /\ n \in 0 .. Len(codes) /\ fits = Len(queue) + n /\ fits \in Nat /\ fits <= QueueSize
      /\ fits <= Len(all) /\ (~(Len(all) > QueueSize) => n = Len(codes))
  BY <1>1, <1>2
<1> HIDE DEF n, fits
<1>5. SubSeq(all, 1, fits) = queue \o SubSeq(codes, 1, n)
  BY <1>1, <1>4
<1>6. SubSeq(all, 1, fits) \in Seq(Code) /\ Len(SubSeq(all, 1, fits)) = fits
  BY <1>2, <1>4
<1> HIDE DEF all
<1>7. lost' \in BOOLEAN /\ (~lost' => ~lost /\ ~(Len(all) > QueueSize))
  <2>1. CASE lost
    BY <1>1, <1>3, <2>1
  <2>2. CASE ~lost
    BY <1>1, <1>3, <2>2
  <2> QED
    BY <2>1, <2>2
<1> QED
  BY <1>3, <1>4, <1>5, <1>6, <1>7

-----------------------------------------------------------------------------
(* The initial state promises nothing and has delivered nothing. *)
LEMMA KeyInit == Init => KeyInv
<1> SUFFICES ASSUME Init PROVE KeyInv
  OBVIOUS
<1>1. queue = <<>> /\ typed = <<>> /\ struck = <<>> /\ buffer = <<>> /\ reads = <<>>
  BY DEF Init
<1>2. KeyTypes
  <2>1. <<>> \in Seq(Code) /\ <<>> \in Seq(Char) /\ <<>> \in Seq(Seq(Char))
        /\ Len(<<>>) <= QueueSize /\ Len(<<>>) < Length
    BY KeyboardAssumption
  <2>2. session \in Sessions /\ held = {} /\ lost = FALSE /\ reading = FALSE
    BY DEF Init
  <2> QED
    BY <1>1, <2>1, <2>2 DEF KeyTypes
<1>3. LineSoFar /\ ReadsAreLines
  BY <1>1 DEF LineSoFar, ReadsAreLines
<1>4. Delivered = <<>>
  <2>1. FlattenSeq(reads) = <<>>
    BY <1>1 DEF FlattenSeq
  <2>2. <<>> \o <<>> = <<>>
    OBVIOUS
  <2> QED
    BY <1>1, <2>1, <2>2 DEF Delivered
<1> DEFINE H == [i \in 0 .. 0 |-> <<>>]
           e == [i \in 1 .. 0 |-> 1]
<1>5. Embeds(e, <<>>, <<>>)
  BY DEF Embeds
<1>6. Subtext(<<>>, <<>>)
  BY <1>5 DEF Subtext
<1>7. H[0] = <<>> /\ H \in [0 .. 0 -> Seq(Char)] /\ \A i \in 0 .. 0 : H[i] = <<>>
  OBVIOUS
<1> HIDE DEF H
<1>8. Len(queue) = 0
  BY <1>1
<1>9. Promises(H, queue, <<>>, <<>>, TRUE) /\ Promises(H, queue, <<>>, <<>>, FALSE)
  BY <1>6, <1>7, <1>8 DEF Promises
<1>10. TextPromised
  BY <1>1, <1>4, <1>9 DEF TextPromised, Promised
<1> QED
  BY <1>2, <1>3, <1>10 DEF KeyInv

(* What was delivered is text. *)
LEMMA DeliveredType == ASSUME KeyTypes PROVE Delivered \in Seq(Char)
<1>1. reads \in Seq(Seq(Char)) /\ buffer \in Seq(Char)
  BY DEF KeyTypes
<1>2. FlattenSeq(reads) \in Seq(Char)
  BY <1>1, FlattenAppend
<1> QED
  BY <1>1, <1>2 DEF Delivered

(* A new read starts on an empty buffer, which the last one left empty. *)
LEMMA StartReadStep == ASSUME KeyInv, StartRead PROVE KeyInv'
<1>1. buffer = <<>> /\ buffer' = <<>> /\ reading' = TRUE
      /\ UNCHANGED <<session, held, typed, struck, queue, lost, reads>>
  BY DEF StartRead, KeyInv, LineSoFar
<1>2. Delivered' = Delivered
  BY <1>1 DEF Delivered
<1>3. KeyTypes'
  BY <1>1, KeyboardAssumption DEF KeyInv, KeyTypes
<1>4. LineSoFar' /\ ReadsAreLines'
  BY <1>1 DEF KeyInv, LineSoFar, ReadsAreLines
<1>5. TextPromised'
  BY <1>1, <1>2 DEF KeyInv, TextPromised, Readable
<1> QED
  BY <1>3, <1>4, <1>5 DEF KeyInv

(* What a stored character does to the caller's buffer and the results. *)
LEMMA StoreEffect ==
    ASSUME KeyInv, reading, NEW c \in Code, Store(Decode(c))
    PROVE  /\ Delivered' = Delivered \o Chars(c)
           /\ reading' = FALSE \/ reading' = TRUE
           /\ buffer' \in Seq(Char) /\ Len(buffer') < Length /\ reads' \in Seq(Seq(Char))
           /\ LineSoFar' /\ ReadsAreLines'
<1> DEFINE ch == Decode(c)
           bytes == Append(buffer, ch)
<1>1. /\ buffer \in Seq(Char) /\ Len(buffer) \in Nat /\ Len(buffer) < Length /\ Length \in Nat
      /\ reads \in Seq(Seq(Char)) /\ FlattenSeq(reads) \in Seq(Char) /\ reading = TRUE
      /\ \A i \in 1 .. Len(buffer) : buffer[i] # "enter"
  BY KeyboardAssumption, FlattenAppend DEF KeyInv, KeyTypes, LineSoFar
<1>2. Length >= 1 /\ ch \in Char
  BY KeyboardAssumption DEF Char
<1>3. CASE ch = Unmapped
  <2>1. buffer' = buffer /\ reads' = reads /\ reading' = reading
    BY <1>3 DEF Store
  <2>2. Chars(c) = <<>>
    BY <1>3 DEF Chars
  <2>3. Delivered' = Delivered /\ Delivered \o <<>> = Delivered
    BY <2>1, DeliveredType DEF Delivered, KeyInv
  <2>4. LineSoFar' /\ ReadsAreLines'
    BY <2>1 DEF KeyInv, LineSoFar, ReadsAreLines
  <2> QED
    BY <1>1, <2>1, <2>2, <2>3, <2>4
<1>4. CASE ch # Unmapped
  <2>1. Chars(c) = <<ch>>
    BY <1>4 DEF Chars
  <2>2. /\ bytes \in Seq(Char) /\ Len(bytes) = Len(buffer) + 1 /\ bytes = buffer \o <<ch>>
        /\ bytes[Len(bytes)] = ch /\ \A i \in 1 .. Len(buffer) : bytes[i] = buffer[i]
    <3> HIDE DEF ch
    <3>1. bytes \in Seq(Char) /\ Len(bytes) = Len(buffer) + 1
      BY <1>1, <1>2
    <3>2. bytes = buffer \o <<ch>>
      BY <1>1, <1>2
    <3>3. bytes[Len(bytes)] = ch
      BY <1>1, <1>2
    <3>4. \A i \in 1 .. Len(buffer) : bytes[i] = buffer[i]
      BY <1>1, <1>2
    <3> QED
      BY <3>1, <3>2, <3>3, <3>4
  <2>3. FlattenSeq(reads) \o bytes = Delivered \o <<ch>>
    <3> DEFINE before == FlattenSeq(reads)
    <3>1. before \in Seq(Char) /\ <<ch>> \in Seq(Char)
      BY <1>1, <1>2
    <3> HIDE DEF before, ch
    <3>2. before \o (buffer \o <<ch>>) = (before \o buffer) \o <<ch>>
      BY <1>1, <3>1
    <3> QED
      BY <2>2, <3>2 DEF Delivered, before
  <2>4. CASE ReadDone(bytes)
    <3>1. reading' = FALSE /\ buffer' = <<>> /\ reads' = Append(reads, bytes)
      BY <1>4, <2>4 DEF Store
    <3> HIDE DEF bytes, ch
    <3>2. Delivered' = FlattenSeq(reads) \o bytes
      <4>1. FlattenSeq(Append(reads, bytes)) = FlattenSeq(reads) \o bytes
        BY <1>1, <2>2, FlattenAppend
      <4>2. FlattenSeq(reads) \o bytes \in Seq(Char)
        BY <1>1, <2>2
      <4>3. (FlattenSeq(reads) \o bytes) \o <<>> = FlattenSeq(reads) \o bytes
        BY <4>2
      <4> QED
        BY <3>1, <4>1, <4>3 DEF Delivered
    <3>3. LineSoFar'
      BY <3>1 DEF LineSoFar
    <3>4. Last(bytes) = "enter" \/ Len(bytes) = Length
      BY <2>4 DEF ReadDone
    <3>5. \A j \in 1 .. Len(bytes) - 1 : bytes[j] # "enter"
      BY <1>1, <2>2
    <3>6. DOMAIN reads = 1 .. Len(reads) /\ DOMAIN Append(reads, bytes) = 1 .. Len(reads) + 1
          /\ Append(reads, bytes)[Len(reads) + 1] = bytes /\ Len(reads) \in Nat
          /\ \A i \in 1 .. Len(reads) : Append(reads, bytes)[i] = reads[i]
      BY <1>1, <2>2
    <3>7. ReadsAreLines'
      <4> SUFFICES ASSUME NEW i \in DOMAIN reads'
                   PROVE  /\ Last(reads'[i]) = "enter" \/ Len(reads'[i]) = Length
                          /\ \A j \in 1 .. Len(reads'[i]) - 1 : reads'[i][j] # "enter"
        BY DEF ReadsAreLines
      <4>1. CASE i \in 1 .. Len(reads)
        <5>1. reads'[i] = reads[i] /\ i \in DOMAIN reads
          BY <3>1, <3>6, <4>1
        <5> QED
          BY <5>1 DEF KeyInv, ReadsAreLines
      <4>2. CASE i = Len(reads) + 1
        <5>1. reads'[i] = bytes
          BY <3>1, <3>6, <4>2
        <5> QED
          BY <3>4, <3>5, <5>1
      <4> QED
        BY <3>1, <3>6, <4>1, <4>2
    <3>8. buffer' \in Seq(Char) /\ Len(buffer') < Length
      BY <1>1, <1>2, <3>1
    <3>9. reads' \in Seq(Seq(Char))
      BY <1>1, <2>2, <3>1
    <3> QED
      BY <2>1, <2>3, <3>1, <3>2, <3>3, <3>7, <3>8, <3>9
  <2>5. CASE ~ReadDone(bytes)
    <3>1. reading' = TRUE /\ buffer' = bytes /\ reads' = reads
      BY <1>4, <2>5 DEF Store
    <3>2. ch # "enter" /\ Len(bytes) # Length
      BY <2>2, <2>5 DEF ReadDone, Last
    <3> HIDE DEF bytes, ch
    <3>3. Len(bytes) < Length
      BY <1>1, <2>2, <3>2
    <3>4. LineSoFar'
      <4>1. \A i \in 1 .. Len(bytes) : bytes[i] # "enter"
        BY <1>1, <2>2, <3>2
      <4> QED
        BY <3>1, <4>1 DEF LineSoFar
    <3>5. ReadsAreLines'
      BY <3>1 DEF KeyInv, ReadsAreLines
    <3>6. Delivered' = FlattenSeq(reads) \o bytes
      BY <3>1 DEF Delivered
    <3> QED
      BY <1>1, <2>1, <2>2, <2>3, <3>1, <3>3, <3>4, <3>5, <3>6
  <2> QED
    BY <2>4, <2>5
<1> QED
  BY <1>3, <1>4

(* One turn of the polling loop. *)
LEMMA PollStep == ASSUME KeyInv, Poll PROVE KeyInv'
<1>1. reading /\ queue # <<>> /\ queue' = Tail(queue) /\ Store(Decode(Head(queue)))
      /\ UNCHANGED <<session, held, typed, struck, lost>>
  BY DEF Poll
<1>2. KeyTypes /\ TextPromised
  BY DEF KeyInv
<1>3. /\ queue \in Seq(Code) /\ Len(queue) <= QueueSize /\ struck \in Seq(Char)
      /\ Delivered \in Seq(Char)
  BY <1>2, DeliveredType DEF KeyTypes
<1>4. Head(queue) \in Code /\ Tail(queue) \in Seq(Code) /\ Len(Tail(queue)) <= QueueSize
  <2>1. Head(queue) \in Code /\ Tail(queue) \in Seq(Code) /\ Len(Tail(queue)) = Len(queue) - 1
        /\ Len(queue) \in Nat
    BY <1>1, <1>3
  <2>2. QueueSize \in Nat
    BY KeyboardAssumption
  <2> QED
    BY <1>3, <2>1, <2>2
<1>5. /\ Delivered' = Delivered \o Chars(Head(queue))
      /\ reading' = FALSE \/ reading' = TRUE
      /\ buffer' \in Seq(Char) /\ Len(buffer') < Length /\ reads' \in Seq(Seq(Char))
      /\ LineSoFar' /\ ReadsAreLines'
  BY <1>1, <1>4, StoreEffect
<1>6. KeyTypes'
  BY <1>1, <1>2, <1>4, <1>5 DEF KeyTypes
<1>7. Promised(queue', Delivered', struck', FALSE)
  <2>1. Promised(queue, Delivered, struck, FALSE)
    BY <1>2 DEF TextPromised
  <2>2. Promised(Tail(queue), Delivered \o Chars(Head(queue)), struck, FALSE)
    BY <1>1, <1>3, <2>1, TakenCode
  <2> QED
    BY <1>1, <1>5, <2>2
<1>8. ASSUME ~lost', Readable PROVE Promised(queue', Delivered', struck', TRUE)
  <2>1. Promised(queue, Delivered, struck, TRUE)
    BY <1>1, <1>2, <1>8 DEF TextPromised
  <2>2. Promised(Tail(queue), Delivered \o Chars(Head(queue)), struck, TRUE)
    BY <1>1, <1>3, <2>1, TakenCode
  <2> QED
    BY <1>1, <1>5, <2>2
<1>9. TextPromised'
  <2>1. Readable' => struck' = typed'
    BY <1>1, <1>2 DEF TextPromised, Readable
  <2>2. Readable' = Readable
    BY <1>1 DEF Readable
  <2> QED
    BY <1>7, <1>8, <2>1, <2>2 DEF TextPromised
<1> QED
  BY <1>5, <1>6, <1>9 DEF KeyInv

(* A key pressed, whatever of its codes the controller drops. *)
LEMMA PressText ==
    ASSUME KeyInv, NEW key \in session.keys, Sent(MakeCodes(key))
    PROVE  /\ queue' \in Seq(Code) /\ Len(queue') <= QueueSize /\ lost' \in BOOLEAN
           /\ typed \o Types(key) \in Seq(Char) /\ struck \o Strikes(key) \in Seq(Char)
           /\ Readable => struck \o Strikes(key) = typed \o Types(key)
           /\ Promised(queue', Delivered, struck \o Strikes(key), FALSE)
           /\ ~lost' /\ Readable => Promised(queue', Delivered, struck \o Strikes(key), TRUE)
<1>1. KeyTypes /\ TextPromised
  BY DEF KeyInv
<1>2. /\ session \in Sessions /\ queue \in Seq(Code) /\ typed \in Seq(Char)
      /\ struck \in Seq(Char) /\ Delivered \in Seq(Char)
  BY <1>1, DeliveredType DEF KeyTypes
<1>3. key \in AllKeys
  BY <1>2, KeyboardAssumption
<1>4. Types(key) \in Seq(Char) /\ Strikes(key) \in Seq(Char)
  BY <1>3, StrikesType
<1> DEFINE more == struck \o Strikes(key)
<1>5. typed \o Types(key) \in Seq(Char) /\ more \in Seq(Char)
  BY <1>2, <1>4
<1>6. Readable => more = typed \o Types(key)
  <2>1. Readable => key \notin MediaKeys
    BY DEF Readable, ReadableKeys
  <2> QED
    BY <1>1, <2>1 DEF TextPromised, Strikes
<1>7. Promised(queue, Delivered, struck, FALSE)
      /\ (~lost /\ Readable => Promised(queue, Delivered, struck, TRUE))
  BY <1>1 DEF TextPromised
<1>8. Promised(queue, Delivered, more, FALSE)
  BY <1>2, <1>4, <1>7, TypedMore
<1>9. PICK before \in Seq(Code), c \in Code : KeyCodes(key, before, c)
  BY <1>3, PressFacts
<1>10. /\ MakeCodes(key) = Append(before, c) /\ Silent(before)
       /\ (key \in SilentKeys => Chars(c) = <<>>) /\ (key \notin SilentKeys => Chars(c) = Strikes(key))
  BY <1>9 DEF KeyCodes
<1> DEFINE codes == Append(before, c)
<1>11. codes \in Seq(Code) /\ Len(codes) = Len(before) + 1 /\ Len(before) \in Nat
       /\ (\A i \in 0 .. Len(before) : SubSeq(codes, 1, i) = SubSeq(before, 1, i))
       /\ SubSeq(before, 1, Len(before)) = before
       /\ SubSeq(codes, 1, Len(codes)) = codes /\ queue \o codes = Append(queue \o before, c)
       /\ queue \o before \in Seq(Code)
  BY <1>2
<1>12. Sent(codes)
  BY <1>10
<1> HIDE DEF codes
<1>13. /\ queue' \in Seq(Code) /\ Len(queue') <= QueueSize /\ lost' \in BOOLEAN
       /\ \E n \in 0 .. Len(codes) :
             queue' = queue \o SubSeq(codes, 1, n) /\ (~lost' => ~lost /\ n = Len(codes))
  BY <1>1, <1>11, <1>12, SentSome
<1>14. PICK n \in 0 .. Len(codes) :
          queue' = queue \o SubSeq(codes, 1, n) /\ (~lost' => ~lost /\ n = Len(codes))
  BY <1>13
<1> HIDE DEF more
<1>15. CASE n = Len(codes)
  <2>1. queue' = Append(queue \o before, c)
    BY <1>11, <1>14, <1>15
  <2>2. Len(before) \in 0 .. Len(before)
    BY <1>11
  <2>3. Promised(queue \o before, Delivered, more, FALSE)
    <3>1. \A i \in 0 .. Len(before) : Promised(queue \o SubSeq(before, 1, i), Delivered, more, FALSE)
      BY <1>2, <1>5, <1>8, <1>10, QueuedRun
    <3> QED
      BY <1>11, <2>2, <3>1
  <2>4. \A exact \in BOOLEAN : Promised(queue, Delivered, struck, exact)
                              => Promised(queue \o before, Delivered, struck, exact)
    <3> SUFFICES ASSUME NEW exact \in BOOLEAN, Promised(queue, Delivered, struck, exact)
                 PROVE  Promised(queue \o before, Delivered, struck, exact)
      OBVIOUS
    <3>1. \A i \in 0 .. Len(before) : Promised(queue \o SubSeq(before, 1, i), Delivered, struck, exact)
      BY <1>2, <1>10, QueuedRun
    <3> QED
      BY <1>11, <2>2, <3>1
  <2>5. CASE key \in SilentKeys
    <3>1. ~Readable
      BY <2>5 DEF Readable, ReadableKeys
    <3>2. Promised(queue', Delivered, more, FALSE)
      BY <1>2, <1>5, <1>10, <1>11, <2>1, <2>3, <2>5, QueuedSilent
    <3> QED
      BY <1>5, <1>6, <1>13, <3>1, <3>2 DEF more
  <2>6. CASE key \notin SilentKeys
    <3>1. Chars(c) = Strikes(key)
      BY <1>10, <2>6
    <3>2. Promised(queue', Delivered, struck \o Chars(c), FALSE)
      BY <1>2, <1>7, <1>11, <2>1, <2>4, QueuedCode
    <3>3. ASSUME ~lost', Readable PROVE Promised(queue', Delivered, struck \o Chars(c), TRUE)
      <4>1. Promised(queue \o before, Delivered, struck, TRUE)
        BY <1>7, <1>14, <2>4, <3>3
      <4> QED
        BY <1>2, <1>11, <2>1, <4>1, QueuedCode
    <3> QED
      BY <1>5, <1>6, <1>13, <3>1, <3>2, <3>3 DEF more
  <2> QED
    BY <2>5, <2>6
<1>16. CASE n # Len(codes)
  <2>1. lost' /\ n \in 0 .. Len(before)
    BY <1>11, <1>14, <1>16
  <2>2. queue' = queue \o SubSeq(before, 1, n)
    BY <1>11, <1>14, <2>1
  <2>3. Promised(queue', Delivered, more, FALSE)
    <3>1. \A i \in 0 .. Len(before) : Promised(queue \o SubSeq(before, 1, i), Delivered, more, FALSE)
      BY <1>2, <1>5, <1>8, <1>10, QueuedRun
    <3> QED
      BY <2>1, <2>2, <3>1
  <2> QED
    BY <1>5, <1>6, <1>13, <2>1, <2>3 DEF more
<1> QED
  BY <1>15, <1>16

(* A key released: its codes decode to nothing. *)
LEMMA ReleaseText ==
    ASSUME KeyInv, NEW key \in session.keys, Sent(BreakCodes(key))
    PROVE  /\ queue' \in Seq(Code) /\ Len(queue') <= QueueSize /\ lost' \in BOOLEAN
           /\ Promised(queue', Delivered, struck, FALSE)
           /\ ~lost' /\ Readable => Promised(queue', Delivered, struck, TRUE)
<1>1. KeyTypes /\ TextPromised
  BY DEF KeyInv
<1>2. session \in Sessions /\ queue \in Seq(Code) /\ struck \in Seq(Char) /\ Delivered \in Seq(Char)
  BY <1>1, DeliveredType DEF KeyTypes
<1>3. key \in AllKeys
  BY <1>2, KeyboardAssumption
<1> DEFINE codes == BreakCodes(key)
<1>4. Silent(codes) /\ codes \in Seq(Code)
  BY <1>3, ReleaseFacts DEF Silent
<1> HIDE DEF codes
<1>5. Promised(queue, Delivered, struck, FALSE)
      /\ (~lost /\ Readable => Promised(queue, Delivered, struck, TRUE))
  BY <1>1 DEF TextPromised
<1>6. /\ queue' \in Seq(Code) /\ Len(queue') <= QueueSize /\ lost' \in BOOLEAN
      /\ \E n \in 0 .. Len(codes) :
            queue' = queue \o SubSeq(codes, 1, n) /\ (~lost' => ~lost /\ n = Len(codes))
  <2>1. Sent(codes)
    BY DEF codes
  <2> QED
    BY <1>1, <1>4, <2>1, SentSome
<1>7. PICK n \in 0 .. Len(codes) :
         queue' = queue \o SubSeq(codes, 1, n) /\ (~lost' => ~lost /\ n = Len(codes))
  BY <1>6
<1>8. Promised(queue', Delivered, struck, FALSE)
  BY <1>2, <1>4, <1>5, <1>7, QueuedRun
<1>9. ASSUME ~lost', Readable PROVE Promised(queue', Delivered, struck, TRUE)
  <2>1. Promised(queue, Delivered, struck, TRUE)
    BY <1>5, <1>7, <1>9
  <2> QED
    BY <1>2, <1>4, <1>7, <2>1, QueuedRun
<1> QED
  BY <1>6, <1>8, <1>9

(* Every step keeps the invariant. *)
LEMMA KeyStep == KeyInv /\ [Next]_vars => KeyInv'
<1> SUFFICES ASSUME KeyInv, [Next]_vars PROVE KeyInv'
  OBVIOUS
<1>1. KeyTypes /\ LineSoFar /\ ReadsAreLines /\ TextPromised
  BY DEF KeyInv
<1>2. CASE StartRead
  BY <1>2, StartReadStep
<1>3. CASE Poll
  BY <1>3, PollStep
<1>4. ASSUME NEW key \in session.keys, Press(key) PROVE KeyInv'
  <2>1. /\ Sent(MakeCodes(key)) /\ typed' = typed \o Types(key) /\ held' = held \cup {key}
        /\ struck' = struck \o Strikes(key)
        /\ UNCHANGED <<session, reading, buffer, reads>>
    BY <1>4 DEF Press
  <2>2. /\ queue' \in Seq(Code) /\ Len(queue') <= QueueSize /\ lost' \in BOOLEAN
        /\ typed' \in Seq(Char) /\ struck' \in Seq(Char)
        /\ Readable => struck' = typed'
        /\ Promised(queue', Delivered, struck', FALSE)
        /\ ~lost' /\ Readable => Promised(queue', Delivered, struck', TRUE)
    BY <2>1, PressText
  <2>3. Delivered' = Delivered
    BY <2>1 DEF Delivered
  <2>4. KeyTypes'
    BY <1>1, <1>4, <2>1, <2>2 DEF KeyTypes
  <2>5. LineSoFar' /\ ReadsAreLines'
    BY <1>1, <2>1 DEF LineSoFar, ReadsAreLines
  <2>6. TextPromised'
    BY <2>1, <2>2, <2>3 DEF TextPromised, Readable
  <2> QED
    BY <2>4, <2>5, <2>6 DEF KeyInv
<1>5. ASSUME NEW key \in session.keys, Release(key) PROVE KeyInv'
  <2>1. /\ Sent(BreakCodes(key)) /\ held' = held \ {key}
        /\ UNCHANGED <<session, typed, struck, reading, buffer, reads>>
    BY <1>5 DEF Release
  <2>2. /\ queue' \in Seq(Code) /\ Len(queue') <= QueueSize /\ lost' \in BOOLEAN
        /\ Promised(queue', Delivered, struck, FALSE)
        /\ ~lost' /\ Readable => Promised(queue', Delivered, struck, TRUE)
    BY <2>1, ReleaseText
  <2>3. Delivered' = Delivered
    BY <2>1 DEF Delivered
  <2>4. KeyTypes'
    BY <1>1, <2>1, <2>2 DEF KeyTypes
  <2>5. LineSoFar' /\ ReadsAreLines'
    BY <1>1, <2>1 DEF LineSoFar, ReadsAreLines
  <2>6. TextPromised'
    BY <1>1, <2>1, <2>2, <2>3 DEF TextPromised, Readable
  <2> QED
    BY <2>4, <2>5, <2>6 DEF KeyInv
<1>6. CASE UNCHANGED vars
  <2>1. UNCHANGED <<session, held, typed, struck, queue, lost, reading, buffer, reads>>
    BY <1>6 DEF vars
  <2>2. Delivered' = Delivered
    BY <2>1 DEF Delivered
  <2>3. KeyTypes' /\ LineSoFar' /\ ReadsAreLines'
    BY <1>1, <2>1 DEF KeyTypes, LineSoFar, ReadsAreLines
  <2>4. TextPromised'
    BY <1>1, <2>1, <2>2 DEF TextPromised, Readable
  <2> QED
    BY <2>3, <2>4 DEF KeyInv
<1> QED
  BY <1>2, <1>3, <1>4, <1>5, <1>6 DEF Next

-----------------------------------------------------------------------------
(* The invariant holds in every behaviour. *)
LEMMA KeyInvAlways == Spec => []KeyInv
BY KeyInit, KeyStep, PTL DEF Spec

(* Whatever the controller drops, and however presses, releases and polls       *)
(* interleave, what the reads deliver is the text typed with characters missing  *)
(* and the letters of media keys added, each at its place: for every session,    *)
(* over every key of the keyboard, every queue size and read length.             *)
THEOREM NothingInventedAlways == Spec => []NothingInvented
<1>1. KeyInv => NothingInvented
  <2> SUFFICES ASSUME KeyInv PROVE NothingInvented
    OBVIOUS
  <2>1. KeyTypes /\ Promised(queue, Delivered, struck, FALSE)
    BY DEF KeyInv, TextPromised
  <2>2. Delivered \in Seq(Char) /\ struck \in Seq(Char) /\ Len(queue) \in Nat
    BY <2>1, DeliveredType DEF KeyTypes
  <2>3. PICK H : Promises(H, queue, Delivered, struck, FALSE)
    BY <2>1 DEF Promised
  <2>4. 0 \in 0 .. Len(queue)
    BY <2>2
  <2>5. Subtext(Delivered, struck)
    BY <2>3, <2>4 DEF Promises
  <2> QED
    BY <2>2, <2>5, SubtextKept DEF NothingInvented
<1> QED
  BY <1>1, KeyInvAlways, PTL

(* Without the keys keymap ends before and the media keys, a read that has      *)
(* drained a queue from which nothing was dropped has delivered exactly the     *)
(* text typed.                                                                  *)
THEOREM ExactReadableAlways == Spec => []ExactReadable
<1>1. KeyInv => ExactReadable
  <2> SUFFICES ASSUME KeyInv, Readable, queue = <<>>, ~lost PROVE Delivered = typed
    BY DEF ExactText, ExactReadable, Readable
  <2>1. struck = typed
    BY DEF KeyInv, TextPromised
  <2>2. PICK H : Promises(H, queue, Delivered, struck, TRUE)
    BY DEF KeyInv, TextPromised, Promised
  <2>3. Len(queue) = 0
    OBVIOUS
  <2> QED
    BY <2>1, <2>2, <2>3 DEF Promises
<1> QED
  BY <1>1, KeyInvAlways, PTL

(* Every result handed to the program ends with its only Enter or is full.      *)
THEOREM ReadsAreLinesAlways == Spec => []ReadsAreLines
<1>1. KeyInv => ReadsAreLines
  BY DEF KeyInv
<1> QED
  BY <1>1, KeyInvAlways, PTL
=============================================================================
