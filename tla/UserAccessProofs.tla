-------------------------- MODULE UserAccessProofs --------------------------
(* Machine-checked proofs that system calls stay inside the user window, for *)
(* every window, register width and argument.                                *)
EXTENDS UserAccess, WellFoundedInduction, TLAPS

(* Every non-empty set of naturals has a least element. *)
LEMMA LeastNatural ==
    ASSUME NEW S \in SUBSET Nat, S # {}
    PROVE  \E x \in S : \A y \in S : x <= y
<1>1. PICK x \in S : \A y \in S : ~(<<y, x>> \in OpToRel(<, Nat))
  BY NatLessThanWellFounded, WFMin, Zenon
<1>2. ASSUME NEW y \in S PROVE ~(y < x)
  <2>1. ~(<<y, x>> \in OpToRel(<, Nat))
    BY <1>1
  <2> QED
    BY <2>1, SMT DEF OpToRel
<1> QED
  BY <1>2, SMT
-----------------------------------------------------------------------------
(* The loop of string_length_user stops, at the first index where it must. *)
LEMMA LoopLengthLeast ==
    ASSUME NEW a \in Reg
    PROVE  /\ LoopLength(a) \in 0 .. MaxPath
           /\ Stops(a, LoopLength(a))
           /\ \A k \in 0 .. LoopLength(a) - 1 : ~Stops(a, k)
<1> DEFINE S == {n \in 0 .. MaxPath : Stops(a, n)}
<1>1. MaxPath \in S
  BY AccessAssumption, SMT DEF Stops
<1>2. S \in SUBSET Nat
  BY AccessAssumption, SMT
<1>3. PICK x \in S : \A y \in S : x <= y
  BY <1>1, <1>2, LeastNatural
<1>4. \A k \in 0 .. x - 1 : k \notin S
  BY <1>2, <1>3, SMT
<1>5. \A k \in 0 .. x - 1 : ~Stops(a, k)
  BY <1>2, <1>3, <1>4, AccessAssumption, SMT
<1> QED
  BY <1>3, <1>5, Zenon DEF LoopLength

(* What string_length_user returns. *)
LEMMA StringLengthFacts ==
    ASSUME NEW a \in Reg, mem \in [Window -> Char]
    PROVE  LET n == string_length_user(a) IN
           IF n = Fail THEN \A k \in 0 .. MaxPath - 1 : ~Terminated(a, k)
                       ELSE Terminated(a, n)
<1> DEFINE L == LoopLength(a)
<1>0. /\ a \in Nat /\ UserBase \in Nat /\ UserLimit \in Nat /\ MaxPath \in Nat
  BY AccessAssumption, SMT DEF Reg
<1>1. /\ L \in 0 .. MaxPath /\ Stops(a, L)
      /\ \A k \in 0 .. L - 1 : ~Stops(a, k)
  BY LoopLengthLeast
<1> HIDE DEF L
<1>2. L \in Nat
  BY <1>0, <1>1, SMT
<1>3. CASE ~user_range(a, 1)
  <2>1. string_length_user(a) = Fail
    BY <1>3 DEF string_length_user
  <2>2. a \notin Window
    BY <1>0, <1>3, SMT DEF user_range, Window
  <2>3. \A k \in 0 .. MaxPath - 1 : a \in a .. a + k
    BY <1>0, SMT
  <2> QED
    BY <2>1, <2>2, <2>3 DEF Terminated
<1>4. CASE user_range(a, 1) /\ (L = MaxPath \/ ~user_range(a + L, 1))
  <2>1. string_length_user(a) = Fail
    BY <1>4 DEF string_length_user, L
  <2>2. ASSUME NEW k \in 0 .. MaxPath - 1, Terminated(a, k) PROVE FALSE
    <3>1. k \in Nat /\ a + k \in Window
      BY <1>0, <2>2, SMT DEF Terminated
    <3>2. k < L
      BY <1>0, <1>2, <1>4, <3>1, SMT DEF user_range, Window
    <3>3. ~Stops(a, k)
      BY <1>1, <1>2, <3>1, <3>2, SMT
    <3> QED
      BY <2>2, <3>3 DEF Stops, Terminated
  <2> QED
    BY <2>1, <2>2
<1>5. CASE user_range(a, 1) /\ L # MaxPath /\ user_range(a + L, 1)
  <2>1. string_length_user(a) = L
    BY <1>5 DEF string_length_user, L
  <2>2. L \in 0 .. MaxPath - 1
    BY <1>0, <1>1, <1>5, SMT
  <2>3. a .. a + L \subseteq Window
    BY <1>0, <1>2, <1>5, SMT DEF user_range, Window
  <2>4. mem[a + L] = "NUL"
    BY <1>1, <1>5 DEF Stops
  <2>5. \A k \in 0 .. L - 1 : mem[a + k] # "NUL"
    BY <1>1 DEF Stops
  <2>6. L # Fail
    BY <1>2, SMT DEF Fail
  <2> QED
    BY <2>1, <2>2, <2>3, <2>4, <2>5, <2>6 DEF Terminated
<1> QED
  BY <1>3, <1>4, <1>5

(* The reads of string_length_user, and of the copy that follows it. *)
LEMMA StringReadsInside ==
    ASSUME NEW a \in Reg, mem \in [Window -> Char]
    PROVE  /\ string_reads(a) \subseteq Window
           /\ string_length_user(a) # Fail =>
                 /\ string_length_user(a) \in 0 .. MaxPath - 1
                 /\ a .. a + string_length_user(a) \subseteq Window
           /\ string_length_user(a) \in Int
<1>0. /\ a \in Nat /\ UserBase \in Nat /\ UserLimit \in Nat /\ MaxPath \in Nat
  BY AccessAssumption, SMT DEF Reg
<1>1. LoopLength(a) \in Nat
  BY <1>0, LoopLengthLeast, SMT
<1>2. string_reads(a) \subseteq Window
  BY <1>0, <1>1, SMT DEF string_reads, user_range, Window
<1>3. string_length_user(a) # Fail =>
        /\ string_length_user(a) \in 0 .. MaxPath - 1
        /\ a .. a + string_length_user(a) \subseteq Window
  BY StringLengthFacts DEF Terminated
<1>4. string_length_user(a) \in Int
  BY <1>0, <1>1, SMT DEF string_length_user, Fail
<1> QED
  BY <1>2, <1>3, <1>4
-----------------------------------------------------------------------------
(* The four properties together are inductive. *)
Inv == TypeOK /\ AccessInsideWindow /\ WritesInsideBuffer /\ StringExact

(* An accepted buffer lies in the window. *)
LEMMA BufferInside ==
    ASSUME NEW a \in Reg, NEW n \in Reg, user_range(a, n)
    PROVE  a .. a + n - 1 \subseteq Window
  BY AccessAssumption, SMT DEF user_range, Window, Reg

(* A call without a string argument that stayed inside window and buffer. *)
Harmless(c) ==
    /\ c \in Call /\ c.str = 0
    /\ c.reads \subseteq Window /\ c.writes \subseteq Window
    /\ c.writes \subseteq c.buf .. c.buf + c.len - 1

(* The error value is an integer. *)
LEMMA FailInt == Fail \in Int
  BY SMT DEF Fail

(* The fields of a call record, and its type. *)
LEMMA DidTyped ==
    ASSUME NEW rd \in SUBSET Int, NEW wr \in SUBSET Int, NEW b \in Int, NEW l \in Int,
           NEW s \in Int, NEW f \in Int, NEW r \in Int
    PROVE  LET c == Did(rd, wr, b, l, s, f, r) IN
           /\ c \in Call /\ c.reads = rd /\ c.writes = wr /\ c.buf = b /\ c.len = l
           /\ c.str = s /\ c.found = f
  BY SMT DEF Did, Call

(* The idle state, and a call refused before it touched anything. *)
LEMMA RefusedCall ==
    /\ Harmless(NoCall)
    /\ \A a, n \in Reg : Harmless(Refused(a, n))
<1>1. \A a \in Reg : a \in Int
  BY AccessAssumption, SMT DEF Reg
<1>2. 0 \in Int /\ {} \in SUBSET Int
  BY SMT
<1> QED
  BY <1>1, <1>2, DidTyped, FailInt DEF Harmless, NoCall, Refused

(* A call that only writes, inside its buffer and the window. *)
LEMMA WritingCall ==
    ASSUME NEW a \in Reg, NEW n \in Reg, NEW k \in Nat,
           k <= n, user_range(a, n), NEW r \in Int
    PROVE  Harmless(Wrote(a .. a + k - 1, a, n, r))
<1> DEFINE W == a .. a + k - 1
           c == Wrote(W, a, n, r)
<1>1. a \in Nat /\ n \in Nat
  BY AccessAssumption, SMT DEF Reg
<1>2. W \subseteq a .. a + n - 1 /\ W \in SUBSET Int
  BY <1>1, SMT
<1>3. W \subseteq Window
  BY <1>2, BufferInside
<1>r. 0 \in Int /\ {} \in SUBSET Int /\ a \in Int /\ n \in Int
  BY <1>1, SMT
<1> HIDE DEF W
<1>4. /\ c.reads = {} /\ c.writes = W /\ c.buf = a /\ c.len = n
      /\ c.str = 0 /\ c \in Call
  BY <1>1, <1>2, <1>r, DidTyped, FailInt DEF Wrote
<1> HIDE DEF c
<1>5. Harmless(c)
  BY <1>2, <1>3, <1>4 DEF Harmless
<1> QED
  BY <1>5 DEF c, W

(* Memory filled by a handler keeps its type. *)
LEMMA FilledTyped ==
    ASSUME mem \in [Window -> Char], NEW S, NEW c \in Char
    PROVE  Filled(S, c) \in [Window -> Char]
  BY DEF Filled

(* Every handler, and the return to the caller, keeps the invariant. *)
LEMMA StepInv == Inv /\ [Next]_vars => Inv'
<1> SUFFICES ASSUME Inv, [Next]_vars PROVE Inv'
  OBVIOUS
<1>0. mem \in [Window -> Char] /\ "c" \in Char /\ "/" \in Char /\ "NUL" \in Char
  BY DEF Inv, TypeOK, Char
<1>q. ASSUME mem' \in [Window -> Char], Harmless(call') PROVE Inv'
  BY <1>q
  DEF Harmless, Inv, TypeOK, AccessInsideWindow, WritesInsideBuffer, StringExact
<1>c. ASSUME NEW a \in Reg, UNCHANGED mem, NEW R \in SUBSET Window, NEW r \in Int,
             call' = ReadString(R, a, string_length_user(a), r)
      PROVE  Inv'
  <2>1. /\ R \in SUBSET Int /\ a \in Int /\ string_length_user(a) \in Int
        /\ 0 \in Int /\ {} \in SUBSET Int
    BY <1>0, AccessAssumption, StringReadsInside, SMT DEF Window, Reg
  <2>2. /\ call'.reads = R /\ call'.writes = {} /\ call'.str = a
        /\ call'.found = string_length_user(a) /\ call' \in Call
    BY <1>c, <2>1, DidTyped DEF ReadString
  <2>3. StringExact'
    BY <1>0, <1>c, <2>2, StringLengthFacts DEF StringExact, Terminated
  <2> QED
    BY <1>0, <1>c, <2>2, <2>3
    DEF Inv, TypeOK, AccessInsideWindow, WritesInsideBuffer
<1>1. ASSUME NEW a \in Reg, CopyPath(a) PROVE Inv'
  <2> DEFINE n == string_length_user(a)
             R == string_reads(a) \cup (IF n = Fail \/ n >= MaxPath THEN {} ELSE a .. a + n)
  <2>1. R \in SUBSET Window /\ n \in Int
    BY <1>0, StringReadsInside
  <2>2. call' = ReadString(R, a, n, n)
        /\ UNCHANGED mem
    BY <1>1 DEF CopyPath
  <2> HIDE DEF R
  <2> QED
    BY <1>c, <2>1, <2>2
<1>2. ASSUME NEW a \in Reg, Chdir(a) PROVE Inv'
  <2> DEFINE n == string_length_user(a)
             R == string_reads(a) \cup (IF n = 1 THEN {a, a + 1} ELSE {})
             r == IF n = 1 /\ mem[a] = "/" THEN 0 ELSE Fail
  <2>1. n = 1 => a \in Window /\ a + 1 \in Window
    BY <1>0, StringReadsInside, AccessAssumption, SMT DEF Fail, Reg
  <2>2. R \in SUBSET Window /\ r \in Int
    BY <1>0, <2>1, StringReadsInside, SMT DEF Fail
  <2>3. call' = ReadString(R, a, n, r)
        /\ UNCHANGED mem
    BY <1>2 DEF Chdir
  <2> HIDE DEF R, r
  <2> QED
    BY <1>c, <2>2, <2>3
<1>3. ASSUME NEW a \in Reg, NEW n \in Reg, Getcwd(a, n) PROVE Inv'
  <2>1. CASE GetcwdFits(a, n)
    <3>1. call' = Wrote(a .. a + 2 - 1, a, n, 1)
      BY <1>3, <2>1, SMT DEF Getcwd, CwdLength, Reg
    <3>2. user_range(a, n) /\ 2 <= n
      BY <2>1, AccessAssumption, SMT DEF GetcwdFits, CwdLength, Reg
    <3>3. mem' \in [Window -> Char]
      BY <1>0, <1>3, <2>1, FilledTyped DEF Getcwd
    <3>4. 2 \in Nat /\ 1 \in Int
      BY SMT
    <3> QED
      BY <1>q, <3>1, <3>2, <3>3, <3>4, WritingCall
  <2>2. CASE ~GetcwdFits(a, n)
    BY <1>q, <1>0, <1>3, <2>2, RefusedCall DEF Getcwd
  <2> QED
    BY <2>1, <2>2
<1>4. ASSUME NEW a \in Reg, NEW n \in Reg, Uname(a, n) PROVE Inv'
  <2>1. CASE user_range(a, n) /\ n >= UnameMin
    <3>1. UnameSize \in Nat /\ UnameSize <= n /\ UnameSize - 1 \in Int
      BY <2>1, AccessAssumption, SMT DEF Reg
    <3>2. mem' \in [Window -> Char]
      BY <1>0, <1>4, <2>1, FilledTyped DEF Uname
    <3> QED
      BY <1>q, <1>4, <2>1, <3>1, <3>2, WritingCall DEF Uname
  <2>2. CASE ~(user_range(a, n) /\ n >= UnameMin)
    BY <1>q, <1>0, <1>4, <2>2, RefusedCall DEF Uname
  <2> QED
    BY <2>1, <2>2
<1>5. ASSUME NEW fd \in 0 .. 2, NEW a \in Reg, NEW n \in Reg, Write(fd, a, n) PROVE Inv'
  <2>1. CASE call' = NoCall
    BY <1>q, <1>0, <1>5, <2>1, RefusedCall DEF Write
  <2>2. CASE user_range(a, n)
             /\ call' = Did(a .. a + n - 1, {}, 0, 0, 0, Fail, n)
    <3>1. a .. a + n - 1 \subseteq Window
      BY <2>2, BufferInside
    <3>2. a .. a + n - 1 \in SUBSET Int /\ n \in Int /\ 0 \in Int /\ {} \in SUBSET Int
      BY AccessAssumption, SMT DEF Reg
    <3>3. /\ call'.reads = a .. a + n - 1 /\ call'.writes = {} /\ call'.str = 0
          /\ call' \in Call
      BY <2>2, <3>2, DidTyped, FailInt
    <3> QED
      BY <1>q, <1>0, <1>5, <3>1, <3>3 DEF Write, Harmless
  <2> QED
    BY <1>5, <2>1, <2>2 DEF Write
<1>6. ASSUME NEW fd \in 0 .. 2, NEW a \in Reg, NEW n \in Reg, ReadRefused(fd, a, n)
      PROVE  Inv'
  BY <1>q, <1>0, <1>6, RefusedCall DEF ReadRefused
<1>7. ASSUME NEW a \in Reg, NEW n \in Reg, NEW k \in Reg, Read(0, a, n, k) PROVE Inv'
  <2>1. k \in Nat /\ k \in Int
    BY AccessAssumption, SMT DEF Reg
  <2>2. mem' \in [Window -> Char]
    BY <1>0, <1>7, FilledTyped DEF Read
  <2> QED
    BY <1>q, <1>7, <2>1, <2>2, WritingCall DEF Read
<1>8. ASSUME NEW p \in Reg, NEW a \in Reg, NEW n \in Reg, NEW k \in Reg, Readdir(p, a, n, k)
      PROVE  Inv'
  <2> DEFINE len == string_length_user(p)
             lists == len = 1 /\ user_range(a, n)
             R == string_reads(p) \cup (IF lists THEN {p, p + 1} ELSE {})
             W == a .. a + k - 1
             r == IF k = 0 THEN Fail ELSE k
  <2>0. a \in Nat /\ n \in Nat /\ k \in Nat /\ p \in Nat
    BY AccessAssumption, SMT DEF Reg
  <2>1. len = 1 => p \in Window /\ p + 1 \in Window
    BY <1>0, <2>0, StringReadsInside, SMT DEF Fail
  <2>2. R \in SUBSET Window /\ r \in Int /\ len \in Int
    BY <1>0, <2>0, <2>1, StringReadsInside, SMT DEF Fail
  <2>3. R \in SUBSET Int
    BY <2>2, AccessAssumption, SMT DEF Window
  <2>4. /\ call' = Did(R, W, a, n, p, len, r)
        /\ k # 0 => lists /\ k <= n
        /\ mem' = Filled(W, "c")
    BY <1>8, <2>0, SMT DEF Readdir
  <2>5. W \subseteq Window /\ W \subseteq a .. a + n - 1 /\ W \in SUBSET Int
    <3>1. CASE k = 0
      BY <2>0, <3>1, SMT
    <3>2. CASE k # 0
      <4>1. W \subseteq a .. a + n - 1 /\ W \in SUBSET Int
        BY <2>0, <2>4, <3>2, SMT
      <4> QED
        BY <2>4, <3>2, <4>1, BufferInside
    <3> QED
      BY <3>1, <3>2
  <2>6. mem' \in [Window -> Char]
    BY <1>0, <2>4, FilledTyped
  <2>7. W = {} => mem' = mem
    BY <1>0, <2>4, SMT DEF Filled
  <2> HIDE DEF R, W, r, len, lists
  <2>i. a \in Int /\ n \in Int /\ p \in Int
    BY <2>0, SMT
  <2>8. /\ call'.reads = R /\ call'.writes = W /\ call'.buf = a /\ call'.len = n
        /\ call'.str = p /\ call'.found = len /\ call' \in Call
    BY <2>0, <2>2, <2>3, <2>4, <2>5, <2>i, DidTyped
  <2>9. StringExact'
    BY <1>0, <2>7, <2>8, StringLengthFacts DEF StringExact, Terminated, len
  <2> QED
    BY <2>2, <2>5, <2>6, <2>8, <2>9 DEF Inv, TypeOK, AccessInsideWindow, WritesInsideBuffer
<1>9. CASE Return
  BY <1>q, <1>0, <1>9, RefusedCall DEF Return
<1>10. CASE UNCHANGED vars
  BY <1>10
  DEF vars, Inv, TypeOK, AccessInsideWindow, WritesInsideBuffer, StringExact, Terminated
<1> QED
  BY <1>1, <1>2, <1>3, <1>4, <1>5, <1>6, <1>7, <1>8, <1>9, <1>10 DEF Next, Handle

(* Every behaviour keeps the inductive invariant. *)
LEMMA InvAlways == Spec => []Inv
<1>1. Init => Inv
  BY RefusedCall
  DEF Init, Harmless, Inv, TypeOK, AccessInsideWindow, WritesInsideBuffer, StringExact
<1> QED
  BY <1>1, StepInv, PTL DEF Spec

(* No system call dereferences an address outside the user window. *)
THEOREM AccessConfined == Spec => []AccessInsideWindow
<1>1. Inv => AccessInsideWindow
  BY DEF Inv
<1> QED
  BY <1>1, InvAlways, PTL

(* No system call writes outside the buffer its caller offered. *)
THEOREM WritesConfined == Spec => []WritesInsideBuffer
<1>1. Inv => WritesInsideBuffer
  BY DEF Inv
<1> QED
  BY <1>1, InvAlways, PTL

(* string_length_user finds exactly the strings that end in time. *)
THEOREM StringLengthExact == Spec => []StringExact
<1>1. Inv => StringExact
  BY DEF Inv
<1> QED
  BY <1>1, InvAlways, PTL
=============================================================================
