----------------------------- MODULE BootProofs -----------------------------
(* Machine-checked proofs about the boot: the walks over the Multiboot2       *)
(* information and the EFI loader in front of them, for every information,    *)
(* every kernel file and every word size.                                     *)
EXTENDS EfiBoot, FiniteSetTheorems, WellFoundedInduction, TLAPS

-----------------------------------------------------------------------------
(* Arithmetic.                                                               *)

(* A value below the modulus is not changed by the wrap-around. *)
LEMMA ModSmall ==
    ASSUME NEW a \in Nat, NEW n \in Nat, a < n
    PROVE  a % n = a
  BY SMT

(* A value wrapped once has lost the modulus. *)
LEMMA ModOnce ==
    ASSUME NEW a \in Nat, NEW n \in Nat \ {0}, n <= a, a < 2 * n
    PROVE  a % n = a - n
  BY SMT

(* A remainder is below the modulus. *)
LEMMA ModIn ==
    ASSUME NEW a \in Nat, NEW n \in Nat \ {0}
    PROVE  a % n \in 0 .. n - 1
  BY SMT

(* A quotient and the multiples around the dividend. *)
LEMMA DivFacts ==
    ASSUME NEW a \in Nat, NEW n \in Nat \ {0}
    PROVE  a \div n \in Nat /\ (a \div n) * n <= a /\ a < ((a \div n) + 1) * n
  BY SMT

LEMMA DivSmall ==
    ASSUME NEW a \in Nat, NEW n \in Nat, a < n
    PROVE  a \div n = 0
  BY SMT

LEMMA DivExact ==
    ASSUME NEW a \in Nat, NEW n \in Nat \ {0}, a % n = 0
    PROVE  a = (a \div n) * n
  BY SMT

LEMMA TimesMono ==
    ASSUME NEW a \in Nat, NEW b \in Nat, NEW c \in Nat, a <= b
    PROVE  a * c <= b * c
  BY SMT

(* Rounding up covers. *)
LEMMA RoundUp ==
    ASSUME NEW m \in Nat, NEW n \in Nat \ {0}
    PROVE  m <= ((m + n - 1) \div n) * n
<1> DEFINE x == m + n - 1
<1>1. x \in Nat
  OBVIOUS
<1> HIDE DEF x
<1>2. x < ((x \div n) + 1) * n /\ (x \div n) \in Nat
  BY <1>1, DivFacts
<1>3. ((x \div n) + 1) * n = (x \div n) * n + n /\ (x \div n) * n \in Nat
  BY <1>2
<1>4. m = x - n + 1
  BY DEF x
<1>5. m <= (x \div n) * n
  BY <1>1, <1>2, <1>3, <1>4
<1> QED
  BY <1>5 DEF x

(* Where a byte of n units that begin at unit q lies. *)
LEMMA DivRange ==
    ASSUME NEW q \in Nat, NEW n \in Nat, NEW x \in Nat, NEW c \in Nat \ {0}, x < n * c
    PROVE  (q * c + x) \div c \in q .. (q + n - 1)
<1> DEFINE d == (q * c + x) \div c
<1>0. q * c + x \in Nat /\ q * c \in Nat /\ n * c \in Nat
  OBVIOUS
<1>1. d \in Nat /\ d * c <= q * c + x /\ q * c + x < (d + 1) * c
  BY <1>0, DivFacts
<1> HIDE DEF d
<1>2. q <= d
  <2>1. CASE d + 1 <= q
    <3>1. (d + 1) * c <= q * c
      BY <1>1, <2>1, TimesMono
    <3>2. (d + 1) * c \in Nat
      BY <1>1
    <3> QED
      BY <1>0, <1>1, <3>1, <3>2
  <2> QED
    BY <1>1, <2>1
<1>3. d <= q + n - 1
  <2>1. CASE q + n <= d
    <3>1. (q + n) * c <= d * c
      BY <1>1, <2>1, TimesMono
    <3>2. (q + n) * c = q * c + n * c /\ d * c \in Nat
      BY <1>1
    <3> QED
      BY <1>0, <1>1, <3>1, <3>2
  <2> QED
    BY <1>1, <2>1
<1> QED
  BY <1>1, <1>2, <1>3 DEF d
-----------------------------------------------------------------------------
(* Sums along a list.                                                        *)

(* Induction over the natural numbers, for a set: the well-foundedness of <   *)
(* gives a least number outside it.                                          *)
LEMMA NatSetInduction ==
    ASSUME NEW S, 0 \in S, \A n \in Nat : n \in S => n + 1 \in S
    PROVE  Nat \subseteq S
<1> DEFINE R == OpToRel(<, Nat)
           T == Nat \ S
<1>1. IsWellFoundedOn(R, Nat)
  BY NatLessThanWellFounded
<1>2. \A x, y \in Nat : y < x => <<y, x>> \in R
  BY DEF OpToRel
<1> HIDE DEF R
<1>3. ASSUME T # {} PROVE FALSE
  <2>1. T \subseteq Nat
    OBVIOUS
  <2> HIDE DEF T
  <2>2. \E x \in T : \A y \in T : ~(<<y, x>> \in R)
    BY <1>1, <1>3, <2>1, WFMin
  <2>3. PICK x \in T : \A y \in T : ~(<<y, x>> \in R)
    BY <2>2
  <2> USE DEF T
  <2>4. x # 0 /\ x - 1 \in Nat /\ x - 1 < x /\ x = (x - 1) + 1
    BY <2>3
  <2>5. x - 1 \in S
    BY <1>2, <2>3, <2>4
  <2> QED
    BY <2>4, <2>5
<1> QED
  BY <1>3


(* The first n sums of inc above c. *)
Sums(c, inc, n, h) == h \in [0 .. n -> Nat] /\ h[0] = c /\ \A i \in 0 .. n - 1 : h[i + 1] = h[i] + inc[i]
SumsTo(c, inc, n) == CHOOSE h : Sums(c, inc, n, h)

(* There are such sums, of any number of terms. *)
LEMMA SumsExist ==
    ASSUME NEW c \in Nat, NEW inc \in [Nat -> Nat], NEW n \in Nat
    PROVE  Sums(c, inc, n, SumsTo(c, inc, n))
<1> DEFINE S == {m \in Nat : \E h : Sums(c, inc, m, h)}
<1>1. 0 \in S
  <2> DEFINE h == [i \in 0 .. 0 |-> c]
  <2>1. Sums(c, inc, 0, h)
    BY DEF Sums
  <2> HIDE DEF h
  <2> QED
    BY <2>1
<1>2. ASSUME NEW m \in Nat, m \in S PROVE m + 1 \in S
  <2>1. PICK h : Sums(c, inc, m, h)
    BY <1>2
  <2> DEFINE e == [i \in 0 .. (m + 1) |-> IF i = m + 1 THEN h[m] + inc[m] ELSE h[i]]
  <2>2. h[m] \in Nat /\ inc[m] \in Nat /\ \A i \in 0 .. m : h[i] \in Nat
    BY <2>1 DEF Sums
  <2>3. e \in [0 .. (m + 1) -> Nat]
    BY <2>2
  <2>4. e[0] = c /\ e[m + 1] = h[m] + inc[m] /\ \A i \in 0 .. m : e[i] = h[i]
    <3>1. h[0] = c /\ 0 # m + 1 /\ 0 \in 0 .. (m + 1) /\ m + 1 \in 0 .. (m + 1)
      BY <2>1 DEF Sums
    <3> QED
      BY <3>1
  <2> HIDE DEF e
  <2>5. ASSUME NEW i \in 0 .. (m + 1) - 1 PROVE e[i + 1] = e[i] + inc[i]
    <3>1. CASE i = m
      BY <2>4, <3>1
    <3>2. CASE i # m
      <4>1. i \in 0 .. m - 1 /\ i \in 0 .. m /\ i + 1 \in 0 .. m
        BY <3>2
      <4> QED
        BY <2>1, <2>4, <4>1 DEF Sums
    <3> QED
      BY <3>1, <3>2
  <2>6. Sums(c, inc, m + 1, e)
    BY <2>3, <2>4, <2>5 DEF Sums
  <2> QED
    BY <2>6
<1>3. Nat \subseteq S
  <2> HIDE DEF S
  <2> QED
    BY <1>1, <1>2, NatSetInduction
<1>4. \E h : Sums(c, inc, n, h)
  BY <1>3
<1> QED
  BY <1>4 DEF SumsTo

(* Sums of more terms extend those of fewer. *)
LEMMA SumsAgree ==
    ASSUME NEW c \in Nat, NEW inc \in [Nat -> Nat], NEW n \in Nat, NEW a, NEW b,
           Sums(c, inc, n, a), Sums(c, inc, n + 1, b)
    PROVE  a[n] = b[n] /\ b[n + 1] = b[n] + inc[n] /\ a[n] \in Nat
<1> DEFINE W == {i \in Nat : i <= n => a[i] = b[i]}
<1>1. 0 \in W
  BY DEF Sums
<1>2. ASSUME NEW i \in Nat, i \in W PROVE i + 1 \in W
  <2> SUFFICES ASSUME i + 1 <= n PROVE a[i + 1] = b[i + 1]
    OBVIOUS
  <2>1. i \in 0 .. n - 1 /\ i \in 0 .. (n + 1) - 1 /\ a[i] = b[i]
    BY <1>2
  <2> QED
    BY <2>1 DEF Sums
<1>3. Nat \subseteq W
  <2> HIDE DEF W
  <2> QED
    BY <1>1, <1>2, NatSetInduction
<1>4. n \in 0 .. (n + 1) - 1 /\ n \in 0 .. n
  OBVIOUS
<1> QED
  BY <1>3, <1>4 DEF Sums

(* The sums of a function of the naturals exist. *)
LEMMA RunningSums ==
    ASSUME NEW c \in Nat, NEW inc \in [Nat -> Nat]
    PROVE  \E u \in [Nat -> Nat] : u[0] = c /\ \A n \in Nat : u[n + 1] = u[n] + inc[n]
<1> DEFINE u == [n \in Nat |-> SumsTo(c, inc, n)[n]]
<1>1. \A n \in Nat : u[n] = SumsTo(c, inc, n)[n]
  OBVIOUS
<1>2. \A n \in Nat : Sums(c, inc, n, SumsTo(c, inc, n))
  BY SumsExist
<1>3. DOMAIN u = Nat
  OBVIOUS
<1>4. u = [n \in Nat |-> u[n]]
  OBVIOUS
<1> HIDE DEF u
<1>5. \A n \in Nat : u[n] \in Nat
  <2> SUFFICES ASSUME NEW n \in Nat PROVE u[n] \in Nat
    OBVIOUS
  <2>1. SumsTo(c, inc, n) \in [0 .. n -> Nat] /\ n \in 0 .. n
    BY <1>2 DEF Sums
  <2> QED
    BY <1>1, <2>1
<1>6. u[0] = c
  BY <1>1, <1>2 DEF Sums
<1>7. ASSUME NEW n \in Nat PROVE u[n + 1] = u[n] + inc[n]
  <2> DEFINE a == SumsTo(c, inc, n)
             b == SumsTo(c, inc, n + 1)
  <2>1. Sums(c, inc, n, a) /\ Sums(c, inc, n + 1, b) /\ u[n] = a[n] /\ u[n + 1] = b[n + 1]
    BY <1>1, <1>2
  <2> HIDE DEF a, b
  <2> QED
    BY <2>1, SumsAgree
<1>8. u \in [Nat -> Nat]
  BY <1>4, <1>5
<1> QED
  BY <1>6, <1>7, <1>8
-----------------------------------------------------------------------------
(* The list of tags.                                                         *)

(* A tag as a boot loader, or build_info, writes it. *)
TagLike == [type : {"end", "module", "framebuffer", "other"}, size : Nat, start : 0 .. Word - 1,
            end : 0 .. Word - 1, named : BOOLEAN, fb : {"rgb", "refused", "empty"}]
ListLike(inf) == inf.total \in Nat /\ inf.tags \in Seq(TagLike) /\ inf.rest \in TagLike

(* A rounded size is a multiple of 8, and 0 or at least 8. *)
LEMMA Round8Facts ==
    ASSUME NEW size \in Nat
    PROVE  Round8(size) \in Nat /\ (Round8(size) = 0 \/ Round8(size) >= 8)
<1>1. (size + 7) % Word \in Nat
  BY ModIn, BootAssumption
<1> DEFINE d == ((size + 7) % Word) \div 8
<1>2. d \in Nat /\ Round8(size) = d * 8
  BY <1>1, DivFacts DEF Round8
<1> HIDE DEF d
<1> QED
  BY <1>2

LEMMA TagOfFacts ==
    ASSUME NEW inf, ListLike(inf), NEW i \in Nat \ {0}
    PROVE  TagOf(inf, i) \in TagLike /\ TagOf(inf, i).size \in Nat
<1>1. TagOf(inf, i) \in TagLike
  BY DEF TagOf, ListLike
<1> QED
  BY <1>1 DEF TagLike

(* The recursive definition of the places of the tags has the solution it     *)
(* describes: the first tag is behind the header, and every other one where   *)
(* the rounded size of the one before puts it.                                *)
LEMMA PlacesFacts ==
    ASSUME NEW inf, ListLike(inf)
    PROVE  /\ \A i \in Nat : Places(inf)[i] \in Nat
           /\ Places(inf)[1] = 8
           /\ \A i \in Nat \ {0} : Places(inf)[i + 1] = Places(inf)[i] + Round8(TagOf(inf, i).size)
<1> DEFINE R(i) == Round8(TagOf(inf, i).size)
           inc == [i \in Nat |-> IF i = 0 THEN 0 ELSE R(i)]
<1>0. \A i \in Nat \ {0} : R(i) \in Nat
  BY TagOfFacts, Round8Facts
<1> HIDE DEF R
<1>1. inc \in [Nat -> Nat] /\ \A i \in Nat : inc[i] = IF i = 0 THEN 0 ELSE R(i)
  BY <1>0
<1> HIDE DEF inc
<1>2. PICK u \in [Nat -> Nat] : u[0] = 8 /\ \A n \in Nat : u[n + 1] = u[n] + inc[n]
  <2>1. 8 \in Nat
    OBVIOUS
  <2> QED
    BY <1>1, <2>1, RunningSums
<1>3. \A i \in Nat : u[i] = IF i <= 1 THEN 8 ELSE u[i - 1] + R(i - 1)
  <2> SUFFICES ASSUME NEW i \in Nat PROVE u[i] = IF i <= 1 THEN 8 ELSE u[i - 1] + R(i - 1)
    OBVIOUS
  <2>1. i = 0 \/ (i - 1 \in Nat /\ (i - 1) + 1 = i /\ (i <= 1 <=> i - 1 = 0))
    OBVIOUS
  <2>2. i # 0 => u[i] = u[i - 1] + inc[i - 1]
    BY <1>2, <2>1
  <2>3. i # 0 => inc[i - 1] = IF i <= 1 THEN 0 ELSE R(i - 1)
    BY <1>1, <2>1
  <2> QED
    BY <1>0, <1>2, <2>1, <2>2, <2>3
<1>4. u = [i \in Nat |-> IF i <= 1 THEN 8 ELSE u[i - 1] + R(i - 1)]
  BY <1>3
<1> DEFINE P == Places(inf)
<1>5. P = [i \in Nat |-> IF i <= 1 THEN 8 ELSE P[i - 1] + R(i - 1)]
  BY <1>4, Zenon DEF Places, R
<1> HIDE DEF P
<1>6. P[0] = 8 /\ P[1] = 8
  BY <1>5
<1>7. \A i \in Nat \ {0} : P[i + 1] = P[i] + R(i)
  <2> SUFFICES ASSUME NEW i \in Nat \ {0} PROVE P[i + 1] = P[i] + R(i)
    OBVIOUS
  <2>1. i + 1 \in Nat /\ ~(i + 1 <= 1) /\ (i + 1) - 1 = i
    OBVIOUS
  <2>2. P[i + 1] = P[(i + 1) - 1] + R((i + 1) - 1)
    BY <1>5, <2>1
  <2> QED
    BY <2>1, <2>2
<1>8. \A i \in Nat : P[i] \in Nat
  <2> DEFINE S == {i \in Nat : P[i] \in Nat}
  <2>1. 0 \in S
    BY <1>6
  <2>2. ASSUME NEW i \in Nat, i \in S PROVE i + 1 \in S
    BY <1>0, <1>6, <1>7, <2>2
  <2>3. Nat \subseteq S
    <3> HIDE DEF S
    <3> QED
      BY <2>1, <2>2, NatSetInduction
  <2> QED
    BY <2>3
<1> QED
  BY <1>6, <1>7, <1>8 DEF P, R

-----------------------------------------------------------------------------
(* The larger of two numbers. *)
LEMMA MaxPair ==
    ASSUME NEW a \in Int, NEW b \in Int
    PROVE  /\ Max({a, b}) \in Int /\ Max({a, b}) \in {a, b}
           /\ a <= Max({a, b}) /\ b <= Max({a, b})
<1>1. \E x \in {a, b} : \A y \in {a, b} : x >= y
  BY SMT
<1>2. Max({a, b}) \in {a, b} /\ \A y \in {a, b} : Max({a, b}) >= y
  BY <1>1, Zenon DEF Max
<1> QED
  BY <1>2

(* The least index with a property is the one below which none has it. *)
LEMMA MinOf ==
    ASSUME NEW S \in SUBSET Nat, NEW i \in S, \A j \in S : i <= j
    PROVE  Min(S) = i
<1> DEFINE m == Min(S)
<1>1. m \in S /\ \A j \in S : m <= j
  BY Zenon DEF Min
<1> HIDE DEF m
<1>2. m \in Nat /\ i \in Nat /\ i <= m /\ m <= i
  BY <1>1
<1>3. m = i
  BY <1>2
<1> QED
  BY <1>3 DEF m

(* The part of the kernel's state that the two walks share.                   *)
Stages == {"efi", "start", "framebuffer", "header", "find", "mount", "mounted", "halted"}
WalkTypes ==
    /\ ListLike(info) /\ k \in Nat \ {0} /\ readEnd \in Nat /\ stage \in Stages
    /\ stage \in {"efi", "start", "header"} => k = 1
    /\ stage \in {"efi", "start"} => readEnd = 0

(* mantle_framebuffer_init has not passed an end tag.                         *)
FbBefore ==
    stage = "framebuffer" => \A n \in DOMAIN info.tags : info.tags[n].type = "end" => k <= n

(* find_rootfs passes only tags that decide nothing, each 8 bytes or more.    *)
FindBefore ==
    stage \in {"find", "mount", "mounted"} =>
        TotalOk /\ At(k) >= 8 * k /\ \A i \in 1 .. k - 1 : ~Decides(i)

(* What it found is the tag it is at.                                         *)
Found ==
    stage \in {"mount", "mounted"} =>
        /\ k <= MaxTags /\ Decides(k)
        /\ tag.type = "module" /\ tag.named /\ At(k) + tag.size <= info.total
        /\ tag.start < tag.end /\ image.start = tag.start /\ image.size = tag.end - tag.start
NoMappingError == "MAPPING_ERROR" \notin said

WalkInv ==
    /\ WalkTypes /\ FbBefore /\ FramebufferInside /\ FindBefore /\ FindInside
    /\ Found /\ NoMappingError

(* What is at the cursor. *)
LEMMA CursorFacts ==
    ASSUME WalkTypes
    PROVE  /\ At(k) \in Nat /\ tag \in TagLike /\ tag.size \in Nat
           /\ At(1) = 8 /\ At(k + 1) = At(k) + Round8(tag.size)
           /\ \A i \in Nat : At(i) \in Nat
  BY PlacesFacts, TagOfFacts DEF WalkTypes, At, tag, TagNo

(* The walk moves on by a whole tag, or stays. *)
LEMMA FollowingFacts ==
    ASSUME WalkTypes
    PROVE  /\ Following \in Nat \ {0}
           /\ \/ Following = k
              \/ Following = k + 1 /\ At(k + 1) >= At(k) + 8
<1>1. k \in Nat \ {0} /\ tag.size \in Nat /\ At(k) \in Nat /\ At(k + 1) = At(k) + Round8(tag.size)
  BY CursorFacts DEF WalkTypes
<1>2. Round8(tag.size) \in Nat /\ (Round8(tag.size) = 0 \/ Round8(tag.size) >= 8)
  BY <1>1, Round8Facts
<1> QED
  BY <1>1, <1>2 DEF Following

(* Nothing but the information decides where tags are. *)
LEMMA SameInfo ==
    ASSUME info' = info
    PROVE  /\ \A i : At(i)' = At(i) /\ TagNo(i)' = TagNo(i)
           /\ \A i : Decides(i)' <=> Decides(i)
           /\ WellFormed' <=> WellFormed
           /\ TotalOk' <=> TotalOk
<1>1. \A i : At(i)' = At(i) /\ TagNo(i)' = TagNo(i)
  BY DEF At, TagNo
<1>2. TotalOk' <=> TotalOk
  BY DEF TotalOk
<1>3. \A i : Decides(i)' <=> Decides(i)
  BY <1>1 DEF Decides
<1>4. WellFormed' <=> WellFormed
  BY <1>1 DEF WellFormed
<1> QED
  BY <1>1, <1>2, <1>3, <1>4
-----------------------------------------------------------------------------
(* One lemma per step of the kernel.                                         *)

LEMMA StartKeeps == WalkInv /\ Start => WalkInv'
<1> SUFFICES ASSUME WalkInv, Start PROVE WalkInv'
  OBVIOUS
<1>1. /\ info' = info /\ k' = k /\ readEnd' = readEnd /\ image' = image /\ stage = "start"
      /\ stage' \in {"framebuffer", "halted"}
  BY DEF Start, Stop
<1>2. "MAPPING_ERROR" \notin said'
  BY DEF Start, Stop, Say, WalkInv, NoMappingError
<1>3. WalkTypes' /\ k' = 1 /\ readEnd' = 0
  BY <1>1 DEF WalkInv, WalkTypes, Stages, ListLike
<1>4. FbBefore'
  BY <1>1, <1>3 DEF FbBefore, WalkTypes, ListLike
<1>5. FramebufferInside'
  <2>1. WellFormed' => info'.total \in Nat
    BY <1>1 DEF WalkInv, WalkTypes, ListLike
  <2> QED
    BY <1>3, <2>1 DEF FramebufferInside
<1> QED
  BY <1>1, <1>2, <1>3, <1>4, <1>5 DEF WalkInv, FindBefore, FindInside, Found, NoMappingError

(* Over a well-formed list, the framebuffer walk reads tags of the list only. *)
LEMMA FbInList ==
    ASSUME WalkInv, stage = "framebuffer", WellFormed
    PROVE  /\ info.total \in Nat /\ readEnd <= info.total
           /\ tag.size >= 8 /\ At(k) + tag.size <= info.total
<1>1. PICK n \in DOMAIN info.tags :
          /\ info.tags[n].type = "end"
          /\ \A i \in 1 .. n : info.tags[i].size >= 8 /\ At(i) + info.tags[i].size <= info.total
  BY DEF WellFormed
<1>2. k \in Nat \ {0} /\ info.tags \in Seq(TagLike) /\ info.total \in Nat
  BY DEF WalkInv, WalkTypes, ListLike
<1>3. k <= n /\ n <= Len(info.tags) /\ n \in Nat
  BY <1>1, <1>2 DEF WalkInv, FbBefore
<1>4. tag = info.tags[k] /\ k \in 1 .. n
  BY <1>2, <1>3 DEF tag, TagNo, TagOf
<1>5. readEnd <= info.total
  BY DEF WalkInv, FramebufferInside
<1> QED
  BY <1>1, <1>2, <1>4, <1>5

(* Reading part of the tag at hand stays inside, and within the types. *)
LEMMA ReadToFacts ==
    ASSUME WalkTypes, NEW bytes \in Nat, ReadTo(bytes)
    PROVE  /\ readEnd' \in Nat
           /\ \A t \in Int : readEnd <= t /\ At(k) + bytes <= t => readEnd' <= t
<1>1. At(k) \in Nat /\ readEnd \in Nat
  BY CursorFacts DEF WalkTypes
<1> DEFINE a == At(k) + bytes
<1>2. a \in Nat /\ readEnd' = Max({readEnd, a})
  BY <1>1 DEF ReadTo
<1> HIDE DEF a
<1>3. readEnd' \in {readEnd, a}
  <2>1. readEnd \in Int /\ a \in Int
    BY <1>1, <1>2
  <2>2. Max({readEnd, a}) \in {readEnd, a}
    BY <2>1, MaxPair, Zenon
  <2> QED
    BY <1>2, <2>2
<1>4. readEnd' \in Nat /\ \A t \in Int : readEnd <= t /\ a <= t => readEnd' <= t
  BY <1>1, <1>2, <1>3
<1> QED
  BY <1>4 DEF a

LEMMA FbKeeps == WalkInv /\ (FbEnd \/ FbFound \/ FbSkip) => WalkInv'
<1> SUFFICES ASSUME WalkInv, FbEnd \/ FbFound \/ FbSkip PROVE WalkInv'
  OBVIOUS
<1>1. WalkTypes /\ stage = "framebuffer" /\ info' = info /\ image' = image
  BY DEF WalkInv, FbEnd, FbFound, FbSkip, Framebuffer, FbDone
<1>2. PICK b \in Nat : ReadTo(b) /\ (b = 8 \/ b <= tag.size)
  <2>1. 8 \in Nat /\ FbSize \in Nat
    BY BootAssumption
  <2>2. CASE FbEnd \/ FbSkip
    BY <2>1, <2>2 DEF FbEnd, FbSkip
  <2>3. CASE FbFound
    <3>1. tag.size \in Nat
      BY <1>1, CursorFacts
    <3> QED
      BY <2>1, <2>3, <3>1 DEF FbFound, FbWanted
  <2> QED
    BY <2>2, <2>3
<1>3. readEnd' \in Nat
  BY <1>1, <1>2, ReadToFacts
<1>4. WellFormed => readEnd' <= info.total
  <2> SUFFICES ASSUME WellFormed PROVE readEnd' <= info.total
    OBVIOUS
  <2>1. /\ info.total \in Nat /\ readEnd <= info.total /\ tag.size >= 8 /\ At(k) + tag.size <= info.total
    BY <1>1, FbInList
  <2>2. At(k) \in Nat /\ tag.size \in Nat
    BY <1>1, CursorFacts
  <2>3. At(k) + b <= info.total
    BY <1>2, <2>1, <2>2
  <2> QED
    BY <1>1, <1>2, <2>1, <2>3, ReadToFacts
<1>5. FramebufferInside'
  BY <1>1, <1>4, SameInfo DEF FramebufferInside
<1>6. CASE FbSkip
  <2>1. stage' = stage /\ k' = Following /\ said' = said /\ ~IsEnd
    BY <1>6 DEF FbSkip
  <2>2. Following \in Nat \ {0} /\ (Following = k \/ Following = k + 1)
    BY <1>1, FollowingFacts
  <2>3. WalkTypes'
    BY <1>1, <1>3, <2>1, <2>2 DEF WalkTypes, ListLike
  <2>4. FbBefore'
    <3> SUFFICES ASSUME NEW n \in DOMAIN info.tags, info.tags[n].type = "end" PROVE Following <= n
      BY <1>1, <2>1 DEF FbBefore
    <3>1. k <= n /\ k \in Nat /\ n \in Nat /\ n <= Len(info.tags)
      BY <1>1 DEF WalkInv, FbBefore, WalkTypes, ListLike
    <3>2. k # n
      BY <2>1, <3>1 DEF IsEnd, tag, TagNo, TagOf
    <3> QED
      BY <2>2, <3>1, <3>2
  <2> QED
    BY <1>1, <1>5, <2>1, <2>3, <2>4 DEF WalkInv, FindBefore, FindInside, Found, NoMappingError
<1>7. CASE FbEnd \/ FbFound
  <2>1. stage' = "header" /\ k' = 1 /\ "MAPPING_ERROR" \notin said'
    BY <1>7 DEF FbEnd, FbFound, FbDone, Say, WalkInv, NoMappingError
  <2>2. WalkTypes'
    BY <1>1, <1>3, <2>1 DEF WalkTypes, ListLike, Stages
  <2> QED
    BY <1>1, <1>5, <2>1, <2>2 DEF WalkInv, FbBefore, FindBefore, FindInside, Found, NoMappingError
<1> QED
  BY <1>6, <1>7

LEMMA FindHeaderKeeps == WalkInv /\ FindHeader => WalkInv'
<1> SUFFICES ASSUME WalkInv, FindHeader PROVE WalkInv'
  OBVIOUS
<1>1. /\ WalkTypes /\ stage = "header" /\ info' = info /\ k' = k /\ image' = image /\ readEnd' = 8
      /\ stage' = "halted" \/ (stage' = "find" /\ TotalOk)
  BY DEF WalkInv, FindHeader, Stop
<1>2. "MAPPING_ERROR" \notin said'
  BY DEF FindHeader, Stop, Say, WalkInv, NoMappingError
<1>3. WalkTypes' /\ k' = 1
  BY <1>1 DEF WalkTypes, Stages, ListLike
<1>4. FindBefore'
  <2>1. At(1) = 8
    BY <1>1, CursorFacts
  <2>2. At(1)' = 8 /\ (TotalOk' <=> TotalOk)
    BY <1>1, <2>1, SameInfo
  <2>3. At(k)' = 8
    BY <1>3, <2>2 DEF At
  <2> QED
    BY <1>1, <1>3, <2>2, <2>3 DEF FindBefore
<1>5. FindInside'
  <2>1. info'.total \in Int /\ 8 \in Int
    BY <1>3 DEF WalkTypes, ListLike
  <2>2. 8 <= Max({8, info'.total})
    BY <2>1, MaxPair
  <2> QED
    BY <1>1, <2>2 DEF FindInside
<1> QED
  BY <1>1, <1>2, <1>3, <1>4, <1>5 DEF WalkInv, FbBefore, FramebufferInside, Found, NoMappingError

(* find_rootfs stops: nothing more is claimed of it. *)
LEMMA FindStops == WalkInv /\ (FindNothing \/ FindMalformed) => WalkInv'
<1> SUFFICES ASSUME WalkInv, FindNothing \/ FindMalformed PROVE WalkInv'
  OBVIOUS
<1>1. /\ WalkTypes /\ info' = info /\ k' = k /\ image' = image /\ stage' = "halted"
  BY DEF WalkInv, FindNothing, FindMalformed, Stop
<1>2. "MAPPING_ERROR" \notin said'
  BY DEF FindNothing, FindMalformed, Stop, Say, WalkInv, NoMappingError
<1>3. readEnd' \in Nat
  <2>1. 8 \in Nat
    OBVIOUS
  <2>2. ReadTo(8) \/ readEnd' = readEnd
    BY DEF FindNothing, FindMalformed
  <2> QED
    BY <1>1, <2>1, <2>2, ReadToFacts DEF WalkTypes
<1>4. WalkTypes'
  BY <1>1, <1>3 DEF WalkTypes, Stages, ListLike
<1> QED
  BY <1>1, <1>2, <1>4 DEF WalkInv, FbBefore, FramebufferInside, FindBefore, FindInside, Found, NoMappingError

(* A turn of find_rootfs over a tag that passes its checks. *)
LEMMA FindTurn ==
    ASSUME WalkInv, stage = "find", InList, ~Malformed, info' = info,
           ReadTo(tag.size) \/ ReadTo(8)
    PROVE  /\ readEnd' \in Nat /\ readEnd' <= Max({8, info'.total})
           /\ k < MaxTags /\ At(k) + tag.size <= info.total
<1>1. /\ WalkTypes /\ info.total \in Nat /\ k \in Nat \ {0} /\ readEnd \in Nat
  BY DEF WalkInv, WalkTypes, ListLike
<1>2. At(k) \in Nat /\ tag.size \in Nat
  BY <1>1, CursorFacts
<1>3. At(k) + 8 <= info.total /\ At(k) + tag.size <= info.total
  BY <1>1, <1>2 DEF InList, Malformed
<1>4. TotalOk /\ At(k) >= 8 * k /\ readEnd <= Max({8, info.total})
  BY DEF WalkInv, FindBefore, FindInside
<1>5. k < MaxTags
  BY <1>1, <1>2, <1>3, <1>4, BootAssumption DEF TotalOk
<1> DEFINE m == Max({8, info.total})
<1>6. m \in Int /\ info.total <= m
  <2>1. 8 \in Int /\ info.total \in Int
    BY <1>1
  <2> QED
    BY <2>1, MaxPair, Zenon
<1>7. PICK b \in Nat : ReadTo(b) /\ At(k) + b <= info.total
  <2>1. 8 \in Nat
    OBVIOUS
  <2> QED
    BY <1>2, <1>3, <2>1
<1>8. readEnd <= m
  BY <1>4
<1> HIDE DEF m
<1>9. At(k) + b <= m
  BY <1>1, <1>2, <1>6, <1>7
<1>10. readEnd' \in Nat /\ readEnd' <= m
  BY <1>1, <1>6, <1>7, <1>8, <1>9, ReadToFacts
<1> QED
  BY <1>3, <1>5, <1>10 DEF m

LEMMA FindSkipKeeps == WalkInv /\ FindSkip => WalkInv'
<1> SUFFICES ASSUME WalkInv, FindSkip PROVE WalkInv'
  OBVIOUS
<1>1. /\ WalkTypes /\ stage = "find" /\ InList /\ ~Malformed /\ info' = info /\ stage' = stage
      /\ image' = image /\ said' = said /\ k' = Following /\ ~IsEnd /\ ~(IsModule /\ ParsesAsRootfs(tag))
  BY DEF WalkInv, FindSkip
<1>2. ReadTo(tag.size) \/ ReadTo(8)
  BY DEF FindSkip
<1>3. readEnd' \in Nat /\ readEnd' <= Max({8, info'.total})
  BY <1>1, <1>2, FindTurn
<1>4. /\ k \in Nat \ {0} /\ At(k) \in Nat /\ tag.size \in Nat /\ info.total \in Nat
      /\ \A i \in Nat : At(i) \in Nat
  BY <1>1, CursorFacts DEF WalkTypes, ListLike
<1>5. /\ Following \in Nat \ {0} /\ (Following = k \/ (Following = k + 1 /\ At(k + 1) >= At(k) + 8))
  BY <1>1, FollowingFacts
<1>6. WalkTypes'
  BY <1>1, <1>3, <1>5 DEF WalkTypes, ListLike
<1>7. ~Decides(k)
  <2>1. ~(At(k) + 8 > info.total) /\ ~(tag.size < 8) /\ ~(At(k) + tag.size > info.total)
    BY <1>1, <1>4 DEF InList, Malformed
  <2>2. tag.type # "end"
    BY <1>1 DEF IsEnd
  <2>3. ~(tag.type = "module" /\ tag.named /\ tag.size = 16 + NameSize /\ tag.start < tag.end)
    <3>1. tag.start \in Int /\ tag.end \in Int
      BY <1>1, CursorFacts DEF TagLike
    <3>2. 16 + NameSize >= 16
      BY BootAssumption
    <3> QED
      BY <1>1, <3>1, <3>2 DEF IsModule, ParsesAsRootfs
  <2> QED
    BY <2>1, <2>2, <2>3 DEF Decides, tag
<1>8. TotalOk /\ At(k) >= 8 * k /\ \A i \in 1 .. k - 1 : ~Decides(i)
  BY <1>1 DEF WalkInv, FindBefore
<1>9. FindBefore'
  <2>1. \A i : At(i)' = At(i) /\ (Decides(i)' <=> Decides(i)) /\ (TotalOk' <=> TotalOk)
    BY <1>1, SameInfo
  <2>2. At(Following) >= 8 * Following /\ \A i \in 1 .. Following - 1 : ~Decides(i)
    <3>1. CASE Following = k
      BY <1>8, <3>1
    <3>2. CASE Following = k + 1 /\ At(k + 1) >= At(k) + 8
      <4>1. At(k + 1) >= 8 * (k + 1)
        <5>1. At(k + 1) \in Nat
          BY <1>4
        <5> QED
          BY <1>4, <1>8, <3>2, <5>1
      <4>2. \A i \in 1 .. k : ~Decides(i)
        BY <1>4, <1>7, <1>8
      <4>3. (k + 1) - 1 = k
        BY <1>4
      <4> QED
        BY <3>2, <4>1, <4>2, <4>3
    <3> QED
      BY <1>5, <3>1, <3>2
  <2>3. At(k)' = At(Following)
    BY <1>1 DEF At
  <2> QED
    BY <1>1, <1>8, <2>1, <2>2, <2>3 DEF FindBefore
<1>10. FindInside'
  BY <1>3 DEF FindInside
<1> QED
  BY <1>1, <1>6, <1>9, <1>10 DEF WalkInv, FbBefore, FramebufferInside, Found, NoMappingError

LEMMA FindModuleKeeps == WalkInv /\ FindModule => WalkInv'
<1> SUFFICES ASSUME WalkInv, FindModule PROVE WalkInv'
  OBVIOUS
<1>1. /\ WalkTypes /\ stage = "find" /\ InList /\ ~Malformed /\ info' = info /\ k' = k
      /\ stage' = "mount" /\ IsModule /\ ParsesAsRootfs(tag) /\ ReadTo(tag.size)
      /\ image' = [start |-> tag.start, size |-> (tag.end - tag.start) % Word]
  BY DEF WalkInv, FindModule
<1>2. "MAPPING_ERROR" \notin said'
  BY DEF FindModule, Say, WalkInv, NoMappingError
<1>3. /\ readEnd' \in Nat /\ readEnd' <= Max({8, info'.total}) /\ k < MaxTags /\ At(k) + tag.size <= info.total
  BY <1>1, FindTurn
<1>4. WalkTypes'
  BY <1>1, <1>3 DEF WalkTypes, Stages, ListLike
<1>5. \A i : At(i)' = At(i) /\ TagNo(i)' = TagNo(i) /\ (Decides(i)' <=> Decides(i)) /\ (TotalOk' <=> TotalOk)
  BY <1>1, SameInfo
<1>6. At(k)' = At(k) /\ tag' = tag /\ (Decides(k)' <=> Decides(k))
  <2>1. At(k)' = At(k) /\ tag' = tag
    BY <1>1 DEF At, tag, TagNo
  <2>2. TagNo(k)' = TagNo(k)
    BY <1>1 DEF TagNo
  <2> QED
    BY <1>1, <2>1, <2>2 DEF Decides
<1>7. FindBefore'
  BY <1>1, <1>5, <1>6 DEF WalkInv, FindBefore
<1>8. FindInside'
  BY <1>3 DEF FindInside
<1>9. Found'
  <2>1. tag.type = "module" /\ tag.named /\ tag.size = 16 + NameSize /\ tag.start < tag.end
    <3>1. tag.start \in Int /\ tag.end \in Int
      BY <1>1, CursorFacts DEF TagLike
    <3> QED
      BY <1>1, <3>1 DEF IsModule, ParsesAsRootfs
  <2>2. Decides(k)
    BY <2>1 DEF Decides, tag
  <2>3. image'.start = tag.start /\ image'.size = tag.end - tag.start
    <3>1. tag.start \in 0 .. Word - 1 /\ tag.end \in 0 .. Word - 1
      BY <1>1, CursorFacts DEF TagLike
    <3>2. tag.end - tag.start \in Nat /\ tag.end - tag.start < Word /\ Word \in Nat
      BY <2>1, <3>1, BootAssumption
    <3>3. (tag.end - tag.start) % Word = tag.end - tag.start
      BY <3>2, ModSmall
    <3> QED
      BY <1>1, <3>3
  <2>4. k' <= MaxTags
    BY <1>1, <1>3, BootAssumption DEF WalkTypes
  <2> QED
    BY <1>1, <1>3, <1>6, <2>1, <2>2, <2>3, <2>4 DEF Found
<1> QED
  BY <1>1, <1>2, <1>4, <1>7, <1>8, <1>9 DEF WalkInv, FbBefore, FramebufferInside, NoMappingError

LEMMA MountKeeps == WalkInv /\ Mount => WalkInv'
<1> SUFFICES ASSUME WalkInv, Mount PROVE WalkInv'
  OBVIOUS
<1>1. /\ WalkTypes /\ stage = "mount" /\ info' = info /\ k' = k /\ readEnd' = readEnd /\ image' = image
      /\ stage' \in {"halted", "mounted"}
  BY DEF WalkInv, Mount, Stop
<1>2. ~MappingBad
  <2>1. /\ tag.start < tag.end /\ image.start = tag.start /\ image.size = tag.end - tag.start
    BY <1>1 DEF WalkInv, Found
  <2>2. tag.start \in 0 .. Word - 1 /\ tag.end \in 0 .. Word - 1
    BY <1>1, CursorFacts DEF TagLike
  <2> QED
    BY <2>1, <2>2, BootAssumption DEF MappingBad
<1>3. "MAPPING_ERROR" \notin said'
  BY <1>2 DEF Mount, Stop, Say, WalkInv, NoMappingError
<1>4. WalkTypes'
  BY <1>1 DEF WalkTypes, Stages, ListLike
<1>5. \A i : At(i)' = At(i) /\ (Decides(i)' <=> Decides(i)) /\ (TotalOk' <=> TotalOk)
  BY <1>1, SameInfo
<1>6. At(k)' = At(k) /\ tag' = tag /\ (Decides(k)' <=> Decides(k))
  <2>1. At(k)' = At(k) /\ tag' = tag
    BY <1>1 DEF At, tag, TagNo
  <2>2. TagNo(k)' = TagNo(k)
    BY <1>1 DEF TagNo
  <2> QED
    BY <1>1, <2>1, <2>2 DEF Decides
<1>7. FindBefore' /\ FindInside' /\ Found'
  BY <1>1, <1>5, <1>6 DEF WalkInv, FindBefore, FindInside, Found
<1> QED
  BY <1>1, <1>3, <1>4, <1>7 DEF WalkInv, FbBefore, FramebufferInside, NoMappingError

LEMMA KernelKeeps == WalkInv /\ Next => WalkInv'
  BY StartKeeps, FbKeeps, FindHeaderKeeps, FindStops, FindModuleKeeps, FindSkipKeeps, MountKeeps DEF Next

(* What the invariant says of the module mounted. *)
LEMMA FoundFirst == WalkInv => MountsFirstRootfs
<1> SUFFICES ASSUME WalkInv PROVE MountsFirstRootfs
  OBVIOUS
<1>1. ASSUME stage \in {"mount", "mounted"}
      PROVE  /\ Deciding = k /\ tag.type = "module" /\ tag.named /\ At(k) + tag.size <= info.total
             /\ image.start = tag.start /\ image.start + image.size = tag.end /\ image.size > 0
  <2>1. /\ k \in Nat \ {0} /\ k <= MaxTags /\ Decides(k) /\ \A i \in 1 .. k - 1 : ~Decides(i)
    BY <1>1 DEF WalkInv, WalkTypes, Found, FindBefore
  <2> DEFINE S == {i \in 1 .. MaxTags : Decides(i)}
  <2>2. k \in S
    BY <2>1, BootAssumption
  <2>3. \A j \in S : k <= j
    BY <2>1, BootAssumption
  <2>4. S \in SUBSET Nat
    BY BootAssumption
  <2> HIDE DEF S
  <2>5. Min(S) = k
    BY <2>2, <2>3, <2>4, MinOf
  <2>6. Deciding = k
    BY <2>5 DEF Deciding, S
  <2>7. tag.start \in Int /\ tag.end \in Int
    BY CursorFacts DEF WalkInv, TagLike
  <2> QED
    BY <1>1, <2>6, <2>7 DEF WalkInv, Found
<1> QED
  BY <1>1 DEF WalkInv, NoMappingError, MountsFirstRootfs, tag

-----------------------------------------------------------------------------
(* The loader.                                                               *)

(* A segment in memory: checked, page aligned, with the free pages it asked   *)
(* for and at least one of them.                                              *)
LoadOk(l) ==
    /\ l.s \in Segment /\ SegmentOk(l.s) /\ l.pages = PagesAt(l.s)
    /\ l.s.paddr % Page = 0 /\ Pages(l.s) > 0 /\ PagesAt(l.s) \subseteq FreePages
LoadsOk ==
    /\ \A l \in loads : LoadOk(l)
    /\ \A l \in loads, o \in loads : o # l => o.pages \cap l.pages = {}

(* The kernel does not run before the loader jumps to it. *)
LoaderFirst == epc \notin {"none", "started"} => stage = "efi"

(* The program headers looked at are of a table that was checked. *)
TableRead == seg > 1 => HeaderOk /\ seg - 1 <= Len(efi.segs)

EfiInv == WalkInv /\ efi \in Cases /\ seg \in Nat \ {0} /\ TableRead /\ LoaderFirst /\ LoadsOk

(* The tags of no information, and those build_info writes, are such as the   *)
(* walks are proved for.                                                      *)
LEMMA NoInfoListLike == ListLike(NoInfo)
  BY BootAssumption DEF ListLike, NoInfo, TagLike

LEMMA BuiltListLike ==
    ASSUME efi \in Cases, NEW found
    PROVE  ListLike([NoInfo EXCEPT !.total = BuiltTotal, !.tags = BuiltTags, !.mountable = found])
<1>0. 0 \in 0 .. Word - 1 /\ Word \in Nat \ {0} /\ NameSize \in Nat /\ FbSize \in Nat
  BY BootAssumption
<1>1. efi.rootfs.at \in Nat /\ efi.rootfs.size \in Nat
  BY EfiAssumption DEF Case
<1>2. efi.rootfs.at % Word \in 0 .. Word - 1 /\ (efi.rootfs.at + efi.rootfs.size) % Word \in 0 .. Word - 1
  <2>1. efi.rootfs.at + efi.rootfs.size \in Nat
    BY <1>1
  <2> QED
    BY <1>0, <1>1, <2>1, ModIn
<1>3. Blank \in TagLike
  BY <1>0 DEF Blank, NoInfo, TagLike
<1>4. ModuleTag \in TagLike
  <2> DEFINE b1 == [Blank EXCEPT !.type = "module"]
             b2 == [b1 EXCEPT !.size = 16 + NameSize]
             b3 == [b2 EXCEPT !.named = TRUE]
             b4 == [b3 EXCEPT !.start = efi.rootfs.at % Word]
             b5 == [b4 EXCEPT !.end = (efi.rootfs.at + efi.rootfs.size) % Word]
  <2>0. ModuleTag = b5
    BY DEF ModuleTag
  <2>1. b1 \in TagLike
    BY <1>3 DEF TagLike
  <2> HIDE DEF b1
  <2>2. b2 \in TagLike
    BY <1>0, <2>1 DEF TagLike
  <2> HIDE DEF b2
  <2>3. b3 \in TagLike
    BY <2>2 DEF TagLike
  <2> HIDE DEF b3
  <2>4. b4 \in TagLike
    BY <1>2, <2>3 DEF TagLike
  <2> HIDE DEF b4
  <2>5. b5 \in TagLike
    BY <1>2, <2>4 DEF TagLike
  <2> QED
    BY <2>0, <2>5
<1>5. FramebufferTag \in TagLike /\ EndTag \in TagLike
  BY <1>0, <1>3 DEF FramebufferTag, EndTag, TagLike
<1>6. BuiltTags \in Seq(TagLike)
  <2>1. <<ModuleTag>> \in Seq(TagLike) /\ <<FramebufferTag>> \in Seq(TagLike) /\ <<EndTag>> \in Seq(TagLike)
    BY <1>4, <1>5
  <2>2. <<>> \in Seq(TagLike)
    OBVIOUS
  <2> DEFINE mid == IF efi.gop THEN <<FramebufferTag>> ELSE <<>>
  <2>3. mid \in Seq(TagLike)
    BY <2>1, <2>2
  <2> HIDE DEF mid
  <2>4. <<ModuleTag>> \o mid \in Seq(TagLike)
    BY <2>1, <2>3
  <2>5. (<<ModuleTag>> \o mid) \o <<EndTag>> \in Seq(TagLike)
    BY <2>1, <2>4
  <2> QED
    BY <2>5 DEF BuiltTags, mid
<1>7. BuiltTotal \in Nat
  <2>1. 16 + NameSize \in Nat
    BY <1>0
  <2>2. Round8(16 + NameSize) \in Nat /\ Round8(FbSize) \in Nat
    BY <1>0, <2>1, Round8Facts
  <2> QED
    BY <2>2 DEF BuiltTotal
<1> QED
  BY <1>3, <1>6, <1>7 DEF ListLike, NoInfo, Blank

(* Before the kernel runs its invariant asks for nothing but a list. *)
LEMMA WalkAtRest ==
    ASSUME ListLike(info), stage \in {"efi", "start"}, k = 1, readEnd = 0, NoMappingError
    PROVE  WalkInv
<1>1. WalkTypes
  BY DEF WalkTypes, Stages
<1> QED
  BY <1>1 DEF WalkInv, FbBefore, FramebufferInside, FindBefore, FindInside, Found, NoMappingError

LEMMA EfiInitInv == EfiInit => EfiInv
<1> SUFFICES ASSUME EfiInit PROVE EfiInv
  OBVIOUS
<1>1. LoadsOk
  BY DEF EfiInit, LoadsOk
<1>2. efi \in Cases
  BY EfiAssumption, Zenon DEF EfiInit, NoCase
<1>3. LoaderFirst /\ seg \in Nat \ {0} /\ TableRead
  BY DEF EfiInit, LoaderFirst, TableRead
<1>4. ASSUME NEW i \in Infos PROVE ListLike(i)
  <2>1. i \in Info
    BY BootAssumption
  <2>2. \A t \in Tag : t \in TagLike
    BY BootAssumption DEF Tag, TagLike
  <2>3. i.tags \in Seq(Tag) /\ i.rest \in Tag /\ i.total \in 0 .. Word - 1
    BY <2>1 DEF Info
  <2>4. i.tags \in Seq(TagLike)
    BY <2>2, <2>3
  <2>5. i.rest \in TagLike /\ i.total \in Nat
    BY <2>2, <2>3, BootAssumption
  <2> QED
    BY <2>4, <2>5 DEF ListLike
<1>5. ListLike(info) /\ stage \in {"efi", "start"} /\ k = 1 /\ readEnd = 0 /\ NoMappingError
  BY <1>4, NoInfoListLike DEF EfiInit, Init, NoMappingError
<1>6. WalkInv
  BY <1>5, WalkAtRest
<1> QED
  BY <1>1, <1>2, <1>3, <1>6 DEF EfiInv

(* Every step of the loader keeps the invariant. *)
LEMMA EfiStepKeeps == EfiInv /\ EfiStep => EfiInv'
<1> SUFFICES ASSUME EfiInv, EfiStep PROVE EfiInv'
  OBVIOUS
<1>0. epc \notin {"none", "started"} /\ stage = "efi"
  BY DEF EfiInv, LoaderFirst, EfiStep, ReadKernel, ReadRootfs, LoadSegment, BuildInfo, MapBuffer,
         GetMap, ExitBootServices, StartKernel
<1>1. efi' = efi /\ efi \in Cases
  BY DEF EfiInv, EfiStep, ReadKernel, ReadRootfs, LoadSegment, BuildInfo, MapBuffer, GetMap,
         ExitBootServices, StartKernel, Quiet
<1>2. k' = k /\ readEnd' = readEnd /\ said' = said
  BY DEF EfiStep, ReadKernel, ReadRootfs, LoadSegment, BuildInfo, MapBuffer, GetMap,
         ExitBootServices, StartKernel, Quiet, vars
<1>3. stage' = "efi" \/ (epc' = "started" /\ stage' = "start")
  BY <1>0 DEF EfiStep, ReadKernel, ReadRootfs, LoadSegment, BuildInfo, MapBuffer, GetMap,
         ExitBootServices, StartKernel, Quiet, vars, Goto
<1>4. LoaderFirst'
  BY <1>3 DEF LoaderFirst
<1>5. info' = info \/ \E found : info' = [NoInfo EXCEPT !.total = BuiltTotal, !.tags = BuiltTags, !.mountable = found]
  BY DEF EfiStep, ReadKernel, ReadRootfs, LoadSegment, BuildInfo, MapBuffer, GetMap,
         ExitBootServices, StartKernel, Quiet, vars
<1>6. ListLike(info')
  BY <1>1, <1>5, BuiltListLike DEF EfiInv, WalkInv, WalkTypes
<1>7. WalkInv'
  <2>1. k = 1 /\ readEnd = 0 /\ "MAPPING_ERROR" \notin said
    BY <1>0 DEF EfiInv, WalkInv, WalkTypes, NoMappingError
  <2>2. /\ stage' \in {"efi", "start"} /\ k' = 1 /\ readEnd' = 0 /\ "MAPPING_ERROR" \notin said'
    BY <1>2, <1>3, <2>1
  <2>3. WalkTypes'
    BY <1>6, <2>2 DEF WalkTypes, Stages, ListLike
  <2> QED
    BY <2>2, <2>3 DEF WalkInv, FbBefore, FramebufferInside, FindBefore, FindInside, Found, NoMappingError
<1>8. seg' \in Nat \ {0}
  <2>1. seg' = seg \/ seg' = seg + 1
    <3>1. CASE LoadSegment
      BY <3>1 DEF LoadSegment, LoadError
    <3>2. CASE ~LoadSegment
      BY <3>2 DEF EfiStep, ReadKernel, ReadRootfs, BuildInfo, MapBuffer, GetMap, ExitBootServices, StartKernel, Fails
    <3> QED
      BY <3>1, <3>2
  <2> QED
    BY <2>1 DEF EfiInv
<1>10. TableRead'
  <2>1. HeaderOk' <=> HeaderOk
    BY <1>1 DEF HeaderOk
  <2>2. \/ seg' = seg
        \/ HeaderOk /\ seg <= Len(efi.segs) /\ seg' = seg + 1
    BY DEF EfiStep, ReadKernel, ReadRootfs, LoadSegment, LoadError, BuildInfo, MapBuffer, GetMap,
           ExitBootServices, StartKernel, Fails
  <2>3. seg \in Nat \ {0}
    BY DEF EfiInv
  <2> QED
    BY <1>1, <2>1, <2>2, <2>3 DEF EfiInv, TableRead
<1>9. LoadsOk'
  <2>1. \A s : (SegmentOk(s))' <=> SegmentOk(s)
    BY <1>1 DEF SegmentOk
  <2>2. \/ loads' = loads
        \/ \E s : /\ epc = "load" /\ s = efi.segs[seg] /\ HeaderOk /\ seg <= Len(efi.segs) /\ SegmentOk(s) /\ Given(s)
                  /\ loads' = loads \cup {[s |-> s, pages |-> PagesAt(s)]}
    BY DEF EfiStep, ReadKernel, ReadRootfs, LoadSegment, BuildInfo, MapBuffer, GetMap,
         ExitBootServices, StartKernel, Fails, LoadError
  <2>3. \A l : LoadOk(l)' <=> LoadOk(l)
    BY <2>1 DEF LoadOk, PagesAt, Pages
  <2>4. CASE loads' = loads
    BY <2>3, <2>4 DEF LoadsOk, EfiInv
  <2>5. CASE loads' # loads
    <3>1. PICK s : /\ s = efi.segs[seg] /\ HeaderOk /\ seg <= Len(efi.segs) /\ SegmentOk(s) /\ Given(s)
                   /\ loads' = loads \cup {[s |-> s, pages |-> PagesAt(s)]}
      BY <2>2, <2>5
    <3> DEFINE n == [s |-> s, pages |-> PagesAt(s)]
    <3>2. s \in Segment
      <4>1. efi.segs \in Seq(Segment) /\ seg \in Nat \ {0}
        BY <1>1, EfiAssumption DEF Case, EfiInv
      <4> QED
        BY <3>1, <4>1
    <3>3. n.s = s /\ n.pages = PagesAt(s)
      OBVIOUS
    <3> HIDE DEF n
    <3>4. LoadOk(n) /\ \A l \in loads : PagesAt(s) \cap l.pages = {}
      BY <3>1, <3>2, <3>3 DEF LoadOk, Given
    <3>5. loads' = loads \cup {n}
      BY <3>1 DEF n
    <3>6. \A l \in loads' : LoadOk(l)
      BY <3>4, <3>5 DEF EfiInv, LoadsOk
    <3>7. \A l \in loads', o \in loads' : o # l => o.pages \cap l.pages = {}
      BY <3>3, <3>4, <3>5 DEF EfiInv, LoadsOk
    <3> QED
      BY <2>3, <3>6, <3>7 DEF LoadsOk
  <2> QED
    BY <2>4, <2>5
<1> QED
  BY <1>1, <1>4, <1>7, <1>8, <1>9, <1>10 DEF EfiInv

(* What load_kernel copies of a segment it accepted. *)
LEMMA LoadCopies ==
    ASSUME efi \in Cases, NEW l, LoadOk(l)
    PROVE  /\ l.s.offset + l.s.filesz <= efi.fileSize
           /\ l.s.filesz > 0 => /\ (l.s.paddr \div Page) \in l.pages
                                /\ ((l.s.paddr + l.s.filesz - 1) \div Page) \in l.pages
           /\ l.s.memsz <= Page * Cardinality(l.pages)
<1> DEFINE memsz == l.s.memsz
           filesz == l.s.filesz
           offset == l.s.offset
           paddr == l.s.paddr
           q == paddr \div Page
           n == Pages(l.s)
           x == memsz + Page - 1
<1>0. Page \in Nat \ {0} /\ Wide \in Nat \ {0} /\ Page <= Wide
  BY EfiAssumption
<1>1. /\ memsz \in 0 .. Wide - 1 /\ filesz \in 0 .. Wide - 1 /\ offset \in 0 .. Wide - 1
      /\ paddr \in 0 .. Wide - 1 /\ efi.fileSize \in 0 .. Wide - 1
  BY EfiAssumption DEF LoadOk, Segment, Case
<1>2. /\ filesz <= memsz /\ offset <= efi.fileSize /\ (offset + filesz) % Wide <= efi.fileSize
      /\ paddr % Page = 0 /\ n > 0 /\ l.pages = PagesAt(l.s) /\ PagesAt(l.s) \subseteq FreePages
  BY DEF LoadOk, SegmentOk
<1>3. n = (x % Wide) \div Page /\ PagesAt(l.s) = {q + i : i \in 0 .. n - 1}
  BY DEF Pages, PagesAt
<1>4. x \in Nat /\ x < 2 * Wide
  BY <1>0, <1>1
<1> HIDE DEF memsz, filesz, offset, paddr, n
<1>5. x < Wide
  <2> SUFFICES ASSUME Wide <= x PROVE FALSE
    BY <1>0, <1>4
  <2>1. x % Wide = x - Wide
    BY <1>0, <1>4, ModOnce
  <2>2. x - Wide \in Nat /\ x - Wide < Page
    BY <1>0, <1>1
  <2>3. (x - Wide) \div Page = 0
    BY <1>0, <2>2, DivSmall
  <2> QED
    BY <1>2, <1>3, <2>1, <2>3
<1>6. n = x \div Page /\ n \in Nat \ {0}
  <2>1. x % Wide = x
    BY <1>0, <1>4, <1>5, ModSmall
  <2>2. x \div Page \in Nat
    BY <1>0, <1>4, DivFacts
  <2> QED
    BY <1>2, <1>3, <2>1, <2>2
<1>7. memsz <= n * Page
  <2>1. memsz \in Nat
    BY <1>0, <1>1
  <2> QED
    BY <1>0, <1>6, <2>1, RoundUp
<1>8. q \in Nat /\ paddr = q * Page
  <2>1. paddr \in Nat
    BY <1>0, <1>1
  <2> QED
    BY <1>0, <1>2, <2>1, DivExact, DivFacts
<1> HIDE DEF q, x
<1>9. l.pages = q .. (q + n - 1)
  <2>1. ASSUME NEW p \in q .. (q + n - 1) PROVE \E i \in 0 .. n - 1 : p = q + i
    <3>1. p - q \in 0 .. n - 1 /\ p = q + (p - q)
      BY <1>6, <1>8
    <3> QED
      BY <3>1
  <2>2. ASSUME NEW i \in 0 .. n - 1 PROVE q + i \in q .. (q + n - 1)
    BY <1>6, <1>8
  <2> QED
    BY <1>2, <1>3, <2>1, <2>2
<1>10. Cardinality(l.pages) = n
  <2>1. q \in Int /\ q + n - 1 \in Int
    BY <1>6, <1>8
  <2>2. Cardinality(q .. (q + n - 1)) = IF q > q + n - 1 THEN 0 ELSE (q + n - 1) - q + 1
    BY <2>1, FS_Interval
  <2> QED
    BY <1>6, <1>8, <1>9, <2>2
<1>11. offset + filesz <= efi.fileSize
  <2>1. q + n - 1 \in FreePages
    BY <1>2, <1>6, <1>8, <1>9
  <2>2. (q + n - 1 + 1) * Page + efi.fileSize < Wide
    BY <2>1, EfiAssumption
  <2>3. q + n - 1 + 1 = q + n /\ q + n \in Nat
    BY <1>6, <1>8
  <2>4. n * Page <= (q + n) * Page
    BY <1>0, <1>6, <1>8, <2>3, TimesMono
  <2>5. n * Page \in Nat /\ (q + n) * Page \in Nat
    BY <1>0, <1>6, <2>3
  <2>6. offset + filesz \in Nat /\ offset + filesz < Wide
    BY <1>0, <1>1, <1>2, <1>7, <2>2, <2>3, <2>4, <2>5
  <2>7. (offset + filesz) % Wide = offset + filesz
    BY <1>0, <2>6, ModSmall
  <2> QED
    BY <1>2, <2>7
<1>12. ASSUME filesz > 0 PROVE q \in l.pages /\ (paddr + filesz - 1) \div Page \in l.pages
  <2>1. q \in l.pages
    BY <1>6, <1>8, <1>9
  <2>2. n * Page \in Nat
    BY <1>0, <1>6
  <2>3. filesz - 1 \in Nat /\ filesz - 1 < n * Page
    BY <1>0, <1>1, <1>2, <1>7, <1>12, <2>2
  <2>4. (q * Page + (filesz - 1)) \div Page \in q .. (q + n - 1)
    BY <1>0, <1>6, <1>8, <2>3, DivRange
  <2>5. q * Page + (filesz - 1) = paddr + filesz - 1
    BY <1>0, <1>1, <1>8
  <2> QED
    BY <1>9, <2>1, <2>4, <2>5
<1>13. memsz <= Page * Cardinality(l.pages)
  BY <1>0, <1>6, <1>7, <1>10
<1> QED
  BY <1>11, <1>12, <1>13 DEF memsz, filesz, offset, paddr, q

LEMMA LoadsCopy == EfiInv => EfiCopiesInside
<1> SUFFICES ASSUME EfiInv PROVE EfiCopiesInside
  OBVIOUS
<1>1. efi \in Cases /\ \A l \in loads : LoadOk(l)
  BY DEF EfiInv, LoadsOk
<1>2. \A l \in loads, o \in loads : o # l => o.pages \cap l.pages = {}
  BY DEF EfiInv, LoadsOk
<1>0. seg > 1 => efi.phoff + (seg - 1) * PhSize <= efi.fileSize
  <2> SUFFICES ASSUME seg > 1 PROVE efi.phoff + (seg - 1) * PhSize <= efi.fileSize
    OBVIOUS
  <2> DEFINE n == Len(efi.segs)
  <2>1. HeaderOk /\ seg - 1 <= n /\ seg \in Nat
    BY DEF EfiInv, TableRead
  <2>2. /\ Wide \in Nat /\ PhSize \in Nat /\ MaxSegs \in Nat /\ n \in Nat
        /\ efi.phoff \in Nat /\ efi.fileSize \in Nat /\ efi.fileSize + MaxSegs * PhSize < Wide
    BY <1>1, EfiAssumption DEF Case
  <2>3. efi.phoff <= efi.fileSize /\ n <= MaxSegs /\ (efi.phoff + n * PhSize) % Wide <= efi.fileSize
    BY <2>1 DEF HeaderOk
  <2> HIDE DEF n
  <2>4. n * PhSize \in Nat /\ n * PhSize <= MaxSegs * PhSize /\ MaxSegs * PhSize \in Nat
    BY <2>2, <2>3
  <2>5. (efi.phoff + n * PhSize) % Wide = efi.phoff + n * PhSize
    <3> DEFINE x == efi.phoff + n * PhSize
    <3>1. x \in 0 .. Wide - 1
      BY <2>2, <2>3, <2>4
    <3> HIDE DEF x
    <3>2. x % Wide = x
      BY <2>2, <3>1
    <3> QED
      BY <3>2 DEF x
  <2>6. (seg - 1) * PhSize <= n * PhSize /\ (seg - 1) * PhSize \in Nat
    BY <2>1, <2>2
  <2> QED
    BY <2>2, <2>3, <2>4, <2>5, <2>6
<1> SUFFICES ASSUME NEW l \in loads
             PROVE  /\ l.s.offset + l.s.filesz <= efi.fileSize
                    /\ \A b \in {l.s.paddr, l.s.paddr + l.s.filesz - 1} : l.s.filesz > 0 => (b \div Page) \in l.pages
                    /\ l.s.memsz <= Page * Cardinality(l.pages)
                    /\ \A o \in loads : o # l => o.pages \cap l.pages = {}
  BY <1>0 DEF EfiCopiesInside
<1>3. /\ l.s.offset + l.s.filesz <= efi.fileSize
      /\ l.s.filesz > 0 => /\ (l.s.paddr \div Page) \in l.pages
                           /\ ((l.s.paddr + l.s.filesz - 1) \div Page) \in l.pages
      /\ l.s.memsz <= Page * Cardinality(l.pages)
  BY <1>1, LoadCopies
<1>4. \A b \in {l.s.paddr, l.s.paddr + l.s.filesz - 1} : l.s.filesz > 0 => (b \div Page) \in l.pages
  BY <1>3, Zenon
<1> QED
  BY <1>2, <1>3, <1>4

(* A step of the kernel behind the loader keeps the invariant. *)
LEMMA KernelStepKeeps == EfiInv /\ KernelStep => EfiInv'
<1> SUFFICES ASSUME EfiInv, KernelStep PROVE EfiInv'
  OBVIOUS
<1>1. /\ efi' = efi /\ epc' = epc /\ seg' = seg /\ loads' = loads /\ WalkInv /\ Next
  BY DEF KernelStep, evars, EfiInv
<1>2. WalkInv'
  BY <1>1, KernelKeeps
<1>3. stage # "efi"
  BY <1>1 DEF Next, Start, FbEnd, FbFound, FbSkip, Framebuffer, FindHeader, FindNothing,
              FindMalformed, FindModule, FindSkip, Mount
<1>4. LoaderFirst'
  BY <1>1, <1>3 DEF EfiInv, LoaderFirst
<1>5. LoadsOk'
  BY <1>1 DEF EfiInv, LoadsOk, LoadOk, SegmentOk
<1>6. TableRead'
  BY <1>1 DEF EfiInv, TableRead, HeaderOk
<1> QED
  BY <1>1, <1>2, <1>4, <1>5, <1>6 DEF EfiInv

LEMMA EfiStays == EfiInv /\ UNCHANGED allvars => EfiInv'
<1> SUFFICES ASSUME EfiInv, UNCHANGED allvars PROVE EfiInv'
  OBVIOUS
<1>1. /\ info' = info /\ stage' = stage /\ k' = k /\ readEnd' = readEnd /\ image' = image /\ said' = said
      /\ efi' = efi /\ epc' = epc /\ seg' = seg /\ loads' = loads
  BY DEF allvars, vars, evars
<1>2. /\ \A i : At(i)' = At(i) /\ (Decides(i)' <=> Decides(i))
      /\ (WellFormed' <=> WellFormed) /\ (TotalOk' <=> TotalOk)
  BY <1>1, SameInfo
<1>3. At(k)' = At(k) /\ tag' = tag
  BY <1>1 DEF At, tag, TagNo
<1>4. Decides(k)' <=> Decides(k)
  <2>1. TagNo(k)' = TagNo(k)
    BY <1>1 DEF TagNo
  <2> QED
    BY <1>1, <1>3, <2>1 DEF Decides
<1>5. WalkInv'
  BY <1>1, <1>2, <1>3, <1>4 DEF EfiInv, WalkInv, WalkTypes, ListLike, FbBefore, FramebufferInside,
        FindBefore, FindInside, Found, NoMappingError
<1>6. LoadsOk'
  BY <1>1 DEF EfiInv, LoadsOk, LoadOk, SegmentOk
<1> QED
  BY <1>1, <1>5, <1>6 DEF EfiInv, LoaderFirst, TableRead, HeaderOk

(* The invariant of the boot. *)
THEOREM BootInvariant == EfiSpec => []EfiInv
<1>1. EfiInit => EfiInv
  BY EfiInitInv
<1>2. EfiInv /\ [EfiNext]_allvars => EfiInv'
  BY EfiStepKeeps, KernelStepKeeps, EfiStays DEF EfiNext
<1> QED
  BY <1>1, <1>2, PTL DEF EfiSpec
-----------------------------------------------------------------------------
(* mantle_framebuffer_init has no bound of its own, yet over every well       *)
(* formed list, of any length, it reads nothing behind total_size.            *)
THEOREM FramebufferInsideAlways == EfiSpec => []FramebufferInside
<1>1. EfiInv => FramebufferInside
  BY DEF EfiInv, WalkInv
<1> QED
  BY <1>1, BootInvariant, PTL

(* find_rootfs reads nothing behind total_size, whatever sizes and types the  *)
(* tags have.                                                                 *)
THEOREM FindInsideAlways == EfiSpec => []FindInside
<1>1. EfiInv => FindInside
  BY DEF EfiInv, WalkInv
<1> QED
  BY <1>1, BootInvariant, PTL

(* What mantle_kernel_main mounts is the first acceptable module of the list, *)
(* and its check of the mapping never fires.                                  *)
THEOREM FirstRootfsMounted == EfiSpec => []MountsFirstRootfs
<1>1. EfiInv => MountsFirstRootfs
  BY FoundFirst DEF EfiInv
<1> QED
  BY <1>1, BootInvariant, PTL

(* Whatever the kernel file says, load_kernel looks at program headers inside *)
(* the file only, copies from inside the file to inside the pages it was      *)
(* given, and no two segments share a page.                                   *)
THEOREM EfiCopiesConfined == EfiSpec => []EfiCopiesInside
<1>1. EfiInv => EfiCopiesInside
  BY LoadsCopy
<1> QED
  BY <1>1, BootInvariant, PTL
=============================================================================
