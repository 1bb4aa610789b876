---------------------------- MODULE RootfsProofs ----------------------------
(* Machine-checked proofs about the root filesystem module: packing,          *)
(* mounting, opening and listing, for every module, every set of paths and    *)
(* every buffer size.                                                         *)
EXTENDS Rootfs, FiniteSetTheorems, WellFoundedInduction, TLAPS

-----------------------------------------------------------------------------
(* Induction over the natural numbers, for a set: the well-foundedness of <   *)
(* gives a least number outside it.                                          *)
LEMMA NatSetInduction ==
    ASSUME NEW S, 0 \in S, \A n \in Nat : n \in S => n + 1 \in S
    PROVE  Nat \subseteq S
<1> DEFINE R == OpToRel(<, Nat)
           T == Nat \ S
<1>1. IsWellFoundedOn(R, Nat)
  BY NatLessThanWellFounded
<1>2. \A x, y \in Nat : y < x => <<y, x>> \in R
  BY DEF OpToRel
<1> HIDE DEF R
<1>3. ASSUME T # {} PROVE FALSE
  <2>1. T \subseteq Nat
    OBVIOUS
  <2> HIDE DEF T
  <2>2. \E x \in T : \A y \in T : ~(<<y, x>> \in R)
    BY <1>1, <1>3, <2>1, WFMin
  <2>3. PICK x \in T : \A y \in T : ~(<<y, x>> \in R)
    BY <2>2
  <2> USE DEF T
  <2>4. x # 0 /\ x - 1 \in Nat /\ x - 1 < x /\ x = (x - 1) + 1
    BY <2>3
  <2>5. x - 1 \in S
    BY <1>2, <2>3, <2>4
  <2> QED
    BY <2>4, <2>5
<1> QED
  BY <1>3

(* A set of numbers below a bound has a largest one. *)
LEMMA MaxOfBounded ==
    ASSUME NEW S \in SUBSET Nat, NEW b \in Nat, S # {}, \A x \in S : x <= b
    PROVE  Max(S) \in S /\ \A x \in S : x <= Max(S)
<1> DEFINE W == {n \in Nat : \A a \in S : a + n >= b => \E x \in S : \A y \in S : x >= y}
<1>1. 0 \in W
  <2> SUFFICES ASSUME NEW a \in S, a + 0 >= b PROVE \E x \in S : \A y \in S : x >= y
    OBVIOUS
  <2>1. \A y \in S : a >= y
    OBVIOUS
  <2> QED
    BY <2>1
<1>2. ASSUME NEW n \in Nat, n \in W PROVE n + 1 \in W
  <2> SUFFICES ASSUME NEW a \in S, a + (n + 1) >= b PROVE \E x \in S : \A y \in S : x >= y
    OBVIOUS
  <2>1. CASE \E c \in S : c > a
    <3>1. PICK c \in S : c > a
      BY <2>1
    <3>2. c + n >= b
      BY <3>1
    <3> QED
      BY <1>2, <3>2
  <2>2. CASE ~ \E c \in S : c > a
    <3>1. \A y \in S : a >= y
      BY <2>2
    <3> QED
      BY <3>1
  <2> QED
    BY <2>1, <2>2
<1>3. Nat \subseteq W
  <2> HIDE DEF W
  <2> QED
    BY <1>1, <1>2, NatSetInduction
<1>4. \E x \in S : \A y \in S : x >= y
  <2>1. PICK a \in S : TRUE
    OBVIOUS
  <2>2. a + b >= b /\ b \in W
    BY <1>3
  <2> QED
    BY <2>2
<1>5. Max(S) \in S /\ \A y \in S : Max(S) >= y
  BY <1>4, Zenon DEF Max
<1> QED
  BY <1>5
-----------------------------------------------------------------------------
(* Sums over finite sets: what SumFunctionOnSet computes.                     *)

(* A total over the subsets of S, as the fold builds it. *)
Chosen(s) == CHOOSE x \in s : TRUE
Totals(f, D, h) == h = [s \in D |-> IF s = {} THEN 0 ELSE f[Chosen(s)] + h[s \ {Chosen(s)}]]
Below(S, n) == {s \in SUBSET S : Cardinality(s) <= n}

(* Taking the chosen element away leaves a smaller finite set. *)
LEMMA Smaller ==
    ASSUME NEW s, IsFiniteSet(s), s # {}
    PROVE  /\ Chosen(s) \in s /\ IsFiniteSet(s \ {Chosen(s)})
           /\ Cardinality(s) \in Nat /\ Cardinality(s \ {Chosen(s)}) = Cardinality(s) - 1
<1>1. Chosen(s) \in s
  BY Zenon DEF Chosen
<1> QED
  BY <1>1, FS_RemoveElement, FS_CardinalityType

(* There is a total. *)
LEMMA TotalsExist ==
    ASSUME NEW S, IsFiniteSet(S), NEW f, \A x \in S : f[x] \in Nat
    PROVE  \E h \in [SUBSET S -> Nat] : Totals(f, SUBSET S, h)
<1> DEFINE W == {n \in Nat : \E h \in [Below(S, n) -> Nat] : Totals(f, Below(S, n), h)}
<1>0. \A s \in SUBSET S : IsFiniteSet(s) /\ Cardinality(s) \in Nat /\ (Cardinality(s) = 0 <=> s = {})
  BY FS_Subset, FS_CardinalityType, FS_EmptySet
<1>1. 0 \in W
  <2> DEFINE h == [s \in Below(S, 0) |-> 0]
  <2>1. \A s \in Below(S, 0) : s = {}
    BY <1>0 DEF Below
  <2>2. h \in [Below(S, 0) -> Nat]
    OBVIOUS
  <2>3. Totals(f, Below(S, 0), h)
    BY <2>1 DEF Totals
  <2> HIDE DEF h
  <2> QED
    BY <2>2, <2>3
<1>2. ASSUME NEW n \in Nat, n \in W PROVE n + 1 \in W
  <2>1. PICK h \in [Below(S, n) -> Nat] : Totals(f, Below(S, n), h)
    BY <1>2
  <2> DEFINE Rest(s) == s \ {Chosen(s)}
             e == [s \in Below(S, n + 1) |-> IF s = {} THEN 0 ELSE f[Chosen(s)] + h[Rest(s)]]
  <2>2. \A s \in Below(S, n + 1) : s # {} => Rest(s) \in Below(S, n) /\ f[Chosen(s)] \in Nat
    <3> SUFFICES ASSUME NEW s \in Below(S, n + 1), s # {} PROVE Rest(s) \in Below(S, n) /\ f[Chosen(s)] \in Nat
      OBVIOUS
    <3>1. s \in SUBSET S /\ Cardinality(s) <= n + 1
      BY DEF Below
    <3>2. Chosen(s) \in s /\ Cardinality(s) \in Nat /\ Cardinality(Rest(s)) = Cardinality(s) - 1
      BY <1>0, <3>1, Smaller
    <3> QED
      BY <3>1, <3>2 DEF Below
  <2>3. e \in [Below(S, n + 1) -> Nat]
    BY <2>2
  <2>4. \A s \in Below(S, n) : e[s] = h[s] /\ s \in Below(S, n + 1)
    <3> SUFFICES ASSUME NEW s \in Below(S, n) PROVE e[s] = h[s] /\ s \in Below(S, n + 1)
      OBVIOUS
    <3>1. s \in Below(S, n + 1)
      BY <1>0 DEF Below
    <3>2. h[s] = IF s = {} THEN 0 ELSE f[Chosen(s)] + h[Rest(s)]
      BY <2>1, Zenon DEF Totals
    <3> QED
      BY <3>1, <3>2
  <2>5. \A s \in Below(S, n + 1) : e[s] = IF s = {} THEN 0 ELSE f[Chosen(s)] + e[Rest(s)]
    BY <2>2, <2>4
  <2>6. e = [s \in Below(S, n + 1) |-> IF s = {} THEN 0 ELSE f[Chosen(s)] + e[Rest(s)]]
    <3> HIDE DEF Rest
    <3>1. e = [s \in Below(S, n + 1) |-> e[s]]
      OBVIOUS
    <3> HIDE DEF e
    <3> QED
      BY <2>5, <3>1
  <2> HIDE DEF e
  <2>7. Totals(f, Below(S, n + 1), e)
    BY <2>6, Zenon DEF Totals
  <2> QED
    BY <2>3, <2>7
<1>3. Nat \subseteq W
  <2> HIDE DEF W
  <2> QED
    BY <1>1, <1>2, NatSetInduction
<1>4. Below(S, Cardinality(S)) = SUBSET S /\ Cardinality(S) \in Nat
  <2>1. \A s \in SUBSET S : Cardinality(s) <= Cardinality(S)
    BY FS_Subset
  <2> QED
    BY <2>1, FS_CardinalityType DEF Below
<1>5. Cardinality(S) \in W
  BY <1>3, <1>4
<1> QED
  BY <1>4, <1>5

(* The fold is that total. *)
TotalOf(f, S) == CHOOSE h : Totals(f, SUBSET S, h)
LEMMA SumIsTotal ==
    ASSUME NEW f, NEW S
    PROVE  SumFunctionOnSet(f, S) = TotalOf(f, S)[S]
  BY Zenon DEF SumFunctionOnSet, FoldFunctionOnSet, MapThenFoldSet, TotalOf, Totals, Chosen

(* Totals over a set and over a part of it agree. *)
Agree(T, g, h) == \A s \in SUBSET T : g[s] = h[s]
LEMMA TotalsAgree ==
    ASSUME NEW S, IsFiniteSet(S), NEW T, T \subseteq S, NEW f, NEW g, NEW h,
           Totals(f, SUBSET T, g), Totals(f, SUBSET S, h)
    PROVE  Agree(T, g, h)
<1> DEFINE W == {n \in Nat : \A s \in SUBSET T : Cardinality(s) <= n => g[s] = h[s]}
           Rest(s) == s \ {Chosen(s)}
<1>0. \A s \in SUBSET T : IsFiniteSet(s) /\ Cardinality(s) \in Nat /\ (Cardinality(s) = 0 <=> s = {})
  BY FS_Subset, FS_CardinalityType, FS_EmptySet
<1>1. \A s \in SUBSET T : /\ g[s] = IF s = {} THEN 0 ELSE f[Chosen(s)] + g[Rest(s)]
                          /\ h[s] = IF s = {} THEN 0 ELSE f[Chosen(s)] + h[Rest(s)]
  <2> SUFFICES ASSUME NEW s \in SUBSET T
               PROVE  /\ g[s] = IF s = {} THEN 0 ELSE f[Chosen(s)] + g[Rest(s)]
                      /\ h[s] = IF s = {} THEN 0 ELSE f[Chosen(s)] + h[Rest(s)]
    OBVIOUS
  <2>1. s \in SUBSET S
    OBVIOUS
  <2>2. g[s] = IF s = {} THEN 0 ELSE f[Chosen(s)] + g[Rest(s)]
    BY Zenon DEF Totals
  <2>3. h[s] = IF s = {} THEN 0 ELSE f[Chosen(s)] + h[Rest(s)]
    BY <2>1, Zenon DEF Totals
  <2> QED
    BY <2>2, <2>3
<1>2. 0 \in W
  <2> SUFFICES ASSUME NEW s \in SUBSET T, Cardinality(s) <= 0 PROVE g[s] = h[s]
    OBVIOUS
  <2>1. s = {}
    BY <1>0
  <2> QED
    BY <1>1, <2>1
<1>3. ASSUME NEW n \in Nat, n \in W PROVE n + 1 \in W
  <2> SUFFICES ASSUME NEW s \in SUBSET T, Cardinality(s) <= n + 1 PROVE g[s] = h[s]
    OBVIOUS
  <2>1. CASE s = {}
    BY <1>1, <2>1
  <2>2. CASE s # {}
    <3>1. Chosen(s) \in s /\ Cardinality(s) \in Nat /\ Cardinality(Rest(s)) = Cardinality(s) - 1
      BY <1>0, <2>2, Smaller
    <3>2. Rest(s) \in SUBSET T /\ Cardinality(Rest(s)) <= n
      BY <3>1
    <3>3. g[Rest(s)] = h[Rest(s)]
      BY <1>3, <3>2
    <3> HIDE DEF Rest
    <3> QED
      BY <1>1, <2>2, <3>3
  <2> QED
    BY <2>1, <2>2
<1>4. Nat \subseteq W
  <2> HIDE DEF W
  <2> QED
    BY <1>2, <1>3, NatSetInduction
<1> QED
  BY <1>0, <1>4 DEF Agree

(* One unfolding of a sum of numbers. *)
LEMMA SumUnfold ==
    ASSUME NEW S, IsFiniteSet(S), NEW f, \A x \in S : f[x] \in Nat
    PROVE  /\ SumFunctionOnSet(f, S) \in Nat
           /\ S = {} => SumFunctionOnSet(f, S) = 0
           /\ S # {} => SumFunctionOnSet(f, S) = f[Chosen(S)] + SumFunctionOnSet(f, S \ {Chosen(S)})
<1>1. PICK h \in [SUBSET S -> Nat] : Totals(f, SUBSET S, h)
  BY TotalsExist
<1>2. ASSUME NEW T \in SUBSET S PROVE SumFunctionOnSet(f, T) = h[T]
  <2>1. IsFiniteSet(T) /\ \A x \in T : f[x] \in Nat
    BY FS_Subset
  <2>2. \E g : Totals(f, SUBSET T, g)
    <3>1. \E g \in [SUBSET T -> Nat] : Totals(f, SUBSET T, g)
      BY <2>1, TotalsExist
    <3> QED
      BY <3>1, Zenon
  <2>3. PICK g : g = TotalOf(f, T) /\ Totals(f, SUBSET T, g)
    BY <2>2, Zenon DEF TotalOf
  <2>4. SumFunctionOnSet(f, T) = g[T]
    BY <2>3, SumIsTotal
  <2>5. \A s \in SUBSET T : g[s] = h[s]
    <3>1. T \subseteq S /\ Totals(f, SUBSET T, g) /\ Totals(f, SUBSET S, h)
      BY <1>1, <2>3
    <3>2. Agree(T, g, h)
      BY <3>1, TotalsAgree
    <3> QED
      BY <3>2 DEF Agree
  <2>6. T \in SUBSET T
    OBVIOUS
  <2> QED
    BY <2>4, <2>5, <2>6
<1> DEFINE Rest == S \ {Chosen(S)}
<1>3. S \in SUBSET S /\ Rest \in SUBSET S
  OBVIOUS
<1>4. h[S] = IF S = {} THEN 0 ELSE f[Chosen(S)] + h[Rest]
  BY <1>1, <1>3, Zenon DEF Totals
<1>5. SumFunctionOnSet(f, S) = h[S] /\ SumFunctionOnSet(f, Rest) = h[Rest]
  BY <1>2, <1>3
<1>6. h[S] \in Nat
  BY <1>1, <1>3
<1> HIDE DEF Rest
<1>7. S # {} => SumFunctionOnSet(f, S) = f[Chosen(S)] + SumFunctionOnSet(f, Rest)
  BY <1>4, <1>5
<1>8. S = {} => SumFunctionOnSet(f, S) = 0
  BY <1>4, <1>5
<1> QED
  BY <1>5, <1>6, <1>7, <1>8 DEF Rest

(* A sum does not depend on the order: any element can be taken out first. *)
LEMMA SumRemove ==
    ASSUME NEW S, IsFiniteSet(S), NEW f, \A x \in S : f[x] \in Nat, NEW a \in S
    PROVE  SumFunctionOnSet(f, S) = f[a] + SumFunctionOnSet(f, S \ {a})
<1> DEFINE W == {n \in Nat : \A s \in SUBSET S : Cardinality(s) <= n =>
                   \A x \in s : SumFunctionOnSet(f, s) = f[x] + SumFunctionOnSet(f, s \ {x})}
<1>0. \A s \in SUBSET S : /\ IsFiniteSet(s) /\ Cardinality(s) \in Nat /\ (Cardinality(s) = 0 <=> s = {})
                          /\ SumFunctionOnSet(f, s) \in Nat
  BY FS_Subset, FS_CardinalityType, FS_EmptySet, SumUnfold
<1>1. 0 \in W
  BY <1>0
<1>2. ASSUME NEW n \in Nat, n \in W PROVE n + 1 \in W
  <2> SUFFICES ASSUME NEW s \in SUBSET S, Cardinality(s) <= n + 1, NEW x \in s
               PROVE  SumFunctionOnSet(f, s) = f[x] + SumFunctionOnSet(f, s \ {x})
    OBVIOUS
  <2> DEFINE y == Chosen(s)
  <2>1. y \in s /\ SumFunctionOnSet(f, s) = f[y] + SumFunctionOnSet(f, s \ {y})
    BY <1>0, Smaller, SumUnfold
  <2> HIDE DEF y
  <2>2. CASE x = y
    BY <2>1, <2>2
  <2>3. CASE x # y
    <3> DEFINE sx == s \ {x}
               sy == s \ {y}
               r == s \ {x, y}
    <3>1. sx \in SUBSET S /\ sy \in SUBSET S /\ r \in SUBSET S /\ x \in sy /\ y \in sx
          /\ sx \ {y} = r /\ sy \ {x} = r
      BY <2>1, <2>3
    <3>2. Cardinality(sx) <= n /\ Cardinality(sy) <= n
      <4>1. Cardinality(sx) = Cardinality(s) - 1 /\ Cardinality(sy) = Cardinality(s) - 1 /\ Cardinality(s) \in Nat
        BY <1>0, <2>1, FS_RemoveElement
      <4> QED
        BY <4>1
    <3> HIDE DEF sx, sy, r
    <3>3. SumFunctionOnSet(f, sx) = f[y] + SumFunctionOnSet(f, r)
      BY <1>2, <3>1, <3>2
    <3>4. SumFunctionOnSet(f, sy) = f[x] + SumFunctionOnSet(f, r)
      BY <1>2, <3>1, <3>2
    <3>5. f[x] \in Nat /\ f[y] \in Nat /\ SumFunctionOnSet(f, r) \in Nat
      BY <1>0, <2>1, <3>1
    <3>6. SumFunctionOnSet(f, s) = f[y] + SumFunctionOnSet(f, sy)
      BY <2>1 DEF sy
    <3>7. SumFunctionOnSet(f, s) = f[x] + SumFunctionOnSet(f, sx)
      BY <3>3, <3>4, <3>5, <3>6
    <3> QED
      BY <3>7 DEF sx
  <2> QED
    BY <2>2, <2>3
<1>3. Nat \subseteq W
  <2> HIDE DEF W
  <2> QED
    BY <1>1, <1>2, NatSetInduction
<1>4. S \in SUBSET S /\ Cardinality(S) \in W
  BY <1>0, <1>3
<1> QED
  BY <1>0, <1>4

(* A sum over a set and an element outside it. *)
LEMMA SumAdd ==
    ASSUME NEW S, IsFiniteSet(S), NEW f, \A x \in S : f[x] \in Nat, NEW a, a \notin S, f[a] \in Nat
    PROVE  SumFunctionOnSet(f, S \cup {a}) = f[a] + SumFunctionOnSet(f, S)
<1> DEFINE T == S \cup {a}
<1>1. IsFiniteSet(T) /\ a \in T /\ T \ {a} = S /\ \A x \in T : f[x] \in Nat
  BY FS_AddElement
<1> HIDE DEF T
<1>2. SumFunctionOnSet(f, T) = f[a] + SumFunctionOnSet(f, T \ {a})
  BY <1>1, SumRemove
<1> QED
  BY <1>1, <1>2 DEF T

(* A sum over a part is no larger. *)
LEMMA SumPart ==
    ASSUME NEW S, IsFiniteSet(S), NEW f, \A x \in S : f[x] \in Nat, NEW T \in SUBSET S
    PROVE  SumFunctionOnSet(f, T) <= SumFunctionOnSet(f, S)
<1> DEFINE W == {n \in Nat : \A s \in SUBSET S : Cardinality(s) <= n /\ T \subseteq s =>
                                SumFunctionOnSet(f, T) <= SumFunctionOnSet(f, s)}
<1>0. \A s \in SUBSET S : /\ IsFiniteSet(s) /\ Cardinality(s) \in Nat /\ (Cardinality(s) = 0 <=> s = {})
                          /\ SumFunctionOnSet(f, s) \in Nat
  BY FS_Subset, FS_CardinalityType, FS_EmptySet, SumUnfold
<1>1. 0 \in W
  <2> SUFFICES ASSUME NEW s \in SUBSET S, Cardinality(s) <= 0, T \subseteq s
               PROVE  SumFunctionOnSet(f, T) <= SumFunctionOnSet(f, s)
    OBVIOUS
  <2>1. T = s
    BY <1>0
  <2> QED
    BY <1>0, <2>1
<1>2. ASSUME NEW n \in Nat, n \in W PROVE n + 1 \in W
  <2> SUFFICES ASSUME NEW s \in SUBSET S, Cardinality(s) <= n + 1, T \subseteq s
               PROVE  SumFunctionOnSet(f, T) <= SumFunctionOnSet(f, s)
    OBVIOUS
  <2>1. CASE T = s
    BY <1>0, <2>1
  <2>2. CASE T # s
    <3>1. PICK x \in s : x \notin T
      BY <2>2
    <3> DEFINE r == s \ {x}
    <3>2. r \in SUBSET S /\ T \subseteq r
      BY <3>1
    <3>3. Cardinality(r) <= n
      <4>1. Cardinality(r) = Cardinality(s) - 1 /\ Cardinality(s) \in Nat
        BY <1>0, <3>1, FS_RemoveElement
      <4> QED
        BY <4>1
    <3>4. SumFunctionOnSet(f, s) = f[x] + SumFunctionOnSet(f, r)
      BY <1>0, SumRemove
    <3> HIDE DEF r
    <3>5. SumFunctionOnSet(f, T) <= SumFunctionOnSet(f, r)
      BY <1>2, <3>2, <3>3
    <3>6. f[x] \in Nat /\ SumFunctionOnSet(f, r) \in Nat /\ SumFunctionOnSet(f, T) \in Nat
      BY <1>0, <3>2
    <3> QED
      BY <3>4, <3>5, <3>6
  <2> QED
    BY <2>1, <2>2
<1>3. Nat \subseteq W
  <2> HIDE DEF W
  <2> QED
    BY <1>1, <1>2, NatSetInduction
<1>4. S \in SUBSET S /\ Cardinality(S) \in W
  BY <1>0, <1>3
<1> QED
  BY <1>0, <1>4

(* A sum over two disjoint sets. *)
LEMMA SumUnion ==
    ASSUME NEW S, IsFiniteSet(S), NEW T, IsFiniteSet(T), S \cap T = {},
           NEW f, \A x \in S \cup T : f[x] \in Nat
    PROVE  SumFunctionOnSet(f, S \cup T) = SumFunctionOnSet(f, S) + SumFunctionOnSet(f, T)
<1> DEFINE W == {n \in Nat : \A t \in SUBSET T : Cardinality(t) <= n =>
                    SumFunctionOnSet(f, S \cup t) = SumFunctionOnSet(f, S) + SumFunctionOnSet(f, t)}
<1>0. /\ SumFunctionOnSet(f, S) \in Nat
      /\ \A t \in SUBSET T : /\ IsFiniteSet(t) /\ Cardinality(t) \in Nat /\ (Cardinality(t) = 0 <=> t = {})
                             /\ SumFunctionOnSet(f, t) \in Nat
                             /\ IsFiniteSet(S \cup t) /\ SumFunctionOnSet(f, S \cup t) \in Nat
  <2>1. SumFunctionOnSet(f, S) \in Nat
    BY SumUnfold
  <2> SUFFICES ASSUME NEW t \in SUBSET T
               PROVE  /\ IsFiniteSet(t) /\ Cardinality(t) \in Nat /\ (Cardinality(t) = 0 <=> t = {})
                      /\ SumFunctionOnSet(f, t) \in Nat
                      /\ IsFiniteSet(S \cup t) /\ SumFunctionOnSet(f, S \cup t) \in Nat
    BY <2>1
  <2>2. IsFiniteSet(t) /\ Cardinality(t) \in Nat /\ (Cardinality(t) = 0 <=> t = {})
    BY FS_Subset, FS_CardinalityType, FS_EmptySet
  <2>3. IsFiniteSet(S \cup t)
    BY <2>2, FS_Union
  <2>4. SumFunctionOnSet(f, t) \in Nat
    BY <2>2, SumUnfold
  <2>5. SumFunctionOnSet(f, S \cup t) \in Nat
    BY <2>3, SumUnfold
  <2> QED
    BY <2>2, <2>3, <2>4, <2>5
<1>5. \A t \in SUBSET T : Cardinality(t) \in Nat /\ (Cardinality(t) = 0 <=> t = {})
  BY <1>0
<1>1. 0 \in W
  <2> SUFFICES ASSUME NEW t \in SUBSET T, Cardinality(t) <= 0
               PROVE  SumFunctionOnSet(f, S \cup t) = SumFunctionOnSet(f, S) + SumFunctionOnSet(f, t)
    OBVIOUS
  <2>1. t = {} /\ S \cup t = S
    BY <1>5
  <2>2. SumFunctionOnSet(f, t) = 0
    BY <1>0, <2>1, SumUnfold
  <2> QED
    BY <1>0, <2>1, <2>2
<1>2. ASSUME NEW n \in Nat, n \in W PROVE n + 1 \in W
  <2> SUFFICES ASSUME NEW t \in SUBSET T, Cardinality(t) <= n + 1
               PROVE  SumFunctionOnSet(f, S \cup t) = SumFunctionOnSet(f, S) + SumFunctionOnSet(f, t)
    OBVIOUS
  <2>1. CASE t = {}
    <3>1. Cardinality(t) <= n
      BY <1>5, <2>1
    <3> QED
      BY <1>2, <3>1
  <2>2. CASE t # {}
    <3>1. PICK x \in t : TRUE
      BY <2>2
    <3> DEFINE r == t \ {x}
               U == S \cup t
               V == S \cup r
    <3>2. r \in SUBSET T /\ x \in U /\ U \ {x} = V
      OBVIOUS
    <3>3. Cardinality(r) <= n
      <4>1. Cardinality(r) = Cardinality(t) - 1 /\ Cardinality(t) \in Nat
        BY <1>0, FS_RemoveElement
      <4> QED
        BY <4>1
    <3>4. SumFunctionOnSet(f, t) = f[x] + SumFunctionOnSet(f, r)
      BY <1>0, SumRemove
    <3>5. SumFunctionOnSet(f, U) = f[x] + SumFunctionOnSet(f, U \ {x})
      <4>1. IsFiniteSet(U) /\ \A y \in U : f[y] \in Nat
        BY <1>0
      <4> HIDE DEF U
      <4> QED
        BY <3>2, <4>1, SumRemove
    <3> HIDE DEF r
    <3>6. SumFunctionOnSet(f, V) = SumFunctionOnSet(f, S) + SumFunctionOnSet(f, r)
      BY <1>2, <3>2, <3>3
    <3>7. f[x] \in Nat /\ SumFunctionOnSet(f, r) \in Nat
      BY <1>0, <3>2
    <3>8. SumFunctionOnSet(f, U) = SumFunctionOnSet(f, S) + SumFunctionOnSet(f, t)
      <4> HIDE DEF U, V
      <4>1. SumFunctionOnSet(f, U) = f[x] + SumFunctionOnSet(f, V)
        BY <3>2, <3>5
      <4>2. SumFunctionOnSet(f, S) \in Nat
        BY <1>0
      <4> QED
        BY <3>4, <3>6, <3>7, <4>1, <4>2
    <3> QED
      BY <3>8
  <2> QED
    BY <2>1, <2>2
<1>3. Nat \subseteq W
  <2> HIDE DEF W
  <2> QED
    BY <1>1, <1>2, NatSetInduction
<1>4. T \in SUBSET T /\ Cardinality(T) \in W
  BY <1>0, <1>3
<1> QED
  BY <1>0, <1>4
-----------------------------------------------------------------------------
(* What build-rootfs.py packs.                                               *)

(* The sum over a list around one of its elements. *)
LEMMA SumAround ==
    ASSUME NEW n \in Nat, NEW f \in [1 .. n -> Nat], NEW i \in 1 .. n
    PROVE  /\ SumFunctionOnSet(f, 1 .. i - 1) \in Nat /\ SumFunctionOnSet(f, 1 .. n) \in Nat
           /\ SumFunctionOnSet(f, i + 1 .. n) \in Nat
           /\ SumFunctionOnSet(f, 1 .. n)
                = SumFunctionOnSet(f, 1 .. i - 1) + f[i] + SumFunctionOnSet(f, i + 1 .. n)
           /\ SumFunctionOnSet(f, 1 .. i - 1) + f[i] <= SumFunctionOnSet(f, 1 .. n)
<1> DEFINE A == 1 .. i - 1
           B == i + 1 .. n
           C == A \cup {i}
           D == C \cup B
           N == 1 .. n
<1>0. 1 \in Int /\ i - 1 \in Int /\ i + 1 \in Int /\ n \in Int
  OBVIOUS
<1>1. IsFiniteSet(A) /\ IsFiniteSet(B) /\ IsFiniteSet(1 .. n)
  BY <1>0, FS_Interval
<1>2. /\ i \notin A /\ C \cap B = {} /\ D = N /\ C \cup B = D
      /\ (\A x \in A : f[x] \in Nat) /\ (\A x \in B : f[x] \in Nat) /\ f[i] \in Nat
  OBVIOUS
<1> HIDE DEF A, B
<1>3. SumFunctionOnSet(f, C) = f[i] + SumFunctionOnSet(f, A)
  BY <1>1, <1>2, SumAdd
<1>4. IsFiniteSet(C) /\ \A x \in C \cup B : f[x] \in Nat
  BY <1>1, <1>2, FS_AddElement
<1> HIDE DEF C
<1>5. SumFunctionOnSet(f, D) = SumFunctionOnSet(f, C) + SumFunctionOnSet(f, B)
  BY <1>1, <1>2, <1>4, SumUnion
<1> HIDE DEF D, N
<1>6. SumFunctionOnSet(f, A) \in Nat /\ SumFunctionOnSet(f, B) \in Nat
  BY <1>1, <1>2, SumUnfold
<1>7. SumFunctionOnSet(f, N) = SumFunctionOnSet(f, A) + f[i] + SumFunctionOnSet(f, B) /\ f[i] \in Nat
  BY <1>2, <1>3, <1>5, <1>6
<1>8. /\ SumFunctionOnSet(f, N) \in Nat
      /\ SumFunctionOnSet(f, A) + f[i] <= SumFunctionOnSet(f, N)
  BY <1>6, <1>7
<1> QED
  BY <1>6, <1>7, <1>8 DEF A, B, N

(* The entries of a packed module: one behind the other up to the files, the  *)
(* files one behind the other up to the end.                                  *)
LEMMA PackedFacts ==
    ASSUME NEW list \in Seq(Item), NEW i \in 1 .. Len(list)
    PROVE  LET e == Packed(list).table[i] IN
           /\ e \in Entry /\ e.path = list[i].path /\ e.size = list[i].size
           /\ Packed(list).size \in Nat
           /\ e.at + EntrySize + PathLen[e.path] <= Packed(list).size
           /\ e.offset + e.size + SumFunctionOnSet(FileSizes(list), i + 1 .. Len(list)) = Packed(list).size
           /\ e.offset + e.size <= Packed(list).size
<1> DEFINE n == Len(list)
           f == EntrySizes(list)
           g == FileSizes(list)
           F(s) == SumFunctionOnSet(f, s)
           G(s) == SumFunctionOnSet(g, s)
           p == list[i].path
           z == list[i].size
           f1 == F(1 .. i - 1)
           f2 == F(1 .. n)
           g1 == G(1 .. i - 1)
           g2 == G(1 .. n)
           g3 == G(i + 1 .. n)
           at == PackedAt(list, i)
           off == PackedOffset(list, i)
           size == Packed(list).size
<1>0. n \in Nat /\ DOMAIN list = 1 .. n /\ HeaderSize \in Nat /\ EntrySize \in Nat
  BY RootfsAssumption
<1>1. \A j \in 1 .. n : list[j] \in Item
  BY <1>0
<1>2. f \in [1 .. n -> Nat] /\ f[i] = EntrySize + PathLen[p]
  BY <1>0, <1>1, RootfsAssumption DEF EntrySizes, Item
<1>3. g \in [1 .. n -> Nat] /\ g[i] = z
  BY <1>0, <1>1 DEF FileSizes, Item
<1>4. p \in Paths /\ z \in Nat /\ PathLen[p] \in Nat
  BY <1>1, RootfsAssumption DEF Item
<1>5. /\ f1 \in Nat /\ f2 \in Nat
      /\ f1 + f[i] <= f2
  <2> HIDE DEF f, n
  <2> QED
    BY <1>0, <1>2, SumAround DEF n
<1>6. /\ g1 \in Nat /\ g2 \in Nat /\ g3 \in Nat
      /\ g2 = g1 + g[i] + g3
  <2> HIDE DEF g, n
  <2> QED
    BY <1>0, <1>3, SumAround DEF n
<1>7. at = HeaderSize + f1 /\ PackedAt(list, n + 1) = HeaderSize + f2
  <2>1. (n + 1) - 1 = n
    BY <1>0
  <2> QED
    BY <2>1 DEF PackedAt
<1>8. off = HeaderSize + f2 + g1
  BY <1>7 DEF PackedOffset
<1>9. size = HeaderSize + f2 + g2
  <2>1. DOMAIN g = 1 .. n
    BY <1>3
  <2>2. size = PackedAt(list, n + 1) + SumFunction(g)
    BY DEF Packed
  <2>3. SumFunction(g) = g2
    BY <2>1 DEF SumFunction
  <2> QED
    BY <1>7, <2>2, <2>3
<1>10. Packed(list).table[i] = [at |-> at, path |-> p, offset |-> off, size |-> z]
  BY <1>0 DEF Packed
<1> HIDE DEF at, off, size, f, g, F, G, p, z, n, f1, f2, g1, g2, g3
<1>11. at \in Nat /\ off \in Nat /\ size \in Nat
  BY <1>0, <1>5, <1>6, <1>7, <1>8, <1>9
<1>12. at + EntrySize + PathLen[p] <= size
  <2> DEFINE len == PathLen[p]
  <2>1. len \in Nat /\ f1 + (EntrySize + len) <= f2
    BY <1>2, <1>4, <1>5
  <2>2. HeaderSize \in Nat /\ EntrySize \in Nat /\ f1 \in Nat /\ f2 \in Nat /\ g2 \in Nat
    BY <1>0, <1>5, <1>6
  <2>3. at = HeaderSize + f1 /\ size = HeaderSize + f2 + g2
    BY <1>7, <1>9
  <2> HIDE DEF len
  <2>4. at + EntrySize + len <= size
    BY <2>1, <2>2, <2>3
  <2> QED
    BY <2>4 DEF len
<1>13. off + z + g3 = size
  BY <1>0, <1>3, <1>4, <1>5, <1>6, <1>8, <1>9
<1>14. off + z <= size
  BY <1>4, <1>6, <1>11, <1>13
<1>15. [at |-> at, path |-> p, offset |-> off, size |-> z] \in Entry
  BY <1>4, <1>11 DEF Entry
<1> QED
  BY <1>10, <1>11, <1>12, <1>13, <1>14, <1>15 DEF p, z, G, g, n, size, g3

-----------------------------------------------------------------------------
(* The mounted image.                                                         *)
ImageLike(img) ==
    /\ img.size \in Nat /\ img.entries \in Nat /\ img.table \in Seq(Entry)
    /\ img.entries <= MaxEntries => Len(img.table) = img.entries

(* What the walks of open and list rely on: the module does not change, and   *)
(* what is mounted passed the checks of mantle_rootfs_mount.                  *)
MountInv ==
    /\ ImageLike(module)
    /\ items # <<>> => items \in ItemLists /\ module = Packed(items)
    /\ ready => state = module /\ Mountable(module)

LEMMA PackedLike ==
    ASSUME NEW list \in Seq(Item)
    PROVE  ImageLike(Packed(list)) /\ Packed(list).entries = Len(list) /\ Packed(list).magic = TRUE
<1> DEFINE pk == Packed(list)
           n == Len(list)
<1>1. n \in Nat /\ DOMAIN list = 1 .. n
  OBVIOUS
<1>2. pk.entries = n /\ pk.magic = TRUE /\ pk.table = [i \in 1 .. n |-> pk.table[i]]
  BY <1>1 DEF Packed
<1>3. \A i \in 1 .. n : pk.table[i] \in Entry
  BY PackedFacts
<1>4. pk.size \in Nat
  <2>1. CASE n = 0
    <3> DEFINE f == EntrySizes(list)
               g == FileSizes(list)
    <3>1. 1 .. (n + 1) - 1 = {} /\ DOMAIN g = {}
      BY <1>1, <2>1 DEF FileSizes
    <3>2. IsFiniteSet({})
      BY FS_EmptySet
    <3>3. SumFunctionOnSet(f, {}) = 0 /\ SumFunctionOnSet(g, {}) = 0
      <4> HIDE DEF f, g
      <4> QED
        BY <3>2, SumUnfold
    <3>4. PackedAt(list, n + 1) = HeaderSize + SumFunctionOnSet(f, 1 .. (n + 1) - 1)
      BY DEF PackedAt
    <3>5. SumFunction(g) = SumFunctionOnSet(g, DOMAIN g)
      BY DEF SumFunction
    <3>6. pk.size = PackedAt(list, n + 1) + SumFunction(g)
      BY DEF Packed
    <3>7. HeaderSize \in Nat
      BY RootfsAssumption
    <3> HIDE DEF f, g, pk, n
    <3>8. PackedAt(list, n + 1) = HeaderSize + 0 /\ SumFunction(g) = 0
      BY <3>1, <3>3, <3>4, <3>5
    <3> QED
      BY <3>6, <3>7, <3>8
  <2>2. CASE n # 0
    <3>1. 1 \in 1 .. Len(list)
      BY <1>1, <2>2
    <3> QED
      BY <3>1, PackedFacts
  <2> QED
    BY <2>1, <2>2
<1> HIDE DEF pk, n
<1>5. pk.table \in Seq(Entry) /\ Len(pk.table) = n
  <2>1. pk.table \in [1 .. n -> Entry]
    BY <1>2, <1>3
  <2> QED
    BY <1>1, <2>1
<1>6. ImageLike(pk)
  BY <1>1, <1>2, <1>4, <1>5 DEF ImageLike
<1> QED
  BY <1>2, <1>6 DEF pk, n

(* range_valid in terms of sums. *)
LEMMA RangeFits ==
    ASSUME NEW a \in Nat, NEW b \in Nat, NEW size \in Nat
    PROVE  range_valid(a, b, size) <=> a + b <= size
  BY DEF range_valid

(* A module that build-rootfs.py packed within the limits is accepted. *)
LEMMA PackedMounts ==
    ASSUME NEW list \in Seq(Item), list # <<>>, Len(list) <= MaxEntries,
           \A i \in DOMAIN list : PathLen[list[i].path] \in 1 .. MaxPathLen
    PROVE  Mountable(Packed(list))
<1> DEFINE pk == Packed(list)
           n == Len(list)
<1>1. n \in Nat \ {0} /\ DOMAIN list = 1 .. n
  OBVIOUS
<1>2. pk.entries = n /\ pk.magic = TRUE
  BY PackedLike
<1>3. ASSUME NEW i \in 1 .. n
      PROVE  /\ EntryOk(pk, pk.table[i]) /\ pk.size \in Nat /\ pk.size >= HeaderSize
  <2> DEFINE e == pk.table[i]
  <2>1. /\ e \in Entry /\ e.path = list[i].path
        /\ pk.size \in Nat /\ e.at + EntrySize + PathLen[e.path] <= pk.size
        /\ e.offset + e.size <= pk.size
    BY PackedFacts
  <2>2. e.at \in Nat /\ e.offset \in Nat /\ e.size \in Nat /\ e.path \in Paths /\ e.at >= HeaderSize
    <3>1. e.at = PackedAt(list, i)
      BY <1>1 DEF Packed
    <3>2. e.at \in Nat /\ e.offset \in Nat /\ e.size \in Nat /\ e.path \in Paths
      BY <2>1 DEF Entry
    <3> DEFINE f == EntrySizes(list)
               A == 1 .. i - 1
    <3>3. IsFiniteSet(A) /\ \A x \in A : f[x] \in Nat
      <4>1. 1 \in Int /\ i - 1 \in Int
        BY <1>1
      <4>2. IsFiniteSet(A)
        BY <4>1, FS_Interval
      <4>3. \A x \in A : x \in 1 .. n /\ list[x] \in Item
        BY <1>1
      <4>4. \A x \in A : f[x] = EntrySize + PathLen[list[x].path]
        BY <1>1, <4>3 DEF EntrySizes
      <4>5. \A x \in A : PathLen[list[x].path] \in Nat
        BY <4>3, RootfsAssumption DEF Item
      <4>6. EntrySize \in Nat
        BY RootfsAssumption
      <4> HIDE DEF A, f
      <4> QED
        BY <4>2, <4>4, <4>5, <4>6
    <3>4. PackedAt(list, i) = HeaderSize + SumFunctionOnSet(f, A)
      BY DEF PackedAt
    <3> HIDE DEF f, A
    <3>5. SumFunctionOnSet(f, A) \in Nat
      BY <3>3, SumUnfold
    <3> QED
      BY <3>1, <3>2, <3>4, <3>5, RootfsAssumption
  <2>3. PathLen[e.path] \in 1 .. MaxPathLen /\ EntrySize \in Nat /\ HeaderSize \in Nat
    BY <1>1, <2>1, RootfsAssumption
  <2> HIDE DEF e, pk
  <2>4. EntryOk(pk, e) /\ pk.size >= HeaderSize
    <3> DEFINE len == PathLen[e.path]
    <3>1. len \in Nat /\ e.at + EntrySize + len <= pk.size /\ len # 0 /\ len <= MaxPathLen /\ MaxPathLen \in Nat
      BY <2>1, <2>3, RootfsAssumption
    <3> HIDE DEF len
    <3> DEFINE a == e.at
               b == e.at + EntrySize
               size == pk.size
    <3>2. a \in Nat /\ b \in Nat /\ size \in Nat /\ b = a + EntrySize /\ b + len <= size /\ a >= HeaderSize
      <4>1. a \in Nat /\ size \in Nat /\ a >= HeaderSize
        BY <2>1, <2>2
      <4>2. b + len <= size
        BY <3>1
      <4> QED
        BY <2>3, <4>1, <4>2
    <3> HIDE DEF a, b, size
    <3>3. a + EntrySize <= size /\ size >= HeaderSize
      BY <2>3, <3>1, <3>2
    <3>4. range_valid(a, EntrySize, size) /\ range_valid(b, len, size)
      BY <2>3, <3>1, <3>2, <3>3, RangeFits
    <3>5. range_valid(e.offset, e.size, size)
      BY <2>1, <2>2, RangeFits DEF size
    <3> QED
      BY <3>1, <3>3, <3>4, <3>5 DEF EntryOk, len, a, b, size
  <2> QED
    BY <2>1, <2>4 DEF e
<1>4. 1 \in 1 .. n
  BY <1>1
<1> HIDE DEF pk
<1>5. pk.size >= HeaderSize
  BY <1>3, <1>4
<1>6. Mountable(pk)
  BY <1>1, <1>2, <1>3, <1>5 DEF Mountable
<1> QED
  BY <1>6 DEF pk

(* What the checks of mount say of an entry of the mounted image. *)
LEMMA MountedEntry ==
    ASSUME MountInv, ready, NEW i \in 1 .. state.entries
    PROVE  /\ state.table[i] \in Entry
           /\ state.table[i].at + EntrySize + PathLen[state.table[i].path] <= module.size
           /\ state.table[i].offset + state.table[i].size <= module.size
<1> DEFINE e == state.table[i]
           size == module.size
<1>1. /\ state = module /\ state.entries \in Nat /\ size \in Nat
      /\ state.table \in Seq(Entry) /\ Len(state.table) = state.entries
      /\ EntryOk(module, e)
  BY DEF MountInv, ImageLike, Mountable
<1>2. e \in Entry
  BY <1>1
<1>3. e.at \in Nat /\ e.offset \in Nat /\ e.size \in Nat /\ e.path \in Paths
  BY <1>2 DEF Entry
<1> DEFINE len == PathLen[e.path]
           a == e.at
           b == e.at + EntrySize
<1>4. len \in Nat /\ EntrySize \in Nat /\ b \in Nat /\ b = a + EntrySize /\ a \in Nat
  BY <1>3, RootfsAssumption
<1>5. range_valid(b, len, size) /\ range_valid(e.offset, e.size, size)
  BY <1>1 DEF EntryOk
<1> HIDE DEF e, size, len, a, b
<1>6. b + len <= size /\ e.offset + e.size <= size
  BY <1>1, <1>3, <1>4, <1>5, RangeFits
<1> QED
  BY <1>2, <1>4, <1>6 DEF e, size, len, a, b

(* A walk over entries of the mounted image stays inside the module. *)
LEMMA WalkInside ==
    ASSUME MountInv, NEW k \in Nat, k <= state.entries
    PROVE  WalkEnd(state, k) \in Nat /\ WalkEnd(state, k) <= module.size
<1> DEFINE End(i) == state.table[i].at + EntrySize + PathLen[state.table[i].path]
           S == {0} \cup {End(i) : i \in 1 .. k}
<1>1. module.size \in Nat /\ state.entries \in Nat
  BY DEF MountInv, ImageLike, ready, Unmounted
<1>2. ASSUME NEW i \in 1 .. k PROVE End(i) \in Nat /\ End(i) <= module.size
  <2>1. i \in 1 .. state.entries
    BY <1>1
  <2>2. ready
    BY <2>1 DEF ready, Unmounted
  <2>3. state.table[i] \in Entry /\ End(i) <= module.size
    BY <2>1, <2>2, MountedEntry
  <2>4. state.table[i].at \in Nat /\ PathLen[state.table[i].path] \in Nat /\ EntrySize \in Nat
    BY <2>3, RootfsAssumption DEF Entry
  <2> QED
    BY <2>3, <2>4
<1> HIDE DEF End
<1>3. S \in SUBSET Nat /\ S # {} /\ \A x \in S : x <= module.size
  BY <1>1, <1>2
<1>4. WalkEnd(state, k) = Max(S)
  BY DEF WalkEnd, End
<1> HIDE DEF S
<1>5. Max(S) \in S
  BY <1>1, <1>3, MaxOfBounded
<1> QED
  BY <1>3, <1>4, <1>5

(* A non-empty set of numbers has a least one. *)
LEMMA MinIn ==
    ASSUME NEW S \in SUBSET Nat, S # {}
    PROVE  Min(S) \in S /\ \A x \in S : Min(S) <= x
<1> DEFINE W == {n \in Nat : (\E a \in S : a <= n) => \E x \in S : \A y \in S : x <= y}
<1>1. 0 \in W
  OBVIOUS
<1>2. ASSUME NEW n \in Nat, n \in W PROVE n + 1 \in W
  <2> SUFFICES ASSUME NEW a \in S, a <= n + 1 PROVE \E x \in S : \A y \in S : x <= y
    OBVIOUS
  <2>1. CASE \E c \in S : c <= n
    BY <1>2, <2>1
  <2>2. CASE ~ \E c \in S : c <= n
    <3>1. \A y \in S : a <= y
      BY <2>2
    <3> QED
      BY <3>1
  <2> QED
    BY <2>1, <2>2
<1>3. Nat \subseteq W
  <2> HIDE DEF W
  <2> QED
    BY <1>1, <1>2, NatSetInduction
<1>4. \E x \in S : \A y \in S : x <= y
  <2>1. PICK a \in S : TRUE
    OBVIOUS
  <2>2. a \in W /\ a <= a
    BY <1>3
  <2> QED
    BY <2>2
<1> QED
  BY <1>4, Zenon DEF Min
-----------------------------------------------------------------------------
(* open.                                                                      *)

(* What mantle_rootfs_open returns and reads. *)
Opened(path, i) ==
    /\ reply'.op = "open" /\ reply'.arg = path
    /\ reply'.reads = WalkEnd(state, i) /\ i \in Nat /\ i <= state.entries
    /\ (reply'.ok = TRUE) <=> (ready /\ Matches(path) # {})
    /\ reply'.ok \in BOOLEAN
    /\ Matches(path) # {} => /\ i = Min(Matches(path)) /\ i \in 1 .. state.entries
                             /\ state.table[i].path = path
                             /\ reply'.slice.offset = state.table[i].offset
                             /\ reply'.slice.size = state.table[i].size
    /\ UNCHANGED <<module, items, state>>

LEMMA OpenEffect ==
    ASSUME MountInv, NEW path, Open(path)
    PROVE  \E i : Opened(path, i)
<1> DEFINE S == Matches(path)
           i == IF S = {} THEN state.entries ELSE Min(S)
           sl == IF S = {} THEN NoSlice ELSE [offset |-> state.table[i].offset, size |-> state.table[i].size]
<1>1. state.entries \in Nat
  BY DEF MountInv, ImageLike, ready, Unmounted
<1>2. S # {} => i = Min(S) /\ i \in S
  <2>1. S \in SUBSET Nat
    BY <1>1 DEF Matches
  <2> HIDE DEF S
  <2> QED
    BY <2>1, MinIn
<1>3. i \in Nat /\ i <= state.entries /\ (S # {} => i \in 1 .. state.entries /\ state.table[i].path = path)
  BY <1>1, <1>2 DEF Matches
<1> DEFINE okv == ready /\ S # {}
<1>4. reply' = [Reply("open", path, okv, WalkEnd(state, i)) EXCEPT !.slice = sl]
  BY DEF Open
<1>5. okv \in BOOLEAN /\ (okv = TRUE <=> (ready /\ S # {}))
  BY Zenon
<1> HIDE DEF okv, S, i
<1>6. /\ reply'.op = "open" /\ reply'.arg = path /\ reply'.reads = WalkEnd(state, i)
      /\ reply'.ok = okv /\ reply'.slice = sl
  BY <1>4 DEF Reply
<1>7. S # {} => reply'.slice.offset = state.table[i].offset /\ reply'.slice.size = state.table[i].size
  BY <1>6
<1>8. (reply'.ok = TRUE <=> (ready /\ S # {})) /\ reply'.ok \in BOOLEAN
  BY <1>5, <1>6, Zenon
<1>9. UNCHANGED <<module, items, state>>
  BY DEF Open
<1>10. Opened(path, i)
  BY <1>2, <1>3, <1>6, <1>7, <1>8, <1>9 DEF Opened, S
<1> QED
  BY <1>10

-----------------------------------------------------------------------------
(* list.                                                                      *)

AllNames == {Top[p] : p \in Paths}
AccRec == [names : Seq(AllNames), written : Nat, full : BOOLEAN]
ListStart == [names |-> <<>>, written |-> 0, full |-> FALSE]

(* The states of the loop of mantle_rootfs_list after each entry. *)
ListRun(img, out, m, h) ==
    h = [i \in 0 .. m |-> IF i = 0 THEN ListStart ELSE ListStep(h[i - 1], img.table[i], out)]

LEMMA ListRunExists ==
    ASSUME NEW img, NEW out, NEW n \in Nat
    PROVE  \E h : ListRun(img, out, n, h)
<1> DEFINE W == {m \in Nat : \E h : ListRun(img, out, m, h)}
<1>1. 0 \in W
  <2> DEFINE h == [i \in 0 .. 0 |-> ListStart]
  <2>1. ListRun(img, out, 0, h)
    BY DEF ListRun
  <2> HIDE DEF h
  <2> QED
    BY <2>1
<1>2. ASSUME NEW m \in Nat, m \in W PROVE m + 1 \in W
  <2>1. PICK h : ListRun(img, out, m, h)
    BY <1>2
  <2> DEFINE St(a, i) == ListStep(a, img.table[i], out)
             e == [i \in 0 .. (m + 1) |-> IF i = m + 1 THEN St(h[m], m + 1) ELSE h[i]]
  <2>2. \A i \in 0 .. m : h[i] = IF i = 0 THEN ListStart ELSE St(h[i - 1], i)
    BY <2>1, Zenon DEF ListRun
  <2> HIDE DEF St
  <2>3. e[m + 1] = St(h[m], m + 1) /\ \A i \in 0 .. m : e[i] = h[i]
    OBVIOUS
  <2>4. e = [i \in 0 .. (m + 1) |-> e[i]]
    OBVIOUS
  <2> HIDE DEF e
  <2>5. ASSUME NEW i \in 0 .. (m + 1) PROVE e[i] = IF i = 0 THEN ListStart ELSE St(e[i - 1], i)
    <3>1. CASE i = m + 1
      <4>1. i - 1 = m /\ m \in 0 .. m /\ i # 0
        BY <3>1
      <4> QED
        BY <2>3, <3>1, <4>1
    <3>2. CASE i # m + 1
      <4>1. i \in 0 .. m /\ (i # 0 => i - 1 \in 0 .. m)
        BY <3>2
      <4> QED
        BY <2>2, <2>3, <4>1
    <3> QED
      BY <3>1, <3>2
  <2>6. e = [i \in 0 .. (m + 1) |-> IF i = 0 THEN ListStart ELSE St(e[i - 1], i)]
    BY <2>4, <2>5
  <2>7. ListRun(img, out, m + 1, e)
    BY <2>6, Zenon DEF ListRun, St
  <2> QED
    BY <2>7
<1>3. Nat \subseteq W
  <2> HIDE DEF W
  <2> QED
    BY <1>1, <1>2, NatSetInduction
<1> QED
  BY <1>3

(* The listing is the last of these states. *)
LEMMA ListingIsRun ==
    ASSUME NEW img, NEW out, img.entries \in Nat
    PROVE  \E h : ListRun(img, out, img.entries, h) /\ Listing(img, out) = h[img.entries]
<1>1. \E h : ListRun(img, out, img.entries, h)
  BY ListRunExists
<1>2. PICK h : h = (CHOOSE g : ListRun(img, out, img.entries, g)) /\ ListRun(img, out, img.entries, h)
  BY <1>1, Zenon
<1>3. Listing(img, out) = (CHOOSE g : ListRun(img, out, img.entries, g))[img.entries]
  BY Zenon DEF Listing, ListRun, ListStart
<1> QED
  BY <1>2, <1>3, Zenon

(* One round: an entry without a new name, a name that does not fit, or one   *)
(* that is written.                                                           *)
Passes(a, e, b) == (a.full = TRUE \/ PathLen[e.path] <= 1 \/ Contains(a.names, Top[e.path])) /\ b = a
NewName(a, e) == a.full = FALSE /\ PathLen[e.path] > 1 /\ ~Contains(a.names, Top[e.path])
TooLong(a, e, out, b) ==
    /\ NewName(a, e) /\ a.written + NameLen[Top[e.path]] + 1 >= out
    /\ b.names = a.names /\ b.written = a.written /\ b.full = TRUE
Writes(a, e, out, b) ==
    /\ NewName(a, e) /\ a.written + NameLen[Top[e.path]] + 1 < out
    /\ b.names = Append(a.names, Top[e.path]) /\ b.written = a.written + NameLen[Top[e.path]] + 1
    /\ b.full = FALSE

LEMMA ListStepFacts ==
    ASSUME NEW a \in AccRec, NEW e \in Entry, NEW out \in Nat, NEW b, b = ListStep(a, e, out)
    PROVE  b \in AccRec /\ (Passes(a, e, b) \/ TooLong(a, e, out, b) \/ Writes(a, e, out, b))
<1> DEFINE n == Top[e.path]
           len == PathLen[e.path]
           w == a.written + NameLen[n] + 1
<1>1. /\ e.path \in Paths /\ n \in AllNames /\ len \in Nat
      /\ len > 1 => NameLen[n] \in Nat
  <2>1. e.path \in Paths
    BY DEF Entry
  <2> QED
    BY <2>1, RootfsAssumption DEF AllNames
<1>2. a.names \in Seq(AllNames) /\ a.written \in Nat /\ a.full \in BOOLEAN
  BY DEF AccRec
<1>3. (a.full = TRUE \/ a.full = FALSE) /\ (a.full <=> a.full = TRUE)
  BY <1>2, Zenon
<1>4. CASE a.full = TRUE \/ len <= 1 \/ Contains(a.names, n)
  <2>1. a.full \/ len <= 1 \/ Contains(a.names, n)
    BY <1>3, <1>4
  <2>2. b = a
    BY <2>1, Zenon DEF ListStep
  <2> QED
    BY <1>4, <2>2 DEF Passes
<1>5. CASE ~(a.full = TRUE \/ len <= 1 \/ Contains(a.names, n))
  <2>1. ~(a.full \/ len <= 1 \/ Contains(a.names, n))
    BY <1>3, <1>5
  <2>2. b = IF w >= out THEN [a EXCEPT !.full = TRUE]
            ELSE [a EXCEPT !.names = Append(@, n), !.written = @ + NameLen[n] + 1]
    BY <2>1, Zenon DEF ListStep
  <2>3. NewName(a, e) /\ w \in Nat
    BY <1>1, <1>2, <1>3, <1>5 DEF NewName
  <2>4. CASE w >= out
    <3>1. b = [a EXCEPT !.full = TRUE]
      BY <2>2, <2>4
    <3>2. b \in AccRec /\ b.names = a.names /\ b.written = a.written /\ b.full = TRUE
      BY <3>1 DEF AccRec
    <3> QED
      BY <2>3, <2>4, <3>2 DEF TooLong
  <2>5. CASE w < out
    <3> DEFINE c == [a EXCEPT !.names = Append(@, n)]
    <3>1. b = [c EXCEPT !.written = @ + NameLen[n] + 1]
      BY <2>2, <2>3, <2>5
    <3>2. Append(a.names, n) \in Seq(AllNames)
      BY <1>1, <1>2
    <3>3. c \in AccRec /\ c.names = Append(a.names, n) /\ c.written = a.written /\ c.full = a.full
      BY <3>2 DEF AccRec
    <3> HIDE DEF c
    <3>4. b \in AccRec /\ b.names = c.names /\ b.written = c.written + NameLen[n] + 1 /\ b.full = c.full
      BY <1>1, <2>3, <3>1, <3>3 DEF AccRec, NewName
    <3>5. b.full = FALSE
      BY <2>3, <3>3, <3>4 DEF NewName
    <3> QED
      BY <2>3, <2>5, <3>3, <3>4, <3>5 DEF Writes
  <2> QED
    BY <2>3, <2>4, <2>5
<1> QED
  BY <1>4, <1>5

(* The names met in the first i entries; TopNames takes all entries. *)
NamesOf(img, i) == {Top[img.table[j].path] : j \in {k \in 1 .. i : PathLen[img.table[k].path] > 1}}

(* What the loop of mantle_rootfs_list has done once it met the names S, each  *)
(* taking f[n] bytes: as long as everything fits, every name once; else it     *)
(* stopped because the names do not fit.                                       *)
ListAt(S, f, out, a) ==
    /\ a \in AccRec
    /\ a.written = 0 \/ a.written < out
    /\ a.full = FALSE => /\ ToSet(a.names) = S /\ Len(a.names) = Cardinality(S)
                         /\ a.written = SumFunctionOnSet(f, S)
    /\ a.full = TRUE => SumFunctionOnSet(f, S) >= out

(* Appending adds one element. *)
LEMMA ToSetAppend ==
    ASSUME NEW T, NEW s \in Seq(T), NEW x \in T
    PROVE  /\ ToSet(Append(s, x)) = ToSet(s) \cup {x} /\ Len(Append(s, x)) = Len(s) + 1
           /\ Contains(s, x) <=> x \in ToSet(s)
<1>1. Contains(s, x) <=> x \in ToSet(s)
  BY DEF Contains, ToSet
<1> DEFINE t == Append(s, x)
<1>2. Len(s) \in Nat /\ DOMAIN s = 1 .. Len(s) /\ t \in Seq(T) /\ Len(t) = Len(s) + 1 /\ DOMAIN t = 1 .. Len(t)
  OBVIOUS
<1>3. t[Len(s) + 1] = x /\ \A i \in 1 .. Len(s) : t[i] = s[i]
  OBVIOUS
<1> HIDE DEF t
<1>4. \A i \in DOMAIN t : i \in DOMAIN s \/ i = Len(s) + 1
  BY <1>2
<1>5. \A i \in DOMAIN s : i \in DOMAIN t
  BY <1>2
<1>6. Len(s) + 1 \in DOMAIN t
  BY <1>2
<1>7. ToSet(t) = ToSet(s) \cup {x}
  BY <1>2, <1>3, <1>4, <1>5, <1>6 DEF ToSet
<1> QED
  BY <1>1, <1>2, <1>7 DEF t

LEMMA ListAtStep ==
    ASSUME NEW a, NEW e \in Entry, NEW out \in Nat, NEW b, b = ListStep(a, e, out),
           NEW S, IsFiniteSet(S), NEW f, \A x \in S : f[x] \in Nat,
           PathLen[e.path] > 1 => f[Top[e.path]] = NameLen[Top[e.path]] + 1,
           NEW S2, S2 = IF PathLen[e.path] > 1 THEN S \cup {Top[e.path]} ELSE S,
           ListAt(S, f, out, a)
    PROVE  ListAt(S2, f, out, b)
<1> DEFINE n == Top[e.path]
           len == PathLen[e.path]
           sum == SumFunctionOnSet(f, S)
           sum2 == SumFunctionOnSet(f, S2)
           c == NameLen[n] + 1
<1>1. a \in AccRec /\ a.names \in Seq(AllNames) /\ a.written \in Nat /\ a.full \in BOOLEAN
  BY DEF ListAt, AccRec
<1>2. b \in AccRec /\ (Passes(a, e, b) \/ TooLong(a, e, out, b) \/ Writes(a, e, out, b))
  BY <1>1, ListStepFacts
<1>3. e.path \in Paths /\ n \in AllNames /\ len \in Nat /\ (len > 1 => NameLen[n] \in Nat)
  <2>1. e.path \in Paths
    BY DEF Entry
  <2> QED
    BY <2>1, RootfsAssumption DEF AllNames
<1>4. /\ ToSet(Append(a.names, n)) = ToSet(a.names) \cup {n} /\ Len(Append(a.names, n)) = Len(a.names) + 1
      /\ Contains(a.names, n) <=> n \in ToSet(a.names)
  BY <1>1, <1>3, ToSetAppend
<1>5. sum \in Nat
  BY SumUnfold
<1>6. ASSUME len > 1, n \notin S
      PROVE  S2 = S \cup {n} /\ sum2 = c + sum /\ c \in Nat /\ Cardinality(S2) = Cardinality(S) + 1
  <2>1. S2 = S \cup {n} /\ f[n] = c /\ c \in Nat
    BY <1>3, <1>6
  <2>2. SumFunctionOnSet(f, S \cup {n}) = f[n] + sum
    BY <1>6, <2>1, SumAdd
  <2>3. Cardinality(S \cup {n}) = Cardinality(S) + 1
    BY <1>6, FS_AddElement
  <2> QED
    BY <2>1, <2>2, <2>3
<1>7. CASE S2 = S /\ b = a
  BY <1>7
<1>8. CASE S2 # S
  <2>1. len > 1 /\ n \notin S
    BY <1>8
  <2>2. S2 = S \cup {n} /\ sum2 = c + sum /\ c \in Nat /\ Cardinality(S2) = Cardinality(S) + 1
    BY <1>6, <2>1
  <2> HIDE DEF sum, sum2, c, len
  <2>3. CASE Passes(a, e, b)
    <3>1. b = a
      BY <2>3 DEF Passes
    <3>2. a.full = TRUE
      <4>1. a.full = FALSE => ~Contains(a.names, n)
        BY <1>4, <2>1 DEF ListAt
      <4>2. a.full = TRUE \/ a.full = FALSE
        BY <1>1
      <4> QED
        BY <2>1, <2>3, <4>1, <4>2, <1>3 DEF Passes, len
    <3>3. sum >= out
      BY <3>2 DEF ListAt, sum
    <3>4. sum2 >= out
      BY <1>5, <2>2, <3>3
    <3> QED
      BY <1>2, <3>1, <3>2, <3>4 DEF ListAt, sum2
  <2>4. CASE TooLong(a, e, out, b)
    <3>1. b.written = a.written /\ b.full = TRUE /\ a.full = FALSE /\ a.written + NameLen[n] + 1 >= out
      BY <2>4 DEF TooLong, NewName
    <3>2. a.written = sum
      BY <3>1 DEF ListAt, sum
    <3>3. sum2 >= out
      <4>1. NameLen[n] \in Nat /\ c = NameLen[n] + 1
        BY <1>3, <2>1 DEF len, c
      <4> QED
        BY <1>1, <1>5, <2>2, <3>1, <3>2, <4>1
    <3> QED
      BY <1>2, <3>1, <3>3 DEF ListAt, sum2
  <2>5. CASE Writes(a, e, out, b)
    <3>1. /\ b.written = a.written + NameLen[n] + 1 /\ b.full = FALSE /\ a.full = FALSE
          /\ a.written + NameLen[n] + 1 < out /\ b.names = Append(a.names, n)
      BY <2>5 DEF Writes, NewName
    <3>2. a.written = sum /\ ToSet(a.names) = S /\ Len(a.names) = Cardinality(S)
      BY <3>1 DEF ListAt, sum
    <3>3. b.written = sum2 /\ b.written < out
      <4>1. NameLen[n] \in Nat /\ c = NameLen[n] + 1
        BY <1>3, <2>1 DEF len, c
      <4> QED
        BY <1>1, <1>5, <2>2, <3>1, <3>2, <4>1
    <3>4. ToSet(b.names) = S2 /\ Len(b.names) = Cardinality(S2)
      BY <1>4, <2>2, <3>1, <3>2
    <3> QED
      BY <1>2, <3>1, <3>3, <3>4 DEF ListAt, sum2
  <2> QED
    BY <1>2, <2>3, <2>4, <2>5
<1>9. CASE S2 = S /\ b # a
  <2>1. NewName(a, e)
    BY <1>2, <1>9 DEF Passes, TooLong, Writes
  <2>2. n \in S
    BY <1>9, <2>1 DEF NewName
  <2>3. Contains(a.names, n)
    BY <1>4, <2>1, <2>2 DEF NewName, ListAt
  <2> QED
    BY <2>1, <2>3 DEF NewName
<1> QED
  BY <1>7, <1>8, <1>9

(* The whole loop. *)
LEMMA ListingAt ==
    ASSUME NEW img, img.entries \in Nat, img.table \in Seq(Entry), Len(img.table) = img.entries,
           NEW out \in Nat, NEW f, \A x \in NamesOf(img, img.entries) : f[x] = NameLen[x] + 1
    PROVE  /\ IsFiniteSet(NamesOf(img, img.entries))
           /\ \A x \in NamesOf(img, img.entries) : f[x] \in Nat /\ f[x] > 0
           /\ ListAt(NamesOf(img, img.entries), f, out, Listing(img, out))
<1> DEFINE m == img.entries
           All == NamesOf(img, m)
<1>1. PICK h : ListRun(img, out, m, h) /\ Listing(img, out) = h[m]
  BY ListingIsRun
<1>2. /\ h[0] = ListStart
      /\ \A i \in 1 .. m : h[i] = ListStep(h[i - 1], img.table[i], out)
  <2>1. \A i \in 0 .. m : h[i] = IF i = 0 THEN ListStart ELSE ListStep(h[i - 1], img.table[i], out)
    BY <1>1, Zenon DEF ListRun
  <2>2. 0 \in 0 .. m /\ \A i \in 1 .. m : i \in 0 .. m /\ i # 0
    OBVIOUS
  <2> QED
    BY <2>1, <2>2
<1>3. \A i \in 1 .. m : img.table[i] \in Entry
  OBVIOUS
<1>4. ASSUME NEW i \in 1 .. m, PathLen[img.table[i].path] > 1
      PROVE  Top[img.table[i].path] \in All /\ NameLen[Top[img.table[i].path]] \in Nat
  <2> DEFINE p == img.table[i].path
  <2>1. p \in Paths
    BY <1>3 DEF Entry
  <2>2. NameLen[Top[p]] \in Nat
    BY <1>4, <2>1, RootfsAssumption
  <2> QED
    BY <1>4, <2>2 DEF NamesOf
<1>5. ASSUME NEW x \in All PROVE f[x] \in Nat /\ f[x] > 0
  <2>1. PICK i \in 1 .. m : PathLen[img.table[i].path] > 1 /\ x = Top[img.table[i].path]
    BY DEF NamesOf
  <2>2. NameLen[x] \in Nat
    BY <1>4, <2>1
  <2> HIDE DEF All
  <2>3. f[x] = NameLen[x] + 1
    BY DEF All
  <2> QED
    BY <2>2, <2>3
<1> DEFINE At(i) == IsFiniteSet(NamesOf(img, i)) /\ ListAt(NamesOf(img, i), f, out, h[i])
           W == {i \in Nat : i <= m => At(i)}
<1>6. 0 \in W
  <2> DEFINE S == NamesOf(img, 0)
  <2>1. S = {}
    BY DEF NamesOf
  <2> HIDE DEF S
  <2>2. IsFiniteSet(S) /\ Cardinality(S) = 0 /\ SumFunctionOnSet(f, S) = 0
    BY <2>1, FS_EmptySet, SumUnfold
  <2> DEFINE emp == ListStart.names
  <2>3. emp \in Seq(AllNames) /\ Len(emp) = 0 /\ ToSet(emp) = {}
    BY DEF ListStart, ToSet
  <2>4. ListStart \in AccRec /\ ListStart.full = FALSE /\ ListStart.written = 0
    BY DEF ListStart, AccRec
  <2> HIDE DEF emp
  <2>5. ListAt(S, f, out, ListStart)
    BY <2>1, <2>2, <2>3, <2>4 DEF ListAt, emp
  <2> QED
    BY <1>2, <2>2, <2>5 DEF S
<1>7. ASSUME NEW i \in Nat, i \in W PROVE i + 1 \in W
  <2> SUFFICES ASSUME i + 1 <= m PROVE At(i + 1)
    OBVIOUS
  <2> DEFINE k == i + 1
             e == img.table[k]
             S == NamesOf(img, i)
             S2 == NamesOf(img, k)
             n == Top[e.path]
  <2>1. i <= m /\ k \in 1 .. m /\ k - 1 = i
    OBVIOUS
  <2>2. At(i)
    BY <1>7, <2>1
  <2>3. e \in Entry /\ h[k] = ListStep(h[i], e, out)
    BY <1>2, <1>3, <2>1
  <2>4. S2 = IF PathLen[e.path] > 1 THEN S \cup {n} ELSE S
    <3>1. 1 .. k = 1 .. i \cup {k}
      OBVIOUS
    <3> HIDE DEF k
    <3> QED
      BY <3>1 DEF NamesOf
  <2>5. S \subseteq All
    <3>1. 1 .. i \subseteq 1 .. m
      BY <2>1
    <3> QED
      BY <3>1 DEF NamesOf
  <2>6. PathLen[e.path] > 1 => f[n] = NameLen[n] + 1
    BY <1>4, <2>1
  <2>7. IsFiniteSet(S) /\ ListAt(S, f, out, h[i]) /\ \A x \in S : f[x] \in Nat
    BY <1>5, <2>2, <2>5
  <2> HIDE DEF S, S2, e, k, n
  <2>8. IsFiniteSet(S2)
    BY <2>4, <2>7, FS_AddElement
  <2>9. ListAt(S2, f, out, h[k])
    BY <2>3, <2>4, <2>6, <2>7, ListAtStep DEF n
  <2> QED
    BY <2>8, <2>9 DEF S2, k
<1>8. Nat \subseteq W
  <2> HIDE DEF W
  <2> QED
    BY <1>6, <1>7, NatSetInduction
<1>9. At(m)
  <2>1. m \in W /\ m <= m
    BY <1>8
  <2> QED
    BY <2>1
<1> QED
  BY <1>1, <1>5, <1>9

(* What mantle_rootfs_list returns, writes and reads when it is not refused. *)
Listed(out, l) ==
    /\ ready /\ out # 0
    /\ reply'.reads = WalkEnd(state, state.entries)
    /\ reply'.names = l.names /\ reply'.written = l.written
    /\ reply'.ok \in BOOLEAN
    /\ (reply'.ok = TRUE) <=> (l.full = FALSE /\ l.written # 0 /\ l.written + 1 < out)
    /\ reply'.extent = l.written + (IF reply'.ok = TRUE THEN 1 ELSE 0)
ListRefused == reply'.ok = FALSE /\ reply'.reads = 0 /\ reply'.extent = 0

LEMMA ListEffect ==
    ASSUME NEW root \in BOOLEAN, NEW out \in Nat, List(root, out), Listing(state, out) \in AccRec
    PROVE  /\ reply'.op = "list" /\ reply'.arg = out /\ reply'.slice = NoSlice
           /\ UNCHANGED <<module, items, state>>
           /\ ListRefused \/ Listed(out, Listing(state, out))
<1>1. PICK l : l = Listing(state, out)
  OBVIOUS
<1>2. l.written \in Nat /\ l.full \in BOOLEAN
  BY <1>1 DEF AccRec
<1> DEFINE refused == ~ready \/ out = 0 \/ ~root
           okv == ~refused /\ ~l.full /\ l.written # 0 /\ l.written + 1 < out
           ext == l.written + (IF okv THEN 1 ELSE 0)
<1>3. /\ reply' = IF refused THEN Reply("list", out, FALSE, 0)
                  ELSE [Reply("list", out, okv, WalkEnd(state, state.entries))
                         EXCEPT !.names = l.names, !.written = l.written, !.extent = ext]
      /\ UNCHANGED <<module, items, state>>
  BY <1>1, Zenon DEF List
<1>4. CASE refused
  <2>1. reply' = Reply("list", out, FALSE, 0)
    BY <1>3, <1>4
  <2>2. /\ reply'.op = "list" /\ reply'.arg = out /\ reply'.slice = NoSlice
        /\ reply'.ok = FALSE /\ reply'.reads = 0 /\ reply'.extent = 0
    BY <2>1 DEF Reply
  <2> QED
    BY <1>3, <2>2 DEF ListRefused
<1>5. CASE ~refused
  <2>1. reply' = [Reply("list", out, okv, WalkEnd(state, state.entries))
                    EXCEPT !.names = l.names, !.written = l.written, !.extent = ext]
    BY <1>3, <1>5
  <2>2. okv \in BOOLEAN /\ (okv = TRUE <=> okv)
    BY Zenon
  <2>3. okv <=> (l.full = FALSE /\ l.written # 0 /\ l.written + 1 < out)
    <3>1. ~l.full <=> l.full = FALSE
      BY <1>2, Zenon
    <3> QED
      BY <1>5, <3>1
  <2>4. ready /\ out # 0
    BY <1>5
  <2>5. ext = l.written + (IF okv = TRUE THEN 1 ELSE 0)
    BY <2>2
  <2> HIDE DEF okv, ext
  <2> DEFINE r0 == Reply("list", out, okv, WalkEnd(state, state.entries))
             r1 == [r0 EXCEPT !.names = l.names]
             r2 == [r1 EXCEPT !.written = l.written]
  <2>6. reply' = [r2 EXCEPT !.extent = ext]
    BY <2>1
  <2>7. /\ r2.op = "list" /\ r2.arg = out /\ r2.slice = NoSlice /\ r2.ok = okv
        /\ r2.reads = WalkEnd(state, state.entries) /\ r2.names = l.names /\ r2.written = l.written
        /\ DOMAIN r2 = {"op", "arg", "ok", "reads", "slice", "names", "written", "extent"}
    BY DEF Reply
  <2> HIDE DEF r2
  <2>8. /\ reply'.op = "list" /\ reply'.arg = out /\ reply'.slice = NoSlice /\ reply'.ok = okv
        /\ reply'.reads = WalkEnd(state, state.entries) /\ reply'.names = l.names
        /\ reply'.written = l.written /\ reply'.extent = ext
    BY <2>6, <2>7
  <2>9. reply'.ok \in BOOLEAN /\ (reply'.ok = TRUE <=> okv)
    BY <2>2, <2>8, Zenon
  <2>10. (reply'.ok = TRUE) <=> (l.full = FALSE /\ l.written # 0 /\ l.written + 1 < out)
    BY <2>3, <2>9
  <2>11. reply'.extent = l.written + (IF reply'.ok = TRUE THEN 1 ELSE 0)
    BY <2>5, <2>8
  <2>12. Listed(out, l)
    BY <2>4, <2>8, <2>9, <2>10, <2>11 DEF Listed
  <2> QED
    BY <1>1, <1>3, <2>8, <2>12
<1> QED
  BY <1>4, <1>5

-----------------------------------------------------------------------------
(* The steps.                                                                 *)

LEMMA MountInvInit ==
    ASSUME Init
    PROVE  MountInv
<1>1. ~ready
  BY DEF Init, ready
<1>2. CASE items = <<>>
  <2>1. module \in Images
    BY <1>2 DEF Init
  <2>2. ImageLike(module)
    BY <2>1, RootfsAssumption DEF ImageLike, Image
  <2> QED
    BY <1>1, <1>2, <2>2 DEF MountInv
<1>3. CASE items # <<>>
  <2>1. items \in ItemLists /\ module = Packed(items)
    BY <1>3 DEF Init
  <2>2. items \in Seq(Item)
    BY <2>1, RootfsAssumption
  <2>3. ImageLike(module)
    BY <2>1, <2>2, PackedLike
  <2> QED
    BY <1>1, <2>1, <2>3 DEF MountInv
<1> QED
  BY <1>2, <1>3

(* mantle_rootfs_mount: what is mounted afterwards passed the checks. *)
LEMMA MountEffect ==
    ASSUME NEW ok \in BOOLEAN, Mount(ok)
    PROVE  /\ reply'.op = "mount" /\ reply'.ok \in BOOLEAN
           /\ (reply'.ok = TRUE) <=> Mountable(module)
           /\ state' = module \/ state' = Unmounted
           /\ state' # Unmounted => Mountable(module)
           /\ UNCHANGED <<module, items>>
<1>1. /\ ok = Mountable(module) /\ state' = (IF ok THEN module ELSE Unmounted)
      /\ reply' = Reply("mount", "none", ok, 0) /\ UNCHANGED <<module, items>>
  BY DEF Mount
<1>2. reply'.op = "mount" /\ reply'.ok = ok
  BY <1>1 DEF Reply
<1>3. (ok = TRUE) <=> Mountable(module)
  BY <1>1, Zenon
<1>4. (reply'.ok = TRUE) <=> Mountable(module)
  BY <1>2, <1>3
<1>5. reply'.ok \in BOOLEAN
  BY <1>2
<1> QED
  BY <1>1, <1>2, <1>3, <1>4, <1>5

(* No call changes the module, and only mount changes what is mounted. *)
LEMMA MountInvStep ==
    ASSUME MountInv, [Next]_vars
    PROVE  MountInv'
<1> USE DEF MountInv, ready
<1>1. ASSUME NEW ok \in BOOLEAN, Mount(ok) PROVE MountInv'
  BY <1>1, MountEffect
<1>2. ASSUME NEW path \in Paths, Open(path) PROVE MountInv'
  BY <1>2 DEF Open
<1>3. ASSUME NEW root \in BOOLEAN, NEW out \in OutSizes, List(root, out) PROVE MountInv'
  BY <1>3 DEF List
<1>4. CASE UNCHANGED vars
  BY <1>4 DEF vars
<1> QED
  BY <1>1, <1>2, <1>3, <1>4 DEF Next

(* What a listing of the mounted image ends with. *)
TopCost == [n \in TopNames |-> NameLen[n] + 1]
LEMMA ListingFacts ==
    ASSUME MountInv, NEW out \in Nat
    PROVE  /\ IsFiniteSet(TopNames) /\ \A x \in TopNames : TopCost[x] \in Nat /\ TopCost[x] > 0
           /\ ListAt(TopNames, TopCost, out, Listing(state, out))
<1>1. state.entries \in Nat /\ state.table \in Seq(Entry) /\ Len(state.table) = state.entries
  <2>1. CASE ready
    BY <2>1 DEF MountInv, ImageLike, Mountable
  <2>2. CASE ~ready
    <3>1. state.entries = 0 /\ state.table = <<>>
      BY <2>2 DEF ready, Unmounted
    <3>2. <<>> \in Seq(Entry) /\ Len(<<>>) = 0
      OBVIOUS
    <3> QED
      BY <3>1, <3>2
  <2> QED
    BY <2>1, <2>2
<1>2. TopNames = NamesOf(state, state.entries)
  BY DEF TopNames, NamesOf
<1>3. \A x \in NamesOf(state, state.entries) : TopCost[x] = NameLen[x] + 1
  BY <1>2 DEF TopCost
<1> QED
  BY <1>1, <1>2, <1>3, ListingAt

(* The steps that leave the reply and everything it is compared with alone. *)
LEMMA ReadsStep ==
    ASSUME MountInv, ReadsInsideModule, [Next]_vars
    PROVE  ReadsInsideModule'
<1>0. module.size \in Nat
  BY DEF MountInv, ImageLike
<1>1. ASSUME NEW ok \in BOOLEAN, Mount(ok) PROVE ReadsInsideModule'
  BY <1>1, MountEffect DEF ReadsInsideModule
<1>2. ASSUME NEW path \in Paths, Open(path) PROVE ReadsInsideModule'
  <2>1. PICK i : Opened(path, i)
    BY <1>2, OpenEffect
  <2>2. module' = module /\ i \in Nat /\ i <= state.entries /\ reply'.reads = WalkEnd(state, i)
    BY <2>1 DEF Opened
  <2>3. reply'.reads <= module'.size
    BY <2>2, WalkInside
  <2>4. ASSUME reply'.ok = TRUE PROVE reply'.slice.offset + reply'.slice.size <= module'.size
    <3>1. /\ ready /\ i \in 1 .. state.entries
          /\ reply'.slice.offset = state.table[i].offset /\ reply'.slice.size = state.table[i].size
      BY <2>1, <2>4 DEF Opened
    <3> QED
      BY <2>2, <3>1, MountedEntry
  <2>5. reply'.ok \in BOOLEAN
    BY <2>1 DEF Opened
  <2> QED
    BY <2>3, <2>4, <2>5 DEF ReadsInsideModule
<1>3. ASSUME NEW root \in BOOLEAN, NEW out \in OutSizes, List(root, out) PROVE ReadsInsideModule'
  <2>1. out \in Nat
    BY RootfsAssumption
  <2>2. Listing(state, out) \in AccRec
    BY <2>1, ListingFacts DEF ListAt
  <2>3. /\ reply'.slice = NoSlice /\ module' = module
        /\ ListRefused \/ Listed(out, Listing(state, out))
    BY <1>3, <2>1, <2>2, ListEffect
  <2>4. reply'.slice.offset + reply'.slice.size <= module'.size
    BY <1>0, <2>3 DEF NoSlice
  <2>5. state.entries \in Nat /\ state.entries <= state.entries
    BY DEF MountInv, ImageLike, ready, Unmounted
  <2>6. reply'.reads <= module'.size
    <3>1. CASE ListRefused
      BY <1>0, <2>3, <3>1 DEF ListRefused
    <3>2. CASE Listed(out, Listing(state, out))
      <4>1. reply'.reads = WalkEnd(state, state.entries)
        BY <3>2 DEF Listed
      <4> QED
        BY <2>3, <2>5, <4>1, WalkInside
    <3> QED
      BY <2>3, <3>1, <3>2
  <2> QED
    BY <2>4, <2>6 DEF ReadsInsideModule
<1>4. CASE UNCHANGED vars
  BY <1>4 DEF vars, ReadsInsideModule
<1> QED
  BY <1>1, <1>2, <1>3, <1>4 DEF Next

(* readdir's buffer. *)
LEMMA BufferStep ==
    ASSUME MountInv, ListInsideBuffer, [Next]_vars
    PROVE  ListInsideBuffer'
<1>1. ASSUME NEW ok \in BOOLEAN, Mount(ok) PROVE ListInsideBuffer'
  BY <1>1, MountEffect DEF ListInsideBuffer
<1>2. ASSUME NEW path \in Paths, Open(path) PROVE ListInsideBuffer'
  <2>1. PICK i : Opened(path, i)
    BY <1>2, OpenEffect
  <2> QED
    BY <2>1 DEF Opened, ListInsideBuffer
<1>3. ASSUME NEW root \in BOOLEAN, NEW out \in OutSizes, List(root, out) PROVE ListInsideBuffer'
  <2>1. out \in Nat
    BY RootfsAssumption
  <2>2. PICK l : l = Listing(state, out)
    OBVIOUS
  <2>3. l \in AccRec /\ (l.written = 0 \/ l.written < out)
    BY <2>1, <2>2, ListingFacts DEF ListAt
  <2>4. reply'.arg = out /\ (ListRefused \/ Listed(out, l))
    BY <1>3, <2>1, <2>2, <2>3, ListEffect
  <2>5. l.written \in Nat
    BY <2>3 DEF AccRec
  <2>6. CASE ListRefused
    BY <2>1, <2>4, <2>6 DEF ListRefused, ListInsideBuffer
  <2>7. CASE Listed(out, l)
    <3>1. /\ reply'.extent = l.written + (IF reply'.ok = TRUE THEN 1 ELSE 0)
          /\ reply'.ok = TRUE => l.written + 1 < out
      BY <2>7 DEF Listed
    <3>2. reply'.extent <= out
      BY <2>1, <2>3, <2>5, <3>1
    <3> QED
      BY <2>4, <3>2 DEF ListInsideBuffer
  <2> QED
    BY <2>4, <2>6, <2>7
<1>4. CASE UNCHANGED vars
  BY <1>4 DEF vars, ListInsideBuffer
<1> QED
  BY <1>1, <1>2, <1>3, <1>4 DEF Next

(* The names and their separators take ListingSize bytes: none without names. *)
LEMMA ListingSizeFacts ==
    ASSUME MountInv
    PROVE  /\ ListingSize = SumFunctionOnSet(TopCost, TopNames) /\ ListingSize \in Nat
           /\ ListingSize # 0 <=> TopNames # {}
<1> DEFINE S == TopNames
           f == TopCost
           sum == SumFunctionOnSet(f, S)
<1>1. ListingSize = sum
  <2>1. DOMAIN f = S
    BY DEF TopCost
  <2>2. ListingSize = SumFunction(f)
    BY DEF ListingSize, TopCost
  <2>3. SumFunction(f) = SumFunctionOnSet(f, DOMAIN f)
    BY DEF SumFunction
  <2> QED
    BY <2>1, <2>2, <2>3
<1>2. IsFiniteSet(S) /\ \A x \in S : f[x] \in Nat /\ f[x] > 0
  <2>1. 0 \in Nat
    OBVIOUS
  <2> QED
    BY <2>1, ListingFacts
<1> HIDE DEF f, S
<1>3. /\ sum \in Nat /\ (S = {} => sum = 0)
      /\ S # {} => sum = f[Chosen(S)] + SumFunctionOnSet(f, S \ {Chosen(S)})
  BY <1>2, SumUnfold
<1>4. ASSUME S # {} PROVE sum # 0
  <2>1. Chosen(S) \in S /\ IsFiniteSet(S \ {Chosen(S)})
    BY <1>2, <1>4, Smaller
  <2> DEFINE R == S \ {Chosen(S)}
             rest == SumFunctionOnSet(f, R)
             c == f[Chosen(S)]
  <2>2. \A x \in R : f[x] \in Nat
    BY <1>2
  <2>3. rest \in Nat
    BY <2>1, <2>2, SumUnfold
  <2>4. c \in Nat /\ c > 0 /\ sum = c + rest
    BY <1>2, <1>3, <1>4, <2>1
  <2> HIDE DEF c, rest, sum
  <2> QED
    BY <2>3, <2>4
<1> QED
  BY <1>1, <1>3, <1>4 DEF f, S

(* A listing is complete, or does not fit. *)
LEMMA ExactStep ==
    ASSUME MountInv, ListExact, [Next]_vars
    PROVE  ListExact'
<1>1. ASSUME NEW ok \in BOOLEAN, Mount(ok) PROVE ListExact'
  <2>1. reply'.op = "mount"
    BY <1>1, MountEffect
  <2> QED
    BY <2>1 DEF ListExact
<1>2. ASSUME NEW path \in Paths, Open(path) PROVE ListExact'
  <2>1. PICK i : Opened(path, i)
    BY <1>2, OpenEffect
  <2>2. reply'.op = "open"
    BY <2>1 DEF Opened
  <2> QED
    BY <2>2 DEF ListExact
<1>3. ASSUME NEW root \in BOOLEAN, NEW out \in OutSizes, List(root, out) PROVE ListExact'
  <2>1. out \in Nat
    BY RootfsAssumption
  <2>2. PICK l : l = Listing(state, out)
    OBVIOUS
  <2>3. ListAt(TopNames, TopCost, out, l)
    BY <2>1, <2>2, ListingFacts
  <2>4. l \in AccRec
    BY <2>3 DEF ListAt
  <2>5. reply'.arg = out /\ state' = state /\ (ListRefused \/ Listed(out, l))
    BY <1>3, <2>1, <2>2, <2>4, ListEffect
  <2>6. TopNames' = TopNames /\ ListingSize' = ListingSize
    BY <2>5 DEF TopNames, ListingSize
  <2>7. CASE ListRefused
    BY <2>7 DEF ListRefused, ListExact
  <2>8. CASE Listed(out, l)
    <3> DEFINE sum == ListingSize
               w == l.written
    <3>1. w \in Nat /\ (l.full = TRUE \/ l.full = FALSE)
      BY <2>4 DEF AccRec
    <3>2. /\ l.full = FALSE => ToSet(l.names) = TopNames /\ Len(l.names) = Cardinality(TopNames) /\ w = sum
          /\ l.full = TRUE => sum >= out
      BY <2>3, ListingSizeFacts DEF ListAt
    <3>3. sum \in Nat /\ (sum # 0 <=> TopNames # {})
      BY ListingSizeFacts
    <3>4. /\ reply'.ok \in BOOLEAN
          /\ (reply'.ok = TRUE) <=> (l.full = FALSE /\ w # 0 /\ w + 1 < out)
          /\ reply'.names = l.names /\ reply'.written = w
      BY <2>8 DEF Listed
    <3> HIDE DEF sum, w
    <3>5. (reply'.ok = TRUE) <=> (TopNames # {} /\ sum + 1 < out)
      <4>1. CASE l.full = FALSE
        BY <3>2, <3>3, <3>4, <4>1
      <4>2. CASE l.full = TRUE
        BY <2>1, <3>2, <3>3, <3>4, <4>2
      <4> QED
        BY <3>1, <4>1, <4>2
    <3>6. ASSUME reply'.ok = TRUE
          PROVE  ToSet(reply'.names) = TopNames /\ Len(reply'.names) = Cardinality(TopNames) /\ reply'.written = sum
      BY <3>2, <3>4, <3>6
    <3>7. reply'.ok <=> reply'.ok = TRUE
      BY <3>4, Zenon
    <3>8. /\ reply'.ok <=> TopNames' # {} /\ ListingSize' + 1 < reply'.arg
          /\ reply'.ok => /\ ToSet(reply'.names) = TopNames'
                          /\ Len(reply'.names) = Cardinality(TopNames')
                          /\ reply'.written = ListingSize'
      BY <2>5, <2>6, <3>5, <3>6, <3>7 DEF sum
    <3> QED
      BY <3>8 DEF ListExact
  <2> QED
    BY <2>5, <2>7, <2>8
<1>4. CASE UNCHANGED vars
  <2>1. reply' = reply /\ state' = state
    BY <1>4 DEF vars
  <2>2. TopNames' = TopNames /\ ListingSize' = ListingSize
    BY <2>1 DEF TopNames, ListingSize
  <2> QED
    BY <2>1, <2>2 DEF ListExact
<1> QED
  BY <1>1, <1>2, <1>3, <1>4 DEF Next

(* A packed module mounts and gives back what was packed. *)
LEMMA PackedStep ==
    ASSUME MountInv, PackedRoundTrip, [Next]_vars
    PROVE  PackedRoundTrip'
<1> DEFINE Limits == /\ items # <<>> /\ Len(items) <= MaxEntries
                     /\ \A i \in DOMAIN items : PathLen[items[i].path] \in 1 .. MaxPathLen
<1>1. ASSUME NEW ok \in BOOLEAN, Mount(ok) PROVE PackedRoundTrip'
  <2>1. /\ reply'.op = "mount" /\ reply'.ok \in BOOLEAN /\ (reply'.ok = TRUE <=> Mountable(module))
        /\ items' = items
    BY <1>1, MountEffect
  <2>2. ASSUME Limits PROVE Mountable(module)
    <3>1. items \in Seq(Item) /\ module = Packed(items)
      BY <2>2, RootfsAssumption DEF MountInv
    <3> QED
      BY <2>2, <3>1, PackedMounts
  <2>3. Limits => reply'.ok
    BY <2>1, <2>2, Zenon
  <2> QED
    BY <2>1, <2>3 DEF PackedRoundTrip
<1>2. ASSUME NEW path \in Paths, Open(path) PROVE PackedRoundTrip'
  <2>1. PICK k : Opened(path, k)
    BY <1>2, OpenEffect
  <2>2. /\ reply'.op = "open" /\ reply'.arg = path /\ reply'.ok \in BOOLEAN
        /\ (reply'.ok = TRUE) <=> (ready /\ Matches(path) # {})
        /\ module' = module /\ items' = items /\ state' = state
    BY <2>1 DEF Opened
  <2> DEFINE S == {i \in DOMAIN items : items[i].path = path}
             Back(j) == /\ reply'.slice.size = items[j].size
                        /\ reply'.slice.offset + reply'.slice.size
                             + SumFunctionOnSet(FileSizes(items), j + 1 .. Len(items)) = module.size
  <2>3. ASSUME Limits, ready PROVE (reply'.ok = TRUE <=> S # {}) /\ (reply'.ok = TRUE => Back(Min(S)))
    <3>1. items \in Seq(Item) /\ module = Packed(items) /\ state = module
      BY <2>3, RootfsAssumption DEF MountInv
    <3>2. state.entries = Len(items) /\ DOMAIN items = 1 .. Len(items)
      <4>1. Packed(items).entries = Len(items)
        BY <3>1, PackedLike
      <4>2. DOMAIN items = 1 .. Len(items)
        BY <3>1
      <4> QED
        BY <3>1, <4>1, <4>2
    <3>3. ASSUME NEW i \in 1 .. Len(items)
          PROVE  /\ state.table[i].path = items[i].path /\ state.table[i].size = items[i].size
                 /\ state.table[i].offset + state.table[i].size
                      + SumFunctionOnSet(FileSizes(items), i + 1 .. Len(items)) = module.size
      BY <3>1, PackedFacts
    <3>4. Matches(path) = S
      <4>1. Matches(path) = {i \in 1 .. Len(items) : state.table[i].path = path}
        BY <3>2 DEF Matches
      <4>2. S = {i \in 1 .. Len(items) : items[i].path = path}
        BY <3>2
      <4>3. \A i \in 1 .. Len(items) : state.table[i].path = items[i].path
        BY <3>3
      <4> QED
        BY <4>1, <4>2, <4>3
    <3>5. ASSUME reply'.ok = TRUE PROVE Back(Min(S))
      <4>1. /\ k = Min(Matches(path)) /\ k \in 1 .. state.entries
            /\ reply'.slice.offset = state.table[k].offset /\ reply'.slice.size = state.table[k].size
        BY <2>1, <3>5 DEF Opened
      <4>2. k = Min(S) /\ k \in 1 .. Len(items)
        BY <3>2, <3>4, <4>1
      <4>3. Back(k)
        BY <3>3, <4>1, <4>2
      <4> HIDE DEF Back
      <4> QED
        BY <4>2, <4>3
    <3>6. (reply'.ok = TRUE) <=> S # {}
      BY <2>2, <2>3, <3>4
    <3> QED
      BY <3>5, <3>6
  <2>4. ready' <=> ready
    BY <2>2 DEF ready
  <2>5. reply'.ok <=> reply'.ok = TRUE
    BY <2>2, Zenon
  <2>6. Limits /\ ready' => (reply'.ok <=> S # {}) /\ (reply'.ok => Back(Min(S)))
    BY <2>3, <2>4, <2>5
  <2> QED
    BY <2>2, <2>6 DEF PackedRoundTrip
<1>3. ASSUME NEW root \in BOOLEAN, NEW out \in OutSizes, List(root, out) PROVE PackedRoundTrip'
  <2>1. out \in Nat
    BY RootfsAssumption
  <2>2. Listing(state, out) \in AccRec
    BY <2>1, ListingFacts DEF ListAt
  <2>3. reply'.op = "list"
    BY <1>3, <2>1, <2>2, ListEffect
  <2> QED
    BY <2>3 DEF PackedRoundTrip
<1>4. CASE UNCHANGED vars
  <2>1. reply' = reply /\ state' = state /\ items' = items /\ module' = module
    BY <1>4 DEF vars
  <2>2. ready' <=> ready
    BY <2>1 DEF ready
  <2> QED
    BY <2>1, <2>2 DEF PackedRoundTrip
<1> QED
  BY <1>1, <1>2, <1>3, <1>4 DEF Next

-----------------------------------------------------------------------------
(* The theorems.                                                              *)

(* Whatever module the boot loader hands over, what is mounted passed every   *)
(* check of mantle_rootfs_mount and is still that module.                     *)
THEOREM MountedChecked == Spec => []MountInv
<1>1. Init => MountInv
  BY MountInvInit
<1>2. MountInv /\ [Next]_vars => MountInv'
  BY MountInvStep
<1> QED
  BY <1>1, <1>2, PTL DEF Spec

(* The reply before the first call. *)
LEMMA FirstReply ==
    ASSUME Init
    PROVE  reply.op = "boot"
  BY DEF Init, Reply

(* Open and list read no byte outside the module, and the slice open hands    *)
(* out lies inside it, although neither checks a bound.                       *)
THEOREM ReadsInsideAlways == Spec => []ReadsInsideModule
<1>1. Init => ReadsInsideModule
  BY FirstReply DEF ReadsInsideModule
<1>2. MountInv /\ ReadsInsideModule /\ [Next]_vars => ReadsInsideModule'
  BY ReadsStep
<1> QED
  BY <1>1, <1>2, MountedChecked, PTL DEF Spec

(* mantle_rootfs_list writes at most the bytes of the buffer it was given.    *)
THEOREM ListInsideAlways == Spec => []ListInsideBuffer
<1>1. Init => ListInsideBuffer
  BY FirstReply DEF ListInsideBuffer
<1>2. MountInv /\ ListInsideBuffer /\ [Next]_vars => ListInsideBuffer'
  BY BufferStep
<1> QED
  BY <1>1, <1>2, MountedChecked, PTL DEF Spec

(* mantle_rootfs_list succeeds exactly when there is a name and the names fit, *)
(* and then it holds each top-level name once.                                *)
THEOREM ListExactAlways == Spec => []ListExact
<1>1. Init => ListExact
  BY FirstReply DEF ListExact
<1>2. MountInv /\ ListExact /\ [Next]_vars => ListExact'
  BY ExactStep
<1> QED
  BY <1>1, <1>2, MountedChecked, PTL DEF Spec

(* What build-rootfs.py packs within the limits of the kernel mounts, and open *)
(* gives back the file packed under each path.                                *)
THEOREM PackedRoundTripAlways == Spec => []PackedRoundTrip
<1>1. Init => PackedRoundTrip
  BY FirstReply DEF PackedRoundTrip
<1>2. MountInv /\ PackedRoundTrip /\ [Next]_vars => PackedRoundTrip'
  BY PackedStep
<1> QED
  BY <1>1, <1>2, MountedChecked, PTL DEF Spec
=============================================================================
