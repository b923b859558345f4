---------------------------- MODULE CommonLemmas ----------------------------
(***************************************************************************)
(* What several proofs need: of the naturals in the place of an induction, *)
(* first and last places of a set, the argument by the least               *)
(* counterexample, and that a function defined step by step exists; and    *)
(* what is appended to sequences whose elements have no type.              *)
(***************************************************************************)
EXTENDS Integers, Sequences, FiniteSetsExt, WellFoundedInduction, NaturalsInduction, TLAPS

(* The naturals are well-founded.                                          *)
Descending == {p \in Nat \X Nat : p[1] < p[2]}

LEMMA DescentEnds == IsWellFoundedOn(Descending, Nat)
<1>1. OpToRel(<, Nat) = Descending
  BY DEF OpToRel, Descending
<1>2. IsWellFoundedOn(OpToRel(<, Nat), Nat)
  BY NatLessThanWellFounded
<1>. QED  BY <1>1, <1>2

(* A set of places has a first, and a last if it is bounded.               *)
LEMMA MinOfPlaces ==
    ASSUME NEW S, S \subseteq Nat, S # {}
    PROVE  Min(S) \in S /\ \A y \in S : Min(S) <= y
<1>1. PICK x \in S : \A y \in S : ~ (<<y, x>> \in Descending)
  BY DescentEnds, WFMin
<1>2. ASSUME NEW y \in S PROVE x <= y
  <2>1. x \in Nat /\ y \in Nat /\ ~ (<<y, x>> \in Descending)
    BY <1>1
  <2>. QED  BY <2>1 DEF Descending
<1>. QED  BY <1>2 DEF Min

LEMMA MaxOfPlaces ==
    ASSUME NEW N \in Nat, NEW S, S \subseteq 0 .. N, S # {}
    PROVE  Max(S) \in S /\ \A y \in S : Max(S) >= y
<1> DEFINE T == {N - x : x \in S}
<1>1. T \subseteq Nat
  <2>1. ASSUME NEW x \in S PROVE N - x \in Nat
    OBVIOUS
  <2>. QED  BY <2>1
<1>2. T # {}
  OBVIOUS
<1>3. Min(T) \in T /\ \A t \in T : Min(T) <= t
  <2> HIDE DEF T
  <2>. QED  BY <1>1, <1>2, MinOfPlaces
<1>4. PICK x \in S : Min(T) = N - x
  BY <1>3
<1>5. ASSUME NEW y \in S PROVE x >= y
  <2>1. N - y \in T
    OBVIOUS
  <2>2. N - x <= N - y
    <3> HIDE DEF T
    <3>. QED  BY <1>3, <1>4, <2>1
  <2>3. x \in Int /\ y \in Int
    OBVIOUS
  <2>. QED  BY <2>2, <2>3
<1>. QED  BY <1>5 DEF Max

-----------------------------------------------------------------------------
(* An argument by the least counterexample, in the place of an induction.  *)
LEMMA LeastCounterexample ==
    ASSUME NEW S, S \subseteq Nat, 0 \notin S, \A n \in Nat : n + 1 \in S => n \in S
    PROVE  S = {}
<1> SUFFICES ASSUME S # {} PROVE FALSE
  OBVIOUS
<1>1. PICK x \in S : \A y \in S : ~ (<<y, x>> \in Descending)
  BY DescentEnds, WFMin
<1>2. x \in Nat /\ x # 0 /\ x - 1 \in Nat /\ (x - 1) + 1 = x
  OBVIOUS
<1>3. x - 1 \in S
  BY <1>2
<1>4. <<x - 1, x>> \in Descending
  BY <1>2 DEF Descending
<1>. QED  BY <1>1, <1>3, <1>4

LEMMA StaysIn ==
    ASSUME NEW T, NEW N \in Nat, NEW u, u[0] \in T,
           \A n \in 1 .. N : u[n - 1] \in T => u[n] \in T
    PROVE  \A n \in 0 .. N : u[n] \in T
<1> DEFINE S == {m \in Nat : m <= N /\ u[m] \notin T}
<1>1. 0 \notin S /\ S \subseteq Nat
  OBVIOUS
<1>2. ASSUME NEW n \in Nat, n + 1 \in S PROVE n \in S
  <2>1. n + 1 \in 1 .. N /\ n <= N /\ u[n + 1] \notin T /\ n + 1 - 1 = n
    BY <1>2
  <2>. QED  BY <2>1
<1>3. S = {}
  <2> HIDE DEF S
  <2>. QED  BY <1>1, <1>2, LeastCounterexample
<1>. QED  BY <1>3

(* A function that is defined step by step exists.                         *)
Stepwise(T, z, G, m, f) ==
    f \in [0 .. m -> T] /\ f[0] = z /\ \A n \in 1 .. m : f[n] = G[n][f[n - 1]]

LEMMA StepsExist ==
    ASSUME NEW T, NEW z \in T, NEW N \in Nat, NEW G \in [1 .. N -> [T -> T]]
    PROVE  \E f : Stepwise(T, z, G, N, f)
<1> DEFINE Steps(m, f) == Stepwise(T, z, G, m, f)
<1> USE DEF Stepwise
<1>1. ASSUME NEW m \in Nat, m + 1 <= N, NEW f, Steps(m, f)
      PROVE  \E g : Steps(m + 1, g)
  <2> DEFINE e == G[m + 1][f[m]]
  <2> DEFINE g == [n \in 0 .. m + 1 |-> IF n = m + 1 THEN e ELSE f[n]]
  <2>1. e \in T
    <3>1. f[m] \in T /\ m + 1 \in 1 .. N
      BY <1>1
    <3>. QED  BY <3>1
  <2> HIDE DEF e
  <2>2. g \in [0 .. m + 1 -> T] /\ g[0] = z /\ g[m + 1] = e
    BY <1>1, <2>1
  <2>3. \A n \in 0 .. m : g[n] = f[n]
    BY <1>1
  <2> HIDE DEF g
  <2>4. ASSUME NEW n \in 1 .. m + 1 PROVE g[n] = G[n][g[n - 1]]
    <3>1. CASE n = m + 1
      <4>1. g[n - 1] = f[m]
        BY <1>1, <2>3, <3>1
      <4>. QED  BY <2>2, <3>1, <4>1 DEF e
    <3>2. CASE n \in 1 .. m
      BY <1>1, <2>3, <3>2
    <3>. QED  BY <1>1, <3>1, <3>2
  <2>. QED  BY <2>2, <2>4
<1> DEFINE S == {m \in Nat : m <= N /\ ~ \E f : Steps(m, f)}
<1>2. 0 \notin S /\ S \subseteq Nat
  <2>1. Steps(0, [n \in 0 .. 0 |-> z])
    OBVIOUS
  <2>. QED  BY <2>1
<1>3. \A n \in Nat : n + 1 \in S => n \in S
  BY <1>1
<1>4. S = {}
  <2> HIDE DEF S
  <2>. QED  BY <1>2, <1>3, LeastCounterexample
<1> DEFINE Defined(m) == \E f : Steps(m, f)
<1>5. Defined(N)
  <2>1. \A m \in Nat : m <= N => Defined(m)
    BY <1>4
  <2> HIDE DEF Defined
  <2>. QED  BY <2>1
<1>. QED  BY <1>5

-----------------------------------------------------------------------------
(* Sequences whose elements are of any type.                               *)
OwnSeq(s) == s \in Seq({s[k] : k \in DOMAIN s})

LEMMA OwnFacts ==
    ASSUME NEW s, OwnSeq(s)
    PROVE  Len(s) \in Nat /\ DOMAIN s = 1 .. Len(s)
BY DEF OwnSeq

LEMMA AppendOwn ==
    ASSUME NEW s, OwnSeq(s), NEW x
    PROVE  OwnSeq(Append(s, x)) /\ Len(Append(s, x)) = Len(s) + 1
<1> DEFINE S == {s[k] : k \in DOMAIN s} \cup {x}
           t == Append(s, x)
<1>1. s \in Seq(S) /\ Len(s) \in Nat
  BY DEF OwnSeq
<1>2. t \in Seq(S) /\ Len(t) = Len(s) + 1
  BY <1>1
<1>3. t \in Seq({t[k] : k \in DOMAIN t})
  <2> HIDE DEF t
  <2>1. DOMAIN t = 1 .. Len(t) /\ Len(t) \in Nat /\ t = [k \in 1 .. Len(t) |-> t[k]]
    BY <1>1, <1>2
  <2>2. t \in [1 .. Len(t) -> {t[k] : k \in DOMAIN t}]
    BY <2>1
  <2> QED BY <2>1, <2>2
<1> QED BY <1>2, <1>3 DEF OwnSeq

LEMMA AppendIs ==
    ASSUME NEW s, OwnSeq(s), NEW x
    PROVE  /\ DOMAIN Append(s, x) = 1 .. Len(s) + 1
           /\ \A k \in 1 .. Len(s) + 1 : Append(s, x)[k] = IF k <= Len(s) THEN s[k] ELSE x
<1> DEFINE S == {s[k] : k \in DOMAIN s} \cup {x}
<1>1. s \in Seq(S) /\ x \in S
  BY DEF OwnSeq
<1> HIDE DEF S
<1> QED BY <1>1

LEMMA ConcatIs ==
    ASSUME NEW s, OwnSeq(s), NEW t, OwnSeq(t)
    PROVE  /\ OwnSeq(s \o t) /\ Len(s \o t) = Len(s) + Len(t)
           /\ \A k \in 1 .. Len(s) + Len(t) : (s \o t)[k] = IF k <= Len(s) THEN s[k] ELSE t[k - Len(s)]
<1> DEFINE S == {s[k] : k \in DOMAIN s} \cup {t[k] : k \in DOMAIN t}
           u == s \o t
<1>1. s \in Seq(S) /\ t \in Seq(S)
  BY DEF OwnSeq
<1>2. /\ u \in Seq(S) /\ Len(u) = Len(s) + Len(t)
      /\ \A k \in 1 .. Len(s) + Len(t) : u[k] = IF k <= Len(s) THEN s[k] ELSE t[k - Len(s)]
  <2> HIDE DEF S
  <2> QED BY <1>1
<1>3. u \in Seq({u[k] : k \in DOMAIN u})
  <2> HIDE DEF u
  <2>1. DOMAIN u = 1 .. Len(u) /\ Len(u) \in Nat /\ u = [k \in 1 .. Len(u) |-> u[k]]
    BY <1>2
  <2>2. u \in [1 .. Len(u) -> {u[k] : k \in DOMAIN u}]
    BY <2>1
  <2> QED BY <2>1, <2>2
<1> QED BY <1>2, <1>3 DEF OwnSeq

LEMMA NoneBefore == ASSUME NEW s, OwnSeq(s) PROVE s \o <<>> = s /\ <<>> \o s = s
BY DEF OwnSeq

LEMMA LenByDomain ==
    ASSUME NEW s, NEW n \in Nat, DOMAIN s = 1 .. n, s = [k \in 1 .. n |-> s[k]]
    PROVE  Len(s) = n
<1>1. s \in [1 .. n -> {s[k] : k \in 1 .. n}]
  OBVIOUS
<1>2. s \in Seq({s[k] : k \in 1 .. n})
  BY <1>1
<1> QED BY <1>2

(* A slice that grows by the next element.                                 *)
LEMMA SubSeqGrows ==
    ASSUME NEW S, NEW c \in Seq(S), NEW a \in Nat \ {0}, NEW b \in 1 .. Len(c), a <= b
    PROVE  Append(SubSeq(c, a, b - 1), c[b]) = SubSeq(c, a, b)
OBVIOUS
=============================================================================
