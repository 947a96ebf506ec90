----------------------------- MODULE TotalsProofs -----------------------------
(***************************************************************************)
(* Facts about sums of sequences, and the two on natural numbers that they *)
(* rest on.  The induction is over a set of numbers, not a formula.        *)
(***************************************************************************)
EXTENDS Totals, Integers, TLAPS, WellFoundedInduction, SequenceTheorems

LEMMA Least ==
  ASSUME NEW S \in SUBSET Nat, S # {}
  PROVE  \E n \in S : \A m \in S : n <= m
<1>1. PICK n \in S : \A m \in S : <<m, n>> \notin OpToRel(<, Nat)
  BY NatLessThanWellFounded, WFMin
<1>2. \A m \in S : ~(m < n)
  BY <1>1 DEF OpToRel
<1> QED
  BY <1>2

LEMMA Induct ==
  ASSUME NEW S, 0 \in S, \A n \in Nat : n \in S => n + 1 \in S
  PROVE  Nat \subseteq S
<1> SUFFICES ASSUME ~(Nat \subseteq S) PROVE FALSE
  OBVIOUS
<1> DEFINE T == {n \in Nat : n \notin S}
<1>1. T \in SUBSET Nat /\ T # {}
  OBVIOUS
<1>2. PICK n \in T : \A m \in T : n <= m
  <2> HIDE DEF T
  <2> QED
    BY <1>1, Least
<1>3. n - 1 \in Nat
  BY <1>2
<1>4. n - 1 \in S
  BY <1>2, <1>3
<1> QED
  BY <1>2, <1>3, <1>4

-----------------------------------------------------------------------------
\* t adds up the first n numbers of w.
AddsUp(t, w, n) ==
  /\ t \in [0 .. n -> Nat]
  /\ t[0] = 0
  /\ \A k \in 1 .. n : t[k] = t[k - 1] + w[k]

LEMMA OneMore ==
  ASSUME NEW w \in Seq(Nat), NEW n \in Nat, n < Len(w), NEW t, AddsUp(t, w, n)
  PROVE  \E u : AddsUp(u, w, n + 1)
<1> DEFINE u == [k \in 0 .. n + 1 |-> IF k <= n THEN t[k] ELSE t[n] + w[n + 1]]
<1>1. w[n + 1] \in Nat
  BY ElementOfSeq
<1>2. u \in [0 .. n + 1 -> Nat] /\ u[0] = 0
  BY <1>1 DEF AddsUp
<1>3. ASSUME NEW k \in 1 .. n + 1 PROVE u[k] = u[k - 1] + w[k]
  <2>1. k \in 0 .. n + 1 /\ k - 1 \in 0 .. n + 1 /\ k - 1 <= n
    OBVIOUS
  <2>2. u[k - 1] = t[k - 1]
    BY <2>1
  <2>3. CASE k <= n
    <3>1. k \in 1 .. n
      BY <2>3
    <3>2. u[k] = t[k] /\ t[k] = t[k - 1] + w[k]
      BY <2>1, <2>3, <3>1 DEF AddsUp
    <3> QED
      BY <2>2, <3>2
  <2>4. CASE k = n + 1
    <3>1. u[k] = t[n] + w[n + 1] /\ k - 1 = n
      BY <2>1, <2>4
    <3> QED
      BY <2>2, <2>4, <3>1
  <2> QED
    BY <2>3, <2>4
<1> QED
  BY <1>2, <1>3 DEF AddsUp

LEMMA SumsExist == ASSUME NEW w \in Seq(Nat) PROVE \E t : AddsUp(t, w, Len(w))
<1> DEFINE S == {n \in Nat : n <= Len(w) => \E t : AddsUp(t, w, n)}
<1>0. Len(w) \in Nat
  OBVIOUS
<1>1. 0 \in S
  <2>1. AddsUp([k \in 0 .. 0 |-> 0], w, 0)
    BY DEF AddsUp
  <2> QED
    BY <2>1
<1>2. ASSUME NEW n \in Nat, n \in S PROVE n + 1 \in S
  <2> SUFFICES ASSUME n + 1 <= Len(w) PROVE \E u : AddsUp(u, w, n + 1)
    OBVIOUS
  <2>1. n < Len(w) /\ n <= Len(w)
    BY <1>0
  <2>2. PICK t : AddsUp(t, w, n)
    BY <1>2, <2>1
  <2> QED
    BY <2>1, <2>2, OneMore
<1> HIDE DEF S
<1>3. Nat \subseteq S
  BY <1>1, <1>2, Induct
<1>4. Len(w) \in S
  BY <1>0, <1>3
<1> QED
  BY <1>0, <1>4 DEF S

LEMMA SumsAgree ==
  ASSUME NEW w, NEW v, NEW m \in Nat, NEW n \in Nat, n <= m, NEW t, NEW u,
         AddsUp(t, w, m), AddsUp(u, v, n), \A k \in 1 .. n : w[k] = v[k]
  PROVE  t[n] = u[n]
<1> DEFINE S == {k \in Nat : k <= n => t[k] = u[k]}
<1>1. 0 \in S
  BY DEF AddsUp
<1>2. ASSUME NEW k \in Nat, k \in S PROVE k + 1 \in S
  <2> SUFFICES ASSUME k + 1 <= n PROVE t[k + 1] = u[k + 1]
    OBVIOUS
  <2>1. k + 1 \in 1 .. n /\ k + 1 \in 1 .. m /\ (k + 1) - 1 = k /\ k <= n
    OBVIOUS
  <2>2. t[k + 1] = t[k] + w[k + 1] /\ u[k + 1] = u[k] + v[k + 1]
    BY <2>1 DEF AddsUp
  <2> QED
    BY <1>2, <2>1, <2>2
<1> HIDE DEF S
<1>3. Nat \subseteq S
  BY <1>1, <1>2, Induct
<1>4. n \in S
  BY <1>3
<1> QED
  BY <1>4 DEF S

\* What the definition chooses does add up.
LEMMA TotalsAddUp == ASSUME NEW w \in Seq(Nat) PROVE AddsUp(Totals(w), w, Len(w))
<1> DEFINE Sum(t) == [k \in 0 .. Len(w) |-> IF k = 0 THEN 0 ELSE t[k - 1] + w[k]]
<1>0. Len(w) \in Nat
  OBVIOUS
<1>1. PICK t : AddsUp(t, w, Len(w))
  BY SumsExist
<1>2. t = Sum(t)
  <2>1. ASSUME NEW k \in 0 .. Len(w) PROVE t[k] = Sum(t)[k]
    <3>1. CASE k = 0
      BY <1>1, <3>1 DEF AddsUp
    <3>2. CASE k # 0
      BY <1>0, <1>1, <3>2 DEF AddsUp
    <3> QED
      BY <3>1, <3>2
  <2> QED
    BY <1>1, <2>1 DEF AddsUp
<1>3. Totals(w) = CHOOSE f : f = Sum(f)
  BY Zenon DEF Totals
<1>4. Totals(w) = Sum(Totals(w))
  <2> HIDE DEF Sum
  <2> QED
    BY <1>2, <1>3
<1> DEFINE f == Totals(w)
<1>5. f[0] = 0 /\ \A k \in 1 .. Len(w) : f[k] = f[k - 1] + w[k]
  <2> HIDE DEF f
  <2>1. f = [k \in 0 .. Len(w) |-> IF k = 0 THEN 0 ELSE f[k - 1] + w[k]]
    BY <1>4 DEF f
  <2> QED
    BY <1>0, <2>1
<1>6. DOMAIN f = 0 .. Len(w) /\ f = [k \in 0 .. Len(w) |-> f[k]]
  BY <1>4
<1> HIDE DEF f, Sum
<1>7. \A k \in 0 .. Len(w) : f[k] \in Nat
  <2> DEFINE S == {k \in Nat : k <= Len(w) => f[k] \in Nat}
  <2>1. 0 \in S
    BY <1>5
  <2>2. ASSUME NEW k \in Nat, k \in S PROVE k + 1 \in S
    <3> SUFFICES ASSUME k + 1 <= Len(w) PROVE f[k + 1] \in Nat
      OBVIOUS
    <3>1. k + 1 \in 1 .. Len(w) /\ (k + 1) - 1 = k /\ k <= Len(w)
      BY <1>0
    <3>2. f[k + 1] = f[k] + w[k + 1] /\ w[k + 1] \in Nat
      BY <1>5, <3>1, ElementOfSeq
    <3> QED
      BY <2>2, <3>1, <3>2
  <2> HIDE DEF S
  <2>3. Nat \subseteq S
    BY <2>1, <2>2, Induct
  <2>4. ASSUME NEW k \in 0 .. Len(w) PROVE f[k] \in Nat
    <3>1. k \in S /\ k <= Len(w)
      BY <1>0, <2>3
    <3> QED
      BY <3>1 DEF S
  <2> QED
    BY <2>4
<1> QED
  BY <1>5, <1>6, <1>7 DEF AddsUp, f

-----------------------------------------------------------------------------
\* Nothing adds up to zero.
LEMMA TotalOfNone == Total(<<>>) = 0
<1>1. <<>> \in Seq(Nat) /\ Len(<<>>) = 0
  BY EmptySeq
<1>2. AddsUp(Totals(<<>>), <<>>, Len(<<>>))
  BY <1>1, TotalsAddUp
<1> QED
  BY <1>1, <1>2 DEF Total, AddsUp

\* One number more adds itself.
LEMMA TotalOfMore ==
  ASSUME NEW w \in Seq(Nat), NEW n \in Nat
  PROVE  Total(w) \in Nat /\ Total(Append(w, n)) = Total(w) + n
<1> DEFINE v == Append(w, n)
<1>1. /\ v \in Seq(Nat) /\ Len(v) = Len(w) + 1 /\ Len(w) \in Nat
      /\ v[Len(w) + 1] = n /\ \A k \in 1 .. Len(w) : v[k] = w[k]
  BY AppendProperties
<1> HIDE DEF v
<1>2. AddsUp(Totals(v), v, Len(v)) /\ AddsUp(Totals(w), w, Len(w))
  BY <1>1, TotalsAddUp
<1>3. Totals(v)[Len(w)] = Totals(w)[Len(w)]
  <2> DEFINE t == Totals(v)
             u == Totals(w)
             m == Len(v)
             l == Len(w)
  <2>1. m \in Nat /\ l \in Nat /\ l <= m /\ \A k \in 1 .. l : v[k] = w[k]
    BY <1>1
  <2>2. AddsUp(t, v, m) /\ AddsUp(u, w, l)
    BY <1>2
  <2> HIDE DEF t, u, m, l
  <2>3. t[l] = u[l]
    BY <2>1, <2>2, SumsAgree
  <2> QED
    BY <2>3 DEF t, u, l
<1>4. Totals(v)[Len(v)] = Totals(v)[Len(w)] + n /\ Totals(w)[Len(w)] \in Nat
  <2>1. Len(v) \in 1 .. Len(v) /\ Len(v) - 1 = Len(w) /\ Len(w) \in 0 .. Len(w)
    BY <1>1
  <2> QED
    BY <1>1, <1>2, <2>1 DEF AddsUp
<1> QED
  BY <1>3, <1>4 DEF Total, v
=============================================================================
