--------------------------- MODULE BrowserProofs ----------------------------
(***************************************************************************)
(* Proofs about the parts of the page beside the form: the history of      *)
(* receipts, the analytics, the effects of the small components and the    *)
(* wallet widget.                                                          *)
(***************************************************************************)
EXTENDS ReceiptStorage, WalletWidget, BrowserAnalytics, PageEffects, WellFoundedInduction,
        TLAPS

-----------------------------------------------------------------------------
(* The filter.  What a recursive definition computes is shown by induction *)
(* on the length, which here is a fact about sets of natural numbers.      *)

\* Induction: a set with 0 and the successor of each of its numbers has them all.
LEMMA SetInduction ==
  ASSUME NEW S, 0 \in S, \A n \in Nat : n \in S => n + 1 \in S
  PROVE  Nat \subseteq S
<1>1. SUFFICES ASSUME Nat \ S # {} PROVE FALSE  BY Zenon
<1>2. IsWellFoundedOn(OpToRel(<, Nat), Nat)  BY NatLessThanWellFounded, Zenon
<1>3. PICK x \in Nat \ S : \A y \in Nat \ S : ~ (<<y, x>> \in OpToRel(<, Nat))
  <2>1. Nat \ S \subseteq Nat  BY Zenon
  <2> QED  BY <1>1, <1>2, <2>1, WFMin, Zenon
<1>4. x # 0 /\ x - 1 \in Nat /\ x - 1 < x /\ (x - 1) + 1 = x  BY SMT
<1>5. <<x - 1, x>> \in OpToRel(<, Nat)  BY <1>4, Zenon DEF OpToRel
<1>6. x - 1 \in S  BY <1>3, <1>4, <1>5, Zenon
<1> QED  BY <1>4, <1>6, Zenon

\* The numbers up to n + 1.
LEMMA UpTo ==
  ASSUME NEW n \in Nat
  PROVE  /\ \A i \in 1..(n + 1) : i \in 1..n \/ i = n + 1
         /\ \A i \in 1..n : i \in 1..(n + 1) /\ i # n + 1
         /\ n + 1 \in 1..(n + 1)
  OBVIOUS

\* A sequence with one more element in front.
LEMMA InFront ==
  ASSUME NEW X, NEW e \in X, NEW w \in Seq(X)
  PROVE  /\ <<e>> \o w \in Seq(X) /\ Len(<<e>> \o w) = Len(w) + 1 /\ Len(w) \in Nat
         /\ (<<e>> \o w)[1] = e /\ \A i \in 2..(Len(w) + 1) : (<<e>> \o w)[i] = w[i - 1]
         /\ \A i \in 1..Len(w) : (<<e>> \o w)[i + 1] = w[i]
  OBVIOUS

\* One step of the filter, from what it has kept so far.
Extend(s, K, kept, i) == IF i \in K THEN Append(kept, s[i]) ELSE kept

\* f holds what the filter keeps of the first i elements, for each i up to n.
Filters(f, s, K, n) ==
  f = [i \in 0..n |-> IF i = 0 THEN <<>> ELSE Extend(s, K, f[i - 1], i)]

\* There is such a function for each n.
LEMMA FilterExists ==
  ASSUME NEW s, NEW K, NEW n \in Nat
  PROVE  \E f : Filters(f, s, K, n)
<1> DEFINE S == {m \in Nat : \E f : Filters(f, s, K, m)}
<1>1. 0 \in S
  <2>1. Filters([i \in 0..0 |-> <<>>], s, K, 0)  BY DEF Filters
  <2> QED  BY <2>1, Zenon
<1>2. ASSUME NEW m \in Nat, m \in S PROVE m + 1 \in S
  <2>1. PICK f : Filters(f, s, K, m)  BY <1>2, Zenon
  <2> DEFINE g == [i \in 0..(m + 1) |-> IF i = m + 1 THEN Extend(s, K, f[m], i) ELSE f[i]]
  <2>2. \A i \in 0..m : f[i] = IF i = 0 THEN <<>> ELSE Extend(s, K, f[i - 1], i)
    BY <2>1, Zenon DEF Filters
  <2>3. ASSUME NEW i \in 0..(m + 1)
        PROVE  g[i] = IF i = 0 THEN <<>> ELSE Extend(s, K, g[i - 1], i)
    <3>1. CASE i = m + 1
      <4>1. i # 0 /\ i - 1 = m /\ m \in 0..(m + 1) /\ m # m + 1  BY <3>1
      <4>2. g[i - 1] = f[m]  BY <4>1, Zenon
      <4>3. g[i] = Extend(s, K, f[m], i)  BY <3>1, Zenon
      <4> QED  BY <4>1, <4>2, <4>3, Zenon
    <3>2. CASE i # m + 1
      <4>1. i \in 0..m  BY <3>2
      <4>2. g[i] = f[i]  BY <3>2, Zenon
      <4>3. i # 0 => i - 1 \in 0..(m + 1) /\ i - 1 # m + 1  BY <4>1
      <4>4. i # 0 => g[i - 1] = f[i - 1]  BY <4>3, Zenon
      <4> QED  BY <2>2, <4>1, <4>2, <4>4, Zenon
    <3> QED  BY <3>1, <3>2, Zenon
  <2>4. Filters(g, s, K, m + 1)
    <3> HIDE DEF g
    <3>1. g = [i \in 0..(m + 1) |-> g[i]]  BY Zenon DEF g
    <3> QED  BY <2>3, <3>1, Zenon DEF Filters
  <2> QED  BY <2>4
<1>3. Nat \subseteq S
  <2> HIDE DEF S
  <2> QED  BY <1>1, <1>2, SetInduction, Zenon
<1> QED  BY <1>3, Zenon

\* The function that Kept is defined by.
Filter(s, K) == CHOOSE f : Filters(f, s, K, Len(s))

\* The recursion of Kept has its equations.
LEMMA FilterDefined ==
  ASSUME NEW X, NEW s \in Seq(X), NEW K
  PROVE  /\ Kept(s, K) = Filter(s, K)[Len(s)]
         /\ Filter(s, K)[0] = <<>>
         /\ \A i \in 1..Len(s) : Filter(s, K)[i] = Extend(s, K, Filter(s, K)[i - 1], i)
<1>1. Len(s) \in Nat  OBVIOUS
<1>2. Filters(Filter(s, K), s, K, Len(s))
  BY <1>1, FilterExists, Zenon DEF Filter
<1>3. \A i \in 0..Len(s) :
        Filter(s, K)[i] = IF i = 0 THEN <<>> ELSE Extend(s, K, Filter(s, K)[i - 1], i)
  BY <1>2, Zenon DEF Filters
<1>4. Kept(s, K) = Filter(s, K)[Len(s)]
  BY Zenon DEF Kept, Filter, Filters, Extend
<1> QED  BY <1>1, <1>3, <1>4

\* The first n elements are the same, and the same of them stay.
Agree(s, K, t, L, n) ==
  /\ n <= Len(s) /\ n <= Len(t)
  /\ \A i \in 1..n : s[i] = t[i] /\ (i \in K <=> i \in L)

\* What is kept of the first elements depends on them alone.
LEMMA FilterAgrees ==
  ASSUME NEW X, NEW s \in Seq(X), NEW t \in Seq(X), NEW K, NEW L, NEW n \in Nat,
         Agree(s, K, t, L, n)
  PROVE  Filter(s, K)[n] = Filter(t, L)[n]
<1> USE DEF Agree
<1> DEFINE S == {m \in Nat : m <= n => Filter(s, K)[m] = Filter(t, L)[m]}
<1>1. 0 \in S
  BY FilterDefined, Zenon
<1>2. ASSUME NEW m \in Nat, m \in S PROVE m + 1 \in S
  <2>1. SUFFICES ASSUME m + 1 <= n
                 PROVE  Filter(s, K)[m + 1] = Filter(t, L)[m + 1]
    OBVIOUS
  <2>2. m + 1 \in 1..n /\ m + 1 \in 1..Len(s) /\ m + 1 \in 1..Len(t) /\ (m + 1) - 1 = m
    BY <2>1
  <2>3. Filter(s, K)[m + 1] = Extend(s, K, Filter(s, K)[m], m + 1)
    BY <2>2, FilterDefined
  <2>4. Filter(t, L)[m + 1] = Extend(t, L, Filter(t, L)[m], m + 1)
    BY <2>2, FilterDefined
  <2>5. Filter(s, K)[m] = Filter(t, L)[m]  BY <1>2, <2>1
  <2>6. s[m + 1] = t[m + 1] /\ (m + 1 \in K <=> m + 1 \in L)  BY <2>2, Zenon
  <2> QED  BY <2>3, <2>4, <2>5, <2>6, Zenon DEF Extend
<1>3. Nat \subseteq S
  <2> HIDE DEF S
  <2> QED  BY <1>1, <1>2, SetInduction, Zenon
<1> QED  BY <1>3

\* Nothing is kept of nothing, and one more element is kept or not.
LEMMA KeptNothing == \A K : Kept(<<>>, K) = <<>>
<1> TAKE K
<1>1. <<>> \in Seq({}) /\ Len(<<>>) = 0  OBVIOUS
<1> QED  BY <1>1, FilterDefined, ZenonT(120)

\* Kept of a longer sequence extends Kept of the shorter one.
LEMMA KeptAppend ==
  ASSUME NEW X, NEW s \in Seq(X), NEW e \in X, NEW K, NEW L,
         \A i \in 1..Len(s) : i \in K <=> i \in L
  PROVE  Kept(Append(s, e), K) = IF Len(s) + 1 \in K THEN Append(Kept(s, L), e) ELSE Kept(s, L)
<1> DEFINE u == Append(s, e)
<1>1. /\ u \in Seq(X) /\ Len(s) \in Nat /\ Len(u) = Len(s) + 1 /\ u[Len(s) + 1] = e
      /\ \A i \in 1..Len(s) : u[i] = s[i]
      /\ Len(s) + 1 \in 1..(Len(s) + 1) /\ (Len(s) + 1) - 1 = Len(s) /\ Len(s) <= Len(s) + 1 /\ Len(s) <= Len(s)
  OBVIOUS
<1> HIDE DEF u
<1>2. Filter(u, K)[Len(s)] = Filter(s, L)[Len(s)]
  <2>1. \A i \in 1..Len(s) : u[i] = s[i] /\ (i \in K <=> i \in L)  BY <1>1, Zenon
  <2>2. Len(s) <= Len(u) /\ Len(s) <= Len(s)  BY <1>1, Zenon
  <2>3. u \in Seq(X) /\ Len(s) \in Nat  BY <1>1, Zenon
  <2>4. Agree(u, K, s, L, Len(s))  BY <2>1, <2>2, Zenon DEF Agree
  <2> QED  BY <2>3, <2>4, FilterAgrees, SMT
<1>3. Kept(u, K) = Extend(u, K, Filter(u, K)[Len(s)], Len(s) + 1)
  <2>1. Kept(u, K) = Filter(u, K)[Len(s) + 1]  BY <1>1, FilterDefined, Zenon
  <2>2. Filter(u, K)[Len(s) + 1] = Extend(u, K, Filter(u, K)[(Len(s) + 1) - 1], Len(s) + 1)
    BY <1>1, FilterDefined, Zenon
  <2> QED  BY <1>1, <2>1, <2>2, Zenon
<1>4. Kept(s, L) = Filter(s, L)[Len(s)]
  BY FilterDefined, Zenon
<1> QED  BY <1>1, <1>2, <1>3, <1>4, Zenon DEF Extend, u

\* The elements of t come from different positions in K of the first n of s.
ComesFrom(t, s, K, n) ==
  \E h \in [1..Len(t) -> 1..n] :
    /\ \A j, k \in 1..Len(t) : h[j] = h[k] => j = k
    /\ \A j \in 1..Len(t) : h[j] \in K /\ t[j] = s[h[j]]

\* What the filter keeps: of the elements those at the positions in K, all of them
\* only where it keeps the sequence as it is, and nothing twice.
LEMMA KeptFacts ==
  ASSUME NEW X, NEW s \in Seq(X), NEW K
  PROVE  /\ Kept(s, K) \in Seq(X)
         /\ Len(Kept(s, K)) <= Len(s)
         /\ ComesFrom(Kept(s, K), s, K, Len(s))
         /\ \A i \in 1..Len(s) :
              i \in K => \E j \in 1..Len(Kept(s, K)) : Kept(s, K)[j] = s[i]
         /\ (\A i \in 1..Len(s) : i \in K) => Kept(s, K) = s
         /\ (\E i \in 1..Len(s) : i \notin K) => Len(Kept(s, K)) < Len(s)
<1> DEFINE f == Filter(s, K)
           All(n) == \A i \in 1..n : i \in K => \E j \in 1..Len(f[n]) : f[n][j] = s[i]
           Same(n) == (\A i \in 1..n : i \in K)
                        => Len(f[n]) = n /\ \A i \in 1..n : f[n][i] = s[i]
           Fewer(n) == (\E i \in 1..n : i \notin K) => Len(f[n]) < n
           Q(n) == /\ f[n] \in Seq(X) /\ Len(f[n]) <= n
                   /\ ComesFrom(f[n], s, K, n) /\ All(n) /\ Same(n) /\ Fewer(n)
           S == {n \in Nat : n <= Len(s) => Q(n)}
<1>1. 0 \in S
  <2>1. f[0] = <<>>  BY FilterDefined, Zenon
  <2>2. <<>> \in Seq(X) /\ Len(<<>>) = 0 /\ 1..0 = {} /\ 0 <= 0 /\ 0 \in Nat  OBVIOUS
  <2> HIDE DEF f
  <2>3. ComesFrom(f[0], s, K, 0)
    <3> DEFINE h == [j \in {} |-> 1]
    <3>1. h \in [1..Len(f[0]) -> 1..0]  BY <2>1, <2>2, Zenon
    <3> QED  BY <2>1, <2>2, <3>1, Zenon DEF ComesFrom
  <2>4. Q(0)  BY <2>1, <2>2, <2>3, Zenon
  <2> QED  BY <2>2, <2>4, Zenon
<1>2. ASSUME NEW n \in Nat, n \in S PROVE n + 1 \in S
  <2>1. SUFFICES ASSUME n + 1 <= Len(s) PROVE Q(n + 1)
    <3> HIDE DEF Q
    <3> QED  OBVIOUS
  <2>2. n + 1 \in 1..Len(s) /\ (n + 1) - 1 = n /\ s[n + 1] \in X
    BY <2>1
  <2>3. Q(n)
    <3>1. n <= Len(s)  BY <2>1
    <3> HIDE DEF Q
    <3> QED  BY <1>2, <3>1, Zenon
  <2>4. f[n + 1] = IF n + 1 \in K THEN Append(f[n], s[n + 1]) ELSE f[n]
    <3>1. f[n + 1] = Extend(s, K, f[(n + 1) - 1], n + 1)  BY <2>2, FilterDefined, Zenon
    <3> HIDE DEF f
    <3> QED  BY <2>2, <3>1, Zenon DEF Extend
  <2> HIDE DEF f
  <2>5. CASE n + 1 \notin K
    <3>1. f[n + 1] = f[n]  BY <2>4, <2>5, Zenon
    <3>2. \A i : i \in 1..n => i \in 1..(n + 1)  OBVIOUS
    <3>3. \A i : i \in 1..(n + 1) /\ i \in K => i \in 1..n  BY <2>5
    <3>4. Len(f[n]) < n + 1 /\ Len(f[n]) <= n + 1 /\ n + 1 \in 1..(n + 1)
      BY <2>3
    <3>5. ComesFrom(f[n + 1], s, K, n + 1)
      <4>1. PICK h \in [1..Len(f[n]) -> 1..n] :
              /\ \A j, k \in 1..Len(f[n]) : h[j] = h[k] => j = k
              /\ \A j \in 1..Len(f[n]) : h[j] \in K /\ f[n][j] = s[h[j]]
        BY <2>3, Zenon DEF ComesFrom
      <4>2. h \in [1..Len(f[n]) -> 1..(n + 1)]  BY <3>2, Zenon
      <4>3. ComesFrom(f[n], s, K, n + 1)  BY <4>1, <4>2, Zenon DEF ComesFrom
      <4> QED  BY <3>1, <4>3, Zenon
    <3>6. All(n + 1)  BY <2>3, <3>1, <3>3, Zenon
    <3>7. Same(n + 1) /\ Fewer(n + 1)  BY <2>5, <3>1, <3>4, Zenon
    <3> QED  BY <2>3, <3>1, <3>4, <3>5, <3>6, <3>7, Zenon
  <2>6. CASE n + 1 \in K
    <3>1. f[n + 1] = Append(f[n], s[n + 1])  BY <2>4, <2>6, Zenon
    <3> DEFINE l == Len(f[n])
    <3>2. /\ f[n + 1] \in Seq(X) /\ Len(f[n + 1]) = l + 1 /\ l \in Nat /\ l <= n
          /\ f[n + 1][l + 1] = s[n + 1] /\ \A j \in 1..l : f[n + 1][j] = f[n][j]
      BY <2>2, <2>3, <3>1
    <3>3. /\ \A j \in 1..(l + 1) : j \in 1..l \/ j = l + 1
          /\ \A i \in 1..(n + 1) : i \in 1..n \/ i = n + 1
          /\ \A j \in 1..l : j \in 1..(l + 1)
          /\ \A i \in 1..n : i \in 1..(n + 1)
          /\ l + 1 \in 1..(l + 1) /\ n + 1 \in 1..(n + 1)
      <4>1. l \in Nat  BY <3>2, Zenon
      <4> HIDE DEF l
      <4> QED  BY <4>1, UpTo, Zenon
    <3> HIDE DEF l
    <3>4. ComesFrom(f[n + 1], s, K, n + 1)
      <4>1. PICK h \in [1..l -> 1..n] :
              /\ \A j, k \in 1..l : h[j] = h[k] => j = k
              /\ \A j \in 1..l : h[j] \in K /\ f[n][j] = s[h[j]]
        BY <2>3, Zenon DEF l, ComesFrom
      <4> DEFINE g == [j \in 1..(l + 1) |-> IF j = l + 1 THEN n + 1 ELSE h[j]]
      <4>2. \A j \in 1..l : h[j] \in 1..(n + 1) /\ h[j] # n + 1 /\ j # l + 1
        BY <3>2, UpTo, Zenon
      <4>3. /\ g \in [1..(l + 1) -> 1..(n + 1)]
            /\ g[l + 1] = n + 1
            /\ \A j \in 1..l : g[j] = h[j]
        BY <3>3, <4>2, Zenon
      <4> HIDE DEF g
      <4>4. \A j, k \in 1..(l + 1) : g[j] = g[k] => j = k
        BY <3>3, <4>1, <4>2, <4>3, ZenonT(120)
      <4>5. \A j \in 1..(l + 1) : g[j] \in K /\ f[n + 1][j] = s[g[j]]
        BY <2>6, <3>2, <3>3, <4>1, <4>3, ZenonT(30)
      <4>6. Len(f[n + 1]) = l + 1  BY <3>2, Zenon
      <4>7. 1..Len(f[n + 1]) = 1..(l + 1)  BY <4>6, Zenon
      <4>8. g \in [1..Len(f[n + 1]) -> 1..(n + 1)]  BY <4>3, <4>7, Zenon
      <4>9. \A j, k \in 1..Len(f[n + 1]) : g[j] = g[k] => j = k  BY <4>4, <4>7, Zenon
      <4>10. \A j \in 1..Len(f[n + 1]) : g[j] \in K /\ f[n + 1][j] = s[g[j]]  BY <4>5, <4>7, Zenon
      <4> QED  BY <4>8, <4>9, <4>10, Zenon DEF ComesFrom
    <3>5. All(n + 1)
      <4> SUFFICES ASSUME NEW i \in 1..(n + 1), i \in K
                   PROVE  \E j \in 1..(l + 1) : f[n + 1][j] = s[i]
        BY <3>2, Zenon
      <4>1. CASE i = n + 1  BY <3>2, <3>3, <4>1, Zenon
      <4>2. CASE i \in 1..n
        <5>1. PICK j \in 1..l : f[n][j] = s[i]  BY <2>3, <4>2, Zenon DEF l
        <5> QED  BY <3>2, <3>3, <5>1, Zenon
      <4> QED  BY <3>3, <4>1, <4>2, Zenon
    <3>6. Same(n + 1)
      <4> SUFFICES ASSUME \A i \in 1..(n + 1) : i \in K
                   PROVE  Len(f[n + 1]) = n + 1 /\ \A i \in 1..(n + 1) : f[n + 1][i] = s[i]
        BY Zenon
      <4>1. l = n /\ \A i \in 1..n : f[n][i] = s[i]  BY <2>3, <3>3, Zenon DEF l
      <4> QED  BY <3>2, <3>3, <4>1, Zenon
    <3>7. Fewer(n + 1)
      <4>1. (\E i \in 1..(n + 1) : i \notin K) => \E i \in 1..n : i \notin K
        BY <2>6, <3>3, Zenon
      <4>2. l < n => l + 1 < n + 1  BY <3>2
      <4> QED  BY <2>3, <3>2, <4>1, <4>2, Zenon DEF l
    <3>8. l + 1 <= n + 1  BY <3>2
    <3> QED  BY <3>2, <3>4, <3>5, <3>6, <3>7, <3>8, Zenon
  <2> QED  BY <2>5, <2>6, Zenon
<1>3. Nat \subseteq S
  <2> HIDE DEF S
  <2> QED  BY <1>1, <1>2, SetInduction, Zenon
<1>4. Q(Len(s)) /\ Kept(s, K) = f[Len(s)]
  <2>1. Len(s) \in Nat /\ Len(s) <= Len(s)  OBVIOUS
  <2>2. Q(Len(s))  BY <1>3, <2>1, Zenon
  <2> QED  BY <2>2, FilterDefined, Zenon
<1>5. (\A i \in 1..Len(s) : i \in K) => Kept(s, K) = s
  <2> HIDE DEF f
  <2>1. Kept(s, K) \in Seq(X)  BY <1>4, Zenon
  <2> SUFFICES ASSUME \A i \in 1..Len(s) : i \in K PROVE Kept(s, K) = s
    BY Zenon
  <2>2. Len(Kept(s, K)) = Len(s) /\ \A i \in 1..Len(s) : Kept(s, K)[i] = s[i]
    BY <1>4, Zenon
  <2> HIDE DEF Q
  <2> QED  BY <2>1, <2>2, SMT
<1> QED  BY <1>4, <1>5, Zenon
-----------------------------------------------------------------------------
(* The effects of the small components.                                    *)

\* The inductive invariant: "Copied" stands on its timer; a copy that is under way, or
\* a timer, on a button that is gone was left behind by its unmount; and the one frame
\* that is requested is that of the instance there is.
EffectsInv ==
  /\ writes \in Nat /\ timers \in {0, 1}
  /\ copied \in BOOLEAN /\ copyGone \in BOOLEAN
  /\ copied => timers = 1
  /\ copyGone /\ (timers > 0 \/ writes > 0) => left
  /\ reduced \in BOOLEAN /\ seenReduced \in BOOLEAN
  /\ deadTick = FALSE
  /\ frames = IF seenReduced THEN {} ELSE {lenis}

\* A component's timers and frames are those of the component as it is now.
THEOREM EffectsOwned == EffectsSpec => []EffectsAreOwned
<1>1. EffectsInit => EffectsInv
  <2>1. 0 \in Nat /\ 0 \in {0, 1} /\ ~(0 > 0)  OBVIOUS
  <2> QED  BY <2>1, Zenon DEF EffectsInit, EffectsInv
<1>2. EffectsInv /\ [EffectsNext]_effectVars => EffectsInv'
  <2> SUFFICES ASSUME EffectsInv, [EffectsNext]_effectVars PROVE EffectsInv'
    BY Zenon
  <2> USE DEF EffectsInv
  <2>1. CASE CopyNext /\ UNCHANGED <<bannerVars, scrollVars>>
    <3>1. CASE CopyClick  BY <2>1, <3>1 DEF CopyClick, scrollVars
    <3>2. CASE CopyBlocked  BY <2>1, <3>2 DEF CopyBlocked, scrollVars
    <3>3. CASE CopyWritten  BY <2>1, <3>3 DEF CopyWritten, scrollVars
    <3>4. CASE CopyTimer
      <4>1. timers' = 0 /\ timers > 0 /\ 0 \in {0, 1} /\ ~(0 > 0)  BY <3>4 DEF CopyTimer
      <4> QED  BY <2>1, <3>4, <4>1, Zenon DEF CopyTimer, scrollVars
    <3>5. CASE CopyUnmount
      <4>1. 0 \in {0, 1} /\ ~(0 > 0)  OBVIOUS
      <4>2. CASE writes > 0
        <5>1. left' = TRUE  BY <3>5, <4>2, Zenon DEF CopyUnmount
        <5> QED  BY <2>1, <3>5, <4>1, <5>1, Zenon DEF CopyUnmount, scrollVars
      <4>3. CASE ~(writes > 0)
        BY <2>1, <3>5, <4>1, <4>3, Zenon DEF CopyUnmount, scrollVars
      <4> QED  BY <4>2, <4>3, Zenon
    <3> QED  BY <2>1, <3>1, <3>2, <3>3, <3>4, <3>5, Zenon DEF CopyNext
  <2>2. CASE BannerNext /\ UNCHANGED <<copyVars, scrollVars>>
    BY <2>2, Zenon DEF copyVars, scrollVars
  <2>3. CASE ScrollNext /\ UNCHANGED <<copyVars, bannerVars>>
    <3>1. CASE ToggleMotion  BY <2>3, <3>1, Zenon DEF ToggleMotion, copyVars
    <3>2. CASE ScrollEffect  BY <2>3, <3>2, Zenon DEF ScrollEffect, copyVars
    <3>3. CASE ScrollTick  BY <2>3, <3>3 DEF ScrollTick, copyVars
    <3> QED  BY <2>3, <3>1, <3>2, <3>3, Zenon DEF ScrollNext
  <2>4. CASE UNCHANGED effectVars
    BY <2>4, Zenon DEF effectVars, copyVars, scrollVars
  <2> QED  BY <2>1, <2>2, <2>3, <2>4, Zenon DEF EffectsNext
<1>3. EffectsInv => EffectsAreOwned
  BY DEF EffectsInv, EffectsAreOwned
<1> QED  BY <1>1, <1>2, <1>3, PTL DEF EffectsSpec
-----------------------------------------------------------------------------
(* The analytics.                                                          *)

\* What is handed to PostHog of an operation.
Clean(o) == [o EXCEPT !.props = Sanitize(@)]

\* The operations as they are issued, and as they are queued and sent.
Ops == Operations \cup {Clean(o) : o \in Operations}

\* Of each operation in x, got has its name and its harmless properties.
Matches(got, x) ==
  /\ Len(got) = Len(x)
  /\ \A i \in DOMAIN got : /\ got[i].name = x[i].name
                            /\ got[i].props = {p \in x[i].props : Harmless(p)}

\* Cleaning an operation keeps its name and its harmless properties.
LEMMA CleanOps ==
  ASSUME NEW o \in Operations
  PROVE  /\ Clean(o) \in Ops /\ o \in Ops
         /\ Clean(o).name = o.name
         /\ Clean(o).props = {p \in o.props : Harmless(p)}
<1>1. Clean(o) = [name |-> o.name, props |-> Sanitize(o.props)]
  BY OperationsAssumption DEF Clean
<1>2. Clean(o).name = o.name /\ Clean(o).props = Sanitize(o.props)
  BY <1>1
<1>3. Sanitize(o.props) = {p \in o.props : Harmless(p)}
  BY Zenon DEF Sanitize, Harmless
<1> QED  BY <1>2, <1>3, Zenon DEF Ops

\* One more operation is accepted, unless PostHog throws at it.
LEMMA AcceptedAppend ==
  ASSUME NEW X, NEW s \in Seq(X), NEW o \in X
  PROVE  Accepted(Append(s, o))
           = IF o.name \notin Thrower THEN Append(Accepted(s), o) ELSE Accepted(s)
<1> DEFINE t == Append(s, o)
           K == {i \in DOMAIN t : t[i].name \notin Thrower}
           L == {i \in DOMAIN s : s[i].name \notin Thrower}
<1>1. /\ \A i \in 1..Len(s) : i \in K <=> i \in L
      /\ Len(s) + 1 \in K <=> o.name \notin Thrower
  OBVIOUS
<1> HIDE DEF K, L
<1>2. Kept(t, K) = IF Len(s) + 1 \in K THEN Append(Kept(s, L), o) ELSE Kept(s, L)
  BY <1>1, KeptAppend
<1>3. Accepted(t) = Kept(t, K) /\ Accepted(s) = Kept(s, L)
  BY Zenon DEF Accepted, K, L
<1> QED  BY <1>1, <1>2, <1>3, Zenon

\* Of no operations none is accepted.
LEMMA AcceptedNothing == Accepted(<<>>) = <<>>
  BY KeptNothing, Zenon DEF Accepted

\* What is accepted are operations.
LEMMA AcceptedType ==
  ASSUME NEW X, NEW s \in Seq(X)
  PROVE  Accepted(s) \in Seq(X)
  BY KeptFacts, Zenon DEF Accepted

\* A matching pair of sequences stays one when a matching pair is appended.
LEMMA MatchesAppend ==
  ASSUME NEW X, NEW got \in Seq(X), NEW x \in Seq(X), Matches(got, x),
         NEW a \in X, NEW b \in X,
         a.name = b.name, a.props = {p \in b.props : Harmless(p)}
  PROVE  Matches(Append(got, a), Append(x, b))
<1>1. /\ Len(Append(got, a)) = Len(got) + 1 /\ Len(Append(x, b)) = Len(x) + 1
      /\ DOMAIN Append(got, a) = 1..(Len(got) + 1) /\ DOMAIN got = 1..Len(got)
      /\ Append(got, a)[Len(got) + 1] = a /\ Append(x, b)[Len(x) + 1] = b
      /\ \A i \in 1..Len(got) : Append(got, a)[i] = got[i]
      /\ \A i \in 1..Len(x) : Append(x, b)[i] = x[i]
      /\ \A i \in 1..(Len(got) + 1) : i \in 1..Len(got) \/ i = Len(got) + 1
  OBVIOUS
<1> QED  BY <1>1, ZenonT(30) DEF Matches
\* The inductive invariant: the queue is in use only until PostHog is there, and
\* nothing has been sent before; what is sent and queued matches what was issued.
AnalyticsInv ==
  /\ pendingOps \in Seq(Ops) /\ sent \in Seq(Ops) /\ issued \in Seq(Ops)
  /\ posthogClient => initPromise /\ pendingOps = <<>>
  /\ ~posthogClient => sent = <<>>
  /\ ~initPromise => pendingOps = <<>> /\ issued = <<>>
  /\ Matches(sent \o Accepted(pendingOps), Accepted(issued))

\* An operation that is issued while PostHog is loaded or there.
LEMMA IssueStep ==
  ASSUME AnalyticsInv, NEW o \in Operations, Issue(o)
  PROVE  AnalyticsInv'
<1> DEFINE clean == Clean(o)
<1>1. /\ WithPostHog(clean)
      /\ issued' = IF initPromise THEN Append(issued, o) ELSE issued
      /\ UNCHANGED <<enabled, initPromise, posthogClient, initialized>>
  BY Zenon DEF Issue, Clean
<1>2. clean \in Ops /\ o \in Ops /\ clean.name = o.name /\ clean.props = {p \in o.props : Harmless(p)}
  BY CleanOps, Zenon
<1> HIDE DEF clean
<1>3. /\ <<>> \in Seq(Ops) /\ Append(<<>>, clean) = <<clean>> /\ <<clean>> \in Seq(Ops)
      /\ \A s \in Seq(Ops) : <<>> \o s = s /\ s \o <<>> = s
      /\ \A s \in Seq(Ops) : s \o <<clean>> = Append(s, clean)
  BY <1>2
<1>4. /\ Accepted(<<>>) = <<>>
      /\ Accepted(<<clean>>) = IF clean.name \notin Thrower THEN <<clean>> ELSE <<>>
      /\ \A s \in Seq(Ops) : Accepted(s) \in Seq(Ops)
      /\ \A s \in Seq(Ops), p \in Ops :
           Accepted(Append(s, p)) = IF p.name \notin Thrower THEN Append(Accepted(s), p) ELSE Accepted(s)
  <2>1. Accepted(<<>>) = <<>>  BY AcceptedNothing, Zenon
  <2>2. \A s \in Seq(Ops), p \in Ops :
          Accepted(Append(s, p)) = IF p.name \notin Thrower THEN Append(Accepted(s), p) ELSE Accepted(s)
    BY AcceptedAppend, Zenon
  <2>3. \A s \in Seq(Ops) : Accepted(s) \in Seq(Ops)  BY AcceptedType, Zenon
  <2>4. Accepted(<<clean>>) = IF clean.name \notin Thrower THEN <<clean>> ELSE <<>>
    BY <1>2, <1>3, <2>1, <2>2, ZenonT(120)
  <2> QED  BY <2>1, <2>2, <2>3, <2>4, Zenon
<1>5. CASE ~initPromise /\ ~posthogClient
  <2>1. UNCHANGED <<pendingOps, sent, issued, initPromise, posthogClient>>
    BY <1>1, <1>5, Zenon DEF WithPostHog
  <2> QED  BY <2>1, Zenon DEF AnalyticsInv, Accepted
<1>6. CASE initPromise
  <2>1. /\ issued' = Append(issued, o) /\ issued' \in Seq(Ops)
        /\ Accepted(issued)' = IF o.name \notin Thrower THEN Append(Accepted(issued), o)
                              ELSE Accepted(issued)
    <3>1. issued' = Append(issued, o)  BY <1>1, <1>6, Zenon
    <3>2. Append(issued, o) \in Seq(Ops)  BY <1>2 DEF AnalyticsInv
    <3>3. Accepted(issued)' = Accepted(Append(issued, o))  BY <3>1, Zenon DEF Accepted
    <3> QED  BY <1>2, <1>4, <3>1, <3>2, <3>3, Zenon DEF AnalyticsInv
  <2>2. CASE posthogClient
    <3>1. /\ pendingOps = <<>> /\ pendingOps' = <<>> /\ sent' = sent \o Accepted(<<clean>>)
          /\ posthogClient' = posthogClient /\ initPromise' = initPromise
      BY <1>1, <2>2, Zenon DEF AnalyticsInv, WithPostHog
    <3>2. Accepted(pendingOps) = <<>> /\ Accepted(pendingOps)' = <<>>
      BY <1>4, <3>1, Zenon DEF Accepted
    <3>3. sent' = (IF o.name \notin Thrower THEN Append(sent, clean) ELSE sent) /\ sent' \in Seq(Ops)
      <4>0. sent \in Seq(Ops)  BY Zenon DEF AnalyticsInv
      <4>1. sent' = IF o.name \notin Thrower THEN Append(sent, clean) ELSE sent
        BY <1>2, <1>3, <1>4, <3>1, <4>0, Zenon
      <4>2. Append(sent, clean) \in Seq(Ops)  BY <1>2, <4>0
      <4> QED  BY <4>0, <4>1, <4>2, Zenon
    <3>4. sent \o Accepted(pendingOps) = sent /\ (sent \o Accepted(pendingOps))' = sent'
      BY <1>3, <3>2, <3>3, Zenon DEF AnalyticsInv
    <3>5. Matches(sent, Accepted(issued)) /\ Accepted(issued) \in Seq(Ops) /\ sent \in Seq(Ops)
      BY <1>4, <3>4, Zenon DEF AnalyticsInv
    <3>6. Matches(sent', Accepted(issued)')
      BY <1>2, <2>1, <3>3, <3>5, MatchesAppend, Zenon
    <3> QED  BY <1>6, <2>1, <2>2, <3>1, <3>3, <3>4, <3>6, Zenon DEF AnalyticsInv
  <2>3. CASE ~posthogClient
    <3>1. /\ sent = <<>> /\ sent' = <<>> /\ pendingOps' = Append(pendingOps, clean)
          /\ posthogClient' = posthogClient /\ initPromise' = initPromise
      BY <1>1, <1>6, <2>3, Zenon DEF AnalyticsInv, WithPostHog
    <3>2. pendingOps' \in Seq(Ops) /\ pendingOps \in Seq(Ops)
      BY <1>2, <3>1 DEF AnalyticsInv
    <3>3. Accepted(pendingOps)' = IF o.name \notin Thrower THEN Append(Accepted(pendingOps), clean)
                                  ELSE Accepted(pendingOps)
      <4>1. Accepted(pendingOps)' = Accepted(Append(pendingOps, clean))
        BY <3>1, Zenon DEF Accepted
      <4> QED  BY <1>2, <1>4, <3>2, <4>1, Zenon
    <3>4. Accepted(pendingOps) \in Seq(Ops) /\ Accepted(pendingOps)' \in Seq(Ops)
      BY <1>4, <3>2, Zenon DEF Accepted
    <3>5. /\ sent \o Accepted(pendingOps) = Accepted(pendingOps)
          /\ (sent \o Accepted(pendingOps))' = Accepted(pendingOps)'
      BY <1>3, <3>1, <3>4, Zenon
    <3>6. Matches(Accepted(pendingOps), Accepted(issued)) /\ Accepted(issued) \in Seq(Ops)
      BY <1>4, <3>5, Zenon DEF AnalyticsInv
    <3>7. Matches(Accepted(pendingOps)', Accepted(issued)')
      BY <1>2, <2>1, <3>3, <3>4, <3>6, MatchesAppend, Zenon
    <3> QED  BY <1>3, <1>6, <2>1, <2>3, <3>1, <3>2, <3>5, <3>7, Zenon DEF AnalyticsInv
  <2> QED  BY <2>2, <2>3, Zenon
<1> QED  BY <1>5, <1>6, Zenon DEF AnalyticsInv
\* Operations reach PostHog once each, in the order of issue, without what may not
\* leave the page, however its load interleaves with them.
THEOREM AnalyticsInOrder == AnalyticsSpec => []SentInOrder
<1>1. AnalyticsInit => AnalyticsInv
  <2>1. <<>> \in Seq(Ops) /\ <<>> \o <<>> = <<>> /\ Len(<<>>) = 0 /\ DOMAIN <<>> = {}  OBVIOUS
  <2>2. Matches(<<>>, <<>>)  BY <2>1, Zenon DEF Matches
  <2> QED  BY <2>1, <2>2, AcceptedNothing, Zenon DEF AnalyticsInit, AnalyticsInv
<1>2. AnalyticsInv /\ [AnalyticsNext]_analyticsVars => AnalyticsInv'
  <2> SUFFICES ASSUME AnalyticsInv, [AnalyticsNext]_analyticsVars PROVE AnalyticsInv'
    BY Zenon
  <2>1. CASE InitBrowserAnalytics
    BY <2>1, Zenon DEF InitBrowserAnalytics, AnalyticsInv, Accepted
  <2>2. CASE Loaded
    <3>1. /\ sent = <<>> /\ sent' = sent \o Accepted(pendingOps) /\ pendingOps' = <<>>
          /\ issued' = issued /\ initPromise' = initPromise /\ initPromise /\ posthogClient' = TRUE
      BY <2>2, Zenon DEF Loaded, AnalyticsInv
    <3>2. Accepted(pendingOps) \in Seq(Ops)
      BY AcceptedType, Zenon DEF AnalyticsInv
    <3>3. <<>> \o Accepted(pendingOps) = Accepted(pendingOps)
          /\ Accepted(pendingOps) \o <<>> = Accepted(pendingOps) /\ <<>> \in Seq(Ops)
      BY <3>2
    <3>4. (sent \o Accepted(pendingOps))' = sent \o Accepted(pendingOps)
      BY <3>1, <3>3, AcceptedNothing, Zenon DEF Accepted
    <3>5. Accepted(issued)' = Accepted(issued)  BY <3>1, Zenon DEF Accepted
    <3> QED  BY <3>1, <3>2, <3>3, <3>4, <3>5, Zenon DEF AnalyticsInv
  <2>3. CASE LoadFails
    <3>1. /\ sent = <<>> /\ sent' = <<>> /\ pendingOps' = <<>> /\ issued' = <<>>
          /\ ~initPromise' /\ ~posthogClient'
      BY <2>3, Zenon DEF LoadFails, AnalyticsInv
    <3>2. <<>> \in Seq(Ops) /\ <<>> \o <<>> = <<>> /\ Len(<<>>) = 0 /\ DOMAIN <<>> = {}  OBVIOUS
    <3>3. Matches(<<>>, <<>>)  BY <3>2, Zenon DEF Matches
    <3>4. Accepted(pendingOps)' = <<>> /\ Accepted(issued)' = <<>>
      BY <3>1, AcceptedNothing, Zenon DEF Accepted
    <3> QED  BY <3>1, <3>2, <3>3, <3>4, Zenon DEF AnalyticsInv
  <2>4. ASSUME NEW o \in Operations, Issue(o) PROVE AnalyticsInv'
    BY <2>4, IssueStep, Zenon
  <2>5. CASE UNCHANGED analyticsVars
    BY <2>5, Zenon DEF analyticsVars, AnalyticsInv, Accepted
  <2> QED  BY <2>1, <2>2, <2>3, <2>4, <2>5, Zenon DEF AnalyticsNext
<1>3. AnalyticsInv => SentInOrder
  BY Zenon DEF AnalyticsInv, SentInOrder, Matches
<1> QED  BY <1>1, <1>2, <1>3, PTL DEF AnalyticsSpec
-----------------------------------------------------------------------------
(* The history of receipts.                                                *)

\* A stored list, and one as it comes out of the parser.
List(s) == s \in Seq(Entries) /\ Distinct(s) /\ Len(s) <= MAX
ValidList(s) == List(s) /\ \A i \in 1..Len(s) : IsValidEntry(s[i])
Item(raw) == raw \in {NoItem, NotEntries} \/ List(raw)

\* What the filter keeps of a list is a list.
LEMMA KeptList ==
  ASSUME NEW s, List(s), NEW K
  PROVE  List(Kept(s, K))
<1>1. /\ Kept(s, K) \in Seq(Entries) /\ Len(Kept(s, K)) <= Len(s)
      /\ ComesFrom(Kept(s, K), s, K, Len(s))
  BY KeptFacts, Zenon DEF List
<1>2. PICK h \in [1..Len(Kept(s, K)) -> 1..Len(s)] :
        /\ \A j, k \in 1..Len(Kept(s, K)) : h[j] = h[k] => j = k
        /\ \A j \in 1..Len(Kept(s, K)) : h[j] \in K /\ Kept(s, K)[j] = s[h[j]]
  BY <1>1, Zenon DEF ComesFrom
<1>3. DOMAIN Kept(s, K) = 1..Len(Kept(s, K)) /\ DOMAIN s = 1..Len(s)
  BY <1>1 DEF List
<1>4. Distinct(Kept(s, K))
  <2>1. SUFFICES ASSUME NEW i \in 1..Len(Kept(s, K)), NEW j \in 1..Len(Kept(s, K)),
                        Kept(s, K)[i].receipt.id = Kept(s, K)[j].receipt.id
                 PROVE  i = j
    BY <1>3, Zenon DEF Distinct
  <2>2. h[i] \in 1..Len(s) /\ h[j] \in 1..Len(s)  BY <1>2, Zenon
  <2>3. s[h[i]].receipt.id = s[h[j]].receipt.id
    <3>1. Kept(s, K)[i] = s[h[i]] /\ Kept(s, K)[j] = s[h[j]]  BY <1>2, Zenon
    <3> QED  BY <2>1, <3>1, Zenon
  <2>4. h[i] = h[j]  BY <1>3, <2>2, <2>3, Zenon DEF List, Distinct
  <2> QED  BY <1>2, <2>4, Zenon
<1>5. Len(Kept(s, K)) <= MAX
  BY <1>1, MAXAssumption DEF List
<1> QED  BY <1>1, <1>4, <1>5, Zenon DEF List

\* parse: of a stored item, the valid entries; of valid entries, all.
LEMMA ParseFacts ==
  ASSUME NEW raw, Item(raw)
  PROVE  /\ ValidList(Parse(raw))
         /\ List(raw) => \A i \in 1..Len(raw) :
              IsValidEntry(raw[i]) => \E j \in 1..Len(Parse(raw)) : Parse(raw)[j] = raw[i]
<1>1. CASE raw \in {NoItem, NotEntries}
  <2>1. Parse(raw) = <<>>  BY <1>1, Zenon DEF Parse
  <2>2. <<>> \in Seq(Entries) /\ Len(<<>>) = 0 /\ 0 <= MAX /\ 1..0 = {} /\ DOMAIN <<>> = {}
    BY MAXAssumption
  <2>3. ~List(raw)  BY <1>1, ItemAssumption, Zenon DEF List
  <2> QED  BY <2>1, <2>2, <2>3, Zenon DEF ValidList, List, Distinct
<1>2. CASE raw \notin {NoItem, NotEntries}
  <2> DEFINE K == {i \in DOMAIN raw : IsValidEntry(raw[i])}
  <2>1. Parse(raw) = Kept(raw, K)  BY <1>2, Zenon DEF Parse
  <2>2. List(raw) /\ DOMAIN raw = 1..Len(raw)
    <3>1. List(raw)  BY <1>2, Zenon DEF Item
    <3> QED  BY <3>1 DEF List
  <2>3. /\ ComesFrom(Kept(raw, K), raw, K, Len(raw))
        /\ \A i \in 1..Len(raw) :
             i \in K => \E j \in 1..Len(Kept(raw, K)) : Kept(raw, K)[j] = raw[i]
    <3> HIDE DEF K
    <3> QED  BY <2>2, KeptFacts, Zenon DEF List
  <2>4. \A j \in 1..Len(Kept(raw, K)) : IsValidEntry(Kept(raw, K)[j])
    BY <2>3, Zenon DEF ComesFrom
  <2>5. List(Kept(raw, K))  BY <2>2, KeptList, Zenon
  <2> QED  BY <2>1, <2>2, <2>3, <2>4, <2>5, Zenon DEF ValidList
<1> QED  BY <1>1, <1>2, Zenon

\* What is left of a list without an id: as many entries, or fewer if the id was there.
LEMMA WithoutFacts ==
  ASSUME NEW s, List(s), NEW id
  PROVE  /\ List(Without(s, id))
         /\ \A j \in 1..Len(Without(s, id)) :
              Without(s, id)[j].receipt.id # id /\ \E i \in 1..Len(s) : Without(s, id)[j] = s[i]
         /\ \A i \in 1..Len(s) : s[i].receipt.id # id
              => \E j \in 1..Len(Without(s, id)) : Without(s, id)[j] = s[i]
         /\ Without(s, id) = s \/ Len(Without(s, id)) < Len(s)
<1> DEFINE K == {i \in DOMAIN s : s[i].receipt.id # id}
<1>1. DOMAIN s = 1..Len(s)  BY DEF List
<1>2. Without(s, id) = Kept(s, K)  BY Zenon DEF Without
<1>3. List(Kept(s, K))  BY KeptList, Zenon
<1>4. /\ ComesFrom(Kept(s, K), s, K, Len(s))
      /\ \A i \in 1..Len(s) :
           i \in K => \E j \in 1..Len(Kept(s, K)) : Kept(s, K)[j] = s[i]
      /\ (\A i \in 1..Len(s) : i \in K) => Kept(s, K) = s
      /\ (\E i \in 1..Len(s) : i \notin K) => Len(Kept(s, K)) < Len(s)
  <2> HIDE DEF K
  <2> QED  BY KeptFacts, Zenon DEF List
<1>5. PICK h \in [1..Len(Kept(s, K)) -> 1..Len(s)] :
        \A j \in 1..Len(Kept(s, K)) : h[j] \in K /\ Kept(s, K)[j] = s[h[j]]
  BY <1>4, Zenon DEF ComesFrom
<1>6. \A j \in 1..Len(Kept(s, K)) : h[j] \in 1..Len(s)  BY <1>5, Zenon
<1>7. \A i \in 1..Len(s) : i \in K <=> s[i].receipt.id # id  BY <1>1, Zenon
<1>8. ASSUME NEW j \in 1..Len(Kept(s, K))
      PROVE  Kept(s, K)[j].receipt.id # id /\ \E i \in 1..Len(s) : Kept(s, K)[j] = s[i]
  <2>1. Kept(s, K)[j] = s[h[j]] /\ h[j] \in K /\ h[j] \in 1..Len(s)  BY <1>5, <1>6, Zenon
  <2>2. s[h[j]].receipt.id # id  BY <1>7, <2>1, Zenon
  <2> HIDE DEF K
  <2> QED  BY <2>1, <2>2, Zenon
<1>9. Kept(s, K) = s \/ Len(Kept(s, K)) < Len(s)  BY <1>4, Zenon
<1>10. \A i \in 1..Len(s) : s[i].receipt.id # id
         => \E j \in 1..Len(Kept(s, K)) : Kept(s, K)[j] = s[i]
  BY <1>4, <1>7, Zenon
<1> DEFINE Facts(w) ==
      /\ List(w)
      /\ \A j \in 1..Len(w) : w[j].receipt.id # id /\ \E i \in 1..Len(s) : w[j] = s[i]
      /\ \A i \in 1..Len(s) : s[i].receipt.id # id => \E j \in 1..Len(w) : w[j] = s[i]
      /\ w = s \/ Len(w) < Len(s)
<1> HIDE DEF K
<1>11. Facts(Kept(s, K))  BY <1>3, <1>8, <1>9, <1>10, Zenon
<1>12. Facts(Without(s, id))
  <2> HIDE DEF Facts
  <2> QED  BY <1>2, <1>11, Zenon
<1> QED  BY <1>12, Zenon

\* saveReceipt on a list makes a list of what it saves and of the others, in which the
\* oldest may be missing, and that only where there were MAX.
LEMMA SaveFacts ==
  ASSUME NEW s, List(s), NEW r \in Signed
  PROVE  /\ List(Save(s, r))
         /\ \A i \in 1..Len(s) :
              \/ s[i].receipt.id = r.id \/ (Len(s) = MAX /\ i = MAX)
              \/ \E j \in 1..Len(Save(s, r)) : Save(s, r)[j] = s[i]
<1> DEFINE e == [receipt |-> r, dated |-> TRUE]
           w == Without(s, r.id)
           c == <<e>> \o w
<1>1. e \in Entries /\ e.receipt.id = r.id  BY Zenon DEF Entries
<1>2. List(w) /\ w \in Seq(Entries)
  BY WithoutFacts, Zenon DEF List
<1>3. /\ \A j \in 1..Len(w) : w[j].receipt.id # r.id
      /\ \A i \in 1..Len(s) : s[i].receipt.id # r.id => \E j \in 1..Len(w) : w[j] = s[i]
      /\ w = s \/ Len(w) < Len(s)
  BY WithoutFacts
<1> HIDE DEF e, w
<1>4. /\ c \in Seq(Entries) /\ Len(c) = Len(w) + 1 /\ Len(w) \in Nat
      /\ c[1] = e /\ \A i \in 2..(Len(w) + 1) : c[i] = w[i - 1]
      /\ \A i \in 1..Len(w) : c[i + 1] = w[i]
  BY <1>1, <1>2, InFront
<1>5. Distinct(c)
  <2>1. SUFFICES ASSUME NEW i \in 1..(Len(w) + 1), NEW j \in 1..(Len(w) + 1),
                        c[i].receipt.id = c[j].receipt.id
                 PROVE  i = j
    BY <1>4 DEF Distinct
  <2>2. i = 1 \/ (i \in 2..(Len(w) + 1) /\ i - 1 \in 1..Len(w))  BY <1>4
  <2>3. j = 1 \/ (j \in 2..(Len(w) + 1) /\ j - 1 \in 1..Len(w))  BY <1>4
  <2>4. CASE i = 1 /\ j = 1  BY <2>4, Zenon
  <2>5. CASE i = 1 /\ j # 1
    <3>1. c[i] = e /\ c[j] = w[j - 1]  BY <1>4, <2>3, <2>5, Zenon
    <3>2. w[j - 1].receipt.id # r.id  BY <1>3, <2>3, <2>5, Zenon
    <3> QED  BY <1>1, <2>1, <3>1, <3>2, Zenon
  <2>6. CASE i # 1 /\ j = 1
    <3>1. c[j] = e /\ c[i] = w[i - 1]  BY <1>4, <2>2, <2>6, Zenon
    <3>2. w[i - 1].receipt.id # r.id  BY <1>3, <2>2, <2>6, Zenon
    <3> QED  BY <1>1, <2>1, <3>1, <3>2, Zenon
  <2>7. CASE i # 1 /\ j # 1
    <3>1. c[j] = w[j - 1] /\ c[i] = w[i - 1]  BY <1>4, <2>2, <2>3, <2>7, Zenon
    <3>2. i - 1 \in DOMAIN w /\ j - 1 \in DOMAIN w  BY <1>2, <2>2, <2>3, <2>7
    <3>3. i - 1 = j - 1  BY <1>2, <2>1, <3>1, <3>2, Zenon DEF List, Distinct
    <3> QED  BY <3>3
  <2> QED  BY <2>4, <2>5, <2>6, <2>7, Zenon
<1> DEFINE m == IF Len(c) < MAX THEN Len(c) ELSE MAX
           t == SubSeq(c, 1, m)
<1>6. Save(s, r) = t  BY Zenon DEF Save, Trim, e, w
<1> HIDE DEF c
<1>7. /\ m \in Nat /\ m <= Len(c) /\ m <= MAX /\ (m = Len(c) \/ m = MAX)
      /\ t \in Seq(Entries) /\ Len(t) = m /\ DOMAIN t = 1..m
      /\ \A i \in 1..m : t[i] = c[i]
  BY <1>4, MAXAssumption
<1> HIDE DEF m, t
<1>8. Distinct(t)
  <2>1. \A i \in 1..m : i \in DOMAIN c  BY <1>4, <1>7
  <2> QED  BY <1>5, <1>7, <2>1, ZenonT(120) DEF Distinct
<1>9. ASSUME NEW i \in 1..Len(s), s[i].receipt.id # r.id, ~(Len(s) = MAX /\ i = MAX)
      PROVE  \E j \in 1..Len(t) : t[j] = s[i]
  <2>1. Len(s) \in Nat /\ Len(s) <= MAX  BY DEF List
  <2>2. CASE w = s
    <3>1. i + 1 \in 1..m  BY <1>4, <1>7, <1>9, <2>1, <2>2, MAXAssumption
    <3>2. t[i + 1] = s[i]  BY <1>4, <1>7, <2>2, <3>1, Zenon
    <3> QED  BY <1>7, <3>1, <3>2, Zenon
  <2>3. CASE w # s
    <3>1. Len(w) < Len(s)  BY <1>3, <2>3, Zenon
    <3>2. PICK j \in 1..Len(w) : w[j] = s[i]  BY <1>3, <1>9, Zenon
    <3>3. j + 1 \in 1..m  BY <1>4, <1>7, <2>1, <3>1, MAXAssumption
    <3>4. t[j + 1] = s[i]  BY <1>4, <1>7, <3>2, <3>3, Zenon
    <3> QED  BY <1>7, <3>3, <3>4, Zenon
  <2> QED  BY <2>2, <2>3, Zenon
<1> QED  BY <1>6, <1>7, <1>8, <1>9, Zenon DEF List
\* The states of the cards say nothing untrue of the entries.
Truthful(entries, states) ==
  /\ DOMAIN states = Ids(entries)
  /\ \A e \in Elements(entries) :
       /\ states[e.receipt.id] = "valid" => e.receipt \in GoodSigned
       /\ states[e.receipt.id] = "invalid" => e.receipt \notin GoodSigned

\* A write that is under way.
Operation(o) ==
  /\ o = [kind |-> o.kind, receipt |-> o.receipt, entries |-> o.entries]
  /\ o.kind \in {"save", "remove", "clear"}
  /\ o.kind \in {"save", "remove"} => o.receipt \in Signed
  /\ ValidList(o.entries)

\* The inductive invariant, for a tab and for all: what a tab has read is what is
\* stored, unless another tab has written since.
OpOk(t) ==
  \/ op[t] = Idle
  \/ /\ Operation(op[t])
     /\ op[t].kind = "clear" \/ t \in overlapped \/ op[t].entries = Parse(item)

ViewOk(t) ==
  /\ ValidList(view[t])
  /\ t \in behind \/ view[t] = Parse(item)
  /\ Truthful(view[t], cards[t])

StorageInv ==
  /\ Item(item) /\ threw \subseteq refused
  /\ DOMAIN op = Tabs /\ DOMAIN cachedRaw = Readers
  /\ DOMAIN view = Readers /\ DOMAIN cards = Readers
  /\ \A t \in Tabs : OpOk(t)
  /\ \A t \in Readers : ViewOk(t)

\* An entry has one of the ids.
LEMMA InIds ==
  ASSUME NEW s, NEW e \in Elements(s)
  PROVE  e.receipt.id \in Ids(s)
  BY Zenon DEF Elements, Ids

\* Cards: a receipt that stays keeps what its card says, which is true of it, since an
\* id stands for one receipt.
LEMMA CardsTruthful ==
  ASSUME NEW old, NEW new, NEW states, Truthful(old, states), ValidList(old), ValidList(new)
  PROVE  Truthful(new, Cards(old, new, states))
<1>1. DOMAIN Cards(old, new, states) = Ids(new)  BY Zenon DEF Cards
<1>2. ASSUME NEW e \in Elements(new)
      PROVE  /\ Cards(old, new, states)[e.receipt.id] = "valid" => e.receipt \in GoodSigned
             /\ Cards(old, new, states)[e.receipt.id] = "invalid" => e.receipt \notin GoodSigned
  <2>1. e.receipt.id \in Ids(new)  BY InIds, Zenon
  <2>2. Cards(old, new, states)[e.receipt.id]
          = IF e.receipt.id \in Ids(old) THEN states[e.receipt.id] ELSE "idle"
    BY <2>1, Zenon DEF Cards
  <2>3. CASE e.receipt.id \notin Ids(old)
    BY <2>2, <2>3, Zenon
  <2>4. CASE e.receipt.id \in Ids(old)
    <3>1. PICK i \in DOMAIN old : old[i].receipt.id = e.receipt.id  BY <2>4, Zenon DEF Ids
    <3>2. old[i] \in Elements(old) /\ old[i] \in Entries
      BY DEF Elements, ValidList, List
    <3>3. e \in Entries  BY DEF Elements, ValidList, List
    <3>4. old[i].receipt \in Signed /\ e.receipt \in Signed  BY <3>2, <3>3, Zenon DEF Entries
    <3>5. old[i].receipt = e.receipt  BY <3>1, <3>4, SignedAssumption, Zenon
    <3>6. states[e.receipt.id] = Cards(old, new, states)[e.receipt.id]  BY <2>2, <2>4, Zenon
    <3> QED  BY <3>1, <3>2, <3>5, <3>6, Zenon DEF Truthful
  <2> QED  BY <2>3, <2>4, Zenon
<1> QED  BY <1>1, <1>2, Zenon DEF Truthful

\* Show: the tab's view becomes the parse of what it has read.
LEMMA ShowStep ==
  ASSUME StorageInv, NEW t \in Tabs, NEW raw, Item(raw), Show(t, raw)
  PROVE  /\ DOMAIN cachedRaw' = Readers /\ DOMAIN view' = Readers /\ DOMAIN cards' = Readers
         /\ \A u \in Readers : u # t => view'[u] = view[u] /\ cards'[u] = cards[u]
         /\ t \in Readers => /\ view'[t] = Parse(raw) /\ ValidList(view'[t])
                             /\ Truthful(view'[t], cards'[t])
<1>1. CASE t \notin Readers
  BY <1>1, Zenon DEF Show, StorageInv
<1>2. CASE t \in Readers
  <2>1. /\ cachedRaw' = [cachedRaw EXCEPT ![t] = raw]
        /\ view' = [view EXCEPT ![t] = Parse(raw)]
        /\ cards' = [cards EXCEPT ![t] = Cards(view[t], Parse(raw), cards[t])]
    BY <1>2, Zenon DEF Show
  <2>2. view'[t] = Parse(raw) /\ cards'[t] = Cards(view[t], Parse(raw), cards[t])
    BY <1>2, <2>1, Zenon DEF StorageInv
  <2>3. ValidList(Parse(raw))  BY ParseFacts, Zenon
  <2>4. ValidList(view[t]) /\ Truthful(view[t], cards[t])
    BY <1>2, Zenon DEF StorageInv, ViewOk
  <2>5. Truthful(Parse(raw), Cards(view[t], Parse(raw), cards[t]))
    BY <2>3, <2>4, CardsTruthful, Zenon
  <2>6. /\ DOMAIN cachedRaw' = Readers /\ DOMAIN view' = Readers /\ DOMAIN cards' = Readers
        /\ \A u \in Readers : u # t => view'[u] = view[u] /\ cards'[u] = cards[u]
    BY <2>1, Zenon DEF StorageInv
  <2> QED  BY <2>2, <2>3, <2>5, <2>6, Zenon
<1> QED  BY <1>1, <1>2, Zenon

\* Rendering the history keeps the invariant.
LEMMA RenderStep ==
  ASSUME StorageInv, NEW t \in Tabs, RenderHistory(t)
  PROVE  StorageInv'
<1>1. UNCHANGED <<item, refused, op, overlapped>> /\ t \in Readers  BY Zenon DEF RenderHistory
<1>2. \A u \in Tabs : OpOk(u)'  BY <1>1, Zenon DEF StorageInv, OpOk
<1>3. CASE t \in refused
  <2>1. threw' = threw \cup {t} /\ UNCHANGED <<cachedRaw, view, cards, behind>>
    BY <1>3, Zenon DEF RenderHistory
  <2>2. threw' \subseteq refused'  BY <1>1, <1>3, <2>1, Zenon DEF StorageInv
  <2>3. \A u \in Readers : ViewOk(u)'  BY <1>1, <2>1, Zenon DEF StorageInv, ViewOk
  <2> QED  BY <1>1, <1>2, <2>1, <2>2, <2>3, Zenon DEF StorageInv
<1>4. CASE t \notin refused
  <2>1. Show(t, item) /\ behind' = behind \ {t} /\ UNCHANGED threw
    BY <1>4, Zenon DEF RenderHistory, Snapshot
  <2>2. /\ DOMAIN cachedRaw' = Readers /\ DOMAIN view' = Readers /\ DOMAIN cards' = Readers
        /\ \A u \in Readers : u # t => view'[u] = view[u] /\ cards'[u] = cards[u]
        /\ view'[t] = Parse(item) /\ ValidList(view'[t]) /\ Truthful(view'[t], cards'[t])
    BY <1>1, <2>1, ShowStep, Zenon DEF StorageInv
  <2>3. ASSUME NEW u \in Readers PROVE ViewOk(u)'
    <3>1. CASE u = t  BY <1>1, <2>2, <3>1, Zenon DEF ViewOk
    <3>2. CASE u # t
      <4>1. ViewOk(u)  BY Zenon DEF StorageInv
      <4>2. u \in behind => u \in behind'  BY <2>1, <3>2, Zenon
      <4> QED  BY <1>1, <2>2, <3>2, <4>1, <4>2, Zenon DEF ViewOk
    <3> QED  BY <3>1, <3>2, Zenon
  <2> QED  BY <1>1, <1>2, <2>1, <2>2, <2>3, Zenon DEF StorageInv
<1> QED  BY <1>3, <1>4, Zenon

\* So does reading the stored history at the start of a change.
LEMMA BeginStep ==
  ASSUME StorageInv, NEW t \in Tabs, NEW kind, NEW r, Begin(t, kind, r),
         kind = "clear" \/ (kind \in {"save", "remove"} /\ r \in Signed)
  PROVE  StorageInv'
<1>1. UNCHANGED <<item, refused, cachedRaw, view, cards, overlapped, behind>>
  BY Zenon DEF Begin
<1>2. \A u \in Readers : ViewOk(u)'  BY <1>1, Zenon DEF StorageInv, ViewOk
<1>3. CASE t \in refused
  <2>1. threw' = threw \cup {t} /\ op' = op  BY <1>3, Zenon DEF Begin
  <2>2. threw' \subseteq refused'  BY <1>1, <1>3, <2>1, Zenon DEF StorageInv
  <2>3. \A u \in Tabs : OpOk(u)'  BY <1>1, <2>1, Zenon DEF StorageInv, OpOk
  <2> QED  BY <1>1, <1>2, <2>1, <2>2, <2>3, Zenon DEF StorageInv
<1>4. CASE t \notin refused
  <2> DEFINE entries == IF kind = "clear" THEN <<>> ELSE Parse(item)
             o == [kind |-> kind, receipt |-> r, entries |-> entries]
  <2>1. op' = [op EXCEPT ![t] = o] /\ threw' = threw  BY <1>4, Zenon DEF Begin
  <2>2. ValidList(entries)
    <3>1. ValidList(Parse(item))  BY ParseFacts, Zenon DEF StorageInv
    <3>2. Item(NoItem) /\ Parse(NoItem) = <<>>  BY Zenon DEF Item, Parse
    <3>3. ValidList(<<>>)  BY <3>2, ParseFacts, Zenon
    <3> QED  BY <3>1, <3>3, Zenon
  <2>3. kind # "clear" => entries = Parse(item)  BY Zenon
  <2> HIDE DEF entries
  <2>4. o.kind = kind /\ o.receipt = r /\ o.entries = entries  BY Zenon
  <2>5. Operation(o)  BY <2>2, <2>4, Zenon DEF Operation
  <2> HIDE DEF o
  <2>6. op'[t] = o /\ DOMAIN op' = Tabs /\ \A u \in Tabs : u # t => op'[u] = op[u]
    BY <2>1, Zenon DEF StorageInv
  <2>7. OpOk(t)'  BY <1>1, <2>3, <2>4, <2>5, <2>6, Zenon DEF OpOk
  <2>8. ASSUME NEW u \in Tabs, u # t PROVE OpOk(u)'
    <3>1. OpOk(u) /\ op'[u] = op[u]  BY <2>6, <2>8, Zenon DEF StorageInv
    <3> QED  BY <1>1, <3>1, Zenon DEF OpOk
  <2> QED  BY <1>1, <1>2, <2>1, <2>6, <2>7, <2>8, Zenon DEF StorageInv
<1> QED  BY <1>3, <1>4, Zenon

\* So does a write that fails.
LEMMA FailStep ==
  ASSUME StorageInv, NEW t \in Tabs, WriteFails(t)
  PROVE  StorageInv'
<1>1. /\ op' = [op EXCEPT ![t] = Idle] /\ overlapped' = overlapped \ {t}
      /\ UNCHANGED <<item, refused, cachedRaw, view, cards, threw, behind>>
  BY Zenon DEF WriteFails
<1>2. op'[t] = Idle /\ DOMAIN op' = Tabs /\ \A u \in Tabs : u # t => op'[u] = op[u]
  BY <1>1, Zenon DEF StorageInv
<1>3. ASSUME NEW u \in Tabs PROVE OpOk(u)'
  <2>1. CASE u = t  BY <1>2, <2>1, Zenon DEF OpOk
  <2>2. CASE u # t
    <3>1. OpOk(u) /\ op'[u] = op[u]  BY <1>2, <2>2, Zenon DEF StorageInv
    <3>2. u \in overlapped => u \in overlapped'  BY <1>1, <2>2, Zenon
    <3> QED  BY <1>1, <3>1, <3>2, Zenon DEF OpOk
  <2> QED  BY <2>1, <2>2, Zenon
<1>4. \A u \in Readers : ViewOk(u)'  BY <1>1, Zenon DEF StorageInv, ViewOk
<1> QED  BY <1>1, <1>2, <1>3, <1>4, Zenon DEF StorageInv

\* What a write leaves in storage is a list, or nothing.
LEMMA WrittenItem ==
  ASSUME NEW o, Operation(o)
  PROVE  Item(Written(o))
<1>1. List(o.entries)  BY Zenon DEF Operation, ValidList
<1>2. CASE o.kind = "save"
  <2>1. Written(o) = Save(o.entries, o.receipt)  BY <1>2, Zenon DEF Written
  <2>2. o.receipt \in Signed  BY <1>2, Zenon DEF Operation
  <2> QED  BY <1>1, <2>1, <2>2, SaveFacts, Zenon DEF Item
<1>3. CASE o.kind = "remove"
  <2>1. Written(o) = Without(o.entries, o.receipt.id)  BY <1>3, Zenon DEF Written
  <2>2. List(Without(o.entries, o.receipt.id))  BY <1>1, WithoutFacts, Zenon
  <2> QED  BY <2>1, <2>2, Zenon DEF Item
<1>4. CASE o.kind = "clear"
  <2>1. Written(o) = NoItem  BY <1>4, Zenon DEF Written
  <2> QED  BY <2>1, Zenon DEF Item
<1> QED  BY <1>2, <1>3, <1>4, Zenon DEF Operation

\* So does a write that succeeds.
LEMMA WriteStep ==
  ASSUME StorageInv, NEW t \in Tabs, Write(t)
  PROVE  StorageInv'
<1>1. /\ op[t] # Idle /\ item' = Written(op[t]) /\ op' = [op EXCEPT ![t] = Idle]
      /\ Show(t, item') /\ overlapped' = {u \in Tabs \ {t} : op[u] # Idle}
      /\ behind' = Readers \ {t} /\ UNCHANGED <<refused, threw>>
  BY Zenon DEF Write, Snapshot
<1>2. Operation(op[t])  BY <1>1, Zenon DEF StorageInv, OpOk
<1>3. Item(item')  BY <1>1, <1>2, WrittenItem, Zenon
<1>4. op'[t] = Idle /\ DOMAIN op' = Tabs /\ \A u \in Tabs : u # t => op'[u] = op[u]
  BY <1>1, Zenon DEF StorageInv
<1>5. ASSUME NEW u \in Tabs PROVE OpOk(u)'
  <2>1. CASE op'[u] = Idle  BY <2>1, Zenon DEF OpOk
  <2>2. CASE op'[u] # Idle
    <3>1. u # t /\ op'[u] = op[u] /\ OpOk(u)  BY <1>4, <2>2, Zenon DEF StorageInv
    <3>2. u \in overlapped'  BY <1>1, <2>2, <3>1, Zenon
    <3> QED  BY <2>2, <3>1, <3>2, Zenon DEF OpOk
  <2> QED  BY <2>1, <2>2, Zenon
<1>6. /\ DOMAIN cachedRaw' = Readers /\ DOMAIN view' = Readers /\ DOMAIN cards' = Readers
      /\ \A u \in Readers : u # t => view'[u] = view[u] /\ cards'[u] = cards[u]
      /\ t \in Readers => /\ view'[t] = Parse(item') /\ ValidList(view'[t])
                          /\ Truthful(view'[t], cards'[t])
  BY <1>1, <1>3, ShowStep, Zenon
<1>7. ASSUME NEW u \in Readers PROVE ViewOk(u)'
  <2>1. CASE u = t  BY <1>6, <2>1, Zenon DEF ViewOk
  <2>2. CASE u # t
    <3>1. u \in behind' /\ ViewOk(u)  BY <1>1, <2>2, Zenon DEF StorageInv
    <3> QED  BY <1>6, <2>2, <3>1, Zenon DEF ViewOk
  <2> QED  BY <2>1, <2>2, Zenon
<1> QED  BY <1>1, <1>3, <1>4, <1>5, <1>6, <1>7, Zenon DEF StorageInv

\* So does the verification of a card.
LEMMA VerifyStep ==
  ASSUME StorageInv, NEW t \in Readers, NEW id, VerifyCard(t, id)
  PROVE  StorageInv'
<1>1. /\ UNCHANGED <<item, refused, op, cachedRaw, view, threw, overlapped, behind>>
      /\ id \in Ids(view[t])
  BY Zenon DEF VerifyCard
<1>2. PICK v : /\ cards' = [cards EXCEPT ![t][id] = v]
               /\ \/ v = "verifying"
                  \/ \E e \in Elements(view[t]) :
                       e.receipt.id = id /\ v = IF e.receipt \in GoodSigned THEN "valid" ELSE "invalid"
  BY ZenonT(30) DEF VerifyCard
<1>3. /\ DOMAIN cards' = Readers /\ \A u \in Readers : u # t => cards'[u] = cards[u]
      /\ cards'[t] = [cards[t] EXCEPT ![id] = v]
  BY <1>2, Zenon DEF StorageInv
<1>4. ViewOk(t) /\ DOMAIN cards[t] = Ids(view[t])
  BY Zenon DEF StorageInv, ViewOk, Truthful
<1>5. /\ DOMAIN cards'[t] = Ids(view[t]) /\ cards'[t][id] = v
      /\ \A i \in Ids(view[t]) : i # id => cards'[t][i] = cards[t][i]
  BY <1>1, <1>3, <1>4, Zenon
<1>6. ASSUME NEW e \in Elements(view[t])
      PROVE  /\ cards'[t][e.receipt.id] = "valid" => e.receipt \in GoodSigned
             /\ cards'[t][e.receipt.id] = "invalid" => e.receipt \notin GoodSigned
  <2>1. CASE e.receipt.id # id
    <3>1. cards'[t][e.receipt.id] = cards[t][e.receipt.id]  BY <1>5, <2>1, InIds, Zenon
    <3> QED  BY <1>4, <3>1, Zenon DEF ViewOk, Truthful
  <2>2. CASE e.receipt.id = id
    <3>1. cards'[t][e.receipt.id] = v  BY <1>5, <2>2, Zenon
    <3>2. CASE v = "verifying"  BY <3>1, <3>2, ZenonT(30)
    <3>3. ASSUME NEW f \in Elements(view[t]), f.receipt.id = id,
                 v = IF f.receipt \in GoodSigned THEN "valid" ELSE "invalid"
          PROVE  /\ cards'[t][e.receipt.id] = "valid" => e.receipt \in GoodSigned
                 /\ cards'[t][e.receipt.id] = "invalid" => e.receipt \notin GoodSigned
      <4>1. e \in Entries /\ f \in Entries
        BY <1>4 DEF ViewOk, ValidList, List, Elements
      <4>2. e.receipt \in Signed /\ f.receipt \in Signed  BY <4>1, Zenon DEF Entries
      <4>3. e.receipt = f.receipt  BY <2>2, <3>3, <4>2, SignedAssumption, Zenon
      <4> QED  BY <3>1, <3>3, <4>3, ZenonT(30)
    <3> QED  BY <1>2, <3>2, <3>3, Zenon
  <2> QED  BY <2>1, <2>2, Zenon
<1>7. ASSUME NEW u \in Readers PROVE ViewOk(u)'
  <2>1. CASE u = t  BY <1>1, <1>4, <1>5, <1>6, <2>1, Zenon DEF ViewOk, Truthful
  <2>2. CASE u # t
    <3>1. ViewOk(u) /\ cards'[u] = cards[u]  BY <1>3, <2>2, Zenon DEF StorageInv
    <3> QED  BY <1>1, <3>1, Zenon DEF ViewOk
  <2> QED  BY <2>1, <2>2, Zenon
<1>8. \A u \in Tabs : OpOk(u)'  BY <1>1, Zenon DEF StorageInv, OpOk
<1> QED  BY <1>1, <1>3, <1>7, <1>8, Zenon DEF StorageInv

\* The invariant of the stored history holds throughout.
LEMMA StorageInvariant == StorageSpec => []StorageInv
<1>1. StorageInit => StorageInv
  <2> SUFFICES ASSUME StorageInit PROVE StorageInv
    BY Zenon
  <2>1. Item(item)
    <3>1. CASE item \in {NoItem, NotEntries}  BY <3>1, Zenon DEF Item
    <3>2. CASE item \notin {NoItem, NotEntries}
      <4>1. PICK n \in 0..MAX : item \in [1..n -> Entries] /\ Distinct(item)
        BY <3>2, Zenon DEF StorageInit
      <4>2. item \in Seq(Entries) /\ Len(item) = n /\ n <= MAX  BY <4>1, MAXAssumption
      <4> QED  BY <4>1, <4>2, Zenon DEF Item, List
    <3> QED  BY <3>1, <3>2, Zenon
  <2>2. threw \subseteq refused  BY Zenon DEF StorageInit
  <2>3. DOMAIN op = Tabs /\ \A t \in Tabs : OpOk(t)  BY Zenon DEF StorageInit, OpOk
  <2>4. DOMAIN cachedRaw = Readers /\ DOMAIN view = Readers /\ DOMAIN cards = Readers
    BY Zenon DEF StorageInit
  <2>5. ASSUME NEW t \in Readers PROVE ViewOk(t)
    <3>1. view[t] = <<>> /\ cards[t] = [id \in {} |-> "idle"] /\ t \in behind
      BY Zenon DEF StorageInit
    <3>2. Item(NoItem) /\ Parse(NoItem) = <<>>  BY Zenon DEF Item, Parse
    <3>3. ValidList(<<>>)  BY <3>2, ParseFacts, Zenon
    <3>4. Ids(<<>>) = {} /\ Elements(<<>>) = {}
      <4>1. DOMAIN <<>> = {}  OBVIOUS
      <4> QED  BY <4>1, Zenon DEF Ids, Elements
    <3>5. DOMAIN [id \in {} |-> "idle"] = {}  BY Zenon
    <3>6. Truthful(<<>>, [id \in {} |-> "idle"])  BY <3>4, <3>5, Zenon DEF Truthful
    <3> QED  BY <3>1, <3>3, <3>6, Zenon DEF ViewOk
  <2> QED  BY <2>1, <2>2, <2>3, <2>4, <2>5, Zenon DEF StorageInv
<1>2. StorageInv /\ [StorageNext]_storageVars => StorageInv'
  <2> SUFFICES ASSUME StorageInv, [StorageNext]_storageVars PROVE StorageInv'
    BY Zenon
  <2>1. ASSUME NEW t \in Tabs,
               \/ RenderHistory(t) \/ Write(t) \/ WriteFails(t)
               \/ \E r \in Signed : WebValid(r) /\ Begin(t, "save", r)
               \/ Begin(t, "clear", Idle)
               \/ t \in Readers /\ \E r \in Signed : Begin(t, "remove", r) \/ VerifyCard(t, r.id)
        PROVE  StorageInv'
    <3>1. CASE RenderHistory(t)  BY <3>1, RenderStep, Zenon
    <3>2. CASE Write(t)  BY <3>2, WriteStep, Zenon
    <3>3. CASE WriteFails(t)  BY <3>3, FailStep, Zenon
    <3>4. ASSUME NEW r \in Signed, Begin(t, "save", r) PROVE StorageInv'
      BY <3>4, BeginStep, Zenon
    <3>5. CASE Begin(t, "clear", Idle)  BY <3>5, BeginStep, Zenon
    <3>6. ASSUME NEW r \in Signed, Begin(t, "remove", r) PROVE StorageInv'
      BY <3>6, BeginStep, Zenon
    <3>7. ASSUME t \in Readers, NEW r \in Signed, VerifyCard(t, r.id) PROVE StorageInv'
      BY <3>7, VerifyStep, Zenon
    <3> QED  BY <2>1, <3>1, <3>2, <3>3, <3>4, <3>5, <3>6, <3>7, ZenonT(120)
  <2>2. CASE UNCHANGED storageVars
    BY <2>2, ZenonT(30) DEF storageVars, StorageInv, OpOk, ViewOk
  <2> QED  BY <2>1, <2>2, Zenon DEF StorageNext
<1> QED  BY <1>1, <1>2, PTL DEF StorageSpec

\* Whatever the tabs and older builds have stored, the page can render its history.
THEOREM Renderable == StorageSpec => []HistoryRenderable
<1>1. StorageInv => HistoryRenderable
  <2> SUFFICES ASSUME StorageInv PROVE HistoryRenderable
    BY Zenon
  <2>1. ASSUME NEW t \in Readers
        PROVE  /\ \A e \in Elements(view[t]) : e.dated /\ e.receipt \in ValidSigned
               /\ Distinct(view[t]) /\ Len(view[t]) <= MAX
    <3>1. ValidList(view[t])  BY Zenon DEF StorageInv, ViewOk
    <3>2. DOMAIN view[t] = 1..Len(view[t])  BY <3>1 DEF ValidList, List
    <3> QED  BY <3>1, <3>2, Zenon DEF ValidList, List, Elements, IsValidEntry
  <2> QED  BY <2>1, Zenon DEF HistoryRenderable, StorageInv
<1> QED  BY <1>1, StorageInvariant, PTL

\* A tab shows what is stored unless it is behind, and its cards say what is true.
THEOREM HistoryTrue == StorageSpec => []HistoryIsTrue
<1>1. StorageInv => HistoryIsTrue
  BY Zenon DEF StorageInv, ViewOk, Truthful, HistoryIsTrue
<1> QED  BY <1>1, StorageInvariant, PTL

\* A write that no other tab's write overlaps loses nothing but what it has to.
THEOREM NothingLost == StorageSpec => NothingElseLost
<1> DEFINE Loses(t) ==
      op[t] # Idle /\ op'[t] = Idle /\ item' # item /\ t \notin overlapped /\ op[t].kind # "clear"
        => \A e \in Elements(Parse(item)) :
             \/ e \in Elements(Parse(item')) \/ e.receipt.id = op[t].receipt.id
             \/ op[t].kind = "save" /\ Len(Parse(item)) = MAX /\ e = Parse(item)[MAX]
<1>1. ASSUME StorageInv, [StorageNext]_storageVars, NEW t \in Tabs
      PROVE  Loses(t)
  <2>1. SUFFICES ASSUME op[t] # Idle, op'[t] = Idle, item' # item, t \notin overlapped,
                        op[t].kind # "clear",
                        NEW e \in Elements(Parse(item)),
                        e.receipt.id # op[t].receipt.id,
                        ~(op[t].kind = "save" /\ Len(Parse(item)) = MAX /\ e = Parse(item)[MAX])
                 PROVE  e \in Elements(Parse(item'))
    BY Zenon
  <2>2. PICK u \in Tabs : Write(u)
    BY <1>1, <2>1, ZenonT(30)
       DEF StorageNext, storageVars, RenderHistory, WriteFails, Begin, VerifyCard
  <2>3. u = t
    <3>1. op' = [op EXCEPT ![u] = Idle]  BY <2>2, Zenon DEF Write
    <3> QED  BY <1>1, <2>1, <3>1, Zenon DEF StorageInv
  <2> DEFINE o == op[t]
  <2>4. item' = Written(o)  BY <2>2, <2>3, Zenon DEF Write
  <2>5. Operation(o) /\ o.entries = Parse(item)  BY <1>1, <2>1, Zenon DEF StorageInv, OpOk
  <2>6. ValidList(Parse(item)) /\ List(Parse(item)) /\ DOMAIN Parse(item) = 1..Len(Parse(item))
    <3>1. ValidList(Parse(item))  BY <2>5, Zenon DEF Operation
    <3> QED  BY <3>1 DEF ValidList, List
  <2>7. PICK i \in 1..Len(Parse(item)) : e = Parse(item)[i]
    BY <2>1, <2>6, Zenon DEF Elements
  <2>8. IsValidEntry(e)  BY <2>6, <2>7, Zenon DEF ValidList
  <2> HIDE DEF o
  <2>9. List(item') /\ \E j \in 1..Len(item') : item'[j] = e
    <3>1. CASE o.kind = "save"
      <4>1. item' = Save(Parse(item), o.receipt)  BY <2>4, <2>5, <3>1, Zenon DEF Written
      <4>2. o.receipt \in Signed  BY <2>5, <3>1, Zenon DEF Operation
      <4>3. List(item')  BY <2>6, <4>1, <4>2, SaveFacts, Zenon
      <4>4. \/ Parse(item)[i].receipt.id = o.receipt.id
            \/ Len(Parse(item)) = MAX /\ i = MAX
            \/ \E j \in 1..Len(item') : item'[j] = Parse(item)[i]
        BY <2>6, <4>1, <4>2, SaveFacts, Zenon
      <4> QED  BY <2>1, <2>7, <3>1, <4>3, <4>4, Zenon DEF o
    <3>2. CASE o.kind = "remove"
      <4>1. item' = Without(Parse(item), o.receipt.id)  BY <2>4, <2>5, <3>2, ZenonT(30) DEF Written
      <4>2. List(item')  BY <2>6, <4>1, WithoutFacts, ZenonT(30)
      <4>3. Parse(item)[i].receipt.id # o.receipt.id
              => \E j \in 1..Len(item') : item'[j] = Parse(item)[i]
        BY <2>6, <4>1, WithoutFacts
      <4> QED  BY <2>1, <2>7, <4>2, <4>3, Zenon DEF o
    <3> QED  BY <2>1, <2>5, <3>1, <3>2, Zenon DEF Operation, o
  <2>10. PICK j \in 1..Len(item') : item'[j] = e  BY <2>9, Zenon
  <2>11. Item(item')  BY <2>9, Zenon DEF Item
  <2>12. \E k \in 1..Len(Parse(item')) : Parse(item')[k] = item'[j]
    BY <2>8, <2>9, <2>10, <2>11, ParseFacts, Zenon
  <2>13. DOMAIN Parse(item') = 1..Len(Parse(item'))
    <3>1. ValidList(Parse(item'))  BY <2>11, ParseFacts, Zenon
    <3> QED  BY <3>1 DEF ValidList, List
  <2> QED  BY <2>10, <2>12, <2>13, Zenon DEF Elements
<1>2. StorageInv /\ [StorageNext]_storageVars => [\A t \in Tabs : Loses(t)]_storageVars
  BY <1>1, Zenon
<1> QED  BY <1>2, StorageInvariant, PTL DEF StorageSpec, NothingElseLost
-----------------------------------------------------------------------------
(* The wallet widget.  The page knows of the wallet what the messages that *)
(* it has taken say; the ones on their way lead from there to the wallet's *)
(* own state.                                                              *)

AccountAnswers == {"load account", "form account", "connect"}
ChainAnswers == {"load chain", "handler chain", "connect chain", "switch chain"}
WalletAccounts == Accounts \cup {NoAccount}

Informs(m, answers) == m.to \in answers /\ m.value \notin {Failed, Rejected}

\* h is what the wallet had before each of the messages s, and after the last: events
\* called name change it, and answers tell it.
Explains(h, s, name, answers) ==
  \A i \in 1..Len(s) :
    IF s[i].to = name THEN h[i + 1] = s[i].value
    ELSE h[i + 1] = h[i] /\ (Informs(s[i], answers) => s[i].value = h[i])

\* The messages s lead from old to new.
Trail(s, name, answers, V, old, new) ==
  \E h \in [1..(Len(s) + 1) -> V] :
    h[1] = old /\ h[Len(s) + 1] = new /\ Explains(h, s, name, answers)

\* Nothing has happened if nothing is on its way.
LEMMA TrailEmpty ==
  ASSUME NEW name, NEW answers, NEW V, NEW old, NEW new
  PROVE  /\ Trail(<<>>, name, answers, V, old, new) => old = new
         /\ old \in V => Trail(<<>>, name, answers, V, old, old)
<1>1. Trail(<<>>, name, answers, V, old, new) => old = new  BY DEF Trail
<1>2. ASSUME old \in V PROVE Trail(<<>>, name, answers, V, old, old)
  <2> DEFINE h == [i \in 1..(Len(<<>>) + 1) |-> old]
  <2>1. h \in [1..(Len(<<>>) + 1) -> V]  BY <1>2, Zenon
  <2>2. h[1] = old /\ h[Len(<<>>) + 1] = old  OBVIOUS
  <2>3. Explains(h, <<>>, name, answers)  BY DEF Explains
  <2> QED  BY <2>1, <2>2, <2>3, Zenon DEF Trail
<1> QED  BY <1>1, <1>2, Zenon

\* Appending keeps to the kind of the messages.
LEMMA AppendIn == ASSUME NEW M, NEW s \in Seq(M), NEW e \in M PROVE Append(s, e) \in Seq(M)
  OBVIOUS

\* Taking the only one.
LEMMA SingleTail == ASSUME NEW x PROVE Tail(<<x>>) = <<>> /\ Head(<<x>>) = x  OBVIOUS

\* Both ends are things a wallet can have.
LEMMA TrailEnds ==
  ASSUME NEW s, Len(s) \in Nat, NEW name, NEW answers, NEW V, NEW old, NEW new,
         Trail(s, name, answers, V, old, new)
  PROVE  old \in V /\ new \in V
<1>1. 1 \in 1..(Len(s) + 1) /\ Len(s) + 1 \in 1..(Len(s) + 1)  OBVIOUS
<1> QED  BY <1>1, Zenon DEF Trail

\* Another message: an event, or an answer that tells what the wallet has.
LEMMA TrailAppend ==
  ASSUME NEW M, NEW s \in Seq(M), NEW e \in M, NEW name, NEW answers, NEW V, NEW old, NEW new, NEW next \in V,
         Trail(s, name, answers, V, old, new),
         IF e.to = name THEN next = e.value
         ELSE next = new /\ (Informs(e, answers) => e.value = new)
  PROVE  Trail(Append(s, e), name, answers, V, old, next)
<1>1. PICK h \in [1..(Len(s) + 1) -> V] :
        h[1] = old /\ h[Len(s) + 1] = new /\ Explains(h, s, name, answers)
  BY Zenon DEF Trail
<1> DEFINE t == Append(s, e)
<1>2. Len(s) \in Nat /\ Len(t) = Len(s) + 1 /\ t[Len(s) + 1] = e /\ \A i \in 1..Len(s) : t[i] = s[i]
  OBVIOUS
<1> DEFINE g == [i \in 1..(Len(t) + 1) |-> IF i \in 1..(Len(s) + 1) THEN h[i] ELSE next]
<1> HIDE DEF t
<1>3. g \in [1..(Len(t) + 1) -> V]  BY Zenon
<1>4. g[1] = old /\ g[Len(t) + 1] = next  BY <1>1, <1>2
<1>5. Explains(g, t, name, answers)
  <2>1. SUFFICES ASSUME NEW i \in 1..Len(t)
                 PROVE  IF t[i].to = name THEN g[i + 1] = t[i].value
                        ELSE g[i + 1] = g[i] /\ (Informs(t[i], answers) => t[i].value = g[i])
    BY Zenon DEF Explains
  <2>2. CASE i \in 1..Len(s)
    <3>1. g[i] = h[i] /\ g[i + 1] = h[i + 1] /\ t[i] = s[i]  BY <1>2, <2>2
    <3>2. IF s[i].to = name THEN h[i + 1] = s[i].value
          ELSE h[i + 1] = h[i] /\ (Informs(s[i], answers) => s[i].value = h[i])
      BY <1>1, <2>2, Zenon DEF Explains
    <3> QED  BY <3>1, <3>2, Zenon
  <2>3. CASE i = Len(s) + 1
    <3>0. i \in 1..(Len(t) + 1) /\ i + 1 \in 1..(Len(t) + 1) /\ i \in 1..(Len(s) + 1) /\ i + 1 \notin 1..(Len(s) + 1)
      BY <1>2, <2>3
    <3>1. g[i] = new /\ g[i + 1] = next /\ t[i] = e  BY <1>1, <1>2, <2>3, <3>0, Zenon
    <3> QED  BY <3>1, Zenon
  <2>4. i \in 1..Len(s) \/ i = Len(s) + 1  BY <1>2
  <2> QED  BY <2>2, <2>3, <2>4, Zenon
<1>6. Trail(t, name, answers, V, old, next)
  <2> HIDE DEF g
  <2> QED  BY <1>3, <1>4, <1>5, Zenon DEF Trail
<1> QED  BY <1>6, Zenon DEF t

\* One message less: an event says where the rest begins, an answer tells it.
LEMMA TrailTail ==
  ASSUME NEW M, NEW s \in Seq(M), s # <<>>, NEW name, NEW answers, NEW V, NEW old, NEW new,
         Trail(s, name, answers, V, old, new)
  PROVE  /\ Head(s).to = name => Trail(Tail(s), name, answers, V, Head(s).value, new)
         /\ Head(s).to # name => /\ Trail(Tail(s), name, answers, V, old, new)
                                 /\ Informs(Head(s), answers) => Head(s).value = old
<1>1. PICK h \in [1..(Len(s) + 1) -> V] :
        h[1] = old /\ h[Len(s) + 1] = new /\ Explains(h, s, name, answers)
  BY Zenon DEF Trail
<1> DEFINE t == Tail(s)
<1>2. Len(s) \in Nat /\ Len(s) >= 1 /\ Len(t) = Len(s) - 1 /\ Head(s) = s[1] /\ \A i \in 1..Len(t) : t[i] = s[i + 1]
  OBVIOUS
<1> DEFINE g == [i \in 1..(Len(t) + 1) |-> h[i + 1]]
<1> HIDE DEF t
<1>3. g \in [1..(Len(t) + 1) -> V]  BY <1>2
<1>4. g[1] = h[2] /\ g[Len(t) + 1] = new  BY <1>1, <1>2
<1>5. Explains(g, t, name, answers)
  <2>1. SUFFICES ASSUME NEW i \in 1..Len(t)
                 PROVE  IF t[i].to = name THEN g[i + 1] = t[i].value
                        ELSE g[i + 1] = g[i] /\ (Informs(t[i], answers) => t[i].value = g[i])
    BY Zenon DEF Explains
  <2>2. i + 1 \in 1..Len(s) /\ g[i] = h[i + 1] /\ g[i + 1] = h[(i + 1) + 1] /\ t[i] = s[i + 1]  BY <1>2
  <2>3. IF s[i + 1].to = name THEN h[(i + 1) + 1] = s[i + 1].value
        ELSE h[(i + 1) + 1] = h[i + 1] /\ (Informs(s[i + 1], answers) => s[i + 1].value = h[i + 1])
    BY <1>1, <2>2, Zenon DEF Explains
  <2> QED  BY <2>2, <2>3, Zenon
<1>6. Trail(t, name, answers, V, h[2], new)
  <2> HIDE DEF g
  <2> QED  BY <1>3, <1>4, <1>5, Zenon DEF Trail
<1>7. 1 \in 1..Len(s) /\ 1 + 1 = 2  BY <1>2
<1>8. IF s[1].to = name THEN h[2] = s[1].value
      ELSE h[2] = h[1] /\ (Informs(s[1], answers) => s[1].value = h[1])
  BY <1>1, <1>7, Zenon DEF Explains
<1> QED  BY <1>1, <1>2, <1>6, <1>8, Zenon DEF t
-----------------------------------------------------------------------------
\* What each kind of message can carry.
Fits(m) ==
  /\ m.to = "accounts" => m.value \in WalletAccounts
  /\ m.to = "chain" => m.value \in Chains
  /\ m.to = "connect" => m.value \in Accounts \cup {Failed, Rejected}
  /\ m.to \in {"load account", "form account"} => m.value \in WalletAccounts \cup {Failed}
  /\ m.to \in ChainAnswers => m.value \in Chains \cup {Failed}

Messages ==
  {m \in [to : Requests \cup {"accounts", "chain"},
          value : WalletAccounts \cup Chains \cup {Failed, Rejected}] : Fits(m)}

NoneTo(s, q) == \A i \in DOMAIN s : s[i].to # q
OneTo(s, q) == \E i \in DOMAIN s : s[i].to = q /\ \A j \in DOMAIN s : s[j].to = q => j = i
EventsOnly(s) == \A i \in DOMAIN s : s[i].to \in {"accounts", "chain"}

NotAsked(q) == asked[q] = 0 /\ NoneTo(inbox, q)
AskedOnce(q) == (asked[q] = 1 /\ NoneTo(inbox, q)) \/ (asked[q] = 0 /\ OneTo(inbox, q))

\* The messages s lead from account a and chain c to account x and chain y.
Leads(s, a, c, x, y) ==
  /\ Trail(s, "accounts", AccountAnswers, WalletAccounts, a, x)
  /\ Trail(s, "chain", ChainAnswers, Chains, c, y)

WidgetTypes ==
  /\ live \in WalletAccounts /\ chain \in Chains
  /\ asked \in [Requests -> Nat] /\ inbox \in Seq(Messages)
  /\ mounted \in BOOLEAN /\ subscribed \in BOOLEAN /\ raced \in BOOLEAN

\* Before load(), or without a wallet.
Unloaded ==
  /\ ~subscribed /\ asked = Nothing /\ EventsOnly(inbox)
  /\ handling = <<>> /\ connecting = NoAccount /\ ident = NoAccount
  /\ \/ loading = "start" /\ widget = Loading /\ read = [account |-> Unread, chain |-> Unread]
     \/ loading = "done" /\ widget = Missing

\* What is outstanding is what the handlers wait for.
Counted ==
  /\ IF handling = <<>> THEN NotAsked("handler chain") ELSE AskedOnce("handler chain")
  /\ IF connecting = NoAccount
     THEN NotAsked("connect chain") /\ (NotAsked("connect") \/ AskedOnce("connect"))
     ELSE AskedOnce("connect chain") /\ NotAsked("connect")

\* load() has read nothing but what the page has been told.
Reads(a, c) ==
  /\ loading = "reading" /\ widget = Loading
  /\ read \in [account : {Unread, a}, chain : {Unread, c}]
  /\ handling = <<>> /\ connecting = NoAccount /\ NotAsked("connect")

\* The widget shows it, or the one handler of the change is under way.
Shows(a, c) ==
  /\ loading = "done"
  /\ widget = Disconnected \/ \E b \in Accounts : widget = Connected(b, c)
  /\ (handling = <<>> /\ Address(widget) = a) \/ (handling = <<a>> /\ a \in Accounts)
  /\ connecting \in {NoAccount, a}

Known(a, c) ==
  \/ Unloaded
  \/ subscribed /\ Counted /\ ident \in {NoAccount, a} /\ (Reads(a, c) \/ Shows(a, c))

\* The invariant: the page knows where the messages begin that lead to the wallet's state.
WidgetInv ==
  /\ WidgetTypes
  /\ ~mounted => ~subscribed
  /\ \E a \in WalletAccounts, c \in Chains :
       Leads(inbox, a, c, live, chain) /\ (mounted /\ ~raced => Known(a, c))

\* A quiet page shows the wallet.
LEMMA QuietShows == ASSUME WidgetInv PROVE FollowsWallet
<1>1. PICK a \in WalletAccounts, c \in Chains :
        Leads(inbox, a, c, live, chain) /\ (mounted /\ ~raced => Known(a, c))
  BY Zenon DEF WidgetInv
<1>2. ~mounted => ~subscribed  BY Zenon DEF WidgetInv
<1>3. ASSUME Quiet, ~raced
      PROVE  /\ widget # Missing => widget = IF live = NoAccount THEN Disconnected ELSE Connected(live, chain)
             /\ ident \in {NoAccount, live}
  <2>1. mounted /\ inbox = <<>> /\ loading = "done" /\ handling = <<>>  BY <1>3, Zenon DEF Quiet, Unsettled
  <2>2. a = live /\ c = chain  BY <1>1, <2>1, TrailEmpty, Zenon DEF Leads
  <2>3. Known(live, chain)  BY <1>1, <1>3, <2>1, <2>2, Zenon
  <2>4. CASE Unloaded
    <3>1. widget = Missing /\ ident = NoAccount  BY <2>1, <2>4, Zenon DEF Unloaded
    <3> QED  BY <3>1, Zenon
  <2>5. CASE Shows(live, chain) /\ ident \in {NoAccount, live}
    <3>1. Address(widget) = live  BY <2>1, <2>5, Zenon DEF Shows
    <3>2. CASE widget = Disconnected
      <4>1. Address(widget) = NoAccount  BY <3>2, Zenon DEF Address, Disconnected
      <4> QED  BY <2>5, <3>1, <3>2, <4>1, Zenon
    <3>3. ASSUME NEW b \in Accounts, widget = Connected(b, chain)
          PROVE  widget = IF live = NoAccount THEN Disconnected ELSE Connected(live, chain)
      <4>1. Address(widget) = b  BY <3>3, Zenon DEF Address, Connected
      <4>2. b # NoAccount  BY WidgetAssumption, Zenon
      <4> QED  BY <3>1, <3>3, <4>1, <4>2, Zenon
    <3> QED  BY <2>5, <3>2, <3>3, Zenon DEF Shows
  <2>6. ~Reads(live, chain)  BY <2>1, Zenon DEF Reads
  <2> QED  BY <2>3, <2>4, <2>5, <2>6, Zenon DEF Known
<1> QED  BY <1>2, <1>3, Zenon DEF FollowsWallet

-----------------------------------------------------------------------------
\* Appending a message, as far as the counts are concerned.
LEMMA ToAppend ==
  ASSUME NEW M, NEW s \in Seq(M), NEW e \in M, NEW q
  PROVE  /\ e.to # q => /\ NoneTo(s, q) => NoneTo(Append(s, e), q)
                        /\ OneTo(s, q) => OneTo(Append(s, e), q)
         /\ e.to = q /\ NoneTo(s, q) => OneTo(Append(s, e), q)
         /\ EventsOnly(s) /\ e.to \in {"accounts", "chain"} => EventsOnly(Append(s, e))
<1> DEFINE t == Append(s, e)
<1>1. /\ DOMAIN s = 1..Len(s) /\ DOMAIN t = 1..(Len(s) + 1) /\ Len(s) \in Nat
      /\ t[Len(s) + 1] = e /\ \A i \in DOMAIN s : t[i] = s[i]
  OBVIOUS
<1>2. \A i \in DOMAIN t : i \in DOMAIN s \/ i = Len(s) + 1  BY <1>1
<1>3. DOMAIN s \subseteq DOMAIN t /\ Len(s) + 1 \in DOMAIN t  BY <1>1
<1> HIDE DEF t
<1>4. ASSUME e.to # q PROVE NoneTo(s, q) => NoneTo(t, q)  BY <1>1, <1>2, <1>4, Zenon DEF NoneTo
<1>5. ASSUME e.to # q, OneTo(s, q) PROVE OneTo(t, q)
  <2>1. PICK i \in DOMAIN s : s[i].to = q /\ \A j \in DOMAIN s : s[j].to = q => j = i
    BY <1>5, Zenon DEF OneTo
  <2>2. i \in DOMAIN t /\ t[i].to = q  BY <1>1, <1>3, <2>1, Zenon
  <2>3. \A j \in DOMAIN t : t[j].to = q => j = i  BY <1>1, <1>2, <1>5, <2>1, Zenon
  <2> QED  BY <2>2, <2>3, Zenon DEF OneTo
<1>6. ASSUME e.to = q, NoneTo(s, q) PROVE OneTo(t, q)
  <2>1. \A j \in DOMAIN t : t[j].to = q => j = Len(s) + 1  BY <1>1, <1>2, <1>6, Zenon DEF NoneTo
  <2> QED  BY <1>1, <1>3, <1>6, <2>1, Zenon DEF OneTo
<1>7. EventsOnly(s) /\ e.to \in {"accounts", "chain"} => EventsOnly(t)
  BY <1>1, <1>2, Zenon DEF EventsOnly
<1> QED  BY <1>4, <1>5, <1>6, <1>7, Zenon DEF t

\* Taking the first, as far as the counts are concerned.
LEMMA ToTail ==
  ASSUME NEW M, NEW s \in Seq(M), s # <<>>, NEW q
  PROVE  /\ NoneTo(s, q) => NoneTo(Tail(s), q) /\ Head(s).to # q
         /\ OneTo(s, q) /\ Head(s).to = q => NoneTo(Tail(s), q)
         /\ OneTo(s, q) /\ Head(s).to # q => OneTo(Tail(s), q)
         /\ EventsOnly(s) => EventsOnly(Tail(s)) /\ Head(s).to \in {"accounts", "chain"}
<1> DEFINE t == Tail(s)
<1>1. /\ DOMAIN s = 1..Len(s) /\ DOMAIN t = 1..(Len(s) - 1) /\ Len(s) \in Nat /\ Len(s) >= 1
      /\ Head(s) = s[1] /\ 1 \in DOMAIN s
      /\ \A i \in DOMAIN t : t[i] = s[i + 1]
  OBVIOUS
<1>2. \A i \in DOMAIN t : i + 1 \in DOMAIN s /\ i + 1 # 1  BY <1>1
<1>3. \A i \in DOMAIN s : i = 1 \/ (i - 1 \in DOMAIN t /\ (i - 1) + 1 = i)  BY <1>1
<1>4. \A i, j \in DOMAIN t : i + 1 = j + 1 => i = j  BY <1>1
<1> HIDE DEF t
<1>5. NoneTo(s, q) => NoneTo(t, q) /\ Head(s).to # q  BY <1>1, <1>2, Zenon DEF NoneTo
<1>6. ASSUME OneTo(s, q)
      PROVE  IF Head(s).to = q THEN NoneTo(t, q) ELSE OneTo(t, q)
  <2>1. PICK i \in DOMAIN s : s[i].to = q /\ \A j \in DOMAIN s : s[j].to = q => j = i
    BY <1>6, Zenon DEF OneTo
  <2>2. CASE Head(s).to = q
    <3>1. i = 1  BY <1>1, <2>1, <2>2, Zenon
    <3>2. \A j \in DOMAIN t : t[j].to # q  BY <1>1, <1>2, <2>1, <3>1, Zenon
    <3> QED  BY <2>2, <3>2, Zenon DEF NoneTo
  <2>3. CASE Head(s).to # q
    <3>1. i # 1  BY <1>1, <2>1, <2>3, Zenon
    <3>2. i - 1 \in DOMAIN t /\ (i - 1) + 1 = i  BY <1>3, <3>1, Zenon
    <3> DEFINE k == i - 1
    <3>3. k \in DOMAIN t /\ k + 1 = i  BY <3>2, Zenon
    <3> HIDE DEF k
    <3>4. t[k].to = q  BY <1>1, <2>1, <3>3, Zenon
    <3>5. ASSUME NEW j \in DOMAIN t, t[j].to = q PROVE j = k
      <4>1. j + 1 = i  BY <1>1, <1>2, <2>1, <3>5, Zenon
      <4> QED  BY <1>4, <3>3, <3>5, <4>1, Zenon
    <3> QED  BY <2>3, <3>3, <3>4, <3>5, Zenon DEF OneTo
  <2> QED  BY <2>2, <2>3, Zenon
<1>7. EventsOnly(s) => EventsOnly(t) /\ Head(s).to \in {"accounts", "chain"}
  BY <1>1, <1>2, Zenon DEF EventsOnly
<1> QED  BY <1>5, <1>6, <1>7, Zenon DEF t

\* s is followed by a message or by none, and t is the result: no request is answered.
Follows(s, t) ==
  /\ \A q \in Requests : /\ NoneTo(s, q) => NoneTo(t, q)
                         /\ OneTo(s, q) => OneTo(t, q)
  /\ EventsOnly(s) => EventsOnly(t)

\* An event, if the account changes.
LEMMA AccountEvent ==
  ASSUME NEW s \in Seq(Messages), NEW a, NEW c, NEW x, NEW y, Leads(s, a, c, x, y),
         NEW z \in WalletAccounts
  PROVE  /\ s \o Event("accounts", x, z) \in Seq(Messages)
         /\ Leads(s \o Event("accounts", x, z), a, c, z, y)
         /\ Follows(s, s \o Event("accounts", x, z))
<1>0. PICK t : t = s \o Event("accounts", x, z)  BY Zenon
<1>1. CASE x = z
  <2>1. t = s  BY <1>0, <1>1 DEF Event
  <2> QED  BY <1>0, <1>1, <2>1, Zenon DEF Follows
<1>2. CASE x # z
  <2> DEFINE e == Message("accounts", z)
  <2>1. e.to = "accounts" /\ e.value = z  BY Zenon DEF Message
  <2>2. e \in Messages
    <3>1. e \in [to : Requests \cup {"accounts", "chain"},
                 value : WalletAccounts \cup Chains \cup {Failed, Rejected}]
      BY Zenon DEF Message
    <3> HIDE DEF e
    <3>2. Fits(e)  BY <2>1, Zenon DEF Fits, ChainAnswers
    <3> QED  BY <3>1, <3>2, Zenon DEF Messages
  <2>3. t = Append(s, e)  BY <1>0, <1>2, <2>2 DEF Event
  <2> HIDE DEF e
  <2>4. t \in Seq(Messages)  BY <2>2, <2>3, AppendIn, Zenon
  <2>5. Trail(t, "accounts", AccountAnswers, WalletAccounts, a, z)
    BY <2>1, <2>2, <2>3, TrailAppend, Zenon DEF Leads
  <2>6. y \in Chains /\ ~Informs(e, ChainAnswers) /\ e.to # "chain"
    <3>1. Trail(s, "chain", ChainAnswers, Chains, c, y)  BY Zenon DEF Leads
    <3>2. y \in Chains  BY <3>1, TrailEnds
    <3>3. e.to \notin ChainAnswers /\ e.to # "chain"  BY <2>1, Zenon DEF ChainAnswers
    <3> QED  BY <3>2, <3>3, Zenon DEF Informs
  <2>7. Trail(t, "chain", ChainAnswers, Chains, c, y)
    BY <2>2, <2>3, <2>6, TrailAppend, Zenon DEF Leads
  <2>8. \A q \in Requests : e.to # q  BY <2>1, Zenon DEF Requests
  <2>9. Follows(s, t)  BY <2>1, <2>2, <2>3, <2>8, ToAppend, Zenon DEF Follows
  <2> QED  BY <1>0, <2>4, <2>5, <2>7, <2>9, Zenon DEF Leads
<1> QED  BY <1>1, <1>2, Zenon

\* An event, if the chain changes.
LEMMA ChainEvent ==
  ASSUME NEW s \in Seq(Messages), NEW a, NEW c, NEW x, NEW y, Leads(s, a, c, x, y),
         NEW z \in Chains
  PROVE  /\ s \o Event("chain", y, z) \in Seq(Messages)
         /\ Leads(s \o Event("chain", y, z), a, c, x, z)
         /\ Follows(s, s \o Event("chain", y, z))
<1>0. PICK t : t = s \o Event("chain", y, z)  BY Zenon
<1>1. CASE y = z
  <2>1. t = s  BY <1>0, <1>1 DEF Event
  <2> QED  BY <1>0, <1>1, <2>1, Zenon DEF Follows
<1>2. CASE y # z
  <2> DEFINE e == Message("chain", z)
  <2>1. e.to = "chain" /\ e.value = z  BY Zenon DEF Message
  <2>2. e \in Messages
    <3>1. e \in [to : Requests \cup {"accounts", "chain"},
                 value : WalletAccounts \cup Chains \cup {Failed, Rejected}]
      BY Zenon DEF Message
    <3> HIDE DEF e
    <3>2. Fits(e)  BY <2>1, Zenon DEF Fits, ChainAnswers
    <3> QED  BY <3>1, <3>2, Zenon DEF Messages
  <2>3. t = Append(s, e)  BY <1>0, <1>2, <2>2 DEF Event
  <2> HIDE DEF e
  <2>4. t \in Seq(Messages)  BY <2>2, <2>3, AppendIn, Zenon
  <2>5. Trail(t, "chain", ChainAnswers, Chains, c, z)
    BY <2>1, <2>2, <2>3, TrailAppend, Zenon DEF Leads
  <2>6. x \in WalletAccounts /\ ~Informs(e, AccountAnswers) /\ e.to # "accounts"
    <3>1. Trail(s, "accounts", AccountAnswers, WalletAccounts, a, x)  BY Zenon DEF Leads
    <3>2. x \in WalletAccounts  BY <3>1, TrailEnds
    <3>3. e.to \notin AccountAnswers /\ e.to # "accounts"  BY <2>1, Zenon DEF AccountAnswers
    <3> QED  BY <3>2, <3>3, Zenon DEF Informs
  <2>7. Trail(t, "accounts", AccountAnswers, WalletAccounts, a, x)
    BY <2>2, <2>3, <2>6, TrailAppend, Zenon DEF Leads
  <2>8. \A q \in Requests : e.to # q  BY <2>1, Zenon DEF Requests
  <2>9. Follows(s, t)  BY <2>1, <2>2, <2>3, <2>8, ToAppend, Zenon DEF Follows
  <2> QED  BY <1>0, <2>4, <2>5, <2>7, <2>9, Zenon DEF Leads
<1> QED  BY <1>1, <1>2, Zenon

\* The answer to a request, which tells what the wallet has.
LEMMA AnswerSent ==
  ASSUME NEW s \in Seq(Messages), NEW a, NEW c, NEW x, NEW y, Leads(s, a, c, x, y),
         NEW q \in Requests, NEW v, Message(q, v) \in Messages,
         q \in AccountAnswers /\ v \notin {Failed, Rejected} => v = x,
         q \in ChainAnswers /\ v \notin {Failed, Rejected} => v = y
  PROVE  /\ Append(s, Message(q, v)) \in Seq(Messages)
         /\ Leads(Append(s, Message(q, v)), a, c, x, y)
<1> DEFINE e == Message(q, v)
<1>1. e.to = q /\ e.value = v /\ q \notin {"accounts", "chain"}  BY Zenon DEF Message, Requests
<1>2. x \in WalletAccounts /\ y \in Chains
  <2>1. Len(s) \in Nat  OBVIOUS
  <2> QED  BY <2>1, TrailEnds, Zenon DEF Leads
<1>3. e.to # "accounts" /\ e.to # "chain"  BY <1>1, Zenon
<1>4. Informs(e, AccountAnswers) => e.value = x  BY <1>1, Zenon DEF Informs
<1>5. Informs(e, ChainAnswers) => e.value = y  BY <1>1, Zenon DEF Informs
<1> HIDE DEF e
<1>6. e \in Messages  BY Zenon DEF e
<1>7. Append(s, e) \in Seq(Messages)  BY <1>6
<1>8. Trail(Append(s, e), "accounts", AccountAnswers, WalletAccounts, a, x)
  BY <1>2, <1>3, <1>4, <1>6, TrailAppend, Zenon DEF Leads
<1>9. Trail(Append(s, e), "chain", ChainAnswers, Chains, c, y)
  BY <1>2, <1>3, <1>5, <1>6, TrailAppend, Zenon DEF Leads
<1> QED  BY <1>7, <1>8, <1>9, Zenon DEF Leads, e

\* What the page knows survives steps of the wallet that keep to the counts.
LEMMA KnownKept ==
  ASSUME NEW a, NEW c, Known(a, c), UNCHANGED pageVars,
         asked = Nothing /\ EventsOnly(inbox) => asked' = Nothing /\ EventsOnly(inbox'),
         \A q \in Requests : (NotAsked(q) => NotAsked(q)') /\ (AskedOnce(q) => AskedOnce(q)')
  PROVE  Known(a, c)'
<1>1. UNCHANGED <<mounted, loading, read, subscribed, widget, handling, connecting, ident>>
  BY Zenon DEF pageVars
<1>2. Unloaded => Unloaded'  BY <1>1, Zenon DEF Unloaded
<1>3. {"handler chain", "connect chain", "connect"} \subseteq Requests  BY Zenon DEF Requests
<1>4. Reads(a, c) => Reads(a, c)'  BY <1>1, <1>3, Zenon DEF Reads
<1>5. Shows(a, c) => Shows(a, c)'  BY <1>1, Zenon DEF Shows, Address
<1>6. Counted => Counted'
  <2>1. handling' = handling /\ connecting' = connecting  BY <1>1, Zenon
  <2> QED  BY <1>3, <2>1, Zenon DEF Counted
<1> QED  BY <1>1, <1>2, <1>4, <1>5, <1>6, Zenon DEF Known

\* A reply: events for what has changed, and the answer.
LEMMA ReplyStep ==
  ASSUME WidgetInv, NEW q \in Requests, asked[q] > 0, NEW v, NEW x \in WalletAccounts, NEW y \in Chains,
         Reply(q, v, x, y), Message(q, v) \in Messages,
         q \in AccountAnswers /\ v \notin {Failed, Rejected} => v = x,
         q \in ChainAnswers /\ v \notin {Failed, Rejected} => v = y
  PROVE  WidgetInv'
<1>1. WidgetTypes  BY Zenon DEF WidgetInv
<1>2. PICK a \in WalletAccounts, c \in Chains :
        Leads(inbox, a, c, live, chain) /\ (mounted /\ ~raced => Known(a, c))
  BY Zenon DEF WidgetInv
<1>3. inbox \in Seq(Messages)  BY <1>1, Zenon DEF WidgetTypes
<1>4. PICK s : s = inbox \o Event("accounts", live, x)  BY Zenon
<1>5. PICK t : t = s \o Event("chain", chain, y)  BY Zenon
<1>6. Leads(inbox, a, c, live, chain)  BY <1>2, Zenon
<1>7. s \in Seq(Messages) /\ Leads(s, a, c, x, chain) /\ Follows(inbox, s)
  BY <1>3, <1>4, <1>6, AccountEvent, Zenon
<1>8. t \in Seq(Messages) /\ Leads(t, a, c, x, y) /\ Follows(s, t)
  BY <1>7, <1>5, ChainEvent, Zenon
<1>9. /\ live' = x /\ chain' = y /\ asked' = [asked EXCEPT ![q] = @ - 1]
      /\ inbox' = t \o <<Message(q, v)>> /\ UNCHANGED pageVars
  BY <1>4, <1>5, Zenon DEF Reply
<1>10. inbox' = Append(t, Message(q, v))  BY <1>8, <1>9
<1>11. inbox' \in Seq(Messages) /\ Leads(inbox', a, c, x, y)
  BY <1>8, <1>10, AnswerSent, Zenon
<1>12. asked' \in [Requests -> Nat] /\ asked'[q] = asked[q] - 1
      /\ \A p \in Requests \ {q} : asked'[p] = asked[p]
  BY <1>1, <1>9 DEF WidgetTypes
<1>13. UNCHANGED <<mounted, subscribed, raced>>  BY <1>9, Zenon DEF pageVars
<1>14. WidgetTypes'  BY <1>1, <1>9, <1>11, <1>12, <1>13, Zenon DEF WidgetTypes
<1>15. Message(q, v).to = q  BY Zenon DEF Message
<1>16. \A p \in Requests : (NoneTo(inbox, p) => NoneTo(t, p)) /\ (OneTo(inbox, p) => OneTo(t, p))
  BY <1>7, <1>8, Zenon DEF Follows
<1>17. ASSUME NEW p \in Requests
       PROVE  (NotAsked(p) => NotAsked(p)') /\ (AskedOnce(p) => AskedOnce(p)')
  <2>1. CASE p = q
    <3>1. NoneTo(inbox, p) => OneTo(inbox', p)  BY <1>8, <1>10, <1>15, <1>16, <2>1, ToAppend, Zenon
    <3>2. asked[p] # 0 /\ (asked[p] = 1 => asked'[p] = 0)  BY <1>1, <1>12, <2>1 DEF WidgetTypes
    <3> QED  BY <3>1, <3>2, Zenon DEF NotAsked, AskedOnce
  <2>2. CASE p # q
    <3>1. (NoneTo(inbox, p) => NoneTo(inbox', p)) /\ (OneTo(inbox, p) => OneTo(inbox', p))
      BY <1>8, <1>10, <1>15, <1>16, <2>2, ToAppend, Zenon
    <3>2. asked'[p] = asked[p]  BY <1>12, <2>2, Zenon
    <3> QED  BY <3>1, <3>2, Zenon DEF NotAsked, AskedOnce
  <2> QED  BY <2>1, <2>2, Zenon
<1>18. asked # Nothing  BY <1>1 DEF Nothing
<1>19. mounted' /\ ~raced' => Known(a, c)'
  BY <1>2, <1>9, <1>13, <1>17, <1>18, KnownKept, Zenon
<1>20. ~mounted' => ~subscribed'  BY <1>13, Zenon DEF WidgetInv
<1>21. Leads(inbox, a, c, live, chain)'  BY <1>9, <1>11, Zenon DEF Leads, Trail
<1> QED  BY <1>14, <1>19, <1>20, <1>21, Zenon DEF WidgetInv

\* A message from the wallet.
LEMMA MessageIn ==
  ASSUME NEW q \in Requests, NEW v \in WalletAccounts \cup Chains \cup {Failed, Rejected},
         q = "connect" => v \in Accounts \cup {Failed, Rejected},
         q \in {"load account", "form account"} => v \in WalletAccounts \cup {Failed},
         q \in ChainAnswers => v \in Chains \cup {Failed}
  PROVE  Message(q, v) \in Messages
<1>1. PICK m : m = Message(q, v)  BY Zenon
<1>2. m.to = q /\ m.value = v  BY <1>1, Zenon DEF Message
<1>3. m \in [to : Requests \cup {"accounts", "chain"},
             value : WalletAccounts \cup Chains \cup {Failed, Rejected}]
  BY <1>1, Zenon DEF Message
<1>4. q # "accounts" /\ q # "chain"  BY Zenon DEF Requests
<1>5. Fits(m)  BY <1>2, <1>4, Zenon DEF Fits
<1> QED  BY <1>1, <1>3, <1>5, Zenon DEF Messages

\* The wallet answers.
LEMMA AnswersStep ==
  ASSUME WidgetInv, NEW q \in Requests, WalletAnswers(q)
  PROVE  WidgetInv'
<1>1. asked[q] > 0  BY Zenon DEF WalletAnswers
<1>2. live \in WalletAccounts /\ chain \in Chains  BY Zenon DEF WidgetInv, WidgetTypes
<1>3. CASE Reply(q, Failed, live, chain)
  <2>1. Message(q, Failed) \in Messages  BY MessageIn, Zenon
  <2> QED  BY <1>1, <1>2, <1>3, <2>1, ReplyStep, Zenon
<1>4. CASE q \in {"connect", "switch"} /\ Reply(q, Rejected, live, chain)
  <2>1. q \notin {"load account", "form account"} \cup ChainAnswers  BY <1>4, Zenon DEF ChainAnswers
  <2>2. Message(q, Rejected) \in Messages  BY <2>1, MessageIn, Zenon
  <2> QED  BY <1>1, <1>2, <1>4, <2>2, ReplyStep, Zenon
<1>5. CASE q \in {"load account", "form account"} /\ Reply(q, live, live, chain)
  <2>1. q \notin ChainAnswers /\ q # "connect"  BY <1>5, Zenon DEF ChainAnswers
  <2>2. Message(q, live) \in Messages  BY <1>2, <2>1, MessageIn, Zenon
  <2> QED  BY <1>1, <1>2, <1>5, <2>1, <2>2, ReplyStep, Zenon
<1>6. CASE /\ q \in {"load chain", "handler chain", "connect chain", "switch chain"}
           /\ Reply(q, chain, live, chain)
  <2>1. q \notin AccountAnswers /\ q \notin {"load account", "form account"} /\ q # "connect"
    BY <1>6, Zenon DEF AccountAnswers
  <2>2. Message(q, chain) \in Messages  BY <1>2, <2>1, MessageIn, Zenon
  <2> QED  BY <1>1, <1>2, <1>6, <2>1, <2>2, ReplyStep, Zenon
<1>7. ASSUME q = "connect", NEW x \in Accounts, Reply(q, x, x, chain) PROVE WidgetInv'
  <2>1. q \notin ChainAnswers /\ q \notin {"load account", "form account"}  BY <1>7, Zenon DEF ChainAnswers
  <2>2. x \in WalletAccounts  BY Zenon DEF WalletAccounts
  <2>3. Message(q, x) \in Messages  BY <2>1, <2>2, MessageIn, Zenon
  <2> QED  BY <1>1, <1>2, <1>7, <2>1, <2>2, <2>3, ReplyStep, Zenon
<1>8. ASSUME q = "switch", NEW y \in Chains, Reply(q, y, live, y) PROVE WidgetInv'
  <2>1. q \notin ChainAnswers \cup AccountAnswers /\ q \notin {"load account", "form account"} /\ q # "connect"
    BY <1>8, Zenon DEF ChainAnswers, AccountAnswers
  <2>2. Message(q, y) \in Messages  BY <2>1, MessageIn, Zenon
  <2> QED  BY <1>1, <1>2, <1>8, <2>1, <2>2, ReplyStep, Zenon
<1>9. \A x \in (IF live = NoAccount THEN Accounts ELSE {live}) : x \in Accounts
  BY <1>2, Zenon DEF WalletAccounts
<1>10. \A y \in {chain, Expected} : y \in Chains  BY <1>2, WidgetAssumption, Zenon
<1> QED
  BY <1>3, <1>4, <1>5, <1>6, <1>7, <1>8, <1>9, <1>10, Zenon DEF WalletAnswers

\* The user changes something at the wallet.
LEMMA ChangesStep ==
  ASSUME WidgetInv, UserChanges
  PROVE  WidgetInv'
<1>1. WidgetTypes  BY Zenon DEF WidgetInv
<1>2. PICK a \in WalletAccounts, c \in Chains :
        Leads(inbox, a, c, live, chain) /\ (mounted /\ ~raced => Known(a, c))
  BY Zenon DEF WidgetInv
<1>3. inbox \in Seq(Messages) /\ live \in WalletAccounts /\ chain \in Chains  BY <1>1, Zenon DEF WidgetTypes
<1>4. UNCHANGED <<asked, pageVars>>  BY Zenon DEF UserChanges
<1>5. UNCHANGED <<mounted, subscribed, raced>>  BY <1>4, Zenon DEF pageVars
<1>6. /\ live' \in WalletAccounts /\ chain' \in Chains /\ inbox' \in Seq(Messages)
      /\ Leads(inbox', a, c, live', chain') /\ Follows(inbox, inbox')
  <2>1. CASE \E x \in WalletAccounts \ {live} :
               live' = x /\ inbox' = Append(inbox, Message("accounts", x)) /\ UNCHANGED chain
    <3>1. PICK x \in WalletAccounts \ {live} :
               live' = x /\ inbox' = Append(inbox, Message("accounts", x)) /\ UNCHANGED chain
      BY <2>1, Zenon
    <3>2. inbox' = inbox \o Event("accounts", live, x)  BY <1>3, <3>1 DEF Event
    <3>3. /\ inbox \o Event("accounts", live, x) \in Seq(Messages)
          /\ Leads(inbox \o Event("accounts", live, x), a, c, x, chain)
          /\ Follows(inbox, inbox \o Event("accounts", live, x))
      BY <1>2, <1>3, <3>1, AccountEvent, Zenon
    <3> QED  BY <1>3, <3>1, <3>2, <3>3, Zenon
  <2>2. CASE \E y \in Chains \ {chain} :
               chain' = y /\ inbox' = Append(inbox, Message("chain", y)) /\ UNCHANGED live
    <3>1. PICK y \in Chains \ {chain} :
               chain' = y /\ inbox' = Append(inbox, Message("chain", y)) /\ UNCHANGED live
      BY <2>2, Zenon
    <3>2. inbox' = inbox \o Event("chain", chain, y)  BY <1>3, <3>1 DEF Event
    <3>3. /\ inbox \o Event("chain", chain, y) \in Seq(Messages)
          /\ Leads(inbox \o Event("chain", chain, y), a, c, live, y)
          /\ Follows(inbox, inbox \o Event("chain", chain, y))
      BY <1>2, <1>3, <3>1, ChainEvent, Zenon
    <3> QED  BY <1>3, <3>1, <3>2, <3>3, Zenon
  <2> QED  BY <2>1, <2>2, Zenon DEF UserChanges, WalletAccounts
<1>7. WidgetTypes'  BY <1>1, <1>4, <1>5, <1>6, Zenon DEF WidgetTypes
<1>8. ASSUME NEW p \in Requests
      PROVE  (NotAsked(p) => NotAsked(p)') /\ (AskedOnce(p) => AskedOnce(p)')
  BY <1>4, <1>6, Zenon DEF Follows, NotAsked, AskedOnce
<1>9. EventsOnly(inbox) => EventsOnly(inbox')  BY <1>6, Zenon DEF Follows
<1>10. mounted' /\ ~raced' => Known(a, c)'
  BY <1>2, <1>4, <1>5, <1>8, <1>9, KnownKept, Zenon
<1>11. ~mounted' => ~subscribed'  BY <1>5, Zenon DEF WidgetInv
<1>12. Leads(inbox, a, c, live, chain)'  BY <1>6, Zenon DEF Leads, Trail
<1> QED  BY <1>7, <1>10, <1>11, <1>12, Zenon DEF WidgetInv

-----------------------------------------------------------------------------
\* What the page does with the next message, as far as the counts are concerned.
LEMMA TakenCounts ==
  ASSUME WidgetTypes, inbox # <<>>, inbox' = Tail(inbox), NEW q \in Requests
  PROVE  /\ NotAsked(q) => Head(inbox).to # q
         /\ NotAsked(q) /\ asked'[q] = asked[q] => NotAsked(q)'
         /\ NotAsked(q) /\ asked'[q] = asked[q] + 1 => AskedOnce(q)'
         /\ AskedOnce(q) /\ asked'[q] = asked[q] /\ Head(inbox).to # q => AskedOnce(q)'
         /\ AskedOnce(q) /\ asked'[q] = asked[q] /\ Head(inbox).to = q => NotAsked(q)'
<1>1. inbox \in Seq(Messages) /\ asked[q] \in Nat  BY Zenon DEF WidgetTypes
<1>2. /\ NoneTo(inbox, q) => NoneTo(inbox', q) /\ Head(inbox).to # q
      /\ OneTo(inbox, q) /\ Head(inbox).to = q => NoneTo(inbox', q)
      /\ OneTo(inbox, q) /\ Head(inbox).to # q => OneTo(inbox', q)
  BY <1>1, ToTail, Zenon
<1>3. asked[q] = 0 => asked[q] + 1 = 1  BY <1>1
<1> QED  BY <1>2, <1>3, Zenon DEF NotAsked, AskedOnce

\* The same of a step that takes none.
LEMMA AskCounts ==
  ASSUME inbox' = inbox, NEW q
  PROVE  /\ NotAsked(q) /\ asked'[q] = asked[q] => NotAsked(q)'
         /\ NotAsked(q) /\ asked'[q] = asked[q] + 1 => AskedOnce(q)'
         /\ AskedOnce(q) /\ asked'[q] = asked[q] => AskedOnce(q)'
<1>1. asked[q] = 0 => asked[q] + 1 = 1  OBVIOUS
<1> QED  BY <1>1, Zenon DEF NotAsked, AskedOnce

\* Ask asks for what it names.
LEMMA AskFacts ==
  ASSUME asked \in [Requests -> Nat], NEW qs, Ask(qs)
  PROVE  /\ asked' \in [Requests -> Nat]
         /\ \A q \in Requests : asked'[q] = IF q \in qs THEN asked[q] + 1 ELSE asked[q]
  BY DEF Ask

\* One request more.
LEMMA AskOne ==
  ASSUME asked \in [Requests -> Nat], NEW q \in Requests, Ask({q})
  PROVE  asked'[q] = asked[q] + 1 /\ \A p \in Requests : p # q => asked'[p] = asked[p]
<1>1. \A p \in Requests : asked'[p] = IF p \in {q} THEN asked[p] + 1 ELSE asked[p]  BY AskFacts, Zenon
<1> QED  BY <1>1, Zenon

\* Telling the widget the chain that it shows.
LEMMA SameChain ==
  ASSUME NEW w, NEW b, NEW c, w = Connected(b, c)
  PROVE  [w EXCEPT !.chainId = c] = w
<1>1. w \in [kind : {"connected"}, address : {b}, chainId : {c}] /\ w.chainId = c  BY Zenon DEF Connected
<1> QED  BY <1>1, Zenon

\* An accountsChanged event that races with nothing.
LEMMA TakesAccounts ==
  ASSUME WidgetTypes, inbox # <<>>, inbox' = Tail(inbox), mounted, mounted' = mounted, subscribed' = subscribed,
         last' = last, ~raced', NEW a \in WalletAccounts, NEW c \in Chains,
         Known(a, c), subscribed, NEW v \in WalletAccounts, Head(inbox).to = "accounts", OnAccounts(v)
  PROVE  Known(v, c)'
<1>1. ~Unsettled  BY Zenon DEF OnAccounts
<1>2. loading = "done" /\ handling = <<>> /\ connecting = NoAccount /\ last = Address(widget)
  BY <1>1, Zenon DEF Unsettled
<1>3. Counted /\ ident \in {NoAccount, a} /\ Shows(a, c)
  <2>1. ~Unloaded  BY Zenon DEF Unloaded
  <2>2. ~Reads(a, c)  BY <1>2, Zenon DEF Reads
  <2> QED  BY <2>1, <2>2, Zenon DEF Known
<1>4. last = a  BY <1>2, <1>3, Zenon DEF Shows
<1>5. UNCHANGED <<loading, connecting>>  BY Zenon DEF OnAccounts
<1>6. {"handler chain", "connect chain", "connect"} \subseteq Requests
      /\ Head(inbox).to \notin {"handler chain", "connect chain", "connect"}
  BY Zenon DEF Requests
<1>7. NotAsked("handler chain") /\ NotAsked("connect chain") /\ (NotAsked("connect") \/ AskedOnce("connect"))
  BY <1>2, <1>3, Zenon DEF Counted
<1>8. CASE v = NoAccount
  <2>1. /\ ident' = IF last # NoAccount THEN NoAccount ELSE ident
        /\ widget' = Disconnected /\ handling' = handling /\ asked' = asked
    BY <1>8, Zenon DEF OnAccounts, SetState
  <2>2. ident' = NoAccount  BY <1>3, <1>4, <2>1, Zenon
  <2>3. Shows(v, c)'
    <3>1. Address(Disconnected) = NoAccount  BY Zenon DEF Address, Disconnected
    <3> QED  BY <1>2, <1>5, <1>8, <2>1, <3>1, Zenon DEF Shows, Address
  <2>4. Counted'  BY <1>2, <1>5, <1>6, <1>7, <2>1, TakenCounts, Zenon DEF Counted
  <2> QED  BY <2>2, <2>3, <2>4, Zenon DEF Known
<1>9. CASE v # NoAccount
  <2>1. /\ ident' = IF last \notin {NoAccount, v} THEN NoAccount ELSE ident
        /\ handling' = Append(handling, v) /\ Ask({"handler chain"}) /\ widget' = widget
    BY <1>9, Zenon DEF OnAccounts
  <2>2. ident' \in {NoAccount, v}  BY <1>3, <1>4, <2>1, Zenon
  <2>3. handling' = <<v>> /\ handling' # <<>>
    <3>1. Append(<<>>, v) = <<v>> /\ <<v>> # <<>>  OBVIOUS
    <3> QED  BY <1>2, <2>1, <3>1, Zenon
  <2>4. v \in Accounts  BY <1>9, Zenon DEF WalletAccounts
  <2>5. Shows(v, c)'  BY <1>2, <1>3, <1>5, <2>1, <2>3, <2>4, Zenon DEF Shows
  <2>6. /\ asked'["handler chain"] = asked["handler chain"] + 1
        /\ asked'["connect chain"] = asked["connect chain"] /\ asked'["connect"] = asked["connect"]
    BY <1>6, <2>1, AskOne, Zenon DEF WidgetTypes
  <2>7. AskedOnce("handler chain")'  BY <1>6, <1>7, <2>6, TakenCounts, Zenon
  <2>8. NotAsked("connect chain")' /\ (NotAsked("connect")' \/ AskedOnce("connect")')
    BY <1>6, <1>7, <2>6, TakenCounts, Zenon
  <2>9. Counted'  BY <1>2, <1>5, <2>3, <2>7, <2>8, Zenon DEF Counted
  <2> QED  BY <2>2, <2>5, <2>9, Zenon DEF Known
<1> QED  BY <1>8, <1>9, Zenon

\* The counts when a message is taken that nobody counts, and what is counted is not asked.
LEMMA CountedKept ==
  ASSUME WidgetTypes, inbox # <<>>, inbox' = Tail(inbox), Counted, UNCHANGED <<handling, connecting>>,
         Head(inbox).to \notin {"handler chain", "connect chain", "connect"},
         \A q \in {"handler chain", "connect chain", "connect"} : asked'[q] = asked[q]
  PROVE  Counted' /\ (NotAsked("connect") => NotAsked("connect")')
<1>1. {"handler chain", "connect chain", "connect"} \subseteq Requests  BY Zenon DEF Requests
<1>2. ASSUME NEW q \in {"handler chain", "connect chain", "connect"}
      PROVE  (NotAsked(q) => NotAsked(q)') /\ (AskedOnce(q) => AskedOnce(q)')
  <2>1. q \in Requests /\ Head(inbox).to # q /\ asked'[q] = asked[q]  BY <1>1, Zenon
  <2> QED  BY <2>1, TakenCounts, Zenon
<1>3. "handler chain" \in {"handler chain", "connect chain", "connect"}
      /\ "connect chain" \in {"handler chain", "connect chain", "connect"}
      /\ "connect" \in {"handler chain", "connect chain", "connect"}
  BY Zenon
<1> QED  BY <1>2, <1>3, Zenon DEF Counted

\* A chainChanged event that races with nothing.
LEMMA TakesChain ==
  ASSUME WidgetTypes, inbox # <<>>, inbox' = Tail(inbox), mounted, mounted' = mounted, subscribed' = subscribed,
         ~raced', NEW a \in WalletAccounts, NEW c \in Chains,
         Known(a, c), subscribed, NEW v \in Chains, Head(inbox).to = "chain", OnChain(v)
  PROVE  Known(a, v)'
<1>1. loading = "done"  BY Zenon DEF OnChain
<1>2. Counted /\ ident \in {NoAccount, a} /\ Shows(a, c)
  <2>1. ~Unloaded  BY Zenon DEF Unloaded
  <2>2. ~Reads(a, c)  BY <1>1, Zenon DEF Reads
  <2> QED  BY <2>1, <2>2, Zenon DEF Known
<1>3. UNCHANGED <<asked, loading, handling, connecting, ident>>  BY Zenon DEF OnChain
<1>4. widget' = IF widget.kind = "connected" THEN [widget EXCEPT !.chainId = v] ELSE widget
  BY Zenon DEF OnChain, SetState
<1>5. Counted'
  <2>1. Head(inbox).to \notin {"handler chain", "connect chain", "connect"}  BY Zenon
  <2> QED  BY <1>2, <1>3, <2>1, CountedKept, Zenon
<1>6. /\ widget' = Disconnected \/ \E b \in Accounts : widget' = Connected(b, v)
      /\ Address(widget)' = Address(widget)
  <2>1. CASE widget = Disconnected
    <3>1. widget' = widget  BY <1>4, <2>1, Zenon DEF Disconnected
    <3> QED  BY <2>1, <3>1, Zenon DEF Address
  <2>2. CASE \E b \in Accounts : widget = Connected(b, c)
    <3>1. PICK b \in Accounts : widget = Connected(b, c)  BY <2>2, Zenon
    <3>2. widget' = Connected(b, v)  BY <1>4, <3>1, Zenon DEF Connected
    <3>3. Address(Connected(b, v)) = b /\ Address(Connected(b, c)) = b  BY Zenon DEF Address, Connected
    <3>4. Address(widget)' = b  BY <3>2, <3>3, Zenon DEF Address
    <3> QED  BY <3>1, <3>2, <3>3, <3>4, Zenon
  <2> QED  BY <1>2, <2>1, <2>2, Zenon DEF Shows
<1>7. Shows(a, v)'  BY <1>1, <1>2, <1>3, <1>6, Zenon DEF Shows
<1> QED  BY <1>2, <1>3, <1>5, <1>7, Zenon DEF Known

\* A mounted widget takes a message that was sent to it, and nothing races.
Takes(to) ==
  /\ WidgetTypes /\ inbox # <<>> /\ inbox' = Tail(inbox) /\ Head(inbox).to = to
  /\ mounted /\ mounted' = mounted /\ subscribed /\ subscribed' = subscribed /\ ~raced'

\* An answer that load() waits for, or no longer waits for.
LEMMA TakesLoad ==
  ASSUME NEW a \in WalletAccounts, NEW c \in Chains, Known(a, c), NEW to, NEW r, LoadRead(r), Takes(to),
         \/ to = "load account" /\ \E v : r = [read EXCEPT !.account = v] /\ (v # Failed => v = a)
         \/ to = "load chain" /\ \E v : r = [read EXCEPT !.chain = v] /\ (v # Failed => v = c)
  PROVE  Known(a, c)'
<1>1. Counted /\ ident \in {NoAccount, a} /\ (Reads(a, c) \/ Shows(a, c))
  <2>1. ~Unloaded  BY Zenon DEF Unloaded, Takes
  <2> QED  BY <2>1, Zenon DEF Known
<1>2. UNCHANGED <<asked, handling, connecting, ident>>  BY Zenon DEF LoadRead
<1>3. Failed \notin {r.account, r.chain}  BY Zenon DEF LoadRead, Takes
<1>4. Counted' /\ (NotAsked("connect") => NotAsked("connect")')
  <2>1. Head(inbox).to \notin {"handler chain", "connect chain", "connect"}  BY Zenon DEF Takes
  <2> QED  BY <1>1, <1>2, <2>1, CountedKept, Zenon DEF Takes
<1>5. CASE Shows(a, c)
  <2>1. loading = "done"  BY <1>5, Zenon DEF Shows
  <2>2. UNCHANGED <<loading, widget>>  BY <2>1, Zenon DEF LoadRead
  <2>3. Shows(a, c)'  BY <1>2, <1>5, <2>2, Zenon DEF Shows, Address
  <2> QED  BY <1>1, <1>2, <1>4, <2>3, Zenon DEF Known, Takes
<1>6. CASE Reads(a, c)
  <2>1. loading = "reading" /\ widget = Loading /\ read \in [account : {Unread, a}, chain : {Unread, c}]
    BY <1>6, Zenon DEF Reads
  <2>2. r \in [account : {Unread, a}, chain : {Unread, c}]
    <3>1. CASE \E v : r = [read EXCEPT !.account = v] /\ (v # Failed => v = a)
      <4>1. PICK v : r = [read EXCEPT !.account = v] /\ (v # Failed => v = a)  BY <3>1, Zenon
      <4>2. r.account = v  BY <2>1, <4>1, Zenon
      <4>3. v = a  BY <1>3, <4>1, <4>2, Zenon
      <4> QED  BY <2>1, <4>1, <4>3, Zenon
    <3>2. CASE \E v : r = [read EXCEPT !.chain = v] /\ (v # Failed => v = c)
      <4>1. PICK v : r = [read EXCEPT !.chain = v] /\ (v # Failed => v = c)  BY <3>2, Zenon
      <4>2. r.chain = v  BY <2>1, <4>1, Zenon
      <4>3. v = c  BY <1>3, <4>1, <4>2, Zenon
      <4> QED  BY <2>1, <4>1, <4>3, Zenon
    <3> QED  BY <3>1, <3>2, Zenon
  <2>3. CASE Unread \in {r.account, r.chain}
    <3>1. read' = r /\ UNCHANGED <<loading, widget>>  BY <1>3, <2>1, <2>3, Zenon DEF LoadRead
    <3>2. NotAsked("connect")'  BY <1>4, <1>6, Zenon DEF Reads
    <3>3. Reads(a, c)'  BY <1>2, <1>6, <2>1, <2>2, <3>1, <3>2, Zenon DEF Reads
    <3> QED  BY <1>1, <1>2, <1>4, <3>3, Zenon DEF Known, Takes
  <2>4. CASE Unread \notin {r.account, r.chain}
    <3>1. r.account = a /\ r.chain = c  BY <2>2, <2>4, Zenon
    <3>2. a # Failed /\ c # Failed  BY <1>3, <3>1, Zenon
    <3>3. loading' = "done" /\ widget' = IF a = NoAccount THEN Disconnected ELSE Connected(a, c)
      BY <2>1, <2>4, <3>1, <3>2, Zenon DEF LoadRead, SetState, Takes
    <3>4. handling = <<>> /\ connecting = NoAccount  BY <1>6, Zenon DEF Reads
    <3>5. Shows(a, c)'
      <4>1. CASE a = NoAccount
        <5>1. Address(Disconnected) = NoAccount  BY Zenon DEF Address, Disconnected
        <5> QED  BY <1>2, <3>3, <3>4, <4>1, <5>1, Zenon DEF Shows, Address
      <4>2. CASE a # NoAccount
        <5>1. Address(Connected(a, c)) = a  BY Zenon DEF Address, Connected
        <5>2. a \in Accounts  BY <4>2, Zenon DEF WalletAccounts
        <5> QED  BY <1>2, <3>3, <3>4, <4>2, <5>1, <5>2, Zenon DEF Shows, Address
      <4> QED  BY <4>1, <4>2, Zenon
    <3> QED  BY <1>1, <1>2, <1>4, <3>5, Zenon DEF Known, Takes
  <2> QED  BY <2>3, <2>4, Zenon
<1> QED  BY <1>1, <1>5, <1>6, Zenon

\* The chain that a handler of accountsChanged waits for.
LEMMA TakesHandlerChain ==
  ASSUME NEW a \in WalletAccounts, NEW c \in Chains, Known(a, c), NEW v, HandlerChain(v),
         Takes("handler chain"), v # Failed => v = c
  PROVE  Known(a, c)'
<1>1. Counted /\ ident \in {NoAccount, a} /\ (Reads(a, c) \/ Shows(a, c))
  <2>1. ~Unloaded  BY Zenon DEF Unloaded, Takes
  <2> QED  BY <2>1, Zenon DEF Known
<1>2. {"handler chain", "connect chain", "connect"} \subseteq Requests  BY Zenon DEF Requests
<1>3. AskedOnce("handler chain") /\ handling # <<>>
  <2>1. ~NotAsked("handler chain")  BY <1>2, TakenCounts, Zenon DEF Takes
  <2> QED  BY <1>1, <2>1, Zenon DEF Counted
<1>4. Shows(a, c) /\ handling = <<a>> /\ a \in Accounts
  <2>1. Shows(a, c)  BY <1>1, <1>3, Zenon DEF Reads
  <2> QED  BY <1>3, <2>1, Zenon DEF Shows
<1>5. v = c /\ v # Failed  BY Zenon DEF HandlerChain, Takes
<1>6. UNCHANGED <<asked, loading, connecting, ident>>  BY Zenon DEF HandlerChain
<1>7. handling' = <<>> /\ Head(handling) = a
  <2>1. Tail(<<a>>) = <<>> /\ Head(<<a>>) = a  BY SingleTail, Zenon
  <2> QED  BY <1>4, <2>1, Zenon DEF HandlerChain
<1>8. widget' = Connected(a, c)
  <2>1. widget' = IF widget.kind = "connected" THEN [widget EXCEPT !.address = a] ELSE Connected(a, c)
    BY <1>5, <1>7, Zenon DEF HandlerChain, SetState, Takes
  <2>2. CASE widget = Disconnected  BY <2>1, <2>2, Zenon DEF Disconnected
  <2>3. CASE \E b \in Accounts : widget = Connected(b, c)
    <3>1. PICK b \in Accounts : widget = Connected(b, c)  BY <2>3, Zenon
    <3> QED  BY <2>1, <3>1, Zenon DEF Connected
  <2> QED  BY <1>4, <2>2, <2>3, Zenon DEF Shows
<1>9. Shows(a, c)'
  <2>1. Address(Connected(a, c)) = a  BY Zenon DEF Address, Connected
  <2> QED  BY <1>4, <1>6, <1>7, <1>8, <2>1, Zenon DEF Shows, Address
<1>10. Counted'
  <2>1. Head(inbox).to # "connect chain" /\ Head(inbox).to # "connect"  BY Zenon DEF Takes
  <2>2. NotAsked("handler chain")'  BY <1>2, <1>3, <1>6, TakenCounts, Zenon DEF Takes
  <2>3. ASSUME NEW q \in {"connect chain", "connect"}
        PROVE  (NotAsked(q) => NotAsked(q)') /\ (AskedOnce(q) => AskedOnce(q)')
    <3>1. q \in Requests /\ Head(inbox).to # q  BY <1>2, <2>1, Zenon
    <3> QED  BY <1>6, <3>1, TakenCounts, Zenon DEF Takes
  <2> QED  BY <1>1, <1>6, <1>7, <2>2, <2>3, Zenon DEF Counted
<1> QED  BY <1>1, <1>6, <1>9, <1>10, Zenon DEF Known, Takes

\* The answer to the connect button.
LEMMA TakesConnect ==
  ASSUME NEW a \in WalletAccounts, NEW c \in Chains, Known(a, c), NEW v, ConnectAnswer(v),
         Takes("connect"), v \in {Rejected, Failed} \/ (v = a /\ a \in Accounts)
  PROVE  Known(a, c)'
<1>1. Counted /\ ident \in {NoAccount, a} /\ (Reads(a, c) \/ Shows(a, c))
  <2>1. ~Unloaded  BY Zenon DEF Unloaded, Takes
  <2> QED  BY <2>1, Zenon DEF Known
<1>2. {"handler chain", "connect chain", "connect"} \subseteq Requests  BY Zenon DEF Requests
<1>3. ~NotAsked("connect")  BY <1>2, TakenCounts, Zenon DEF Takes
<1>4. connecting = NoAccount /\ NotAsked("connect chain") /\ AskedOnce("connect")
  BY <1>1, <1>3, Zenon DEF Counted
<1>5. Shows(a, c)  BY <1>1, <1>3, Zenon DEF Reads
<1>6. UNCHANGED <<loading, widget, handling, ident>>  BY Zenon DEF ConnectAnswer
<1>7. Head(inbox).to # "connect chain" /\ Head(inbox).to # "handler chain"  BY Zenon DEF Takes
<1>8. CASE v \in {Rejected, Failed}
  <2>1. UNCHANGED <<asked, connecting>>  BY <1>8, Zenon DEF ConnectAnswer
  <2>2. NotAsked("connect")' /\ NotAsked("connect chain")'
    BY <1>2, <1>4, <1>7, <2>1, TakenCounts, Zenon DEF Takes
  <2>3. /\ NotAsked("handler chain") => NotAsked("handler chain")'
        /\ AskedOnce("handler chain") => AskedOnce("handler chain")'
    BY <1>2, <1>7, <2>1, TakenCounts, Zenon DEF Takes
  <2>4. Counted'  BY <1>1, <1>4, <1>6, <2>1, <2>2, <2>3, Zenon DEF Counted
  <2>5. Shows(a, c)'  BY <1>5, <1>6, <2>1, Zenon DEF Shows, Address
  <2> QED  BY <1>1, <1>6, <2>4, <2>5, Zenon DEF Known, Takes
<1>9. CASE v \notin {Rejected, Failed}
  <2>1. v = a /\ a \in Accounts /\ a # NoAccount  BY <1>9, WidgetAssumption, Zenon
  <2>2. connecting' = a /\ Ask({"connect chain"})  BY <1>9, <2>1, Zenon DEF ConnectAnswer
  <2>3. /\ asked'["connect chain"] = asked["connect chain"] + 1
        /\ asked'["handler chain"] = asked["handler chain"] /\ asked'["connect"] = asked["connect"]
    BY <1>2, <2>2, AskOne, Zenon DEF WidgetTypes, Takes
  <2>4. NotAsked("connect")' /\ AskedOnce("connect chain")'
    BY <1>2, <1>4, <1>7, <2>3, TakenCounts, Zenon DEF Takes
  <2>5. /\ NotAsked("handler chain") => NotAsked("handler chain")'
        /\ AskedOnce("handler chain") => AskedOnce("handler chain")'
    BY <1>2, <1>7, <2>3, TakenCounts, Zenon DEF Takes
  <2>6. Counted'  BY <1>1, <1>6, <2>1, <2>2, <2>4, <2>5, Zenon DEF Counted
  <2>7. Shows(a, c)'  BY <1>5, <1>6, <2>2, Zenon DEF Shows, Address
  <2> QED  BY <1>1, <1>6, <2>6, <2>7, Zenon DEF Known, Takes
<1> QED  BY <1>8, <1>9, Zenon

\* The chain that the connect button waits for.
LEMMA TakesConnectChain ==
  ASSUME NEW a \in WalletAccounts, NEW c \in Chains, Known(a, c), NEW v, ConnectChain(v),
         Takes("connect chain"), v # Failed => v = c
  PROVE  Known(a, c)'
<1>1. Counted /\ ident \in {NoAccount, a} /\ (Reads(a, c) \/ Shows(a, c))
  <2>1. ~Unloaded  BY Zenon DEF Unloaded, Takes
  <2> QED  BY <2>1, Zenon DEF Known
<1>2. {"handler chain", "connect chain", "connect"} \subseteq Requests  BY Zenon DEF Requests
<1>3. connecting # NoAccount /\ AskedOnce("connect chain") /\ NotAsked("connect")
  <2>1. ~NotAsked("connect chain")  BY <1>2, TakenCounts, Zenon DEF Takes
  <2> QED  BY <1>1, <2>1, Zenon DEF Counted
<1>4. Shows(a, c)  BY <1>1, <1>3, Zenon DEF Reads
<1>5. connecting = a /\ a \in Accounts  BY <1>3, <1>4, Zenon DEF Shows, WalletAccounts
<1>6. v = c /\ v # Failed  BY Zenon DEF ConnectChain, Takes
<1>7. UNCHANGED <<asked, loading, handling, ident>> /\ connecting' = NoAccount
  BY Zenon DEF ConnectChain
<1>8. widget' = Connected(a, c)  BY <1>5, <1>6, Zenon DEF ConnectChain, SetState, Takes
<1>9. Shows(a, c)'
  <2>1. Address(Connected(a, c)) = a  BY Zenon DEF Address, Connected
  <2> QED  BY <1>4, <1>5, <1>7, <1>8, <2>1, Zenon DEF Shows, Address
<1>10. Counted'
  <2>1. Head(inbox).to # "handler chain" /\ Head(inbox).to # "connect"  BY Zenon DEF Takes
  <2>2. NotAsked("connect chain")' /\ NotAsked("connect")'
    BY <1>2, <1>3, <1>7, <2>1, TakenCounts, Zenon DEF Takes
  <2>3. /\ NotAsked("handler chain") => NotAsked("handler chain")'
        /\ AskedOnce("handler chain") => AskedOnce("handler chain")'
    BY <1>2, <1>7, <2>1, TakenCounts, Zenon DEF Takes
  <2> QED  BY <1>1, <1>7, <2>2, <2>3, Zenon DEF Counted
<1> QED  BY <1>1, <1>7, <1>9, <1>10, Zenon DEF Known, Takes

\* What the switch button waits for, and the account that the form asks for.
LEMMA TakesOther ==
  ASSUME NEW a \in WalletAccounts, NEW c \in Chains, Known(a, c), NEW v, NEW to, Takes(to),
         \/ to = "switch" /\ SwitchAnswer(v)
         \/ to = "switch chain" /\ SwitchChainRead(v) /\ (v # Failed => v = c)
         \/ to = "form account" /\ FormIdentifies(v) /\ (v \in Accounts => v = a)
  PROVE  Known(a, c)'
<1>1. Counted /\ ident \in {NoAccount, a} /\ (Reads(a, c) \/ Shows(a, c))
  <2>1. ~Unloaded  BY Zenon DEF Unloaded, Takes
  <2> QED  BY <2>1, Zenon DEF Known
<1>2. UNCHANGED <<loading, read, handling, connecting>>
  BY Zenon DEF SwitchAnswer, SwitchChainRead, FormIdentifies
<1>3. \A q \in {"handler chain", "connect chain", "connect"} : asked'[q] = asked[q]
  <2>1. CASE asked' = asked  BY <2>1, Zenon
  <2>2. CASE Ask({"switch chain"})
    <3>1. ASSUME NEW q \in {"handler chain", "connect chain", "connect"} PROVE asked'[q] = asked[q]
      <4>1. q \in Requests /\ q \notin {"switch chain"}  BY Zenon DEF Requests
      <4>2. asked \in [Requests -> Nat]  BY Zenon DEF Takes, WidgetTypes
      <4> QED  BY <2>2, <4>1, <4>2, AskFacts, Zenon
    <3> QED  BY <3>1, Zenon
  <2> QED  BY <2>1, <2>2, Zenon DEF SwitchAnswer, SwitchChainRead, FormIdentifies
<1>4. Counted' /\ (NotAsked("connect") => NotAsked("connect")')
  <2>1. Head(inbox).to \notin {"handler chain", "connect chain", "connect"}  BY Zenon DEF Takes
  <2> QED  BY <1>1, <1>2, <1>3, <2>1, CountedKept, Zenon DEF Takes
<1>5. ident' \in {NoAccount, a}
  BY <1>1, Zenon DEF SwitchAnswer, SwitchChainRead, FormIdentifies
<1>6. widget' = widget
  <2>1. CASE SwitchAnswer(v) \/ FormIdentifies(v)  BY <2>1, Zenon DEF SwitchAnswer, FormIdentifies
  <2>2. CASE SwitchChainRead(v) /\ (v # Failed => v = c)
    <3>1. CASE v # Expected  BY <2>2, <3>1, Zenon DEF SwitchChainRead
    <3>2. CASE v = Expected
      <4>1. v = c  BY <2>2, <3>2, WidgetAssumption, Zenon
      <4>2. widget' = IF widget.kind = "connected" THEN [widget EXCEPT !.chainId = c] ELSE widget
        BY <2>2, <3>2, <4>1, Zenon DEF SwitchChainRead, SetState, Takes
      <4>3. CASE widget = Loading  BY <4>2, <4>3, Zenon DEF Loading
      <4>4. CASE widget = Disconnected  BY <4>2, <4>4, Zenon DEF Disconnected
      <4>5. CASE \E b \in Accounts : widget = Connected(b, c)
        <5>1. PICK b \in Accounts : widget = Connected(b, c)  BY <4>5, Zenon
        <5>2. widget.kind = "connected"  BY <5>1, Zenon DEF Connected
        <5> QED  BY <4>2, <5>1, <5>2, SameChain, Zenon
      <4> QED  BY <1>1, <4>3, <4>4, <4>5, Zenon DEF Reads, Shows
    <3> QED  BY <3>1, <3>2, Zenon
  <2> QED  BY <2>1, <2>2, Zenon
<1>7. Reads(a, c) => Reads(a, c)'  BY <1>2, <1>4, <1>6, Zenon DEF Reads
<1>8. Shows(a, c) => Shows(a, c)'  BY <1>2, <1>6, Zenon DEF Shows, Address
<1> QED  BY <1>1, <1>4, <1>5, <1>7, <1>8, Zenon DEF Known, Takes

\* The page takes the next message.
LEMMA DeliverStep ==
  ASSUME WidgetInv, Deliver
  PROVE  WidgetInv'
<1>1. WidgetTypes  BY Zenon DEF WidgetInv
<1>2. PICK a \in WalletAccounts, c \in Chains :
        Leads(inbox, a, c, live, chain) /\ (mounted /\ ~raced => Known(a, c))
  BY Zenon DEF WidgetInv
<1>3. inbox # <<>> /\ inbox' = Tail(inbox) /\ UNCHANGED <<live, chain, mounted, subscribed, last>>
  BY Zenon DEF Deliver
<1>0. PICK m : m = Head(inbox)  BY Zenon
<1>4. inbox \in Seq(Messages) /\ m \in Messages /\ inbox' \in Seq(Messages)  BY <1>0, <1>1, <1>3 DEF WidgetTypes
<1>5. Fits(m)  BY <1>4, Zenon DEF Messages
<1>6. /\ m.to = "accounts" => Trail(inbox', "accounts", AccountAnswers, WalletAccounts, m.value, live)
      /\ m.to # "accounts" => /\ Trail(inbox', "accounts", AccountAnswers, WalletAccounts, a, live)
                              /\ Informs(m, AccountAnswers) => m.value = a
  BY <1>0, <1>2, <1>3, <1>4, TrailTail, Zenon DEF Leads
<1>7. /\ m.to = "chain" => Trail(inbox', "chain", ChainAnswers, Chains, m.value, chain)
      /\ m.to # "chain" => /\ Trail(inbox', "chain", ChainAnswers, Chains, c, chain)
                           /\ Informs(m, ChainAnswers) => m.value = c
  BY <1>0, <1>2, <1>3, <1>4, TrailTail, Zenon DEF Leads
<1>8. asked' \in [Requests -> Nat] /\ raced' \in BOOLEAN /\ (raced => raced')
  <2>1. asked' = asked \/ \E qs : Ask(qs)
    BY Zenon DEF Deliver, OnAccounts, OnChain, LoadRead, HandlerChain, ConnectAnswer, ConnectChain,
       SwitchAnswer, SwitchChainRead, FormIdentifies
  <2>2. raced' \in BOOLEAN /\ (raced => raced')
    BY <1>1, Zenon DEF WidgetTypes, Deliver, OnAccounts, OnChain, LoadRead, HandlerChain, ConnectAnswer,
       ConnectChain, SwitchAnswer, SwitchChainRead, FormIdentifies
  <2> QED  BY <1>1, <2>1, <2>2, AskFacts, Zenon DEF WidgetTypes
<1>9. WidgetTypes'  BY <1>1, <1>3, <1>4, <1>8, Zenon DEF WidgetTypes
<1>10. ~mounted' => ~subscribed'  BY <1>3, Zenon DEF WidgetInv
<1>11. PICK a2 \in WalletAccounts, c2 \in Chains :
          /\ a2 = IF m.to = "accounts" THEN m.value ELSE a
          /\ c2 = IF m.to = "chain" THEN m.value ELSE c
  BY <1>5, Zenon DEF Fits
<1>12. Leads(inbox', a2, c2, live, chain)  BY <1>6, <1>7, <1>11, Zenon DEF Leads
<1>13. Leads(inbox, a2, c2, live, chain)'  BY <1>3, <1>12, Zenon DEF Leads, Trail
<1>14. ASSUME mounted, ~raced' PROVE Known(a2, c2)'
  <2>1. Known(a, c)  BY <1>2, <1>8, <1>14, Zenon
  <2>2. Head(inbox).to = m.to /\ Head(inbox).value = m.value  BY <1>0, Zenon
  <2>3. CASE ~subscribed
    <3>1. Unloaded  BY <2>1, <2>3, Zenon DEF Known
    <3>2. EventsOnly(inbox') /\ m.to \in {"accounts", "chain"}
      BY <1>3, <1>4, <2>2, <3>1, ToTail, Zenon DEF Unloaded
    <3>3. UNCHANGED <<asked, loading, read, widget, handling, connecting, ident>>
      BY <2>2, <2>3, <3>2, Zenon DEF Deliver
    <3>4. Unloaded'  BY <1>3, <3>1, <3>2, <3>3, Zenon DEF Unloaded
    <3> QED  BY <3>4, Zenon DEF Known
  <2>4. CASE subscribed
    <3>0. Takes(m.to)  BY <1>1, <1>3, <1>14, <2>2, <2>4, Zenon DEF Takes
    <3>1. CASE m.to = "accounts" /\ OnAccounts(m.value)
      <4>1. m.value \in WalletAccounts  BY <1>5, <3>1, Zenon DEF Fits
      <4>2. Known(m.value, c)'
        BY <1>1, <1>3, <1>14, <2>1, <2>2, <2>4, <3>1, <4>1, TakesAccounts, Zenon
      <4> QED  BY <1>11, <3>1, <4>2, Zenon
    <3>2. CASE m.to = "chain" /\ OnChain(m.value)
      <4>1. m.value \in Chains  BY <1>5, <3>2, Zenon DEF Fits
      <4>2. Known(a, m.value)'
        BY <1>1, <1>3, <1>14, <2>1, <2>2, <2>4, <3>2, <4>1, TakesChain, Zenon
      <4> QED  BY <1>11, <3>2, <4>2, Zenon
    <3>3. m.to \in AccountAnswers /\ m.value \notin {Failed, Rejected} => m.value = a
      <4>1. m.to \in AccountAnswers => m.to # "accounts"  BY Zenon DEF AccountAnswers
      <4> QED  BY <1>6, <4>1, Zenon DEF Informs
    <3>4. m.to \in ChainAnswers /\ m.value # Failed => m.value = c
      <4>1. m.to \in ChainAnswers => m.to # "chain"  BY Zenon DEF ChainAnswers
      <4>2. m.to \in ChainAnswers => m.value \in Chains \cup {Failed}  BY <1>5, Zenon DEF Fits
      <4>3. Rejected \notin Chains  BY WidgetAssumption, Zenon
      <4> QED  BY <1>7, <4>1, <4>2, <4>3, Zenon DEF Informs
    <3>5. CASE m.to = "load account" /\ LoadRead([read EXCEPT !.account = m.value])
      <4>1. m.value # Failed => m.value = a
        <5>1. m.value \in WalletAccounts \cup {Failed} /\ m.to \in AccountAnswers
          BY <1>5, <3>5, Zenon DEF Fits, AccountAnswers
        <5>2. Rejected \notin WalletAccounts  BY WidgetAssumption, Zenon DEF WalletAccounts
        <5> QED  BY <3>3, <5>1, <5>2, Zenon
      <4>2. Known(a, c)'  BY <2>1, <3>0, <3>5, <4>1, TakesLoad, Zenon
      <4> QED  BY <1>11, <3>5, <4>2, Zenon
    <3>6. CASE m.to = "load chain" /\ LoadRead([read EXCEPT !.chain = m.value])
      <4>1. m.value # Failed => m.value = c  BY <3>4, <3>6, Zenon DEF ChainAnswers
      <4>2. Known(a, c)'  BY <2>1, <3>0, <3>6, <4>1, TakesLoad, Zenon
      <4> QED  BY <1>11, <3>6, <4>2, Zenon
    <3>7. CASE m.to = "handler chain" /\ HandlerChain(m.value)
      <4>1. m.value # Failed => m.value = c  BY <3>4, <3>7, Zenon DEF ChainAnswers
      <4>2. Known(a, c)'  BY <2>1, <3>0, <3>7, <4>1, TakesHandlerChain, Zenon
      <4> QED  BY <1>11, <3>7, <4>2, Zenon
    <3>8. CASE m.to = "connect" /\ ConnectAnswer(m.value)
      <4>1. m.value \in {Rejected, Failed} \/ (m.value = a /\ a \in Accounts)
        BY <1>5, <3>3, <3>8, Zenon DEF Fits, AccountAnswers
      <4>2. Known(a, c)'  BY <2>1, <3>0, <3>8, <4>1, TakesConnect, Zenon
      <4> QED  BY <1>11, <3>8, <4>2, Zenon
    <3>9. CASE m.to = "connect chain" /\ ConnectChain(m.value)
      <4>1. m.value # Failed => m.value = c  BY <3>4, <3>9, Zenon DEF ChainAnswers
      <4>2. Known(a, c)'  BY <2>1, <3>0, <3>9, <4>1, TakesConnectChain, Zenon
      <4> QED  BY <1>11, <3>9, <4>2, Zenon
    <3>10. CASE m.to = "switch" /\ SwitchAnswer(m.value)
      <4>1. Known(a, c)'  BY <2>1, <3>0, <3>10, TakesOther, Zenon
      <4> QED  BY <1>11, <3>10, <4>1, Zenon
    <3>11. CASE m.to = "switch chain" /\ SwitchChainRead(m.value)
      <4>1. m.value # Failed => m.value = c  BY <3>4, <3>11, Zenon DEF ChainAnswers
      <4>2. Known(a, c)'  BY <2>1, <3>0, <3>11, <4>1, TakesOther, Zenon
      <4> QED  BY <1>11, <3>11, <4>2, Zenon
    <3>12. CASE m.to = "form account" /\ FormIdentifies(m.value)
      <4>1. m.value \in Accounts => m.value = a
        <5>1. m.to \in AccountAnswers  BY <3>12, Zenon DEF AccountAnswers
        <5>2. Failed \notin Accounts /\ Rejected \notin Accounts  BY WidgetAssumption, Zenon
        <5> QED  BY <3>3, <5>1, <5>2, Zenon
      <4>2. Known(a, c)'  BY <2>1, <3>0, <3>12, <4>1, TakesOther, Zenon
      <4> QED  BY <1>11, <3>12, <4>2, Zenon
    <3> QED
      BY <2>2, <2>4, <3>1, <3>2, <3>5, <3>6, <3>7, <3>8, <3>9, <3>10, <3>11, <3>12, Zenon DEF Deliver
  <2> QED  BY <1>1, <2>3, <2>4, Zenon DEF WidgetTypes
<1>15. mounted' /\ ~raced' => Known(a2, c2)'  BY <1>3, <1>14, Zenon
<1> QED  BY <1>9, <1>10, <1>11, <1>13, <1>15, Zenon DEF WidgetInv

\* The first tick of load().
LEMMA LoadStep ==
  ASSUME WidgetInv, Load
  PROVE  WidgetInv'
<1>1. WidgetTypes  BY Zenon DEF WidgetInv
<1>2. PICK a \in WalletAccounts, c \in Chains :
        Leads(inbox, a, c, live, chain) /\ (mounted /\ ~raced => Known(a, c))
  BY Zenon DEF WidgetInv
<1>3. /\ loading = "start"
      /\ UNCHANGED <<live, chain, inbox, mounted, read, handling, connecting, ident, raced>>
  BY Zenon DEF Load
<1>4. Leads(inbox, a, c, live, chain)'  BY <1>2, <1>3, Zenon DEF Leads
<1>5. asked' \in [Requests -> Nat]  BY <1>1, AskFacts, Zenon DEF Load, WidgetTypes
<1>6. subscribed' \in BOOLEAN /\ (~mounted' => ~subscribed')
  <2>1. subscribed' = subscribed \/ (subscribed' = TRUE /\ mounted)  BY Zenon DEF Load
  <2>2. ~mounted => ~subscribed  BY Zenon DEF WidgetInv
  <2>3. subscribed' \in BOOLEAN  BY <1>1, <2>1, Zenon DEF WidgetTypes
  <2>4. mounted' = mounted  BY <1>3, Zenon
  <2>5. ASSUME ~mounted' PROVE ~subscribed'  BY <2>1, <2>2, <2>4, <2>5, Zenon
  <2> QED  BY <2>3, <2>5, Zenon
<1>7. WidgetTypes'  BY <1>1, <1>3, <1>5, <1>6, Zenon DEF WidgetTypes
<1>8. ASSUME mounted, ~raced PROVE Known(a, c)'
  <2>1. Unloaded
    <3>1. Known(a, c)  BY <1>2, <1>8, Zenon
    <3>2. ~Reads(a, c) /\ ~Shows(a, c)  BY <1>3, Zenon DEF Reads, Shows
    <3> QED  BY <3>1, <3>2, Zenon DEF Known
  <2>2. CASE loading' = "done" /\ widget' = Missing /\ UNCHANGED <<asked, subscribed>>
    <3>1. Unloaded'  BY <1>3, <2>1, <2>2, Zenon DEF Unloaded
    <3> QED  BY <3>1, Zenon DEF Known
  <2>3. CASE /\ loading' = "reading" /\ subscribed' = TRUE /\ Ask({"load account", "load chain"})
             /\ UNCHANGED widget
    <3>1. widget = Loading /\ read = [account |-> Unread, chain |-> Unread]  BY <1>3, <2>1, Zenon DEF Unloaded
    <3>2. ASSUME NEW q \in {"handler chain", "connect chain", "connect"} PROVE NotAsked(q)'
      <4>1. q \in Requests /\ q \notin {"load account", "load chain"} /\ q \notin {"accounts", "chain"}
        BY Zenon DEF Requests
      <4>2. asked[q] = 0  BY <2>1, <4>1, Zenon DEF Unloaded, Nothing
      <4>3. asked'[q] = asked[q]  BY <1>1, <2>3, <4>1, AskFacts, Zenon DEF WidgetTypes
      <4>4. NoneTo(inbox, q)  BY <2>1, <4>1, Zenon DEF Unloaded, EventsOnly, NoneTo
      <4>5. NotAsked(q)  BY <4>2, <4>4, Zenon DEF NotAsked
      <4> QED  BY <1>3, <4>3, <4>5, AskCounts, Zenon
    <3>3. read \in [account : {Unread, a}, chain : {Unread, c}]  BY <3>1, Zenon
    <3>4. handling = <<>> /\ connecting = NoAccount /\ ident = NoAccount  BY <2>1, Zenon DEF Unloaded
    <3>5. Reads(a, c)'  BY <1>3, <2>3, <3>1, <3>2, <3>3, <3>4, Zenon DEF Reads
    <3>6. Counted'  BY <1>3, <3>2, <3>4, Zenon DEF Counted
    <3> QED  BY <1>3, <2>3, <3>4, <3>5, <3>6, Zenon DEF Known
  <2> QED  BY <1>8, <2>2, <2>3, Zenon DEF Load
<1> QED  BY <1>3, <1>4, <1>6, <1>7, <1>8, Zenon DEF WidgetInv

\* The buttons and the form ask the wallet; the effects of the page change nothing
\* that the page knows.
LEMMA PageStep ==
  ASSUME WidgetInv, FollowState \/ Clicks \/ ErrorExpires \/ FormAsks
  PROVE  WidgetInv'
<1>1. WidgetTypes  BY Zenon DEF WidgetInv
<1>2. PICK a \in WalletAccounts, c \in Chains :
        Leads(inbox, a, c, live, chain) /\ (mounted /\ ~raced => Known(a, c))
  BY Zenon DEF WidgetInv
<1>3. UNCHANGED <<live, chain, inbox, mounted, loading, read, subscribed, widget, handling, connecting,
                  ident, raced>>
  BY Zenon DEF FollowState, Clicks, ErrorExpires, FormAsks, walletVars, pageVars
<1>4. Leads(inbox, a, c, live, chain)'  BY <1>2, <1>3, Zenon DEF Leads
<1>5. \/ asked' = asked
      \/ Ask({"connect"}) /\ widget = Disconnected /\ ~Outstanding("connect") /\ connecting = NoAccount
      \/ Ask({"switch"}) /\ widget.kind = "connected"
      \/ Ask({"form account"}) /\ subscribed
  BY Zenon DEF FollowState, Clicks, ErrorExpires, FormAsks, walletVars
<1>6. asked' \in [Requests -> Nat]  BY <1>1, <1>5, AskFacts, Zenon DEF WidgetTypes
<1>7. WidgetTypes'  BY <1>1, <1>3, <1>6, Zenon DEF WidgetTypes
<1>8. ASSUME mounted, ~raced PROVE Known(a, c)'
  <2>1. Known(a, c)  BY <1>2, <1>8, Zenon
  <2>2. {"handler chain", "connect chain", "connect"} \subseteq Requests  BY Zenon DEF Requests
  <2>3. Shows(a, c) => Shows(a, c)'  BY <1>3, Zenon DEF Shows, Address
  <2>4. CASE asked' = asked
    <3>1. \A q : (NotAsked(q) => NotAsked(q)') /\ (AskedOnce(q) => AskedOnce(q)')
      BY <1>3, <2>4, AskCounts, Zenon
    <3>2. Counted => Counted'  BY <1>3, <3>1, Zenon DEF Counted
    <3>3. Reads(a, c) => Reads(a, c)'  BY <1>3, <3>1, Zenon DEF Reads
    <3>4. Unloaded => Unloaded'  BY <1>3, <2>4, Zenon DEF Unloaded
    <3> QED  BY <1>3, <2>1, <2>3, <3>2, <3>3, <3>4, Zenon DEF Known
  <2>5. CASE Ask({"connect"}) /\ widget = Disconnected /\ ~Outstanding("connect") /\ connecting = NoAccount
    <3>1. widget # Loading /\ widget # Missing  BY <2>5, Zenon DEF Disconnected, Loading, Missing
    <3>2. subscribed /\ Counted /\ ident \in {NoAccount, a} /\ Shows(a, c)
      BY <2>1, <3>1, Zenon DEF Known, Unloaded, Reads
    <3>3. NotAsked("connect")
      <4>1. asked["connect"] \in Nat /\ ~(asked["connect"] > 0)
        BY <1>1, <2>2, <2>5, Zenon DEF WidgetTypes, Outstanding
      <4>2. asked["connect"] = 0  BY <4>1
      <4>3. NoneTo(inbox, "connect")  BY <2>5, Zenon DEF Outstanding, NoneTo
      <4> QED  BY <4>2, <4>3, Zenon DEF NotAsked
    <3>4. /\ asked'["connect"] = asked["connect"] + 1
          /\ asked'["connect chain"] = asked["connect chain"]
          /\ asked'["handler chain"] = asked["handler chain"]
      BY <1>1, <2>2, <2>5, AskOne, Zenon DEF WidgetTypes
    <3>5. AskedOnce("connect")'  BY <1>3, <3>3, <3>4, AskCounts, Zenon
    <3>6. \A q \in {"handler chain", "connect chain"} :
            (NotAsked(q) => NotAsked(q)') /\ (AskedOnce(q) => AskedOnce(q)')
      BY <1>3, <3>4, AskCounts, Zenon
    <3>7. Counted'  BY <1>3, <2>5, <3>2, <3>5, <3>6, Zenon DEF Counted
    <3> QED  BY <1>3, <2>3, <3>2, <3>7, Zenon DEF Known
  <2>6. CASE (Ask({"switch"}) /\ widget.kind = "connected") \/ (Ask({"form account"}) /\ subscribed)
    <3>1. subscribed /\ Counted /\ ident \in {NoAccount, a} /\ (Reads(a, c) \/ Shows(a, c))
      <4>1. ~Unloaded
        <5>1. CASE widget.kind = "connected"  BY <5>1 DEF Unloaded, Loading, Missing
        <5>2. CASE subscribed  BY <5>2, Zenon DEF Unloaded
        <5> QED  BY <2>6, <5>1, <5>2, Zenon
      <4> QED  BY <2>1, <4>1, Zenon DEF Known
    <3>2. ASSUME NEW q \in {"handler chain", "connect chain", "connect"} PROVE asked'[q] = asked[q]
      <4>1. q \in Requests /\ q \notin {"switch"} /\ q \notin {"form account"}  BY Zenon DEF Requests
      <4> QED  BY <1>1, <2>6, <4>1, AskFacts, Zenon DEF WidgetTypes
    <3>3. \A q \in {"handler chain", "connect chain", "connect"} :
            (NotAsked(q) => NotAsked(q)') /\ (AskedOnce(q) => AskedOnce(q)')
      BY <1>3, <3>2, AskCounts, Zenon
    <3>4. Counted'  BY <1>3, <3>1, <3>3, Zenon DEF Counted
    <3>5. Reads(a, c) => Reads(a, c)'  BY <1>3, <3>3, Zenon DEF Reads
    <3> QED  BY <1>3, <2>3, <3>1, <3>4, <3>5, Zenon DEF Known
  <2> QED  BY <1>5, <2>4, <2>5, <2>6, Zenon
<1>9. ~mounted' => ~subscribed'  BY <1>3, Zenon DEF WidgetInv
<1> QED  BY <1>3, <1>4, <1>7, <1>8, <1>9, Zenon DEF WidgetInv

\* The invariant is inductive.
LEMMA WidgetStep == WidgetInv /\ [WidgetNext]_widgetVars => WidgetInv'
<1>1. SUFFICES ASSUME WidgetInv, [WidgetNext]_widgetVars PROVE WidgetInv'  BY Zenon
<1>2. PICK a \in WalletAccounts, c \in Chains :
        Leads(inbox, a, c, live, chain) /\ (mounted /\ ~raced => Known(a, c))
  BY <1>1, Zenon DEF WidgetInv
<1>3. CASE Unmount
  <2>1. UNCHANGED <<live, chain, inbox, asked, raced>> /\ mounted' = FALSE /\ subscribed' = FALSE
    BY <1>3, Zenon DEF Unmount, walletVars
  <2>2. Leads(inbox, a, c, live, chain)'  BY <1>2, <2>1, Zenon DEF Leads
  <2>3. WidgetTypes'  BY <1>1, <2>1, Zenon DEF WidgetTypes, WidgetInv
  <2> QED  BY <2>1, <2>2, <2>3, Zenon DEF WidgetInv
<1>4. CASE UNCHANGED widgetVars
  <2>1. /\ UNCHANGED <<live, chain, inbox, asked, mounted, subscribed, raced>> /\ UNCHANGED pageVars
    BY <1>4, Zenon DEF widgetVars, walletVars, pageVars
  <2>2. Leads(inbox, a, c, live, chain)'  BY <1>2, <2>1, Zenon DEF Leads
  <2>3. WidgetTypes'  BY <1>1, <2>1, Zenon DEF WidgetTypes, WidgetInv
  <2>4. \A q : (NotAsked(q) => NotAsked(q)') /\ (AskedOnce(q) => AskedOnce(q)')
    BY <2>1, AskCounts, Zenon
  <2>5. Known(a, c) => Known(a, c)'  BY <2>1, <2>4, KnownKept, Zenon
  <2>6. ~mounted' => ~subscribed'  BY <1>1, <2>1, Zenon DEF WidgetInv
  <2> QED  BY <1>2, <2>1, <2>2, <2>3, <2>5, <2>6, Zenon DEF WidgetInv
<1> QED
  BY <1>1, <1>3, <1>4, AnswersStep, ChangesStep, DeliverStep, LoadStep, PageStep, Zenon DEF WidgetNext

\* Once all is delivered and done, the widget shows the wallet's account and chain and
\* the analytics know no account but this one, for any accounts and chains and however
\* long the wallet takes to answer, unless a change came in the middle of something.
THEOREM WalletFollowed == WidgetSpec => []FollowsWallet
<1>1. WidgetInit => WidgetInv
  <2>1. SUFFICES ASSUME WidgetInit PROVE WidgetInv  BY Zenon
  <2>2. WidgetTypes
    <3>1. Nothing \in [Requests -> Nat] /\ <<>> \in Seq(Messages)  BY DEF Nothing
    <3> QED  BY <2>1, <3>1, Zenon DEF WidgetInit, WidgetTypes, WalletAccounts
  <2>3. inbox = <<>> /\ live \in WalletAccounts /\ chain \in Chains
    BY <2>1, Zenon DEF WidgetInit, WalletAccounts
  <2>4. Leads(inbox, live, chain, live, chain)  BY <2>3, TrailEmpty, Zenon DEF Leads
  <2>5. Known(live, chain)
    <3>1. EventsOnly(inbox)  BY <2>3 DEF EventsOnly
    <3>2. Unloaded  BY <2>1, <3>1, Zenon DEF WidgetInit, Unloaded
    <3> QED  BY <3>2, Zenon DEF Known
  <2>6. ~subscribed  BY <2>1, Zenon DEF WidgetInit
  <2> QED  BY <2>2, <2>3, <2>4, <2>5, <2>6, Zenon DEF WidgetInv
<1> QED  BY <1>1, WidgetStep, QuietShows, PTL DEF WidgetSpec
=============================================================================
