--------------------------- MODULE FilteringProofs ---------------------------
(***************************************************************************)
(* What filtering a sequence by positions returns, for any sequence.  Kept *)
(* is recursive over the length, so this takes an induction; the provers   *)
(* cannot instantiate the library's schemes, which are parameterised by a  *)
(* predicate, and do it with sets: a set of naturals that is not empty has *)
(* a least member.                                                         *)
(***************************************************************************)
EXTENDS Filtering, WellFoundedInduction, TLAPS

\* The order of the naturals, as a relation, is well founded.
LEMMA LessIsWellFounded ==
    \E R : IsWellFoundedOn(R, Nat) /\ \A m, n \in Nat : m < n => <<m, n>> \in R
  <1>1. \A m, n \in Nat : m < n => <<m, n>> \in OpToRel(<, Nat)
    BY DEF OpToRel
  <1> QED
    BY <1>1, NatLessThanWellFounded, Zenon

\* Any set of naturals has a least member unless it is empty.
LEMMA LeastMember ==
    ASSUME NEW T, T \subseteq Nat, T # {}
    PROVE  \E m \in T : \A k \in T : m <= k
  <1>1. PICK R : IsWellFoundedOn(R, Nat) /\ \A m, n \in Nat : m < n => <<m, n>> \in R
    BY LessIsWellFounded
  <1>2. IsWellFoundedOn(R, Nat)
    BY <1>1
  <1>3. \A m, n \in Nat : m < n => <<m, n>> \in R
    BY <1>1
  <1>4. \E x \in T : \A y \in T : ~(<<y, x>> \in R)
    BY ONLY T \subseteq Nat, T # {}, <1>2, WFMin
  <1>5. PICK m \in T : \A y \in T : ~(<<y, m>> \in R)
    BY <1>4
  <1>6. ASSUME NEW k \in T PROVE m <= k
    <2>1. m \in Nat /\ k \in Nat
      OBVIOUS
    <2>2. ~(k < m)
      BY <1>3, <1>5, <2>1
    <2> QED
      BY <2>1, <2>2
  <1> QED
    BY <1>6

\* A set with zero and, with every natural, the next one has them all.
LEMMA SetInduction ==
    ASSUME NEW T, 0 \in T, \A n \in Nat : n \in T => n + 1 \in T
    PROVE  Nat \subseteq T
  <1> SUFFICES ASSUME Nat \ T # {} PROVE FALSE
    OBVIOUS
  <1>1. PICK m \in Nat \ T : \A k \in Nat \ T : m <= k
    BY LeastMember
  <1>2. m - 1 \in Nat /\ m - 1 \notin Nat \ T
    BY <1>1
  <1> QED
    BY <1>1, <1>2

\* The recursive equation of Kept, up to a length.
Filtered(q, at, f, len) ==
    f = [n \in 0..len |-> IF n = 0 THEN <<>>
                          ELSE IF n \in at THEN Append(f[n - 1], q[n]) ELSE f[n - 1]]

\* The values of a function that satisfies the recursive equation.
LEMMA FilteredValues ==
    ASSUME NEW q, NEW at, NEW len \in Nat, NEW f, Filtered(q, at, f, len)
    PROVE  /\ DOMAIN f = 0..len /\ f[0] = <<>>
           /\ \A k \in 1..len : f[k] = IF k \in at THEN Append(f[k - 1], q[k]) ELSE f[k - 1]
  <1>1. DOMAIN f = 0..len
    BY DEF Filtered
  <1>2. \A k \in 0..len : f[k] = IF k = 0 THEN <<>>
                                 ELSE IF k \in at THEN Append(f[k - 1], q[k]) ELSE f[k - 1]
    BY Zenon DEF Filtered
  <1>3. f[0] = <<>>
    <2>1. 0 \in 0..len
      OBVIOUS
    <2> QED
      BY <1>2, <2>1, Zenon
  <1>4. ASSUME NEW k \in 1..len
        PROVE  f[k] = IF k \in at THEN Append(f[k - 1], q[k]) ELSE f[k - 1]
    <2>1. k \in 0..len /\ k # 0
      OBVIOUS
    <2> QED
      BY <1>2, <2>1, Zenon
  <1> QED
    BY <1>1, <1>3, <1>4

\* There is such a function, by induction over its length.
LEMMA FilteredExists ==
    ASSUME NEW q, NEW at, NEW len \in Nat
    PROVE  \E f : Filtered(q, at, f, len)
  <1> DEFINE T == {n \in Nat : \E f : Filtered(q, at, f, n)}
  <1>1. 0 \in T
    <2>1. Filtered(q, at, [n \in 0..0 |-> <<>>], 0)
      BY DEF Filtered
    <2> QED
      BY <2>1
  <1>2. ASSUME NEW n \in Nat, n \in T PROVE n + 1 \in T
    <2>1. PICK f : Filtered(q, at, f, n)
      BY <1>2
    <2>2. DOMAIN f = 0..n /\ f[0] = <<>>
          /\ \A k \in 1..n : f[k] = IF k \in at THEN Append(f[k - 1], q[k]) ELSE f[k - 1]
      BY <2>1, FilteredValues
    <2> DEFINE g == [k \in 0..(n + 1) |-> IF k <= n THEN f[k]
                       ELSE IF k \in at THEN Append(f[k - 1], q[k]) ELSE f[k - 1]]
    <2>3. ASSUME NEW k \in 0..(n + 1)
          PROVE  g[k] = IF k = 0 THEN <<>>
                        ELSE IF k \in at THEN Append(g[k - 1], q[k]) ELSE g[k - 1]
      <3>1. CASE k = 0
        BY <2>2, <3>1
      <3>2. CASE k # 0
        <4>1. k - 1 \in 0..n /\ g[k - 1] = f[k - 1]
          BY <3>2
        <4>2. CASE k <= n
          <5>1. k \in 1..n
            BY <3>2, <4>2
          <5> QED
            BY <2>2, <3>2, <4>1, <4>2, <5>1
        <4>3. CASE ~(k <= n)
          BY <3>2, <4>1, <4>3
        <4> QED
          BY <4>2, <4>3
      <3> QED
        BY <3>1, <3>2
    <2>4. Filtered(q, at, g, n + 1)
      <3> HIDE DEF g
      <3>1. DOMAIN g = 0..(n + 1) /\ g = [k \in 0..(n + 1) |-> g[k]]
        BY DEF g
      <3> QED
        BY <2>3, <3>1 DEF Filtered
    <2> QED
      BY <2>4
  <1> HIDE DEF T
  <1>3. Nat \subseteq T
    BY <1>1, <1>2, SetInduction
  <1> QED
    BY <1>3 DEF T

\* Kept is its last value.
LEMMA KeptIsFiltered ==
    ASSUME NEW q, NEW at, Len(q) \in Nat
    PROVE  \E f : Filtered(q, at, f, Len(q)) /\ Kept(q, at) = f[Len(q)]
  <1> DEFINE kept == CHOOSE f : f = [n \in 0..Len(q) |-> IF n = 0 THEN <<>>
                       ELSE IF n \in at THEN Append(f[n - 1], q[n]) ELSE f[n - 1]]
  <1>1. Kept(q, at) = kept[Len(q)]
    BY DEF Kept
  <1>2. \E f : Filtered(q, at, f, Len(q))
    BY FilteredExists
  <1>3. Filtered(q, at, kept, Len(q))
    BY <1>2 DEF Filtered
  <1> QED
    BY <1>1, <1>3

\* s is q at the positions of at up to n, in their order.
Picks(q, at, n, s, h) ==
    /\ h \in [1..Len(s) -> {m \in at : m <= n}]
    /\ \A k \in 1..Len(s) : s[k] = q[h[k]]
    /\ \A j, k \in 1..Len(s) : j < k => h[j] < h[k]
    /\ \A m \in at : m <= n => \E k \in 1..Len(s) : h[k] = m

\* The next position is one of those to keep: its element goes to the end.
LEMMA PickOne ==
    ASSUME NEW S, NEW q \in Seq(S), NEW at, at \subseteq 1..Len(q),
           NEW n \in Nat, n + 1 \in at, NEW s \in Seq(S), NEW h, Picks(q, at, n, s, h)
    PROVE  /\ Append(s, q[n + 1]) \in Seq(S)
           /\ \E g : Picks(q, at, n + 1, Append(s, q[n + 1]), g)
  <1> DEFINE more == Append(s, q[n + 1])
             g == [k \in 1..(Len(s) + 1) |-> IF k = Len(s) + 1 THEN n + 1 ELSE h[k]]
  <1>1. /\ more \in Seq(S) /\ Len(s) \in Nat /\ Len(more) = Len(s) + 1
        /\ more[Len(s) + 1] = q[n + 1] /\ \A k \in 1..Len(s) : more[k] = s[k]
    OBVIOUS
  <1>2. /\ g[Len(s) + 1] = n + 1 /\ \A k \in 1..Len(s) : g[k] = h[k]
        /\ DOMAIN g = 1..(Len(s) + 1) /\ g = [k \in DOMAIN g |-> g[k]]
    BY <1>1
  <1>3. \A k \in 1..Len(s) : h[k] \in at /\ h[k] \in Nat /\ h[k] <= n
    <2>1. Len(q) \in Nat /\ \A m \in at : m \in Nat
      OBVIOUS
    <2>2. \A k \in 1..Len(s) : h[k] \in {m \in at : m <= n}
      BY DEF Picks
    <2> QED
      BY <2>1, <2>2
  <1> HIDE DEF more, g
  <1>4. \A k \in 1..(Len(s) + 1) : k = Len(s) + 1 \/ k \in 1..Len(s)
    BY <1>1
  <1>5. g \in [1..Len(more) -> {m \in at : m <= n + 1}]
    BY <1>1, <1>2, <1>3, <1>4
  <1>6. \A k \in 1..Len(more) : more[k] = q[g[k]]
    BY <1>1, <1>2, <1>4 DEF Picks
  <1>7. \A j, k \in 1..Len(more) : j < k => g[j] < g[k]
    <2> SUFFICES ASSUME NEW j \in 1..Len(more), NEW k \in 1..Len(more), j < k
                 PROVE  g[j] < g[k]
      OBVIOUS
    <2>1. j \in 1..Len(s)
      BY <1>1
    <2>2. CASE k = Len(s) + 1
      BY <1>2, <1>3, <2>1, <2>2
    <2>3. CASE k \in 1..Len(s)
      BY <1>2, <2>1, <2>3 DEF Picks
    <2> QED
      BY <1>1, <1>4, <2>2, <2>3
  <1>8. \A m \in at : m <= n + 1 => \E k \in 1..Len(more) : g[k] = m
    <2> SUFFICES ASSUME NEW m \in at, m <= n + 1
                 PROVE  \E k \in 1..Len(more) : g[k] = m
      OBVIOUS
    <2>1. CASE m = n + 1
      BY <1>1, <1>2, <2>1
    <2>2. CASE m <= n
      <3>1. PICK k \in 1..Len(s) : h[k] = m
        BY <2>2 DEF Picks
      <3> QED
        BY <1>1, <1>2, <3>1
    <2> QED
      BY <2>1, <2>2
  <1>9. Picks(q, at, n + 1, more, g)
    BY <1>5, <1>6, <1>7, <1>8 DEF Picks
  <1> QED
    BY <1>1, <1>9 DEF more

\* What is kept are the elements at those positions, each once, in order.
LEMMA KeptPicks ==
    ASSUME NEW S, NEW q \in Seq(S), NEW at, at \subseteq 1..Len(q)
    PROVE  /\ Kept(q, at) \in Seq(S)
           /\ \E h \in [1..Len(Kept(q, at)) -> at] :
                 /\ \A k \in 1..Len(Kept(q, at)) : Kept(q, at)[k] = q[h[k]]
                 /\ \A j, k \in 1..Len(Kept(q, at)) : j < k => h[j] < h[k]
                 /\ \A m \in at : \E k \in 1..Len(Kept(q, at)) : h[k] = m
  <1>1. Len(q) \in Nat /\ \A m \in at : m \in Nat /\ m <= Len(q)
    <2>1. Len(q) \in Nat
      OBVIOUS
    <2> QED
      BY <2>1
  <1>2. PICK f : Filtered(q, at, f, Len(q)) /\ Kept(q, at) = f[Len(q)]
    BY <1>1, KeptIsFiltered
  <1>3. f[0] = <<>> /\ \A k \in 1..Len(q) : f[k] = IF k \in at THEN Append(f[k - 1], q[k]) ELSE f[k - 1]
    BY <1>1, <1>2, FilteredValues
  <1> DEFINE Fine(n) == f[n] \in Seq(S) /\ \E h : Picks(q, at, n, f[n], h)
             T == {n \in Nat : n <= Len(q) => Fine(n)}
  <1>4. 0 \in T
    <2>1. <<>> \in Seq(S) /\ 1..Len(<<>>) = {}
      OBVIOUS
    <2>2. Picks(q, at, 0, <<>>, [k \in {} |-> 0])
      BY <2>1 DEF Picks
    <2> QED
      BY <1>3, <2>1, <2>2
  <1>5. ASSUME NEW n \in Nat, n \in T PROVE n + 1 \in T
    <2> SUFFICES ASSUME n + 1 <= Len(q) PROVE Fine(n + 1)
      OBVIOUS
    <2>1. f[n] \in Seq(S) /\ n + 1 \in 1..Len(q) /\ (n + 1) - 1 = n
      BY <1>1, <1>5
    <2>2. PICK h : Picks(q, at, n, f[n], h)
      BY <1>1, <1>5
    <2>3. CASE n + 1 \in at
      <3>1. f[n + 1] = Append(f[n], q[n + 1])
        BY <1>3, <2>1, <2>3
      <3>2. /\ Append(f[n], q[n + 1]) \in Seq(S)
            /\ \E g : Picks(q, at, n + 1, Append(f[n], q[n + 1]), g)
        BY <2>1, <2>2, <2>3, PickOne
      <3> QED
        BY <3>1, <3>2
    <2>4. CASE n + 1 \notin at
      <3>1. f[n + 1] = f[n]
        BY <1>3, <2>1, <2>4
      <3>2. {m \in at : m <= n + 1} = {m \in at : m <= n}
        <4>1. \A m \in Nat : m # n + 1 => (m <= n + 1 <=> m <= n)
          OBVIOUS
        <4> QED
          BY <1>1, <2>4, <4>1
      <3>3. Picks(q, at, n + 1, f[n], h)
        BY <1>1, <2>2, <2>4, <3>2 DEF Picks
      <3> QED
        BY <2>1, <3>1, <3>3
    <2> QED
      BY <2>3, <2>4
  <1> HIDE DEF T
  <1>6. Nat \subseteq T
    BY <1>4, <1>5, SetInduction
  <1>7. Fine(Len(q))
    BY <1>1, <1>6 DEF T
  <1>8. {m \in at : m <= Len(q)} = at
    BY <1>1
  <1>9. PICK h : Picks(q, at, Len(q), f[Len(q)], h)
    BY <1>7
  <1> QED
    BY <1>1, <1>2, <1>7, <1>8, <1>9 DEF Picks
=============================================================================
