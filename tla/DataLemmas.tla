---------------------------- MODULE DataLemmas -----------------------------
(***************************************************************************)
(* Induction over natural numbers, stated with sets: what holds of 0 and   *)
(* goes from n to n + 1 is a set of numbers, and a set of numbers that is  *)
(* not empty has a least one, as < is well-founded.  Below, what the       *)
(* operators on sequences do, one place at a time.                         *)
(***************************************************************************)
EXTENDS Naturals, SequencesExt, WellFoundedInduction, TLAPS

\* A set of natural numbers that is not empty has a least one.
THEOREM LeastNatural ==
  ASSUME NEW S, S \subseteq Nat, S # {}
  PROVE  \E x \in S : \A y \in S : x <= y
<1> DEFINE R == OpToRel(<, Nat)
           Q == {p \in Nat \X Nat : p[1] < p[2]}
<1>1. IsWellFoundedOn(R, Nat)
  BY NatLessThanWellFounded
<1>2. R = Q
  BY Zenon DEF OpToRel
<1>3. \A x, y \in Nat : y < x => <<y, x>> \in Q
  OBVIOUS
<1> HIDE DEF R, Q
<1>4. IsWellFoundedOn(Q, Nat)
  BY <1>1, <1>2
<1>5. PICK x \in S : \A y \in S : <<y, x>> \notin Q
  BY <1>4, WFMin
<1>6. \A y \in S : ~ (y < x)
  BY <1>3, <1>5
<1> QED
  BY <1>6

\* Induction: what has 0 and, with every number, the next one, has them all.
THEOREM AllNaturals ==
  ASSUME NEW S, 0 \in S, \A n \in Nat : n \in S => n + 1 \in S
  PROVE  Nat \subseteq S
<1> SUFFICES ASSUME Nat \ S # {} PROVE FALSE
  OBVIOUS
<1>1. PICK x \in Nat \ S : \A y \in Nat \ S : x <= y
  BY LeastNatural
<1>2. x # 0 /\ x - 1 \in Nat /\ x - 1 \notin Nat \ S
  BY <1>1
<1> QED
  BY <1>1, <1>2

LEMMA MinOfNaturals ==
  ASSUME NEW S, S \subseteq Nat, S # {}
  PROVE  Min(S) \in S /\ \A y \in S : Min(S) <= y
<1>1. PICK x \in S : \A y \in S : x <= y
  BY LeastNatural
<1> QED
  BY <1>1 DEF Min

LEMMA MaxOfNaturals ==
  ASSUME NEW S, S \subseteq Nat, S # {}, NEW n \in Nat, \A y \in S : y <= n
  PROVE  Max(S) \in S /\ \A y \in S : y <= Max(S)
<1> DEFINE T == {k \in Nat : \A y \in S : y <= k}
<1>1. PICK k \in T : \A j \in T : k <= j
  <2>1. n \in T
    OBVIOUS
  <2> QED
    BY <2>1, LeastNatural
<1>2. k \in S
  <2> SUFFICES ASSUME k \notin S PROVE FALSE
    OBVIOUS
  <2>1. PICK s \in S : TRUE
    OBVIOUS
  <2>2. \A y \in S : y < k
    BY <1>1
  <2>3. k - 1 \in T
    BY <2>1, <2>2, <1>1
  <2> QED
    BY <1>1, <2>3
<1>3. \E x \in S : \A y \in S : x >= y
  BY <1>1, <1>2
<1>4. Max(S) \in S /\ \A y \in S : Max(S) >= y
  BY <1>3 DEF Max
<1> QED
  BY <1>4

-----------------------------------------------------------------------------
IsSeq(s) == s \in Seq({s[i] : i \in DOMAIN s})

LEMMA SeqDomain ==
  ASSUME NEW s, IsSeq(s)
  PROVE  Len(s) \in Nat /\ DOMAIN s = 1 .. Len(s)
BY DEF IsSeq

LEMMA IsSeqOfFunction ==
  ASSUME NEW s, NEW n \in Nat, DOMAIN s = 1 .. n, s = [i \in 1 .. n |-> s[i]]
  PROVE  IsSeq(s) /\ Len(s) = n
<1> DEFINE S == {s[i] : i \in DOMAIN s}
<1>1. s \in [1 .. n -> S]
  OBVIOUS
<1>2. s \in Seq(S)
  BY <1>1
<1> QED
  BY <1>1, <1>2 DEF IsSeq

LEMMA EmptyIsSeq == IsSeq(<<>>) /\ Len(<<>>) = 0
BY DEF IsSeq

LEMMA SeqOfSet ==
  ASSUME NEW S, NEW s \in Seq(S)
  PROVE  IsSeq(s) /\ \A i \in DOMAIN s : s[i] \in S
<1>1. s = [i \in 1 .. Len(s) |-> s[i]] /\ Len(s) \in Nat /\ DOMAIN s = 1 .. Len(s)
  OBVIOUS
<1> QED
  BY <1>1, IsSeqOfFunction

LEMMA AppendIsSeq ==
  ASSUME NEW s, IsSeq(s), NEW e
  PROVE  /\ IsSeq(Append(s, e))
         /\ Len(Append(s, e)) = Len(s) + 1
         /\ \A i \in 1 .. Len(s) : Append(s, e)[i] = s[i]
         /\ Append(s, e)[Len(s) + 1] = e
<1> DEFINE S == {s[i] : i \in DOMAIN s} \cup {e}
<1>1. s \in Seq(S)
  BY SeqDomain, IsSeqOfFunction DEF IsSeq
<1>2. /\ Append(s, e) \in Seq(S)
      /\ Len(Append(s, e)) = Len(s) + 1
      /\ \A i \in 1 .. Len(s) : Append(s, e)[i] = s[i]
      /\ Append(s, e)[Len(s) + 1] = e
  BY <1>1
<1>3. IsSeq(Append(s, e))
  BY <1>2, SeqOfSet
<1> QED
  BY <1>2, <1>3

LEMMA ExceptIsSeq ==
  ASSUME NEW s, IsSeq(s), NEW k, NEW e
  PROVE  IsSeq([s EXCEPT ![k] = e]) /\ Len([s EXCEPT ![k] = e]) = Len(s)
<1>1. /\ DOMAIN [s EXCEPT ![k] = e] = 1 .. Len(s)
      /\ [s EXCEPT ![k] = e] = [i \in 1 .. Len(s) |-> [s EXCEPT ![k] = e][i]]
  BY SeqDomain
<1> HIDE DEF IsSeq
<1> QED
  BY <1>1, SeqDomain, IsSeqOfFunction

LEMMA ConcatOfSet ==
  ASSUME NEW S, NEW s \in Seq(S), NEW t \in Seq(S)
  PROVE  /\ s \o t \in Seq(S)
         /\ Len(s \o t) = Len(s) + Len(t)
         /\ \A i \in 1 .. Len(s) + Len(t) :
              (s \o t)[i] = IF i <= Len(s) THEN s[i] ELSE t[i - Len(s)]
OBVIOUS

LEMMA RemoveAtIsSeq ==
  ASSUME NEW s, IsSeq(s), NEW k \in 1 .. Len(s)
  PROVE  /\ IsSeq(RemoveAt(s, k))
         /\ Len(RemoveAt(s, k)) = Len(s) - 1
         /\ \A i \in 1 .. Len(s) - 1 : RemoveAt(s, k)[i] = IF i < k THEN s[i] ELSE s[i + 1]
<1> DEFINE S == {s[i] : i \in DOMAIN s}
           a == SubSeq(s, 1, k - 1)
           b == SubSeq(s, k + 1, Len(s))
<1> HIDE DEF IsSeq
<1>1. s \in Seq(S) /\ Len(s) \in Nat
  BY SeqDomain DEF IsSeq
<1>2. a \in Seq(S) /\ Len(a) = k - 1 /\ \A i \in 1 .. k - 1 : a[i] = s[i]
  BY <1>1
<1>3. b \in Seq(S) /\ Len(b) = Len(s) - k /\ \A i \in 1 .. Len(s) - k : b[i] = s[i + k]
  BY <1>1
<1>4. RemoveAt(s, k) = a \o b
  BY DEF RemoveAt
<1> HIDE DEF a, b
<1> DEFINE c == a \o b
<1> HIDE DEF S
<1>l. Len(a) + Len(b) = Len(s) - 1
  BY <1>1, <1>2, <1>3
<1>c. /\ c \in Seq(S) /\ Len(c) = Len(a) + Len(b)
      /\ \A i \in 1 .. Len(a) + Len(b) :
           c[i] = IF i <= Len(a) THEN a[i] ELSE b[i - Len(a)]
  BY <1>2, <1>3, ConcatOfSet
<1> HIDE DEF c
<1>5. c \in Seq(S) /\ Len(c) = Len(s) - 1
  BY <1>l, <1>c
<1>6. \A i \in 1 .. Len(s) - 1 :
        c[i] = IF i <= Len(a) THEN a[i] ELSE b[i - Len(a)]
  BY <1>l, <1>c
<1>7. \A i \in 1 .. Len(s) - 1 : c[i] = IF i < k THEN s[i] ELSE s[i + 1]
  <2> TAKE i \in 1 .. Len(s) - 1
  <2>1. CASE i < k
    BY <1>1, <1>2, <1>6, <2>1
  <2>2. CASE ~ (i < k)
    <3>1. i - Len(a) \in 1 .. Len(s) - k /\ (i - Len(a)) + k = i + 1
      BY <1>1, <1>2, <2>2
    <3>2. b[i - Len(a)] = s[(i - Len(a)) + k]
      BY <1>3, <3>1
    <3>3. c[i] = IF i <= Len(a) THEN a[i] ELSE b[i - Len(a)]
      BY <1>6
    <3>4. ~ (i <= Len(a))
      BY <1>1, <1>2, <2>2
    <3> QED
      BY <2>2, <3>1, <3>2, <3>3, <3>4
  <2> QED
    BY <2>1, <2>2
<1>8. IsSeq(c)
  BY <1>5, SeqOfSet
<1> QED
  BY <1>4, <1>5, <1>7, <1>8 DEF c

-----------------------------------------------------------------------------
LEMMA ConcatIsSeq ==
  ASSUME NEW s, IsSeq(s), NEW t, IsSeq(t)
  PROVE  /\ IsSeq(s \o t)
         /\ Len(s \o t) = Len(s) + Len(t)
         /\ \A i \in 1 .. Len(s) : (s \o t)[i] = s[i]
         /\ \A i \in 1 .. Len(t) : (s \o t)[Len(s) + i] = t[i]
<1> DEFINE S == {s[i] : i \in DOMAIN s} \cup {t[i] : i \in DOMAIN t}
<1>1. s \in Seq(S)
  BY SeqDomain, IsSeqOfFunction DEF IsSeq
<1>2. t \in Seq(S)
  BY SeqDomain, IsSeqOfFunction DEF IsSeq
<1> HIDE DEF IsSeq, S
<1>3. /\ s \o t \in Seq(S)
      /\ Len(s \o t) = Len(s) + Len(t)
      /\ \A i \in 1 .. Len(s) : (s \o t)[i] = s[i]
      /\ \A i \in 1 .. Len(t) : (s \o t)[Len(s) + i] = t[i]
  BY <1>1, <1>2
<1> QED
  BY <1>3, SeqOfSet

\* t has the elements of the first n of the sequences s, in their order.
FlatTo(t, s, n) ==
  /\ IsSeq(t)
  /\ \A i \in 1 .. n : \A j \in DOMAIN s[i] : \E k \in DOMAIN t : t[k] = s[i][j]
  /\ \A k \in DOMAIN t : \E i \in 1 .. n : \E j \in DOMAIN s[i] : t[k] = s[i][j]
  /\ \A k, l \in DOMAIN t : k < l =>
       \E i, h \in 1 .. n : \E a \in DOMAIN s[i] : \E b \in DOMAIN s[h] :
         t[k] = s[i][a] /\ t[l] = s[h][b] /\ (i < h \/ (i = h /\ a < b))

LEMMA FlatToNext ==
  ASSUME NEW s, NEW n \in Nat, NEW t, FlatTo(t, s, n), IsSeq(s[n + 1])
  PROVE  FlatTo(t \o s[n + 1], s, n + 1)
<1> DEFINE u == s[n + 1]
           v == t \o u
<1>1. /\ IsSeq(v) /\ Len(v) = Len(t) + Len(u)
      /\ \A i \in 1 .. Len(t) : v[i] = t[i]
      /\ \A i \in 1 .. Len(u) : v[Len(t) + i] = u[i]
  BY ConcatIsSeq DEF FlatTo
<1>2. /\ Len(t) \in Nat /\ DOMAIN t = 1 .. Len(t)
      /\ Len(u) \in Nat /\ DOMAIN u = 1 .. Len(u)
      /\ DOMAIN v = 1 .. Len(v)
  BY <1>1, SeqDomain DEF FlatTo
<1> HIDE DEF v
<1>3. ASSUME NEW i \in 1 .. n + 1, NEW j \in DOMAIN s[i]
      PROVE  \E k \in DOMAIN v : v[k] = s[i][j]
  <2>1. CASE i \in 1 .. n
    <3>1. PICK k \in DOMAIN t : t[k] = s[i][j]
      BY <2>1 DEF FlatTo
    <3> QED
      BY <1>1, <1>2, <3>1
  <2>2. CASE i = n + 1
    <3>1. j \in 1 .. Len(u)
      BY <1>2, <2>2
    <3>2. Len(t) + j \in DOMAIN v /\ v[Len(t) + j] = u[j]
      BY <1>1, <1>2, <3>1
    <3> QED
      BY <2>2, <3>2
  <2> QED
    BY <2>1, <2>2
<1>4. ASSUME NEW k \in DOMAIN v
      PROVE  \/ k \in DOMAIN t /\ v[k] = t[k]
             \/ k > Len(t) /\ k - Len(t) \in DOMAIN u /\ v[k] = u[k - Len(t)]
  <2>1. CASE k > Len(t)
    <3>1. k - Len(t) \in 1 .. Len(u) /\ Len(t) + (k - Len(t)) = k
      BY <1>1, <1>2, <2>1
    <3> QED
      BY <1>1, <1>2, <2>1, <3>1
  <2> QED
    BY <1>1, <1>2, <2>1
<1>5. ASSUME NEW k \in DOMAIN v
      PROVE  \E i \in 1 .. n + 1 : \E j \in DOMAIN s[i] : v[k] = s[i][j]
  <2>1. CASE k \in DOMAIN t /\ v[k] = t[k]
    <3>1. PICK i \in 1 .. n : \E j \in DOMAIN s[i] : t[k] = s[i][j]
      BY <2>1 DEF FlatTo
    <3>2. i \in 1 .. n + 1
      OBVIOUS
    <3> QED
      BY <2>1, <3>1, <3>2
  <2>2. CASE k - Len(t) \in DOMAIN u /\ v[k] = u[k - Len(t)]
    BY <2>2
  <2> QED
    BY <1>4, <2>1, <2>2
<1>6. ASSUME NEW k \in DOMAIN v, NEW l \in DOMAIN v, k < l
      PROVE  \E i, h \in 1 .. n + 1 : \E a \in DOMAIN s[i] : \E b \in DOMAIN s[h] :
               v[k] = s[i][a] /\ v[l] = s[h][b] /\ (i < h \/ (i = h /\ a < b))
  <2>1. CASE k \in DOMAIN t /\ l \in DOMAIN t /\ v[k] = t[k] /\ v[l] = t[l]
    <3>1. PICK i \in 1 .. n, h \in 1 .. n : \E a \in DOMAIN s[i] : \E b \in DOMAIN s[h] :
            t[k] = s[i][a] /\ t[l] = s[h][b] /\ (i < h \/ (i = h /\ a < b))
      BY <1>6, <2>1 DEF FlatTo
    <3>2. i \in 1 .. n + 1 /\ h \in 1 .. n + 1
      OBVIOUS
    <3> QED
      BY <2>1, <3>1, <3>2
  <2>2. CASE /\ k \in DOMAIN t /\ v[k] = t[k]
             /\ l - Len(t) \in DOMAIN u /\ v[l] = u[l - Len(t)]
    <3>1. PICK i \in 1 .. n : \E a \in DOMAIN s[i] : t[k] = s[i][a]
      BY <2>2 DEF FlatTo
    <3>2. i \in 1 .. n + 1 /\ n + 1 \in 1 .. n + 1 /\ i < n + 1
      OBVIOUS
    <3> QED
      BY <2>2, <3>1, <3>2
  <2>3. CASE /\ k > Len(t) /\ k - Len(t) \in DOMAIN u /\ v[k] = u[k - Len(t)]
             /\ l - Len(t) \in DOMAIN u /\ v[l] = u[l - Len(t)]
    <3>1. k - Len(t) < l - Len(t) /\ n + 1 \in 1 .. n + 1
      BY <1>1, <1>2, <1>6
    <3> QED
      BY <2>3, <3>1
  <2>4. CASE k > Len(t) /\ l \in DOMAIN t
    BY <1>1, <1>2, <1>6, <2>4
  <2> QED
    BY <1>4, <2>1, <2>2, <2>3, <2>4
<1> QED
  BY <1>1, <1>3, <1>5, <1>6 DEF FlatTo, v

IsFlattening(f, s, n) ==
  f = [i \in 1 .. n |-> IF i = 1 THEN s[i] ELSE f[i - 1] \o s[i]]

\* The recursive function that flattens exists ...
LEMMA FlatteningExists ==
  ASSUME NEW s
  PROVE  \A n \in Nat : \E f : IsFlattening(f, s, n)
<1> DEFINE S == {n \in Nat : \E f : IsFlattening(f, s, n)}
<1>1. 0 \in S
  <2>1. IsFlattening([i \in 1 .. 0 |-> 0], s, 0)
    BY DEF IsFlattening
  <2> QED
    BY <2>1
<1>2. ASSUME NEW n \in Nat, n \in S PROVE n + 1 \in S
  <2>1. PICK f : IsFlattening(f, s, n)
    BY <1>2
  <2> DEFINE g == [i \in 1 .. n + 1 |-> IF i = 1 THEN s[i] ELSE f[i - 1] \o s[i]]
             h == [i \in 1 .. n + 1 |-> IF i = 1 THEN s[i] ELSE g[i - 1] \o s[i]]
  <2>2. \A i \in 1 .. n : g[i] = f[i]
    <3> DEFINE e == [i \in 1 .. n |-> IF i = 1 THEN s[i] ELSE f[i - 1] \o s[i]]
    <3>1. \A i \in 1 .. n : g[i] = e[i]
      OBVIOUS
    <3>2. f = e
      BY <2>1 DEF IsFlattening
    <3> QED
      BY <3>1, <3>2
  <2>3. \A i \in 1 .. n + 1 : g[i] = h[i]
    <3> TAKE i \in 1 .. n + 1
    <3>1. CASE i = 1
      BY <3>1
    <3>2. CASE i # 1
      <4>1. i - 1 \in 1 .. n
        BY <3>2
      <4>2. g[i - 1] = f[i - 1]
        BY <2>2, <4>1
      <4> QED
        BY <3>2, <4>2
    <3> QED
      BY <3>1, <3>2
  <2>4. g = h
    BY <2>3
  <2>5. IsFlattening(g, s, n + 1)
    BY <2>4 DEF IsFlattening
  <2> QED
    BY <2>5
<1> HIDE DEF S
<1>3. Nat \subseteq S
  BY <1>1, <1>2, AllNaturals
<1> QED
  BY <1>3 DEF S

\* ... and what it computes has all elements, in their order.
LEMMA FlattenSeqIs ==
  ASSUME NEW s, IsSeq(s), \A i \in DOMAIN s : IsSeq(s[i])
  PROVE  FlatTo(FlattenSeq(s), s, Len(s))
<1>0. Len(s) \in Nat /\ DOMAIN s = 1 .. Len(s)
  BY SeqDomain
<1>1. CASE Len(s) = 0
  <2>1. FlattenSeq(s) = s
    BY <1>1 DEF FlattenSeq
  <2> QED
    BY <1>0, <1>1, <2>1 DEF FlatTo
<1>2. CASE Len(s) # 0
  <2> DEFINE f == CHOOSE g : g = [i \in 1 .. Len(s) |-> IF i = 1 THEN s[i] ELSE g[i - 1] \o s[i]]
  <2>1. \E g : g = [i \in 1 .. Len(s) |-> IF i = 1 THEN s[i] ELSE g[i - 1] \o s[i]]
    BY <1>0, FlatteningExists DEF IsFlattening
  <2>2. f = [i \in 1 .. Len(s) |-> IF i = 1 THEN s[i] ELSE f[i - 1] \o s[i]]
    BY <2>1, Zenon
  <2>3. FlattenSeq(s) = f[Len(s)]
    BY <1>2, Zenon DEF FlattenSeq
  <2> HIDE DEF f
  <2> DEFINE S == {n \in Nat : n + 1 <= Len(s) => FlatTo(f[n + 1], s, n + 1)}
  <2>4. 0 \in S
    <3>1. f[1] = s[1] /\ IsSeq(s[1]) /\ DOMAIN s[1] = 1 .. Len(s[1]) /\ Len(s[1]) \in Nat
      BY <1>0, <1>2, <2>2, SeqDomain
    <3>2. 1 \in 1 .. 1 /\ \A i \in 1 .. 1 : i = 1
      OBVIOUS
    <3>3. \A i \in 1 .. 1 : \A j \in DOMAIN s[i] : \E k \in DOMAIN s[1] : s[1][k] = s[i][j]
      BY <3>2
    <3>4. \A k, l \in DOMAIN s[1] : k < l =>
            \E i, h \in 1 .. 1 : \E a \in DOMAIN s[i] : \E b \in DOMAIN s[h] :
              s[1][k] = s[i][a] /\ s[1][l] = s[h][b] /\ (i < h \/ (i = h /\ a < b))
      BY <3>2
    <3>5. FlatTo(s[1], s, 1)
      BY <3>1, <3>2, <3>3, <3>4 DEF FlatTo
    <3> QED
      BY <3>1, <3>5
  <2>5. ASSUME NEW n \in Nat, n \in S PROVE n + 1 \in S
    <3> SUFFICES ASSUME n + 1 + 1 <= Len(s) PROVE FlatTo(f[n + 1 + 1], s, n + 1 + 1)
      OBVIOUS
    <3>1. FlatTo(f[n + 1], s, n + 1)
      BY <1>0, <2>5
    <3>2. f[n + 1 + 1] = f[n + 1] \o s[n + 1 + 1] /\ IsSeq(s[n + 1 + 1])
      <4>1. n + 1 + 1 \in 1 .. Len(s) /\ n + 1 + 1 # 1 /\ (n + 1 + 1) - 1 = n + 1
        BY <1>0
      <4> QED
        BY <1>0, <2>2, <4>1
    <3> QED
      BY <3>1, <3>2, FlatToNext
  <2> HIDE DEF S
  <2>6. Nat \subseteq S
    BY <2>4, <2>5, AllNaturals
  <2>7. Len(s) - 1 \in S /\ (Len(s) - 1) + 1 = Len(s)
    BY <1>0, <1>2, <2>6
  <2> QED
    BY <1>0, <2>3, <2>7 DEF S
<1> QED
  BY <1>1, <1>2

\* Induction over a measure: what has every element whose smaller ones it has.
THEOREM AllSmaller ==
  ASSUME NEW X, NEW m \in [X -> Nat], NEW S,
         \A x \in X : (\A y \in X : m[y] < m[x] => y \in S) => x \in S
  PROVE  X \subseteq S
<1> DEFINE T == {n \in Nat : \A y \in X : m[y] < n => y \in S}
<1>1. 0 \in T
  OBVIOUS
<1>2. ASSUME NEW n \in Nat, n \in T PROVE n + 1 \in T
  <2> SUFFICES ASSUME NEW y \in X, m[y] < n + 1 PROVE y \in S
    OBVIOUS
  <2>1. \A z \in X : m[z] < m[y] => z \in S
    <3> SUFFICES ASSUME NEW z \in X, m[z] < m[y] PROVE z \in S
      OBVIOUS
    <3>1. m[z] \in Nat /\ m[y] \in Nat /\ m[z] < n
      OBVIOUS
    <3> QED
      BY <1>2, <3>1
  <2> QED
    BY <2>1
<1> HIDE DEF T
<1>3. Nat \subseteq T
  BY <1>1, <1>2, AllNaturals
<1>4. ASSUME NEW x \in X PROVE x \in S
  <2>1. m[x] + 1 \in T /\ m[x] < m[x] + 1
    BY <1>3
  <2> QED
    BY <2>1 DEF T
<1> QED
  BY <1>4

\* Recursion on D, each time for something of which m is smaller.
Founded(X, V, m, D, next, base, comb) ==
  /\ m \in [X -> Nat]
  /\ D \subseteq X /\ next \in [D -> X] /\ \A x \in D : m[next[x]] < m[x]
  /\ base \in [X -> V] /\ comb \in [X -> [V -> V]]

\* f is at x what the recursion says.
RightAt(f, x, D, next, base, comb) ==
  f[x] = IF x \in D THEN comb[x][f[next[x]]] ELSE base[x]

\* A function that is given where it does not recurse, and elsewhere by its
\* value at something smaller, exists.
THEOREM RecursionExists ==
  ASSUME NEW X, NEW V, NEW m, NEW D, NEW next, NEW base, NEW comb,
         Founded(X, V, m, D, next, base, comb)
  PROVE  \E f \in [X -> V] : \A x \in X : f[x] = IF x \in D THEN comb[x][f[next[x]]] ELSE base[x]
<1>0. /\ m \in [X -> Nat]
      /\ D \subseteq X /\ next \in [D -> X] /\ \A x \in D : m[next[x]] < m[x]
      /\ base \in [X -> V] /\ comb \in [X -> [V -> V]]
  BY DEF Founded
<1> USE <1>0
<1> DEFINE Right(f, n) == \A x \in X : m[x] < n => RightAt(f, x, D, next, base, comb)
           Stages == {n \in Nat : \E f \in [X -> V] : Right(f, n)}
<1>1. 0 \in Stages
  <2>1. Right(base, 0)
    OBVIOUS
  <2> QED
    BY <2>1
<1>2. ASSUME NEW n \in Nat, n \in Stages PROVE n + 1 \in Stages
  <2>1. PICK f \in [X -> V] : Right(f, n)
    BY <1>2
  <2> DEFINE g == [x \in X |-> IF x \in D THEN comb[x][f[next[x]]] ELSE base[x]]
  <2>2. g \in [X -> V]
    OBVIOUS
  <2>3. \A x \in X : RightAt(f, x, D, next, base, comb) => g[x] = f[x]
    BY DEF RightAt
  <2>4. ASSUME NEW x \in X, m[x] < n + 1 PROVE RightAt(g, x, D, next, base, comb)
    <3>1. CASE x \in D
      <4>1. next[x] \in X /\ m[next[x]] \in Nat /\ m[x] \in Nat /\ m[next[x]] < m[x]
        BY <3>1
      <4>2. m[next[x]] < n
        BY <2>4, <4>1
      <4>3. g[next[x]] = f[next[x]]
        BY <2>1, <2>3, <4>1, <4>2
      <4>4. g[x] = comb[x][f[next[x]]]
        BY <3>1
      <4> HIDE DEF g
      <4> QED
        BY <3>1, <4>3, <4>4 DEF RightAt
    <3>2. CASE x \notin D
      BY <3>2 DEF RightAt
    <3> QED
      BY <3>1, <3>2
  <2>5. Right(g, n + 1)
    BY <2>4
  <2> HIDE DEF g, Right
  <2> QED
    BY <2>2, <2>5
<1> HIDE DEF Stages
<1>3. \A n \in Nat : \E f \in [X -> V] : Right(f, n)
  BY <1>1, <1>2, AllNaturals DEF Stages
<1>4. ASSUME NEW n \in Nat, NEW k \in Nat, NEW f, NEW g, Right(f, n), Right(g, k)
      PROVE  \A x \in X : m[x] < n /\ m[x] < k => f[x] = g[x]
  <2> DEFINE S == {x \in X : m[x] < n /\ m[x] < k => f[x] = g[x]}
  <2>1. ASSUME NEW x \in X, \A y \in X : m[y] < m[x] => y \in S PROVE x \in S
    <3> SUFFICES ASSUME m[x] < n, m[x] < k PROVE f[x] = g[x]
      OBVIOUS
    <3>1. RightAt(f, x, D, next, base, comb) /\ RightAt(g, x, D, next, base, comb)
      BY <1>4
    <3>2. CASE x \in D
      <4>1. next[x] \in X /\ m[next[x]] \in Nat /\ m[x] \in Nat /\ m[next[x]] < m[x]
        BY <3>2
      <4>2. f[next[x]] = g[next[x]]
        BY <2>1, <4>1
      <4> QED
        BY <3>1, <3>2, <4>2 DEF RightAt
    <3>3. CASE x \notin D
      BY <3>1, <3>3 DEF RightAt
    <3> QED
      BY <3>2, <3>3
  <2> HIDE DEF S
  <2>2. X \subseteq S
    BY <2>1, AllSmaller
  <2> QED
    BY <2>2 DEF S
<1> DEFINE F(n) == CHOOSE f \in [X -> V] : Right(f, n)
<1>5. \A n \in Nat : F(n) \in [X -> V] /\ Right(F(n), n)
  BY <1>3
<1> HIDE DEF F, Right
<1> DEFINE h == [x \in X |-> F(m[x] + 1)[x]]
<1>6. h \in [X -> V]
  BY <1>5
<1>7. ASSUME NEW x \in X PROVE h[x] = IF x \in D THEN comb[x][h[next[x]]] ELSE base[x]
  <2>1. m[x] \in Nat /\ m[x] + 1 \in Nat /\ m[x] < m[x] + 1
    OBVIOUS
  <2>2. RightAt(F(m[x] + 1), x, D, next, base, comb)
    BY <1>5, <2>1 DEF Right
  <2>3. CASE x \in D
    <3>1. next[x] \in X /\ m[next[x]] \in Nat /\ m[next[x]] < m[x]
      BY <2>3
    <3>2. /\ m[next[x]] + 1 \in Nat /\ m[next[x]] < m[next[x]] + 1
          /\ m[next[x]] < m[x] + 1
      BY <2>1, <3>1
    <3>3. F(m[x] + 1)[next[x]] = F(m[next[x]] + 1)[next[x]]
      BY <1>4, <1>5, <2>1, <3>1, <3>2
    <3>4. h[x] = F(m[x] + 1)[x] /\ h[next[x]] = F(m[next[x]] + 1)[next[x]]
      BY <3>1
    <3> HIDE DEF h
    <3> QED
      BY <2>2, <2>3, <3>3, <3>4 DEF RightAt
  <2>4. CASE x \notin D
    BY <2>2, <2>4 DEF RightAt
  <2> QED
    BY <2>3, <2>4
<1> QED
  BY <1>6, <1>7

\* Sequences are equal if they have the same elements.
LEMMA SeqEqual ==
  ASSUME NEW S, NEW s \in Seq(S), NEW t \in Seq(S), Len(s) = Len(t),
         \A i \in 1 .. Len(s) : s[i] = t[i]
  PROVE  s = t
OBVIOUS

\* A part of a sequence has the elements from a to b.
LEMMA SubSeqIs ==
  ASSUME NEW S, NEW s \in Seq(S), NEW a \in Nat \ {0}, NEW b \in Nat, b <= Len(s), a <= b + 1
  PROVE  /\ SubSeq(s, a, b) \in Seq(S)
         /\ Len(SubSeq(s, a, b)) = (b - a) + 1
         /\ \A i \in 1 .. (b - a) + 1 : SubSeq(s, a, b)[i] = s[(a - 1) + i]
OBVIOUS

\* Three sequences, one after the other.
LEMMA ConcatAssoc ==
  ASSUME NEW S, NEW s \in Seq(S), NEW t \in Seq(S), NEW u \in Seq(S)
  PROVE  (s \o t) \o u = s \o (t \o u)
OBVIOUS

\* The empty sequence adds nothing.
LEMMA ConcatEmpty ==
  ASSUME NEW S, NEW s \in Seq(S)
  PROVE  <<>> \o s = s /\ s \o <<>> = s
OBVIOUS

\* FlattenSeq is the last value of such a function ...
LEMMA FlattenFunction ==
  ASSUME NEW s, IsSeq(s), Len(s) # 0
  PROVE  \E f : IsFlattening(f, s, Len(s)) /\ FlattenSeq(s) = f[Len(s)]
<1>0. Len(s) \in Nat
  BY SeqDomain
<1> DEFINE f == CHOOSE g : g = [i \in 1 .. Len(s) |-> IF i = 1 THEN s[i] ELSE g[i - 1] \o s[i]]
<1>1. \E g : g = [i \in 1 .. Len(s) |-> IF i = 1 THEN s[i] ELSE g[i - 1] \o s[i]]
  BY <1>0, FlatteningExists DEF IsFlattening
<1>2. f = [i \in 1 .. Len(s) |-> IF i = 1 THEN s[i] ELSE f[i - 1] \o s[i]]
  BY <1>1, Zenon
<1>3. FlattenSeq(s) = f[Len(s)]
  BY Zenon DEF FlattenSeq
<1> HIDE DEF f
<1>4. IsFlattening(f, s, Len(s))
  BY <1>2, Zenon DEF IsFlattening
<1> QED
  BY <1>3, <1>4

\* ... whose values are given one by the other.
LEMMA FlatteningAt ==
  ASSUME NEW f, NEW s, NEW n \in Nat, IsFlattening(f, s, n), NEW i \in 1 .. n
  PROVE  f[i] = IF i = 1 THEN s[i] ELSE f[i - 1] \o s[i]
<1> DEFINE e == [j \in 1 .. n |-> IF j = 1 THEN s[j] ELSE f[j - 1] \o s[j]]
<1>1. f = e
  BY DEF IsFlattening
<1>2. e[i] = IF i = 1 THEN s[i] ELSE f[i - 1] \o s[i]
  OBVIOUS
<1> HIDE DEF e
<1> QED
  BY <1>1, <1>2

\* One more sequence comes at the end.
LEMMA FlattenAppend ==
  ASSUME NEW S, NEW s \in Seq(Seq(S)), NEW e \in Seq(S)
  PROVE  FlattenSeq(Append(s, e)) = FlattenSeq(s) \o e
<1> DEFINE t == Append(s, e)
<1>1. /\ IsSeq(s) /\ IsSeq(t) /\ Len(s) \in Nat /\ Len(t) = Len(s) + 1
      /\ \A i \in 1 .. Len(s) : t[i] = s[i]
      /\ t[Len(s) + 1] = e
  <2>1. /\ t \in Seq(Seq(S)) /\ Len(s) \in Nat /\ Len(t) = Len(s) + 1
        /\ \A i \in 1 .. Len(s) : t[i] = s[i]
        /\ t[Len(s) + 1] = e
    OBVIOUS
  <2> HIDE DEF t
  <2>2. IsSeq(s) /\ IsSeq(t)
    BY <2>1, SeqOfSet
  <2> QED
    BY <2>1, <2>2
<1> HIDE DEF t
<1>2. PICK g : IsFlattening(g, t, Len(s) + 1) /\ FlattenSeq(t) = g[Len(s) + 1]
  BY <1>1, FlattenFunction
<1>5. \A i \in 1 .. Len(s) + 1 : g[i] = IF i = 1 THEN t[i] ELSE g[i - 1] \o t[i]
  <2> DEFINE n == Len(s) + 1
  <2>1. n \in Nat /\ IsFlattening(g, t, n)
    BY <1>1, <1>2
  <2> HIDE DEF n
  <2>2. \A i \in 1 .. n : g[i] = IF i = 1 THEN t[i] ELSE g[i - 1] \o t[i]
    BY <2>1, FlatteningAt
  <2> QED
    BY <2>2 DEF n
<1>3. CASE Len(s) = 0
  <2>1. FlattenSeq(s) = s
    BY <1>3 DEF FlattenSeq
  <2>2. FlattenSeq(t) = e
    BY <1>1, <1>2, <1>3, FlatteningAt
  <2>3. s = <<>>
    BY <1>3
  <2>4. <<>> \o e = e
    OBVIOUS
  <2> QED
    BY <2>1, <2>2, <2>3, <2>4 DEF t
<1>4. CASE Len(s) # 0
  <2>1. PICK f : IsFlattening(f, s, Len(s)) /\ FlattenSeq(s) = f[Len(s)]
    BY <1>1, <1>4, FlattenFunction
  <2>9. \A i \in 1 .. Len(s) : f[i] = IF i = 1 THEN s[i] ELSE f[i - 1] \o s[i]
    BY <1>1, <2>1, FlatteningAt
  <2> DEFINE T == {n \in Nat : n + 1 <= Len(s) => f[n + 1] = g[n + 1]}
  <2>2. 0 \in T
    <3>1. 1 \in 1 .. Len(s) /\ 1 \in 1 .. Len(s) + 1
      BY <1>1, <1>4
    <3>2. f[1] = s[1] /\ g[1] = t[1]
      BY <1>5, <2>9, <3>1
    <3>3. t[1] = s[1] /\ 0 + 1 = 1
      BY <1>1, <3>1
    <3> QED
      BY <3>2, <3>3
  <2>3. ASSUME NEW n \in Nat, n \in T PROVE n + 1 \in T
    <3> SUFFICES ASSUME n + 1 + 1 <= Len(s) PROVE f[n + 1 + 1] = g[n + 1 + 1]
      OBVIOUS
    <3>1. /\ n + 1 + 1 \in 1 .. Len(s) /\ n + 1 + 1 \in 1 .. Len(s) + 1
          /\ n + 1 + 1 # 1 /\ (n + 1 + 1) - 1 = n + 1
      BY <1>1
    <3>2. f[n + 1 + 1] = f[n + 1] \o s[n + 1 + 1]
      BY <2>9, <3>1
    <3>3. g[n + 1 + 1] = g[n + 1] \o t[n + 1 + 1]
      BY <1>5, <3>1
    <3>4. t[n + 1 + 1] = s[n + 1 + 1]
      BY <1>1, <3>1
    <3>5. f[n + 1] = g[n + 1]
      BY <1>1, <2>3
    <3> QED
      BY <3>2, <3>3, <3>4, <3>5
  <2> HIDE DEF T
  <2>4. Nat \subseteq T
    BY <2>2, <2>3, AllNaturals
  <2>5. Len(s) - 1 \in T /\ (Len(s) - 1) + 1 = Len(s)
    BY <1>1, <1>4, <2>4
  <2>6. f[Len(s)] = g[Len(s)]
    BY <2>5 DEF T
  <2>7. /\ Len(s) + 1 \in 1 .. Len(s) + 1 /\ Len(s) + 1 # 1 /\ (Len(s) + 1) - 1 = Len(s)
    BY <1>1, <1>4
  <2>8. g[Len(s) + 1] = g[Len(s)] \o t[Len(s) + 1]
    BY <1>5, <2>7
  <2> QED
    BY <1>1, <1>2, <2>1, <2>6, <2>8 DEF t
<1> QED
  BY <1>3, <1>4

\* Flattening stays within the sequences.
LEMMA FlattenIs ==
  ASSUME NEW S, NEW s \in Seq(Seq(S))
  PROVE  FlattenSeq(s) \in Seq(S) /\ FlattenSeq(<<>>) = <<>>
<1>0. FlattenSeq(<<>>) = <<>>
  BY DEF FlattenSeq
<1>1. IsSeq(s) /\ Len(s) \in Nat /\ \A i \in 1 .. Len(s) : s[i] \in Seq(S)
  BY SeqOfSet
<1>2. CASE Len(s) = 0
  BY <1>2 DEF FlattenSeq
<1>3. CASE Len(s) # 0
  <2>1. PICK f : IsFlattening(f, s, Len(s)) /\ FlattenSeq(s) = f[Len(s)]
    BY <1>1, <1>3, FlattenFunction
  <2>2. \A i \in 1 .. Len(s) : f[i] = IF i = 1 THEN s[i] ELSE f[i - 1] \o s[i]
    BY <1>1, <2>1, FlatteningAt
  <2> DEFINE T == {n \in Nat : n + 1 <= Len(s) => f[n + 1] \in Seq(S)}
  <2>3. 0 \in T
    <3>1. 1 \in 1 .. Len(s) /\ 0 + 1 = 1
      BY <1>1, <1>3
    <3> QED
      BY <1>1, <2>2, <3>1
  <2>4. ASSUME NEW n \in Nat, n \in T PROVE n + 1 \in T
    <3> SUFFICES ASSUME n + 1 + 1 <= Len(s) PROVE f[n + 1 + 1] \in Seq(S)
      OBVIOUS
    <3>1. n + 1 + 1 \in 1 .. Len(s) /\ n + 1 + 1 # 1 /\ (n + 1 + 1) - 1 = n + 1
      BY <1>1
    <3>2. f[n + 1 + 1] = f[n + 1] \o s[n + 1 + 1]
      BY <2>2, <3>1
    <3>3. f[n + 1] \in Seq(S) /\ s[n + 1 + 1] \in Seq(S)
      BY <1>1, <2>4, <3>1
    <3> HIDE DEF T
    <3> QED
      BY <3>2, <3>3
  <2> HIDE DEF T
  <2>5. Nat \subseteq T
    BY <2>3, <2>4, AllNaturals
  <2>6. Len(s) - 1 \in T /\ (Len(s) - 1) + 1 = Len(s)
    BY <1>1, <1>3, <2>5
  <2> QED
    BY <1>0, <2>1, <2>6 DEF T
<1> QED
  BY <1>0, <1>2, <1>3
=============================================================================
