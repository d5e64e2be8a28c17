------------------------ MODULE QueryBuilderProofs -------------------------
(***************************************************************************)
(* Theorems about the query object, for any drivers, methods, widths, rows  *)
(* and any bounds: the values a statement is bound to, the conditions it    *)
(* has, and what a write sends of a value.                                  *)
(***************************************************************************)
EXTENDS QueryBuilder, Integers, SequenceTheorems, FiniteSetTheorems,
        FunctionTheorems, WellFoundedInduction, TLAPS

-----------------------------------------------------------------------------
(* Counting up to a number *)

(* A nonempty set of naturals has a least element. *)
LEMMA Least ==
  ASSUME NEW T \in SUBSET Nat, T # {}
  PROVE  \E m \in T : \A n \in T : m <= n
<1> DEFINE R == OpToRel(<, Nat)
<1>1. IsWellFoundedOn(R, Nat)
  BY NatLessThanWellFounded
<1>2. \A m, n \in Nat : <<n, m>> \in R <=> n < m
  BY DEF OpToRel
<1> HIDE DEF R
<1>3. PICK m \in T : \A n \in T : ~(<<n, m>> \in R)
  BY <1>1, WFMin
<1>4. \A n \in T : m \in Nat /\ n \in Nat /\ ~(n < m)
  BY <1>2, <1>3, Zenon
<1> QED BY <1>4

(* What holds of a number and passes on to the next one holds up to k. *)
LEMMA Up ==
  ASSUME NEW a \in Nat, NEW k \in Nat, NEW T, a \in T,
         \A n \in a .. k : n # a /\ n - 1 \in T => n \in T
  PROVE  a .. k \subseteq T
<1> DEFINE B == {n \in a .. k : n \notin T}
<1>1. CASE B # {}
  <2>1. PICK m \in B : \A n \in B : m <= n
    <3>1. B \in SUBSET Nat
      OBVIOUS
    <3> HIDE DEF B
    <3> QED BY <1>1, <3>1, Least
  <2>2. m # a /\ m \in a + 1 .. k
    OBVIOUS
  <2>3. m - 1 \in a .. k /\ m - 1 \notin B
    BY <2>1, <2>2
  <2>4. m - 1 \in T
    BY <2>3
  <2> QED BY <2>2, <2>4
<1> QED BY <1>1

(* A strictly increasing function on 1 .. a does not fall behind. *)
LEMMA NotBehind ==
  ASSUME NEW a \in Nat, NEW b \in Nat, NEW h \in [1 .. a -> 1 .. b],
         \A m, n \in 1 .. a : m < n => h[m] < h[n]
  PROVE  a <= b /\ \A n \in 1 .. a : n <= h[n]
<1> DEFINE T == {n \in 0 .. a : n = 0 \/ n <= h[n]}
<1>1. \A n \in 0 .. a : n # 0 /\ n - 1 \in T => n \in T
  OBVIOUS
<1>2. 0 .. a \subseteq T
  <2> HIDE DEF T
  <2>1. 0 \in T
    BY DEF T
  <2> QED BY <1>1, <2>1, Up
<1> QED BY <1>2

(* A strictly increasing function on 1 .. a to itself is the identity. *)
LEMMA IncreasingIdentity ==
  ASSUME NEW a \in Nat, NEW h \in [1 .. a -> 1 .. a],
         \A m, n \in 1 .. a : m < n => h[m] < h[n]
  PROVE  \A n \in 1 .. a : h[n] = n
<1> DEFINE g == [n \in 1 .. a |-> a + 1 - h[a + 1 - n]]
<1>1. g \in [1 .. a -> 1 .. a]
  <2>1. \A n \in 1 .. a : a + 1 - n \in 1 .. a
    OBVIOUS
  <2>2. \A n \in 1 .. a : h[n] \in 1 .. a /\ a + 1 - h[n] \in 1 .. a
    OBVIOUS
  <2> QED BY <2>1, <2>2
<1>2. \A n \in 1 .. a : g[n] = a + 1 - h[a + 1 - n]
  OBVIOUS
<1> HIDE DEF g
<1>3. \A m, n \in 1 .. a : m < n => g[m] < g[n]
  <2> SUFFICES ASSUME NEW m \in 1 .. a, NEW n \in 1 .. a, m < n
               PROVE  g[m] < g[n]
    OBVIOUS
  <2>1. h[a + 1 - n] < h[a + 1 - m]
    OBVIOUS
  <2>2. h[a + 1 - n] \in 1 .. a /\ h[a + 1 - m] \in 1 .. a
    OBVIOUS
  <2>3. g[m] = a + 1 - h[a + 1 - m] /\ g[n] = a + 1 - h[a + 1 - n]
    BY <1>2
  <2>4. \A x, y \in 1 .. a : x < y => a + 1 - y < a + 1 - x
    OBVIOUS
  <2>5. a + 1 - h[a + 1 - m] < a + 1 - h[a + 1 - n]
    BY <2>1, <2>2, <2>4
  <2> QED BY <2>3, <2>5
<1>4. \A n \in 1 .. a : n <= h[n]
  BY NotBehind
<1>5. \A n \in 1 .. a : n <= g[n]
  BY <1>1, <1>3, NotBehind
<1>6. \A n \in 1 .. a : a + 1 - n \in 1 .. a /\ g[a + 1 - n] = a + 1 - h[n]
  BY <1>2
<1>7. \A n \in 1 .. a : a + 1 - n <= a + 1 - h[n]
  BY <1>5, <1>6
<1>8. \A n \in 1 .. a : h[n] \in 1 .. a
  OBVIOUS
<1> QED BY <1>4, <1>7, <1>8

-----------------------------------------------------------------------------
(* Sequences of sequences put one behind the other *)

(* s \o t under a name the provers take as it is. *)
Joined(s, t) == s \o t

(* Where its elements are. *)
JoinedPlaces(s, t) ==
  /\ Len(s) \in Nat /\ Len(t) \in Nat
  /\ Len(Joined(s, t)) = Len(s) + Len(t)
  /\ \A n \in 1 .. Len(s) : Joined(s, t)[n] = s[n]
  /\ \A n \in 1 .. Len(t) : Joined(s, t)[Len(s) + n] = t[n]

LEMMA JoinedSeq ==
  ASSUME NEW S, NEW s \in Seq(S), NEW t \in Seq(S)
  PROVE  Joined(s, t) \in Seq(S) /\ JoinedPlaces(s, t)
<1>1. Len(s) \in Nat /\ Len(t) \in Nat
  BY LenProperties
<1>2. /\ Joined(s, t) \in Seq(S)
      /\ Len(Joined(s, t)) = Len(s) + Len(t)
      /\ \A i \in 1 .. Len(s) + Len(t) :
           Joined(s, t)[i] = IF i <= Len(s) THEN s[i] ELSE t[i - Len(s)]
  BY ConcatProperties DEF Joined
<1>3. ASSUME NEW n \in 1 .. Len(s) PROVE Joined(s, t)[n] = s[n]
  <2>1. n \in 1 .. Len(s) + Len(t) /\ n <= Len(s)
    BY <1>1
  <2> QED BY <1>2, <2>1
<1>4. ASSUME NEW n \in 1 .. Len(t) PROVE Joined(s, t)[Len(s) + n] = t[n]
  <2>1. PICK m \in 1 .. Len(s) + Len(t) : m = Len(s) + n
    BY <1>1
  <2>2. ~(m <= Len(s)) /\ m - Len(s) = n
    BY <1>1, <2>1
  <2>3. Joined(s, t)[m] = t[m - Len(s)]
    BY <1>2, <2>2
  <2> QED BY <2>1, <2>2, <2>3
<1> QED BY <1>1, <1>2, <1>3, <1>4 DEF JoinedPlaces

(* The function FlattenSeq is defined with ... *)
FlattenFrom(g, s, n) ==
  g = [i \in 1 .. n |-> IF i = 1 THEN s[i] ELSE Joined(g[i - 1], s[i])]

(* ... is there, ... *)
LEMMA FlattenExists ==
  ASSUME NEW S, NEW n \in Nat \ {0}, NEW s, \A i \in 1 .. n : s[i] \in Seq(S)
  PROVE  \E g : FlattenFrom(g, s, n)
<1> DEFINE Rec(g, k) == \A i \in 1 .. k : g[i] = IF i = 1 THEN s[i] ELSE Joined(g[i - 1], s[i])
           T == {k \in 1 .. n : \E g \in [1 .. k -> Seq(S)] : Rec(g, k)}
<1>1. 1 \in T
  <2> DEFINE g == [i \in 1 .. 1 |-> s[1]]
  <2>1. g \in [1 .. 1 -> Seq(S)] /\ Rec(g, 1)
    OBVIOUS
  <2> HIDE DEF g, Rec
  <2> QED BY <2>1
<1>2. ASSUME NEW k \in 1 .. n, k # 1, k - 1 \in T PROVE k \in T
  <2>1. PICK g \in [1 .. k - 1 -> Seq(S)] : Rec(g, k - 1)
    BY <1>2
  <2> DEFINE h == [i \in 1 .. k |-> IF i = k THEN Joined(g[k - 1], s[k]) ELSE g[i]]
  <2>2. Joined(g[k - 1], s[k]) \in Seq(S)
    <3>1. g[k - 1] \in Seq(S) /\ s[k] \in Seq(S)
      BY <1>2
    <3> QED BY <3>1, JoinedSeq
  <2>3. h \in [1 .. k -> Seq(S)]
    BY <2>2
  <2>4. h[k] = Joined(g[k - 1], s[k]) /\ \A i \in 1 .. k - 1 : h[i] = g[i]
    OBVIOUS
  <2> HIDE DEF h
  <2>5. ASSUME NEW i \in 1 .. k
        PROVE  h[i] = IF i = 1 THEN s[i] ELSE Joined(h[i - 1], s[i])
    <3>1. CASE i = k
      BY <1>2, <2>4, <3>1
    <3>2. CASE i \in 1 .. k - 1
      BY <2>1, <2>4, <3>2
    <3> QED BY <3>1, <3>2
  <2>6. Rec(h, k)
    BY <2>5
  <2> HIDE DEF Rec
  <2> QED BY <2>3, <2>6
<1>3. n \in T
  <2> HIDE DEF T
  <2>1. 1 .. n \subseteq T
    BY <1>1, <1>2, Up
  <2> QED BY <2>1
<1>4. PICK g \in [1 .. n -> Seq(S)] : Rec(g, n)
  BY <1>3
<1>5. FlattenFrom(g, s, n)
  BY <1>4 DEF FlattenFrom
<1> QED BY <1>5

(* ... and goes from prefix to prefix of its sequences. *)
JoinsUpTo(f, s, n, S) ==
  /\ f \in [1 .. n -> Seq(S)]
  /\ f[1] = s[1]
  /\ \A i \in 1 .. n : i # 1 => f[i] = Joined(f[i - 1], s[i])

LEMMA FlattenRecursion ==
  ASSUME NEW S, NEW n \in Nat \ {0}, NEW s, \A i \in 1 .. n : s[i] \in Seq(S),
         NEW f, FlattenFrom(f, s, n)
  PROVE  JoinsUpTo(f, s, n, S)
<1> DEFINE U == {i \in 1 .. n : f[i] \in Seq(S)}
<1>1. f[1] = s[1]
  BY DEF FlattenFrom
<1>2. ASSUME NEW i \in 1 .. n, i # 1 PROVE f[i] = Joined(f[i - 1], s[i])
  BY <1>2 DEF FlattenFrom
<1>3. ASSUME NEW i \in 1 .. n, i # 1, i - 1 \in U PROVE i \in U
  <2>1. Joined(f[i - 1], s[i]) \in Seq(S)
    BY <1>3, JoinedSeq
  <2> QED BY <1>2, <1>3, <2>1
<1>4. 1 \in U
  BY <1>1
<1>5. 1 .. n \subseteq U
  <2> HIDE DEF U
  <2> QED BY <1>3, <1>4, Up
<1>6. \A i \in 1 .. n : f[i] \in Seq(S)
  BY <1>5
<1>7. f \in [1 .. n -> Seq(S)]
  BY <1>6 DEF FlattenFrom
<1> QED BY <1>1, <1>2, <1>7 DEF JoinsUpTo

(* FlattenSeq goes from prefix to prefix of its sequence. *)
PrefixOf(f, s, S) ==
  /\ f \in [0 .. Len(s) -> Seq(S)]
  /\ f[0] = <<>> /\ FlattenSeq(s) = f[Len(s)]
  /\ \A j \in 1 .. Len(s) : f[j] = Joined(f[j - 1], s[j])

LEMMA FlattenFunction ==
  ASSUME NEW S, NEW s \in Seq(Seq(S))
  PROVE  \E f : PrefixOf(f, s, S)
<1>1. Len(s) \in Nat /\ \A i \in 1 .. Len(s) : s[i] \in Seq(S)
  BY LenProperties, ElementOfSeq
<1>2. CASE Len(s) = 0
  <2>1. FlattenSeq(s) = s /\ s = <<>>
    BY <1>2, EmptySeq DEF FlattenSeq
  <2> DEFINE f == [j \in 0 .. Len(s) |-> s]
  <2>2. f \in [0 .. Len(s) -> Seq(S)] /\ f[0] = <<>> /\ f[Len(s)] = <<>>
    BY <1>2, <2>1, EmptySeq
  <2>3. 1 .. Len(s) = {}
    BY <1>2
  <2> HIDE DEF f
  <2> QED BY <2>1, <2>2, <2>3 DEF PrefixOf
<1>3. CASE Len(s) # 0
  <2>1. PICK n \in Nat \ {0} : n = Len(s)
    BY <1>1, <1>3
  <2> DEFINE g == CHOOSE g : FlattenFrom(g, s, n)
             f == [j \in 0 .. n |-> IF j = 0 THEN <<>> ELSE g[j]]
  <2>2. FlattenSeq(s) = g[n]
    BY <2>1 DEF FlattenSeq, FlattenFrom, Joined
  <2>3. \A i \in 1 .. n : s[i] \in Seq(S)
    BY <1>1, <2>1
  <2> HIDE DEF g
  <2>4. /\ g \in [1 .. n -> Seq(S)] /\ g[1] = s[1]
        /\ \A i \in 1 .. n : i # 1 => g[i] = Joined(g[i - 1], s[i])
    <3>1. \E h : FlattenFrom(h, s, n)
      BY <2>3, FlattenExists
    <3>2. FlattenFrom(g, s, n)
      BY <3>1 DEF g
    <3>3. JoinsUpTo(g, s, n, S)
      BY <2>3, <3>2, FlattenRecursion
    <3> QED BY <3>3 DEF JoinsUpTo
  <2>5. f \in [0 .. n -> Seq(S)]
    BY <2>4, EmptySeq
  <2>6. f[0] = <<>> /\ \A j \in 1 .. n : f[j] = g[j]
    OBVIOUS
  <2> HIDE DEF f
  <2>7. ASSUME NEW j \in 1 .. n PROVE f[j] = Joined(f[j - 1], s[j])
    <3>1. CASE j = 1
      <4>1. Joined(<<>>, s[1]) = s[1]
        BY <2>3, ConcatEmptySeq DEF Joined
      <4> QED BY <2>4, <2>6, <3>1, <4>1
    <3>2. CASE j # 1
      <4>1. j - 1 \in 1 .. n
        BY <3>2
      <4>2. f[j] = g[j] /\ f[j - 1] = g[j - 1]
        BY <2>6, <4>1
      <4> QED BY <2>4, <3>2, <4>2
    <3> QED BY <3>1, <3>2
  <2>8. f[0] = <<>> /\ FlattenSeq(s) = f[n]
    BY <2>2, <2>6
  <2>9. PrefixOf(f, s, S)
    BY <2>1, <2>5, <2>7, <2>8 DEF PrefixOf
  <2> QED BY <2>9
<1> QED BY <1>2, <1>3

(* u is the first j sequences of s one behind the other: its n-th element is  *)
(* the p[n]-th of the b[n]-th sequence, in the order of the sequences and of  *)
(* the places in them, and none is left out.                                 *)
Placed(u, s, j, b, p) ==
  /\ \A n \in 1 .. Len(u) : /\ b[n] \in 1 .. j /\ p[n] \in 1 .. Len(s[b[n]])
                            /\ u[n] = s[b[n]][p[n]]
  /\ \A m, n \in 1 .. Len(u) : m < n => b[m] < b[n] \/ (b[m] = b[n] /\ p[m] < p[n])
  /\ \A i \in 1 .. j : \A k \in 1 .. Len(s[i]) :
       \E n \in 1 .. Len(u) : b[n] = i /\ p[n] = k

(* b and p continued by the places of a j-th sequence of length l. *)
NextBlock(b, a, l, j)  == [n \in 1 .. a + l |-> IF n <= a THEN b[n] ELSE j]
NextPlaces(p, a, l) == [n \in 1 .. a + l |-> IF n <= a THEN p[n] ELSE n - a]

LEMMA PlacedNext ==
  ASSUME NEW S, NEW s, NEW j \in Nat \ {0}, NEW u \in Seq(S), NEW v \in Seq(S), v = s[j],
         NEW b, NEW p, Placed(u, s, j - 1, b, p)
  PROVE  Placed(Joined(u, v), s, j, NextBlock(b, Len(u), Len(v), j),
                NextPlaces(p, Len(u), Len(v)))
<1>0. JoinedPlaces(u, v)
  BY JoinedSeq
<1>1. PICK a \in Nat, l \in Nat : a = Len(u) /\ l = Len(v)
  BY <1>0 DEF JoinedPlaces
<1> DEFINE c == NextBlock(b, a, l, j)
           q == NextPlaces(p, a, l)
           w == Joined(u, v)
<1>2. /\ Len(w) = a + l
      /\ \A n \in 1 .. a : w[n] = u[n]
      /\ \A n \in 1 .. l : w[a + n] = v[n]
  BY <1>0, <1>1 DEF JoinedPlaces
<1>3. \A n \in 1 .. a : c[n] = b[n] /\ q[n] = p[n]
  BY DEF NextBlock, NextPlaces
<1>4. \A n \in a + 1 .. a + l : c[n] = j /\ q[n] = n - a
  BY DEF NextBlock, NextPlaces
<1>5. \A n \in a + 1 .. a + l : n - a \in 1 .. l /\ w[n] = v[n - a]
  <2>1. ASSUME NEW n \in a + 1 .. a + l PROVE n - a \in 1 .. l /\ w[n] = v[n - a]
    <3>1. PICK m \in 1 .. l : m = n - a
      OBVIOUS
    <3>2. a + m = n
      BY <3>1
    <3> QED BY <1>2, <3>1, <3>2
  <2> QED BY <2>1
<1> HIDE DEF c, q, w
<1>6. /\ \A n \in 1 .. a : /\ b[n] \in 1 .. j - 1 /\ p[n] \in 1 .. Len(s[b[n]])
                           /\ u[n] = s[b[n]][p[n]]
      /\ \A m, n \in 1 .. a : m < n => b[m] < b[n] \/ (b[m] = b[n] /\ p[m] < p[n])
      /\ \A i \in 1 .. j - 1 : \A k \in 1 .. Len(s[i]) :
           \E n \in 1 .. a : b[n] = i /\ p[n] = k
  BY <1>1 DEF Placed
<1>7. ASSUME NEW n \in 1 .. Len(w)
      PROVE  /\ c[n] \in 1 .. j /\ q[n] \in 1 .. Len(s[c[n]])
             /\ w[n] = s[c[n]][q[n]]
  <2>1. CASE n \in 1 .. a
    <3>1. c[n] = b[n] /\ q[n] = p[n] /\ w[n] = u[n]
      BY <1>2, <1>3, <2>1
    <3>2. b[n] \in 1 .. j - 1 /\ p[n] \in 1 .. Len(s[b[n]]) /\ u[n] = s[b[n]][p[n]]
      BY <1>6, <2>1
    <3> QED BY <3>1, <3>2
  <2>2. CASE n \in a + 1 .. a + l
    <3>1. c[n] = j /\ q[n] = n - a /\ n - a \in 1 .. l /\ w[n] = v[n - a]
      BY <1>4, <1>5, <2>2
    <3> QED BY <1>1, <3>1
  <2> QED BY <1>2, <2>1, <2>2
<1>8. ASSUME NEW m \in 1 .. Len(w), NEW n \in 1 .. Len(w), m < n
      PROVE  c[m] < c[n] \/ (c[m] = c[n] /\ q[m] < q[n])
  <2>1. CASE n \in 1 .. a
    <3>1. m \in 1 .. a
      BY <1>2, <1>8, <2>1
    <3>2. b[m] < b[n] \/ (b[m] = b[n] /\ p[m] < p[n])
      BY <1>6, <1>8, <2>1, <3>1
    <3> QED BY <1>3, <2>1, <3>1, <3>2
  <2>2. CASE m \in 1 .. a /\ n \in a + 1 .. a + l
    <3>1. c[m] = b[m] /\ b[m] \in 1 .. j - 1 /\ c[n] = j
      BY <1>3, <1>4, <1>6, <2>2
    <3> QED BY <3>1
  <2>3. CASE m \in a + 1 .. a + l /\ n \in a + 1 .. a + l
    <3>1. c[m] = j /\ c[n] = j /\ q[m] = m - a /\ q[n] = n - a
      BY <1>4, <2>3
    <3> QED BY <1>8, <2>3, <3>1
  <2> QED BY <1>2, <1>8, <2>1, <2>2, <2>3
<1>9. ASSUME NEW i \in 1 .. j, NEW k \in 1 .. Len(s[i])
      PROVE  \E n \in 1 .. Len(w) : c[n] = i /\ q[n] = k
  <2>1. CASE i \in 1 .. j - 1
    <3>1. PICK n \in 1 .. a : b[n] = i /\ p[n] = k
      BY <1>6, <2>1
    <3>2. n \in 1 .. Len(w)
      BY <1>2
    <3> QED BY <1>3, <3>1, <3>2
  <2>2. CASE i = j
    <3>1. PICK n \in a + 1 .. a + l : n = a + k
      BY <1>1, <2>2
    <3>2. n \in 1 .. Len(w) /\ n - a = k
      BY <1>1, <1>2, <2>2, <3>1
    <3> QED BY <1>4, <2>2, <3>2
  <2> QED BY <2>1, <2>2
<1>10. Placed(w, s, j, c, q)
  BY <1>7, <1>8, <1>9 DEF Placed
<1> QED BY <1>1, <1>10 DEF c, q, w

(* Two sequences of sequences of the same shape. *)
SameShape(s, t) == Len(s) = Len(t) /\ \A i \in 1 .. Len(s) : Len(s[i]) = Len(t[i])

(* Their elements stand at the same places when they are flattened. *)
SamePlaces(s, t) ==
  /\ Len(FlattenSeq(s)) = Len(FlattenSeq(t))
  /\ \E b, p : /\ Placed(FlattenSeq(s), s, Len(s), b, p)
               /\ Placed(FlattenSeq(t), t, Len(t), b, p)

LEMMA FlattenPlaces ==
  ASSUME NEW S, NEW s \in Seq(Seq(S)), NEW t \in Seq(Seq(S)), SameShape(s, t)
  PROVE  SamePlaces(s, t)
<1>1. PICK f : PrefixOf(f, s, S)
  BY FlattenFunction
<1>2. PICK g : PrefixOf(g, t, S)
  BY FlattenFunction
<1>3. PICK k \in Nat : k = Len(s) /\ k = Len(t)
  BY LenProperties DEF SameShape
<1>4. \A j \in 1 .. k : s[j] \in Seq(S) /\ t[j] \in Seq(S) /\ Len(s[j]) = Len(t[j])
  BY <1>3, ElementOfSeq DEF SameShape
<1>5. /\ f \in [0 .. k -> Seq(S)] /\ g \in [0 .. k -> Seq(S)]
      /\ f[0] = <<>> /\ g[0] = <<>>
      /\ \A j \in 1 .. k : f[j] = Joined(f[j - 1], s[j]) /\ g[j] = Joined(g[j - 1], t[j])
  BY <1>1, <1>2, <1>3 DEF PrefixOf
<1> DEFINE T == {j \in 0 .. k : /\ Len(f[j]) = Len(g[j])
                                /\ \E b, p : Placed(f[j], s, j, b, p) /\ Placed(g[j], t, j, b, p)}
<1>6. 0 \in T
  <2>1. Len(f[0]) = 0 /\ Len(g[0]) = 0
    BY <1>5, EmptySeq
  <2>2. Placed(f[0], s, 0, <<>>, <<>>) /\ Placed(g[0], t, 0, <<>>, <<>>)
    BY <2>1 DEF Placed
  <2> QED BY <1>3, <2>1, <2>2
<1>7. ASSUME NEW j \in 0 .. k, j # 0, j - 1 \in T PROVE j \in T
  <2>1. PICK b, p : Placed(f[j - 1], s, j - 1, b, p) /\ Placed(g[j - 1], t, j - 1, b, p)
    BY <1>7
  <2>2. PICK a : a = Len(f[j - 1]) /\ a = Len(g[j - 1])
    BY <1>7
  <2>3. j \in 1 .. k /\ j - 1 \in 0 .. k /\ j \in Nat \ {0}
    BY <1>3, <1>7
  <2>4. s[j] \in Seq(S) /\ t[j] \in Seq(S) /\ Len(s[j]) = Len(t[j])
    BY <1>4, <2>3
  <2>5. f[j - 1] \in Seq(S) /\ g[j - 1] \in Seq(S)
    BY <1>5, <2>3
  <2>6. PICK u \in Seq(S), v \in Seq(S), x \in Seq(S), y \in Seq(S) :
          u = f[j - 1] /\ v = s[j] /\ x = g[j - 1] /\ y = t[j]
    BY <2>4, <2>5, Zenon
  <2>7. PICK l : l = Len(v) /\ l = Len(y)
    BY <2>4, <2>6
  <2>8. Placed(Joined(u, v), s, j, NextBlock(b, Len(u), Len(v), j), NextPlaces(p, Len(u), Len(v)))
    BY <2>1, <2>3, <2>6, PlacedNext
  <2>9. Placed(Joined(x, y), t, j, NextBlock(b, Len(x), Len(y), j), NextPlaces(p, Len(x), Len(y)))
    BY <2>1, <2>3, <2>6, PlacedNext
  <2>10. f[j] = Joined(u, v) /\ g[j] = Joined(x, y)
    <3>1. f[j] = Joined(f[j - 1], s[j]) /\ g[j] = Joined(g[j - 1], t[j])
      BY <1>5, <2>3
    <3> QED BY <2>6, <3>1
  <2>11. /\ Placed(f[j], s, j, NextBlock(b, a, l, j), NextPlaces(p, a, l))
         /\ Placed(g[j], t, j, NextBlock(b, a, l, j), NextPlaces(p, a, l))
    BY <2>2, <2>6, <2>7, <2>8, <2>9, <2>10
  <2>12. Len(f[j]) = Len(g[j])
    <3>1. JoinedPlaces(u, v) /\ JoinedPlaces(x, y)
      BY JoinedSeq
    <3>2. Len(Joined(u, v)) = a + l /\ Len(Joined(x, y)) = a + l
      BY <2>2, <2>6, <2>7, <3>1 DEF JoinedPlaces
    <3> QED BY <2>10, <3>2
  <2> QED BY <2>11, <2>12
<1>8. k \in T
  <2> HIDE DEF T
  <2>1. 0 .. k \subseteq T
    BY <1>6, <1>7, Up
  <2> QED BY <2>1
<1>9. FlattenSeq(s) = f[k] /\ FlattenSeq(t) = g[k]
  BY <1>1, <1>2, <1>3 DEF PrefixOf
<1> QED BY <1>3, <1>8, <1>9 DEF SamePlaces

LEMMA FlattenType ==
  ASSUME NEW S, NEW s \in Seq(Seq(S))
  PROVE  FlattenSeq(s) \in Seq(S)
<1>1. PICK f : PrefixOf(f, s, S)
  BY FlattenFunction
<1>2. Len(s) \in Nat
  BY LenProperties
<1> QED BY <1>1, <1>2 DEF PrefixOf

(* A function on 1 .. n is a sequence. *)
LEMMA FunctionSeq ==
  ASSUME NEW S, NEW n \in Nat, NEW f \in [1 .. n -> S]
  PROVE  f \in Seq(S) /\ Len(f) = n
<1>1. f \in Seq(S)
  BY SeqDef
<1>2. DOMAIN f = 1 .. n /\ DOMAIN f = 1 .. Len(f) /\ Len(f) \in Nat
  BY <1>1, LenProperties
<1> QED BY <1>1, <1>2

(* Nothing but empty sequences. *)
LEMMA FlattenNothing ==
  ASSUME NEW S, NEW s \in Seq(Seq(S)), \A i \in 1 .. Len(s) : s[i] = <<>>
  PROVE  FlattenSeq(s) = <<>>
<1>1. SamePlaces(s, s)
  BY FlattenPlaces DEF SameShape
<1>2. PICK b, p : Placed(FlattenSeq(s), s, Len(s), b, p)
  BY <1>1 DEF SamePlaces
<1>3. FlattenSeq(s) \in Seq(S) /\ Len(FlattenSeq(s)) \in Nat
  BY FlattenType, LenProperties
<1>4. \A n \in 1 .. Len(FlattenSeq(s)) : b[n] \in 1 .. Len(s) /\ p[n] \in 1 .. Len(s[b[n]])
  BY <1>2 DEF Placed
<1>5. Len(<<>>) = 0
  BY EmptySeq
<1>6. ASSUME NEW n \in 1 .. Len(FlattenSeq(s)) PROVE FALSE
  <2>1. PICK i \in 1 .. Len(s) : i = b[n] /\ p[n] \in 1 .. Len(s[i])
    BY <1>4
  <2>2. Len(s[i]) = 0
    BY <1>5
  <2> QED BY <2>1, <2>2
<1>7. Len(FlattenSeq(s)) = 0
  <2>1. \A k \in Nat : k # 0 => 1 \in 1 .. k
    OBVIOUS
  <2> QED BY <1>3, <1>6, <2>1
<1> QED BY <1>3, <1>7, EmptySeq

-----------------------------------------------------------------------------
(* Types *)

LEMMA CallType ==
  ASSUME NEW c \in Calls
  PROVE  c.method \in Clauses /\ c.width \in Nat \ {0} /\ c.key \in {Id, Qualified}
<1>1. c.method \in Methods /\ c.width \in {1} \cup InWidths /\ c.key \in {Id, Qualified}
  BY DEF Calls
<1>2. c.method \in Clauses
  BY <1>1, QueryBuilderAssumption, Zenon
<1>3. c.width \in Nat \ {0}
  <2>1. InWidths \subseteq Nat \ {0}
    BY QueryBuilderAssumption, Zenon
  <2>2. \A w \in {1} \cup InWidths : w \in Nat \ {0}
    BY <2>1
  <2> QED BY <1>1, <2>2
<1> QED BY <1>1, <1>2, <1>3

(* A call has naturally many values and holes, and its values get a hole each; *)
(* more holes than values only where PostgreSQL writes one for a nil.         *)
LEMMA Counts ==
  ASSUME NEW c \in Calls
  PROVE  /\ ValueCount(c) \in Nat /\ HoleCount(c) \in Nat
         /\ c.method \notin {"orWhereNil", "havingNil"} => HoleCount(c) = ValueCount(c)
         /\ dialect = "postgres" /\ c.method \notin Nils => ValueCount(c) > 0
         /\ dialect = "sqlite" => HoleCount(c) = ValueCount(c)
         /\ dialect = "sqlite" /\ c.method \in Ins => HoleCount(c) = 0
<1>1. c.method \in Clauses /\ c.width \in Nat \ {0}
  BY CallType
<1>2. /\ c.method \in Nils \/ Inlines(c.method) => ValueCount(c) = 0
      /\ c.method \in Betweens /\ ~Inlines(c.method) => ValueCount(c) = 2
      /\ c.method \in Ins /\ ~Inlines(c.method) => ValueCount(c) = c.width
      /\ ~(c.method \in Nils \cup Betweens \cup Ins) => ValueCount(c) = 1
  BY DEF ValueCount, Nils, Inlines, Betweens, Ins
<1>3. ValueCount(c) \in Nat
  BY <1>1, <1>2
<1>4. dialect = "postgres" => ~Inlines(c.method)
  BY DEF Inlines
<1>5. HoleCount(c) = ValueCount(c) \/ HoleCount(c) = 1
  BY DEF HoleCount
<1>6. dialect = "sqlite" => HoleCount(c) = ValueCount(c)
  BY DEF HoleCount
<1>7. dialect = "sqlite" /\ c.method \in Ins => ValueCount(c) = 0
  BY <1>2 DEF Inlines
<1>8. c.method \notin {"orWhereNil", "havingNil"} => HoleCount(c) = ValueCount(c)
  BY DEF HoleCount
<1>9. dialect = "postgres" /\ c.method \notin Nils => ValueCount(c) > 0
  BY <1>1, <1>2, <1>4
<1> QED BY <1>3, <1>5, <1>6, <1>7, <1>8, <1>9

(* The chain. *)
LEMMA ChainType ==
  ASSUME TypeOK
  PROVE  /\ Len(calls) \in 0 .. MaxSteps
         /\ Len(done) \in 0 .. MaxSteps
         /\ \A i \in 1 .. Len(calls) : calls[i] \in Calls
         /\ Len(placeHolder) \in Nat
<1>1. Len(calls) \in Nat /\ Len(done) \in Nat /\ Len(placeHolder) \in Nat
  BY LenProperties DEF TypeOK
<1>2. Len(calls) + Len(done) <= MaxSteps /\ MaxSteps \in Nat
  BY QueryBuilderAssumption DEF TypeOK
<1>3. \A i \in 1 .. Len(calls) : calls[i] \in Calls
  BY ElementOfSeq DEF TypeOK
<1> QED BY <1>1, <1>2, <1>3

LEMMA SlotType ==
  ASSUME NEW who \in {"nobody", "call", "op"}, NEW n \in 0 .. MaxSteps, NEW r \in Nat,
         NEW k \in Nat, NEW column \in Old \cup {NewCol, Qualified}
  PROVE  Slot(who, n, r, k, column) \in Slots
BY DEF Slot, Slots

LEMMA OwnHolesType ==
  ASSUME TypeOK, NEW i \in 1 .. Len(calls)
  PROVE  OwnHoles(i) \in Seq(Slots) /\ Len(OwnHoles(i)) = HoleCount(calls[i])
<1>1. PICK h \in Nat : h = HoleCount(calls[i])
  BY ChainType, Counts
<1>2. i \in 0 .. MaxSteps
  BY ChainType, QueryBuilderAssumption
<1>3. calls[i].key \in Old \cup {NewCol, Qualified}
  BY ChainType, CallType DEF Old
<1>5. ASSUME NEW k \in 1 .. h PROVE Slot("call", i, 0, k, calls[i].key) \in Slots
  BY <1>2, <1>3, SlotType
<1>4. OwnHoles(i) \in [1 .. h -> Slots]
  BY <1>1, <1>5 DEF OwnHoles
<1> QED BY <1>1, <1>4, FunctionSeq

(* What earlier lists leave in front of a list. *)
Leftover(i) == [j \in 1 .. i - 1 |-> IF j \in EarlierLists(i) THEN OwnHoles(j) ELSE <<>>]

LEMMA HolesOfType ==
  ASSUME TypeOK, NEW i \in 1 .. Len(calls)
  PROVE  /\ Leftover(i) \in Seq(Seq(Slots)) /\ Len(Leftover(i)) = i - 1
         /\ HolesOf(i) \in Seq(Slots)
<1>1. Len(calls) \in Nat
  BY ChainType
<1>2. i - 1 \in Nat /\ \A j \in 1 .. i - 1 : j \in 1 .. Len(calls)
  BY <1>1
<1>3. \A j \in 1 .. i - 1 : OwnHoles(j) \in Seq(Slots)
  BY <1>2, OwnHolesType
<1>4. <<>> \in Seq(Slots)
  BY EmptySeq
<1>5. Leftover(i) \in [1 .. i - 1 -> Seq(Slots)]
  BY <1>3, <1>4 DEF Leftover
<1>6. Leftover(i) \in Seq(Seq(Slots)) /\ Len(Leftover(i)) = i - 1
  BY <1>2, <1>5, FunctionSeq
<1>7. FlattenSeq(Leftover(i)) \in Seq(Slots)
  BY <1>6, FlattenType
<1>8. OwnHoles(i) \in Seq(Slots)
  BY OwnHolesType
<1>9. HolesOf(i) = Joined(FlattenSeq(Leftover(i)), OwnHoles(i))
  BY DEF HolesOf, Leftover, Joined
<1> QED BY <1>6, <1>7, <1>8, <1>9, JoinedSeq

(* The rows of one key, and the sections of a statement. *)
RowsOf(key) == [i \in 1 .. Len(calls) |-> IF KeyOf(i) = key THEN HolesOf(i) ELSE <<>>]
SectionsOf(op) == [n \in 1 .. Len(Sections(op)) |-> SectionHoles(Sections(op)[n])]

LEMMA SectionType ==
  ASSUME TypeOK, NEW key
  PROVE  /\ RowsOf(key) \in Seq(Seq(Slots)) /\ Len(RowsOf(key)) = Len(calls)
         /\ SectionHoles(key) \in Seq(Slots)
<1>1. Len(calls) \in Nat
  BY ChainType
<1>2. \A i \in 1 .. Len(calls) : HolesOf(i) \in Seq(Slots)
  BY HolesOfType
<1>3. <<>> \in Seq(Slots)
  BY EmptySeq
<1>4. RowsOf(key) \in [1 .. Len(calls) -> Seq(Slots)]
  BY <1>2, <1>3 DEF RowsOf
<1>5. RowsOf(key) \in Seq(Seq(Slots)) /\ Len(RowsOf(key)) = Len(calls)
  BY <1>1, <1>4, FunctionSeq
<1>6. SectionHoles(key) = FlattenSeq(RowsOf(key))
  BY DEF SectionHoles, RowsOf
<1> QED BY <1>5, <1>6, FlattenType

(* The keys in the order of AllSections. *)
LEMMA SectionsType ==
  ASSUME NEW op
  PROVE  /\ Len(Sections(op)) \in Nat
         /\ \A n \in 1 .. Len(Sections(op)) : \E m \in 1 .. 10 : Sections(op)[n] = AllSections[m]
<1>1. Len(AllSections) = 10
  BY DEF AllSections
<1> QED BY <1>1 DEF Sections, AllSections

LEMMA ClauseHolesType ==
  ASSUME TypeOK, NEW op
  PROVE  /\ SectionsOf(op) \in Seq(Seq(Slots))
         /\ Len(SectionsOf(op)) = Len(Sections(op))
         /\ ClauseHoles(op) = FlattenSeq(SectionsOf(op))
         /\ ClauseHoles(op) \in Seq(Slots)
<1>1. Len(Sections(op)) \in Nat
  BY SectionsType
<1>2. SectionsOf(op) \in [1 .. Len(Sections(op)) -> Seq(Slots)]
  BY SectionType DEF SectionsOf
<1>3. SectionsOf(op) \in Seq(Seq(Slots)) /\ Len(SectionsOf(op)) = Len(Sections(op))
  BY <1>1, <1>2, FunctionSeq
<1>4. ClauseHoles(op) = FlattenSeq(SectionsOf(op))
  BY DEF ClauseHoles, SectionsOf
<1> QED BY <1>3, <1>4, FlattenType

(* The values a call, an update and an insert bring. *)
LEMMA ValuesOfType ==
  ASSUME NEW c \in Calls, NEW i \in 0 .. MaxSteps
  PROVE  /\ ValuesOf(i, c) \in Seq(Slots)
         /\ Len(ValuesOf(i, c)) = ValueCount(c)
         /\ \A k \in 1 .. ValueCount(c) : ValuesOf(i, c)[k] = Slot("call", i, 0, k, c.key)
<1>1. PICK v \in Nat : v = ValueCount(c)
  BY Counts
<1>2. ASSUME NEW k \in 1 .. v PROVE Slot("call", i, 0, k, c.key) \in Slots
  BY SlotType, CallType DEF Old
<1>3. ValuesOf(i, c) \in [1 .. v -> Slots]
  BY <1>1, <1>2 DEF ValuesOf
<1>4. \A k \in 1 .. v : ValuesOf(i, c)[k] = Slot("call", i, 0, k, c.key)
  BY <1>1 DEF ValuesOf
<1> QED BY <1>1, <1>3, <1>4, FunctionSeq

LEMMA AssignmentsType ==
  ASSUME TypeOK, Usable, NEW set \in SetLists
  PROVE  Assignments(set) \in Seq(Slots)
<1>1. set \in Seq(Old \cup {NewCol})
  BY QueryBuilderAssumption, Zenon
<1>2. PICK l \in Nat : l = Len(set) /\ \A j \in 1 .. l : set[j] \in Old \cup {NewCol}
  BY <1>1, LenProperties, ElementOfSeq
<1>3. Len(done) + 1 \in 0 .. MaxSteps
  BY ChainType, QueryBuilderAssumption DEF Usable
<1>4. ASSUME NEW j \in 1 .. l PROVE Slot("op", Len(done) + 1, 0, j, set[j]) \in Slots
  BY <1>2, <1>3, SlotType
<1>5. Assignments(set) \in [1 .. l -> Slots]
  BY <1>2, <1>4 DEF Assignments
<1> QED BY <1>5, FunctionSeq

(* The rows of an insert: values and holes of each one. *)
ValueRows(rows) ==
  [r \in 1 .. Len(rows) |->
    [j \in 1 .. Len(rows[r]) |-> Slot("op", Len(done) + 1, r, j, rows[r][j])]]
HoleRows(rows) ==
  [r \in 1 .. Len(rows) |->
    [j \in 1 .. Len(rows[r]) |-> Slot("op", Len(done) + 1, r, j,
       IF j <= Len(rows[1]) THEN rows[1][j] ELSE Id)]]

LEMMA RowsType ==
  ASSUME TypeOK, Usable, NEW rows \in RowLists
  PROVE  /\ ValueRows(rows) \in Seq(Seq(Slots)) /\ HoleRows(rows) \in Seq(Seq(Slots))
         /\ SameShape(ValueRows(rows), HoleRows(rows))
         /\ \A r \in 1 .. Len(ValueRows(rows)) : \A j \in 1 .. Len(ValueRows(rows)[r]) :
              \E x, y \in Old \cup {NewCol} :
                /\ ValueRows(rows)[r][j] = Slot("op", Len(done) + 1, r, j, x)
                /\ HoleRows(rows)[r][j] = Slot("op", Len(done) + 1, r, j, y)
<1> DEFINE Columns == Old \cup {NewCol}
<1>1. rows \in Seq(Seq(Columns)) /\ rows # <<>>
  BY QueryBuilderAssumption, Zenon
<1>2. PICK n \in Nat \ {0} : n = Len(rows)
  BY <1>1, EmptySeq
<1>3. \A r \in 1 .. n : rows[r] \in Seq(Columns)
  BY <1>1, <1>2, ElementOfSeq
<1>4. Len(done) + 1 \in 0 .. MaxSteps
  BY ChainType, QueryBuilderAssumption DEF Usable
<1> HIDE DEF Columns
<1>5. Id \in Columns
  BY DEF Columns, Old
<1>6. ASSUME NEW r \in 1 .. n
      PROVE  /\ ValueRows(rows)[r] \in Seq(Slots) /\ HoleRows(rows)[r] \in Seq(Slots)
             /\ Len(ValueRows(rows)[r]) = Len(HoleRows(rows)[r])
             /\ \A j \in 1 .. Len(ValueRows(rows)[r]) : \E x, y \in Columns :
                  /\ ValueRows(rows)[r][j] = Slot("op", Len(done) + 1, r, j, x)
                  /\ HoleRows(rows)[r][j] = Slot("op", Len(done) + 1, r, j, y)
  <2>1. PICK l \in Nat : l = Len(rows[r]) /\ \A j \in 1 .. l : rows[r][j] \in Columns
    BY <1>3, LenProperties, ElementOfSeq
  <2>2. PICK f \in Nat : f = Len(rows[1]) /\ \A j \in 1 .. f : rows[1][j] \in Columns
    <3>1. rows[1] \in Seq(Columns)
      BY <1>3
    <3> QED BY <3>1, LenProperties, ElementOfSeq
  <2> DEFINE v == [j \in 1 .. l |-> Slot("op", Len(done) + 1, r, j, rows[r][j])]
             h == [j \in 1 .. l |-> Slot("op", Len(done) + 1, r, j,
                                        IF j <= f THEN rows[1][j] ELSE Id)]
  <2>3. ValueRows(rows)[r] = v /\ HoleRows(rows)[r] = h
    BY <1>2, <2>1, <2>2 DEF ValueRows, HoleRows
  <2>4. ASSUME NEW j \in 1 .. l
        PROVE  \E x, y \in Columns : /\ v[j] = Slot("op", Len(done) + 1, r, j, x)
                                     /\ h[j] = Slot("op", Len(done) + 1, r, j, y)
    <3>1. rows[r][j] \in Columns
      BY <2>1
    <3>2. (IF j <= f THEN rows[1][j] ELSE Id) \in Columns
      BY <1>5, <2>2
    <3>3. v[j] = Slot("op", Len(done) + 1, r, j, rows[r][j])
      OBVIOUS
    <3>4. h[j] = Slot("op", Len(done) + 1, r, j, IF j <= f THEN rows[1][j] ELSE Id)
      OBVIOUS
    <3> HIDE DEF v, h
    <3> QED BY <3>1, <3>2, <3>3, <3>4, Zenon
  <2>5. DOMAIN v = 1 .. l /\ DOMAIN h = 1 .. l
    OBVIOUS
  <2>6. ASSUME NEW j \in 1 .. l PROVE v[j] \in Slots /\ h[j] \in Slots
    BY <1>4, <2>4, SlotType DEF Columns
  <2>7. v \in [1 .. l -> Slots] /\ h \in [1 .. l -> Slots]
    BY <2>6
  <2> HIDE DEF v, h
  <2>8. v \in Seq(Slots) /\ h \in Seq(Slots) /\ Len(v) = l /\ Len(h) = l
    BY <2>7, FunctionSeq
  <2> QED BY <2>3, <2>4, <2>8
<1>7. ValueRows(rows) \in [1 .. n -> Seq(Slots)] /\ HoleRows(rows) \in [1 .. n -> Seq(Slots)]
  BY <1>2, <1>6 DEF ValueRows, HoleRows
<1>8. /\ ValueRows(rows) \in Seq(Seq(Slots)) /\ HoleRows(rows) \in Seq(Seq(Slots))
      /\ Len(ValueRows(rows)) = n /\ Len(HoleRows(rows)) = n
  BY <1>7, FunctionSeq
<1> QED BY <1>6, <1>8 DEF SameShape, Columns

LEMMA InsertType ==
  ASSUME TypeOK, Usable, NEW rows \in RowLists
  PROVE  /\ RowValues(rows) \in Seq(Slots) /\ RowHoles(rows) \in Seq(Slots)
         /\ SamePlaces(ValueRows(rows), HoleRows(rows))
         /\ RowValues(rows) = FlattenSeq(ValueRows(rows))
         /\ RowHoles(rows) = FlattenSeq(HoleRows(rows))
<1>1. /\ RowValues(rows) = FlattenSeq(ValueRows(rows))
      /\ RowHoles(rows) = FlattenSeq(HoleRows(rows))
  BY DEF RowValues, RowHoles, ValueRows, HoleRows
<1>2. /\ ValueRows(rows) \in Seq(Seq(Slots)) /\ HoleRows(rows) \in Seq(Seq(Slots))
      /\ SameShape(ValueRows(rows), HoleRows(rows))
  BY RowsType
<1> QED BY <1>1, <1>2, FlattenType, FlattenPlaces

-----------------------------------------------------------------------------
(* Type correctness *)

Reads  == {"get", "find", "aggregate"}
Writes == Ops \ Reads

LEMMA SendType ==
  ASSUME NEW op, NEW values \in Seq(Slots), NEW types
  PROVE  /\ Send(op, values, types) \in Seq(Slots)
         /\ Len(Send(op, values, types)) = Len(values)
         /\ \A n \in 1 .. Len(values) : values[n].column \in types =>
              Send(op, values, types)[n] = values[n]
<1>1. PICK l \in Nat : l = Len(values) /\ \A n \in 1 .. l : values[n] \in Slots
  BY LenProperties, ElementOfSeq
<1>2. Blank \in Slots
  BY SlotType, QueryBuilderAssumption DEF Blank, Old, Id
<1>3. Send(op, values, types) \in [1 .. l -> Slots]
  BY <1>1, <1>2 DEF Send
<1>4. \A n \in 1 .. Len(values) : values[n].column \in types =>
        Send(op, values, types)[n] = values[n]
  BY DEF Send
<1> QED BY <1>1, <1>3, <1>4, FunctionSeq

LEMMA CachedType ==
  ASSUME TypeOK, NEW values
  PROVE  CachedTypes(values) \in {Old, Old \cup {NewCol}}
BY DEF TypeOK, CachedTypes

LEMMA ExecuteTypeOK ==
  ASSUME TypeOK, Usable, NEW op \in Ops, NEW holes \in Seq(Slots), NEW values \in Seq(Slots),
         NEW ok \in BOOLEAN, Execute(op, holes, values, ok), placeHolder' \in Seq(Slots)
  PROVE  TypeOK'
<1>1. UNCHANGED <<dialect, calls, columns>> /\ done' = Append(done, op)
  BY DEF Execute
<1>2. done' \in Seq(Ops) /\ Len(done') = Len(done) + 1
  BY <1>1, AppendProperties DEF TypeOK
<1>3. Len(calls') + Len(done') <= MaxSteps
  BY <1>1, <1>2, ChainType, QueryBuilderAssumption DEF Usable
<1>4. typeCache' \in {NoTypes, Old, Old \cup {NewCol}}
  BY CachedType DEF Execute, TypeOK
<1>5. /\ statement'.op = op /\ statement'.clauses = Exact(op)
      /\ statement'.holes = holes /\ statement'.values = values
      /\ statement'.sent = Send(op, values, typeCache')
      /\ statement'.accepted = (ok /\ Accepts(op, holes, values))
  BY DEF Execute
<1>6. statement'.clauses \subseteq 1 .. Len(calls')
  BY <1>1, <1>5 DEF Exact, Written
<1>7. statement'.sent \in Seq(Slots)
  BY <1>5, SendType
<1>8. statement'.accepted \in BOOLEAN
  BY <1>5, Zenon
<1>9. dialect' \in Dialects /\ calls' \in Seq(Calls) /\ Len(calls') <= MaxCalls
  BY <1>1 DEF TypeOK
<1>10. columns' \in {Old, Old \cup {NewCol}}
  BY <1>1 DEF TypeOK
<1> QED BY <1>2, <1>3, <1>4, <1>5, <1>6, <1>7, <1>8, <1>9, <1>10 DEF TypeOK

LEMMA InitTypeOK == Init => TypeOK
<1> SUFFICES ASSUME Init PROVE TypeOK
  OBVIOUS
<1>1. calls \in Seq(Calls) /\ Len(calls) = 0 /\ done \in Seq(Ops) /\ Len(done) = 0
  BY EmptySeq DEF Init
<1>2. placeHolder \in Seq(Slots)
  BY EmptySeq DEF Init
<1>3. /\ statement.op = "none" /\ statement.clauses = {} /\ statement.accepted = FALSE
      /\ statement.holes = <<>> /\ statement.values = <<>> /\ statement.sent = <<>>
  BY DEF Init, NoStatement
<1>4. <<>> \in Seq(Slots)
  BY EmptySeq
<1>5. Len(calls) <= MaxCalls /\ Len(calls) + Len(done) <= MaxSteps
  <2>1. MaxCalls \in Nat /\ MaxSteps \in Nat
    BY QueryBuilderAssumption, Zenon
  <2> QED BY <1>1, <2>1
<1>6. /\ dialect \in Dialects /\ columns \in {Old, Old \cup {NewCol}}
      /\ typeCache \in {NoTypes, Old, Old \cup {NewCol}}
  BY DEF Init
<1> QED BY <1>1, <1>2, <1>3, <1>4, <1>5, <1>6 DEF TypeOK

LEMMA NextTypeOK == TypeOK /\ [Next]_vars => TypeOK'
<1> SUFFICES ASSUME TypeOK, [Next]_vars PROVE TypeOK'
  OBVIOUS
<1>1. CASE \E c \in Calls : AddClause(c)
  <2>1. PICK c \in Calls : AddClause(c)
    BY <1>1
  <2>2. calls' = Append(calls, c) /\ placeHolder' = Joined(placeHolder, ValuesOf(Len(calls) + 1, c))
    BY <2>1 DEF AddClause, Joined
  <2>3. calls' \in Seq(Calls) /\ Len(calls') = Len(calls) + 1
    BY <2>2, AppendProperties DEF TypeOK
  <2>4. Len(calls) + 1 \in 0 .. MaxSteps /\ Len(calls') <= MaxCalls
    BY <2>1, <2>3, ChainType, QueryBuilderAssumption DEF AddClause, Usable
  <2>5. placeHolder' \in Seq(Slots)
    BY <2>2, <2>4, ValuesOfType, JoinedSeq DEF TypeOK
  <2>6. Len(calls') + Len(done') <= MaxSteps
    BY <2>1, <2>3, ChainType, QueryBuilderAssumption DEF AddClause, Usable
  <2>7. /\ statement'.op = "none" /\ statement'.clauses = {} /\ statement'.accepted = FALSE
        /\ statement'.holes = <<>> /\ statement'.values = <<>> /\ statement'.sent = <<>>
    BY <2>1 DEF AddClause, NoStatement
  <2>8. <<>> \in Seq(Slots)
    BY EmptySeq
  <2>9. dialect' \in Dialects /\ done' \in Seq(Ops)
    BY <2>1 DEF AddClause, TypeOK
  <2>10. columns' \in {Old, Old \cup {NewCol}} /\ typeCache' \in {NoTypes, Old, Old \cup {NewCol}}
    BY <2>1 DEF AddClause, TypeOK
  <2> QED BY <2>3, <2>4, <2>5, <2>6, <2>7, <2>8, <2>9, <2>10 DEF TypeOK
<1>2. CASE \E op \in {"get", "aggregate", "delete"} : RunClauses(op)
  <2>1. PICK op \in {"get", "aggregate", "delete"} : RunClauses(op)
    BY <1>2
  <2>2. op \in Ops /\ placeHolder \in Seq(Slots) /\ ClauseHoles(op) \in Seq(Slots)
    BY ClauseHolesType DEF TypeOK, Ops
  <2>3. /\ Usable /\ Execute(op, ClauseHoles(op), placeHolder, TRUE)
        /\ placeHolder' = placeHolder
    BY <2>1 DEF RunClauses
  <2> QED BY <2>2, <2>3, ExecuteTypeOK
<1>3. CASE \E op \in {"find", "deleteId"} : RunWithId(op)
  <2>1. PICK op \in {"find", "deleteId"} : RunWithId(op)
    BY <1>3
  <2> DEFINE id == Slot("op", Len(done) + 1, 0, 1, Id)
  <2>2. /\ Usable /\ placeHolder' = Append(placeHolder, id)
        /\ Execute(op, Append(ClauseHoles(op), id), Append(placeHolder, id), TRUE)
    BY <2>1 DEF RunWithId
  <2>3. Len(done) + 1 \in 0 .. MaxSteps
    BY <2>2, ChainType, QueryBuilderAssumption DEF Usable
  <2>4. id \in Slots
    BY <2>3, SlotType DEF Old, Id
  <2> HIDE DEF id
  <2>5. op \in Ops /\ placeHolder \in Seq(Slots) /\ ClauseHoles(op) \in Seq(Slots)
    BY ClauseHolesType DEF TypeOK, Ops
  <2>6. Append(ClauseHoles(op), id) \in Seq(Slots) /\ Append(placeHolder, id) \in Seq(Slots)
    BY <2>4, <2>5, AppendProperties
  <2> QED BY <2>2, <2>5, <2>6, ExecuteTypeOK
<1>4. CASE \E set \in SetLists : Update(set)
  <2>1. PICK set \in SetLists : Update(set)
    BY <1>4
  <2>2. /\ Usable /\ placeHolder' = Joined(Assignments(set), placeHolder)
        /\ Execute("update", Joined(Assignments(set), ClauseHoles("update")),
                   Joined(Assignments(set), placeHolder), ToSet(set) \subseteq columns)
    BY <2>1 DEF Update, AssignFirst, Joined
  <2>3. placeHolder \in Seq(Slots) /\ ClauseHoles("update") \in Seq(Slots)
    BY ClauseHolesType DEF TypeOK
  <2>4. Assignments(set) \in Seq(Slots)
    BY <2>2, AssignmentsType
  <2>5. /\ Joined(Assignments(set), ClauseHoles("update")) \in Seq(Slots)
        /\ Joined(Assignments(set), placeHolder) \in Seq(Slots)
    BY <2>3, <2>4, JoinedSeq
  <2>6. "update" \in Ops /\ (ToSet(set) \subseteq columns) \in BOOLEAN
    BY DEF Ops
  <2> QED BY <2>2, <2>5, <2>6, ExecuteTypeOK
<1>5. CASE \E rows \in RowLists : Insert(rows)
  <2>1. PICK rows \in RowLists : Insert(rows)
    BY <1>5
  <2>2. /\ Usable /\ placeHolder' = Joined(placeHolder, RowValues(rows))
        /\ Execute("insert", RowHoles(rows), Joined(placeHolder, RowValues(rows)),
                   Insertable(rows))
    BY <2>1 DEF Insert, Joined
  <2>3. /\ RowHoles(rows) \in Seq(Slots)
        /\ Joined(placeHolder, RowValues(rows)) \in Seq(Slots)
    BY <2>2, InsertType, JoinedSeq DEF TypeOK
  <2>4. "insert" \in Ops /\ Insertable(rows) \in BOOLEAN
    BY DEF Ops, Insertable
  <2> QED BY <2>2, <2>3, <2>4, ExecuteTypeOK
<1>6. CASE \E rows \in RowLists : InsertIdOfRows(rows)
  <2>1. PICK rows \in RowLists : InsertIdOfRows(rows)
    BY <1>6
  <2>2. /\ Usable /\ placeHolder' \in {<<>>, Joined(placeHolder, RowValues(rows))}
        /\ Execute("insertIds", RowHoles(rows), Joined(placeHolder, RowValues(rows)),
                   Insertable(rows))
    BY <2>1 DEF InsertIdOfRows, Joined
  <2>3. /\ RowHoles(rows) \in Seq(Slots)
        /\ Joined(placeHolder, RowValues(rows)) \in Seq(Slots)
    BY <2>2, InsertType, JoinedSeq DEF TypeOK
  <2>4. "insertIds" \in Ops /\ Insertable(rows) \in BOOLEAN
    BY DEF Ops, Insertable
  <2>5. placeHolder' \in Seq(Slots)
    BY <2>2, <2>3, EmptySeq
  <2> QED BY <2>2, <2>3, <2>4, <2>5, ExecuteTypeOK
<1>7. CASE AddColumn
  BY <1>7 DEF AddColumn, TypeOK
<1>8. CASE OtherWrite
  BY <1>8, CachedType DEF OtherWrite, TypeOK
<1>9. CASE Dropped \/ UNCHANGED vars
  BY <1>9 DEF Dropped, vars, TypeOK
<1> QED
  BY <1>1, <1>2, <1>3, <1>4, <1>5, <1>6, <1>7, <1>8, <1>9 DEF Next

(* Every variable keeps its type: what the chain, its values and the last      *)
(* statement are made of, whatever is called in whatever order.              *)
THEOREM BuilderTypeCorrect == Spec => []TypeOK
<1>1. Init => TypeOK
  BY InitTypeOK
<1>2. TypeOK /\ [Next]_vars => TypeOK'
  BY NextTypeOK
<1> QED BY <1>1, <1>2, PTL DEF Spec

-----------------------------------------------------------------------------
(* What a write sends of a value *)

(* A step adds a clause, executes a statement or leaves the object alone. *)
Idle == UNCHANGED <<dialect, calls, placeHolder, done, statement>>

LEMMA StepShape ==
  ASSUME Next
  PROVE  \/ \E c \in Calls : AddClause(c)
         \/ \E op, holes, values, ok : op \in Ops /\ Execute(op, holes, values, ok)
         \/ Idle /\ (AddColumn \/ OtherWrite \/ UNCHANGED vars)
<1>1. ASSUME NEW op \in {"get", "aggregate", "delete"}, RunClauses(op)
      PROVE  \E o, holes, values, ok : o \in Ops /\ Execute(o, holes, values, ok)
  <2>1. op \in Ops
    BY DEF Ops
  <2> QED BY <1>1, <2>1 DEF RunClauses
<1>2. ASSUME NEW op \in {"find", "deleteId"}, RunWithId(op)
      PROVE  \E o, holes, values, ok : o \in Ops /\ Execute(o, holes, values, ok)
  <2>1. op \in Ops
    BY DEF Ops
  <2>2. \E holes, values, ok : Execute(op, holes, values, ok)
    BY <1>2 DEF RunWithId
  <2> QED BY <2>1, <2>2
<1>3. ASSUME NEW set \in SetLists, Update(set)
      PROVE  \E o, holes, values, ok : o \in Ops /\ Execute(o, holes, values, ok)
  BY <1>3 DEF Update, Ops
<1>4. ASSUME NEW rows \in RowLists, Insert(rows) \/ InsertIdOfRows(rows)
      PROVE  \E o, holes, values, ok : o \in Ops /\ Execute(o, holes, values, ok)
  BY <1>4 DEF Insert, InsertIdOfRows, Ops
<1>5. CASE AddColumn
  BY <1>5 DEF AddColumn, Idle
<1>6. CASE OtherWrite
  BY <1>6 DEF OtherWrite, Idle
<1>7. CASE Dropped
  BY <1>7 DEF Dropped, vars, Idle
<1> QED BY <1>1, <1>2, <1>3, <1>4, <1>5, <1>6, <1>7 DEF Next

(* After a write the types of the table are cached, and the columns that were *)
(* looked up were sent as they are.                                          *)
Kept == statement.op \in Writes =>
          /\ typeCache # NoTypes
          /\ \A n \in 1 .. Len(statement.values) :
               statement.values[n].column \in typeCache =>
                 statement.sent[n] = statement.values[n]

LEMMA KeptStep == TypeOK /\ Kept /\ [Next]_vars => Kept'
<1> SUFFICES ASSUME TypeOK, Kept, [Next]_vars PROVE Kept'
  OBVIOUS
<1>0. TypeOK'
  BY NextTypeOK
<1>1. CASE \E c \in Calls : AddClause(c)
  BY <1>1 DEF AddClause, NoStatement, Kept, Writes, Ops
<1>2. CASE \E op, holes, values, ok : op \in Ops /\ Execute(op, holes, values, ok)
  <2>1. PICK op, holes, values, ok : op \in Ops /\ Execute(op, holes, values, ok)
    BY <1>2
  <2>2. /\ statement'.op = op /\ statement'.values = values
        /\ statement'.sent = Send(op, values, typeCache')
        /\ op \in Writes => typeCache' = CachedTypes(values)
    BY <2>1 DEF Execute, Writes, Reads
  <2>3. values \in Seq(Slots)
    BY <1>0, <2>2 DEF TypeOK
  <2>4. \A n \in 1 .. Len(values) : values[n].column \in typeCache' =>
          statement'.sent[n] = values[n]
    BY <2>2, <2>3, SendType
  <2>5. op \in Writes => typeCache' # NoTypes
    BY <2>2, CachedType DEF NoTypes, Old
  <2> QED BY <2>2, <2>4, <2>5 DEF Kept
<1>3. CASE Idle /\ (AddColumn \/ OtherWrite \/ UNCHANGED vars)
  <2>1. typeCache' = typeCache \/ typeCache = NoTypes
    BY <1>3 DEF AddColumn, OtherWrite, CachedTypes, vars
  <2>2. statement' = statement
    BY <1>3 DEF Idle
  <2> QED BY <2>1, <2>2 DEF Kept
<1>4. CASE UNCHANGED vars
  BY <1>4 DEF vars, Kept
<1> QED BY <1>1, <1>2, <1>3, <1>4, StepShape

(* A write sends every value whose key is a plain column that was in the table *)
(* when the types were looked up, whichever write of the program looked them   *)
(* up (the cache of the pool is per table, not per statement).                 *)
THEOREM WritesKeepValues == Spec => []ValuesKept
<1>1. Init => Kept
  BY DEF Init, NoStatement, Kept, Writes, Ops
<1>2. TypeOK /\ Kept => ValuesKept
  <2> SUFFICES ASSUME TypeOK, Kept,
                      statement.op \in {"insert", "insertIds", "update", "delete", "deleteId"},
                      NEW n \in 1 .. Len(statement.values),
                      LET column == statement.values[n].column IN
                        column \in Old \/ (column \in columns /\ typeCache = columns)
               PROVE  statement.sent[n] = statement.values[n]
    BY DEF ValuesKept
  <2>1. statement.op \in Writes
    BY DEF Writes, Ops, Reads
  <2>2. typeCache # NoTypes
    BY <2>1 DEF Kept
  <2>3. Old \subseteq typeCache
    BY <2>2 DEF TypeOK
  <2> QED BY <2>1, <2>3 DEF Kept
<1>3. Spec => []TypeOK
  BY BuilderTypeCorrect
<1> QED BY <1>1, <1>2, <1>3, KeptStep, PTL DEF Spec

-----------------------------------------------------------------------------
(* The holes of a statement *)

CallSlot(i, k) == Slot("call", i, 0, k, calls[i].key)

(* The order of the calls, and of the values of one call. *)
Before(x, y) == \/ x.owner[2] < y.owner[2]
                \/ x.owner[2] = y.owner[2] /\ x.part < y.part

(* x is a hole of a call that stored its row under one of the keys. *)
HoleOf(x, keys) == /\ x.owner[2] \in 1 .. Len(calls)
                   /\ KeyOf(x.owner[2]) \in keys
                   /\ x.part \in 1 .. HoleCount(calls[x.owner[2]])
                   /\ x = CallSlot(x.owner[2], x.part)

LEMMA CallSlotFields ==
  ASSUME NEW i, NEW k
  PROVE  /\ CallSlot(i, k).owner[2] = i /\ CallSlot(i, k).part = k
         /\ CallSlot(i, k).owner[1] = "call"
         /\ CallSlot(i, k)'.owner[2] = i /\ CallSlot(i, k)'.part = k
         /\ CallSlot(i, k)'.owner[1] = "call"
BY DEF CallSlot, Slot

(* Only lists store their rows under the keys of lists. *)
LEMMA KeyOfList ==
  ASSUME NEW m \in Clauses, NEW list \in Ins, Key(m) = Key(list)
  PROVE  m \in Ins
BY DEF Key, Clauses, Ins

(* A list that nothing is glued to. *)
LEMMA OwnHolesOnly ==
  ASSUME TypeOK, NEW i \in 1 .. Len(calls), EarlierLists(i) = {} \/ dialect = "sqlite"
  PROVE  HolesOf(i) = OwnHoles(i)
<1>1. Leftover(i) \in Seq(Seq(Slots)) /\ Len(Leftover(i)) = i - 1
  BY HolesOfType
<1>2. ASSUME NEW j \in 1 .. i - 1 PROVE Leftover(i)[j] = <<>>
  <2>1. j \in 1 .. Len(calls)
    BY ChainType
  <2>2. CASE j \in EarlierLists(i)
    <3>1. dialect = "sqlite" /\ calls[j].method \in Ins
      <4>1. dialect = "sqlite" /\ calls[i].method \in Ins /\ KeyOf(j) = KeyOf(i)
        BY <2>2 DEF EarlierLists
      <4>2. calls[j].method \in Clauses
        BY <2>1, ChainType, CallType
      <4> QED BY <4>1, <4>2, KeyOfList DEF KeyOf
    <3>2. HoleCount(calls[j]) = 0
      BY <2>1, <3>1, ChainType, Counts
    <3>3. OwnHoles(j) = <<>>
      BY <2>1, <3>2, OwnHolesType, EmptySeq
    <3> QED BY <2>2, <3>3 DEF Leftover
  <2>3. CASE j \notin EarlierLists(i)
    BY <2>3 DEF Leftover
  <2> QED BY <2>2, <2>3
<1>3. FlattenSeq(Leftover(i)) = <<>>
  BY <1>1, <1>2, FlattenNothing
<1>4. OwnHoles(i) \in Seq(Slots)
  BY OwnHolesType
<1>5. <<>> \o OwnHoles(i) = OwnHoles(i)
  BY <1>4, ConcatEmptySeq
<1>6. HolesOf(i) = FlattenSeq(Leftover(i)) \o OwnHoles(i)
  BY DEF HolesOf, Leftover
<1> QED BY <1>3, <1>5, <1>6

(* No list of the statement has anything glued to it. *)
Clean(op) == \A i \in Written(op) : HolesOf(i) = OwnHoles(i)

LEMMA CleanStatement ==
  ASSUME TypeOK, NEW op, ~Glued(op) \/ dialect = "sqlite"
  PROVE  Clean(op)
<1> SUFFICES ASSUME NEW i \in Written(op) PROVE HolesOf(i) = OwnHoles(i)
  BY DEF Clean
<1>1. i \in 1 .. Len(calls)
  BY DEF Written
<1>2. EarlierLists(i) = {} \/ dialect = "sqlite"
  BY DEF Glued
<1> QED BY <1>1, <1>2, OwnHolesOnly

(* What the rows of one key make of its section. *)
InPlace(holes, key) ==
  /\ \A a \in 1 .. Len(holes) : HoleOf(holes[a], {key})
  /\ \A a, b \in 1 .. Len(holes) : a < b => Before(holes[a], holes[b])
  /\ \A i \in 1 .. Len(calls) : KeyOf(i) = key =>
       \A k \in 1 .. HoleCount(calls[i]) :
         \E a \in 1 .. Len(holes) : holes[a] = CallSlot(i, k)

LEMMA SectionInPlace ==
  ASSUME TypeOK, NEW key,
         \A i \in 1 .. Len(calls) : KeyOf(i) = key => HolesOf(i) = OwnHoles(i)
  PROVE  InPlace(SectionHoles(key), key)
<1> DEFINE rows == RowsOf(key)
           sh   == SectionHoles(key)
<1>1. rows \in Seq(Seq(Slots)) /\ Len(rows) = Len(calls) /\ sh \in Seq(Slots)
  BY SectionType
<1>2. PICK b, p : Placed(FlattenSeq(rows), rows, Len(rows), b, p)
  BY <1>1, FlattenPlaces DEF SamePlaces, SameShape
<1>3. FlattenSeq(rows) = sh
  BY DEF SectionHoles, RowsOf
<1>4. ASSUME NEW i \in 1 .. Len(calls)
      PROVE  /\ KeyOf(i) # key => Len(rows[i]) = 0
             /\ KeyOf(i) = key => /\ Len(rows[i]) = HoleCount(calls[i])
                                  /\ \A k \in 1 .. Len(rows[i]) : rows[i][k] = CallSlot(i, k)
  <2>1. CASE KeyOf(i) # key
    <3>1. rows[i] = <<>>
      BY <2>1 DEF RowsOf
    <3> QED BY <2>1, <3>1, EmptySeq
  <2>2. CASE KeyOf(i) = key
    <3>1. rows[i] = OwnHoles(i)
      BY <2>2 DEF RowsOf
    <3>2. Len(OwnHoles(i)) = HoleCount(calls[i])
      BY OwnHolesType
    <3>3. \A k \in 1 .. HoleCount(calls[i]) : OwnHoles(i)[k] = CallSlot(i, k)
      BY DEF OwnHoles, CallSlot
    <3> QED BY <2>2, <3>1, <3>2, <3>3
  <2> QED BY <2>1, <2>2
<1> HIDE DEF rows, sh
<1>5. /\ \A a \in 1 .. Len(sh) : /\ b[a] \in 1 .. Len(calls) /\ p[a] \in 1 .. Len(rows[b[a]])
                                 /\ sh[a] = rows[b[a]][p[a]]
      /\ \A a, c \in 1 .. Len(sh) : a < c => b[a] < b[c] \/ (b[a] = b[c] /\ p[a] < p[c])
      /\ \A i \in 1 .. Len(calls) : \A k \in 1 .. Len(rows[i]) :
           \E a \in 1 .. Len(sh) : b[a] = i /\ p[a] = k
  BY <1>1, <1>2, <1>3 DEF Placed
<1>6. ASSUME NEW a \in 1 .. Len(sh)
      PROVE  /\ sh[a] = CallSlot(b[a], p[a]) /\ b[a] \in 1 .. Len(calls)
             /\ KeyOf(b[a]) = key /\ p[a] \in 1 .. HoleCount(calls[b[a]])
  <2>1. PICK i \in 1 .. Len(calls) : i = b[a] /\ p[a] \in 1 .. Len(rows[i]) /\ sh[a] = rows[i][p[a]]
    BY <1>5
  <2>2. KeyOf(i) = key
    BY <1>4, <2>1
  <2> QED BY <1>4, <2>1, <2>2
<1>7. ASSUME NEW a \in 1 .. Len(sh)
      PROVE  HoleOf(sh[a], {key}) /\ sh[a].owner[2] = b[a] /\ sh[a].part = p[a]
  <2>1. CallSlot(b[a], p[a]).owner[2] = b[a] /\ CallSlot(b[a], p[a]).part = p[a]
    BY CallSlotFields
  <2>2. sh[a].owner[2] = b[a] /\ sh[a].part = p[a]
    BY <1>6, <2>1
  <2> QED BY <1>6, <2>2 DEF HoleOf
<1>8. ASSUME NEW a \in 1 .. Len(sh), NEW c \in 1 .. Len(sh), a < c
      PROVE  Before(sh[a], sh[c])
  BY <1>5, <1>7, <1>8 DEF Before
<1>9. ASSUME NEW i \in 1 .. Len(calls), KeyOf(i) = key, NEW k \in 1 .. HoleCount(calls[i])
      PROVE  \E a \in 1 .. Len(sh) : sh[a] = CallSlot(i, k)
  <2>1. k \in 1 .. Len(rows[i])
    BY <1>4, <1>9
  <2>2. PICK a \in 1 .. Len(sh) : b[a] = i /\ p[a] = k
    BY <1>5, <2>1
  <2> QED BY <1>6, <2>2
<1>10. InPlace(sh, key)
  BY <1>7, <1>8, <1>9 DEF InPlace
<1> QED BY <1>10 DEF sh

(* One key comes before another one in the order of the builders. *)
Ahead(key, other) ==
  \E m, n \in 1 .. 10 : m < n /\ key = AllSections[m] /\ other = AllSections[n]

LEMMA KeysDiffer ==
  /\ Len(AllSections) = 10
  /\ \A m, n \in 1 .. 10 : m # n => AllSections[m] # AllSections[n]
BY DEF AllSections

LEMMA AheadStrict ==
  ASSUME NEW key, NEW other, Ahead(key, other)
  PROVE  key # other
BY KeysDiffer DEF Ahead

LEMMA SectionsAhead ==
  ASSUME NEW op
  PROVE  /\ Len(Sections(op)) \in Nat
         /\ ToSet(Sections(op)) = {Sections(op)[n] : n \in 1 .. Len(Sections(op))}
         /\ \A m, n \in 1 .. Len(Sections(op)) :
              m < n => Ahead(Sections(op)[m], Sections(op)[n])
<1>1. CASE op = "get"
  BY <1>1, KeysDiffer DEF Sections, Ahead, AllSections, ToSet
<1>2. CASE op = "find"
  BY <1>2, KeysDiffer DEF Sections, Ahead, AllSections, ToSet
<1>3. CASE op = "aggregate"
  BY <1>3, KeysDiffer DEF Sections, Ahead, AllSections, ToSet
<1>4. CASE op \in {"update", "delete"}
  BY <1>4, KeysDiffer DEF Sections, Ahead, AllSections, ToSet
<1>5. CASE op \notin {"get", "find", "aggregate", "update", "delete"}
  BY <1>5, KeysDiffer DEF Sections, Ahead, AllSections, ToSet
<1> QED BY <1>1, <1>2, <1>3, <1>4, <1>5

(* What the sections make of the statement. *)
ClausePlaces(op) ==
  /\ \A a \in 1 .. Len(ClauseHoles(op)) : HoleOf(ClauseHoles(op)[a], ToSet(Sections(op)))
  /\ \A a, b \in 1 .. Len(ClauseHoles(op)) : a < b =>
       LET i == ClauseHoles(op)[a].owner[2]
           j == ClauseHoles(op)[b].owner[2]
       IN \/ KeyOf(i) = KeyOf(j) /\ Before(ClauseHoles(op)[a], ClauseHoles(op)[b])
          \/ Ahead(KeyOf(i), KeyOf(j))
  /\ \A i \in Written(op) : \A k \in 1 .. HoleCount(calls[i]) :
       \E a \in 1 .. Len(ClauseHoles(op)) : ClauseHoles(op)[a] = CallSlot(i, k)

LEMMA ClausesInPlace ==
  ASSUME TypeOK, NEW op, Clean(op)
  PROVE  ClausePlaces(op)
<1> DEFINE sec == Sections(op)
           all == SectionsOf(op)
           ch  == ClauseHoles(op)
<1>1. all \in Seq(Seq(Slots)) /\ Len(all) = Len(sec) /\ ch = FlattenSeq(all) /\ ch \in Seq(Slots)
  BY ClauseHolesType
<1>2. PICK b, p : Placed(ch, all, Len(all), b, p)
  BY <1>1, FlattenPlaces DEF SamePlaces, SameShape
<1>3. /\ Len(sec) \in Nat /\ ToSet(sec) = {sec[n] : n \in 1 .. Len(sec)}
      /\ \A m, n \in 1 .. Len(sec) : m < n => Ahead(sec[m], sec[n])
  BY SectionsAhead
<1>4. ASSUME NEW n \in 1 .. Len(sec)
      PROVE  InPlace(all[n], sec[n])
  <2>1. \A i \in 1 .. Len(calls) : KeyOf(i) = sec[n] => i \in Written(op)
    BY <1>3 DEF Written
  <2>2. InPlace(SectionHoles(sec[n]), sec[n])
    BY <2>1, SectionInPlace DEF Clean
  <2>3. all[n] = SectionHoles(sec[n])
    BY DEF SectionsOf
  <2> HIDE DEF sec, all, ch
  <2> QED BY <2>2, <2>3
<1> HIDE DEF sec, all, ch
<1>5. ASSUME NEW n \in 1 .. Len(sec)
      PROVE  /\ \A a \in 1 .. Len(all[n]) : HoleOf(all[n][a], {sec[n]})
             /\ \A a, c \in 1 .. Len(all[n]) : a < c => Before(all[n][a], all[n][c])
             /\ \A i \in 1 .. Len(calls) : KeyOf(i) = sec[n] =>
                  \A k \in 1 .. HoleCount(calls[i]) :
                    \E a \in 1 .. Len(all[n]) : all[n][a] = CallSlot(i, k)
  BY <1>4 DEF InPlace
<1>6. /\ \A a \in 1 .. Len(ch) : /\ b[a] \in 1 .. Len(sec) /\ p[a] \in 1 .. Len(all[b[a]])
                                 /\ ch[a] = all[b[a]][p[a]]
      /\ \A a, c \in 1 .. Len(ch) : a < c => b[a] < b[c] \/ (b[a] = b[c] /\ p[a] < p[c])
      /\ \A n \in 1 .. Len(sec) : \A k \in 1 .. Len(all[n]) :
           \E a \in 1 .. Len(ch) : b[a] = n /\ p[a] = k
  <2>1. Len(all) = Len(sec)
    BY <1>1
  <2>2. Placed(ch, all, Len(sec), b, p)
    BY <1>2, <2>1
  <2> QED BY <2>2 DEF Placed
<1>7. ASSUME NEW a \in 1 .. Len(ch)
      PROVE  HoleOf(ch[a], {sec[b[a]]})
  <2>1. PICK n \in 1 .. Len(sec) : n = b[a] /\ p[a] \in 1 .. Len(all[n]) /\ ch[a] = all[n][p[a]]
    BY <1>6
  <2> QED BY <1>5, <2>1
<1>8. ASSUME NEW a \in 1 .. Len(ch)
      PROVE  HoleOf(ch[a], ToSet(sec)) /\ KeyOf(ch[a].owner[2]) = sec[b[a]]
  <2>1. sec[b[a]] \in ToSet(sec)
    BY <1>3, <1>6
  <2> QED BY <1>7, <2>1 DEF HoleOf
<1>9. ASSUME NEW a \in 1 .. Len(ch), NEW c \in 1 .. Len(ch), a < c
      PROVE  \/ /\ KeyOf(ch[a].owner[2]) = KeyOf(ch[c].owner[2])
                /\ Before(ch[a], ch[c])
             \/ Ahead(KeyOf(ch[a].owner[2]), KeyOf(ch[c].owner[2]))
  <2>1. CASE b[a] < b[c]
    <3>1. Ahead(sec[b[a]], sec[b[c]])
      BY <1>3, <1>6, <2>1
    <3> QED BY <1>8, <3>1
  <2>2. CASE b[a] = b[c] /\ p[a] < p[c]
    <3>1. PICK n \in 1 .. Len(sec) : n = b[a] /\ n = b[c]
      BY <1>6, <2>2
    <3>2. /\ p[a] \in 1 .. Len(all[n]) /\ p[c] \in 1 .. Len(all[n])
          /\ ch[a] = all[n][p[a]] /\ ch[c] = all[n][p[c]]
      BY <1>6, <3>1
    <3>3. Before(ch[a], ch[c])
      BY <1>5, <2>2, <3>2
    <3> QED BY <1>8, <2>2, <3>3
  <2> QED BY <1>6, <1>9, <2>1, <2>2
<1>10. ASSUME NEW i \in Written(op), NEW k \in 1 .. HoleCount(calls[i])
       PROVE  \E a \in 1 .. Len(ch) : ch[a] = CallSlot(i, k)
  <2>1. i \in 1 .. Len(calls) /\ KeyOf(i) \in ToSet(sec)
    BY DEF Written, sec
  <2>2. PICK n \in 1 .. Len(sec) : KeyOf(i) = sec[n]
    BY <1>3, <2>1
  <2>3. PICK x \in 1 .. Len(all[n]) : all[n][x] = CallSlot(i, k)
    BY <1>5, <2>1, <2>2
  <2>4. PICK a \in 1 .. Len(ch) : b[a] = n /\ p[a] = x
    BY <1>6, <2>3
  <2> QED BY <1>6, <2>3, <2>4
<1> QED BY <1>8, <1>9, <1>10 DEF ClausePlaces, ch, sec

LEMMA SlotNumbers ==
  ASSUME NEW x \in Slots
  PROVE  x.owner[2] \in Nat /\ x.part \in Nat
BY QueryBuilderAssumption DEF Slots

LEMMA BeforeStrict ==
  ASSUME NEW x \in Slots, NEW y \in Slots, Before(x, y)
  PROVE  x # y /\ ~Before(y, x)
BY SlotNumbers DEF Before

(* No value is asked for twice. *)
LEMMA HolesDiffer ==
  ASSUME TypeOK, NEW op, ClausePlaces(op)
  PROVE  \A a, b \in 1 .. Len(ClauseHoles(op)) :
           a # b => ClauseHoles(op)[a] # ClauseHoles(op)[b]
<1> DEFINE ch == ClauseHoles(op)
<1>1. ch \in Seq(Slots) /\ Len(ch) \in Nat /\ \A a \in 1 .. Len(ch) : ch[a] \in Slots
  BY ClauseHolesType, LenProperties, ElementOfSeq
<1>2. ASSUME NEW a \in 1 .. Len(ch), NEW b \in 1 .. Len(ch), a < b
      PROVE  ch[a] # ch[b]
  <2>1. \/ Before(ch[a], ch[b])
        \/ Ahead(KeyOf(ch[a].owner[2]), KeyOf(ch[b].owner[2]))
    BY <1>2 DEF ClausePlaces
  <2>2. CASE Before(ch[a], ch[b])
    BY <1>1, <2>2, BeforeStrict
  <2>3. CASE Ahead(KeyOf(ch[a].owner[2]), KeyOf(ch[b].owner[2]))
    <3>1. KeyOf(ch[a].owner[2]) # KeyOf(ch[b].owner[2])
      BY <2>3, AheadStrict
    <3> QED BY <3>1
  <2> QED BY <2>1, <2>2, <2>3
<1> HIDE DEF ch
<1>3. \A a, b \in 1 .. Len(ch) : a # b => ch[a] # ch[b]
  BY <1>1, <1>2
<1> QED BY <1>3 DEF ch

(* They stand in the order of the calls when the chain has the order of the   *)
(* builders.                                                                 *)
LEMMA HolesOrdered ==
  ASSUME TypeOK, NEW op, ClausePlaces(op), InBuilderOrder,
         \A i \in 1 .. Len(calls) : HoleCount(calls[i]) = ValueCount(calls[i])
  PROVE  \A a, b \in 1 .. Len(ClauseHoles(op)) :
           a < b => Before(ClauseHoles(op)[a], ClauseHoles(op)[b])
<1> DEFINE ch == ClauseHoles(op)
<1> SUFFICES ASSUME NEW a \in 1 .. Len(ch), NEW b \in 1 .. Len(ch), a < b
             PROVE  Before(ch[a], ch[b])
  OBVIOUS
<1> DEFINE i == ch[a].owner[2]
           j == ch[b].owner[2]
<1>1. HoleOf(ch[a], ToSet(Sections(op))) /\ HoleOf(ch[b], ToSet(Sections(op)))
  BY DEF ClausePlaces
<1>2. Before(ch[a], ch[b]) \/ Ahead(KeyOf(i), KeyOf(j))
  BY DEF ClausePlaces
<1> HIDE DEF ch
<1>3. /\ i \in 1 .. Len(calls) /\ j \in 1 .. Len(calls)
      /\ ch[a].part \in 1 .. HoleCount(calls[i]) /\ ch[b].part \in 1 .. HoleCount(calls[j])
  BY <1>1 DEF HoleOf
<1>4. i \in Valued /\ j \in Valued
  <2>1. HoleCount(calls[i]) \in Nat /\ HoleCount(calls[j]) \in Nat
    BY <1>3, ChainType, Counts
  <2>2. HoleCount(calls[i]) > 0 /\ HoleCount(calls[j]) > 0
    BY <1>3, <2>1
  <2> QED BY <1>3, <2>2 DEF Valued
<1> HIDE DEF i, j
<1>5. i \in Nat /\ j \in Nat
  BY <1>3, ChainType
<1>6. CASE Ahead(KeyOf(i), KeyOf(j))
  <2>1. PICK m, n \in 1 .. 10 : m < n /\ KeyOf(i) = AllSections[m] /\ KeyOf(j) = AllSections[n]
    BY <1>6 DEF Ahead
  <2>2. i # j
    BY <1>6, AheadStrict
  <2>3. ASSUME j < i PROVE FALSE
    <3>1. PICK y \in 1 .. 10 : \E x \in 1 .. y : KeyOf(j) = AllSections[x] /\ KeyOf(i) = AllSections[y]
      BY <1>4, <2>3, KeysDiffer DEF InBuilderOrder
    <3>2. PICK x \in 1 .. y : KeyOf(j) = AllSections[x] /\ KeyOf(i) = AllSections[y]
      BY <3>1
    <3>3. x \in 1 .. 10 /\ x <= y
      OBVIOUS
    <3>4. AllSections[x] = AllSections[n] /\ AllSections[y] = AllSections[m]
      BY <2>1, <3>2
    <3>5. x = n /\ y = m
      BY <3>3, <3>4, KeysDiffer
    <3> QED BY <2>1, <3>3, <3>5
  <2>4. i < j
    BY <1>5, <2>2, <2>3
  <2> QED BY <2>4 DEF Before, i, j
<1> QED BY <1>2, <1>6 DEF i, j

(* A sequence of slots in order, all of which stand in another one in the     *)
(* same order: they are the same when they are as long, or when nothing else  *)
(* stands in the other one.                                                  *)
LEMMA SameSequence ==
  ASSUME NEW s \in Seq(Slots), NEW t \in Seq(Slots),
         \A a, b \in 1 .. Len(s) : a < b => Before(s[a], s[b]),
         \A a \in 1 .. Len(s) : s[a].owner[1] = "call",
         \A a, b \in 1 .. Len(t) :
           a < b /\ t[a].owner[1] = "call" /\ t[b].owner[1] = "call" => Before(t[a], t[b]),
         \A a \in 1 .. Len(s) : \E b \in 1 .. Len(t) : t[b] = s[a],
         Len(s) = Len(t) \/ \A b \in 1 .. Len(t) : \E a \in 1 .. Len(s) : s[a] = t[b]
  PROVE  s = t
<1>1. PICK n \in Nat, k \in Nat : n = Len(s) /\ k = Len(t)
  BY LenProperties
<1>2. /\ \A a \in 1 .. n : s[a] \in Slots
      /\ \A b \in 1 .. k : t[b] \in Slots
  BY <1>1, ElementOfSeq
<1>3. /\ \A a, b \in 1 .. n : a < b => Before(s[a], s[b])
      /\ \A a, b \in 1 .. k :
           a < b /\ t[a].owner[1] = "call" /\ t[b].owner[1] = "call" => Before(t[a], t[b])
      /\ \A a \in 1 .. n : s[a].owner[1] = "call"
  BY <1>1
<1> DEFINE h == [a \in 1 .. n |-> CHOOSE b \in 1 .. k : t[b] = s[a]]
<1>4. \A a \in 1 .. n : \E b \in 1 .. k : t[b] = s[a]
  BY <1>1
<1>5. \A a \in 1 .. n : h[a] \in 1 .. k /\ t[h[a]] = s[a]
  BY <1>4
<1>6. h \in [1 .. n -> 1 .. k]
  BY <1>5
<1> HIDE DEF h
<1>7. \A a, b \in 1 .. n : a < b => h[a] < h[b]
  <2> SUFFICES ASSUME NEW a \in 1 .. n, NEW b \in 1 .. n, a < b
               PROVE  h[a] < h[b]
    OBVIOUS
  <2>1. PICK x \in 1 .. k, y \in 1 .. k : x = h[a] /\ y = h[b] /\ t[x] = s[a] /\ t[y] = s[b]
    BY <1>5
  <2>2. Before(t[x], t[y]) /\ t[x].owner[1] = "call" /\ t[y].owner[1] = "call"
    BY <1>3, <2>1
  <2>3. t[x] # t[y] /\ ~Before(t[y], t[x])
    BY <1>2, <2>2, BeforeStrict
  <2>4. ~(y < x)
    BY <1>3, <2>2, <2>3
  <2>5. x # y
    BY <2>3
  <2>6. x < y
    BY <2>4, <2>5
  <2> QED BY <2>1, <2>6
<1>8. n <= k
  BY <1>6, <1>7, NotBehind
<1>9. ASSUME \A b \in 1 .. k : \E a \in 1 .. n : s[a] = t[b]
      PROVE  k <= n
  <2> DEFINE g == [b \in 1 .. k |-> CHOOSE a \in 1 .. n : s[a] = t[b]]
  <2>1. \A b \in 1 .. k : g[b] \in 1 .. n /\ s[g[b]] = t[b]
    BY <1>9
  <2>2. g \in [1 .. k -> 1 .. n]
    BY <2>1
  <2> HIDE DEF g
  <2>3. \A b, c \in 1 .. k : b < c => g[b] < g[c]
    <3> SUFFICES ASSUME NEW b \in 1 .. k, NEW c \in 1 .. k, b < c
                 PROVE  g[b] < g[c]
      OBVIOUS
    <3>1. PICK x \in 1 .. n, y \in 1 .. n : x = g[b] /\ y = g[c] /\ s[x] = t[b] /\ s[y] = t[c]
      BY <2>1
    <3>2. Before(s[x], s[y])
      <4>1. t[b].owner[1] = "call" /\ t[c].owner[1] = "call"
        <5>1. s[x].owner[1] = "call" /\ s[y].owner[1] = "call"
          BY <1>3, Zenon
        <5> QED BY <3>1, <5>1, Zenon
      <4>2. Before(t[b], t[c])
        BY <1>3, <4>1
      <4> QED BY <3>1, <4>2
    <3>3. s[x] # s[y] /\ ~Before(s[y], s[x])
      BY <1>2, <3>2, BeforeStrict
    <3>4. ~(y < x)
      BY <1>3, <3>3
    <3> QED BY <3>1, <3>3, <3>4
  <2> QED BY <2>2, <2>3, NotBehind
<1>10. k <= n
  BY <1>1, <1>9
<1>11. n = k
  BY <1>8, <1>10
<1>12. \A a \in 1 .. n : h[a] = a
  <2>1. h \in [1 .. n -> 1 .. n]
    BY <1>6, <1>11
  <2> QED BY <1>7, <2>1, IncreasingIdentity
<1>13. \A a \in 1 .. n : s[a] = t[a]
  BY <1>5, <1>12
<1> QED BY <1>1, <1>11, <1>13, SeqEqual

(* Different slots, all of which stand in a sequence of the same length:      *)
(* nothing else stands there.                                                *)
LEMMA NothingElse ==
  ASSUME NEW s \in Seq(Slots), NEW t \in Seq(Slots), Len(s) = Len(t),
         \A a, b \in 1 .. Len(s) : a # b => s[a] # s[b],
         \A a \in 1 .. Len(s) : \E b \in 1 .. Len(t) : t[b] = s[a]
  PROVE  \A b \in 1 .. Len(t) : \E a \in 1 .. Len(s) : s[a] = t[b]
<1>1. PICK n \in Nat : n = Len(s) /\ n = Len(t)
  BY LenProperties
<1> DEFINE h == [a \in 1 .. n |-> CHOOSE b \in 1 .. n : t[b] = s[a]]
<1>2. \A a \in 1 .. n : \E b \in 1 .. n : t[b] = s[a]
  BY <1>1
<1>3. \A a \in 1 .. n : h[a] \in 1 .. n /\ t[h[a]] = s[a]
  BY <1>2
<1>4. h \in [1 .. n -> 1 .. n]
  BY <1>3
<1> HIDE DEF h
<1>5. \A a, b \in 1 .. n : h[a] = h[b] => a = b
  <2>1. \A a, b \in 1 .. n : a # b => s[a] # s[b]
    BY <1>1
  <2> QED BY <1>3, <2>1
<1>6. h \in Injection(1 .. n, 1 .. n)
  BY <1>4, <1>5, Fun_IsInj
<1>7. IsFiniteSet(1 .. n)
  BY FS_Interval
<1>8. h \in Surjection(1 .. n, 1 .. n)
  BY <1>6, <1>7, FS_Injection
<1>9. \A b \in 1 .. n : \E a \in 1 .. n : h[a] = b
  BY <1>8, Fun_SurjectionProperties DEF Surjection
<1>10. ASSUME NEW b \in 1 .. n PROVE \E a \in 1 .. n : s[a] = t[b]
  <2>1. PICK a \in 1 .. n : h[a] = b
    BY <1>9
  <2> QED BY <1>3, <2>1
<1> QED BY <1>1, <1>10

-----------------------------------------------------------------------------
(* The values of the chain in placeHolder *)

Widths == [i \in 1 .. Len(calls) |-> ValueCount(calls[i])]

IsCall(x) == x.owner[1] = "call"

(* x is a value of one of the first n calls. *)
ValueOf(x, n, widths) ==
  \E i \in 1 .. n : \E k \in 1 .. widths[i] : x = CallSlot(i, k)

(* The values of the calls stand in placeHolder in the order of the calls,    *)
(* whatever operations have put among them.  An object that was not used has  *)
(* nothing else there.  Once used, PostgreSQL's still has all of them: insertId *)
(* empties placeHolder, but succeeds only if there were none.               *)
Places ==
  /\ \A n \in 1 .. Len(placeHolder) :
       IsCall(placeHolder[n]) => ValueOf(placeHolder[n], Len(calls), Widths)
  /\ \A m, n \in 1 .. Len(placeHolder) :
       m < n /\ IsCall(placeHolder[m]) /\ IsCall(placeHolder[n])
         => Before(placeHolder[m], placeHolder[n])
  /\ done = <<>> => \A n \in 1 .. Len(placeHolder) : IsCall(placeHolder[n])
  /\ done = <<>> \/ dialect = "postgres" =>
       \A i \in 1 .. Len(calls) : \A k \in 1 .. Widths[i] :
         \E n \in 1 .. Len(placeHolder) : placeHolder[n] = CallSlot(i, k)

LEMMA WidthsSame ==
  ASSUME UNCHANGED <<dialect, calls>>
  PROVE  Widths' = Widths /\ \A i, k : CallSlot(i, k)' = CallSlot(i, k)
BY DEF Widths, ValueCount, Inlines, CallSlot

LEMMA WidthsAdd ==
  ASSUME TypeOK, NEW c \in Calls, AddClause(c)
  PROVE  /\ Len(calls') = Len(calls) + 1 /\ Len(calls) \in Nat
         /\ Widths'[Len(calls) + 1] = ValueCount(c)
         /\ \A i \in 1 .. Len(calls) : Widths'[i] = Widths[i]
         /\ \A i \in 1 .. Len(calls) : \A k : CallSlot(i, k)' = CallSlot(i, k)
         /\ \A i, k : i = Len(calls) + 1 => CallSlot(i, k)' = Slot("call", i, 0, k, c.key)
<1>1. /\ dialect' = dialect /\ calls' = Append(calls, c)
      /\ Len(calls') = Len(calls) + 1 /\ Len(calls) \in Nat
      /\ \A i \in 1 .. Len(calls) : calls'[i] = calls[i]
      /\ calls'[Len(calls) + 1] = c
  BY AppendProperties, ChainType DEF AddClause, TypeOK
<1>2. Widths'[Len(calls) + 1] = ValueCount(c)
  <2>1. Len(calls) + 1 \in 1 .. Len(calls')
    BY <1>1
  <2> QED BY <1>1, <2>1 DEF Widths, ValueCount, Inlines
<1>3. ASSUME NEW i \in 1 .. Len(calls) PROVE Widths'[i] = Widths[i]
  <2>1. i \in 1 .. Len(calls')
    BY <1>1
  <2> QED BY <1>1, <2>1 DEF Widths, ValueCount, Inlines
<1>4. /\ \A i \in 1 .. Len(calls) : \A k : CallSlot(i, k)' = CallSlot(i, k)
      /\ \A i, k : i = Len(calls) + 1 => CallSlot(i, k)' = Slot("call", i, 0, k, c.key)
  BY <1>1 DEF CallSlot
<1> QED BY <1>1, <1>2, <1>3, <1>4

(* An operation puts values of its own before or behind what is there. *)
LEMMA PlacesKept ==
  ASSUME Places, UNCHANGED <<dialect, calls>>, done' # <<>>,
         NEW before \in Nat, NEW len \in Nat, len = Len(placeHolder),
         Len(placeHolder') \in Nat, before + len <= Len(placeHolder'),
         \A n \in 1 .. len : placeHolder'[before + n] = placeHolder[n],
         \A n \in 1 .. Len(placeHolder') :
           n \notin before + 1 .. before + len => ~IsCall(placeHolder'[n])
  PROVE  Places'
<1>1. /\ Widths' = Widths /\ calls' = calls /\ dialect' = dialect
      /\ \A i, k : CallSlot(i, k)' = CallSlot(i, k)
  BY WidthsSame
<1>2. ASSUME NEW n \in 1 .. Len(placeHolder'), IsCall(placeHolder'[n])
      PROVE  n - before \in 1 .. len /\ placeHolder'[n] = placeHolder[n - before]
  <2>1. n \in before + 1 .. before + len
    BY <1>2
  <2>2. PICK m \in 1 .. len : n = before + m /\ m = n - before
    BY <2>1
  <2> QED BY <2>2
<1>3. ASSUME NEW n \in 1 .. Len(placeHolder'), IsCall(placeHolder'[n])
      PROVE  ValueOf(placeHolder[n], Len(calls), Widths)'
  <2>1. PICK m \in 1 .. len : m = n - before
    BY <1>2, <1>3
  <2>2. placeHolder'[n] = placeHolder[m]
    BY <1>2, <1>3, <2>1
  <2>3. ValueOf(placeHolder[m], Len(calls), Widths)
    BY <1>3, <2>2 DEF Places
  <2> QED BY <1>1, <2>2, <2>3 DEF ValueOf
<1>4. ASSUME NEW m \in 1 .. Len(placeHolder'), NEW n \in 1 .. Len(placeHolder'), m < n,
             IsCall(placeHolder'[m]), IsCall(placeHolder'[n])
      PROVE  Before(placeHolder'[m], placeHolder'[n])
  <2>1. PICK x \in 1 .. len, y \in 1 .. len : x = m - before /\ y = n - before
    BY <1>2, <1>4
  <2>2. x < y /\ placeHolder'[m] = placeHolder[x] /\ placeHolder'[n] = placeHolder[y]
    BY <1>2, <1>4, <2>1
  <2> QED BY <1>4, <2>2 DEF Places
<1>5. ASSUME dialect = "postgres", NEW i \in 1 .. Len(calls), NEW k \in 1 .. Widths[i]
      PROVE  \E n \in 1 .. Len(placeHolder') : placeHolder'[n] = CallSlot(i, k)
  <2>1. PICK m \in 1 .. len : placeHolder[m] = CallSlot(i, k)
    BY <1>5 DEF Places
  <2>2. before + m \in 1 .. Len(placeHolder')
    OBVIOUS
  <2>3. placeHolder'[before + m] = CallSlot(i, k)
    BY <2>1
  <2> QED BY <2>2, <2>3
<1> QED BY <1>1, <1>3, <1>4, <1>5 DEF Places

LEMMA AddClausePlaces ==
  ASSUME TypeOK, Places, NEW c \in Calls, AddClause(c)
  PROVE  Places'
<1> DEFINE v == ValuesOf(Len(calls) + 1, c)
<1>1. /\ Len(calls') = Len(calls) + 1 /\ Len(calls) \in Nat
      /\ Widths'[Len(calls) + 1] = ValueCount(c)
      /\ \A i \in 1 .. Len(calls) : Widths'[i] = Widths[i]
      /\ \A i \in 1 .. Len(calls) : \A k : CallSlot(i, k)' = CallSlot(i, k)
      /\ \A i, k : i = Len(calls) + 1 => CallSlot(i, k)' = Slot("call", i, 0, k, c.key)
  BY WidthsAdd
<1>2. Len(calls) + 1 \in 0 .. MaxSteps
  BY ChainType, QueryBuilderAssumption DEF AddClause, Usable
<1>3. /\ v \in Seq(Slots) /\ Len(v) = ValueCount(c)
      /\ \A k \in 1 .. ValueCount(c) : v[k] = Slot("call", Len(calls) + 1, 0, k, c.key)
  BY <1>2, ValuesOfType
<1>4. placeHolder \in Seq(Slots) /\ placeHolder' = Joined(placeHolder, v)
  BY DEF AddClause, Joined, TypeOK
<1> HIDE DEF v
<1>5. JoinedPlaces(placeHolder, v)
  BY <1>3, <1>4, JoinedSeq
<1>6. PICK l \in Nat, w \in Nat, x \in Nat :
        l = Len(placeHolder) /\ w = ValueCount(c) /\ x = Len(calls)
  BY <1>1, <1>5, Counts DEF JoinedPlaces
<1>7. /\ Len(placeHolder') = l + w
      /\ \A n \in 1 .. l : placeHolder'[n] = placeHolder[n]
      /\ \A k \in 1 .. w : placeHolder'[l + k] = CallSlot(x + 1, k)'
  <2>1. \A k : CallSlot(x + 1, k)' = Slot("call", x + 1, 0, k, c.key)
    BY <1>1, <1>6
  <2> QED BY <1>3, <1>4, <1>5, <1>6, <2>1 DEF JoinedPlaces
<1>8. ASSUME NEW n \in l + 1 .. l + w
      PROVE  n - l \in 1 .. w /\ placeHolder'[n] = CallSlot(x + 1, n - l)'
  <2>1. PICK k \in 1 .. w : k = n - l /\ n = l + k
    OBVIOUS
  <2> QED BY <1>7, <2>1
<1>9. ASSUME NEW n \in 1 .. l, IsCall(placeHolder[n])
      PROVE  placeHolder[n].owner[2] \in 1 .. x
  <2>1. ValueOf(placeHolder[n], x, Widths)
    BY <1>6, <1>9 DEF Places
  <2>2. PICK i \in 1 .. x : \E k \in 1 .. Widths[i] : placeHolder[n] = CallSlot(i, k)
    BY <2>1 DEF ValueOf
  <2> QED BY <2>2, CallSlotFields
<1>10. ASSUME NEW n \in 1 .. Len(placeHolder'), IsCall(placeHolder'[n])
       PROVE  ValueOf(placeHolder[n], Len(calls), Widths)'
  <2>1. CASE n \in 1 .. l
    <3>1. ValueOf(placeHolder[n], x, Widths)
      BY <1>6, <1>7, <1>10, <2>1 DEF Places
    <3>2. PICK i \in 1 .. x : \E k \in 1 .. Widths[i] : placeHolder[n] = CallSlot(i, k)
      BY <3>1 DEF ValueOf
    <3>4. PICK k \in 1 .. Widths[i] : placeHolder[n] = CallSlot(i, k)
      BY <3>2
    <3>3. i \in 1 .. x + 1 /\ k \in 1 .. Widths'[i] /\ placeHolder'[n] = CallSlot(i, k)'
      BY <1>1, <1>6, <1>7, <2>1, <3>4
    <3> QED BY <1>1, <1>6, <3>3 DEF ValueOf
  <2>2. CASE n \in l + 1 .. l + w
    <3>1. /\ x + 1 \in 1 .. x + 1 /\ n - l \in 1 .. Widths'[x + 1]
          /\ placeHolder'[n] = CallSlot(x + 1, n - l)'
      BY <1>1, <1>6, <1>8, <2>2
    <3> QED BY <1>1, <1>6, <3>1 DEF ValueOf
  <2> QED BY <1>7, <2>1, <2>2
<1>11. ASSUME NEW m \in 1 .. Len(placeHolder'), NEW n \in 1 .. Len(placeHolder'), m < n,
              IsCall(placeHolder'[m]), IsCall(placeHolder'[n])
       PROVE  Before(placeHolder'[m], placeHolder'[n])
  <2>1. CASE n \in 1 .. l
    <3>1. m \in 1 .. l
      BY <1>11, <2>1
    <3> QED BY <1>6, <1>7, <1>11, <2>1, <3>1 DEF Places
  <2>2. CASE m \in 1 .. l /\ n \in l + 1 .. l + w
    <3>1. placeHolder'[m].owner[2] \in 1 .. x
      BY <1>7, <1>9, <1>11, <2>2
    <3>2. placeHolder'[n].owner[2] = x + 1
      BY <1>8, <2>2, CallSlotFields
    <3> QED BY <3>1, <3>2 DEF Before
  <2>3. CASE m \in l + 1 .. l + w
    <3>1. n \in l + 1 .. l + w
      BY <1>7, <1>11, <2>3
    <3>2. /\ placeHolder'[m].owner[2] = x + 1 /\ placeHolder'[m].part = m - l
          /\ placeHolder'[n].owner[2] = x + 1 /\ placeHolder'[n].part = n - l
      BY <1>8, <2>3, <3>1, CallSlotFields
    <3> QED BY <1>11, <2>3, <3>1, <3>2 DEF Before
  <2> QED BY <1>7, <1>11, <2>1, <2>2, <2>3
<1>12. ASSUME done' = <<>>, NEW n \in 1 .. Len(placeHolder')
       PROVE  IsCall(placeHolder'[n])
  <2>1. done = <<>>
    BY <1>12 DEF AddClause
  <2>2. CASE n \in 1 .. l
    BY <1>6, <1>7, <2>1, <2>2 DEF Places
  <2>3. CASE n \in l + 1 .. l + w
    BY <1>8, <2>3, CallSlotFields DEF IsCall
  <2> QED BY <1>7, <2>2, <2>3
<1>13. ASSUME done' = <<>> \/ dialect' = "postgres",
              NEW i \in 1 .. Len(calls'), NEW k \in 1 .. Widths'[i]
       PROVE  \E n \in 1 .. Len(placeHolder') : placeHolder'[n] = CallSlot(i, k)'
  <2>1. CASE i \in 1 .. x
    <3>1. k \in 1 .. Widths[i] /\ (done = <<>> \/ dialect = "postgres")
      BY <1>1, <1>6, <1>13, <2>1 DEF AddClause
    <3>2. PICK n \in 1 .. l : placeHolder[n] = CallSlot(i, k)
      BY <1>6, <2>1, <3>1 DEF Places
    <3> QED BY <1>1, <1>6, <1>7, <2>1, <3>2
  <2>2. CASE i = x + 1
    <3>1. k \in 1 .. w
      BY <1>1, <1>6, <2>2
    <3>2. l + k \in 1 .. Len(placeHolder') /\ placeHolder'[l + k] = CallSlot(i, k)'
      BY <1>7, <2>2, <3>1
    <3> QED BY <3>2
  <2> QED BY <1>1, <1>6, <2>1, <2>2
<1> QED BY <1>10, <1>11, <1>12, <1>13 DEF Places

(* Slots of an operation. *)
OfOperation(s) == \A n \in 1 .. Len(s) : s[n] \in Slots /\ ~IsCall(s[n])

LEMMA OwnAssignments ==
  ASSUME TypeOK, Usable, NEW set \in SetLists
  PROVE  OfOperation(Assignments(set))
<1>1. PICK v \in Seq(Slots) : v = Assignments(set)
  BY AssignmentsType
<1>2. PICK l \in Nat : l = Len(set)
  <2>1. set \in Seq(Old \cup {NewCol})
    BY QueryBuilderAssumption, Zenon
  <2> QED BY <2>1, LenProperties
<1>3. v = [j \in 1 .. l |-> Slot("op", Len(done) + 1, 0, j, set[j])]
  BY <1>1, <1>2 DEF Assignments
<1>4. DOMAIN v = 1 .. l /\ DOMAIN v = 1 .. Len(v)
  BY <1>1, <1>3, LenProperties
<1>5. ASSUME NEW j \in 1 .. Len(v) PROVE v[j] \in Slots /\ ~IsCall(v[j])
  <2>1. v[j] = Slot("op", Len(done) + 1, 0, j, set[j])
    BY <1>3, <1>4
  <2>2. v[j] \in Slots
    BY <1>1, ElementOfSeq
  <2> QED BY <2>1, <2>2 DEF Slot, IsCall
<1> QED BY <1>1, <1>5 DEF OfOperation

LEMMA OwnRows ==
  ASSUME TypeOK, Usable, NEW rows \in RowLists
  PROVE  OfOperation(RowValues(rows))
<1> DEFINE s == ValueRows(rows)
<1>1. PICK v \in Seq(Slots) : v = RowValues(rows) /\ v = FlattenSeq(s)
  BY InsertType
<1>2. PICK b, q : Placed(v, s, Len(s), b, q)
  BY <1>1, InsertType DEF SamePlaces
<1>3. ASSUME NEW n \in 1 .. Len(v) PROVE v[n] \in Slots /\ ~IsCall(v[n])
  <2>1. b[n] \in 1 .. Len(s) /\ q[n] \in 1 .. Len(s[b[n]]) /\ v[n] = s[b[n]][q[n]]
    BY <1>2 DEF Placed
  <2>2. PICK x, y \in Old \cup {NewCol} :
          /\ s[b[n]][q[n]] = Slot("op", Len(done) + 1, b[n], q[n], x)
          /\ HoleRows(rows)[b[n]][q[n]] = Slot("op", Len(done) + 1, b[n], q[n], y)
    BY <2>1, RowsType
  <2>3. v[n] \in Slots
    BY <1>1, ElementOfSeq
  <2> QED BY <2>1, <2>2, <2>3 DEF Slot, IsCall
<1> QED BY <1>1, <1>3 DEF OfOperation

LEMMA ExecuteDone ==
  ASSUME TypeOK, NEW op, NEW holes, NEW values, NEW ok, Execute(op, holes, values, ok)
  PROVE  UNCHANGED <<dialect, calls>> /\ done' # <<>> /\ Widths' = Widths
<1>1. UNCHANGED <<dialect, calls>> /\ done' = Append(done, op)
  BY DEF Execute
<1>2. done' # <<>>
  <2>1. Len(done') = Len(done) + 1 /\ Len(done) \in Nat
    BY <1>1, AppendProperties DEF TypeOK
  <2>2. Len(<<>>) = 0
    BY EmptySeq
  <2>3. Len(done') # 0
    BY <2>1
  <2> QED BY <2>2, <2>3
<1> QED BY <1>1, <1>2, WidthsSame

(* Slots of an operation in front of the values or behind them. *)
LEMMA JoinedKeeps ==
  ASSUME TypeOK, Places, UNCHANGED <<dialect, calls>>, done' # <<>>,
         NEW own \in Seq(Slots), OfOperation(own),
         placeHolder' = Joined(placeHolder, own) \/ placeHolder' = Joined(own, placeHolder)
  PROVE  Places'
<1>1. placeHolder \in Seq(Slots)
  BY DEF TypeOK
<1>2. JoinedPlaces(placeHolder, own) /\ JoinedPlaces(own, placeHolder)
  BY <1>1, JoinedSeq
<1>3. PICK l \in Nat, w \in Nat : l = Len(placeHolder) /\ w = Len(own)
  BY <1>2 DEF JoinedPlaces
<1>4. \A n \in 1 .. w : ~IsCall(own[n])
  BY <1>3 DEF OfOperation
<1>5. CASE placeHolder' = Joined(placeHolder, own)
  <2>1. /\ Len(placeHolder') = l + w
        /\ \A n \in 1 .. l : placeHolder'[n] = placeHolder[n]
        /\ \A n \in 1 .. w : placeHolder'[l + n] = own[n]
    BY <1>2, <1>3, <1>5 DEF JoinedPlaces
  <2>2. ASSUME NEW n \in 1 .. l + w, n \notin 0 + 1 .. 0 + l
        PROVE  ~IsCall(placeHolder'[n])
    <3>1. PICK k \in 1 .. w : k = n - l /\ n = l + k
      BY <2>2
    <3> QED BY <1>4, <2>1, <3>1
  <2>3. \A n \in 1 .. l : placeHolder'[0 + n] = placeHolder[n]
    BY <2>1
  <2>4. 0 \in Nat /\ Len(placeHolder') \in Nat /\ 0 + l <= Len(placeHolder')
    BY <2>1
  <2>5. \A n \in 1 .. Len(placeHolder') : n \notin 0 + 1 .. 0 + l => ~IsCall(placeHolder'[n])
    BY <2>1, <2>2
  <2> QED BY <1>3, <2>3, <2>4, <2>5, PlacesKept
<1>6. CASE placeHolder' = Joined(own, placeHolder)
  <2>1. /\ Len(placeHolder') = w + l
        /\ \A n \in 1 .. w : placeHolder'[n] = own[n]
        /\ \A n \in 1 .. l : placeHolder'[w + n] = placeHolder[n]
    BY <1>2, <1>3, <1>6 DEF JoinedPlaces
  <2>2. ASSUME NEW n \in 1 .. w + l, n \notin w + 1 .. w + l
        PROVE  ~IsCall(placeHolder'[n])
    <3>1. n \in 1 .. w
      BY <2>2
    <3> QED BY <1>4, <2>1, <3>1
  <2>3. Len(placeHolder') \in Nat /\ w + l <= Len(placeHolder')
    BY <2>1
  <2>4. \A n \in 1 .. Len(placeHolder') : n \notin w + 1 .. w + l => ~IsCall(placeHolder'[n])
    BY <2>1, <2>2
  <2> QED BY <1>3, <2>1, <2>3, <2>4, PlacesKept
<1> QED BY <1>5, <1>6

LEMMA InitPlaces == Init => Places
<1> SUFFICES ASSUME Init PROVE Places
  OBVIOUS
<1>1. Len(calls) = 0 /\ Len(placeHolder) = 0
  BY EmptySeq DEF Init
<1>2. \A n \in 1 .. 0 : FALSE
  OBVIOUS
<1> QED BY <1>1, <1>2 DEF Places

(* Nothing of the object but statement and done is read or changed. *)
LEMMA IdlePlaces ==
  ASSUME Places, UNCHANGED <<dialect, calls, placeHolder, done>>
  PROVE  Places'
<1>1. Widths' = Widths /\ \A i, k : CallSlot(i, k)' = CallSlot(i, k)
  BY WidthsSame
<1> QED BY <1>1 DEF Places, ValueOf

LEMMA RunClausesPlaces ==
  ASSUME TypeOK, Places, NEW op, RunClauses(op)
  PROVE  Places'
<1>1. /\ placeHolder' = placeHolder /\ UNCHANGED <<dialect, calls>>
      /\ done' # <<>> /\ Widths' = Widths
  BY ExecuteDone DEF RunClauses
<1>2. \A i, k : CallSlot(i, k)' = CallSlot(i, k)
  BY <1>1, WidthsSame
<1> QED BY <1>1, <1>2 DEF Places, ValueOf

LEMMA RunWithIdPlaces ==
  ASSUME TypeOK, Places, NEW op, RunWithId(op)
  PROVE  Places'
<1>1. UNCHANGED <<dialect, calls>> /\ done' # <<>>
  BY ExecuteDone DEF RunWithId
<1>2. PICK id : id = Slot("op", Len(done) + 1, 0, 1, Id)
  OBVIOUS
<1>3. placeHolder' = Append(placeHolder, id) /\ ~IsCall(id)
  BY <1>2 DEF RunWithId, Slot, IsCall
<1>4. id \in Slots
  <2>1. Len(done) + 1 \in 0 .. MaxSteps
    BY ChainType, QueryBuilderAssumption DEF RunWithId, Usable
  <2> QED BY <1>2, <2>1, SlotType DEF Old, Id
<1>5. PICK l \in Nat : l = Len(placeHolder)
  BY ChainType
<1>6. /\ Len(placeHolder') = l + 1
      /\ \A n \in 1 .. l : placeHolder'[n] = placeHolder[n]
      /\ placeHolder'[l + 1] = id
  BY <1>3, <1>4, <1>5, AppendProperties DEF TypeOK
<1>7. \A n \in 1 .. l : placeHolder'[0 + n] = placeHolder[n]
  BY <1>6
<1>8. ASSUME NEW n \in 1 .. Len(placeHolder'), n \notin 0 + 1 .. 0 + l
      PROVE  ~IsCall(placeHolder'[n])
  <2>1. n = l + 1
    BY <1>6, <1>8
  <2> QED BY <1>3, <1>6, <2>1
<1>9. \A n \in 1 .. Len(placeHolder') :
        n \notin 0 + 1 .. 0 + l => ~IsCall(placeHolder'[n])
  BY <1>8
<1>10. Len(placeHolder') \in Nat /\ 0 \in Nat /\ 0 + l <= Len(placeHolder')
  BY <1>6
<1> QED BY <1>1, <1>5, <1>7, <1>9, <1>10, PlacesKept

LEMMA UpdatePlaces ==
  ASSUME TypeOK, Places, NEW set \in SetLists, Update(set)
  PROVE  Places'
<1>1. UNCHANGED <<dialect, calls>> /\ done' # <<>>
  BY ExecuteDone DEF Update
<1>2. placeHolder' = Joined(Assignments(set), placeHolder)
  BY DEF Update, AssignFirst, Joined
<1>3. Assignments(set) \in Seq(Slots) /\ OfOperation(Assignments(set))
  BY AssignmentsType, OwnAssignments DEF Update
<1> QED BY <1>1, <1>2, <1>3, JoinedKeeps

(* insertId of PostgreSQL succeeds only on an object without values: nothing  *)
(* of the chain is lost when it empties placeHolder.                         *)
LEMMA InsertLosesNothing ==
  ASSUME TypeOK, NEW rows \in RowLists, InsertIdOfRows(rows), statement'.accepted,
         dialect = "postgres"
  PROVE  placeHolder = <<>>
<1>1. Usable
  BY DEF InsertIdOfRows
<1>2. statement'.accepted = (Insertable(rows)
        /\ Accepts("insertIds", RowHoles(rows), placeHolder \o RowValues(rows)))
  BY DEF InsertIdOfRows, Execute
<1>3. Len(RowHoles(rows)) = Len(Joined(placeHolder, RowValues(rows)))
  BY <1>2 DEF Accepts, Joined
<1>4. Len(RowHoles(rows)) = Len(RowValues(rows)) /\ RowValues(rows) \in Seq(Slots)
  BY <1>1, InsertType DEF SamePlaces
<1>5. placeHolder \in Seq(Slots)
  BY DEF TypeOK
<1>6. JoinedPlaces(placeHolder, RowValues(rows))
  BY <1>4, <1>5, JoinedSeq
<1>7. Len(placeHolder) = 0
  <2>1. PICK l \in Nat, w \in Nat : l = Len(placeHolder) /\ w = Len(RowValues(rows))
    BY <1>6 DEF JoinedPlaces
  <2>2. Len(Joined(placeHolder, RowValues(rows))) = l + w
    BY <1>6, <2>1 DEF JoinedPlaces
  <2>3. l + w = w
    BY <1>3, <1>4, <2>1, <2>2
  <2> QED BY <2>1, <2>3
<1> QED BY <1>5, <1>7, EmptySeq

LEMMA InsertPlaces ==
  ASSUME TypeOK, Places, NEW rows \in RowLists, Insert(rows) \/ InsertIdOfRows(rows)
  PROVE  Places'
<1>1. UNCHANGED <<dialect, calls>> /\ done' # <<>> /\ Usable /\ Widths' = Widths
  BY ExecuteDone DEF Insert, InsertIdOfRows
<1>2. RowValues(rows) \in Seq(Slots) /\ OfOperation(RowValues(rows))
  BY <1>1, InsertType, OwnRows
<1>3. CASE placeHolder' = placeHolder \o RowValues(rows)
  <2>1. placeHolder' = Joined(placeHolder, RowValues(rows))
    BY <1>3 DEF Joined
  <2> QED BY <1>1, <1>2, <2>1, JoinedKeeps
<1>4. CASE placeHolder' = <<>> /\ InsertIdOfRows(rows) /\ statement'.accepted
  <2>1. Len(placeHolder') = 0 /\ \A n \in 1 .. 0 : FALSE
    BY <1>4, EmptySeq
  <2>2. ASSUME dialect = "postgres", NEW i \in 1 .. Len(calls), NEW k \in 1 .. Widths[i]
        PROVE  FALSE
    <3>1. Len(placeHolder) = 0
      BY <1>4, <2>2, InsertLosesNothing, EmptySeq
    <3>2. PICK n \in 1 .. Len(placeHolder) : placeHolder[n] = CallSlot(i, k)
      BY <2>2 DEF Places
    <3> QED BY <3>1, <3>2
  <2> QED BY <1>1, <2>1, <2>2 DEF Places
<1>5. \/ placeHolder' = placeHolder \o RowValues(rows)
      \/ placeHolder' = <<>> /\ InsertIdOfRows(rows) /\ statement'.accepted
  BY DEF Insert, InsertIdOfRows
<1> QED BY <1>3, <1>4, <1>5

LEMMA PlacesStep == TypeOK /\ Places /\ [Next]_vars => Places'
<1> SUFFICES ASSUME TypeOK, Places, [Next]_vars PROVE Places'
  OBVIOUS
<1>1. ASSUME NEW c \in Calls, AddClause(c) PROVE Places'
  BY <1>1, AddClausePlaces
<1>2. ASSUME NEW op, RunClauses(op) PROVE Places'
  BY <1>2, RunClausesPlaces
<1>3. ASSUME NEW op, RunWithId(op) PROVE Places'
  BY <1>3, RunWithIdPlaces
<1>4. ASSUME NEW set \in SetLists, Update(set) PROVE Places'
  BY <1>4, UpdatePlaces
<1>5. ASSUME NEW rows \in RowLists, Insert(rows) \/ InsertIdOfRows(rows) PROVE Places'
  BY <1>5, InsertPlaces
<1>6. CASE AddColumn
  BY <1>6, IdlePlaces DEF AddColumn
<1>7. CASE OtherWrite
  BY <1>7, IdlePlaces DEF OtherWrite
<1>8. CASE Dropped
  BY <1>8, IdlePlaces DEF Dropped, vars
<1>9. CASE UNCHANGED vars
  BY <1>9, IdlePlaces DEF vars
<1> QED BY <1>1, <1>2, <1>3, <1>4, <1>5, <1>6, <1>7, <1>8, <1>9 DEF Next

-----------------------------------------------------------------------------
(* What an operation binds *)

(* A statement with clauses puts slots of its own in front of the holes and    *)
(* the values of the chain, or behind both.                                  *)
Around(op, holes, values) ==
  \/ holes = ClauseHoles(op) /\ values = placeHolder
  \/ \E own \in Seq(Slots) : \/ /\ holes = Joined(own, ClauseHoles(op))
                                /\ values = Joined(own, placeHolder)
                             \/ /\ holes = Joined(ClauseHoles(op), own)
                                /\ values = Joined(placeHolder, own)

Inserts == {"insert", "insertIds"}

ClauseStep ==
  \E op, holes, values, ok :
    op \in Ops \ Inserts /\ Execute(op, holes, values, ok) /\ Around(op, holes, values)

InsertStep ==
  \E rows, op, ok :
    /\ rows \in RowLists /\ op \in Inserts /\ Usable
    /\ Execute(op, RowHoles(rows), Joined(placeHolder, RowValues(rows)), ok)

LEMMA RunWithIdShape ==
  ASSUME TypeOK, NEW op \in {"find", "deleteId"}, RunWithId(op)
  PROVE  ClauseStep
<1>1. PICK id : id = Slot("op", Len(done) + 1, 0, 1, Id)
  OBVIOUS
<1>2. Execute(op, Append(ClauseHoles(op), id), Append(placeHolder, id), TRUE)
  BY <1>1 DEF RunWithId
<1>3. id \in Slots
  <2>1. Len(done) + 1 \in 0 .. MaxSteps
    BY ChainType, QueryBuilderAssumption DEF RunWithId, Usable
  <2> QED BY <1>1, <2>1, SlotType DEF Old, Id
<1>4. <<id>> \in Seq(Slots)
  BY <1>3
<1>5. ClauseHoles(op) \in Seq(Slots) /\ placeHolder \in Seq(Slots)
  BY ClauseHolesType DEF TypeOK
<1>6. /\ Append(ClauseHoles(op), id) = Joined(ClauseHoles(op), <<id>>)
      /\ Append(placeHolder, id) = Joined(placeHolder, <<id>>)
  BY <1>3, <1>5, AppendIsConcat DEF Joined
<1>7. Around(op, Append(ClauseHoles(op), id), Append(placeHolder, id))
  BY <1>4, <1>6 DEF Around
<1>8. op \in Ops \ Inserts
  BY DEF Ops, Inserts
<1> QED BY <1>2, <1>7, <1>8 DEF ClauseStep

LEMMA OperationShape ==
  ASSUME TypeOK, Next
  PROVE  (\E c \in Calls : AddClause(c)) \/ ClauseStep \/ InsertStep \/ Idle
<1>1. ASSUME NEW op \in {"get", "aggregate", "delete"}, RunClauses(op) PROVE ClauseStep
  <2>1. Execute(op, ClauseHoles(op), placeHolder, TRUE)
    BY <1>1 DEF RunClauses
  <2>2. Around(op, ClauseHoles(op), placeHolder) /\ op \in Ops \ Inserts
    BY DEF Around, Ops, Inserts
  <2> QED BY <2>1, <2>2 DEF ClauseStep
<1>2. ASSUME NEW op \in {"find", "deleteId"}, RunWithId(op) PROVE ClauseStep
  BY <1>2, RunWithIdShape
<1>3. ASSUME NEW set \in SetLists, Update(set) PROVE ClauseStep
  <2> DEFINE holes  == Joined(Assignments(set), ClauseHoles("update"))
             values == Joined(Assignments(set), placeHolder)
  <2>1. Execute("update", holes, values, ToSet(set) \subseteq columns)
    BY <1>3 DEF Update, AssignFirst, Joined
  <2>2. Assignments(set) \in Seq(Slots)
    BY <1>3, AssignmentsType DEF Update
  <2>3. Around("update", holes, values)
    BY <2>2 DEF Around
  <2>4. "update" \in Ops \ Inserts
    BY DEF Ops, Inserts
  <2> HIDE DEF holes, values
  <2> QED BY <2>1, <2>3, <2>4 DEF ClauseStep
<1>4. ASSUME NEW rows \in RowLists, Insert(rows) \/ InsertIdOfRows(rows) PROVE InsertStep
  <2>1. PICK op \in Inserts :
          /\ Execute(op, RowHoles(rows), Joined(placeHolder, RowValues(rows)), Insertable(rows))
          /\ Usable
    BY <1>4 DEF Insert, InsertIdOfRows, Inserts, Joined
  <2> QED BY <2>1 DEF InsertStep
<1>5. CASE AddColumn
  BY <1>5 DEF AddColumn, Idle
<1>6. CASE OtherWrite
  BY <1>6 DEF OtherWrite, Idle
<1>7. CASE Dropped
  BY <1>7 DEF Dropped, vars, Idle
<1> QED BY <1>1, <1>2, <1>3, <1>4, <1>5, <1>6, <1>7 DEF Next

(* Own slots on one side change nothing of how holes and values compare.     *)
LEMMA AroundCompares ==
  ASSUME TypeOK, NEW op, NEW holes, NEW values, Around(op, holes, values)
  PROVE  /\ Len(holes) = Len(values) => Len(ClauseHoles(op)) = Len(placeHolder)
         /\ ClauseHoles(op) = placeHolder => holes = values
         /\ Len(holes) \in Nat
<1>1. PICK ch \in Seq(Slots) : ch = ClauseHoles(op)
  BY ClauseHolesType
<1>2. PICK ph \in Seq(Slots) : ph = placeHolder
  BY DEF TypeOK
<1>3. Len(ch) \in Nat /\ Len(ph) \in Nat
  BY LenProperties
<1>4. CASE holes = ch /\ values = ph
  BY <1>1, <1>2, <1>3, <1>4
<1>5. ASSUME NEW own \in Seq(Slots),
             \/ holes = Joined(own, ch) /\ values = Joined(own, ph)
             \/ holes = Joined(ch, own) /\ values = Joined(ph, own)
      PROVE  /\ Len(holes) = Len(values) => Len(ch) = Len(ph)
             /\ ch = ph => holes = values
             /\ Len(holes) \in Nat
  <2>1. /\ JoinedPlaces(own, ch) /\ JoinedPlaces(own, ph)
        /\ JoinedPlaces(ch, own) /\ JoinedPlaces(ph, own)
    BY JoinedSeq
  <2>2. PICK o \in Nat : o = Len(own)
    BY LenProperties
  <2>3. Len(holes) = o + Len(ch) /\ Len(values) = o + Len(ph)
    <3>1. /\ Len(Joined(own, ch)) = o + Len(ch) /\ Len(Joined(own, ph)) = o + Len(ph)
          /\ Len(Joined(ch, own)) = Len(ch) + o /\ Len(Joined(ph, own)) = Len(ph) + o
      BY <2>1, <2>2 DEF JoinedPlaces
    <3> QED BY <1>3, <1>5, <3>1
  <2>4. ch = ph => holes = values
    BY <1>5
  <2> QED BY <1>3, <2>3, <2>4
<1> QED BY <1>1, <1>2, <1>4, <1>5 DEF Around

(* Every "?" of the clauses is meant for a value the chain has appended. *)
LEMMA HolesHaveValues ==
  ASSUME TypeOK, Places, NEW op, ClausePlaces(op), done = <<>> \/ dialect = "postgres",
         \A i \in 1 .. Len(calls) : HoleCount(calls[i]) = ValueCount(calls[i])
  PROVE  \A a \in 1 .. Len(ClauseHoles(op)) :
           /\ \E b \in 1 .. Len(placeHolder) : placeHolder[b] = ClauseHoles(op)[a]
           /\ IsCall(ClauseHoles(op)[a])
<1> SUFFICES ASSUME NEW a \in 1 .. Len(ClauseHoles(op))
             PROVE  /\ \E b \in 1 .. Len(placeHolder) : placeHolder[b] = ClauseHoles(op)[a]
                    /\ IsCall(ClauseHoles(op)[a])
  OBVIOUS
<1>1. HoleOf(ClauseHoles(op)[a], ToSet(Sections(op)))
  BY DEF ClausePlaces
<1>2. PICK i \in 1 .. Len(calls) :
        \E k \in 1 .. HoleCount(calls[i]) : ClauseHoles(op)[a] = CallSlot(i, k)
  BY <1>1 DEF HoleOf
<1>3. PICK k \in 1 .. HoleCount(calls[i]) : ClauseHoles(op)[a] = CallSlot(i, k)
  BY <1>2
<1>4. k \in 1 .. Widths[i]
  BY DEF Widths
<1>5. \E b \in 1 .. Len(placeHolder) : placeHolder[b] = CallSlot(i, k)
  BY <1>4 DEF Places
<1> QED BY <1>3, <1>5, CallSlotFields DEF IsCall

(* The values of the chain are those the clauses ask for, in their order.    *)
LEMMA ClausesBound ==
  ASSUME TypeOK, Places, NEW op, ClausePlaces(op), InBuilderOrder,
         \A i \in 1 .. Len(calls) : HoleCount(calls[i]) = ValueCount(calls[i]),
         \/ dialect = "postgres" /\ Len(ClauseHoles(op)) = Len(placeHolder)
         \/ done = <<>> /\ \A i \in Valued : KeyOf(i) \in ToSet(Sections(op))
  PROVE  ClauseHoles(op) = placeHolder
<1>1. PICK ch \in Seq(Slots) : ch = ClauseHoles(op)
  BY ClauseHolesType
<1>2. PICK ph \in Seq(Slots) : ph = placeHolder
  BY DEF TypeOK
<1>3. \A a, b \in 1 .. Len(ch) : a < b => Before(ch[a], ch[b])
  BY <1>1, HolesOrdered
<1>4. /\ \A a \in 1 .. Len(ch) : ch[a].owner[1] = "call"
      /\ \A a \in 1 .. Len(ch) : \E b \in 1 .. Len(ph) : ph[b] = ch[a]
  BY <1>1, <1>2, HolesHaveValues DEF IsCall
<1>5. \A a, b \in 1 .. Len(ph) :
        a < b /\ ph[a].owner[1] = "call" /\ ph[b].owner[1] = "call" => Before(ph[a], ph[b])
  BY <1>2 DEF Places, IsCall
<1>6. ASSUME done = <<>>, \A i \in Valued : KeyOf(i) \in ToSet(Sections(op)),
             NEW b \in 1 .. Len(ph)
      PROVE  \E a \in 1 .. Len(ch) : ch[a] = ph[b]
  <2>1. ValueOf(ph[b], Len(calls), Widths)
    BY <1>2, <1>6 DEF Places
  <2>2. PICK i \in 1 .. Len(calls) : \E k \in 1 .. Widths[i] : ph[b] = CallSlot(i, k)
    BY <2>1 DEF ValueOf
  <2>3. PICK k \in 1 .. Widths[i] : ph[b] = CallSlot(i, k)
    BY <2>2
  <2>4. k \in 1 .. ValueCount(calls[i]) /\ ValueCount(calls[i]) \in Nat
    BY ChainType, Counts DEF Widths
  <2>5. i \in Valued
    BY <2>4 DEF Valued
  <2>6. i \in Written(op) /\ k \in 1 .. HoleCount(calls[i])
    BY <1>6, <2>4, <2>5 DEF Written
  <2> QED BY <1>1, <2>3, <2>6 DEF ClausePlaces
<1>7. Len(ch) = Len(ph) \/ \A b \in 1 .. Len(ph) : \E a \in 1 .. Len(ch) : ch[a] = ph[b]
  BY <1>1, <1>2, <1>6
<1>8. ch = ph
  BY <1>3, <1>4, <1>5, <1>7, SameSequence
<1> QED BY <1>1, <1>2, <1>8

(* What BoundWhereMeant assumes of a statement, read before it is executed.  *)
LEMMA Assumed ==
  ASSUME TypeOK, NEW op \in Ops, NEW holes, NEW values, NEW ok,
         Execute(op, holes, values, ok), statement'.accepted, InBuilderOrder',
         ~Called({"orWhereNil", "havingNil"})', dialect' = "sqlite" => UsedOnce'
  PROVE  /\ Accepts(op, holes, values)
         /\ InBuilderOrder
         /\ \A i \in 1 .. Len(calls) : HoleCount(calls[i]) = ValueCount(calls[i])
         /\ \/ dialect = "postgres" /\ Len(holes) = Len(values) /\ ~Glued(op)
            \/ /\ dialect = "sqlite" /\ done = <<>>
               /\ \A i \in Valued : KeyOf(i) \in ToSet(Sections(op))
<1>1. UNCHANGED <<dialect, calls>> /\ done' = Append(done, op)
  BY DEF Execute
<1>2. Accepts(op, holes, values)
  BY DEF Execute
<1>3. Valued' = Valued /\ \A i : KeyOf(i)' = KeyOf(i)
  BY <1>1 DEF Valued, ValueCount, Inlines, KeyOf, Key
<1>4. InBuilderOrder
  BY <1>3 DEF InBuilderOrder
<1>5. ASSUME NEW i \in 1 .. Len(calls) PROVE HoleCount(calls[i]) = ValueCount(calls[i])
  <2>1. calls[i].method \notin {"orWhereNil", "havingNil"}
    BY <1>1 DEF Called
  <2> QED BY <2>1, ChainType, Counts
<1>6. ASSUME dialect = "sqlite"
      PROVE  done = <<>> /\ \A i \in Valued : KeyOf(i) \in ToSet(Sections(op))
  <2>1. UsedOnce'
    BY <1>1, <1>6
  <2>2. /\ Len(done') = 1 /\ \A i \in Valued : KeyOf(i) \in ToSet(Sections(done'[1]))
    BY <1>1, <1>3, <2>1 DEF UsedOnce
  <2>3. done \in Seq(Ops) /\ op \in Ops
    <3>1. done \in Seq(Ops)
      BY DEF TypeOK
    <3> QED BY <3>1
  <2>4. Len(done') = Len(done) + 1 /\ done'[Len(done) + 1] = op /\ Len(done) \in Nat
    BY <1>1, <2>3, AppendProperties
  <2>5. Len(done) = 0 /\ done'[1] = op
    <3>1. PICK l \in Nat : l = Len(done)
      BY <2>4
    <3>2. l + 1 = 1
      BY <2>2, <2>4, <3>1, Zenon
    <3>3. l = 0
      BY <3>2
    <3> QED BY <2>4, <3>1, <3>2, <3>3, Zenon
  <2>6. done = <<>>
    BY <2>3, <2>5, EmptySeq
  <2> QED BY <2>2, <2>5, <2>6
<1>7. dialect \in {"postgres", "sqlite"}
  <2>1. Dialects \subseteq {"postgres", "sqlite"}
    BY QueryBuilderAssumption, Zenon
  <2> QED BY <2>1 DEF TypeOK
<1>8. dialect = "postgres" => Len(holes) = Len(values) /\ ~Glued(op)
  BY <1>2 DEF Accepts
<1> QED BY <1>2, <1>4, <1>5, <1>6, <1>7, <1>8

Bound(holes, values) ==
  /\ Len(holes) <= Len(values)
  /\ \A n \in 1 .. Len(holes) : values[n] = holes[n]

LEMMA ClauseStepBound ==
  ASSUME TypeOK, Places, ClauseStep,
         statement'.accepted, InBuilderOrder', ~Called({"orWhereNil", "havingNil"})',
         dialect' = "sqlite" => UsedOnce'
  PROVE  Bound(statement'.holes, statement'.values)
<1>1. PICK op, holes, values, ok :
        op \in Ops \ Inserts /\ Execute(op, holes, values, ok) /\ Around(op, holes, values)
  BY DEF ClauseStep
<1>2. statement'.holes = holes /\ statement'.values = values
  BY <1>1 DEF Execute
<1>3. /\ InBuilderOrder
      /\ \A i \in 1 .. Len(calls) : HoleCount(calls[i]) = ValueCount(calls[i])
      /\ \/ dialect = "postgres" /\ Len(holes) = Len(values) /\ ~Glued(op)
         \/ /\ dialect = "sqlite" /\ done = <<>>
            /\ \A i \in Valued : KeyOf(i) \in ToSet(Sections(op))
  BY <1>1, Assumed
<1>4. ClausePlaces(op)
  BY <1>3, CleanStatement, ClausesInPlace
<1>5. ClauseHoles(op) = placeHolder
  BY <1>1, <1>3, <1>4, AroundCompares, ClausesBound
<1>6. holes = values /\ Len(holes) \in Nat
  BY <1>1, <1>5, AroundCompares
<1> QED BY <1>2, <1>6 DEF Bound

LEMMA InsertStepBound ==
  ASSUME TypeOK, Places, InsertStep, RowsAlike',
         statement'.accepted, InBuilderOrder', ~Called({"orWhereNil", "havingNil"})',
         dialect' = "sqlite" => UsedOnce'
  PROVE  Bound(statement'.holes, statement'.values)
<1>1. PICK rows, op, ok :
        /\ rows \in RowLists /\ op \in Inserts /\ Usable
        /\ Execute(op, RowHoles(rows), Joined(placeHolder, RowValues(rows)), ok)
  BY DEF InsertStep
<1> DEFINE hs == RowHoles(rows)
           vs == RowValues(rows)
           d  == Len(done) + 1
<1>2. /\ vs \in Seq(Slots) /\ hs \in Seq(Slots)
      /\ SamePlaces(ValueRows(rows), HoleRows(rows))
      /\ vs = FlattenSeq(ValueRows(rows)) /\ hs = FlattenSeq(HoleRows(rows))
  BY <1>1, InsertType
<1>3. PICK b, p : /\ Placed(vs, ValueRows(rows), Len(ValueRows(rows)), b, p)
                  /\ Placed(hs, HoleRows(rows), Len(HoleRows(rows)), b, p)
  BY <1>2 DEF SamePlaces
<1>4. PICK l \in Nat : l = Len(vs) /\ l = Len(hs)
  BY <1>2, LenProperties DEF SamePlaces
<1>5. ASSUME NEW n \in 1 .. l
      PROVE  \E i, k : \E x, y \in Old \cup {NewCol} :
               vs[n] = Slot("op", d, i, k, x) /\ hs[n] = Slot("op", d, i, k, y)
  <2>1. /\ b[n] \in 1 .. Len(ValueRows(rows)) /\ p[n] \in 1 .. Len(ValueRows(rows)[b[n]])
        /\ vs[n] = ValueRows(rows)[b[n]][p[n]]
    BY <1>3, <1>4 DEF Placed
  <2>2. hs[n] = HoleRows(rows)[b[n]][p[n]]
    BY <1>3, <1>4 DEF Placed
  <2>3. \E x, y \in Old \cup {NewCol} :
          /\ ValueRows(rows)[b[n]][p[n]] = Slot("op", d, b[n], p[n], x)
          /\ HoleRows(rows)[b[n]][p[n]] = Slot("op", d, b[n], p[n], y)
    BY <1>1, <2>1, RowsType
  <2> QED BY <2>1, <2>2, <2>3
<1> HIDE DEF hs, vs, d
<1>6. /\ statement'.op = op /\ statement'.holes = hs
      /\ statement'.values = Joined(placeHolder, vs)
  BY <1>1 DEF Execute, hs, vs
<1>7. \/ dialect = "postgres" /\ Len(hs) = Len(Joined(placeHolder, vs))
      \/ done = <<>> /\ \A i \in Valued : KeyOf(i) \in ToSet(Sections(op))
  BY <1>1, Assumed DEF hs, vs, Inserts, Ops
<1>8. placeHolder \in Seq(Slots) /\ JoinedPlaces(placeHolder, vs)
  BY <1>2, JoinedSeq DEF TypeOK
<1>9. PICK h \in Nat : h = Len(placeHolder) /\ Len(Joined(placeHolder, vs)) = h + l
  BY <1>4, <1>8 DEF JoinedPlaces
<1>10. h = 0
  <2>1. CASE Len(hs) = Len(Joined(placeHolder, vs))
    BY <1>4, <1>9, <2>1
  <2>2. ASSUME done = <<>>, \A i \in Valued : KeyOf(i) \in ToSet(Sections(op)), h # 0
        PROVE  FALSE
    <3>1. ToSet(Sections(op)) = {}
      <4>1. Sections(op) = <<>>
        BY <1>1 DEF Sections, Inserts
      <4> QED BY <4>1, SectionsAhead
    <3>2. 1 \in 1 .. Len(placeHolder)
      BY <1>9, <2>2
    <3>3. ValueOf(placeHolder[1], Len(calls), Widths)
      BY <2>2, <3>2 DEF Places
    <3>4. PICK i \in 1 .. Len(calls) : \E k \in 1 .. Widths[i] : TRUE
      BY <3>3 DEF ValueOf
    <3>5. Widths[i] = ValueCount(calls[i]) /\ ValueCount(calls[i]) \in Nat
      BY ChainType, Counts DEF Widths
    <3>6. i \in Valued
      BY <3>4, <3>5 DEF Valued
    <3> QED BY <2>2, <3>1, <3>6
  <2> QED BY <1>7, <2>1, <2>2
<1>11. \A n \in 1 .. l : Joined(placeHolder, vs)[n] = vs[n]
  <2>1. \A n \in 1 .. l : Joined(placeHolder, vs)[h + n] = vs[n]
    BY <1>4, <1>8, <1>9 DEF JoinedPlaces
  <2> QED BY <1>10, <2>1
<1>12. ASSUME NEW n \in 1 .. l PROVE Joined(placeHolder, vs)[n] = hs[n]
  <2>1. PICK i, k : \E x, y \in Old \cup {NewCol} :
          vs[n] = Slot("op", d, i, k, x) /\ hs[n] = Slot("op", d, i, k, y)
    BY <1>5
  <2>2. PICK x \in Old \cup {NewCol}, y \in Old \cup {NewCol} :
          vs[n] = Slot("op", d, i, k, x) /\ hs[n] = Slot("op", d, i, k, y)
    BY <2>1
  <2>3. vs[n].owner = hs[n].owner /\ vs[n].column = x /\ hs[n].column = y
    BY <2>2 DEF Slot
  <2>4. n <= Len(statement'.values) /\ statement'.values[n].owner = statement'.holes[n].owner
    BY <1>6, <1>9, <1>10, <1>11, <2>3
  <2>5. statement'.values[n].column = statement'.holes[n].column
    BY <1>1, <1>4, <1>6, <2>4 DEF RowsAlike, Inserts
  <2>6. x = y
    BY <1>6, <1>11, <2>3, <2>5
  <2> QED BY <1>11, <2>2, <2>6
<1>13. Len(hs) = l /\ Len(Joined(placeHolder, vs)) = l
  BY <1>4, <1>9, <1>10
<1> QED BY <1>6, <1>12, <1>13 DEF Bound

LEMMA BoundStep ==
  TypeOK /\ Places /\ BoundWhereMeant /\ [Next]_vars => BoundWhereMeant'
<1> SUFFICES ASSUME TypeOK, Places, BoundWhereMeant, [Next]_vars PROVE BoundWhereMeant'
  OBVIOUS
<1>1. ASSUME NEW c \in Calls, AddClause(c) PROVE BoundWhereMeant'
  <2>1. ~statement'.accepted
    BY <1>1 DEF AddClause, NoStatement
  <2> QED BY <2>1 DEF BoundWhereMeant
<1>2. ASSUME ClauseStep \/ InsertStep PROVE BoundWhereMeant'
  <2> SUFFICES ASSUME statement'.accepted, InBuilderOrder', RowsAlike',
                      ~Called({"orWhereNil", "havingNil"})', dialect' = "sqlite" => UsedOnce'
               PROVE  Bound(statement'.holes, statement'.values)
    BY DEF BoundWhereMeant, Bound
  <2> QED BY <1>2, ClauseStepBound, InsertStepBound
<1>3. ASSUME UNCHANGED <<dialect, calls, placeHolder, done, statement>> PROVE BoundWhereMeant'
  <2>1. Valued' = Valued /\ \A i : KeyOf(i)' = KeyOf(i)
    BY <1>3 DEF Valued, ValueCount, Inlines, KeyOf, Key
  <2>2. InBuilderOrder' => InBuilderOrder
    BY <2>1 DEF InBuilderOrder
  <2>3. UsedOnce' => UsedOnce
    BY <1>3, <2>1 DEF UsedOnce
  <2>4. RowsAlike' => RowsAlike
    BY <1>3 DEF RowsAlike
  <2>5. ~Called({"orWhereNil", "havingNil"})' => ~Called({"orWhereNil", "havingNil"})
    BY <1>3 DEF Called
  <2> QED BY <1>3, <2>2, <2>3, <2>4, <2>5 DEF BoundWhereMeant
<1>4. CASE Next
  BY <1>1, <1>2, <1>3, <1>4, OperationShape DEF Idle
<1>5. CASE UNCHANGED vars
  BY <1>3, <1>5 DEF vars
<1> QED BY <1>4, <1>5

(* The k-th value is bound to the k-th "?", and it is the value the "?" was    *)
(* written for: in an accepted statement of a chain in the order of the        *)
(* builders, for any clauses, any numbers of values in lists and any rows and   *)
(* columns of insert and update, on PostgreSQL however often the object was     *)
(* used before.                                                              *)
THEOREM ValuesMeetHoles == Spec => []BoundWhereMeant
<1>1. Init => BoundWhereMeant
  BY DEF Init, NoStatement, BoundWhereMeant
<1>2. Spec => []TypeOK
  BY BuilderTypeCorrect
<1> QED BY <1>1, <1>2, InitPlaces, PlacesStep, BoundStep, PTL DEF Spec

-----------------------------------------------------------------------------
(* Which conditions an operation applies *)

(* A call with a value whose value is asked for has its clause written.      *)
LEMMA ClauseStepApplies ==
  ASSUME TypeOK, Places, ClauseStep, statement'.accepted, dialect = "postgres",
         \A i \in 1 .. Len(calls) : calls[i].method \notin Nils
  PROVE  statement'.clauses = 1 .. Len(calls)
<1>1. PICK op, holes, values, ok :
        op \in Ops \ Inserts /\ Execute(op, holes, values, ok) /\ Around(op, holes, values)
  BY DEF ClauseStep
<1>2. statement'.clauses = Exact(op) /\ Len(holes) = Len(values) /\ ~Glued(op)
  BY <1>1 DEF Execute, Accepts
<1>3. PICK ch \in Seq(Slots) : ch = ClauseHoles(op)
  BY ClauseHolesType
<1>4. PICK ph \in Seq(Slots) : ph = placeHolder
  BY DEF TypeOK
<1>5. Len(ch) = Len(ph)
  BY <1>1, <1>2, <1>3, <1>4, AroundCompares
<1>6. ClausePlaces(op)
  BY <1>2, CleanStatement, ClausesInPlace
<1>7. ASSUME NEW i \in 1 .. Len(calls)
      PROVE  HoleCount(calls[i]) = ValueCount(calls[i]) /\ 1 \in 1 .. Widths[i]
  <2>1. calls[i].method \notin {"orWhereNil", "havingNil"}
    BY DEF Nils
  <2>2. /\ ValueCount(calls[i]) \in Nat /\ ValueCount(calls[i]) > 0
        /\ HoleCount(calls[i]) = ValueCount(calls[i])
    BY <2>1, ChainType, Counts
  <2>3. Widths[i] = ValueCount(calls[i])
    BY DEF Widths
  <2> QED BY <2>2, <2>3
<1>8. \A a \in 1 .. Len(ch) : \E b \in 1 .. Len(ph) : ph[b] = ch[a]
  BY <1>3, <1>4, <1>6, <1>7, HolesHaveValues
<1>9. \A a, b \in 1 .. Len(ch) : a # b => ch[a] # ch[b]
  BY <1>3, <1>6, HolesDiffer
<1>10. \A b \in 1 .. Len(ph) : \E a \in 1 .. Len(ch) : ch[a] = ph[b]
  BY <1>5, <1>8, <1>9, NothingElse
<1>11. ASSUME NEW i \in 1 .. Len(calls) PROVE i \in Written(op)
  <2>1. PICK b \in 1 .. Len(ph) : ph[b] = CallSlot(i, 1)
    BY <1>4, <1>7 DEF Places
  <2>2. PICK a \in 1 .. Len(ch) : ch[a] = CallSlot(i, 1)
    BY <1>10, <2>1
  <2>3. HoleOf(ch[a], ToSet(Sections(op)))
    BY <1>3, <1>6 DEF ClausePlaces
  <2>4. ch[a].owner[2] = i
    BY <2>2, CallSlotFields
  <2> QED BY <2>3, <2>4 DEF HoleOf, Written
<1>12. \A i \in 1 .. Len(calls) : i \in Exact(op)
  BY <1>2, <1>11 DEF Exact, Glued
<1> QED BY <1>2, <1>12 DEF Exact, Written

LEMMA AppliedStep ==
  TypeOK /\ Places /\ EveryConditionApplied /\ [Next]_vars => EveryConditionApplied'
<1> SUFFICES ASSUME TypeOK, Places, EveryConditionApplied, [Next]_vars
             PROVE  EveryConditionApplied'
  OBVIOUS
<1>1. ASSUME NEW c \in Calls, AddClause(c) PROVE EveryConditionApplied'
  BY <1>1 DEF AddClause, NoStatement, EveryConditionApplied
<1>2. ASSUME ClauseStep PROVE EveryConditionApplied'
  <2>1. UNCHANGED <<dialect, calls>>
    BY <1>2 DEF ClauseStep, Execute
  <2> SUFFICES ASSUME statement'.accepted, dialect' = "postgres", ~Called(Nils)'
               PROVE  statement'.clauses = 1 .. Len(calls')
    BY DEF EveryConditionApplied
  <2>2. \A i \in 1 .. Len(calls) : calls[i].method \notin Nils
    BY <2>1 DEF Called
  <2> QED BY <1>2, <2>1, <2>2, ClauseStepApplies
<1>3. ASSUME InsertStep PROVE EveryConditionApplied'
  BY <1>3 DEF InsertStep, Execute, Inserts, EveryConditionApplied
<1>4. ASSUME UNCHANGED <<dialect, calls, placeHolder, done, statement>>
      PROVE  EveryConditionApplied'
  BY <1>4 DEF EveryConditionApplied, Called
<1>5. CASE Next
  BY <1>1, <1>2, <1>3, <1>4, <1>5, OperationShape DEF Idle
<1>6. CASE UNCHANGED vars
  BY <1>4, <1>6 DEF vars
<1> QED BY <1>5, <1>6

(* PostgreSQL counts the values: a statement it accepts has the condition of   *)
(* every call of the chain with a value, written as the call meant it.  A       *)
(* condition that the builder of the operation leaves out, a list glued to      *)
(* another one or a value left over from an earlier operation makes the count   *)
(* wrong, for any number of calls and however long the lists are.            *)
THEOREM NoConditionLost == Spec => []EveryConditionApplied
<1>1. Init => EveryConditionApplied
  BY DEF Init, NoStatement, EveryConditionApplied
<1>2. Spec => []TypeOK
  BY BuilderTypeCorrect
<1> QED BY <1>1, <1>2, InitPlaces, PlacesStep, AppliedStep, PTL DEF Spec
=============================================================================
