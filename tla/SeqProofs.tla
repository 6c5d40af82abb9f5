----------------------------- MODULE SeqProofs -----------------------------
(***************************************************************************)
(* Facts about numbers and sequences that several proofs need.  The        *)
(* provers have no induction; a set of natural numbers has a least element *)
(* (LeastOf), and with it a statement about every number, every length or  *)
(* every turn of a loop is one about a set.                                *)
(***************************************************************************)
EXTENDS Loop, SequenceTheorems, FiniteSetTheorems, TLAPS

-----------------------------------------------------------------------------
(* Induction *)

\* A set of natural numbers has a least element.
LEMMA LeastOf ==
    ASSUME NEW T \in SUBSET Nat, T # {}
    PROVE  \E x \in T : \A y \in T : x <= y
<1>. DEFINE R == {ss \in Nat \X Nat : ss[1] < ss[2]}
<1>1. IsWellFoundedOn(R, Nat)
  BY NatLessThanWellFounded, Zenon DEF OpToRel
<1>2. PICK x \in T : \A y \in T : ~(<<y, x>> \in R)
  BY <1>1, WFMin, Zenon
<1>3. ASSUME NEW y \in T PROVE x <= y
  <2>1. ~(<<y, x>> \in R) /\ x \in Nat /\ y \in Nat
    BY <1>2
  <2>2. ~(y < x)
    BY <2>1
  <2>. QED  BY <2>1, <2>2
<1>. QED  BY <1>3

\* Induction, for a set of natural numbers.
LEMMA EveryNat ==
    ASSUME NEW T, 0 \in T, \A n \in Nat : n \in T => n + 1 \in T
    PROVE  \A n \in Nat : n \in T
<1>. SUFFICES ASSUME Nat \ T # {} PROVE FALSE
  OBVIOUS
<1>1. PICK x \in Nat \ T : \A y \in Nat \ T : x <= y
  BY LeastOf
<1>2. x - 1 \in Nat /\ x - 1 \notin T
  BY <1>1
<1>. QED  BY <1>1, <1>2

\* f holds the states of a loop that starts with a and whose turn n makes
\* F[n][x] of x.
IsRun(f, F, a, m, D) ==
    f \in [0 .. m -> D] /\ f[0] = a /\ \A n \in 1 .. m : f[n] = F[n][f[n - 1]]

\* A loop can be run for any number of turns.
LEMMA Turns ==
    ASSUME NEW D, NEW F, F \in [Nat -> [D -> D]], NEW a, a \in D, NEW m, m \in Nat
    PROVE  \E f : IsRun(f, F, a, m, D)
<1>. DEFINE Runs(f, k) == f[0] = a /\ \A n \in 1 .. k : f[n] = F[n][f[n - 1]]
            T == {k \in Nat : \E f \in [0 .. k -> D] : Runs(f, k)}
<1>1. 0 \in T
  <2>1. [k \in 0 .. 0 |-> a] \in [0 .. 0 -> D] /\ Runs([k \in 0 .. 0 |-> a], 0)
    OBVIOUS
  <2>. QED  BY <2>1
<1>2. ASSUME NEW k \in Nat, k \in T PROVE k + 1 \in T
  <2>1. PICK f \in [0 .. k -> D] : Runs(f, k)
    BY <1>2
  <2>. DEFINE h == [n \in 0 .. k + 1 |-> IF n = k + 1 THEN F[k + 1][f[k]] ELSE f[n]]
  <2>2. F[k + 1][f[k]] \in D
    BY <2>1
  <2>3. h \in [0 .. k + 1 -> D]
    BY <2>1, <2>2
  <2>4. \A n \in 1 .. k + 1 : h[n] = F[n][h[n - 1]]
    <3>1. ASSUME NEW n \in 1 .. k PROVE h[n] = F[n][h[n - 1]]
      <4>1. h[n] = f[n] /\ h[n - 1] = f[n - 1]
        OBVIOUS
      <4>. QED  BY <2>1, <4>1
    <3>2. h[k + 1] = F[k + 1][f[k]] /\ h[k] = f[k] /\ (k + 1) - 1 = k
      OBVIOUS
    <3>3. \A n \in 1 .. k + 1 : n \in 1 .. k \/ n = k + 1
      OBVIOUS
    <3>. HIDE DEF h
    <3>. QED  BY <3>1, <3>2, <3>3
  <2>5. h[0] = a
    BY <2>1
  <2>. HIDE DEF h
  <2>. QED  BY <2>3, <2>4, <2>5
<1>. HIDE DEF T
<1>3. m \in T
  BY <1>1, <1>2, EveryNat
<1>. QED  BY <1>3, Zenon DEF T, IsRun

\* Min() of two numbers.
LEMMA MinTwo ==
    ASSUME NEW a \in Int, NEW b \in Int
    PROVE  Min({a, b}) = IF a <= b THEN a ELSE b
<1>. DEFINE Least(x) == x \in {a, b} /\ \A y \in {a, b} : x <= y
            m == CHOOSE x : Least(x)
<1>1. Min({a, b}) = CHOOSE x \in {a, b} : \A y \in {a, b} : x <= y
  BY DEF Min
<1>2. Least(IF a <= b THEN a ELSE b)
  OBVIOUS
<1>3. \E x \in {a, b} : \A y \in {a, b} : x <= y
  BY <1>2
<1>4. Min({a, b}) \in {a, b} /\ \A y \in {a, b} : Min({a, b}) <= y
  BY <1>1, <1>3, Zenon
<1>. QED  BY <1>4

\* Min() of a set of natural numbers that has one.
LEMMA MinOf ==
    ASSUME NEW T \in SUBSET Nat, T # {}
    PROVE  Min(T) \in T /\ \A y \in T : Min(T) <= y
<1>1. Min(T) = CHOOSE x \in T : \A y \in T : x <= y
  BY DEF Min
<1>2. \E x \in T : \A y \in T : x <= y
  BY LeastOf
<1>. QED  BY <1>1, <1>2, Zenon

\* Max() of a set of integers that has one.
LEMMA MaxIs ==
    ASSUME NEW T \in SUBSET Int, NEW x \in T, \A y \in T : y <= x
    PROVE  Max(T) = x
<1>1. Max(T) = CHOOSE z \in T : \A y \in T : z >= y
  BY DEF Max
<1>2. \E z \in T : \A y \in T : z >= y
  OBVIOUS
<1>3. Max(T) \in T /\ \A y \in T : Max(T) >= y
  BY <1>1, <1>2, Zenon
<1>4. Max(T) >= x /\ Max(T) <= x
  BY <1>3, Zenon
<1>5. Max(T) \in Int /\ x \in Int
  BY <1>3
<1>. QED  BY <1>4, <1>5

-----------------------------------------------------------------------------
(* Sequences *)

\* One more element at the end.
LEMMA Appended ==
    ASSUME NEW S, NEW s \in Seq(S), NEW x \in S
    PROVE  /\ Append(s, x) \in Seq(S) /\ Append(s, x) # <<>>
           /\ Len(Append(s, x)) = Len(s) + 1 /\ Len(s) \in Nat
           /\ Append(s, x)[Len(s) + 1] = x
           /\ \A k \in 1 .. Len(s) : Append(s, x)[k] = s[k]
<1>1. /\ Append(s, x) \in Seq(S)
      /\ Len(Append(s, x)) = Len(s) + 1 /\ Len(s) \in Nat
      /\ Append(s, x)[Len(s) + 1] = x
      /\ \A k \in 1 .. Len(s) : Append(s, x)[k] = s[k]
  OBVIOUS
<1>2. Append(s, x) # <<>>
  BY <1>1
<1>. QED  BY <1>1, <1>2

\* One sequence behind another.
LEMMA Joined ==
    ASSUME NEW S, NEW s \in Seq(S), NEW t \in Seq(S)
    PROVE  /\ s \o t \in Seq(S) /\ Len(s \o t) = Len(s) + Len(t)
           /\ \A k \in 1 .. Len(s) : (s \o t)[k] = s[k]
           /\ \A k \in 1 .. Len(t) : (s \o t)[Len(s) + k] = t[k]
OBVIOUS

\* A sequence is known by its length and its elements.
LEMMA SameSeq ==
    ASSUME NEW S, NEW s \in Seq(S), NEW t \in Seq(S), Len(s) = Len(t),
           \A k \in 1 .. Len(s) : s[k] = t[k]
    PROVE  s = t
OBVIOUS

\* A function on 1 .. m is a sequence.
LEMMA IsSequence ==
    ASSUME NEW S, NEW m \in Nat, NEW s \in [1 .. m -> S]
    PROVE  s \in Seq(S) /\ Len(s) = m
OBVIOUS

\* Elements of a sequence are members of its set.
LEMMA ElementsOf ==
    ASSUME NEW S, NEW s \in Seq(S), NEW k \in DOMAIN s
    PROVE  s[k] \in S
OBVIOUS

\* A sequence of elements of a set is one of elements of a larger set.
LEMMA SeqSubset ==
    ASSUME NEW S, NEW T, S \subseteq T, NEW s \in Seq(S)
    PROVE  s \in Seq(T)
<1>1. Len(s) \in Nat /\ s \in [1 .. Len(s) -> S]
  OBVIOUS
<1>2. s \in [1 .. Len(s) -> T]
  BY <1>1
<1>. QED  BY <1>1, <1>2, IsSequence

\* Three sequences one behind the other.
LEMMA JoinedThree ==
    ASSUME NEW S, NEW h \in Seq(S), NEW v \in Seq(S), NEW z \in Seq(S)
    PROVE  /\ (h \o v) \o z \in Seq(S) /\ Len((h \o v) \o z) = Len(h) + Len(v) + Len(z)
           /\ \A k \in 1 .. Len(h) : ((h \o v) \o z)[k] = h[k]
           /\ \A k \in 1 .. Len(v) : ((h \o v) \o z)[Len(h) + k] = v[k]
           /\ \A k \in 1 .. Len(z) : ((h \o v) \o z)[Len(h) + Len(v) + k] = z[k]
<1>. DEFINE hv == h \o v
<1>0. Len(h) \in Nat /\ Len(v) \in Nat /\ Len(z) \in Nat
  OBVIOUS
<1>1. /\ hv \in Seq(S) /\ Len(hv) = Len(h) + Len(v)
      /\ \A k \in 1 .. Len(h) : hv[k] = h[k]
      /\ \A k \in 1 .. Len(v) : hv[Len(h) + k] = v[k]
  BY Joined
<1>. HIDE DEF hv
<1>2. /\ hv \o z \in Seq(S) /\ Len(hv \o z) = Len(hv) + Len(z)
      /\ \A k \in 1 .. Len(hv) : (hv \o z)[k] = hv[k]
      /\ \A k \in 1 .. Len(z) : (hv \o z)[Len(hv) + k] = z[k]
  <2>1. hv \in Seq(S)
    BY <1>1
  <2>. QED  BY <2>1
<1>. DEFINE w == hv \o z
<1>3. /\ w \in Seq(S) /\ Len(w) = Len(h) + Len(v) + Len(z)
      /\ \A k \in 1 .. Len(h) : w[k] = h[k]
      /\ \A k \in 1 .. Len(v) : w[Len(h) + k] = v[k]
      /\ \A k \in 1 .. Len(z) : w[Len(h) + Len(v) + k] = z[k]
  <2>1. \A k \in 1 .. Len(h) : k \in 1 .. Len(hv)
    BY <1>0, <1>1
  <2>2. \A k \in 1 .. Len(v) : Len(h) + k \in 1 .. Len(hv)
    BY <1>0, <1>1
  <2>. QED  BY <1>0, <1>1, <1>2, <2>1, <2>2
<1>. QED  BY <1>3 DEF w, hv

\* The ways to put three sequences together.
Grouped(a, b, c) == (a \o b) \o c = a \o (b \o c)

\* They are the same.
LEMMA Group3 ==
    ASSUME NEW S, NEW a \in Seq(S), NEW b \in Seq(S), NEW c \in Seq(S)
    PROVE  Grouped(a, b, c)
BY DEF Grouped

\* A part of a sequence.
LEMMA PartOfSeq ==
    ASSUME NEW S, NEW s \in Seq(S), NEW m \in Nat, NEW l \in Nat, m + l <= Len(s)
    PROVE  /\ SubSeq(s, m + 1, m + l) \in Seq(S) /\ Len(SubSeq(s, m + 1, m + l)) = l
           /\ \A i \in 1 .. l : SubSeq(s, m + 1, m + l)[i] = s[m + i]
OBVIOUS

\* u holds the elements of h, of v and of z, in this order.
Covers(u, h, v, z) ==
    /\ Len(u) = Len(h) + Len(v) + Len(z)
    /\ \A n \in 1 .. Len(h) : u[n] = h[n]
    /\ \A n \in 1 .. Len(v) : u[Len(h) + n] = v[n]
    /\ \A n \in 1 .. Len(z) : u[Len(h) + Len(v) + n] = z[n]

\* u is h, v and z put together.
MadeOf(u, h, v, z) == u = (h \o v) \o z

\* A sequence that was put together of three.
LEMMA ThreeParts ==
    ASSUME NEW S, NEW u \in Seq(S), NEW h \in Seq(S), NEW v \in Seq(S), NEW z \in Seq(S),
           Covers(u, h, v, z)
    PROVE  MadeOf(u, h, v, z)
<1>. USE DEF Covers
<1>. DEFINE w == (h \o v) \o z
<1>0. Len(h) \in Nat /\ Len(v) \in Nat /\ Len(z) \in Nat
  OBVIOUS
<1>3. /\ w \in Seq(S) /\ Len(w) = Len(h) + Len(v) + Len(z)
      /\ \A k \in 1 .. Len(h) : w[k] = h[k]
      /\ \A k \in 1 .. Len(v) : w[Len(h) + k] = v[k]
      /\ \A k \in 1 .. Len(z) : w[Len(h) + Len(v) + k] = z[k]
  BY JoinedThree
<1>. HIDE DEF w
<1>4. ASSUME NEW k \in 1 .. Len(u) PROVE u[k] = w[k]
  <2>1. CASE k \in 1 .. Len(h)
    BY <1>3, <2>1
  <2>2. CASE k - Len(h) \in 1 .. Len(v)
    <3>1. k = Len(h) + (k - Len(h))
      BY <1>0
    <3>. QED  BY <1>3, <2>2, <3>1, ZenonT(40)
  <2>3. CASE k - Len(h) - Len(v) \in 1 .. Len(z)
    <3>1. k = Len(h) + Len(v) + (k - Len(h) - Len(v))
      BY <1>0
    <3>. QED  BY <1>3, <2>3, <3>1, ZenonT(40)
  <2>. QED  BY <1>0, <2>1, <2>2, <2>3
<1>5. u = w
  BY <1>3, <1>4, SameSeq
<1>. QED  BY <1>5, Zenon DEF w, MadeOf

-----------------------------------------------------------------------------
(* Sequences of sequences *)

\* f holds what the first sequences of s make: one, two, and so on.
IsJoin(f, s, S) ==
    /\ f \in [1 .. Len(s) -> Seq(S)]
    /\ f[1] = s[1]
    /\ \A i \in 2 .. Len(s) : f[i] = f[i - 1] \o s[i]

\* FlattenSeq() as the end of a run over its sequences.
LEMMA FlattenRun ==
    ASSUME NEW S, NEW s, s \in Seq(Seq(S)), s # <<>>
    PROVE  \E f : IsJoin(f, s, S) /\ FlattenSeq(s) = f[Len(s)]
<1>. DEFINE L == Len(s)
            Run(f) == f = [i \in 1 .. L |-> IF i = 1 THEN s[i] ELSE f[i - 1] \o s[i]]
            F == [n \in Nat |-> [x \in Seq(S) |-> IF n \in 1 .. L THEN x \o s[n] ELSE x]]
<1>1. L \in Nat /\ L >= 1 /\ \A i \in 1 .. L : s[i] \in Seq(S)
  OBVIOUS
<1>. HIDE DEF L
<1>2. F \in [Nat -> [Seq(S) -> Seq(S)]]
  BY <1>1
<1>3. PICK h \in [0 .. L -> Seq(S)] : h[0] = <<>> /\ \A n \in 1 .. L : h[n] = F[n][h[n - 1]]
  <2>1. <<>> \in Seq(S) /\ L \in Nat
    BY <1>1
  <2>. HIDE DEF F
  <2>2. \E f : IsRun(f, F, <<>>, L, Seq(S))
    BY <1>2, <2>1, Turns
  <2>. QED  BY <2>2, Zenon DEF IsRun
<1>4. \A n \in 1 .. L : h[n - 1] \in Seq(S) /\ h[n] = h[n - 1] \o s[n]
  <2>. TAKE n \in 1 .. L
  <2>1. n \in Nat /\ n - 1 \in 0 .. L
    BY <1>1
  <2>2. h[n - 1] \in Seq(S)
    BY <2>1
  <2>3. F[n][h[n - 1]] = h[n - 1] \o s[n]
    BY <2>1, <2>2
  <2>. HIDE DEF F
  <2>. QED  BY <1>3, <2>2, <2>3
<1>. HIDE DEF F
<1>5. h[1] = s[1]
  <2>1. h[1] = h[0] \o s[1]
    <3>1. 1 \in 1 .. L /\ 1 - 1 = 0
      BY <1>1
    <3>. QED  BY <1>4, <3>1
  <2>. QED  BY <1>1, <1>3, <2>1
<1>. DEFINE e == [i \in 1 .. L |-> h[i]]
<1>6. e \in [1 .. L -> Seq(S)] /\ \A i \in 1 .. L : e[i] = IF i = 1 THEN s[i] ELSE e[i - 1] \o s[i]
  <2>1. e \in [1 .. L -> Seq(S)]
    BY <1>1, <1>3
  <2>2. ASSUME NEW i \in 1 .. L, i # 1 PROVE e[i] = e[i - 1] \o s[i]
    <3>1. i - 1 \in 1 .. L
      BY <1>1, <2>2
    <3>. QED  BY <1>4, <3>1
  <2>3. e[1] = s[1]
    BY <1>1, <1>5
  <2>. HIDE DEF e
  <2>. QED  BY <2>1, <2>2, <2>3
<1>. HIDE DEF e
<1>7. Run(e)
  BY <1>6
<1>. DEFINE f == CHOOSE g : Run(g)
<1>8. Run(f)
  BY <1>7, Zenon
<1>9. FlattenSeq(s) = f[L]
  <2>1. L # 0
    BY <1>1
  <2>. QED  BY <2>1, Zenon DEF FlattenSeq, L
<1>. HIDE DEF f
<1>10. f[1] = s[1] /\ \A i \in 2 .. L : f[i] = f[i - 1] \o s[i]
  <2>1. \A i \in 1 .. L : f[i] = IF i = 1 THEN s[i] ELSE f[i - 1] \o s[i]
    BY <1>8, Zenon
  <2>2. 1 \in 1 .. L /\ \A i \in 2 .. L : i \in 1 .. L /\ i # 1
    BY <1>1
  <2>. QED  BY <2>1, <2>2, Zenon
<1>11. f \in [1 .. L -> Seq(S)]
  <2>. DEFINE T == {k \in Nat : k + 1 \in 1 .. L => f[k + 1] \in Seq(S)}
  <2>1. 0 \in T
    BY <1>1, <1>10
  <2>2. ASSUME NEW k \in Nat, k \in T PROVE k + 1 \in T
    <3>. SUFFICES ASSUME k + 2 \in 1 .. L PROVE f[k + 2] \in Seq(S)
      OBVIOUS
    <3>1. k + 2 \in 2 .. L /\ (k + 2) - 1 = k + 1 /\ k + 1 \in 1 .. L
      BY <1>1
    <3>2. f[k + 2] = f[k + 1] \o s[k + 2] /\ f[k + 1] \in Seq(S) /\ s[k + 2] \in Seq(S)
      BY <1>1, <1>10, <2>2, <3>1
    <3>. QED  BY <3>2
  <2>. HIDE DEF T
  <2>3. \A k \in Nat : k \in T
    BY <2>1, <2>2, EveryNat
  <2>4. \A i \in 1 .. L : f[i] \in Seq(S)
    <3>. TAKE i \in 1 .. L
    <3>1. i - 1 \in Nat /\ (i - 1) + 1 = i
      BY <1>1
    <3>. QED  BY <2>3, <3>1 DEF T
  <2>5. f = [i \in 1 .. L |-> f[i]]
    BY <1>8, Zenon
  <2>. QED  BY <2>4, <2>5
<1>12. IsJoin(f, s, S)
  BY <1>10, <1>11, Zenon DEF L, IsJoin
<1>. QED  BY <1>9, <1>12, Zenon DEF L

\* No sequences make the empty sequence, one makes itself.
LEMMA FlattenSmall ==
    /\ FlattenSeq(<<>>) = <<>>
    /\ \A S : \A x \in Seq(S) : FlattenSeq(<<x>>) = x
<1>1. FlattenSeq(<<>>) = <<>>
  <2>1. Len(<<>>) = 0
    OBVIOUS
  <2>. QED  BY <2>1, Zenon DEF FlattenSeq
<1>2. ASSUME NEW S, NEW x \in Seq(S) PROVE FlattenSeq(<<x>>) = x
  <2>1. <<x>> \in Seq(Seq(S)) /\ <<x>> # <<>> /\ Len(<<x>>) = 1 /\ <<x>>[1] = x
    OBVIOUS
  <2>2. PICK f : IsJoin(f, <<x>>, S) /\ FlattenSeq(<<x>>) = f[Len(<<x>>)]
    BY <2>1, FlattenRun, Zenon
  <2>. QED  BY <2>1, <2>2, Zenon DEF IsJoin
<1>. QED  BY <1>1, <1>2

\* What sequences of S make is a sequence of S.
LEMMA FlattenType ==
    ASSUME NEW S, NEW s \in Seq(Seq(S))
    PROVE  FlattenSeq(s) \in Seq(S)
<1>1. CASE s = <<>>
  <2>1. FlattenSeq(s) = <<>>
    BY <1>1, FlattenSmall, Zenon
  <2>. QED  BY <2>1
<1>2. CASE s # <<>>
  <2>1. Len(s) \in 1 .. Len(s)
    BY <1>2
  <2>2. PICK f : IsJoin(f, s, S) /\ FlattenSeq(s) = f[Len(s)]
    BY <1>2, FlattenRun, Zenon
  <2>3. f \in [1 .. Len(s) -> Seq(S)]
    BY <2>2, Zenon DEF IsJoin
  <2>4. f[Len(s)] \in Seq(S)
    BY <2>1, <2>3, Zenon
  <2>. QED  BY <2>2, <2>4, Zenon
<1>. QED  BY <1>1, <1>2

\* One more sequence is put at the end.
LEMMA FlattenAppend ==
    ASSUME NEW S, NEW s \in Seq(Seq(S)), NEW x \in Seq(S)
    PROVE  FlattenSeq(Append(s, x)) = FlattenSeq(s) \o x
<1>. DEFINE u == Append(s, x)
            L == Len(s)
<1>1. /\ u \in Seq(Seq(S)) /\ u # <<>> /\ Len(u) = L + 1 /\ L \in Nat
      /\ u[L + 1] = x /\ \A i \in 1 .. L : u[i] = s[i]
  <2>1. /\ Append(s, x) \in Seq(Seq(S)) /\ Append(s, x) # <<>>
        /\ Len(Append(s, x)) = Len(s) + 1 /\ Len(s) \in Nat
        /\ Append(s, x)[Len(s) + 1] = x
        /\ \A k \in 1 .. Len(s) : Append(s, x)[k] = s[k]
    BY Appended
  <2>. QED  BY <2>1, Zenon
<1>2. CASE s = <<>>
  <2>1. u = <<x>>
    BY <1>2
  <2>. QED  BY <1>2, <2>1, FlattenSmall
<1>3. CASE s # <<>>
  <2>0. L >= 1
    BY <1>3
  <2>. HIDE DEF u, L
  <2>1. PICK f : /\ f[1] = u[1] /\ \A i \in 2 .. L + 1 : f[i] = f[i - 1] \o u[i]
                 /\ FlattenSeq(u) = f[L + 1]
    <3>1. PICK f : IsJoin(f, u, S) /\ FlattenSeq(u) = f[Len(u)]
      BY <1>1, FlattenRun, Zenon
    <3>. QED  BY <1>1, <3>1, Zenon DEF IsJoin
  <2>2. PICK h : /\ h[1] = s[1] /\ \A i \in 2 .. L : h[i] = h[i - 1] \o s[i]
                 /\ FlattenSeq(s) = h[L]
    <3>1. PICK e : IsJoin(e, s, S) /\ FlattenSeq(s) = e[Len(s)]
      BY <1>3, FlattenRun, Zenon
    <3>. QED  BY <3>1, Zenon DEF IsJoin, L
  <2>. DEFINE T == {k \in Nat : k + 1 \in 1 .. L => f[k + 1] = h[k + 1]}
  <2>3. 0 \in T
    BY <1>1, <2>0, <2>1, <2>2
  <2>4. ASSUME NEW k \in Nat, k \in T PROVE k + 1 \in T
    <3>. SUFFICES ASSUME (k + 1) + 1 \in 1 .. L PROVE f[(k + 1) + 1] = h[(k + 1) + 1]
      OBVIOUS
    <3>1. /\ k + 2 \in 2 .. L /\ k + 2 \in 2 .. L + 1 /\ k + 2 \in 1 .. L
          /\ (k + 2) - 1 = k + 1 /\ (k + 1) + 1 = k + 2 /\ k + 1 \in 1 .. L
      BY <1>1
    <3>2. f[k + 2] = f[k + 1] \o u[k + 2] /\ h[k + 2] = h[k + 1] \o s[k + 2]
      BY <2>1, <2>2, <3>1
    <3>. QED  BY <1>1, <2>4, <3>1, <3>2
  <2>. HIDE DEF T
  <2>5. \A k \in Nat : k \in T
    BY <2>3, <2>4, EveryNat
  <2>6. f[L] = h[L]
    <3>1. L - 1 \in Nat /\ (L - 1) + 1 = L /\ L \in 1 .. L
      BY <1>1, <2>0
    <3>2. L - 1 \in T
      BY <2>5, <3>1
    <3>. QED  BY <3>1, <3>2 DEF T
  <2>7. f[L + 1] = f[L] \o x
    <3>1. L + 1 \in 2 .. L + 1 /\ (L + 1) - 1 = L
      BY <1>1, <2>0
    <3>. QED  BY <1>1, <2>1, <3>1
  <2>. QED  BY <2>1, <2>2, <2>6, <2>7 DEF u
<1>. QED  BY <1>2, <1>3

\* Every non-empty sequence is a shorter one with one element more.
LEMMA OneLess ==
    ASSUME NEW S, NEW s \in Seq(S), NEW n \in Nat, Len(s) = n + 1
    PROVE  \E t \in Seq(S), x \in S : s = Append(t, x) /\ Len(t) = n
<1>1. PICK t \in Seq(S), x \in S : s = Append(t, x)
  BY SequenceEmptyOrAppend
<1>2. Len(t) = n
  BY <1>1
<1>. QED  BY <1>1, <1>2

\* What two lists of sequences make is made by the one and then the other.
LEMMA FlattenConcat ==
    ASSUME NEW S, NEW s \in Seq(Seq(S)), NEW t \in Seq(Seq(S))
    PROVE  FlattenSeq(s \o t) = FlattenSeq(s) \o FlattenSeq(t)
<1>. DEFINE T == {n \in Nat : \A v \in Seq(Seq(S)) :
                     Len(v) = n => FlattenSeq(s \o v) = FlattenSeq(s) \o FlattenSeq(v)}
<1>0. FlattenSeq(s) \in Seq(S)
  BY FlattenType
<1>1. 0 \in T
  <2>. SUFFICES ASSUME NEW v \in Seq(Seq(S)), Len(v) = 0
                PROVE  FlattenSeq(s \o v) = FlattenSeq(s) \o FlattenSeq(v)
    OBVIOUS
  <2>1. v = <<>> /\ s \o v = s
    OBVIOUS
  <2>. QED  BY <1>0, <2>1, FlattenSmall
<1>2. ASSUME NEW n \in Nat, n \in T PROVE n + 1 \in T
  <2>. SUFFICES ASSUME NEW v \in Seq(Seq(S)), Len(v) = n + 1
                PROVE  FlattenSeq(s \o v) = FlattenSeq(s) \o FlattenSeq(v)
    OBVIOUS
  <2>1. PICK w \in Seq(Seq(S)), x \in Seq(S) : v = Append(w, x) /\ Len(w) = n
    BY OneLess
  <2>2. s \o v = Append(s \o w, x) /\ s \o w \in Seq(Seq(S))
    BY <2>1
  <2>3. FlattenSeq(s \o w) = FlattenSeq(s) \o FlattenSeq(w)
    BY <1>2, <2>1
  <2>4. FlattenSeq(w) \in Seq(S)
    BY FlattenType
  <2>5. /\ FlattenSeq(s \o v) = (FlattenSeq(s) \o FlattenSeq(w)) \o x
        /\ FlattenSeq(v) = FlattenSeq(w) \o x
    BY <2>1, <2>2, <2>3, FlattenAppend
  <2>6. Grouped(FlattenSeq(s), FlattenSeq(w), x)
    BY <1>0, <2>4, Group3
  <2>7. (FlattenSeq(s) \o FlattenSeq(w)) \o x = FlattenSeq(s) \o (FlattenSeq(w) \o x)
    BY <2>6, Zenon DEF Grouped
  <2>. QED  BY <2>5, <2>7, Zenon
<1>. HIDE DEF T
<1>3. \A n \in Nat : n \in T
  BY <1>1, <1>2, EveryNat
<1>. QED  BY <1>3 DEF T

\* Sequences of one element each make the sequence of these elements.
LEMMA FlattenOnes ==
    ASSUME NEW S, NEW s \in Seq(S)
    PROVE  FlattenSeq([i \in 1 .. Len(s) |-> <<s[i]>>]) = s
<1>. DEFINE Ones(v) == [i \in 1 .. Len(v) |-> <<v[i]>>]
            T == {n \in Nat : \A v \in Seq(S) : Len(v) = n => FlattenSeq(Ones(v)) = v}
<1>1. 0 \in T
  <2>. SUFFICES ASSUME NEW v \in Seq(S), Len(v) = 0 PROVE FlattenSeq(Ones(v)) = v
    OBVIOUS
  <2>1. v = <<>> /\ Ones(v) = <<>>
    OBVIOUS
  <2>. QED  BY <2>1, FlattenSmall
<1>2. ASSUME NEW n \in Nat, n \in T PROVE n + 1 \in T
  <2>. SUFFICES ASSUME NEW v \in Seq(S), Len(v) = n + 1 PROVE FlattenSeq(Ones(v)) = v
    OBVIOUS
  <2>1. PICK w \in Seq(S), x \in S : v = Append(w, x) /\ Len(w) = n
    BY OneLess
  <2>2. Ones(w) \in Seq(Seq(S)) /\ <<x>> \in Seq(S) /\ Ones(v) = Append(Ones(w), <<x>>)
    BY <2>1
  <2>3. FlattenSeq(Ones(w)) = w
    BY <1>2, <2>1
  <2>. HIDE DEF Ones
  <2>4. FlattenSeq(Ones(v)) = w \o <<x>>
    BY <2>2, <2>3, FlattenAppend
  <2>. QED  BY <2>1, <2>4
<1>. HIDE DEF T
<1>3. \A n \in Nat : n \in T
  BY <1>1, <1>2, EveryNat
<1>. QED  BY <1>3 DEF T

\* Empty sequences make the empty sequence.
LEMMA FlattenNone ==
    ASSUME NEW S, NEW s \in Seq(Seq(S)), \A i \in 1 .. Len(s) : s[i] = <<>>
    PROVE  FlattenSeq(s) = <<>>
<1>. DEFINE None(v) == \A i \in 1 .. Len(v) : v[i] = <<>>
            T == {n \in Nat : \A v \in Seq(Seq(S)) :
                     Len(v) = n /\ None(v) => FlattenSeq(v) = <<>>}
<1>1. 0 \in T
  <2>. SUFFICES ASSUME NEW v \in Seq(Seq(S)), Len(v) = 0 PROVE FlattenSeq(v) = <<>>
    OBVIOUS
  <2>1. v = <<>>
    OBVIOUS
  <2>. QED  BY <2>1, FlattenSmall
<1>2. ASSUME NEW n \in Nat, n \in T PROVE n + 1 \in T
  <2>. SUFFICES ASSUME NEW v \in Seq(Seq(S)), Len(v) = n + 1, None(v)
                PROVE  FlattenSeq(v) = <<>>
    OBVIOUS
  <2>1. PICK w \in Seq(Seq(S)), x \in Seq(S) : v = Append(w, x) /\ Len(w) = n
    BY OneLess
  <2>2. None(w) /\ x = <<>>
    BY <2>1
  <2>3. FlattenSeq(w) = <<>>
    BY <1>2, <2>1, <2>2
  <2>. QED  BY <2>1, <2>2, <2>3, FlattenAppend
<1>. HIDE DEF T
<1>3. \A n \in Nat : n \in T
  BY <1>1, <1>2, EveryNat
<1>. QED  BY <1>3 DEF T

-----------------------------------------------------------------------------
(* Loops over strings *)

\* The functions of a loop over strings of B that appends elements of S: every
\* turn takes something.
IsTurn(Rest, Out, B, S) ==
    /\ Rest \in [Seq(B) -> Seq(B)] /\ Rest[<<>>] = <<>>
    /\ Out \in [Seq(B) -> Seq(S)] /\ Out[<<>>] = <<>>
    /\ \A x \in Seq(B) : x # <<>> => Len(Rest[x]) < Len(x)

\* f holds what is left of s after each turn.
IsLeft(f, Rest, s, B) ==
    /\ f \in [0 .. Len(s) -> Seq(B)]
    /\ f[0] = s
    /\ \A n \in 1 .. Len(s) : f[n] = Rest[f[n - 1]]

\* What the turns append when f holds what they leave.
Appends(f, Out, m) == [n \in 1 .. m |-> Out[f[n - 1]]]

\* A loop as the run of its turns.
LEMMA LoopRun ==
    ASSUME NEW B, NEW S, NEW Rest, NEW Out, IsTurn(Rest, Out, B, S), NEW s, s \in Seq(B)
    PROVE  \E f : IsLeft(f, Rest, s, B) /\ Loop(Rest, Out, s) = FlattenSeq(Appends(f, Out, Len(s)))
<1>. DEFINE L == Len(s)
            Run(f) == f = [n \in 0 .. L |-> IF n = 0 THEN s ELSE Rest[f[n - 1]]]
            F == [n \in Nat |-> Rest]
<1>1. L \in Nat /\ Rest \in [Seq(B) -> Seq(B)]
  BY DEF IsTurn
<1>. HIDE DEF L
<1>2. F \in [Nat -> [Seq(B) -> Seq(B)]] /\ \A n \in Nat : F[n] = Rest
  BY <1>1
<1>. HIDE DEF F
<1>3. PICK h : IsRun(h, F, s, L, Seq(B))
  BY <1>1, <1>2, Turns
<1>4. h \in [0 .. L -> Seq(B)] /\ h[0] = s /\ \A n \in 1 .. L : h[n] = Rest[h[n - 1]]
  <2>1. h \in [0 .. L -> Seq(B)] /\ h[0] = s /\ \A n \in 1 .. L : h[n] = F[n][h[n - 1]]
    BY <1>3, Zenon DEF IsRun
  <2>2. \A n \in 1 .. L : n \in Nat
    BY <1>1
  <2>. QED  BY <1>2, <2>1, <2>2, Zenon
<1>5. Run(h)
  <2>1. \A n \in 0 .. L : h[n] = IF n = 0 THEN s ELSE Rest[h[n - 1]]
    <3>1. \A n \in 0 .. L : n = 0 \/ n \in 1 .. L
      BY <1>1
    <3>. QED  BY <1>4, <3>1, Zenon
  <2>. QED  BY <1>4, <2>1
<1>. DEFINE f == CHOOSE g : Run(g)
<1>6. Run(f)
  BY <1>5, Zenon
<1>7. Loop(Rest, Out, s) = FlattenSeq(Appends(f, Out, L))
  BY Zenon DEF Loop, Appends, L
<1>. HIDE DEF f
<1>8. f = [n \in 0 .. L |-> f[n]] /\ \A n \in 0 .. L : f[n] = IF n = 0 THEN s ELSE Rest[f[n - 1]]
  BY <1>6, Zenon
<1>. HIDE DEF Run
<1>9. f[0] = s /\ \A n \in 1 .. L : f[n] = Rest[f[n - 1]]
  <2>1. 0 \in 0 .. L /\ \A n \in 1 .. L : n \in 0 .. L /\ n # 0
    BY <1>1
  <2>. QED  BY <1>8, <2>1, Zenon
<1>10. \A n \in 0 .. L : f[n] = h[n]
  <2>. DEFINE T == {n \in Nat : n \in 0 .. L => f[n] = h[n]}
  <2>1. 0 \in T
    BY <1>4, <1>9
  <2>2. ASSUME NEW n \in Nat, n \in T PROVE n + 1 \in T
    <3>. SUFFICES ASSUME n + 1 \in 0 .. L PROVE f[n + 1] = h[n + 1]
      OBVIOUS
    <3>1. n + 1 \in 1 .. L /\ (n + 1) - 1 = n /\ n \in 0 .. L
      BY <1>1
    <3>. QED  BY <1>4, <1>9, <2>2, <3>1
  <2>. HIDE DEF T
  <2>3. \A n \in Nat : n \in T
    BY <2>1, <2>2, EveryNat
  <2>. QED  BY <1>1, <2>3 DEF T
<1>11. f \in [0 .. L -> Seq(B)]
  <2>1. \A n \in 0 .. L : f[n] \in Seq(B)
    BY <1>4, <1>10
  <2>. QED  BY <1>8, <2>1
<1>12. IsLeft(f, Rest, s, B)
  BY <1>9, <1>11, Zenon DEF IsLeft, L
<1>. QED  BY <1>7, <1>12, Zenon DEF L

\* A loop over nothing appends nothing.
LEMMA LoopEmpty ==
    ASSUME NEW Rest, NEW Out
    PROVE  Loop(Rest, Out, <<>>) = <<>>
<1>. DEFINE left == CHOOSE g : g = [n \in 0 .. Len(<<>>) |-> IF n = 0 THEN <<>> ELSE Rest[g[n - 1]]]
<1>1. Loop(Rest, Out, <<>>) = FlattenSeq(Appends(left, Out, Len(<<>>)))
  BY Zenon DEF Loop, Appends
<1>. HIDE DEF left
<1>2. Appends(left, Out, Len(<<>>)) = <<>>
  BY DEF Appends
<1>. QED  BY <1>1, <1>2, FlattenSmall, Zenon

\* What the turns append is a list of sequences.
LEMMA AppendsType ==
    ASSUME NEW B, NEW S, NEW Rest, NEW Out, IsTurn(Rest, Out, B, S), NEW s, s \in Seq(B),
           NEW f, IsLeft(f, Rest, s, B)
    PROVE  Appends(f, Out, Len(s)) \in Seq(Seq(S)) /\ Len(Appends(f, Out, Len(s))) = Len(s)
<1>. DEFINE L == Len(s)
<1>1. L \in Nat /\ f \in [0 .. L -> Seq(B)] /\ Out \in [Seq(B) -> Seq(S)]
  BY DEF IsTurn, IsLeft
<1>. HIDE DEF L
<1>2. \A n \in 1 .. L : Out[f[n - 1]] \in Seq(S)
  <2>. TAKE n \in 1 .. L
  <2>1. n - 1 \in 0 .. L
    BY <1>1
  <2>2. f[n - 1] \in Seq(B)
    BY <1>1, <2>1, Zenon
  <2>. QED  BY <1>1, <2>2, Zenon
<1>3. Appends(f, Out, L) \in [1 .. L -> Seq(S)]
  BY <1>2, Zenon DEF Appends
<1>. DEFINE P == Appends(f, Out, L)
            W == Seq(S)
<1>4. P \in Seq(W) /\ Len(P) = L
  <2>1. P \in [1 .. L -> W]
    BY <1>3
  <2>. HIDE DEF P, W
  <2>. QED  BY <1>1, <2>1, IsSequence
<1>. QED  BY <1>4, Zenon DEF L

\* What a loop appends has the type of what its turns append.
LEMMA LoopType ==
    ASSUME NEW B, NEW S, NEW Rest, NEW Out, IsTurn(Rest, Out, B, S), NEW s, s \in Seq(B)
    PROVE  Loop(Rest, Out, s) \in Seq(S)
<1>1. PICK f : IsLeft(f, Rest, s, B) /\ Loop(Rest, Out, s) = FlattenSeq(Appends(f, Out, Len(s)))
  BY LoopRun
<1>2. Appends(f, Out, Len(s)) \in Seq(Seq(S))
  BY <1>1, AppendsType
<1>. QED  BY <1>1, <1>2, FlattenType, Zenon

\* After n turns n characters at least are gone, or all.
LEMMA LeftShrinks ==
    ASSUME NEW B, NEW S, NEW Rest, NEW Out, IsTurn(Rest, Out, B, S), NEW s, s \in Seq(B),
           NEW f, IsLeft(f, Rest, s, B)
    PROVE  \A n \in 0 .. Len(s) : Len(f[n]) <= Len(s) - n
<1>. DEFINE L == Len(s)
            T == {n \in Nat : n \in 0 .. L => Len(f[n]) <= L - n}
<1>1. L \in Nat /\ f \in [0 .. L -> Seq(B)] /\ f[0] = s
      /\ \A n \in 1 .. L : f[n] = Rest[f[n - 1]]
  BY DEF IsLeft
<1>2. Rest[<<>>] = <<>> /\ \A x \in Seq(B) : x # <<>> => Len(Rest[x]) < Len(x)
  BY DEF IsTurn
<1>3. 0 \in T
  BY <1>1
<1>. HIDE DEF L
<1>4. ASSUME NEW n \in Nat, n \in T PROVE n + 1 \in T
  <2>. SUFFICES ASSUME n + 1 \in 0 .. L PROVE Len(f[n + 1]) <= L - (n + 1)
    OBVIOUS
  <2>1. n + 1 \in 1 .. L /\ (n + 1) - 1 = n /\ n \in 0 .. L
    BY <1>1
  <2>2. f[n] \in Seq(B) /\ Len(f[n]) <= L - n
    BY <1>1, <1>4, <2>1
  <2>3. f[n + 1] = Rest[f[n]]
    BY <1>1, <2>1
  <2>4. CASE f[n] = <<>>
    <3>1. Len(f[n + 1]) = 0
      BY <1>2, <2>3, <2>4
    <3>. QED  BY <1>1, <2>1, <3>1
  <2>5. CASE f[n] # <<>>
    <3>0. f[n + 1] \in Seq(B)
      BY <1>1, <2>1
    <3>1. Len(f[n + 1]) < Len(f[n])
      BY <1>2, <2>2, <2>3, <2>5
    <3>. QED  BY <1>1, <2>1, <2>2, <3>0, <3>1
  <2>. QED  BY <2>4, <2>5
<1>. HIDE DEF T
<1>5. \A n \in Nat : n \in T
  BY <1>3, <1>4, EveryNat
<1>. QED  BY <1>1, <1>5 DEF T, L

\* The first turn, and a loop over what it leaves.
LoopUnfolds(Rest, Out, s) == Loop(Rest, Out, s) = Out[s] \o Loop(Rest, Out, Rest[s])

\* A loop over something is such a turn.
LEMMA LoopTurn ==
    ASSUME NEW B, NEW S, NEW Rest, NEW Out, IsTurn(Rest, Out, B, S), NEW s, s \in Seq(B), s # <<>>
    PROVE  LoopUnfolds(Rest, Out, s)
<1>. DEFINE r == Rest[s]
            L == Len(s)
            M == Len(r)
<1>1. r \in Seq(B) /\ L \in Nat /\ M \in Nat /\ M < L /\ Out[s] \in Seq(S) /\ Out[<<>>] = <<>>
      /\ Rest[<<>>] = <<>>
  BY DEF IsTurn
<1>2. PICK f : IsLeft(f, Rest, s, B) /\ Loop(Rest, Out, s) = FlattenSeq(Appends(f, Out, Len(s)))
  BY LoopRun
<1>3. PICK g : IsLeft(g, Rest, r, B) /\ Loop(Rest, Out, r) = FlattenSeq(Appends(g, Out, Len(r)))
  <2>1. r \in Seq(B)
    BY <1>1
  <2>. HIDE DEF r
  <2>. QED  BY <2>1, LoopRun
<1>4. Appends(g, Out, Len(r)) \in Seq(Seq(S)) /\ Len(Appends(g, Out, Len(r))) = Len(r)
  <2>1. r \in Seq(B)
    BY <1>1
  <2>. HIDE DEF r
  <2>. QED  BY <2>1, <1>3, AppendsType
<1>5. Appends(f, Out, Len(s)) \in Seq(Seq(S)) /\ Len(Appends(f, Out, Len(s))) = Len(s)
  BY <1>2, AppendsType
<1>6. f[0] = s /\ \A n \in 1 .. L : f[n] = Rest[f[n - 1]]
  BY <1>2, Zenon DEF IsLeft
<1>7. g[0] = r /\ g \in [0 .. M -> Seq(B)] /\ \A n \in 1 .. M : g[n] = Rest[g[n - 1]]
  BY <1>3, Zenon DEF IsLeft
<1>8. \A n \in 0 .. M : Len(g[n]) <= M - n
  BY <1>1, <1>3, LeftShrinks, Zenon
<1>. HIDE DEF M, L
<1>9. \A n \in Nat : n <= M => f[n + 1] = g[n]
  <2>. DEFINE T == {n \in Nat : n <= M => f[n + 1] = g[n]}
  <2>1. 0 \in T
    <3>1. 1 \in 1 .. L /\ 1 - 1 = 0
      BY <1>1
    <3>. QED  BY <1>6, <1>7, <3>1
  <2>. HIDE DEF r
  <2>2. ASSUME NEW n \in Nat, n \in T PROVE n + 1 \in T
    <3>. SUFFICES ASSUME n + 1 <= M PROVE f[(n + 1) + 1] = g[n + 1]
      OBVIOUS
    <3>1. /\ n + 1 \in 1 .. M /\ (n + 1) - 1 = n
          /\ (n + 1) + 1 \in 1 .. L /\ ((n + 1) + 1) - 1 = n + 1 /\ n <= M
      BY <1>1
    <3>2. f[(n + 1) + 1] = Rest[f[n + 1]] /\ g[n + 1] = Rest[g[n]]
      BY <1>6, <1>7, <3>1
    <3>. QED  BY <2>2, <3>1, <3>2
  <2>. HIDE DEF T
  <2>3. \A n \in Nat : n \in T
    BY <2>1, <2>2, EveryNat
  <2>. QED  BY <2>3 DEF T
<1>. HIDE DEF r
<1>10. \A n \in Nat : M + 1 + n <= L => f[M + 1 + n] = <<>>
  <2>. DEFINE T == {n \in Nat : M + 1 + n <= L => f[M + 1 + n] = <<>>}
  <2>1. 0 \in T
    <3>1. M \in 0 .. M /\ M <= M /\ M + 1 + 0 = M + 1
      BY <1>1
    <3>2. f[M + 1] = g[M] /\ g[M] \in Seq(B) /\ Len(g[M]) <= M - M
      BY <1>1, <1>7, <1>8, <1>9, <3>1
    <3>3. g[M] = <<>>
      BY <1>1, <3>2
    <3>. QED  BY <3>1, <3>2, <3>3
  <2>2. ASSUME NEW n \in Nat, n \in T PROVE n + 1 \in T
    <3>. SUFFICES ASSUME M + 1 + (n + 1) <= L PROVE f[M + 1 + (n + 1)] = <<>>
      OBVIOUS
    <3>1. /\ M + 1 + (n + 1) \in 1 .. L /\ (M + 1 + (n + 1)) - 1 = M + 1 + n
          /\ M + 1 + n <= L
      BY <1>1
    <3>2. f[M + 1 + (n + 1)] = Rest[f[M + 1 + n]]
      BY <1>6, <3>1
    <3>. QED  BY <1>1, <2>2, <3>1, <3>2
  <2>. HIDE DEF T
  <2>3. \A n \in Nat : n \in T
    BY <2>1, <2>2, EveryNat
  <2>. QED  BY <2>3 DEF T
<1>. DEFINE U == Appends(f, Out, L)
            V == Appends(g, Out, M)
            H == <<Out[s]>>
            Z == [n \in 1 .. L - 1 - M |-> <<>>]
<1>11. /\ H \in Seq(Seq(S)) /\ Len(H) = 1 /\ H[1] = Out[s]
  BY <1>1
<1>12. Z \in Seq(Seq(S)) /\ Len(Z) = L - 1 - M /\ \A n \in 1 .. L - 1 - M : Z[n] = <<>>
  <2>1. L - 1 - M \in Nat
    BY <1>1
  <2>3. <<>> \in Seq(S)
    OBVIOUS
  <2>4. Z \in [1 .. L - 1 - M -> Seq(S)]
    BY <2>3
  <2>. DEFINE W == Seq(S)
              m == L - 1 - M
  <2>5. Z \in Seq(W) /\ Len(Z) = m
    <3>1. Z \in [1 .. m -> W] /\ m \in Nat
      BY <2>1, <2>4
    <3>. HIDE DEF Z, W, m
    <3>. QED  BY <3>1, IsSequence
  <2>6. \A n \in 1 .. L - 1 - M : Z[n] = <<>>
    OBVIOUS
  <2>. HIDE DEF Z
  <2>. QED  BY <2>5, <2>6
<1>13. /\ U[1] = Out[s]
       /\ \A n \in 1 .. M : U[1 + n] = V[n]
       /\ \A n \in 1 .. L - 1 - M : U[1 + M + n] = <<>>
  <2>1. U[1] = Out[s]
    <3>1. 1 \in 1 .. L /\ 1 - 1 = 0
      BY <1>1
    <3>. QED  BY <1>6, <3>1 DEF Appends
  <2>2. ASSUME NEW n \in 1 .. M PROVE U[1 + n] = V[n]
    <3>1. 1 + n \in 1 .. L /\ (1 + n) - 1 = n /\ n - 1 \in Nat /\ n - 1 <= M /\ (n - 1) + 1 = n
      BY <1>1
    <3>2. f[n] = g[n - 1]
      BY <1>9, <3>1
    <3>. QED  BY <3>1, <3>2 DEF Appends
  <2>3. ASSUME NEW n \in 1 .. L - 1 - M PROVE U[1 + M + n] = <<>>
    <3>1. /\ 1 + M + n \in 1 .. L /\ (1 + M + n) - 1 = M + 1 + (n - 1)
          /\ n - 1 \in Nat /\ M + 1 + (n - 1) <= L
      BY <1>1
    <3>2. f[M + 1 + (n - 1)] = <<>>
      BY <1>10, <3>1
    <3>. QED  BY <1>1, <3>1, <3>2 DEF Appends
  <2>. QED  BY <2>1, <2>2, <2>3
<1>. HIDE DEF U, V, H, Z
<1>14. U = (H \o V) \o Z
  <2>2. U \in Seq(Seq(S)) /\ V \in Seq(Seq(S)) /\ Len(U) = L /\ Len(V) = M
    BY <1>4, <1>5, Zenon DEF U, V, L, M
  <2>3. /\ Len(U) = Len(H) + Len(V) + Len(Z)
        /\ \A n \in 1 .. Len(H) : U[n] = H[n]
        /\ \A n \in 1 .. Len(V) : U[Len(H) + n] = V[n]
        /\ \A n \in 1 .. Len(Z) : U[Len(H) + Len(V) + n] = Z[n]
    <3>1. Len(U) = Len(H) + Len(V) + Len(Z)
      BY <1>1, <1>11, <1>12, <2>2
    <3>2. \A n \in 1 .. Len(H) : U[n] = H[n]
      BY <1>11, <1>13
    <3>3. \A n \in 1 .. Len(V) : U[Len(H) + n] = V[n]
      BY <1>11, <1>13, <2>2, Zenon
    <3>4. \A n \in 1 .. Len(Z) : U[Len(H) + Len(V) + n] = Z[n]
      BY <1>11, <1>12, <1>13, <2>2, Zenon
    <3>. QED  BY <3>1, <3>2, <3>3, <3>4
  <2>. DEFINE W == Seq(S)
  <2>4. U \in Seq(W) /\ V \in Seq(W) /\ H \in Seq(W) /\ Z \in Seq(W)
    BY <1>11, <1>12, <2>2, Zenon
  <2>. HIDE DEF W
  <2>5. Covers(U, H, V, Z)
    BY <2>3, Zenon DEF Covers
  <2>6. MadeOf(U, H, V, Z)
    BY <2>4, <2>5, ThreeParts
  <2>. QED  BY <2>6, Zenon DEF MadeOf
<1>15. FlattenSeq(Z) = <<>>
  BY <1>12, FlattenNone
<1>16. FlattenSeq(H) = Out[s]
  BY <1>1, FlattenSmall, Zenon DEF H
<1>17. V \in Seq(Seq(S))
  BY <1>4, Zenon DEF V, M
<1>18. FlattenSeq(H \o V) = Out[s] \o FlattenSeq(V)
  BY <1>11, <1>16, <1>17, FlattenConcat, Zenon
<1>19. FlattenSeq(U) = (Out[s] \o FlattenSeq(V)) \o <<>>
  <2>. DEFINE W == Seq(S)
              HV == H \o V
  <2>1. H \in Seq(W) /\ V \in Seq(W)
    BY <1>11, <1>17, Zenon
  <2>2. HV \in Seq(W)
    <3>. HIDE DEF W
    <3>. QED  BY <2>1, Joined
  <2>3. HV \in Seq(Seq(S)) /\ Z \in Seq(Seq(S)) /\ U = HV \o Z
        /\ FlattenSeq(HV) = Out[s] \o FlattenSeq(V)
    BY <1>12, <1>14, <1>18, <2>2
  <2>. HIDE DEF HV, W
  <2>4. FlattenSeq(HV \o Z) = FlattenSeq(HV) \o FlattenSeq(Z)
    BY <2>3, FlattenConcat, Zenon
  <2>. QED  BY <1>15, <2>3, <2>4, Zenon
<1>20. FlattenSeq(V) \in Seq(S)
  BY <1>17, FlattenType, Zenon
<1>21. FlattenSeq(U) = Out[s] \o FlattenSeq(V)
  BY <1>1, <1>19, <1>20
<1>. QED  BY <1>2, <1>3, <1>21, Zenon DEF U, V, L, M, r, LoopUnfolds

=============================================================================
