---------------------------- MODULE RelayProofs ----------------------------
(***************************************************************************)
(* What Relay carries arrives: no key and no output is lost, doubled or    *)
(* out of order, for keys, output, buffers and -subst options of any size. *)
(***************************************************************************)
EXTENDS Relay, SeqProofs

-----------------------------------------------------------------------------
(* Parts of sequences *)

\* A sequence is its first n elements and those behind them.
LEMMA Cut ==
    ASSUME NEW S, NEW s \in Seq(S), NEW n \in 0 .. Len(s)
    PROVE  /\ FirstOf(s, n) \in Seq(S) /\ Len(FirstOf(s, n)) = n
           /\ Behind(s, n) \in Seq(S) /\ Len(Behind(s, n)) = Len(s) - n
           /\ \A k \in 1 .. n : FirstOf(s, n)[k] = s[k]
           /\ \A k \in 1 .. Len(s) - n : Behind(s, n)[k] = s[n + k]
           /\ s = FirstOf(s, n) \o Behind(s, n)
<1>1. /\ FirstOf(s, n) \in Seq(S) /\ Len(FirstOf(s, n)) = n
      /\ \A k \in 1 .. n : FirstOf(s, n)[k] = s[k]
  BY DEF FirstOf
<1>2. /\ Behind(s, n) \in Seq(S) /\ Len(Behind(s, n)) = Len(s) - n
      /\ \A k \in 1 .. Len(s) - n : Behind(s, n)[k] = s[n + k]
  BY DEF Behind
<1>. DEFINE a == FirstOf(s, n)
            b == Behind(s, n)
<1>3. s = a \o b
  <2>. HIDE DEF a, b
  <2>1. a \in Seq(S) /\ b \in Seq(S) /\ Len(a) = n /\ Len(b) = Len(s) - n
    BY <1>1, <1>2 DEF a, b
  <2>2. a \o b \in Seq(S) /\ Len(a \o b) = Len(s)
    BY <2>1
  <2>3. ASSUME NEW k \in 1 .. Len(s) PROVE s[k] = (a \o b)[k]
    <3>1. CASE k <= n
      <4>1. (a \o b)[k] = a[k] /\ a[k] = s[k]
        BY <1>1, <2>1, <3>1 DEF a
      <4>. QED  BY <4>1
    <3>2. CASE k > n
      <4>1. k - n \in 1 .. Len(s) - n /\ n + (k - n) = k
        BY <3>2
      <4>2. (a \o b)[k] = b[k - n]
        BY <2>1, <3>2
      <4>3. b[k - n] = s[n + (k - n)]
        BY <1>2, <4>1, Zenon DEF b
      <4>. QED  BY <4>1, <4>2, <4>3
    <3>3. k <= n \/ k > n
      OBVIOUS
    <3>. QED  BY <3>1, <3>2, <3>3, Zenon
  <2>. QED  BY <2>2, <2>3, SameSeq
<1>. QED  BY <1>1, <1>2, <1>3

\* a and b are s, cut behind its first n elements.
IsCut(S, s, n, a, b) ==
    a \in Seq(S) /\ b \in Seq(S) /\ Len(a) = n /\ Len(b) = Len(s) - n /\ s = a \o b

\* FirstOf() and Behind() cut a sequence.
LEMMA CutInTwo ==
    ASSUME NEW S, NEW s \in Seq(S), NEW n \in 0 .. Len(s)
    PROVE  IsCut(S, s, n, FirstOf(s, n), Behind(s, n))
BY Cut DEF IsCut

\* What was put together can be taken apart.
LEMMA CutJoined ==
    ASSUME NEW S, NEW a \in Seq(S), NEW b \in Seq(S)
    PROVE  FirstOf(a \o b, Len(a)) = a /\ Behind(a \o b, Len(a)) = b
<1>. DEFINE s == a \o b
<1>1. /\ s \in Seq(S) /\ Len(s) = Len(a) + Len(b) /\ Len(a) \in Nat /\ Len(b) \in Nat
      /\ \A k \in 1 .. Len(a) : s[k] = a[k]
      /\ \A k \in 1 .. Len(b) : s[Len(a) + k] = b[k]
  BY Joined
<1>. HIDE DEF s
<1>2. Len(a) \in 0 .. Len(s) /\ Len(s) - Len(a) = Len(b)
  BY <1>1
<1>3. /\ FirstOf(s, Len(a)) \in Seq(S) /\ Len(FirstOf(s, Len(a))) = Len(a)
      /\ Behind(s, Len(a)) \in Seq(S) /\ Len(Behind(s, Len(a))) = Len(b)
      /\ \A k \in 1 .. Len(a) : FirstOf(s, Len(a))[k] = s[k]
      /\ \A k \in 1 .. Len(b) : Behind(s, Len(a))[k] = s[Len(a) + k]
  <2>. DEFINE n == Len(a)
  <2>1. s \in Seq(S) /\ n \in 0 .. Len(s)
    BY <1>1, <1>2
  <2>. HIDE DEF n
  <2>2. /\ FirstOf(s, n) \in Seq(S) /\ Len(FirstOf(s, n)) = n
        /\ Behind(s, n) \in Seq(S) /\ Len(Behind(s, n)) = Len(s) - n
        /\ \A k \in 1 .. n : FirstOf(s, n)[k] = s[k]
        /\ \A k \in 1 .. Len(s) - n : Behind(s, n)[k] = s[n + k]
    BY <2>1, Cut, Zenon
  <2>. QED  BY <1>2, <2>2, Zenon DEF n
<1>4. FirstOf(s, Len(a)) = a
  BY <1>1, <1>3, SameSeq
<1>5. Behind(s, Len(a)) = b
  BY <1>1, <1>3, SameSeq
<1>. QED  BY <1>4, <1>5 DEF s

\* The ways to put four sequences together.
Regrouped(a, b, c, d) == (a \o (b \o c)) \o d = (a \o b) \o (c \o d)

\* All of them are the same.
LEMMA Regroup ==
    ASSUME NEW S, NEW a \in Seq(S), NEW b \in Seq(S), NEW c \in Seq(S), NEW d \in Seq(S)
    PROVE  Regrouped(a, b, c, d)
<1>1. Grouped(a, b, c)
  BY Group3
<1>2. a \o b \in Seq(S)
  OBVIOUS
<1>. DEFINE e == a \o b
<1>3. Grouped(e, c, d)
  <2>1. e \in Seq(S)
    BY <1>2
  <2>. HIDE DEF e
  <2>. QED  BY <2>1, Group3
<1>. QED  BY <1>1, <1>3, Zenon DEF Grouped, Regrouped, e

-----------------------------------------------------------------------------
(* Messages in a stream *)

\* Carried() as a loop: how many elements its turn takes, what it leaves and
\* what it appends.
Taken(in) == Min({1 + in[1].v, Len(in)})
CarriedRest == [in \in Seq(Element) |-> IF in = <<>> THEN <<>> ELSE Behind(in, Taken(in))]
CarriedOut(tag) ==
    [in \in Seq(Element) |-> IF in # <<>> /\ in[1].t = tag THEN Value(FirstOf(in, Taken(in))) ELSE <<>>]

\* The values behind the header.
LEMMA ValueType ==
    ASSUME NEW in \in Seq(Element), in # <<>>
    PROVE  /\ Value(in) \in Seq(Nat) /\ Len(Value(in)) = Len(in) - 1
           /\ \A k \in 1 .. Len(in) - 1 : Value(in)[k] = in[k + 1].v
<1>. DEFINE m == Len(in) - 1
<1>1. m \in Nat
  OBVIOUS
<1>2. \A k \in 1 .. m : in[k + 1].v \in Nat
  <2>. TAKE k \in 1 .. m
  <2>1. in[k + 1] \in Element
    OBVIOUS
  <2>. QED  BY <2>1 DEF Element
<1>3. Value(in) = [k \in 1 .. m |-> in[k + 1].v]
  BY DEF Value
<1>. HIDE DEF m
<1>4. Value(in) \in [1 .. m -> Nat]
  BY <1>2, <1>3
<1>5. Value(in) \in Seq(Nat) /\ Len(Value(in)) = m
  BY <1>1, <1>4, IsSequence
<1>. QED  BY <1>3, <1>5 DEF m

\* A turn of Carried() takes at least the header, and no more than there is.
LEMMA TakenRange ==
    ASSUME NEW in \in Seq(Element), in # <<>>
    PROVE  /\ Taken(in) \in 1 .. Len(in)
           /\ Taken(in) = IF 1 + in[1].v <= Len(in) THEN 1 + in[1].v ELSE Len(in)
<1>1. in[1] \in Element /\ Len(in) \in Nat /\ Len(in) >= 1
  OBVIOUS
<1>2. in[1].v \in Nat
  BY <1>1 DEF Element
<1>3. Taken(in) = IF 1 + in[1].v <= Len(in) THEN 1 + in[1].v ELSE Len(in)
  BY <1>1, <1>2, MinTwo DEF Taken
<1>. QED  BY <1>1, <1>2, <1>3

\* Carried() is such a loop.
LEMMA CarriedTurns ==
    ASSUME NEW tag
    PROVE  /\ IsTurn(CarriedRest, CarriedOut(tag), Element, Nat)
           /\ \A s : Carried(tag, s) = Loop(CarriedRest, CarriedOut(tag), s)
<1>1. ASSUME NEW in \in Seq(Element), in # <<>>
      PROVE  /\ Behind(in, Taken(in)) \in Seq(Element) /\ Len(Behind(in, Taken(in))) < Len(in)
             /\ Value(FirstOf(in, Taken(in))) \in Seq(Nat)
  <2>. DEFINE n == Taken(in)
              a == FirstOf(in, n)
  <2>1. n \in 1 .. Len(in) /\ n \in 0 .. Len(in) /\ Len(in) \in Nat
    BY <1>1, TakenRange
  <2>. HIDE DEF n
  <2>2. /\ a \in Seq(Element) /\ Len(a) = n
        /\ Behind(in, n) \in Seq(Element) /\ Len(Behind(in, n)) = Len(in) - n
    BY <2>1, Cut
  <2>3. a # <<>>
    BY <2>1, <2>2
  <2>. HIDE DEF a
  <2>4. Value(a) \in Seq(Nat)
    BY <2>2, <2>3, ValueType
  <2>5. Len(Behind(in, n)) < Len(in)
    BY <2>1, <2>2
  <2>. QED  BY <2>2, <2>4, <2>5 DEF n, a
<1>2. <<>> \in Seq(Element) /\ <<>> \in Seq(Nat)
  OBVIOUS
<1>3. CarriedRest \in [Seq(Element) -> Seq(Element)] /\ CarriedRest[<<>>] = <<>>
  BY <1>1, <1>2, Zenon DEF CarriedRest
<1>4. CarriedOut(tag) \in [Seq(Element) -> Seq(Nat)] /\ CarriedOut(tag)[<<>>] = <<>>
  BY <1>1, <1>2, Zenon DEF CarriedOut
<1>5. \A x \in Seq(Element) : x # <<>> => Len(CarriedRest[x]) < Len(x)
  BY <1>1, Zenon DEF CarriedRest
<1>6. \A s : Carried(tag, s) = Loop(CarriedRest, CarriedOut(tag), s)
  BY Zenon DEF Carried, CarriedRest, CarriedOut, Taken
<1>. QED  BY <1>3, <1>4, <1>5, <1>6, Zenon DEF IsTurn

\* What a stream carries is a sequence, the empty stream carries nothing.
LEMMA CarriedType ==
    ASSUME NEW tag, NEW s \in Seq(Element)
    PROVE  Carried(tag, s) \in Seq(Nat) /\ Carried(tag, <<>>) = <<>>
<1>1. IsTurn(CarriedRest, CarriedOut(tag), Element, Nat)
  BY CarriedTurns
<1>2. Loop(CarriedRest, CarriedOut(tag), s) \in Seq(Nat)
  BY <1>1, LoopType
<1>3. Loop(CarriedRest, CarriedOut(tag), <<>>) = <<>>
  BY LoopEmpty, Zenon
<1>4. \A x : Carried(tag, x) = Loop(CarriedRest, CarriedOut(tag), x)
  BY CarriedTurns
<1>. QED  BY <1>2, <1>3, <1>4, Zenon

\* The first message of a stream, or what is there of it, and the others.
LEMMA CarriedFirst ==
    ASSUME NEW tag, NEW s \in Seq(Element), s # <<>>
    PROVE  Carried(tag, s) = (IF s[1].t = tag THEN Value(FirstOf(s, Taken(s))) ELSE <<>>)
                             \o Carried(tag, Behind(s, Taken(s)))
<1>1. IsTurn(CarriedRest, CarriedOut(tag), Element, Nat)
  BY CarriedTurns
<1>2. Loop(CarriedRest, CarriedOut(tag), s)
         = CarriedOut(tag)[s] \o Loop(CarriedRest, CarriedOut(tag), CarriedRest[s])
  <2>1. LoopUnfolds(CarriedRest, CarriedOut(tag), s)
    BY <1>1, LoopTurn
  <2>. QED  BY <2>1, Zenon DEF LoopUnfolds
<1>3. \A x : Carried(tag, x) = Loop(CarriedRest, CarriedOut(tag), x)
  BY CarriedTurns
<1>4. /\ CarriedOut(tag)[s] = IF s[1].t = tag THEN Value(FirstOf(s, Taken(s))) ELSE <<>>
      /\ CarriedRest[s] = Behind(s, Taken(s))
  BY Zenon DEF CarriedOut, CarriedRest
<1>. QED  BY <1>2, <1>3, <1>4, Zenon

\* What a message carries.
Part(tag, in) == IF in[1].t = tag THEN Value(in) ELSE <<>>

\* It is a sequence of numbers.
LEMMA PartType ==
    ASSUME NEW tag, NEW in \in Seq(Element), in # <<>>
    PROVE  Part(tag, in) \in Seq(Nat)
<1>1. Value(in) \in Seq(Nat) /\ <<>> \in Seq(Nat)
  BY ValueType
<1>. QED  BY <1>1, Zenon DEF Part

\* A whole message at the front of a stream.
LEMMA CarriedWhole ==
    ASSUME NEW tag, NEW in \in Seq(Element), NEW r \in Seq(Element), in # <<>>,
           Len(in) = 1 + in[1].v
    PROVE  Carried(tag, in \o r) = Part(tag, in) \o Carried(tag, r)
<1>. DEFINE s == in \o r
<1>1. s \in Seq(Element) /\ s # <<>> /\ Len(s) = Len(in) + Len(r) /\ s[1] = in[1]
      /\ Len(in) \in Nat /\ Len(r) \in Nat
  <2>1. s \in Seq(Element) /\ Len(s) = Len(in) + Len(r) /\ Len(in) \in Nat /\ Len(r) \in Nat
    OBVIOUS
  <2>2. Len(in) # 0
    OBVIOUS
  <2>3. s # <<>> /\ s[1] = in[1]
    BY <2>1, <2>2
  <2>. QED  BY <2>1, <2>3
<1>2. FirstOf(s, Len(in)) = in /\ Behind(s, Len(in)) = r
  BY CutJoined
<1>. HIDE DEF s
<1>3. Taken(s) = Len(in)
  <2>1. Taken(s) = IF 1 + s[1].v <= Len(s) THEN 1 + s[1].v ELSE Len(s)
    BY <1>1, TakenRange
  <2>. QED  BY <1>1, <2>1
<1>4. Carried(tag, s) = (IF s[1].t = tag THEN Value(FirstOf(s, Taken(s))) ELSE <<>>)
                         \o Carried(tag, Behind(s, Taken(s)))
  BY <1>1, CarriedFirst
<1>. QED  BY <1>1, <1>2, <1>3, <1>4, Zenon DEF s, Part

\* A stream of messages, of which the last may be cut off: every header is
\* followed by as many bytes as it says, and they by a header.
FramedAt(s, i) ==
    s[i].t # "byte" =>
       /\ \A j \in (i + 1) .. (i + s[i].v) : j <= Len(s) => s[j].t = "byte"
       /\ i + s[i].v + 1 <= Len(s) => s[i + s[i].v + 1].t # "byte"
Framed(s) ==
    /\ s # <<>> => s[1].t # "byte"
    /\ \A i \in 1 .. Len(s) : FramedAt(s, i)

\* The last message is not cut off.
Complete(s) == \A i \in 1 .. Len(s) : s[i].t # "byte" => i + s[i].v <= Len(s)

\* The elements are records with a natural number in v.
LEMMA ElementAt ==
    ASSUME NEW s \in Seq(Element), NEW i \in 1 .. Len(s)
    PROVE  s[i] \in Element /\ s[i].v \in Nat
<1>1. s[i] \in Element
  OBVIOUS
<1>. QED  BY <1>1 DEF Element

\* What follows a whole message is a stream of messages too.
LEMMA AfterWhole ==
    ASSUME NEW in \in Seq(Element), NEW r \in Seq(Element), in # <<>>,
           Len(in) = 1 + in[1].v, Framed(in \o r)
    PROVE  /\ Framed(r)
           /\ Complete(in \o r) => Complete(r)
           /\ in[1].t # "byte" /\ \A k \in 2 .. Len(in) : in[k].t = "byte"
<1>. DEFINE s == in \o r
            n == Len(in)
<1>1. /\ s \in Seq(Element) /\ Len(s) = n + Len(r) /\ n \in Nat /\ Len(r) \in Nat
      /\ \A k \in 1 .. n : s[k] = in[k]
      /\ \A k \in 1 .. Len(r) : s[n + k] = r[k]
  BY Joined
<1>0. n # 0 /\ n = 1 + in[1].v
  OBVIOUS
<1>2. Framed(s)
  OBVIOUS
<1>. HIDE DEF s, n
<1>3. s # <<>> /\ 1 \in 1 .. Len(s) /\ 1 \in 1 .. n /\ s[1] = in[1]
  BY <1>0, <1>1
<1>4. s[1].t # "byte" /\ FramedAt(s, 1)
  BY <1>2, <1>3 DEF Framed
<1>5. /\ \A j \in 2 .. n : s[j].t = "byte"
      /\ n + 1 <= Len(s) => s[n + 1].t # "byte"
  <2>1. 1 + s[1].v = n
    BY <1>0, <1>3
  <2>2. /\ \A j \in (1 + 1) .. (1 + s[1].v) : j <= Len(s) => s[j].t = "byte"
        /\ 1 + s[1].v + 1 <= Len(s) => s[1 + s[1].v + 1].t # "byte"
    BY <1>4 DEF FramedAt
  <2>3. /\ \A j \in (1 + 1) .. n : j <= Len(s) => s[j].t = "byte"
        /\ n + 1 <= Len(s) => s[n + 1].t # "byte"
    BY <2>1, <2>2, Zenon
  <2>. QED  BY <1>1, <2>3
<1>6. in[1].t # "byte" /\ \A k \in 2 .. n : in[k].t = "byte"
  BY <1>1, <1>3, <1>4, <1>5
<1>7. r # <<>> => r[1].t # "byte"
  <2>. SUFFICES ASSUME r # <<>> PROVE r[1].t # "byte"
    OBVIOUS
  <2>1. 1 \in 1 .. Len(r)
    BY <1>1
  <2>. QED  BY <1>1, <1>5, <2>1
<1>8. ASSUME NEW i \in 1 .. Len(r) PROVE FramedAt(r, i)
  <2>. SUFFICES ASSUME r[i].t # "byte"
                PROVE  /\ \A j \in (i + 1) .. (i + r[i].v) : j <= Len(r) => r[j].t = "byte"
                       /\ i + r[i].v + 1 <= Len(r) => r[i + r[i].v + 1].t # "byte"
    BY DEF FramedAt
  <2>1. n + i \in 1 .. Len(s) /\ s[n + i] = r[i] /\ r[i].v \in Nat
    BY <1>1, ElementAt
  <2>2. FramedAt(s, n + i)
    BY <1>2, <2>1 DEF Framed
  <2>3. /\ \A j \in (n + i + 1) .. (n + i + r[i].v) : j <= Len(s) => s[j].t = "byte"
        /\ n + i + r[i].v + 1 <= Len(s) => s[n + i + r[i].v + 1].t # "byte"
    BY <2>1, <2>2 DEF FramedAt
  <2>4. ASSUME NEW j \in (i + 1) .. (i + r[i].v), j <= Len(r) PROVE r[j].t = "byte"
    <3>1. j \in 1 .. Len(r) /\ n + j \in (n + i + 1) .. (n + i + r[i].v) /\ n + j <= Len(s)
      BY <1>1, <2>1, <2>4
    <3>. QED  BY <1>1, <2>3, <3>1
  <2>5. ASSUME i + r[i].v + 1 <= Len(r) PROVE r[i + r[i].v + 1].t # "byte"
    <3>1. /\ i + r[i].v + 1 \in 1 .. Len(r) /\ n + i + r[i].v + 1 <= Len(s)
          /\ n + (i + r[i].v + 1) = n + i + r[i].v + 1
      <4>. DEFINE v == r[i].v
                  l == Len(r)
      <4>1. v \in Nat /\ l \in Nat /\ i \in 1 .. l /\ n \in Nat /\ Len(s) = n + l /\ i + v + 1 <= l
        BY <1>1, <2>1, <2>5
      <4>. HIDE DEF v, l
      <4>2. /\ i + v + 1 \in 1 .. l /\ n + i + v + 1 <= n + l
            /\ n + (i + v + 1) = n + i + v + 1
        BY <4>1
      <4>. QED  BY <4>1, <4>2, Zenon DEF v, l
    <3>. QED  BY <1>1, <2>3, <3>1
  <2>. QED  BY <2>4, <2>5
<1>9. ASSUME Complete(s) PROVE Complete(r)
  <2>. SUFFICES ASSUME NEW i \in 1 .. Len(r), r[i].t # "byte" PROVE i + r[i].v <= Len(r)
    BY DEF Complete
  <2>1. n + i \in 1 .. Len(s) /\ s[n + i] = r[i] /\ r[i].v \in Nat
    BY <1>1, ElementAt
  <2>2. n + i + r[i].v <= Len(s)
    BY <1>9, <2>1 DEF Complete
  <2>. QED  BY <1>1, <2>1, <2>2
<1>10. Framed(r)
  BY <1>7, <1>8 DEF Framed
<1>. QED  BY <1>6, <1>9, <1>10 DEF s, n

\* A stream that is cut off is still one.
LEMMA FramedFront ==
    ASSUME NEW a \in Seq(Element), NEW b \in Seq(Element), Framed(a \o b)
    PROVE  Framed(a)
<1>. DEFINE s == a \o b
<1>1. /\ s \in Seq(Element) /\ Len(s) = Len(a) + Len(b) /\ Len(a) \in Nat /\ Len(b) \in Nat
      /\ \A k \in 1 .. Len(a) : s[k] = a[k]
  BY Joined
<1>2. Framed(s)
  OBVIOUS
<1>. HIDE DEF s
<1>3. a # <<>> => a[1].t # "byte"
  <2>. SUFFICES ASSUME a # <<>> PROVE a[1].t # "byte"
    OBVIOUS
  <2>1. 1 \in 1 .. Len(a) /\ s # <<>>
    BY <1>1
  <2>. QED  BY <1>1, <1>2, <2>1 DEF Framed
<1>4. ASSUME NEW i \in 1 .. Len(a) PROVE FramedAt(a, i)
  <2>1. i \in 1 .. Len(s) /\ s[i] = a[i] /\ a[i].v \in Nat
    BY <1>1, ElementAt
  <2>2. FramedAt(s, i)
    BY <1>2, <2>1 DEF Framed
  <2>. SUFFICES ASSUME a[i].t # "byte"
                PROVE  /\ \A j \in (i + 1) .. (i + a[i].v) : j <= Len(a) => a[j].t = "byte"
                       /\ i + a[i].v + 1 <= Len(a) => a[i + a[i].v + 1].t # "byte"
    BY DEF FramedAt
  <2>3. /\ \A j \in (i + 1) .. (i + a[i].v) : j <= Len(s) => s[j].t = "byte"
        /\ i + a[i].v + 1 <= Len(s) => s[i + a[i].v + 1].t # "byte"
    BY <2>1, <2>2 DEF FramedAt
  <2>4. ASSUME NEW j \in (i + 1) .. (i + a[i].v), j <= Len(a) PROVE a[j].t = "byte"
    <3>1. j \in 1 .. Len(a) /\ j <= Len(s)
      BY <1>1, <2>1, <2>4
    <3>. QED  BY <1>1, <2>3, <3>1
  <2>5. ASSUME i + a[i].v + 1 <= Len(a) PROVE a[i + a[i].v + 1].t # "byte"
    <3>1. i + a[i].v + 1 \in 1 .. Len(a) /\ i + a[i].v + 1 <= Len(s)
      BY <1>1, <2>1, <2>5
    <3>. QED  BY <1>1, <2>3, <3>1
  <2>. QED  BY <2>4, <2>5
<1>. QED  BY <1>3, <1>4 DEF Framed

\* A message.
LEMMA FrameType ==
    ASSUME NEW tag \in {"PASS", "WINCH", "INPUT", "OUTPUT", "DISCONN"}, NEW x \in Seq(Nat)
    PROVE  LET f == Frame(tag, x)
           IN  /\ f \in Seq(Element) /\ f # <<>> /\ Len(f) = 1 + Len(x)
               /\ f[1] = Hdr(tag, Len(x)) /\ f[1].t = tag /\ f[1].v = Len(x)
               /\ \A k \in 1 .. Len(x) : f[1 + k].t = "byte" /\ f[1 + k].v = x[k]
               /\ Value(f) = x
<1>. DEFINE h == <<Hdr(tag, Len(x))>>
            b == Bytes(x)
            f == Frame(tag, x)
<1>1. Hdr(tag, Len(x)) \in Element /\ Hdr(tag, Len(x)).t = tag /\ Hdr(tag, Len(x)).v = Len(x)
  BY DEF Hdr, Element
<1>2. h \in Seq(Element) /\ Len(h) = 1 /\ h[1] = Hdr(tag, Len(x))
  BY <1>1
<1>3. b \in Seq(Element) /\ Len(b) = Len(x) /\ \A k \in 1 .. Len(x) : b[k].t = "byte" /\ b[k].v = x[k]
  <2>0. DOMAIN x = 1 .. Len(x) /\ Len(x) \in Nat
    OBVIOUS
  <2>1. \A k \in 1 .. Len(x) : [t |-> "byte", v |-> x[k]] \in Element
    BY DEF Element
  <2>2. b = [k \in 1 .. Len(x) |-> [t |-> "byte", v |-> x[k]]]
    BY <2>0 DEF Bytes
  <2>3. b \in [1 .. Len(x) -> Element] /\ \A k \in 1 .. Len(x) : b[k] = [t |-> "byte", v |-> x[k]]
    BY <2>1, <2>2
  <2>. HIDE DEF b
  <2>4. b \in Seq(Element) /\ Len(b) = Len(x)
    BY <2>0, <2>3, IsSequence
  <2>. QED  BY <2>3, <2>4
<1>4. f = h \o b
  BY DEF Frame
<1>. HIDE DEF f, h, b
<1>5. /\ f \in Seq(Element) /\ Len(f) = 1 + Len(x)
      /\ f[1] = h[1]
      /\ \A k \in 1 .. Len(x) : f[1 + k] = b[k]
  <2>1. /\ h \o b \in Seq(Element) /\ Len(h \o b) = Len(h) + Len(b)
        /\ \A k \in 1 .. Len(h) : (h \o b)[k] = h[k]
        /\ \A k \in 1 .. Len(b) : (h \o b)[Len(h) + k] = b[k]
    <3>1. h \in Seq(Element) /\ b \in Seq(Element)
      BY <1>2, <1>3
    <3>. QED  BY <3>1, Joined
  <2>2. 1 \in 1 .. 1
    OBVIOUS
  <2>. QED  BY <1>2, <1>3, <1>4, <2>1, <2>2, Zenon
<1>6. f # <<>>
  BY <1>5
<1>7. Value(f) = x
  <2>1. /\ Value(f) \in Seq(Nat) /\ Len(Value(f)) = Len(f) - 1
        /\ \A k \in 1 .. Len(f) - 1 : Value(f)[k] = f[k + 1].v
    BY <1>5, <1>6, ValueType
  <2>2. Len(Value(f)) = Len(x) /\ \A k \in 1 .. Len(x) : Value(f)[k] = x[k]
    <3>1. Len(f) - 1 = Len(x)
      BY <1>5
    <3>2. \A k \in 1 .. Len(x) : k + 1 = 1 + k
      OBVIOUS
    <3>3. Len(Value(f)) = Len(x) /\ \A k \in 1 .. Len(x) : Value(f)[k] = f[k + 1].v
      BY <2>1, <3>1, Zenon
    <3>4. \A k \in 1 .. Len(x) : f[k + 1].v = x[k]
      BY <1>3, <1>5, <3>2
    <3>. QED  BY <3>3, <3>4, Zenon
  <2>. QED  BY <2>1, <2>2, SameSeq
<1>8. \A k \in 1 .. Len(x) : f[1 + k].t = "byte" /\ f[1 + k].v = x[k]
  BY <1>3, <1>5
<1>9. f[1] = Hdr(tag, Len(x)) /\ f[1].t = tag /\ f[1].v = Len(x)
  BY <1>1, <1>2, <1>5
<1>. QED  BY <1>5, <1>6, <1>7, <1>8, <1>9, Zenon DEF f

\* A message can follow a stream that is not cut off.
LEMMA FramedAppend ==
    ASSUME NEW s \in Seq(Element), Framed(s), Complete(s), NEW x \in Seq(Nat),
           NEW tag \in {"PASS", "WINCH", "INPUT", "OUTPUT", "DISCONN"}
    PROVE  Framed(s \o Frame(tag, x)) /\ Complete(s \o Frame(tag, x))
<1>. DEFINE f == Frame(tag, x)
            u == s \o f
            n == Len(s)
            m == Len(x)
<1>1. /\ f \in Seq(Element) /\ Len(f) = 1 + m /\ f[1].t = tag /\ f[1].v = m
      /\ \A k \in 1 .. m : f[1 + k].t = "byte"
  BY FrameType
<1>. HIDE DEF f
<1>2. /\ u \in Seq(Element) /\ Len(u) = n + (1 + m) /\ n \in Nat /\ m \in Nat
      /\ \A k \in 1 .. n : u[k] = s[k]
      /\ \A k \in 1 .. 1 + m : u[n + k] = f[k]
  <2>1. /\ u \in Seq(Element) /\ Len(u) = Len(s) + Len(f) /\ Len(s) \in Nat /\ Len(x) \in Nat
        /\ \A k \in 1 .. Len(s) : u[k] = s[k]
        /\ \A k \in 1 .. Len(f) : u[Len(s) + k] = f[k]
    <3>1. f \in Seq(Element)
      BY <1>1
    <3>. QED  BY <3>1, Joined
  <2>. HIDE DEF u
  <2>. QED  BY <1>1, <2>1, Zenon
<1>3. /\ u[n + 1].t = tag /\ u[n + 1].v = m
      /\ \A k \in (n + 2) .. (n + 1 + m) : u[k].t = "byte"
  <2>1. 1 \in 1 .. 1 + m
    BY <1>2
  <2>2. ASSUME NEW k \in (n + 2) .. (n + 1 + m) PROVE u[k].t = "byte"
    <3>1. k - n \in 1 .. 1 + m /\ n + (k - n) = k /\ k - n - 1 \in 1 .. m /\ 1 + (k - n - 1) = k - n
      BY <1>2
    <3>2. u[k] = f[k - n]
      BY <1>2, <3>1
    <3>3. f[1 + (k - n - 1)].t = "byte"
      BY <1>1, <3>1, Zenon
    <3>. QED  BY <3>1, <3>2, <3>3, Zenon
  <2>. QED  BY <1>1, <1>2, <2>1, <2>2
<1>4. tag # "byte"
  OBVIOUS
<1>. HIDE DEF u, n, m
<1>5. ASSUME NEW i \in 1 .. Len(u), u[i].t # "byte"
      PROVE  i + u[i].v <= Len(u) /\ FramedAt(u, i)
  <2>1. CASE i <= n
    <3>. DEFINE v == u[i].v
    <3>1. i \in 1 .. n /\ u[i] = s[i]
      BY <1>2, <2>1
    <3>2. v \in Nat /\ i + v <= n /\ FramedAt(s, i) /\ s[i].t # "byte"
      BY <1>5, <3>1, ElementAt DEF Framed, Complete, n
    <3>3. /\ \A j \in (i + 1) .. (i + v) : j <= n => s[j].t = "byte"
          /\ i + v + 1 <= n => s[i + v + 1].t # "byte"
      BY <3>1, <3>2 DEF FramedAt, n
    <3>. HIDE DEF v
    <3>4. \A j \in (i + 1) .. (i + v) : u[j].t = "byte"
      <4>. TAKE j \in (i + 1) .. (i + v)
      <4>1. j \in 1 .. n /\ j <= n
        BY <1>2, <3>1, <3>2
      <4>. QED  BY <1>2, <3>3, <4>1
    <3>5. u[i + v + 1].t # "byte"
      <4>1. CASE i + v + 1 <= n
        <5>1. i + v + 1 \in 1 .. n
          BY <1>2, <3>1, <3>2, <4>1
        <5>. QED  BY <1>2, <3>3, <4>1, <5>1
      <4>2. CASE i + v = n
        BY <1>3, <1>4, <4>2
      <4>. QED  BY <1>2, <3>1, <3>2, <4>1, <4>2
    <3>6. i + v <= Len(u)
      BY <1>2, <3>1, <3>2
    <3>. QED  BY <3>4, <3>5, <3>6 DEF FramedAt, v
  <2>2. CASE i = n + 1
    <3>0. u[i].v = m
      BY <1>3, <2>2, Zenon
    <3>1. i + u[i].v = Len(u) /\ u[i].v = m
      BY <1>2, <2>2, <3>0
    <3>2. \A j \in (i + 1) .. (i + m) : u[j].t = "byte"
      BY <1>2, <1>3, <2>2
    <3>3. ~ (i + m + 1 <= Len(u))
      BY <1>2, <2>2
    <3>. QED  BY <1>2, <3>1, <3>2, <3>3 DEF FramedAt
  <2>3. CASE i > n + 1
    <3>1. i \in (n + 2) .. (n + 1 + m)
      BY <1>2, <2>3
    <3>. QED  BY <1>3, <1>5, <3>1
  <2>. QED  BY <1>2, <2>1, <2>2, <2>3
<1>6. u[1].t # "byte"
  <2>1. CASE n = 0
    BY <1>3, <1>4, <2>1
  <2>2. CASE n # 0
    <3>1. 1 \in 1 .. n /\ s # <<>>
      BY <1>2, <2>2 DEF n
    <3>. QED  BY <1>2, <3>1 DEF Framed
  <2>. QED  BY <2>1, <2>2
<1>7. \A i \in 1 .. Len(u) : FramedAt(u, i)
  <2>. TAKE i \in 1 .. Len(u)
  <2>1. CASE u[i].t = "byte"
    BY <2>1 DEF FramedAt
  <2>2. CASE u[i].t # "byte"
    BY <1>5, <2>2
  <2>. QED  BY <2>1, <2>2
<1>8. Framed(u)
  BY <1>6, <1>7 DEF Framed
<1>9. Complete(u)
  BY <1>5 DEF Complete
<1>. QED  BY <1>8, <1>9 DEF u, f

\* The first message of a stream that is not cut off is whole.
LEMMA FirstWhole ==
    ASSUME NEW s \in Seq(Element), s # <<>>, Framed(s), Complete(s)
    PROVE  \E in \in Seq(Element), r \in Seq(Element) :
              /\ s = in \o r /\ in # <<>> /\ Len(in) = 1 + in[1].v /\ Len(r) < Len(s)
              /\ Framed(r) /\ Complete(r)
<1>. DEFINE n == 1 + s[1].v
            in == FirstOf(s, n)
            r == Behind(s, n)
<1>1. 1 \in 1 .. Len(s) /\ Len(s) \in Nat
  OBVIOUS
<1>2. s[1].v \in Nat /\ s[1].t # "byte"
  BY <1>1, ElementAt DEF Framed
<1>3. n \in 1 .. Len(s) /\ n \in 0 .. Len(s)
  BY <1>1, <1>2 DEF Complete
<1>. HIDE DEF n
<1>4. /\ in \in Seq(Element) /\ Len(in) = n
      /\ r \in Seq(Element) /\ Len(r) = Len(s) - n
      /\ \A k \in 1 .. n : in[k] = s[k]
      /\ s = in \o r
  BY <1>3, Cut
<1>. HIDE DEF in, r
<1>5. in # <<>> /\ in[1] = s[1]
  BY <1>3, <1>4
<1>6. Len(in) = 1 + in[1].v
  BY <1>4, <1>5 DEF n
<1>7. Framed(in \o r) /\ Complete(in \o r)
  BY <1>4
<1>8. Framed(r) /\ Complete(r)
  BY <1>4, <1>5, <1>6, <1>7, AfterWhole
<1>9. Len(r) < Len(s)
  BY <1>1, <1>3, <1>4
<1>. QED  BY <1>4, <1>5, <1>6, <1>8, <1>9, Zenon

\* Two streams carry what the one and then the other carries.
LEMMA CarriedConcat ==
    ASSUME NEW tag, NEW s \in Seq(Element), Framed(s), Complete(s), NEW t \in Seq(Element)
    PROVE  Carried(tag, s \o t) = Carried(tag, s) \o Carried(tag, t)
<1>. DEFINE P(x) == Carried(tag, x \o t) = Carried(tag, x) \o Carried(tag, t)
            T == {n \in Nat : \A x \in Seq(Element) :
                     Len(x) <= n /\ Framed(x) /\ Complete(x) => P(x)}
<1>0. Carried(tag, t) \in Seq(Nat)
  BY CarriedType
<1>1. ASSUME NEW x \in Seq(Element), x = <<>> PROVE P(x)
  <2>1. x \o t = t
    BY <1>1
  <2>2. Carried(tag, x) = <<>>
    BY <1>1, CarriedType
  <2>3. <<>> \o Carried(tag, t) = Carried(tag, t)
    BY <1>0
  <2>. QED  BY <2>1, <2>2, <2>3, Zenon
<1>2. 0 \in T
  <2>. SUFFICES ASSUME NEW x \in Seq(Element), Len(x) <= 0 PROVE P(x)
    OBVIOUS
  <2>1. x = <<>>
    OBVIOUS
  <2>. QED  BY <1>1, <2>1
<1>3. ASSUME NEW n \in Nat, n \in T PROVE n + 1 \in T
  <2>. HIDE DEF P
  <2>. SUFFICES ASSUME NEW x \in Seq(Element), Len(x) <= n + 1, Framed(x), Complete(x), x # <<>>
                PROVE  P(x)
    BY <1>1
  <2>1. PICK in \in Seq(Element), r \in Seq(Element) :
              /\ x = in \o r /\ in # <<>> /\ Len(in) = 1 + in[1].v /\ Len(r) < Len(x)
              /\ Framed(r) /\ Complete(r)
    BY FirstWhole
  <2>. DEFINE v == Part(tag, in)
              c == Carried(tag, r)
              d == Carried(tag, t)
  <2>2. Len(r) <= n
    BY <2>1
  <2>3. P(r)
    BY <1>3, <2>1, <2>2
  <2>4. x \o t = in \o (r \o t) /\ r \o t \in Seq(Element)
    <3>1. r \o t \in Seq(Element)
      OBVIOUS
    <3>2. (in \o r) \o t = in \o (r \o t)
      OBVIOUS
    <3>. QED  BY <2>1, <3>1, <3>2, Zenon
  <2>5. Carried(tag, in \o r) = v \o c
    BY <2>1, CarriedWhole, Zenon
  <2>6. Carried(tag, in \o (r \o t)) = v \o Carried(tag, r \o t)
    BY <2>1, <2>4, CarriedWhole, Zenon
  <2>7. v \in Seq(Nat) /\ c \in Seq(Nat) /\ d \in Seq(Nat)
    BY <1>0, <2>1, PartType, CarriedType
  <2>8. Carried(tag, r \o t) = c \o d
    BY <2>3 DEF P
  <2>. HIDE DEF v, c, d
  <2>9. (v \o c) \o d = v \o (c \o d)
    <3>1. Grouped(v, c, d)
      BY <2>7, Group3
    <3>. QED  BY <3>1, Zenon DEF Grouped
  <2>10. Carried(tag, x \o t) = (v \o c) \o d
    BY <2>4, <2>6, <2>8, <2>9, Zenon
  <2>11. Carried(tag, x \o t) = Carried(tag, x) \o d
    BY <2>1, <2>5, <2>10, Zenon
  <2>. QED  BY <2>11 DEF P, d
<1>. HIDE DEF T, P
<1>4. \A n \in Nat : n \in T
  BY <1>2, <1>3, EveryNat
<1>5. Len(s) \in Nat /\ Len(s) <= Len(s)
  OBVIOUS
<1>6. Len(s) \in T
  BY <1>4, <1>5
<1>. QED  BY <1>5, <1>6 DEF T, P

\* One message carries its value.
LEMMA CarriedFrame ==
    ASSUME NEW to, NEW x \in Seq(Nat),
           NEW tag \in {"PASS", "WINCH", "INPUT", "OUTPUT", "DISCONN"}
    PROVE  Carried(to, Frame(tag, x)) = IF tag = to THEN x ELSE <<>>
<1>. DEFINE f == Frame(tag, x)
<1>1. /\ f \in Seq(Element) /\ f # <<>> /\ Len(f) = 1 + Len(x) /\ f[1].t = tag /\ f[1].v = Len(x)
      /\ Value(f) = x
  BY FrameType
<1>. HIDE DEF f
<1>2. f \o <<>> = f /\ <<>> \in Seq(Element) /\ Len(f) = 1 + f[1].v
  BY <1>1
<1>3. Carried(to, f \o <<>>) = Part(to, f) \o Carried(to, <<>>)
  BY <1>1, <1>2, CarriedWhole, Zenon
<1>4. Carried(to, <<>>) = <<>>
  BY <1>2, CarriedType
<1>5. Part(to, f) = IF tag = to THEN x ELSE <<>>
  BY <1>1, Zenon DEF Part
<1>6. Part(to, f) \in Seq(Nat)
  BY <1>1, PartType
<1>7. Part(to, f) \o <<>> = Part(to, f)
  BY <1>6
<1>. QED  BY <1>2, <1>3, <1>4, <1>5, <1>7, Zenon DEF f

\* What follows adds to what a stream carries, and changes nothing in it.
LEMMA CarriedPrefix ==
    ASSUME NEW tag, NEW a \in Seq(Element), NEW b \in Seq(Element)
    PROVE  \E c \in Seq(Nat) : Carried(tag, a \o b) = Carried(tag, a) \o c
<1>. DEFINE P(x) == \E c \in Seq(Nat) : Carried(tag, x \o b) = Carried(tag, x) \o c
            T == {n \in Nat : \A x \in Seq(Element) : Len(x) <= n => P(x)}
<1>1. ASSUME NEW x \in Seq(Element), x = <<>> PROVE P(x)
  <2>1. Carried(tag, x \o b) \in Seq(Nat)
    <3>1. x \o b \in Seq(Element)
      OBVIOUS
    <3>. QED  BY <3>1, CarriedType
  <2>2. Carried(tag, x) = <<>>
    BY <1>1, CarriedType
  <2>3. <<>> \o Carried(tag, x \o b) = Carried(tag, x \o b)
    BY <2>1
  <2>. QED  BY <2>1, <2>2, <2>3, Zenon
<1>2. 0 \in T
  <2>. SUFFICES ASSUME NEW x \in Seq(Element), Len(x) <= 0 PROVE P(x)
    OBVIOUS
  <2>1. x = <<>>
    OBVIOUS
  <2>. QED  BY <1>1, <2>1
<1>3. ASSUME NEW n \in Nat, n \in T PROVE n + 1 \in T
  <2>. HIDE DEF P
  <2>. SUFFICES ASSUME NEW x \in Seq(Element), Len(x) <= n + 1, x # <<>> PROVE P(x)
    BY <1>1
  <2>. USE DEF P
  <2>0. Len(x) \in Nat /\ 1 \in 1 .. Len(x)
    OBVIOUS
  <2>1. x[1].v \in Nat
    BY <2>0, ElementAt
  <2>2. CASE 1 + x[1].v <= Len(x)
    <3>. DEFINE m == 1 + x[1].v
                in == FirstOf(x, m)
                r == Behind(x, m)
                v == Part(tag, in)
    <3>1. m \in 1 .. Len(x) /\ m \in 0 .. Len(x)
      BY <2>0, <2>1, <2>2
    <3>. HIDE DEF m
    <3>2. /\ in \in Seq(Element) /\ Len(in) = m
          /\ r \in Seq(Element) /\ Len(r) = Len(x) - m
          /\ \A k \in 1 .. m : in[k] = x[k]
          /\ x = in \o r
      BY <3>1, Cut
    <3>. HIDE DEF in, r
    <3>3. in # <<>> /\ in[1] = x[1]
      BY <3>1, <3>2
    <3>4. Len(in) = 1 + in[1].v
      BY <3>2, <3>3 DEF m
    <3>5. Len(r) <= n
      BY <2>0, <3>1, <3>2
    <3>6. PICK c \in Seq(Nat) : Carried(tag, r \o b) = Carried(tag, r) \o c
      BY <1>3, <3>2, <3>5
    <3>7. x \o b = in \o (r \o b) /\ r \o b \in Seq(Element)
      <4>1. in \in Seq(Element) /\ r \in Seq(Element)
        BY <3>2
      <4>2. Grouped(in, r, b)
        BY <4>1, Group3
      <4>3. r \o b \in Seq(Element)
        BY <4>1
      <4>. QED  BY <3>2, <4>2, <4>3, Zenon DEF Grouped
    <3>8. Carried(tag, in \o r) = v \o Carried(tag, r)
      BY <3>2, <3>3, <3>4, CarriedWhole, Zenon
    <3>9. Carried(tag, in \o (r \o b)) = v \o Carried(tag, r \o b)
      BY <3>2, <3>3, <3>4, <3>7, CarriedWhole, Zenon
    <3>10. v \in Seq(Nat) /\ Carried(tag, r) \in Seq(Nat)
      BY <3>2, <3>3, PartType, CarriedType, Zenon
    <3>. HIDE DEF v
    <3>11. (v \o Carried(tag, r)) \o c = v \o (Carried(tag, r) \o c)
      <4>. DEFINE d == Carried(tag, r)
      <4>1. v \in Seq(Nat) /\ d \in Seq(Nat) /\ c \in Seq(Nat)
        BY <3>10
      <4>. HIDE DEF d
      <4>2. (v \o d) \o c = v \o (d \o c)
        <5>1. Grouped(v, d, c)
          BY <4>1, Group3
        <5>. QED  BY <5>1, Zenon DEF Grouped
      <4>. QED  BY <4>2 DEF d
    <3>12. Carried(tag, x \o b) = Carried(tag, x) \o c
      BY <3>2, <3>6, <3>7, <3>8, <3>9, <3>11, Zenon
    <3>. QED  BY <3>12
  <2>3. CASE ~ (1 + x[1].v <= Len(x))
    <3>. DEFINE s == x \o b
                f == FirstOf(s, Taken(s))
                g == Carried(tag, Behind(s, Taken(s)))
    <3>1. s \in Seq(Element) /\ s # <<>> /\ s[1] = x[1] /\ Len(s) = Len(x) + Len(b) /\ Len(b) \in Nat
          /\ \A k \in 1 .. Len(x) : s[k] = x[k]
      <4>1. s \in Seq(Element) /\ Len(s) = Len(x) + Len(b) /\ Len(b) \in Nat
            /\ \A k \in 1 .. Len(x) : s[k] = x[k]
        BY Joined
      <4>2. s # <<>> /\ s[1] = x[1]
        BY <2>0, <4>1
      <4>. QED  BY <4>1, <4>2
    <3>2. Taken(x) = Len(x) /\ FirstOf(x, Taken(x)) = x /\ Behind(x, Taken(x)) = <<>>
      <4>1. Taken(x) = Len(x)
        BY <2>3, TakenRange
      <4>2. FirstOf(x, Len(x)) = x /\ Behind(x, Len(x)) = <<>>
        BY <2>0 DEF FirstOf, Behind
      <4>. QED  BY <4>1, <4>2
    <3>. HIDE DEF s
    <3>3. Taken(s) \in Len(x) .. Len(s) /\ Taken(s) \in 0 .. Len(s) /\ Taken(s) \in Nat
      <4>1. /\ Taken(s) \in 1 .. Len(s)
            /\ Taken(s) = IF 1 + s[1].v <= Len(s) THEN 1 + s[1].v ELSE Len(s)
        BY <3>1, TakenRange
      <4>. QED  BY <2>0, <2>1, <2>3, <3>1, <4>1
    <3>4. /\ f \in Seq(Element) /\ Len(f) = Taken(s) /\ \A k \in 1 .. Taken(s) : f[k] = s[k]
          /\ Behind(s, Taken(s)) \in Seq(Element)
      BY <3>1, <3>3, Cut
    <3>5. g \in Seq(Nat)
      BY <3>4, CarriedType
    <3>6. Carried(tag, s) = (IF s[1].t = tag THEN Value(f) ELSE <<>>) \o g
      BY <3>1, CarriedFirst
    <3>7. Carried(tag, x) = (IF x[1].t = tag THEN Value(x) ELSE <<>>) \o <<>>
      <4>1. Carried(tag, x) = (IF x[1].t = tag THEN Value(x) ELSE <<>>) \o Carried(tag, <<>>)
        BY <3>2, CarriedFirst
      <4>. QED  BY <4>1, CarriedType
    <3>. HIDE DEF f, g
    <3>8. f # <<>>
      BY <2>0, <3>3, <3>4
    <3>9. /\ Value(f) \in Seq(Nat) /\ Len(Value(f)) = Taken(s) - 1
          /\ \A k \in 1 .. Taken(s) - 1 : Value(f)[k] = f[k + 1].v
      BY <3>4, <3>8, ValueType
    <3>10. /\ Value(x) \in Seq(Nat) /\ Len(Value(x)) = Len(x) - 1
           /\ \A k \in 1 .. Len(x) - 1 : Value(x)[k] = x[k + 1].v
      BY ValueType
    <3>. DEFINE p == FirstOf(Value(f), Len(x) - 1)
                q == Behind(Value(f), Len(x) - 1)
    <3>11. /\ p \in Seq(Nat) /\ q \in Seq(Nat) /\ Value(f) = p \o q /\ Len(p) = Len(x) - 1
           /\ \A k \in 1 .. Len(x) - 1 : p[k] = Value(f)[k]
      <4>. DEFINE m == Len(x) - 1
                  w == Value(f)
      <4>1. m \in 0 .. Len(w) /\ w \in Seq(Nat)
        BY <2>0, <3>3, <3>9
      <4>. HIDE DEF m, w
      <4>2. /\ FirstOf(w, m) \in Seq(Nat) /\ Behind(w, m) \in Seq(Nat) /\ w = FirstOf(w, m) \o Behind(w, m)
            /\ Len(FirstOf(w, m)) = m /\ \A k \in 1 .. m : FirstOf(w, m)[k] = w[k]
        BY <4>1, Cut, Zenon
      <4>. QED  BY <4>2, Zenon DEF m, w
    <3>. HIDE DEF p, q
    <3>12. p = Value(x)
      <4>1. ASSUME NEW k \in 1 .. Len(x) - 1 PROVE p[k] = Value(x)[k]
        <5>1. k \in 1 .. Taken(s) - 1 /\ k + 1 \in 1 .. Len(x) /\ k + 1 \in 1 .. Taken(s)
          BY <2>0, <3>3
        <5>2. f[k + 1] = x[k + 1]
          BY <3>1, <3>4, <5>1
        <5>. QED  BY <3>9, <3>10, <3>11, <5>1, <5>2
      <4>. QED  BY <3>10, <3>11, <4>1, SameSeq
    <3>13. CASE x[1].t = tag
      <4>1. Carried(tag, s) = (Value(x) \o q) \o g /\ Carried(tag, x) = Value(x) \o <<>>
        BY <3>1, <3>6, <3>7, <3>11, <3>12, <3>13, Zenon
      <4>2. Value(x) \o <<>> = Value(x) /\ q \o g \in Seq(Nat)
        BY <3>5, <3>10, <3>11
      <4>3. (Value(x) \o q) \o g = Value(x) \o (q \o g)
        <5>. DEFINE w == Value(x)
        <5>1. w \in Seq(Nat) /\ q \in Seq(Nat) /\ g \in Seq(Nat)
          BY <3>5, <3>10, <3>11
        <5>. HIDE DEF w
        <5>2. (w \o q) \o g = w \o (q \o g)
          <6>1. Grouped(w, q, g)
            BY <5>1, Group3
          <6>. QED  BY <6>1, Zenon DEF Grouped
        <5>. QED  BY <5>2 DEF w
      <4>4. Carried(tag, s) = Carried(tag, x) \o (q \o g)
        BY <4>1, <4>2, <4>3, Zenon
      <4>. QED  BY <4>2, <4>4, Zenon DEF s
    <3>14. CASE x[1].t # tag
      <4>1. Carried(tag, s) = <<>> \o g /\ Carried(tag, x) = <<>> \o <<>>
        BY <3>1, <3>6, <3>7, <3>14, Zenon
      <4>2. Carried(tag, x) = <<>>
        BY <4>1
      <4>. QED  BY <3>5, <4>1, <4>2, Zenon DEF s
    <3>. QED  BY <3>13, <3>14
  <2>. QED  BY <2>2, <2>3
<1>. HIDE DEF T, P
<1>4. \A n \in Nat : n \in T
  BY <1>2, <1>3, EveryNat
<1>5. Len(a) \in Nat /\ Len(a) <= Len(a)
  OBVIOUS
<1>6. Len(a) \in T
  BY <1>4, <1>5
<1>. QED  BY <1>5, <1>6 DEF T, P

-----------------------------------------------------------------------------
(* One read() and one write() *)

\* A sequence of some elements is one of more elements.
LEMMA SeqSub ==
    ASSUME NEW S, NEW T, S \subseteq T, NEW s \in Seq(S)
    PROVE  s \in Seq(T)
<1>1. Len(s) \in Nat /\ s \in [1 .. Len(s) -> S]
  OBVIOUS
<1>2. s \in [1 .. Len(s) -> T]
  BY <1>1
<1>. QED  BY <1>1, <1>2, IsSequence

\* One read() of readn() went from in and sock to x and r.
IsRead(S, in, sock, x, r) ==
    /\ x \in Seq(S) /\ r \in Seq(S) /\ x # <<>>
    /\ Whole(x) => Len(x) = 1 + x[1].v
    /\ ~ Whole(x) => Missing(x) >= 1
    /\ \A t \in Seq(S) : (in \o sock) \o t = x \o (r \o t)

\* readn() takes no more than is missing of a message, and at least something;
\* nothing gets lost on the way.
LEMMA ReadPart ==
    ASSUME NEW S, S \subseteq Element, NEW in \in Seq(S), NEW sock \in Seq(S),
           Missing(in) >= 1, sock # <<>>, NEW n, n = ReadSize(sock, in),
           NEW x, x = in \o FirstOf(sock, n), NEW r, r = Behind(sock, n)
    PROVE  IsRead(S, in, sock, x, r)
<1>1. Len(in) \in Nat /\ Len(sock) \in Nat /\ Len(sock) >= 1
  OBVIOUS
<1>2. in \in Seq(Element)
  BY SeqSub
<1>3. Missing(in) \in Int
  <2>1. CASE in = <<>>
    BY <2>1 DEF Missing
  <2>2. CASE in # <<>>
    <3>1. in[1].v \in Nat
      <4>1. 1 \in 1 .. Len(in)
        BY <2>2
      <4>. QED  BY <1>2, <4>1, ElementAt
    <3>. QED  BY <1>1, <2>2, <3>1 DEF Missing
  <2>. QED  BY <2>1, <2>2
<1>4. n = IF Len(sock) <= Missing(in) THEN Len(sock) ELSE Missing(in)
  BY <1>1, <1>3, MinTwo DEF ReadSize
<1>5. n \in 1 .. Len(sock) /\ n \in 0 .. Len(sock) /\ n <= Missing(in)
  BY <1>1, <1>3, <1>4
<1>. DEFINE a == FirstOf(sock, n)
<1>6. a \in Seq(S) /\ Len(a) = n /\ r \in Seq(S) /\ sock = a \o r
  <2>1. n \in 0 .. Len(sock)
    BY <1>5
  <2>2. IsCut(S, sock, n, FirstOf(sock, n), Behind(sock, n))
    BY <2>1, CutInTwo
  <2>. QED  BY <2>2, Zenon DEF IsCut
<1>. HIDE DEF a
<1>7. x = in \o a
  BY DEF a
<1>8. x \in Seq(S) /\ Len(x) = Len(in) + n /\ x # <<>>
      /\ \A k \in 1 .. Len(in) : x[k] = in[k]
  <2>1. a \in Seq(S) /\ Len(a) = n
    BY <1>6
  <2>2. x \in Seq(S) /\ Len(x) = Len(in) + n /\ \A k \in 1 .. Len(in) : x[k] = in[k]
    <3>1. in \o a \in Seq(S) /\ Len(in \o a) = Len(in) + Len(a)
          /\ \A k \in 1 .. Len(in) : (in \o a)[k] = in[k]
      BY <2>1, Joined, Zenon
    <3>. QED  BY <1>7, <2>1, <3>1, Zenon
  <2>. QED  BY <1>1, <1>5, <2>2
<1>9. x \in Seq(Element) /\ 1 \in 1 .. Len(x) /\ Len(x) \in Nat
  BY <1>8, SeqSub
<1>10. x[1].v \in Nat
  BY <1>9, ElementAt
<1>11. Missing(x) = 1 + x[1].v - Len(x)
  BY <1>8, Zenon DEF Missing
<1>12. Missing(x) >= 0
  <2>1. CASE in = <<>>
    <3>1. Missing(in) = 1 /\ Len(in) = 0
      BY <2>1 DEF Missing
    <3>. DEFINE v == x[1].v
                l == Len(x)
    <3>2. v \in Nat /\ l = n /\ Missing(x) = 1 + v - l /\ n = 1
      BY <1>5, <1>8, <1>9, <1>10, <1>11, <3>1
    <3>. HIDE DEF v, l
    <3>. QED  BY <3>2
  <2>2. CASE in # <<>>
    <3>. DEFINE v == x[1].v
                l == Len(in)
    <3>1. in[1] = x[1]
      BY <1>8, <1>1, <2>2
    <3>2. Missing(in) = 1 + v - l
      BY <2>2, <3>1, Zenon DEF Missing
    <3>3. Missing(x) = 1 + v - (l + n) /\ v \in Nat /\ l \in Nat /\ n \in Nat /\ n <= 1 + v - l
      BY <1>1, <1>5, <1>8, <1>10, <1>11, <3>2
    <3>. HIDE DEF v, l
    <3>. QED  BY <3>3
  <2>. QED  BY <2>1, <2>2
<1>13. Missing(x) \in Int
  BY <1>9, <1>10, <1>11
<1>14. Whole(x) => Len(x) = 1 + x[1].v
  <2>. DEFINE v == x[1].v
              l == Len(x)
  <2>1. Whole(x) => 1 + v - l = 0
    BY <1>11 DEF Whole
  <2>2. v \in Nat /\ l \in Nat
    BY <1>9, <1>10
  <2>. HIDE DEF v, l
  <2>3. Whole(x) => l = 1 + v
    BY <2>1, <2>2
  <2>. QED  BY <2>3 DEF v, l
<1>15. ~ Whole(x) => Missing(x) >= 1
  <2>1. ~ Whole(x) => Missing(x) # 0
    BY <1>8 DEF Whole
  <2>. DEFINE m == Missing(x)
  <2>. HIDE DEF m
  <2>2. m \in Int /\ m >= 0 /\ (~ Whole(x) => m # 0)
    BY <1>12, <1>13, <2>1 DEF m
  <2>3. ~ Whole(x) => m >= 1
    BY <2>2
  <2>. QED  BY <2>3 DEF m
<1>16. ASSUME NEW t \in Seq(S) PROVE (in \o sock) \o t = x \o (r \o t)
  <2>1. a \in Seq(S) /\ r \in Seq(S)
    BY <1>6
  <2>2. Regrouped(in, a, r, t)
    BY <2>1, Regroup
  <2>. QED  BY <1>6, <1>7, <2>2, Zenon DEF Regrouped
<1>. QED  BY <1>6, <1>8, <1>14, <1>15, <1>16, Zenon DEF IsRead

\* One write() of writen() went from sock and out to x and r.
IsWrite(S, sock, out, n, x, r) ==
    /\ n \in 1 .. Len(out) /\ x \in Seq(S) /\ r \in Seq(S) /\ Len(r) = Len(out) - n
    /\ n = Len(out) => r = <<>> /\ x = sock \o out
    /\ \A t \in Seq(S) : (t \o x) \o r = (t \o sock) \o out

\* writen() moves something into the socket; nothing gets lost on the way.
LEMMA WritePart ==
    ASSUME NEW S, NEW sock \in Seq(S), NEW out \in Seq(S), NEW n \in WriteSizes(sock, out),
           NEW x, x = sock \o FirstOf(out, n), NEW r, r = Behind(out, n)
    PROVE  IsWrite(S, sock, out, n, x, r)
<1>1. Len(sock) \in Nat /\ Len(out) \in Nat /\ SockBuf - Len(sock) \in Int
  BY SizesAssumption
<1>. DEFINE m == SockBuf - Len(sock)
            l == Len(out)
<1>2. m \in Int /\ l \in Int
  BY <1>1
<1>3. n \in 1 .. Min({m, l})
  BY DEF WriteSizes
<1>. HIDE DEF m, l
<1>4. n \in 1 .. l
  <2>1. Min({m, l}) = IF m <= l THEN m ELSE l
    BY <1>2, MinTwo
  <2>. QED  BY <1>2, <1>3, <2>1
<1>5. n \in 1 .. Len(out) /\ n \in 0 .. Len(out)
  BY <1>1, <1>4 DEF l
<1>. DEFINE a == FirstOf(out, n)
<1>6. a \in Seq(S) /\ r \in Seq(S) /\ Len(r) = Len(out) - n /\ out = a \o r
  <2>1. n \in 0 .. Len(out) /\ out \in Seq(S)
    BY <1>5
  <2>2. /\ FirstOf(out, n) \in Seq(S) /\ Behind(out, n) \in Seq(S)
        /\ Len(Behind(out, n)) = Len(out) - n /\ out = FirstOf(out, n) \o Behind(out, n)
    BY <2>1, Cut
  <2>. QED  BY <2>2, Zenon DEF a
<1>. HIDE DEF a
<1>7. x = sock \o a
  BY DEF a
<1>8. x \in Seq(S)
  <2>1. a \in Seq(S)
    BY <1>6
  <2>2. sock \o a \in Seq(S)
    BY <2>1, Joined, Zenon
  <2>. QED  BY <1>7, <2>2, Zenon
<1>9. ASSUME n = Len(out) PROVE r = <<>> /\ x = sock \o out
  <2>1. r = <<>>
    BY <1>1, <1>6, <1>9
  <2>2. a \o r = a
    BY <1>6, <2>1
  <2>. QED  BY <1>6, <1>7, <2>1, <2>2, Zenon
<1>10. ASSUME NEW t \in Seq(S) PROVE (t \o x) \o r = (t \o sock) \o out
  <2>1. a \in Seq(S) /\ r \in Seq(S)
    BY <1>6
  <2>2. Regrouped(t, sock, a, r)
    BY <2>1, Regroup
  <2>. QED  BY <1>6, <1>7, <2>2, Zenon DEF Regrouped
<1>. QED  BY <1>5, <1>6, <1>8, <1>9, <1>10, Zenon DEF IsWrite

-----------------------------------------------------------------------------
(* What the processes hold *)

\* What the server sends, and what it sends before it closes the connection.
DownElement ==
    {e \in Element : e.t \in {"byte", "OUTPUT", "DISCONN"} /\ (e.t = "byte" => e.v \in Char)}
OutElement == {e \in DownElement : e.t # "DISCONN"}

CliRecord ==
    [pc : {"first", "top", "winsize", "select", "stdin", "write", "read", "drain", "stuck", "gone", "dead"},
     in : Seq(DownElement), out : Seq(Element),
     next : {"first", "top", "select", "read", "drain", "gone", "dead"}]
ServRecord ==
    [pc : {"select", "recv", "pass", "send", "dead"},
     in : Seq(Element), out : Seq(DownElement),
     next : {"select", "pass", "sent", "close", "dead"}]

UserType == typed \in 0 .. Len(Keys) /\ tty \in Seq(Char) /\ size \in Nat
ChildType ==
    got \in Seq(Nat) /\ ptyin \in Seq(Nat) /\ Len(ptyin) <= PtyIn /\ made \in 0 .. Len(Output)
SockType == up \in Seq(Element) /\ down \in Seq(DownElement) /\ open \in BOOLEAN
DataType == raw \in Seq(Char) /\ nread \in 0 .. made /\ lost \in BOOLEAN

\* Messages are held where they are read and written only.
CliPlaces ==
    /\ cli \in CliRecord
    /\ cli.pc # "write" => cli.out = <<>>
    /\ cli.pc \notin {"read", "drain", "stuck"} => cli.in = <<>>
    /\ cli.pc # "stuck" => Missing(cli.in) >= 1
    /\ cli.next = "drain" => cli.pc \in {"write", "drain"}
    /\ cli.pc = "drain" => cli.next = "drain"
    /\ cli.next \in {"gone", "dead"} => Over
ServPlaces ==
    /\ serv \in ServRecord
    /\ serv.pc # "recv" => serv.in = <<>>
    /\ serv.pc # "send" => serv.out = <<>>
    /\ Missing(serv.in) >= 1
    /\ serv.pc \in {"recv", "send"} => open

Places == UserType /\ ChildType /\ SockType /\ DataType /\ CliPlaces /\ ServPlaces

\* The bytes of a message are bytes.
LEMMA CharNat == Char \subseteq Nat /\ DownElement \subseteq Element /\ OutElement \subseteq DownElement
BY DEF Char, DownElement, OutElement

\* So are sequences of them.
LEMMA CharSeq ==
    /\ Seq(Char) \subseteq Seq(Nat) /\ Seq(DownElement) \subseteq Seq(Element)
    /\ Seq(OutElement) \subseteq Seq(DownElement)
BY CharNat, SeqSub, Zenon

\* Keys and output are bytes.
LEMMA DataBytes == Keys \in Seq(Char) /\ Output \in Seq(Char)
<1>1. Octet \subseteq Char
  BY DEF Octet, Char
<1>. QED  BY <1>1, DataAssumption, SeqSub, Zenon

\* What the server sends is of that kind.
LEMMA FrameDown ==
    ASSUME NEW tag \in {"OUTPUT", "DISCONN"}, NEW x \in Seq(Char)
    PROVE  /\ Frame(tag, x) \in Seq(DownElement)
           /\ tag = "OUTPUT" => Frame(tag, x) \in Seq(OutElement)
<1>. DEFINE f == Frame(tag, x)
            m == 1 + Len(x)
<1>0. x \in Seq(Nat) /\ Len(x) \in Nat
  BY CharSeq
<1>1. /\ f \in Seq(Element) /\ Len(f) = m
      /\ f[1].t = tag
      /\ \A k \in 1 .. Len(x) : f[1 + k].t = "byte" /\ f[1 + k].v = x[k]
  BY <1>0, FrameType
<1>. HIDE DEF f
<1>2. ASSUME NEW k \in 1 .. m PROVE f[k] \in DownElement /\ (tag = "OUTPUT" => f[k] \in OutElement)
  <2>1. f[k] \in Element
    BY <1>1
  <2>2. CASE k = 1
    BY <1>1, <2>1, <2>2 DEF DownElement, OutElement
  <2>3. CASE k # 1
    <3>1. k - 1 \in 1 .. Len(x) /\ 1 + (k - 1) = k
      BY <1>0, <2>3
    <3>2. f[k].t = "byte" /\ f[k].v = x[k - 1] /\ x[k - 1] \in Char
      BY <1>1, <3>1
    <3>. QED  BY <2>1, <3>2 DEF DownElement, OutElement
  <2>. QED  BY <2>2, <2>3
<1>3. m \in Nat /\ f \in [1 .. m -> Element]
  BY <1>0, <1>1
<1>. HIDE DEF m
<1>4. f \in [1 .. m -> DownElement] /\ (tag = "OUTPUT" => f \in [1 .. m -> OutElement])
  BY <1>2, <1>3
<1>. QED  BY <1>3, <1>4, IsSequence DEF f

\* Messages of the client.
LEMMA FrameUp ==
    ASSUME NEW tag \in {"PASS", "WINCH", "INPUT", "OUTPUT", "DISCONN"}, NEW x \in Seq(Nat)
    PROVE  Frame(tag, x) \in Seq(Element)
BY FrameType

\* The start: the client is about to send PASS.
LEMMA PlacesInit == ASSUME RelayInit PROVE Places
<1>1. Frame("PASS", <<>>) \in Seq(Element)
  <2>1. <<>> \in Seq(Nat)
    OBVIOUS
  <2>. QED  BY <2>1, FrameUp
<1>2. Len(Keys) \in Nat /\ Len(Output) \in Nat
  BY DataBytes
<1>3. UserType /\ ChildType /\ SockType /\ DataType
  <2>1. lost \in BOOLEAN /\ open \in BOOLEAN
    BY Zenon DEF RelayInit
  <2>2. UserType /\ ChildType
    <3>1. Len(<<>>) <= PtyIn
      BY SizesAssumption
    <3>2. typed = 0 /\ tty = <<>> /\ size = 1 /\ ptyin = <<>> /\ got = <<>> /\ made = 0
      BY DEF RelayInit
    <3>. QED  BY <1>2, <3>1, <3>2 DEF UserType, ChildType
  <2>3. up = <<>> /\ down = <<>> /\ raw = <<>> /\ nread = 0 /\ made = 0
    BY DEF RelayInit
  <2>. QED  BY <2>1, <2>2, <2>3 DEF SockType, DataType
<1>4. CliPlaces
  BY <1>1 DEF RelayInit, CliPlaces, CliRecord, Client, Missing, Over
<1>5. ServPlaces
  BY DEF RelayInit, ServPlaces, ServRecord, Server, Missing
<1>. QED  BY <1>3, <1>4, <1>5 DEF Places

\* The user and the child hold keys and output.
LEMMA PlacesUser ==
    ASSUME Places, UserTypes \/ UserResizes \/ ChildStep \/ CliKilled \/ ServKilled \/ UNCHANGED relayVars
    PROVE  Places'
<1>0. Len(Keys) \in Nat /\ Len(Output) \in Nat /\ Keys \in Seq(Char)
  BY DataBytes
<1>. USE DEF Places
<1>1. CASE UserTypes
  <2>1. typed' = typed + 1 /\ tty' = Append(tty, Keys[typed + 1]) /\ typed < Len(Keys)
    BY <1>1 DEF UserTypes
  <2>2. UserType'
    <3>1. Keys[typed + 1] \in Char /\ typed + 1 \in 0 .. Len(Keys) /\ tty \in Seq(Char) /\ size \in Nat
      BY <1>0, <2>1 DEF UserType
    <3>2. Append(tty, Keys[typed + 1]) \in Seq(Char)
      BY <3>1, Appended
    <3>3. size' = size
      BY <1>1 DEF UserTypes
    <3>. QED  BY <2>1, <3>1, <3>2, <3>3 DEF UserType
  <2>. QED  BY <1>1, <2>2 DEF UserTypes, UserType, ChildType, SockType, DataType, CliPlaces, ServPlaces, Over, server, child
<1>2. CASE UserResizes
  BY <1>2, SizesAssumption DEF UserResizes, UserType, ChildType, SockType, DataType, CliPlaces, ServPlaces, Over, server, child
<1>3. CASE ChildReads
  <2>1. ptyin \in Seq(Nat) /\ ptyin # <<>> /\ Len(ptyin) <= PtyIn /\ got \in Seq(Nat)
    BY <1>3 DEF ChildReads, ChildType
  <2>2. Tail(ptyin) \in Seq(Nat) /\ Head(ptyin) \in Nat /\ Len(Tail(ptyin)) <= PtyIn
    BY <2>1, SizesAssumption
  <2>3. Append(got, Head(ptyin)) \in Seq(Nat)
    BY <2>1, <2>2, Appended
  <2>4. got' = Append(got, Head(ptyin)) /\ ptyin' = Tail(ptyin) /\ made' = made
    BY <1>3 DEF ChildReads
  <2>5. ChildType'
    BY <2>2, <2>3, <2>4 DEF ChildType
  <2>. QED  BY <1>3, <2>5 DEF ChildReads, UserType, SockType, DataType, CliPlaces, ServPlaces, Over, server, user
<1>4. CASE ChildWrites
  BY <1>0, <1>4 DEF ChildWrites, UserType, ChildType, SockType, DataType, CliPlaces, ServPlaces, Over, server, user
<1>5. CASE CliKilled
  <2>1. CliPlaces'
    BY <1>5 DEF CliKilled, CliPlaces, CliRecord, Client, Missing, Over
  <2>. QED  BY <1>5, <2>1 DEF CliKilled, UserType, ChildType, SockType, DataType, ServPlaces, server, child, user
<1>6. CASE ServKilled
  <2>1. ServPlaces'
    BY <1>6 DEF ServKilled, ServPlaces, ServRecord, Server, Missing
  <2>. QED  BY <1>6, <2>1 DEF ServKilled, UserType, ChildType, SockType, DataType, CliPlaces, Over, child, user
<1>7. CASE UNCHANGED relayVars
  BY <1>7 DEF relayVars, UserType, ChildType, SockType, DataType, CliPlaces, ServPlaces, Over
<1>. QED  BY <1>1, <1>2, <1>3, <1>4, <1>5, <1>6, <1>7 DEF ChildStep

\* What every step of the client leaves alone.
OthersOfCli == UNCHANGED <<typed, size, server, child>>

\* With its messages in their places, nothing else is out of place.
LEMMA PlacesByCli ==
    ASSUME Places, OthersOfCli, CliPlaces', tty' \in Seq(Char), up' \in Seq(Element), down' \in Seq(DownElement)
    PROVE  Places'
BY DEF Places, OthersOfCli, server, child, UserType, ChildType, SockType, DataType, ServPlaces

\* The client between its messages.
LEMMA PlacesCliIdle ==
    ASSUME Places, CliTop \/ cli_send_winsize \/ CliSelect
    PROVE  Places'
<1>0. /\ cli \in CliRecord /\ CliPlaces /\ size \in Nat
      /\ tty \in Seq(Char) /\ up \in Seq(Element) /\ down \in Seq(DownElement)
  BY DEF Places, CliPlaces, UserType, SockType
<1>1. CASE CliTop
  <2>1. CliPlaces'
    <3>1. /\ cli.pc = "top" /\ cli' = [cli EXCEPT !.pc = cli'.pc] /\ cli'.pc \in {"winsize", "select"}
      BY <1>0, <1>1 DEF CliTop, CliRecord
    <3>. QED  BY <1>0, <3>1 DEF CliPlaces, CliRecord, Over
  <2>2. tty' = tty /\ up' = up /\ down' = down /\ OthersOfCli
    BY <1>1 DEF CliTop, OthersOfCli, user
  <2>. QED  BY <1>0, <2>1, <2>2, PlacesByCli
<1>2. CASE cli_send_winsize
  <2>1. Frame("WINCH", <<size>>) \in Seq(Element)
    <3>1. <<size>> \in Seq(Nat)
      BY <1>0
    <3>. QED  BY <3>1, FrameUp
  <2>2. CliPlaces'
    <3>1. PICK next \in {"top", "select"} : cli' = Client("write", Frame("WINCH", <<size>>), next)
      BY <1>2 DEF cli_send_winsize
    <3>. QED  BY <2>1, <3>1 DEF CliPlaces, CliRecord, Client, Missing, Over
  <2>3. tty' = tty /\ up' = up /\ down' = down /\ OthersOfCli
    BY <1>2 DEF cli_send_winsize, OthersOfCli, user
  <2>. QED  BY <1>0, <2>2, <2>3, PlacesByCli
<1>3. CASE CliSelect
  <2>1. CliPlaces'
    <3>1. PICK pc \in {"stdin", "read", "top"}, next \in {"read", "top"} : cli' = Client(pc, <<>>, next)
      BY <1>3 DEF CliSelect, AfterStdin
    <3>. QED  BY <3>1 DEF CliPlaces, CliRecord, Client, Missing, Over
  <2>2. tty' = tty /\ up' = up /\ down' = down /\ OthersOfCli
    BY <1>3 DEF CliSelect, OthersOfCli, user
  <2>. QED  BY <1>0, <2>1, <2>2, PlacesByCli
<1>. QED  BY <1>1, <1>2, <1>3

\* How much one read() takes of the terminal.
Bite == Min({Len(tty), ReadMax})

\* It is no more than there is.
LEMMA BiteRange ==
    ASSUME tty \in Seq(Char)
    PROVE  Bite \in 0 .. Len(tty) /\ FirstOf(tty, Bite) \in Seq(Char) /\ FirstOf(tty, Bite) \in Seq(Nat)
           /\ Len(FirstOf(tty, Bite)) = Bite /\ Behind(tty, Bite) \in Seq(Char)
           /\ tty = FirstOf(tty, Bite) \o Behind(tty, Bite)
<1>1. Len(tty) \in Nat /\ ReadMax \in Nat
  BY SizesAssumption
<1>2. Bite \in 0 .. Len(tty)
  <2>1. Len(tty) \in Int /\ ReadMax \in Int
    BY <1>1
  <2>2. Bite = IF Len(tty) <= ReadMax THEN Len(tty) ELSE ReadMax
    BY <2>1, MinTwo DEF Bite
  <2>. QED  BY <1>1, <2>2
<1>3. IsCut(Char, tty, Bite, FirstOf(tty, Bite), Behind(tty, Bite))
  BY <1>2, CutInTwo
<1>4. FirstOf(tty, Bite) \in Seq(Nat)
  BY <1>3, CharSeq DEF IsCut
<1>. QED  BY <1>2, <1>3, <1>4 DEF IsCut

\* The client reads keys.
LEMMA PlacesCliStdin ==
    ASSUME Places, CliStdin
    PROVE  Places'
<1>0. cli \in CliRecord /\ CliPlaces /\ tty \in Seq(Char) /\ up \in Seq(Element) /\ down \in Seq(DownElement)
  BY DEF Places, CliPlaces, UserType, SockType
<1>. DEFINE keys == FirstOf(tty, Bite)
<1>1. keys \in Seq(Nat) /\ Len(keys) = Bite /\ Behind(tty, Bite) \in Seq(Char)
  BY <1>0, BiteRange
<1>. HIDE DEF keys
<1>2. /\ tty' = Behind(tty, Len(keys))
      /\ cli' = IF keys = <<DETACH>> THEN Client("write", Frame("DISCONN", <<>>), "drain")
                ELSE Client("write", Frame("INPUT", keys), cli.next)
  BY Zenon DEF CliStdin, Bite, keys
<1>3. tty' \in Seq(Char)
  BY <1>1, <1>2
<1>4. Frame("DISCONN", <<>>) \in Seq(Element) /\ Frame("INPUT", keys) \in Seq(Element)
  <2>1. <<>> \in Seq(Nat)
    OBVIOUS
  <2>. QED  BY <1>1, <2>1, FrameUp
<1>5. CliPlaces'
  <2>1. cli.next \in {"first", "top", "select", "read"}
    BY <1>0 DEF CliPlaces, CliRecord, CliStdin, Over
  <2>2. CASE keys = <<DETACH>>
    BY <1>2, <1>4, <2>2 DEF CliPlaces, CliRecord, Client, Missing, Over
  <2>3. CASE keys # <<DETACH>>
    BY <1>2, <1>4, <2>1, <2>3 DEF CliPlaces, CliRecord, Client, Missing, Over
  <2>. QED  BY <2>2, <2>3
<1>6. up' = up /\ down' = down /\ OthersOfCli
  BY DEF CliStdin, OthersOfCli
<1>. QED  BY <1>0, <1>3, <1>5, <1>6, PlacesByCli

\* The client writes.
LEMMA PlacesCliWrite ==
    ASSUME Places, CliWrite
    PROVE  Places'
<1>0. cli \in CliRecord /\ CliPlaces /\ tty \in Seq(Char) /\ up \in Seq(Element) /\ down \in Seq(DownElement)
      /\ cli.pc = "write" /\ cli.out \in Seq(Element) /\ cli.in = <<>>
  BY DEF Places, CliPlaces, CliRecord, UserType, SockType, CliWrite
<1>1. tty' = tty /\ down' = down /\ OthersOfCli
  BY DEF CliWrite, OthersOfCli, user
<1>2. CASE ~ open
  <2>1. cli' = Client("gone", <<>>, "gone") /\ up' = up
    BY <1>2 DEF CliWrite
  <2>2. CliPlaces'
    BY <2>1 DEF CliPlaces, CliRecord, Client, Missing, Over
  <2>. QED  BY <1>0, <1>1, <2>1, <2>2, PlacesByCli
<1>3. CASE open
  <2>1. PICK n \in WriteSizes(up, cli.out) :
                /\ up' = up \o FirstOf(cli.out, n)
                /\ cli' = [cli EXCEPT !.out = Behind(@, n), !.pc = IF n = Len(cli.out) THEN cli.next ELSE @]
    BY <1>3 DEF CliWrite
  <2>. DEFINE out == cli.out
              r == Behind(out, n)
              x == up \o FirstOf(out, n)
  <2>2. out \in Seq(Element) /\ up \in Seq(Element) /\ n \in WriteSizes(up, out)
    BY <1>0
  <2>4. up' = x /\ cli' = [cli EXCEPT !.out = r, !.pc = IF n = Len(out) THEN cli.next ELSE "write"]
    BY <1>0, <2>1 DEF CliRecord
  <2>. HIDE DEF out
  <2>3. IsWrite(Element, up, out, n, x, r)
    BY <2>2, WritePart
  <2>. HIDE DEF r, x
  <2>7. x \in Seq(Element) /\ r \in Seq(Element) /\ (n = Len(out) => r = <<>>)
    BY <2>3 DEF IsWrite
  <2>5. cli.next \in {"first", "top", "select", "read", "drain"}
    BY <1>0 DEF CliPlaces, CliRecord, Over
  <2>6. CliPlaces'
    <3>1. CASE n = Len(out)
      <4>1. PICK pc \in {"first", "top", "select", "read", "drain"} : pc = cli.next
        BY <2>5
      <4>2. cli' = Client(pc, <<>>, pc)
        BY <1>0, <2>4, <2>7, <3>1, <4>1 DEF CliRecord, Client
      <4>. QED  BY <4>2 DEF CliPlaces, CliRecord, Client, Over, Missing
    <3>2. CASE n # Len(out)
      <4>1. cli' = [cli EXCEPT !.out = r]
        BY <1>0, <2>4, <3>2 DEF CliRecord
      <4>. QED  BY <1>0, <2>5, <2>7, <4>1 DEF CliPlaces, CliRecord, Over, Missing
    <3>. QED  BY <3>1, <3>2
  <2>. QED  BY <1>0, <1>1, <2>4, <2>6, <2>7, PlacesByCli
<1>. QED  BY <1>2, <1>3

\* The rest of a message that could not be read.
Fill(in) == Bytes([k \in 1 .. Missing(in) |-> Stale])

\* It makes the message as long as its header says.
LEMMA FilledType ==
    ASSUME NEW in \in Seq(Element), in # <<>>, Missing(in) >= 1
    PROVE  /\ Filled(in) = in \o Fill(in) /\ Fill(in) \in Seq(DownElement) /\ Fill(in) \in Seq(Element)
           /\ Filled(in) \in Seq(Element) /\ Filled(in) # <<>> /\ Filled(in)[1] = in[1]
           /\ Len(Filled(in)) = 1 + in[1].v /\ Len(Fill(in)) = Missing(in) /\ Missing(in) \in Nat
           /\ \A k \in 1 .. Len(Fill(in)) : Fill(in)[k].t = "byte" /\ Fill(in)[k].v = Stale
<1>. DEFINE b == Fill(in)
            m == Missing(in)
            f == in \o b
<1>1. in[1] \in Element /\ Len(in) \in Nat /\ Len(in) # 0
  OBVIOUS
<1>2. in[1].v \in Nat
  BY <1>1 DEF Element
<1>3. m = 1 + in[1].v - Len(in) /\ m \in Nat
  BY <1>1, <1>2 DEF Missing
<1>. HIDE DEF m
<1>4. \A k \in 1 .. m : [t |-> "byte", v |-> Stale] \in DownElement
  BY DEF DownElement, Element, Stale, Char
<1>5. b = [k \in 1 .. m |-> [t |-> "byte", v |-> Stale]]
  BY Zenon DEF Fill, Bytes, m
<1>6. b \in [1 .. m -> DownElement]
  BY <1>4, <1>5
<1>. HIDE DEF b
<1>7. b \in Seq(DownElement) /\ Len(b) = m
  BY <1>3, <1>6, IsSequence
<1>8. b \in Seq(Element)
  BY <1>7, CharSeq
<1>9. \A k \in 1 .. Len(b) : b[k].t = "byte" /\ b[k].v = Stale
  BY <1>5, <1>7
<1>10. f \in Seq(Element) /\ Len(f) = Len(in) + Len(b) /\ \A k \in 1 .. Len(in) : f[k] = in[k]
  BY <1>8, Joined
<1>11. Filled(in) = f
  BY DEF Filled, b, Fill
<1>. HIDE DEF f
<1>12. f # <<>> /\ f[1] = in[1] /\ Len(f) = 1 + in[1].v
  BY <1>1, <1>2, <1>3, <1>7, <1>10
<1>. QED  BY <1>3, <1>7, <1>8, <1>9, <1>10, <1>11, <1>12 DEF b, m, f

\* What the client does with a message: it ends, it loops, it shows it.
IsGone == cli' = Client("gone", <<>>, "gone") /\ screen' = screen
IsStuck(x) == cli' = [cli EXCEPT !.in = x, !.pc = "stuck"] /\ screen' = screen /\ cli.pc = "read"
IsShown(x) ==
    /\ cli' = [cli EXCEPT !.in = <<>>, !.pc = IF cli.pc = "read" THEN "top" ELSE "drain"] /\ Show(x)
    /\ cli.pc = "read" => ~ NeverEnds(subs, Value(x))
IsDone(x) == (x[1].t # "OUTPUT" /\ IsGone) \/ (x[1].t = "OUTPUT" /\ (IsStuck(x) \/ IsShown(x)))

\* There is nothing else.
LEMMA CliDone ==
    ASSUME cli \in CliRecord, cli.pc \in {"read", "drain"}, NEW x, cli_process_msg(x)
    PROVE  IsDone(x)
<1>1. CASE x[1].t # "OUTPUT"
  BY <1>1 DEF cli_process_msg, IsDone, IsGone
<1>2. CASE x[1].t = "OUTPUT" /\ cli.pc = "read" /\ NeverEnds(subs, Value(x))
  BY <1>2, Zenon DEF cli_process_msg, IsDone, IsStuck
<1>3. CASE x[1].t = "OUTPUT" /\ ~ (cli.pc = "read" /\ NeverEnds(subs, Value(x)))
  <2>1. cli' = [cli EXCEPT !.in = <<>>, !.pc = IF @ = "read" THEN "top" ELSE @] /\ Show(x)
    BY <1>3, Zenon DEF cli_process_msg
  <2>2. cli' = [cli EXCEPT !.in = <<>>, !.pc = IF cli.pc = "read" THEN "top" ELSE cli.pc]
    BY <2>1 DEF CliRecord
  <2>3. cli' = [cli EXCEPT !.in = <<>>, !.pc = IF cli.pc = "read" THEN "top" ELSE "drain"]
    BY <2>2
  <2>. QED  BY <1>3, <2>1, <2>3, Zenon DEF IsDone, IsShown
<1>. QED  BY <1>1, <1>2, <1>3

\* A read() of the client, and what follows from it; a read() that fails.
IsCliRead(x, r) ==
    /\ IsRead(DownElement, cli.in, down, x, r)
    /\ down' = r /\ up' = up
    /\ ~ Whole(x) => cli' = [cli EXCEPT !.in = x] /\ screen' = screen
    /\ Whole(x) => IsDone(x)
IsCliReset ==
    ~ open /\ cli.in # <<>> /\ down = <<>> /\ down' = down /\ up' = <<>> /\ IsDone(Filled(cli.in))

\* The client reads from the socket, or finds it closed.
LEMMA CliReads ==
    ASSUME Places, CliRead
    PROVE  \/ \E x, r : IsCliRead(x, r)
           \/ IsCliReset
           \/ ~ open /\ IsGone /\ UNCHANGED <<up, down>>
<1>0. /\ cli \in CliRecord /\ cli.in \in Seq(DownElement) /\ Missing(cli.in) >= 1
      /\ down \in Seq(DownElement) /\ cli.pc \in {"read", "drain"}
  BY DEF Places, CliPlaces, CliRecord, SockType, CliRead
<1>1. CASE down # <<>>
  <2>. DEFINE n == ReadSize(down, cli.in)
              x == cli.in \o FirstOf(down, n)
              r == Behind(down, n)
  <2>1. /\ down' = r /\ up' = up
        /\ IF Whole(x) THEN cli_process_msg(x) ELSE cli' = [cli EXCEPT !.in = x] /\ UNCHANGED screen
    BY <1>1, Zenon DEF CliRead
  <2>2. IsRead(DownElement, cli.in, down, x, r)
    <3>. DEFINE in == cli.in
    <3>1. in \in Seq(DownElement) /\ down \in Seq(DownElement) /\ Missing(in) >= 1 /\ down # <<>>
      BY <1>0, <1>1
    <3>2. n = ReadSize(down, in) /\ x = in \o FirstOf(down, n)
      OBVIOUS
    <3>. HIDE DEF in, n, x, r
    <3>3. r = Behind(down, n)
      BY DEF r
    <3>4. IsRead(DownElement, in, down, x, r)
      BY <3>1, <3>2, <3>3, CharNat, ReadPart
    <3>. QED  BY <3>4 DEF in
  <2>. HIDE DEF n, x, r
  <2>3. Whole(x) => IsDone(x)
    BY <1>0, <2>1, CliDone
  <2>4. ~ Whole(x) => cli' = [cli EXCEPT !.in = x] /\ screen' = screen
    BY <2>1
  <2>5. IsCliRead(x, r)
    BY <2>1, <2>2, <2>3, <2>4, Zenon DEF IsCliRead
  <2>. QED  BY <2>5
<1>2. CASE down = <<>> /\ CliReset
  <2>1. cli_process_msg(Filled(cli.in)) /\ up' = <<>> /\ down' = down
    BY <1>2, Zenon DEF CliRead
  <2>2. IsDone(Filled(cli.in))
    BY <1>0, <2>1, CliDone
  <2>. QED  BY <1>2, <2>1, <2>2, Zenon DEF IsCliReset, CliReset
<1>3. CASE down = <<>> /\ ~ CliReset
  BY <1>3, Zenon DEF CliRead, IsGone
<1>. QED  BY <1>1, <1>2, <1>3

\* The client holds what it has read of a message.
LEMMA PlacesCliRead ==
    ASSUME Places, CliRead
    PROVE  Places'
<1>0. /\ cli \in CliRecord /\ CliPlaces /\ tty \in Seq(Char) /\ up \in Seq(Element)
      /\ down \in Seq(DownElement) /\ cli.pc \in {"read", "drain"} /\ cli.out = <<>>
      /\ cli.in \in Seq(DownElement) /\ Missing(cli.in) >= 1
      /\ cli.next \notin {"gone", "dead"} /\ (cli.next = "drain" => cli.pc = "drain")
  BY DEF Places, CliPlaces, CliRecord, UserType, SockType, CliRead, Over
<1>1. tty' = tty /\ OthersOfCli
  BY DEF CliRead, OthersOfCli, user
<1>2. ASSUME cli' = Client("gone", <<>>, "gone") PROVE CliPlaces'
  BY <1>2 DEF CliPlaces, CliRecord, Client, Missing, Over
<1>3. ASSUME NEW x \in Seq(DownElement), IsDone(x) PROVE CliPlaces'
  <2>1. CASE IsGone
    BY <1>2, <2>1 DEF IsGone
  <2>2. CASE IsStuck(x)
    <3>1. cli' = [cli EXCEPT !.in = x, !.pc = "stuck"] /\ cli.pc = "read"
      BY <2>2 DEF IsStuck
    <3>2. /\ cli'.pc = "stuck" /\ cli'.out = <<>> /\ cli'.next = cli.next /\ cli'.in = x
          /\ cli' \in CliRecord
      BY <1>0, <3>1 DEF CliRecord
    <3>. QED  BY <1>0, <3>1, <3>2 DEF CliPlaces, Over
  <2>3. CASE IsShown(x)
    <3>1. cli' = [cli EXCEPT !.in = <<>>, !.pc = IF cli.pc = "read" THEN "top" ELSE "drain"]
      BY <2>3, Zenon DEF IsShown
    <3>2. /\ cli'.out = <<>> /\ cli'.next = cli.next /\ cli'.in = <<>> /\ cli' \in CliRecord
          /\ cli'.pc = IF cli.pc = "read" THEN "top" ELSE "drain"
      <4>1. PICK pc \in {"top", "drain"} : pc = IF cli.pc = "read" THEN "top" ELSE "drain"
        BY <1>0
      <4>2. cli' = [cli EXCEPT !.in = <<>>, !.pc = pc]
        BY <3>1, <4>1
      <4>3. cli \in CliRecord /\ cli.out = <<>> /\ <<>> \in Seq(DownElement)
        BY <1>0
      <4>4. cli' \in CliRecord
        BY <4>2, <4>3 DEF CliRecord
      <4>5. cli'.out = <<>> /\ cli'.next = cli.next /\ cli'.in = <<>> /\ cli'.pc = pc
        BY <4>2, <4>3 DEF CliRecord
      <4>. QED  BY <4>1, <4>4, <4>5
    <3>. QED  BY <1>0, <3>2 DEF CliPlaces, Over, Missing
  <2>. QED  BY <1>3, <2>1, <2>2, <2>3 DEF IsDone
<1>4. ASSUME NEW x, NEW r, IsCliRead(x, r) PROVE Places'
  <2>1. /\ x \in Seq(DownElement) /\ r \in Seq(DownElement) /\ (~ Whole(x) => Missing(x) >= 1)
        /\ down' = r /\ up' = up
    BY <1>4 DEF IsCliRead, IsRead
  <2>2. CliPlaces'
    <3>1. CASE ~ Whole(x)
      <4>1. cli' = [cli EXCEPT !.in = x]
        BY <1>4, <3>1 DEF IsCliRead
      <4>2. /\ cli'.pc = cli.pc /\ cli'.out = <<>> /\ cli'.next = cli.next /\ cli'.in = x
            /\ cli' \in CliRecord
        BY <1>0, <2>1, <4>1 DEF CliRecord
      <4>. QED  BY <1>0, <2>1, <3>1, <4>2 DEF CliPlaces, Over
    <3>2. CASE Whole(x)
      BY <1>3, <1>4, <2>1, <3>2 DEF IsCliRead
    <3>. QED  BY <3>1, <3>2
  <2>. QED  BY <1>0, <1>1, <2>1, <2>2, PlacesByCli
<1>5. ASSUME IsCliReset PROVE Places'
  <2>. DEFINE in == cli.in
  <2>1. in \in Seq(DownElement) /\ in # <<>> /\ Missing(in) >= 1 /\ IsDone(Filled(in))
    BY <1>0, <1>5 DEF IsCliReset
  <2>2. Filled(in) \in Seq(DownElement)
    <3>. HIDE DEF in
    <3>1. in \in Seq(Element)
      BY <2>1, CharSeq
    <3>2. Filled(in) = in \o Fill(in) /\ Fill(in) \in Seq(DownElement)
      BY <2>1, <3>1, FilledType
    <3>. QED  BY <2>1, <3>2
  <2>. HIDE DEF in
  <2>3. CliPlaces'
    BY <1>3, <2>1, <2>2
  <2>4. up' \in Seq(Element) /\ down' \in Seq(DownElement)
    BY <1>0, <1>5 DEF IsCliReset
  <2>. QED  BY <1>0, <1>1, <2>3, <2>4, PlacesByCli
<1>6. ASSUME IsGone, UNCHANGED <<up, down>> PROVE Places'
  BY <1>0, <1>1, <1>2, <1>6, PlacesByCli DEF IsGone
<1>. QED  BY <1>4, <1>5, <1>6, CliReads

\* What every step of the server leaves alone.
OthersOfServ == UNCHANGED <<user, cli>>

\* With its messages in their places, nothing else is out of place.
LEMMA PlacesByServ ==
    ASSUME Places, OthersOfServ, ServPlaces', ChildType', SockType', DataType'
    PROVE  Places'
BY DEF Places, OthersOfServ, user, UserType, CliPlaces, Over

\* A message without a value is the smallest.
LEMMA EmptyFrame ==
    /\ Frame("DISCONN", <<>>) \in Seq(DownElement) /\ Len(Frame("DISCONN", <<>>)) = 1
<1>1. <<>> \in Seq(Char) /\ <<>> \in Seq(Nat) /\ Len(<<>>) = 0
  OBVIOUS
<1>2. Frame("DISCONN", <<>>) \in Seq(DownElement)
  BY <1>1, FrameDown
<1>3. Len(Frame("DISCONN", <<>>)) = 1 + Len(<<>>)
  BY <1>1, FrameType
<1>. QED  BY <1>1, <1>2, <1>3

\* A read() of the ptm adds the output that comes next.
LEMMA PtmRead ==
    ASSUME Places, ServSelect
    PROVE  /\ nread' \in nread .. made /\ raw' \in Seq(Char)
           /\ raw' = raw \o SubSeq(Output, nread + 1, nread')
<1>0. /\ raw \in Seq(Char) /\ nread \in 0 .. made /\ made \in 0 .. Len(Output) /\ Len(Output) \in Nat
      /\ Output \in Seq(Char) /\ RawBuf \in Nat /\ Len(raw) \in Nat
  BY DataBytes, SizesAssumption DEF Places, DataType, ChildType
<1>1. CASE ~ PtmReady
  <2>1. raw' = raw /\ nread' = nread
    BY <1>1 DEF ServSelect
  <2>2. SubSeq(Output, nread + 1, nread) = <<>> /\ raw \o <<>> = raw
    BY <1>0
  <2>. QED  BY <1>0, <2>1, <2>2
<1>2. CASE PtmReady
  <2>. DEFINE m == nread + RawBuf - Len(raw)
  <2>1. m \in Int /\ made \in Int /\ m > nread /\ nread < made
    BY <1>0, <1>2 DEF PtmReady
  <2>2. nread' = Min({made, m}) /\ raw' = raw \o SubSeq(Output, nread + 1, nread')
    BY <1>2 DEF ServSelect
  <2>. HIDE DEF m
  <2>3. Min({made, m}) = IF made <= m THEN made ELSE m
    BY <2>1, MinTwo
  <2>4. nread' \in nread .. made
    <3>. DEFINE h == nread'
    <3>1. h = IF made <= m THEN made ELSE m
      BY <2>2, <2>3, Zenon
    <3>3. nread \in Int
      BY <1>0
    <3>. HIDE DEF h
    <3>2. h \in nread .. made
      BY <2>1, <3>1, <3>3
    <3>. QED  BY <3>2 DEF h
  <2>. DEFINE b == SubSeq(Output, nread + 1, nread')
  <2>5. b \in Seq(Char)
    <3>. DEFINE h == nread'
    <3>1. h \in 0 .. Len(Output) /\ nread \in Nat /\ Output \in Seq(Char)
      BY <1>0, <2>4
    <3>. HIDE DEF h
    <3>2. SubSeq(Output, nread + 1, h) \in Seq(Char)
      BY <3>1
    <3>. QED  BY <3>2 DEF h
  <2>. HIDE DEF b
  <2>6. raw \o b \in Seq(Char)
    BY <1>0, <2>5
  <2>. QED  BY <2>2, <2>4, <2>6 DEF b
<1>. QED  BY <1>1, <1>2

\* The server asks what is ready.
LEMMA PlacesServSelect ==
    ASSUME Places, ServSelect
    PROVE  Places'
<1>0. /\ nread' \in nread .. made /\ raw' \in Seq(Char) /\ nread \in 0 .. made /\ made \in Nat
      /\ ChildType /\ SockType /\ DataType /\ ServPlaces
  BY PtmRead, DataBytes DEF Places, DataType, ChildType
<1>1. made' = made /\ lost' = lost /\ up' = up /\ down' = down /\ open' = open /\ got' = got /\ ptyin' = ptyin
  BY DEF ServSelect, child
<1>2. ChildType' /\ SockType'
  BY <1>0, <1>1 DEF ChildType, SockType
<1>3. DataType'
  BY <1>0, <1>1 DEF DataType
<1>4. ServPlaces'
  <2>1. PICK pc \in {"recv", "pass"} : serv' = Server(pc, <<>>, "pass") /\ (pc = "recv" => open)
    BY DEF ServSelect, ConnReady
  <2>. QED  BY <1>1, <2>1 DEF ServPlaces, ServRecord, Server, Missing
<1>5. OthersOfServ
  BY DEF ServSelect, OthersOfServ, user
<1>. QED  BY <1>2, <1>3, <1>4, <1>5, PlacesByServ

\* What the pty takes of a message, and what is lost of it.
IsWritten(keys, a, b) ==
    /\ a \in Seq(Nat) /\ b \in Seq(Nat) /\ keys = a \o b
    /\ ptyin' = ptyin \o a /\ lost' = (lost \/ b # <<>>)
    /\ ptyin' \in Seq(Nat) /\ Len(ptyin') <= PtyIn

\* The pty takes the first keys, and the others are lost.
LEMMA PtyTakes ==
    ASSUME ptyin \in Seq(Nat), Len(ptyin) <= PtyIn, NEW keys \in Seq(Nat), write_ptm(keys)
    PROVE  \E a, b : IsWritten(keys, a, b)
<1>. DEFINE l == Len(keys)
            m == PtyIn - Len(ptyin)
            n == Min({l, m})
<1>1. l \in Nat /\ m \in Int /\ m >= 0
  BY SizesAssumption
<1>2. ptyin' = ptyin \o FirstOf(keys, n) /\ lost' = (lost \/ n < l)
  BY Zenon DEF write_ptm
<1>3. n = IF l <= m THEN l ELSE m
  <2>. HIDE DEF l, m
  <2>. QED  BY <1>1, MinTwo
<1>. HIDE DEF m, n
<1>4. n \in 0 .. Len(keys) /\ n \in Int /\ n <= m
  BY <1>1, <1>3
<1>. DEFINE a == FirstOf(keys, n)
            b == Behind(keys, n)
<1>5. IsCut(Nat, keys, n, a, b)
  BY <1>4, CutInTwo
<1>. HIDE DEF a, b
<1>6. a \in Seq(Nat) /\ b \in Seq(Nat) /\ keys = a \o b /\ Len(b) = l - n /\ Len(a) = n
  BY <1>5 DEF IsCut
<1>7. n < l <=> b # <<>>
  <2>1. b = <<>> <=> Len(b) = 0
    BY <1>6
  <2>. HIDE DEF l
  <2>. QED  BY <1>1, <1>4, <1>6, <2>1
<1>8. ptyin \o a \in Seq(Nat) /\ Len(ptyin \o a) <= PtyIn
  <2>1. a \in Seq(Nat) /\ Len(a) <= PtyIn - Len(ptyin)
    BY <1>4, <1>6 DEF m
  <2>. QED  BY <2>1, SizesAssumption
<1>9. ptyin' = ptyin \o a /\ lost' = (lost \/ b # <<>>)
  BY <1>2, <1>7, Zenon DEF a
<1>10. ptyin' \in Seq(Nat) /\ Len(ptyin') <= PtyIn
  BY <1>8, <1>9
<1>11. IsWritten(keys, a, b)
  BY <1>6, <1>9, <1>10, Zenon DEF IsWritten
<1>. QED  BY <1>11

\* A read() of the server, and what follows from it; a read() that fails.
IsServRead(x, r) ==
    /\ IsRead(Element, serv.in, up, x, r)
    /\ up' = r /\ open' = open /\ down' = down
    /\ Whole(x) => serv_process_msg(x)
    /\ ~ Whole(x) => serv' = [serv EXCEPT !.in = x] /\ UNCHANGED <<ptyin, lost>>
IsServReset ==
    /\ Over /\ serv.in # <<>> /\ up = <<>> /\ up' = up /\ down' = <<>>
    /\ serv_process_msg(Filled(serv.in))
IsServClosed ==
    /\ Over /\ open' = FALSE
    /\ serv' = Server("pass", <<>>, "pass") \/ serv' = Server("dead", <<>>, "dead")
    /\ UNCHANGED <<up, ptyin, lost>> /\ down' \in {down, <<>>}

\* The server reads from the socket, or finds it closed.
LEMMA ServReads ==
    ASSUME Places, ServRecv
    PROVE  (\E x, r : IsServRead(x, r)) \/ IsServReset \/ IsServClosed
<1>0. serv.in \in Seq(Element) /\ Missing(serv.in) >= 1 /\ up \in Seq(Element)
  BY DEF Places, ServPlaces, ServRecord, SockType
<1>1. CASE up # <<>>
  <2>. DEFINE n == ReadSize(up, serv.in)
              x == serv.in \o FirstOf(up, n)
              r == Behind(up, n)
  <2>1. /\ up' = r /\ open' = open /\ down' = down
        /\ Whole(x) => serv_process_msg(x)
        /\ ~ Whole(x) => serv' = [serv EXCEPT !.in = x] /\ UNCHANGED <<ptyin, lost>>
    <3>1. /\ up' = r /\ down' = down
          /\ IF Whole(x) THEN serv_process_msg(x)
             ELSE serv' = [serv EXCEPT !.in = x] /\ UNCHANGED <<open, passing, winsize, ptyin, lost>>
      BY <1>1, Zenon DEF ServRecv, RecvFails
    <3>. HIDE DEF n, x, r
    <3>2. Whole(x) => open' = open
      BY <3>1, Zenon DEF serv_process_msg
    <3>. QED  BY <3>1, <3>2
  <2>2. IsRead(Element, serv.in, up, x, r)
    <3>. DEFINE in == serv.in
    <3>1. in \in Seq(Element) /\ up \in Seq(Element) /\ Missing(in) >= 1 /\ up # <<>>
      BY <1>0, <1>1
    <3>2. n = ReadSize(up, in) /\ x = in \o FirstOf(up, n)
      OBVIOUS
    <3>. HIDE DEF in, n, x, r
    <3>3. r = Behind(up, n) /\ Element \subseteq Element
      BY DEF r
    <3>4. IsRead(Element, in, up, x, r)
      BY <3>1, <3>2, <3>3, ReadPart
    <3>. QED  BY <3>4 DEF in
  <2>. HIDE DEF n, x, r
  <2>3. IsServRead(x, r)
    BY <2>1, <2>2, Zenon DEF IsServRead
  <2>. QED  BY <2>3
<1>2. CASE up = <<>> /\ ServReset
  <2>1. (serv_process_msg(Filled(serv.in)) \/ WinchFails) /\ down' = <<>> /\ up' = up
    BY <1>2, Zenon DEF ServRecv, RecvFails
  <2>2. Over /\ serv.in # <<>>
    BY <1>2 DEF ServReset
  <2>3. CASE serv_process_msg(Filled(serv.in))
    BY <1>2, <2>1, <2>2, <2>3, Zenon DEF IsServReset
  <2>4. CASE WinchFails
    <3>1. /\ open' = FALSE /\ UNCHANGED <<ptyin, lost>>
          /\ serv' = Server("pass", <<>>, "pass") \/ serv' = Server("dead", <<>>, "dead")
      BY <2>4, Zenon DEF WinchFails
    <3>. QED  BY <2>1, <2>2, <3>1 DEF IsServClosed
  <2>. QED  BY <2>1, <2>3, <2>4
<1>3. CASE up = <<>> /\ ~ ServReset
  <2>1. Over /\ open' = FALSE /\ serv' = Server("pass", <<>>, "pass") /\ UNCHANGED <<up, down, ptyin, lost>>
    BY <1>3, Zenon DEF ServRecv, RecvFails
  <2>. QED  BY <2>1 DEF IsServClosed
<1>. QED  BY <1>1, <1>2, <1>3

\* The server holds what it has read of a message.
LEMMA PlacesServRecv ==
    ASSUME Places, ServRecv
    PROVE  Places'
<1>0. /\ serv \in ServRecord /\ ServPlaces /\ up \in Seq(Element) /\ down \in Seq(DownElement)
      /\ open \in BOOLEAN /\ lost \in BOOLEAN /\ ptyin \in Seq(Nat) /\ Len(ptyin) <= PtyIn
      /\ serv.pc = "recv" /\ serv.out = <<>> /\ open /\ ChildType /\ DataType /\ SockType
  BY DEF Places, ServPlaces, SockType, ChildType, DataType, ServRecv
<1>1. raw' = raw /\ nread' = nread /\ got' = got /\ made' = made /\ OthersOfServ
  BY DEF ServRecv, OthersOfServ, user
<1>2. ASSUME ptyin' = ptyin, lost' = lost PROVE ChildType' /\ DataType'
  BY <1>0, <1>1, <1>2 DEF ChildType, DataType
<1>3. ASSUME NEW x \in Seq(Element), x # <<>>, serv_process_msg(x), up' \in Seq(Element), down' \in Seq(DownElement)
      PROVE  Places'
  <2>0. open' = open
    BY <1>3 DEF serv_process_msg
  <2>1. SockType'
    BY <1>0, <1>3, <2>0 DEF SockType
  <2>2. ServPlaces'
    <3>1. CASE serv' = Server("send", Frame("DISCONN", <<>>), "close")
      BY <1>0, <2>0, <3>1, EmptyFrame DEF ServPlaces, ServRecord, Server, Missing
    <3>2. CASE serv' = Server("pass", <<>>, "pass")
      BY <1>0, <3>2 DEF ServPlaces, ServRecord, Server, Missing
    <3>. QED  BY <1>3, <3>1, <3>2 DEF serv_process_msg
  <2>3. ChildType' /\ DataType'
    <3>1. CASE x[1].t = "INPUT"
      <4>1. write_ptm(Value(x)) /\ Value(x) \in Seq(Nat)
        BY <1>3, <3>1, ValueType DEF serv_process_msg
      <4>2. PICK a, b : IsWritten(Value(x), a, b)
        BY <1>0, <4>1, PtyTakes
      <4>3. ptyin' \in Seq(Nat) /\ Len(ptyin') <= PtyIn
        BY <4>2, Zenon DEF IsWritten
      <4>4. lost' \in BOOLEAN
        BY <4>2, Zenon DEF IsWritten
      <4>. QED  BY <1>0, <1>1, <4>3, <4>4 DEF ChildType, DataType
    <3>2. CASE x[1].t # "INPUT"
      BY <1>2, <1>3, <3>2 DEF serv_process_msg
    <3>. QED  BY <3>1, <3>2
  <2>. QED  BY <1>1, <2>1, <2>2, <2>3, PlacesByServ
<1>4. ASSUME NEW x, NEW r, IsServRead(x, r) PROVE Places'
  <2>1. x \in Seq(Element) /\ x # <<>> /\ r \in Seq(Element) /\ (~ Whole(x) => Missing(x) >= 1)
        /\ up' = r /\ open' = open /\ down' = down
    BY <1>4 DEF IsServRead, IsRead
  <2>2. SockType'
    BY <1>0, <2>1 DEF SockType
  <2>3. CASE ~ Whole(x)
    <3>1. serv' = [serv EXCEPT !.in = x] /\ ptyin' = ptyin /\ lost' = lost
      BY <1>4, <2>3 DEF IsServRead
    <3>2. /\ serv'.pc = "recv" /\ serv'.out = <<>> /\ serv'.in = x /\ serv' \in ServRecord
      BY <1>0, <2>1, <3>1 DEF ServRecord
    <3>3. ServPlaces'
      BY <1>0, <2>1, <2>3, <3>2 DEF ServPlaces
    <3>. QED  BY <1>1, <1>2, <2>2, <3>1, <3>3, PlacesByServ
  <2>4. CASE Whole(x)
    <3>1. serv_process_msg(x)
      BY <1>4, <2>4 DEF IsServRead
    <3>. QED  BY <1>0, <1>3, <2>1, <3>1
  <2>. QED  BY <2>3, <2>4
<1>5. ASSUME IsServReset PROVE Places'
  <2>. DEFINE in == serv.in
  <2>1. in \in Seq(Element) /\ in # <<>> /\ Missing(in) >= 1 /\ serv_process_msg(Filled(in))
    BY <1>0, <1>5 DEF IsServReset, ServPlaces, ServRecord
  <2>. HIDE DEF in
  <2>2. Filled(in) \in Seq(Element) /\ Filled(in) # <<>>
    BY <2>1, FilledType
  <2>3. up' \in Seq(Element) /\ down' \in Seq(DownElement)
    BY <1>0, <1>5 DEF IsServReset
  <2>. QED  BY <1>3, <2>1, <2>2, <2>3
<1>6. ASSUME IsServClosed PROVE Places'
  <2>0. open' = FALSE /\ UNCHANGED <<up, ptyin, lost>> /\ down' \in Seq(DownElement)
    <3>1. <<>> \in Seq(DownElement)
      OBVIOUS
    <3>2. down' = down \/ down' = <<>>
      BY <1>6, Zenon DEF IsServClosed
    <3>3. down' \in Seq(DownElement)
      BY <1>0, <3>1, <3>2
    <3>. QED  BY <1>6, <3>3 DEF IsServClosed
  <2>1. ServPlaces'
    <3>1. CASE serv' = Server("pass", <<>>, "pass")
      BY <2>0, <3>1 DEF ServPlaces, ServRecord, Server, Missing
    <3>2. CASE serv' = Server("dead", <<>>, "dead")
      BY <2>0, <3>2 DEF ServPlaces, ServRecord, Server, Missing
    <3>. QED  BY <1>6, <3>1, <3>2 DEF IsServClosed
  <2>2. SockType'
    BY <1>0, <2>0 DEF SockType
  <2>. QED  BY <1>1, <1>2, <2>0, <2>1, <2>2, PlacesByServ
<1>. QED  BY <1>4, <1>5, <1>6, ServReads

\* The server passes output on.
LEMMA PlacesServPass ==
    ASSUME Places, serv_pass
    PROVE  Places'
<1>0. raw \in Seq(Char) /\ ChildType /\ DataType /\ SockType
  BY DEF Places, DataType
<1>1. Frame("OUTPUT", raw) \in Seq(DownElement)
  BY <1>0, FrameDown
<1>2. /\ up' = up /\ down' = down /\ open' = open /\ raw' = raw /\ nread' = nread /\ lost' = lost
      /\ got' = got /\ ptyin' = ptyin /\ made' = made /\ OthersOfServ
  BY DEF serv_pass, OthersOfServ, user, child
<1>3. ChildType' /\ DataType' /\ SockType'
  BY <1>0, <1>2 DEF ChildType, DataType, SockType
<1>4. ServPlaces'
  <2>1. CASE serv' = Server("send", Frame("OUTPUT", raw), "sent") /\ open
    BY <1>1, <1>2, <2>1 DEF ServPlaces, ServRecord, Server, Missing
  <2>2. CASE serv' = Server("select", <<>>, "select")
    BY <2>2 DEF ServPlaces, ServRecord, Server, Missing
  <2>. QED  BY <2>1, <2>2 DEF serv_pass
<1>. QED  BY <1>2, <1>3, <1>4, PlacesByServ

\* A write() of the server, and what follows from it.
IsServWrite(n, x, r) ==
    /\ IsWrite(DownElement, down, serv.out, n, x, r)
    /\ down' = x
    /\ n # Len(serv.out) => serv' = [serv EXCEPT !.out = r] /\ UNCHANGED <<open, raw>>
    /\ n = Len(serv.out) =>
          /\ serv' = Server("select", <<>>, "select")
          /\ open' = (serv.next # "close")
          /\ raw' = IF serv.next = "sent" THEN <<>> ELSE raw

\* The server writes to the socket, or finds it closed.
LEMMA ServWrites ==
    ASSUME Places, serv_msg_send
    PROVE  \/ ~ Over /\ \E n, x, r : IsServWrite(n, x, r)
           \/ Over /\ open' = FALSE /\ serv' = Server("select", <<>>, "select") /\ UNCHANGED <<down, raw>>
<1>0. serv.out \in Seq(DownElement) /\ down \in Seq(DownElement)
  BY DEF Places, ServPlaces, ServRecord, SockType
<1>1. CASE ~ Over
  <2>. DEFINE out == serv.out
  <2>1. PICK n \in WriteSizes(down, out) :
                /\ down' = down \o FirstOf(out, n)
                /\ IF n < Len(out)
                   THEN serv' = [serv EXCEPT !.out = Behind(out, n)] /\ UNCHANGED <<open, raw>>
                   ELSE /\ serv' = Server("select", <<>>, "select")
                        /\ open' = (serv.next # "close")
                        /\ raw' = IF serv.next = "sent" THEN <<>> ELSE raw
    BY <1>1 DEF serv_msg_send
  <2>. DEFINE x == down \o FirstOf(out, n)
              r == Behind(out, n)
  <2>2. out \in Seq(DownElement) /\ down \in Seq(DownElement) /\ Len(out) \in Nat
    BY <1>0
  <2>. HIDE DEF out
  <2>3. IsWrite(DownElement, down, out, n, x, r)
    BY <2>2, WritePart
  <2>4. n \in 1 .. Len(out)
    BY <2>3 DEF IsWrite
  <2>5. n # Len(out) <=> n < Len(out)
    BY <2>2, <2>4
  <2>. HIDE DEF x, r
  <2>6. /\ down' = x
        /\ n # Len(out) => serv' = [serv EXCEPT !.out = r] /\ UNCHANGED <<open, raw>>
        /\ n = Len(out) =>
              /\ serv' = Server("select", <<>>, "select")
              /\ open' = (serv.next # "close")
              /\ raw' = IF serv.next = "sent" THEN <<>> ELSE raw
    BY <2>1, <2>5, Zenon DEF x, r
  <2>7. IsServWrite(n, x, r)
    BY <2>3, <2>6, Zenon DEF IsServWrite, out
  <2>. QED  BY <1>1, <2>7
<1>2. CASE Over
  BY <1>2 DEF serv_msg_send
<1>. QED  BY <1>1, <1>2

\* The server writes.
LEMMA PlacesServSend ==
    ASSUME Places, serv_msg_send
    PROVE  Places'
<1>0. /\ serv \in ServRecord /\ ServPlaces /\ down \in Seq(DownElement) /\ raw \in Seq(Char) /\ up \in Seq(Element)
      /\ serv.pc = "send" /\ serv.in = <<>> /\ open /\ ChildType /\ DataType /\ SockType
      /\ nread \in 0 .. made /\ lost \in BOOLEAN /\ open \in BOOLEAN
  BY DEF Places, ServPlaces, SockType, DataType, serv_msg_send
<1>1. up' = up /\ nread' = nread /\ lost' = lost /\ got' = got /\ ptyin' = ptyin /\ made' = made /\ OthersOfServ
  BY DEF serv_msg_send, OthersOfServ, user, child
<1>2. ChildType'
  BY <1>0, <1>1 DEF ChildType
<1>3. ASSUME raw' \in Seq(Char) PROVE DataType'
  BY <1>0, <1>1, <1>3 DEF DataType
<1>4. ASSUME open' \in BOOLEAN, down' \in Seq(DownElement) PROVE SockType'
  BY <1>0, <1>1, <1>4 DEF SockType
<1>5. ASSUME serv' = Server("select", <<>>, "select") PROVE ServPlaces'
  BY <1>5 DEF ServPlaces, ServRecord, Server, Missing
<1>6. ASSUME NEW n, NEW x, NEW r, IsServWrite(n, x, r) PROVE Places'
  <2>1. x \in Seq(DownElement) /\ r \in Seq(DownElement) /\ down' = x
    BY <1>6 DEF IsServWrite, IsWrite
  <2>2. CASE n # Len(serv.out)
    <3>1. serv' = [serv EXCEPT !.out = r] /\ open' = open /\ raw' = raw
      BY <1>6, <2>2 DEF IsServWrite
    <3>2. serv'.pc = "send" /\ serv'.in = <<>> /\ serv' \in ServRecord
      BY <1>0, <2>1, <3>1 DEF ServRecord
    <3>3. ServPlaces'
      BY <1>0, <3>1, <3>2 DEF ServPlaces, Missing
    <3>. QED  BY <1>0, <1>1, <1>2, <1>3, <1>4, <2>1, <3>1, <3>3, PlacesByServ
  <2>3. CASE n = Len(serv.out)
    <3>1. /\ serv' = Server("select", <<>>, "select") /\ open' = (serv.next # "close")
          /\ raw' = IF serv.next = "sent" THEN <<>> ELSE raw
      BY <1>6, <2>3 DEF IsServWrite
    <3>2. raw' \in Seq(Char)
      BY <1>0, <3>1
    <3>3. open' \in BOOLEAN
      BY <3>1, Zenon
    <3>. QED  BY <1>1, <1>2, <1>3, <1>4, <1>5, <2>1, <3>1, <3>2, <3>3, PlacesByServ
  <2>. QED  BY <2>2, <2>3
<1>7. ASSUME open' = FALSE, serv' = Server("select", <<>>, "select"), UNCHANGED <<down, raw>> PROVE Places'
  <2>1. raw' \in Seq(Char) /\ down' \in Seq(DownElement) /\ open' \in BOOLEAN
    BY <1>0, <1>7
  <2>. QED  BY <1>1, <1>2, <1>3, <1>4, <1>5, <1>7, <2>1, PlacesByServ
<1>. QED  BY <1>6, <1>7, ServWrites

\* Messages are in their places at all times.
LEMMA PlacesStep ==
    ASSUME Places, [RelayNext]_relayVars
    PROVE  Places'
BY PlacesUser, PlacesCliIdle, PlacesCliStdin, PlacesCliWrite, PlacesCliRead, PlacesServSelect, PlacesServRecv,
   PlacesServPass, PlacesServSend DEF RelayNext, CliStep, ServStep

-----------------------------------------------------------------------------
(* Keys *)

\* Of a client that is over, bytes that were not read may be among the keys.
IsTyped(v, n, o) == (o /\ v = Stale) \/ \E k \in 1 .. n : Keys[k] = v
AreTyped(v, w, n, o) ==
    (o /\ Stale \in {v, w}) \/ \E k, m \in 1 .. n : k < m /\ Keys[k] = v /\ Keys[m] = w

\* All of a is among the first n keys, and any two of it are in their order.
InOrder(a, n, o) ==
    /\ \A i \in 1 .. Len(a) : IsTyped(a[i], n, o)
    /\ \A i, j \in 1 .. Len(a) : i < j => AreTyped(a[i], a[j], n, o)

\* That is less to ask of a client that is over.
LEMMA OverInOrder ==
    ASSUME NEW a, NEW n, NEW o, NEW q, o => q, InOrder(a, n, o)
    PROVE  InOrder(a, n, q)
<1>1. \A v : IsTyped(v, n, o) => IsTyped(v, n, q)
  BY Zenon DEF IsTyped
<1>2. \A v, w : AreTyped(v, w, n, o) => AreTyped(v, w, n, q)
  BY Zenon DEF AreTyped
<1>. QED  BY <1>1, <1>2, Zenon DEF InOrder

\* f finds b in a.
IsPick(f, b, a) ==
    /\ \A i \in 1 .. Len(b) : f[i] \in 1 .. Len(a) /\ b[i] = a[f[i]]
    /\ \A i, j \in 1 .. Len(b) : i < j => f[i] < f[j]

\* What is picked from keys in order is in order.
LEMMA PickInOrder ==
    ASSUME NEW a, NEW b, NEW n, NEW o, NEW f, IsPick(f, b, a), InOrder(a, n, o)
    PROVE  InOrder(b, n, o)
<1>1. ASSUME NEW i \in 1 .. Len(b) PROVE IsTyped(b[i], n, o)
  <2>1. f[i] \in 1 .. Len(a) /\ b[i] = a[f[i]]
    BY DEF IsPick
  <2>2. IsTyped(a[f[i]], n, o)
    BY <2>1, Zenon DEF InOrder
  <2>. QED  BY <2>1, <2>2
<1>2. ASSUME NEW i \in 1 .. Len(b), NEW j \in 1 .. Len(b), i < j
      PROVE  AreTyped(b[i], b[j], n, o)
  <2>1. f[i] \in 1 .. Len(a) /\ b[i] = a[f[i]] /\ f[j] \in 1 .. Len(a) /\ b[j] = a[f[j]]
    BY DEF IsPick
  <2>2. f[i] < f[j]
    BY <1>2, Zenon DEF IsPick
  <2>3. AreTyped(a[f[i]], a[f[j]], n, o)
    BY <2>1, <2>2, Zenon DEF InOrder
  <2>. QED  BY <2>1, <2>3
<1>. QED  BY <1>1, <1>2, Zenon DEF InOrder

\* The front of keys in order is in order.
LEMMA FrontInOrder ==
    ASSUME NEW p \in Seq(Nat), NEW q \in Seq(Nat), NEW n, NEW o, InOrder(p \o q, n, o)
    PROVE  InOrder(p, n, o)
<1>. DEFINE a == p \o q
            f == [i \in 1 .. Len(p) |-> i]
<1>1. /\ Len(a) = Len(p) + Len(q) /\ Len(p) \in Nat /\ Len(q) \in Nat
      /\ \A k \in 1 .. Len(p) : a[k] = p[k]
  BY Joined
<1>. HIDE DEF a
<1>2. IsPick(f, p, a)
  BY <1>1 DEF IsPick
<1>3. InOrder(a, n, o)
  BY DEF a
<1>. HIDE DEF f
<1>. QED  BY <1>2, <1>3, PickInOrder

\* So is what is left when some in the middle are lost.
LEMMA DropInOrder ==
    ASSUME NEW p \in Seq(Nat), NEW q \in Seq(Nat), NEW r \in Seq(Nat), NEW n, NEW o, InOrder((p \o q) \o r, n, o)
    PROVE  InOrder(p \o r, n, o)
<1>. DEFINE a == (p \o q) \o r
            b == p \o r
            f == [i \in 1 .. Len(b) |-> IF i <= Len(p) THEN i ELSE i + Len(q)]
<1>1. /\ Len(a) = Len(p) + Len(q) + Len(r)
      /\ \A k \in 1 .. Len(p) : a[k] = p[k]
      /\ \A k \in 1 .. Len(r) : a[Len(p) + Len(q) + k] = r[k]
  BY JoinedThree
<1>2. /\ Len(b) = Len(p) + Len(r) /\ Len(p) \in Nat /\ Len(q) \in Nat /\ Len(r) \in Nat
      /\ \A k \in 1 .. Len(p) : b[k] = p[k]
      /\ \A k \in 1 .. Len(r) : b[Len(p) + k] = r[k]
  BY Joined
<1>3. InOrder(a, n, o)
  OBVIOUS
<1>. DEFINE u == Len(p)
            v == Len(q)
            w == Len(r)
<1>. HIDE DEF a, b
<1>4. ASSUME NEW i \in 1 .. Len(b) PROVE f[i] \in 1 .. Len(a) /\ b[i] = a[f[i]]
  <2>1. CASE i <= u
    <3>1. i \in 1 .. u /\ f[i] = i /\ i \in 1 .. Len(a)
      BY <1>1, <1>2, <2>1
    <3>. QED  BY <1>1, <1>2, <3>1
  <2>2. CASE ~ (i <= u)
    <3>1. f[i] = i + v
      BY <2>2
    <3>2. i - u \in 1 .. w /\ u + (i - u) = i /\ u + v + (i - u) = i + v /\ i + v \in 1 .. Len(a)
      BY <1>1, <1>2, <2>2
    <3>3. b[u + (i - u)] = r[i - u] /\ a[u + v + (i - u)] = r[i - u]
      BY <1>1, <1>2, <3>2, Zenon
    <3>4. b[i] = a[i + v]
      BY <3>2, <3>3, Zenon
    <3>. QED  BY <3>1, <3>2, <3>4, Zenon
  <2>. QED  BY <2>1, <2>2
<1>5. ASSUME NEW i \in 1 .. Len(b), NEW j \in 1 .. Len(b), i < j PROVE f[i] < f[j]
  BY <1>2, <1>5
<1>6. IsPick(f, b, a)
  BY <1>4, <1>5, Zenon DEF IsPick
<1>. HIDE DEF f
<1>7. InOrder(b, n, o)
  BY <1>3, <1>6, PickInOrder
<1>. QED  BY <1>7 DEF b

\* The next key comes last.
LEMMA MoreInOrder ==
    ASSUME NEW a \in Seq(Nat), NEW n \in Nat, NEW o, n < Len(Keys), InOrder(a, n, o)
    PROVE  InOrder(Append(a, Keys[n + 1]), n + 1, o) /\ InOrder(a, n + 1, o)
<1>. DEFINE b == Append(a, Keys[n + 1])
            l == Len(a)
<1>1. Keys[n + 1] \in Nat
  <2>1. n + 1 \in 1 .. Len(Keys) /\ Keys \in Seq(Char)
    BY DataBytes
  <2>2. Keys[n + 1] \in Char
    BY <2>1
  <2>. QED  BY <2>2, CharNat
<1>2. /\ Len(b) = l + 1 /\ l \in Nat /\ b[l + 1] = Keys[n + 1]
      /\ \A k \in 1 .. l : b[k] = a[k]
  BY <1>1, Appended
<1>3. InOrder(a, n + 1, o)
  <2>1. \A k \in 1 .. n : k \in 1 .. n + 1
    OBVIOUS
  <2>2. \A v : IsTyped(v, n, o) => IsTyped(v, n + 1, o)
    BY <2>1, Zenon DEF IsTyped
  <2>3. \A v, w : AreTyped(v, w, n, o) => AreTyped(v, w, n + 1, o)
    BY <2>1, Zenon DEF AreTyped
  <2>. QED  BY <2>2, <2>3, Zenon DEF InOrder
<1>. HIDE DEF b
<1>4. \A i \in 1 .. Len(b) : IsTyped(b[i], n + 1, o)
  <2>. TAKE i \in 1 .. Len(b)
  <2>1. CASE i \in 1 .. l
    BY <1>2, <1>3, <2>1 DEF InOrder
  <2>2. CASE i = l + 1
    <3>1. n + 1 \in 1 .. n + 1 /\ Keys[n + 1] = b[i]
      BY <1>2, <2>2
    <3>. QED  BY <3>1 DEF IsTyped
  <2>3. i \in 1 .. l \/ i = l + 1
    BY <1>2
  <2>. QED  BY <2>1, <2>2, <2>3, Zenon
<1>5. ASSUME NEW i \in 1 .. Len(b), NEW j \in 1 .. Len(b), i < j
      PROVE  AreTyped(b[i], b[j], n + 1, o)
  <2>0. i \in 1 .. l
    BY <1>2, <1>5
  <2>1. CASE j \in 1 .. l
    <3>1. b[i] = a[i] /\ b[j] = a[j]
      BY <1>2, <2>0, <2>1
    <3>. QED  BY <1>3, <1>5, <2>0, <2>1, <3>1 DEF InOrder
  <2>2. CASE j = l + 1
    <3>0. b[i] = a[i] /\ b[j] = Keys[n + 1]
      BY <1>2, <2>0, <2>2
    <3>1. CASE o /\ b[i] = Stale
      BY <3>1, Zenon DEF AreTyped
    <3>2. CASE \E k \in 1 .. n : Keys[k] = a[i]
      <4>1. PICK k \in 1 .. n : Keys[k] = a[i]
        BY <3>2
      <4>2. k \in 1 .. n + 1 /\ n + 1 \in 1 .. n + 1 /\ k < n + 1 /\ Keys[k] = b[i] /\ Keys[n + 1] = b[j]
        BY <3>0, <4>1
      <4>. QED  BY <4>2 DEF AreTyped
    <3>3. IsTyped(a[i], n, o)
      BY <2>0, Zenon DEF InOrder
    <3>. QED  BY <3>0, <3>1, <3>2, <3>3, Zenon DEF IsTyped
  <2>3. j \in 1 .. l \/ j = l + 1
    BY <1>2
  <2>. QED  BY <2>1, <2>2, <2>3, Zenon
<1>6. InOrder(b, n + 1, o)
  BY <1>4, <1>5 DEF InOrder
<1>. QED  BY <1>3, <1>6 DEF b

\* Keys on their way, and all keys that are not lost.
Arrived == got \o ptyin
UpStream == (serv.in \o up) \o cli.out
Coming == Carried("INPUT", UpStream)
AllKeys == (Arrived \o Coming) \o tty

\* What KeysKept rests on: the stream to the server has whole messages only,
\* as long as both its ends live, and what it carries is in order with the rest.
KeysInv ==
    /\ InOrder(Arrived, typed, Over)
    /\ open /\ Over => InOrder(Arrived \o Coming, typed, Over)
    /\ open /\ ~ Over => Framed(UpStream) /\ Complete(UpStream) /\ InOrder(AllKeys, typed, Over)
    /\ open /\ ~ Over /\ ~ lost /\ ~ Detaching => AllKeys = FirstOf(Keys, typed)

\* All these are sequences of keys.
LEMMA KeysTypes ==
    ASSUME Places
    PROVE  /\ UpStream \in Seq(Element) /\ Arrived \in Seq(Nat) /\ Coming \in Seq(Nat) /\ tty \in Seq(Nat)
           /\ Arrived \o Coming \in Seq(Nat) /\ AllKeys \in Seq(Nat) /\ typed \in Nat
<1>1. serv.in \in Seq(Element) /\ up \in Seq(Element) /\ cli.out \in Seq(Element)
  BY DEF Places, SockType, ServPlaces, ServRecord, CliPlaces, CliRecord
<1>2. UpStream \in Seq(Element)
  BY <1>1 DEF UpStream
<1>3. got \in Seq(Nat) /\ ptyin \in Seq(Nat) /\ tty \in Seq(Char) /\ typed \in 0 .. Len(Keys) /\ Len(Keys) \in Nat
  BY DataBytes DEF Places, ChildType, UserType
<1>4. tty \in Seq(Nat)
  BY <1>3, CharSeq
<1>5. Arrived \in Seq(Nat)
  BY <1>3 DEF Arrived
<1>6. Coming \in Seq(Nat)
  BY <1>2, CarriedType DEF Coming
<1>7. Arrived \o Coming \in Seq(Nat)
  BY <1>5, <1>6
<1>8. AllKeys \in Seq(Nat)
  BY <1>4, <1>7 DEF AllKeys
<1>. QED  BY <1>2, <1>3, <1>4, <1>5, <1>6, <1>7, <1>8

\* Nothing was typed at the start.
LEMMA KeysInit == ASSUME RelayInit PROVE KeysInv
<1>1. /\ typed = 0 /\ tty = <<>> /\ got = <<>> /\ ptyin = <<>> /\ up = <<>>
      /\ cli.out = Frame("PASS", <<>>) /\ serv.in = <<>> /\ open /\ ~ Over
  BY DEF RelayInit, Client, Server, Over
<1>2. Arrived = <<>>
  BY <1>1 DEF Arrived
<1>. DEFINE f == Frame("PASS", <<>>)
<1>3. <<>> \in Seq(Nat) /\ <<>> \in Seq(Element) /\ Framed(<<>>) /\ Complete(<<>>)
  BY DEF Framed, Complete
<1>4. f \in Seq(Element)
  BY <1>3, FrameUp
<1>5. Framed(<<>> \o f) /\ Complete(<<>> \o f)
  BY <1>3, FramedAppend
<1>6. Carried("INPUT", f) = <<>>
  BY <1>3, CarriedFrame
<1>7. (<<>> \o <<>>) \o f = f /\ <<>> \o f = f
  <2>. HIDE DEF f
  <2>. QED  BY <1>4
<1>8. UpStream = f
  BY <1>1, <1>7, Zenon DEF UpStream
<1>9. Coming = <<>> /\ AllKeys = <<>>
  <2>1. Coming = <<>>
    BY <1>6, <1>8, Zenon DEF Coming
  <2>. QED  BY <1>1, <1>2, <2>1 DEF AllKeys
<1>10. InOrder(<<>>, 0, Over)
  BY DEF InOrder
<1>11. FirstOf(Keys, 0) = <<>>
  BY DataBytes DEF FirstOf
<1>12. Framed(UpStream) /\ Complete(UpStream)
  BY <1>5, <1>7, <1>8, Zenon
<1>. QED  BY <1>1, <1>2, <1>9, <1>10, <1>11, <1>12 DEF KeysInv

\* The client is over before a step if and only if it is after it.
LEMMA SameOver == ASSUME Over' <=> Over PROVE Over' = Over
BY DEF Over

\* Steps that leave the keys where they are: the client or the connection may end.
LEMMA KeysSame ==
    ASSUME Places, KeysInv, typed' = typed, tty' = tty, Arrived' = Arrived, UpStream' = UpStream,
           open' => open, Over => Over', lost' = lost, Over' \/ (Detaching => Detaching')
    PROVE  KeysInv'
<1>0. Coming' = Coming
  BY DEF Coming
<1>1. AllKeys' = AllKeys /\ (Arrived \o Coming)' = Arrived \o Coming
  BY <1>0 DEF AllKeys
<1>2. InOrder(Arrived', typed', Over')
  <2>1. InOrder(Arrived, typed, Over)
    BY DEF KeysInv
  <2>2. CASE Over'
    <3>1. InOrder(Arrived, typed, Over')
      BY <2>1, <2>2, OverInOrder, Zenon
    <3>. QED  BY <3>1
  <2>3. CASE ~ Over'
    <3>1. Over' = Over
      BY <2>3, SameOver
    <3>. QED  BY <2>1, <3>1
  <2>. QED  BY <2>2, <2>3
<1>3. ASSUME open', Over' PROVE InOrder(Arrived \o Coming, typed, Over)
  <2>1. CASE Over
    BY <1>3, <2>1 DEF KeysInv
  <2>2. CASE ~ Over
    <3>1. Arrived \o Coming \in Seq(Nat) /\ tty \in Seq(Nat)
      BY KeysTypes
    <3>2. InOrder((Arrived \o Coming) \o tty, typed, Over)
      BY <1>3, <2>2 DEF KeysInv, AllKeys
    <3>. DEFINE a == Arrived \o Coming
    <3>. HIDE DEF a
    <3>3. a \in Seq(Nat) /\ InOrder(a \o tty, typed, Over)
      BY <3>1, <3>2 DEF a
    <3>4. InOrder(a, typed, Over)
      BY <3>1, <3>3, FrontInOrder
    <3>. QED  BY <3>4 DEF a
  <2>. QED  BY <2>1, <2>2
<1>4. ASSUME open', Over' PROVE InOrder(Arrived' \o Coming', typed', Over')
  <2>1. InOrder(Arrived \o Coming, typed, Over')
    BY <1>3, <1>4, OverInOrder, Zenon
  <2>. QED  BY <1>0, <2>1
<1>5. open' /\ ~ Over' => Framed(UpStream') /\ Complete(UpStream') /\ InOrder(AllKeys', typed', Over')
  <2>. SUFFICES ASSUME open', ~ Over' PROVE Framed(UpStream') /\ Complete(UpStream') /\ InOrder(AllKeys', typed', Over')
    OBVIOUS
  <2>1. open /\ ~ Over
    OBVIOUS
  <2>2. Framed(UpStream) /\ Complete(UpStream) /\ InOrder(AllKeys, typed, Over)
    BY <2>1 DEF KeysInv
  <2>3. Over' = Over
    BY <2>1, SameOver
  <2>. QED  BY <1>1, <2>2, <2>3
<1>6. open' /\ ~ Over' /\ ~ lost' /\ ~ Detaching' => AllKeys' = FirstOf(Keys, typed)'
  BY <1>1 DEF KeysInv, FirstOf
<1>. QED  BY <1>2, <1>4, <1>5, <1>6 DEF KeysInv

\* A key is typed.
LEMMA KeysTyped ==
    ASSUME Places, KeysInv, UserTypes
    PROVE  KeysInv'
<1>. DEFINE k == Keys[typed + 1]
            a == Arrived \o Coming
<1>0. /\ typed' = typed + 1 /\ tty' = Append(tty, k) /\ typed < Len(Keys) /\ ~ Over
      /\ up' = up /\ cli' = cli /\ serv' = serv /\ got' = got /\ ptyin' = ptyin /\ lost' = lost /\ open' = open
  BY DEF UserTypes, server, child
<1>1. a \in Seq(Nat) /\ tty \in Seq(Nat) /\ typed \in Nat /\ AllKeys = a \o tty /\ Arrived \in Seq(Nat)
      /\ AllKeys \in Seq(Nat)
  BY KeysTypes DEF AllKeys
<1>2. typed + 1 \in 1 .. Len(Keys) /\ Keys \in Seq(Char)
  BY <1>0, <1>1, DataBytes
<1>3. k \in Nat
  <2>1. k \in Char
    BY <1>2
  <2>. QED  BY <2>1, CharNat
<1>4. UpStream' = UpStream /\ Arrived' = Arrived
  BY <1>0 DEF UpStream, Arrived
<1>5. Coming' = Coming /\ Over' = Over /\ Detaching' = Detaching
  BY <1>0, <1>4 DEF Coming, Over, Detaching
<1>. HIDE DEF k, a
<1>6. AllKeys' = Append(AllKeys, k)
  <2>1. AllKeys' = a \o Append(tty, k)
    BY <1>0, <1>4, <1>5 DEF AllKeys, a
  <2>2. a \o Append(tty, k) = Append(a \o tty, k)
    BY <1>1, <1>3
  <2>. QED  BY <1>1, <2>1, <2>2
<1>7. InOrder(Arrived', typed', Over')
  <2>1. InOrder(Arrived, typed, Over)
    BY DEF KeysInv
  <2>2. InOrder(Arrived, typed + 1, Over)
    BY <1>0, <1>1, <2>1, MoreInOrder
  <2>. QED  BY <1>0, <1>4, <1>5, <2>2
<1>8. ASSUME open PROVE Framed(UpStream') /\ Complete(UpStream') /\ InOrder(AllKeys', typed', Over')
  <2>1. Framed(UpStream) /\ Complete(UpStream) /\ InOrder(AllKeys, typed, Over)
    BY <1>0, <1>8 DEF KeysInv
  <2>2. InOrder(Append(AllKeys, Keys[typed + 1]), typed + 1, Over)
    BY <1>0, <1>1, <2>1, MoreInOrder
  <2>. QED  BY <1>0, <1>4, <1>5, <1>6, <2>1, <2>2 DEF k
<1>9. ASSUME open, ~ lost, ~ Detaching PROVE AllKeys' = FirstOf(Keys, typed')
  <2>1. AllKeys = FirstOf(Keys, typed)
    BY <1>0, <1>9 DEF KeysInv
  <2>2. FirstOf(Keys, typed + 1) = Append(FirstOf(Keys, typed), Keys[typed + 1])
    BY <1>1, <1>2 DEF FirstOf
  <2>. QED  BY <1>0, <1>6, <2>1, <2>2 DEF k
<1>. QED  BY <1>0, <1>5, <1>7, <1>8, <1>9 DEF KeysInv

\* The client puts a message behind the others.
LEMMA UpAppend ==
    ASSUME Places, KeysInv, open, ~ Over, cli.out = <<>>, NEW f \in Seq(Element),
           NEW tag \in {"PASS", "WINCH", "INPUT", "OUTPUT", "DISCONN"}, NEW x \in Seq(Nat), f = Frame(tag, x),
           cli'.out = f, up' = up, serv' = serv
    PROVE  /\ Framed(UpStream') /\ Complete(UpStream')
           /\ Coming' = IF tag = "INPUT" THEN Coming \o x ELSE Coming
<1>1. Framed(UpStream) /\ Complete(UpStream) /\ UpStream \in Seq(Element) /\ Coming \in Seq(Nat)
  BY KeysTypes DEF KeysInv
<1>2. serv.in \in Seq(Element) /\ up \in Seq(Element)
  BY DEF Places, SockType, ServPlaces, ServRecord
<1>3. UpStream' = UpStream \o f
  <2>1. UpStream' = (serv.in \o up) \o f /\ UpStream = (serv.in \o up) \o <<>>
    BY DEF UpStream
  <2>2. (serv.in \o up) \o <<>> = serv.in \o up
    BY <1>2
  <2>. QED  BY <2>1, <2>2
<1>4. Framed(UpStream \o Frame(tag, x)) /\ Complete(UpStream \o Frame(tag, x))
  BY <1>1, FramedAppend
<1>5. Carried("INPUT", UpStream \o f) = Carried("INPUT", UpStream) \o Carried("INPUT", f)
  BY <1>1, CarriedConcat
<1>6. Carried("INPUT", Frame(tag, x)) = IF tag = "INPUT" THEN x ELSE <<>>
  BY CarriedFrame
<1>7. Coming' = Coming \o Carried("INPUT", f)
  BY <1>3, <1>5 DEF Coming
<1>8. Coming \o <<>> = Coming
  BY <1>1
<1>9. Coming' = IF tag = "INPUT" THEN Coming \o x ELSE Coming
  BY <1>6, <1>7, <1>8
<1>. QED  BY <1>3, <1>4, <1>9

\* The client sends the size.
LEMMA KeysWinsize ==
    ASSUME Places, KeysInv, cli_send_winsize
    PROVE  KeysInv'
<1>0. /\ cli.pc \in {"first", "winsize"} /\ cli'.out = Frame("WINCH", <<size>>) /\ cli'.pc = "write"
      /\ typed' = typed /\ tty' = tty /\ up' = up /\ serv' = serv /\ got' = got /\ ptyin' = ptyin
      /\ lost' = lost /\ open' = open
  BY DEF cli_send_winsize, Client, user, server, child
<1>1. cli.out = <<>> /\ ~ Over /\ ~ Over' /\ ~ Detaching /\ size \in Nat
  BY <1>0 DEF Places, CliPlaces, Over, Detaching, UserType
<1>2. <<size>> \in Seq(Nat) /\ Arrived' = Arrived
  BY <1>0, <1>1 DEF Arrived
<1>20. Over' = Over
  BY <1>1, SameOver
<1>3. Frame("WINCH", <<size>>) \in Seq(Element)
  BY <1>2, FrameUp
<1>4. ASSUME open PROVE Framed(UpStream') /\ Complete(UpStream') /\ Coming' = Coming
  <2>. DEFINE x == <<size>>
              f == Frame("WINCH", x)
  <2>1. f \in Seq(Element) /\ x \in Seq(Nat) /\ cli'.out = f
    BY <1>0, <1>2, <1>3
  <2>2. f = Frame("WINCH", x)
    OBVIOUS
  <2>. HIDE DEF f, x
  <2>3. /\ Framed(UpStream') /\ Complete(UpStream')
        /\ Coming' = IF "WINCH" = "INPUT" THEN Coming \o x ELSE Coming
    BY <1>0, <1>1, <1>4, <2>1, <2>2, UpAppend
  <2>. QED  BY <2>3
<1>5. ASSUME open PROVE AllKeys' = AllKeys
  BY <1>0, <1>2, <1>4, <1>5 DEF AllKeys
<1>6. InOrder(Arrived', typed', Over')
  BY <1>0, <1>2, <1>20 DEF KeysInv
<1>7. ASSUME open PROVE InOrder(AllKeys', typed', Over')
  BY <1>0, <1>1, <1>5, <1>7, <1>20 DEF KeysInv
<1>8. ASSUME open, ~ lost PROVE AllKeys' = FirstOf(Keys, typed')
  BY <1>0, <1>1, <1>5, <1>8 DEF KeysInv
<1>. QED  BY <1>0, <1>1, <1>4, <1>6, <1>7, <1>8 DEF KeysInv

\* The client reads keys: they go into a message, but for CTRL-].
LEMMA KeysStdin ==
    ASSUME Places, KeysInv, CliStdin
    PROVE  KeysInv'
<1>. DEFINE keys == FirstOf(tty, Bite)
            rest == Behind(tty, Bite)
<1>0. /\ cli.pc = "stdin" /\ tty \in Seq(Char) /\ cli.out = <<>> /\ ~ Over /\ ~ Detaching
      /\ typed' = typed /\ up' = up /\ serv' = serv /\ got' = got /\ ptyin' = ptyin
      /\ lost' = lost /\ open' = open
  BY DEF CliStdin, server, child, Places, CliPlaces, Over, Detaching, UserType
<1>1. keys \in Seq(Nat) /\ Len(keys) = Bite /\ rest \in Seq(Char) /\ tty = keys \o rest
  BY <1>0, BiteRange
<1>2. rest \in Seq(Nat) /\ tty' = rest
      /\ cli' = IF keys = <<DETACH>> THEN Client("write", Frame("DISCONN", <<>>), "drain")
                ELSE Client("write", Frame("INPUT", keys), cli.next)
  <2>1. /\ tty' = Behind(tty, Len(keys))
        /\ cli' = IF keys = <<DETACH>> THEN Client("write", Frame("DISCONN", <<>>), "drain")
                  ELSE Client("write", Frame("INPUT", keys), cli.next)
    BY Zenon DEF CliStdin, Bite
  <2>. HIDE DEF keys
  <2>2. tty' = rest
    BY <1>1, <2>1
  <2>3. rest \in Seq(Nat)
    <3>. HIDE DEF rest
    <3>. QED  BY <1>1, CharSeq
  <2>. QED  BY <2>1, <2>2, <2>3
<1>. HIDE DEF keys, rest
<1>3. Arrived' = Arrived /\ Arrived \in Seq(Nat) /\ Coming \in Seq(Nat) /\ Arrived \o Coming \in Seq(Nat)
  BY <1>0, KeysTypes DEF Arrived
<1>4. <<>> \in Seq(Nat) /\ Frame("DISCONN", <<>>) \in Seq(Element) /\ Frame("INPUT", keys) \in Seq(Element)
  <2>1. <<>> \in Seq(Nat)
    OBVIOUS
  <2>. QED  BY <1>1, <2>1, FrameUp
<1>20. Over' = Over
  <2>1. ~ Over'
    BY <1>2 DEF Client, Over
  <2>. QED  BY <1>0, <2>1, SameOver
<1>5. InOrder(Arrived', typed', Over')
  BY <1>0, <1>3, <1>20 DEF KeysInv
<1>6. CASE keys = <<DETACH>>
  <2>1. cli'.out = Frame("DISCONN", <<>>) /\ ~ Over' /\ Detaching'
    BY <1>2, <1>6 DEF Client, Over, Detaching
  <2>2. ASSUME open PROVE Framed(UpStream') /\ Complete(UpStream') /\ Coming' = Coming
    <3>. DEFINE f == Frame("DISCONN", <<>>)
    <3>1. f \in Seq(Element) /\ <<>> \in Seq(Nat) /\ cli'.out = f /\ f = Frame("DISCONN", <<>>)
      BY <1>4, <2>1
    <3>. HIDE DEF f
    <3>2. /\ Framed(UpStream') /\ Complete(UpStream')
          /\ Coming' = IF "DISCONN" = "INPUT" THEN Coming \o <<>> ELSE Coming
      BY <1>0, <2>2, <3>1, UpAppend
    <3>. QED  BY <3>2
  <2>3. ASSUME open PROVE InOrder(AllKeys', typed', Over')
    <3>. DEFINE a == Arrived \o Coming
    <3>1. a \in Seq(Nat) /\ AllKeys = a \o tty /\ AllKeys' = a \o rest
      BY <1>2, <1>3, <2>2, <2>3 DEF AllKeys
    <3>. HIDE DEF a
    <3>2. AllKeys = (a \o keys) \o rest
      <4>0. a \in Seq(Nat) /\ keys \in Seq(Nat) /\ rest \in Seq(Nat)
        BY <1>1, <1>2, <3>1
      <4>1. (a \o keys) \o rest = a \o (keys \o rest)
        BY <4>0
      <4>. QED  BY <1>1, <3>1, <4>1, Zenon
    <3>3. InOrder((a \o keys) \o rest, typed, Over)
      BY <1>0, <2>3, <3>2 DEF KeysInv
    <3>4. InOrder(a \o rest, typed, Over)
      BY <1>1, <1>2, <3>1, <3>3, DropInOrder
    <3>. QED  BY <1>0, <1>20, <3>1, <3>4
  <2>. QED  BY <1>0, <1>5, <2>1, <2>2, <2>3 DEF KeysInv
<1>7. CASE keys # <<DETACH>>
  <2>1. cli'.out = Frame("INPUT", keys) /\ ~ Over'
    BY <1>2, <1>7 DEF Client, Over
  <2>2. ASSUME open PROVE Framed(UpStream') /\ Complete(UpStream') /\ Coming' = Coming \o keys
    <3>. DEFINE f == Frame("INPUT", keys)
    <3>1. f \in Seq(Element) /\ keys \in Seq(Nat) /\ cli'.out = f /\ f = Frame("INPUT", keys)
      BY <1>1, <1>4, <2>1
    <3>. HIDE DEF f
    <3>2. /\ Framed(UpStream') /\ Complete(UpStream')
          /\ Coming' = IF "INPUT" = "INPUT" THEN Coming \o keys ELSE Coming
      BY <1>0, <2>2, <3>1, UpAppend
    <3>. QED  BY <3>2
  <2>3. ASSUME open PROVE AllKeys' = AllKeys
    <3>1. AllKeys' = (Arrived \o (Coming \o keys)) \o rest /\ AllKeys = (Arrived \o Coming) \o (keys \o rest)
      BY <1>1, <1>2, <1>3, <2>2, <2>3 DEF AllKeys
    <3>2. Regrouped(Arrived, Coming, keys, rest)
      BY <1>1, <1>2, <1>3, Regroup
    <3>. QED  BY <3>1, <3>2, Zenon DEF Regrouped
  <2>4. ASSUME open PROVE InOrder(AllKeys', typed', Over')
    BY <1>0, <1>20, <2>3, <2>4 DEF KeysInv
  <2>5. ASSUME open, ~ lost PROVE AllKeys' = FirstOf(Keys, typed')
    BY <1>0, <2>3, <2>5 DEF KeysInv
  <2>. QED  BY <1>0, <1>5, <2>1, <2>2, <2>4, <2>5 DEF KeysInv
<1>. QED  BY <1>6, <1>7

\* A client that is killed takes with it what it was writing.
LEMMA KeysKilled ==
    ASSUME Places, KeysInv, CliKilled
    PROVE  KeysInv'
<1>0. /\ ~ Over /\ Over' /\ cli'.out = <<>> /\ typed' = typed /\ tty' = tty /\ up' = up /\ serv' = serv
      /\ got' = got /\ ptyin' = ptyin /\ open' = open
  BY DEF CliKilled, Client, Over, user, server, child
<1>1. /\ Arrived' = Arrived /\ Arrived \in Seq(Nat) /\ Coming \in Seq(Nat) /\ tty \in Seq(Nat)
  BY <1>0, KeysTypes DEF Arrived
<1>2. serv.in \in Seq(Element) /\ up \in Seq(Element) /\ cli.out \in Seq(Element)
  BY DEF Places, SockType, ServPlaces, ServRecord, CliPlaces, CliRecord
<1>. DEFINE s == serv.in \o up
            b == cli.out
            d == Carried("INPUT", s)
<1>3. s \in Seq(Element) /\ b \in Seq(Element) /\ s \o <<>> = s
  BY <1>2
<1>4. UpStream = s \o b /\ UpStream' = s \o <<>>
  BY <1>0 DEF UpStream
<1>. HIDE DEF s, b
<1>5. PICK c \in Seq(Nat) : Carried("INPUT", s \o b) = d \o c
  BY <1>3, CarriedPrefix
<1>6. d \in Seq(Nat)
  BY <1>3, CarriedType
<1>7. Coming = d \o c /\ Coming' = d
  BY <1>3, <1>4, <1>5 DEF Coming
<1>. HIDE DEF d
<1>8. ASSUME open PROVE InOrder(Arrived \o d, typed, Over)
  <2>1. InOrder((Arrived \o (d \o c)) \o tty, typed, Over)
    BY <1>0, <1>7, <1>8 DEF KeysInv, AllKeys
  <2>2. Regrouped(Arrived, d, c, tty)
    BY <1>1, <1>6, Regroup
  <2>3. InOrder((Arrived \o d) \o (c \o tty), typed, Over)
    BY <2>1, <2>2 DEF Regrouped
  <2>. DEFINE p == Arrived \o d
              q == c \o tty
  <2>4. p \in Seq(Nat) /\ q \in Seq(Nat) /\ InOrder(p \o q, typed, Over)
    BY <1>1, <1>6, <2>3
  <2>. HIDE DEF p, q
  <2>5. InOrder(p, typed, Over)
    BY <2>4, FrontInOrder
  <2>. QED  BY <2>5 DEF p
<1>9. ASSUME open PROVE InOrder(Arrived' \o Coming', typed', Over')
  <2>1. InOrder(Arrived \o d, typed, Over')
    BY <1>0, <1>8, <1>9, OverInOrder, Zenon
  <2>. QED  BY <1>0, <1>1, <1>7, <2>1
<1>10. InOrder(Arrived', typed', Over')
  <2>1. InOrder(Arrived, typed, Over)
    BY DEF KeysInv
  <2>2. InOrder(Arrived, typed, Over')
    BY <1>0, <2>1, OverInOrder, Zenon
  <2>. QED  BY <1>0, <1>1, <2>2
<1>. QED  BY <1>0, <1>9, <1>10 DEF KeysInv

\* The ways to lose some of the keys of a message.
LEMMA LoseInOrder ==
    ASSUME NEW p \in Seq(Nat), NEW a \in Seq(Nat), NEW b \in Seq(Nat), NEW z \in Seq(Nat), NEW n, NEW o,
           InOrder(p \o ((a \o b) \o z), n, o)
    PROVE  InOrder((p \o a) \o z, n, o)
<1>1. p \o ((a \o b) \o z) = ((p \o a) \o b) \o z
  <2>1. a \o b \in Seq(Nat)
    OBVIOUS
  <2>2. Grouped(p, a \o b, z)
    BY <2>1, Group3
  <2>3. Grouped(p, a, b)
    BY Group3
  <2>. QED  BY <2>2, <2>3, Zenon DEF Grouped
<1>2. p \o a \in Seq(Nat)
  OBVIOUS
<1>. DEFINE q == p \o a
<1>. HIDE DEF q
<1>3. q \in Seq(Nat) /\ InOrder((q \o b) \o z, n, o)
  BY <1>1, <1>2 DEF q
<1>4. InOrder(q \o z, n, o)
  BY <1>3, DropInOrder
<1>. QED  BY <1>4 DEF q

\* What a whole message brings, and what the pty takes of it.
LEMMA MessageKeys ==
    ASSUME Places, NEW x \in Seq(Element), x # <<>>, serv_process_msg(x)
    PROVE  \E a, b : IsWritten(Part("INPUT", x), a, b)
<1>0. ptyin \in Seq(Nat) /\ Len(ptyin) <= PtyIn /\ lost \in BOOLEAN
  BY DEF Places, ChildType, DataType
<1>1. CASE x[1].t = "INPUT"
  <2>1. write_ptm(Value(x)) /\ Value(x) \in Seq(Nat) /\ Part("INPUT", x) = Value(x)
    BY <1>1, ValueType DEF serv_process_msg, Part
  <2>. QED  BY <1>0, <2>1, PtyTakes
<1>2. CASE x[1].t # "INPUT"
  <2>1. ptyin' = ptyin /\ lost' = lost /\ Part("INPUT", x) = <<>>
    BY <1>2 DEF serv_process_msg, Part
  <2>2. <<>> \in Seq(Nat) /\ <<>> \o <<>> = <<>> /\ ptyin \o <<>> = ptyin
    BY <1>0
  <2>3. lost = (lost \/ <<>> # <<>>)
    BY <1>0, Zenon
  <2>4. IsWritten(<<>>, <<>>, <<>>)
    BY <1>0, <2>1, <2>2, <2>3, Zenon DEF IsWritten
  <2>. QED  BY <2>1, <2>4, Zenon
<1>. QED  BY <1>1, <1>2

\* The server takes a message: its keys go to the pty, or are lost.
LEMMA KeysProcessed ==
    ASSUME Places, KeysInv, ServRecv, NEW x, NEW r, IsServRead(x, r), Whole(x)
    PROVE  KeysInv'
<1>0. /\ serv.in \in Seq(Element) /\ up \in Seq(Element) /\ cli.out \in Seq(Element)
      /\ open /\ got \in Seq(Nat) /\ ptyin \in Seq(Nat) /\ lost \in BOOLEAN
  BY DEF Places, SockType, ServPlaces, ServRecord, CliPlaces, CliRecord, ServRecv, ChildType, DataType
<1>1. typed' = typed /\ tty' = tty /\ cli' = cli /\ got' = got
  BY DEF ServRecv, user
<1>2. /\ x \in Seq(Element) /\ r \in Seq(Element) /\ x # <<>> /\ Len(x) = 1 + x[1].v
      /\ (serv.in \o up) \o cli.out = x \o (r \o cli.out)
      /\ up' = r /\ open' = open /\ serv_process_msg(x)
  BY <1>0 DEF IsServRead, IsRead
<1>3. serv'.in = <<>>
  BY <1>2 DEF serv_process_msg, Server
<1>. DEFINE w == r \o cli.out
<1>4. w \in Seq(Element) /\ UpStream = x \o w
  BY <1>0, <1>2 DEF UpStream
<1>5. UpStream' = w
  <2>1. UpStream' = (<<>> \o r) \o cli.out
    BY <1>1, <1>2, <1>3 DEF UpStream
  <2>2. <<>> \o r = r
    BY <1>2
  <2>. QED  BY <2>1, <2>2
<1>. HIDE DEF w
<1>. DEFINE part == Part("INPUT", x)
<1>6. Coming = part \o Coming'
  <2>1. Carried("INPUT", x \o w) = part \o Carried("INPUT", w)
    BY <1>2, <1>4, CarriedWhole, Zenon
  <2>. QED  BY <1>4, <1>5, <2>1, Zenon DEF Coming
<1>7. PICK a, b : IsWritten(part, a, b)
  BY <1>2, MessageKeys
<1>. HIDE DEF part
<1>8. /\ a \in Seq(Nat) /\ b \in Seq(Nat) /\ part = a \o b
      /\ ptyin' = ptyin \o a
  BY <1>7, Zenon DEF IsWritten
<1>9. ~ lost' => ~ lost /\ b = <<>>
  BY <1>7, Zenon DEF IsWritten
<1>. DEFINE c == Coming'
            p == Arrived
<1>10. p \in Seq(Nat) /\ c \in Seq(Nat) /\ tty \in Seq(Nat)
  <2>1. c = Carried("INPUT", w)
    BY <1>5 DEF Coming
  <2>. QED  BY <1>4, <2>1, KeysTypes, CarriedType
<1>11. Coming = (a \o b) \o c
  BY <1>6, <1>8
<1>12. Arrived' = p \o a
  <2>1. Arrived' = got \o (ptyin \o a) /\ p = got \o ptyin
    BY <1>1, <1>8 DEF Arrived
  <2>2. got \in Seq(Nat) /\ ptyin \in Seq(Nat) /\ a \in Seq(Nat)
    BY <1>0, <1>8
  <2>3. got \o (ptyin \o a) = (got \o ptyin) \o a
    <3>1. Grouped(got, ptyin, a)
      BY <2>2, Group3
    <3>. QED  BY <3>1, Zenon DEF Grouped
  <2>. QED  BY <2>1, <2>3, Zenon
<1>. HIDE DEF c, p
<1>13. c \o tty \in Seq(Nat) /\ p \o a \in Seq(Nat)
  BY <1>8, <1>10
<1>14. Over' = Over /\ Detaching' = Detaching
  BY <1>1 DEF Over, Detaching
<1>15. ASSUME Over PROVE InOrder((p \o a) \o c, typed, Over)
  <2>1. InOrder(p \o ((a \o b) \o c), typed, Over)
    BY <1>0, <1>11, <1>15 DEF KeysInv, p
  <2>. QED  BY <1>8, <1>10, <2>1, LoseInOrder
<1>16. AllKeys = p \o ((a \o b) \o (c \o tty)) /\ AllKeys' = (p \o a) \o (c \o tty)
  <2>1. AllKeys = (p \o ((a \o b) \o c)) \o tty /\ AllKeys' = ((p \o a) \o c) \o tty
    BY <1>1, <1>11, <1>12 DEF AllKeys, p, c
  <2>2. p \in Seq(Nat) /\ a \in Seq(Nat) /\ b \in Seq(Nat) /\ c \in Seq(Nat) /\ tty \in Seq(Nat)
    BY <1>8, <1>10
  <2>3. ((p \o a) \o c) \o tty = (p \o a) \o (c \o tty)
    <3>. DEFINE e == p \o a
    <3>1. e \in Seq(Nat)
      BY <2>2
    <3>. HIDE DEF e
    <3>2. Grouped(e, c, tty)
      BY <2>2, <3>1, Group3
    <3>. QED  BY <3>2, Zenon DEF Grouped, e
  <2>4. (p \o ((a \o b) \o c)) \o tty = p \o ((a \o b) \o (c \o tty))
    <3>. DEFINE h == a \o b
    <3>1. h \in Seq(Nat)
      BY <2>2
    <3>. HIDE DEF h
    <3>2. Regrouped(p, h, c, tty)
      BY <2>2, <3>1, Regroup
    <3>. DEFINE z == c \o tty
    <3>3. z \in Seq(Nat)
      BY <2>2
    <3>. HIDE DEF z
    <3>4. Grouped(p, h, z)
      BY <2>2, <3>1, <3>3, Group3
    <3>5. (p \o h) \o z = p \o (h \o z)
      BY <3>4, Zenon DEF Grouped
    <3>6. (p \o (h \o c)) \o tty = (p \o h) \o z
      BY <3>2, Zenon DEF Regrouped, z
    <3>. QED  BY <3>5, <3>6, Zenon DEF h, z
  <2>. QED  BY <2>1, <2>3, <2>4, Zenon
<1>17. ASSUME ~ Over PROVE InOrder((p \o a) \o (c \o tty), typed, Over)
  <2>. DEFINE z == c \o tty
  <2>1. InOrder(p \o ((a \o b) \o z), typed, Over) /\ z \in Seq(Nat)
    BY <1>0, <1>13, <1>16, <1>17 DEF KeysInv
  <2>. HIDE DEF z
  <2>2. InOrder((p \o a) \o z, typed, Over)
    BY <1>8, <1>10, <2>1, LoseInOrder
  <2>. QED  BY <2>2 DEF z
<1>18. InOrder(p \o a, typed, Over)
  <2>. DEFINE q == p \o a
              z == c \o tty
  <2>1. q \in Seq(Nat) /\ z \in Seq(Nat) /\ c \in Seq(Nat) /\ (InOrder(q \o c, typed, Over) \/ InOrder(q \o z, typed, Over))
    BY <1>10, <1>13, <1>15, <1>17
  <2>. HIDE DEF q, z
  <2>2. InOrder(q, typed, Over)
    BY <2>1, FrontInOrder
  <2>. QED  BY <2>2 DEF q
<1>19. ASSUME ~ Over PROVE Framed(UpStream') /\ Complete(UpStream')
  <2>1. Framed(x \o w) /\ Complete(x \o w)
    BY <1>0, <1>4, <1>19 DEF KeysInv
  <2>2. Framed(w) /\ Complete(w)
    BY <1>2, <1>4, <2>1, AfterWhole
  <2>. QED  BY <1>5, <2>2
<1>20. ASSUME ~ Over, ~ lost', ~ Detaching PROVE AllKeys' = FirstOf(Keys, typed')
  <2>1. AllKeys = FirstOf(Keys, typed) /\ b = <<>>
    BY <1>0, <1>9, <1>20 DEF KeysInv
  <2>2. p \in Seq(Nat) /\ a \in Seq(Nat) /\ c \in Seq(Nat) /\ tty \in Seq(Nat)
    BY <1>8, <1>10
  <2>3. p \o ((a \o <<>>) \o (c \o tty)) = (p \o a) \o (c \o tty)
    <3>. DEFINE z == c \o tty
    <3>1. z \in Seq(Nat) /\ a \o <<>> = a
      BY <2>2
    <3>. HIDE DEF z
    <3>2. Grouped(p, a, z)
      BY <2>2, <3>1, Group3
    <3>3. (p \o a) \o z = p \o (a \o z)
      BY <3>2, Zenon DEF Grouped
    <3>. QED  BY <3>1, <3>3, Zenon DEF z
  <2>. QED  BY <1>1, <1>16, <2>1, <2>3
<1>21. InOrder(Arrived', typed', Over')
  BY <1>1, <1>12, <1>14, <1>18
<1>22. Over' => InOrder(Arrived' \o Coming', typed', Over')
  BY <1>1, <1>12, <1>14, <1>15 DEF c
<1>23. ~ Over' => InOrder(AllKeys', typed', Over')
  BY <1>1, <1>14, <1>16, <1>17
<1>. QED  BY <1>14, <1>19, <1>20, <1>21, <1>22, <1>23 DEF KeysInv

\* Bytes that were not read come behind what is in order.
LEMMA StaleInOrder ==
    ASSUME NEW a \in Seq(Nat), NEW z \in Seq(Nat), NEW n, NEW o, o, InOrder(a, n, o), Len(a) <= Len(z),
           \A k \in 1 .. Len(a) : z[k] = a[k],
           \A k \in 1 .. Len(z) : k > Len(a) => z[k] = Stale
    PROVE  InOrder(z, n, o)
<1>1. \A k \in 1 .. Len(z) : k \in 1 .. Len(a) \/ z[k] = Stale
  OBVIOUS
<1>2. ASSUME NEW i \in 1 .. Len(z) PROVE IsTyped(z[i], n, o)
  <2>1. CASE i \in 1 .. Len(a)
    <3>1. IsTyped(a[i], n, o) /\ z[i] = a[i]
      BY <2>1, Zenon DEF InOrder
    <3>. QED  BY <3>1
  <2>2. CASE z[i] = Stale
    BY <2>2, Zenon DEF IsTyped
  <2>. QED  BY <1>1, <2>1, <2>2
<1>3. ASSUME NEW i \in 1 .. Len(z), NEW j \in 1 .. Len(z), i < j
      PROVE  AreTyped(z[i], z[j], n, o)
  <2>1. CASE i \in 1 .. Len(a) /\ j \in 1 .. Len(a)
    <3>1. AreTyped(a[i], a[j], n, o) /\ z[i] = a[i] /\ z[j] = a[j]
      BY <1>3, <2>1, Zenon DEF InOrder
    <3>. QED  BY <3>1
  <2>2. CASE z[i] = Stale \/ z[j] = Stale
    BY <2>2, Zenon DEF AreTyped
  <2>. QED  BY <1>1, <2>1, <2>2, Zenon
<1>. QED  BY <1>2, <1>3, Zenon DEF InOrder

\* A stream that ends inside its first message carries what is there of it.
LEMMA CarriedPart ==
    ASSUME NEW tag, NEW in \in Seq(Element), in # <<>>, Missing(in) >= 1
    PROVE  Carried(tag, in) = Part(tag, in)
<1>1. in[1] \in Element /\ Len(in) \in Nat
  OBVIOUS
<1>2. in[1].v \in Nat /\ Len(in) < 1 + in[1].v
  BY <1>1 DEF Element, Missing
<1>3. Taken(in) = Len(in)
  BY <1>1, <1>2, TakenRange
<1>4. in \o <<>> = in /\ <<>> \in Seq(Element)
  OBVIOUS
<1>5. FirstOf(in, Len(in)) = in /\ Behind(in, Len(in)) = <<>>
  BY <1>4, CutJoined
<1>6. Carried(tag, in) = Part(tag, in) \o Carried(tag, <<>>)
  <2>1. Carried(tag, in) = (IF in[1].t = tag THEN Value(FirstOf(in, Taken(in))) ELSE <<>>)
                           \o Carried(tag, Behind(in, Taken(in)))
    BY CarriedFirst
  <2>. QED  BY <1>3, <1>5, <2>1, Zenon DEF Part
<1>7. Carried(tag, <<>>) = <<>> /\ Part(tag, in) \in Seq(Nat)
  BY CarriedType, PartType
<1>8. Part(tag, in) \o <<>> = Part(tag, in)
  BY <1>7
<1>. QED  BY <1>6, <1>7, <1>8, Zenon

\* What a message carries that is filled up: what was there of it, then old bytes.
LEMMA FilledPart ==
    ASSUME NEW tag, NEW in \in Seq(Element), in # <<>>, Missing(in) >= 1,
           NEW c, NEW v, c = Part(tag, in), v = Part(tag, Filled(in))
    PROVE  /\ c \in Seq(Nat) /\ v \in Seq(Nat) /\ Len(c) <= Len(v)
           /\ \A k \in 1 .. Len(c) : v[k] = c[k]
           /\ \A k \in 1 .. Len(v) : k > Len(c) => v[k] = Stale
<1>. DEFINE f == Filled(in)
            b == Fill(in)
<1>1. /\ f = in \o b /\ b \in Seq(Element) /\ f \in Seq(Element) /\ f # <<>> /\ f[1] = in[1]
      /\ \A k \in 1 .. Len(b) : b[k].v = Stale
  BY FilledType
<1>2. c \in Seq(Nat) /\ v \in Seq(Nat)
  BY <1>1, PartType
<1>3. CASE in[1].t # tag
  <2>1. c = <<>> /\ v = <<>>
    BY <1>1, <1>3 DEF Part
  <2>. QED  BY <2>1
<1>4. CASE in[1].t = tag
  <2>0. c = Value(in) /\ v = Value(f)
    BY <1>1, <1>4 DEF Part
  <2>. HIDE DEF f, b
  <2>1. /\ Len(f) = Len(in) + Len(b) /\ Len(in) \in Nat /\ Len(b) \in Nat /\ Len(in) # 0
        /\ \A k \in 1 .. Len(in) : f[k] = in[k]
        /\ \A k \in 1 .. Len(b) : f[Len(in) + k] = b[k]
    BY <1>1, Joined
  <2>2. /\ Len(c) = Len(in) - 1 /\ \A k \in 1 .. Len(in) - 1 : c[k] = in[k + 1].v
        /\ Len(v) = Len(f) - 1 /\ \A k \in 1 .. Len(f) - 1 : v[k] = f[k + 1].v
    BY <1>1, <2>0, ValueType
  <2>3. ASSUME NEW k \in 1 .. Len(c) PROVE v[k] = c[k]
    <3>1. k + 1 \in 1 .. Len(in) /\ k \in 1 .. Len(in) - 1 /\ k \in 1 .. Len(f) - 1
      BY <2>1, <2>2
    <3>. QED  BY <2>1, <2>2, <3>1
  <2>4. ASSUME NEW k \in 1 .. Len(v), k > Len(c) PROVE v[k] = Stale
    <3>. DEFINE m == k + 1 - Len(in)
    <3>1. m \in 1 .. Len(b) /\ Len(in) + m = k + 1 /\ k \in 1 .. Len(f) - 1
      BY <2>1, <2>2, <2>4
    <3>. HIDE DEF m
    <3>2. v[k] = f[k + 1].v
      BY <2>2, <3>1, Zenon
    <3>3. f[Len(in) + m] = b[m] /\ b[m].v = Stale
      BY <1>1, <2>1, <3>1, Zenon
    <3>. QED  BY <3>1, <3>2, <3>3, Zenon
  <2>. QED  BY <1>2, <2>1, <2>2, <2>3, <2>4
<1>. QED  BY <1>3, <1>4

\* The server takes a message it could read only the front of.
LEMMA KeysReset ==
    ASSUME Places, KeysInv, ServRecv, IsServReset
    PROVE  KeysInv'
<1>. DEFINE in == serv.in
            p == Arrived
            c == Part("INPUT", in)
            v == Part("INPUT", Filled(in))
<1>0. /\ in \in Seq(Element) /\ in # <<>> /\ Missing(in) >= 1 /\ open /\ Over /\ up = <<>> /\ cli.out = <<>>
      /\ got \in Seq(Nat) /\ ptyin \in Seq(Nat) /\ serv_process_msg(Filled(in)) /\ up' = <<>>
  BY DEF Places, SockType, ServPlaces, ServRecord, CliPlaces, ServRecv, ChildType, IsServReset, Over
<1>1. typed' = typed /\ cli' = cli /\ got' = got
  BY DEF ServRecv, user
<1>2. Over' = Over
  BY <1>1 DEF Over
<1>3. serv'.in = <<>> /\ open' = open
  BY <1>0 DEF serv_process_msg, Server
<1>4. UpStream = in
  <2>1. UpStream = (in \o <<>>) \o <<>>
    BY <1>0 DEF UpStream
  <2>. HIDE DEF in
  <2>. QED  BY <1>0, <2>1
<1>5. UpStream' = <<>>
  BY <1>0, <1>1, <1>3 DEF UpStream
<1>. HIDE DEF in
<1>6. Coming = c
  BY <1>0, <1>4, CarriedPart DEF Coming
<1>7. Coming' = <<>>
  BY <1>0, <1>5, CarriedType DEF Coming
<1>8. PICK a, b : IsWritten(v, a, b)
  BY <1>0, FilledType, MessageKeys
<1>9. /\ c \in Seq(Nat) /\ v \in Seq(Nat) /\ Len(c) <= Len(v)
      /\ \A k \in 1 .. Len(c) : v[k] = c[k]
      /\ \A k \in 1 .. Len(v) : k > Len(c) => v[k] = Stale
  BY <1>0, FilledPart
<1>10. a \in Seq(Nat) /\ b \in Seq(Nat) /\ v = a \o b /\ ptyin' = ptyin \o a
  BY <1>8, Zenon DEF IsWritten
<1>11. p \in Seq(Nat) /\ Arrived' = p \o a
  <2>1. Arrived' = got \o (ptyin \o a) /\ p = got \o ptyin
    BY <1>1, <1>10 DEF Arrived
  <2>2. Grouped(got, ptyin, a)
    BY <1>0, <1>10, Group3
  <2>3. p \in Seq(Nat)
    BY <1>0, <2>1
  <2>4. Arrived' = p \o a
    BY <2>1, <2>2, Zenon DEF Grouped
  <2>. QED  BY <2>3, <2>4
<1>12. InOrder(p \o c, typed, Over)
  BY <1>0, <1>6 DEF KeysInv
<1>. HIDE DEF c, v, p
<1>13. InOrder(p \o v, typed, Over)
  <2>. DEFINE y == p \o c
              z == p \o v
  <2>1. /\ Len(y) = Len(p) + Len(c) /\ Len(z) = Len(p) + Len(v) /\ y \in Seq(Nat) /\ z \in Seq(Nat)
        /\ Len(p) \in Nat /\ Len(c) \in Nat /\ Len(v) \in Nat
    BY <1>9, <1>11
  <2>2. /\ \A k \in 1 .. Len(p) : y[k] = p[k] /\ z[k] = p[k]
        /\ \A k \in 1 .. Len(c) : y[Len(p) + k] = c[k]
        /\ \A k \in 1 .. Len(v) : z[Len(p) + k] = v[k]
    BY <1>9, <1>11, Joined
  <2>. HIDE DEF y, z
  <2>3. ASSUME NEW k \in 1 .. Len(y) PROVE z[k] = y[k]
    <3>1. CASE k \in 1 .. Len(p)
      BY <2>2, <3>1
    <3>2. CASE k > Len(p)
      <4>. DEFINE m == k - Len(p)
      <4>1. m \in 1 .. Len(c) /\ m \in 1 .. Len(v) /\ Len(p) + m = k
        BY <1>9, <2>1, <3>2
      <4>. HIDE DEF m
      <4>. QED  BY <1>9, <2>2, <4>1
    <3>. QED  BY <2>1, <3>1, <3>2
  <2>4. ASSUME NEW k \in 1 .. Len(z), k > Len(y) PROVE z[k] = Stale
    <3>. DEFINE m == k - Len(p)
    <3>1. m \in 1 .. Len(v) /\ m > Len(c) /\ Len(p) + m = k
      BY <1>9, <2>1, <2>4
    <3>. HIDE DEF m
    <3>. QED  BY <1>9, <2>2, <3>1
  <2>5. InOrder(y, typed, Over) /\ Len(y) <= Len(z)
    BY <1>9, <1>12, <2>1 DEF y
  <2>6. InOrder(z, typed, Over)
    BY <1>0, <2>1, <2>3, <2>4, <2>5, StaleInOrder
  <2>. QED  BY <2>6 DEF z
<1>14. InOrder(p \o a, typed, Over)
  <2>. DEFINE q == p \o a
  <2>1. q \in Seq(Nat) /\ q \o b = p \o v
    <3>1. Grouped(p, a, b)
      BY <1>10, <1>11, Group3
    <3>2. p \o a \in Seq(Nat)
      BY <1>10, <1>11
    <3>3. (p \o a) \o b = p \o v
      BY <1>10, <3>1, Zenon DEF Grouped
    <3>. QED  BY <3>2, <3>3
  <2>. HIDE DEF q
  <2>2. InOrder(q, typed, Over)
    BY <1>10, <1>13, <2>1, FrontInOrder
  <2>. QED  BY <2>2 DEF q
<1>15. Arrived' \o Coming' = p \o a
  <2>1. p \o a \in Seq(Nat)
    BY <1>10, <1>11
  <2>2. (p \o a) \o <<>> = p \o a
    BY <2>1
  <2>. QED  BY <1>7, <1>11, <2>2
<1>16. InOrder(Arrived', typed', Over') /\ InOrder(Arrived' \o Coming', typed', Over')
  BY <1>1, <1>2, <1>11, <1>14, <1>15
<1>. QED  BY <1>0, <1>2, <1>16 DEF KeysInv

\* The other steps of the client.
LEMMA KeysCli ==
    ASSUME Places, KeysInv, CliTop \/ CliSelect \/ CliWrite \/ CliRead
    PROVE  KeysInv'
<1>0. /\ cli \in CliRecord /\ CliPlaces /\ cli.out \in Seq(Element) /\ serv.in \in Seq(Element) /\ up \in Seq(Element)
  <2>1. cli \in CliRecord /\ CliPlaces /\ ServPlaces /\ SockType
    BY DEF Places, CliPlaces
  <2>2. cli.out \in Seq(Element)
    BY <2>1 DEF CliRecord
  <2>3. serv.in \in Seq(Element)
    BY <2>1 DEF ServPlaces, ServRecord
  <2>4. up \in Seq(Element)
    BY <2>1 DEF SockType
  <2>. QED  BY <2>1, <2>2, <2>3, <2>4
<1>1. /\ typed' = typed /\ tty' = tty /\ serv' = serv /\ got' = got /\ ptyin' = ptyin /\ lost' = lost
      /\ open' = open
  BY DEF CliTop, CliSelect, CliWrite, CliRead, user, server, child
<1>2. Arrived' = Arrived
  BY <1>1, SMTT(30) DEF Arrived
<1>3. ~ Over
  BY DEF CliTop, CliSelect, CliWrite, CliRead, Over
<1>4. ASSUME up' = up, cli'.out = cli.out PROVE UpStream' = UpStream
  BY <1>1, <1>4 DEF UpStream
<1>9. ASSUME ~ open' PROVE KeysInv'
  <2>1. InOrder(Arrived, typed, Over)
    BY DEF KeysInv
  <2>2. InOrder(Arrived', typed', Over')
    <3>1. CASE Over'
      <4>1. InOrder(Arrived, typed, Over')
        BY <2>1, <3>1, OverInOrder, Zenon
      <4>. QED  BY <1>1, <1>2, <4>1
    <3>2. CASE ~ Over'
      <4>1. Over' = Over
        BY <1>3, <3>2, SameOver
      <4>. QED  BY <1>1, <1>2, <2>1, <4>1
    <3>. QED  BY <3>1, <3>2
  <2>. QED  BY <1>9, <2>2 DEF KeysInv
<1>5. CASE CliTop
  <2>1. up' = up /\ cli'.out = cli.out /\ (Detaching => Detaching')
    BY <1>0, <1>5 DEF CliTop, CliRecord, Detaching
  <2>. QED  BY <1>1, <1>2, <1>3, <1>4, <2>1, KeysSame
<1>6. CASE CliSelect
  <2>1. up' = up /\ cli'.out = <<>>
    BY <1>6 DEF CliSelect, Client
  <2>2. cli.out = <<>> /\ ~ Detaching
    BY <1>0, <1>6 DEF CliPlaces, CliSelect, Detaching
  <2>. QED  BY <1>1, <1>2, <1>3, <1>4, <2>1, <2>2, KeysSame
<1>7. CASE CliWrite
  <2>1. CASE ~ open
    <3>1. cli' = Client("gone", <<>>, "gone") /\ ~ open'
      BY <1>1, <1>7, <2>1 DEF CliWrite
    <3>. QED  BY <1>9, <3>1
  <2>2. CASE open
    <3>1. PICK n \in WriteSizes(up, cli.out) :
                  /\ up' = up \o FirstOf(cli.out, n)
                  /\ cli' = [cli EXCEPT !.out = Behind(@, n), !.pc = IF n = Len(cli.out) THEN cli.next ELSE @]
      BY <1>7, <2>2 DEF CliWrite
    <3>. DEFINE out == cli.out
                q == Behind(out, n)
                y == up \o FirstOf(out, n)
                in == serv.in
    <3>2. out \in Seq(Element) /\ up \in Seq(Element) /\ in \in Seq(Element) /\ n \in WriteSizes(up, out)
      BY <1>0
    <3>3. up' = y /\ cli'.out = q /\ cli'.next = cli.next
      BY <1>0, <3>1 DEF CliRecord
    <3>4. UpStream = (in \o up) \o out /\ UpStream' = (in \o y) \o q
      BY <1>1, <3>3 DEF UpStream
    <3>. HIDE DEF out, in
    <3>5. IsWrite(Element, up, out, n, y, q)
      BY <3>2, WritePart
    <3>. HIDE DEF q, y
    <3>6. (in \o y) \o q = (in \o up) \o out
      BY <3>2, <3>5, Zenon DEF IsWrite
    <3>7. UpStream' = UpStream /\ (Detaching => Detaching')
      BY <3>3, <3>4, <3>6 DEF Detaching
    <3>. QED  BY <1>1, <1>2, <1>3, <3>7, KeysSame, SMTT(30)
  <2>. QED  BY <2>1, <2>2
<1>8. CASE CliRead
  <2>0. cli.out = <<>>
    BY <1>0, <1>8 DEF CliRead, CliPlaces
  <2>1. ASSUME cli' = Client("gone", <<>>, "gone") PROVE cli'.out = cli.out /\ Over'
    BY <2>0, <2>1 DEF Client, Over
  <2>2. ASSUME NEW x, NEW r, IsCliRead(x, r) PROVE KeysInv'
    <3>0. up' = up
      BY <2>2 DEF IsCliRead
    <3>1. CASE ~ Whole(x)
      <4>1. cli' = [cli EXCEPT !.in = x]
        BY <2>2, <3>1 DEF IsCliRead
      <4>2. cli'.out = cli.out /\ (Detaching => Detaching')
        BY <1>0, <4>1 DEF CliRecord, Detaching
      <4>. QED  BY <1>1, <1>2, <1>3, <1>4, <3>0, <4>2, KeysSame
    <3>2. CASE Whole(x)
      <4>1. IsDone(x)
        BY <2>2, <3>2 DEF IsCliRead
      <4>2. cli'.out = cli.out /\ (Over' \/ (Detaching => Detaching'))
        <5>1. CASE IsGone
          BY <2>1, <5>1 DEF IsGone
        <5>2. CASE IsStuck(x)
          BY <1>0, <5>2 DEF IsStuck, CliRecord, Detaching
        <5>3. CASE IsShown(x)
          BY <1>0, <5>3 DEF IsShown, CliRecord, Detaching
        <5>. QED  BY <4>1, <5>1, <5>2, <5>3 DEF IsDone
      <4>. QED  BY <1>1, <1>2, <1>3, <1>4, <3>0, <4>2, KeysSame
    <3>. QED  BY <3>1, <3>2
  <2>3. ASSUME ~ open PROVE KeysInv'
    BY <1>1, <1>9, <2>3
  <2>. QED  BY <1>8, <2>2, <2>3, CliReads DEF IsCliReset
<1>. QED  BY <1>5, <1>6, <1>7, <1>8

\* The steps of the server.
LEMMA KeysServ ==
    ASSUME Places, KeysInv, ServStep \/ ServKilled
    PROVE  KeysInv'
<1>0. /\ serv \in ServRecord /\ ServPlaces /\ cli.out \in Seq(Element) /\ serv.in \in Seq(Element) /\ up \in Seq(Element)
  BY DEF Places, CliPlaces, CliRecord, SockType, ServPlaces, ServRecord
<1>1. typed' = typed /\ tty' = tty /\ cli' = cli /\ got' = got
  BY DEF ServStep, ServSelect, ServRecv, serv_pass, serv_msg_send, ServKilled, user, child
<1>2. Over' = Over /\ Detaching' = Detaching
  BY <1>1 DEF Over, Detaching
<1>3. ASSUME ~ open' PROVE InOrder(Arrived, typed, Over)' => KeysInv'
  BY <1>3 DEF KeysInv
<1>4. ASSUME ptyin' = ptyin, up' = up, lost' = lost, serv'.in = serv.in, open' => open PROVE KeysInv'
  <2>1. Arrived' = Arrived /\ UpStream' = UpStream
    BY <1>1, <1>4 DEF Arrived, UpStream
  <2>. QED  BY <1>1, <1>2, <1>4, <2>1, KeysSame
<1>5. ASSUME ~ open', ptyin' = ptyin PROVE KeysInv'
  <2>0. Arrived' = Arrived
    BY <1>1, <1>5 DEF Arrived
  <2>1. InOrder(Arrived', typed', Over')
    BY <1>1, <1>2, <2>0 DEF KeysInv
  <2>. QED  BY <1>5, <2>1 DEF KeysInv
<1>6. CASE ServSelect
  <2>1. ptyin' = ptyin /\ up' = up /\ lost' = lost /\ open' = open /\ serv'.in = <<>> /\ serv.in = <<>>
    BY <1>0, <1>6 DEF ServSelect, Server, ServPlaces, child
  <2>. QED  BY <1>4, <2>1
<1>7. CASE serv_pass
  <2>1. ptyin' = ptyin /\ up' = up /\ lost' = lost /\ open' = open /\ serv'.in = <<>> /\ serv.in = <<>>
    BY <1>0, <1>7 DEF serv_pass, Server, ServPlaces, child
  <2>. QED  BY <1>4, <2>1
<1>8. CASE serv_msg_send
  <2>1. ptyin' = ptyin /\ up' = up /\ lost' = lost /\ serv.in = <<>> /\ open
    BY <1>0, <1>8 DEF serv_msg_send, ServPlaces, child
  <2>2. ASSUME NEW n, NEW x, NEW r, IsServWrite(n, x, r) PROVE serv'.in = serv.in
    <3>1. CASE n # Len(serv.out)
      <4>1. serv' = [serv EXCEPT !.out = r]
        BY <2>2, <3>1 DEF IsServWrite
      <4>. QED  BY <1>0, <4>1 DEF ServRecord
    <3>2. CASE n = Len(serv.out)
      <4>1. serv' = Server("select", <<>>, "select")
        BY <2>2, <3>2 DEF IsServWrite
      <4>. QED  BY <2>1, <4>1 DEF Server
    <3>. QED  BY <3>1, <3>2
  <2>3. ASSUME serv' = Server("select", <<>>, "select") PROVE serv'.in = serv.in
    BY <2>1, <2>3 DEF Server
  <2>4. serv'.in = serv.in
    BY <1>8, <2>2, <2>3, ServWrites
  <2>. QED  BY <1>4, <2>1, <2>4
<1>9. CASE ServKilled
  <2>1. ~ open' /\ ptyin' = ptyin
    BY <1>9 DEF ServKilled, child
  <2>. QED  BY <1>5, <2>1
<1>10. CASE ServRecv
  <2>1. ASSUME NEW x, NEW r, IsServRead(x, r) PROVE KeysInv'
    <3>1. CASE Whole(x)
      BY <1>10, <2>1, <3>1, KeysProcessed
    <3>2. CASE ~ Whole(x)
      <4>1. /\ serv' = [serv EXCEPT !.in = x] /\ ptyin' = ptyin /\ lost' = lost /\ up' = r /\ open' = open
            /\ x \in Seq(Element) /\ r \in Seq(Element)
            /\ (serv.in \o up) \o cli.out = x \o (r \o cli.out)
        BY <1>0, <2>1, <3>2 DEF IsServRead, IsRead
      <4>2. serv'.in = x
        BY <1>0, <4>1 DEF ServRecord
      <4>3. UpStream = x \o (r \o cli.out) /\ UpStream' = (x \o r) \o cli.out
        BY <1>1, <4>1, <4>2 DEF UpStream
      <4>4. x \o (r \o cli.out) = (x \o r) \o cli.out
        <5>. DEFINE c == cli.out
        <5>1. x \in Seq(Element) /\ r \in Seq(Element) /\ c \in Seq(Element)
          BY <1>0, <4>1
        <5>. HIDE DEF c
        <5>2. x \o (r \o c) = (x \o r) \o c
          BY <5>1
        <5>. QED  BY <5>2 DEF c
      <4>5. UpStream' = UpStream /\ Arrived' = Arrived
        BY <1>1, <4>1, <4>3, <4>4 DEF Arrived
      <4>. QED  BY <1>1, <1>2, <4>1, <4>5, KeysSame
    <3>. QED  BY <3>1, <3>2
  <2>2. ASSUME open' = FALSE, UNCHANGED ptyin PROVE KeysInv'
    BY <1>5, <2>2
  <2>3. ASSUME IsServReset PROVE KeysInv'
    BY <1>10, <2>3, KeysReset
  <2>4. ASSUME IsServClosed PROVE KeysInv'
    BY <2>2, <2>4 DEF IsServClosed
  <2>. QED  BY <1>10, <2>1, <2>3, <2>4, ServReads
<1>. QED  BY <1>6, <1>7, <1>8, <1>9, <1>10 DEF ServStep

\* The steps of the user and the child.
LEMMA KeysUser ==
    ASSUME Places, KeysInv, UserResizes \/ ChildStep \/ UNCHANGED relayVars
    PROVE  KeysInv'
<1>1. typed' = typed /\ tty' = tty /\ cli' = cli /\ serv' = serv /\ up' = up /\ open' = open /\ lost' = lost
  BY DEF UserResizes, ChildStep, ChildReads, ChildWrites, relayVars, user, server
<1>2. UpStream' = UpStream /\ Over' = Over /\ Detaching' = Detaching
  BY <1>1 DEF UpStream, Over, Detaching
<1>3. Arrived' = Arrived
  <2>0. got \in Seq(Nat) /\ ptyin \in Seq(Nat)
    BY DEF Places, ChildType
  <2>1. CASE ChildReads
    <3>1. ptyin # <<>> /\ got' = Append(got, Head(ptyin)) /\ ptyin' = Tail(ptyin)
      BY <2>1 DEF ChildReads
    <3>2. Append(got, Head(ptyin)) \o Tail(ptyin) = got \o ptyin
      BY <2>0, <3>1
    <3>. QED  BY <3>1, <3>2 DEF Arrived
  <2>2. CASE UserResizes \/ ChildWrites \/ UNCHANGED relayVars
    BY <2>2 DEF UserResizes, ChildWrites, relayVars, child, Arrived
  <2>. QED  BY <2>1, <2>2 DEF ChildStep
<1>. QED  BY <1>1, <1>2, <1>3, KeysSame

\* Every step keeps the keys in order.
LEMMA KeysStep ==
    ASSUME Places, KeysInv, [RelayNext]_relayVars
    PROVE  KeysInv'
BY KeysTyped, KeysUser, KeysWinsize, KeysStdin, KeysCli, KeysKilled, KeysServ DEF RelayNext, CliStep

\* The invariant says what KeysKept says.
LEMMA KeysMeans == ASSUME Places, KeysInv PROVE KeysKept
<1>1. /\ typed \in 0 .. Len(Keys) /\ Len(Keys) \in Nat /\ Arrived \in Seq(Nat) /\ DOMAIN Keys = 1 .. Len(Keys)
  BY KeysTypes, DataBytes DEF Places, UserType
<1>2. DOMAIN Arrived = 1 .. Len(Arrived)
  BY <1>1
<1>3. ASSUME NEW i \in DOMAIN Arrived, NEW j \in DOMAIN Arrived, i < j
      PROVE  \/ Over /\ Stale \in {Arrived[i], Arrived[j]}
             \/ \E k, m \in DOMAIN Keys : k < m /\ Keys[k] = Arrived[i] /\ Keys[m] = Arrived[j]
  <2>0. InOrder(Arrived, typed, Over) /\ i \in 1 .. Len(Arrived) /\ j \in 1 .. Len(Arrived)
    BY <1>2 DEF KeysInv
  <2>1. AreTyped(Arrived[i], Arrived[j], typed, Over)
    BY <1>3, <2>0, Zenon DEF InOrder
  <2>2. \A k \in 1 .. typed : k \in DOMAIN Keys
    BY <1>1
  <2>. QED  BY <2>1, <2>2, Zenon DEF AreTyped
<1>4. open /\ ~ Over /\ ~ lost /\ ~ Detaching =>
         ((got \o ptyin) \o Carried("INPUT", (serv.in \o up) \o cli.out)) \o tty = FirstOf(Keys, typed)
  BY Zenon DEF KeysInv, AllKeys, Arrived, Coming, UpStream
<1>. QED  BY <1>3, <1>4, Zenon DEF KeysKept, Arrived

\* Keys reach the child, or are lost only where the pty is full, where one end
\* is killed or where the client detaches; those that do are in order, whatever
\* was typed and wherever the socket cuts the messages.  Only a client that is
\* over may leave bytes among them that nobody typed.
THEOREM KeysAreKept == RelaySpec => []KeysKept
<1>1. RelayInit => Places /\ KeysInv
  BY PlacesInit, KeysInit
<1>2. Places /\ KeysInv /\ [RelayNext]_relayVars => Places' /\ KeysInv'
  BY PlacesStep, KeysStep
<1>3. Places /\ KeysInv => KeysKept
  BY KeysMeans
<1>. QED  BY <1>1, <1>2, <1>3, PTL DEF RelaySpec

-----------------------------------------------------------------------------
(* What -subst makes of the output *)

\* The first -subst does not match, or it matches the empty string everywhere.
Unmatched(s) == 1 \in DOMAIN subs /\ subs[1].pat.text # <<>> => Starts(subs[1].pat, s) = {}

\* Output as it is, output no -subst matched, matches, and output behind which
\* cli_subst() does not get.  A match of another -subst has none of the first.
RawPieces == {Piece(s, s, AsIs) : s \in Seq(Char)}
PlainPieces == {Piece(s, s, 0) : s \in {t \in Seq(Char) : Unmatched(t)}}
MatchPieces ==
    {Piece(subs[n].pat.text, Expand(subs[n], s), n) :
        n \in {m \in DOMAIN subs : m # 1 => Unmatched(subs[m].pat.text)}, s \in Seq(Char)}
EndlessPieces == {Piece(s, <<>>, Endless) : s \in Seq(Char)}
Shown == (RawPieces \cup PlainPieces) \cup (MatchPieces \cup EndlessPieces)

\* The output some pieces stand for.
Src(ps) == FlattenSeq([k \in DOMAIN ps |-> ps[k].of])

\* Patterns have no NUL.
LEMMA PatternType ==
    /\ DOMAIN subs = 1 .. Len(Substs) /\ Len(Substs) \in Nat
    /\ \A n \in DOMAIN subs : subs[n].pat.text \in Seq(Byte) /\ subs[n].pat.text \in Seq(Char)
<1>1. DOMAIN subs = DOMAIN Substs
  BY DEF subs
<1>2. DOMAIN Substs = 1 .. Len(Substs) /\ Len(Substs) \in Nat
  BY SubstsAssumption
<1>3. \A n \in DOMAIN subs : subs[n].pat.text \in Seq(Byte)
  BY <1>1, SubstsAssumption
<1>4. Byte \subseteq Char
  BY DEF Byte, Char
<1>5. \A n \in DOMAIN subs : subs[n].pat.text \in Seq(Char)
  BY <1>3, <1>4, SeqSub
<1>. QED  BY <1>1, <1>2, <1>3, <1>5

\* A match in a part is a match in the whole.
LEMMA StartsIn ==
    ASSUME NEW re, re.text \in Seq(Char), NEW s \in Seq(Char), NEW a \in Nat, NEW b \in Nat, a <= b, b <= Len(s),
           NEW k \in Starts(re, SubSeq(s, a + 1, b))
    PROVE  a + k \in Starts(re, s)
<1>. DEFINE t == re.text
            w == SubSeq(s, a + 1, b)
            l == Len(t)
<1>1. w \in Seq(Char) /\ Len(w) = b - a /\ Len(s) \in Nat /\ l \in Nat
      /\ \A i \in 1 .. b - a : w[i] = s[a + i]
  OBVIOUS
<1>2. k \in 0 .. (Len(w) - l) /\ SubSeq(w, k + 1, k + l) = t /\ t \in Seq(Char)
  BY DEF Starts
<1>. HIDE DEF w
<1>3. k \in Nat /\ a + k \in 0 .. (Len(s) - l) /\ k + l <= b - a
  <2>. HIDE DEF l
  <2>. QED  BY <1>1, <1>2
<1>. DEFINE u == SubSeq(s, (a + k) + 1, (a + k) + l)
            v == SubSeq(w, k + 1, k + l)
<1>4. u \in Seq(Char) /\ Len(u) = l /\ \A i \in 1 .. l : u[i] = s[a + k + i]
  <2>. DEFINE m == a + k
  <2>1. m \in Nat /\ l \in Nat /\ m + l <= Len(s) /\ s \in Seq(Char)
    <3>. HIDE DEF l
    <3>. QED  BY <1>1, <1>3
  <2>. HIDE DEF l, m
  <2>2. /\ SubSeq(s, m + 1, m + l) \in Seq(Char) /\ Len(SubSeq(s, m + 1, m + l)) = l
        /\ \A i \in 1 .. l : SubSeq(s, m + 1, m + l)[i] = s[m + i]
    BY <2>1, PartOfSeq
  <2>. QED  BY <2>2, Zenon DEF m
<1>5. v \in Seq(Char) /\ Len(v) = l /\ \A i \in 1 .. l : v[i] = w[k + i]
  <2>1. k \in Nat /\ l \in Nat /\ k + l <= Len(w) /\ w \in Seq(Char)
    <3>. HIDE DEF l
    <3>. QED  BY <1>1, <1>3
  <2>. HIDE DEF l
  <2>. QED  BY <2>1, PartOfSeq
<1>. HIDE DEF u, v
<1>6. ASSUME NEW i \in 1 .. l PROVE u[i] = v[i]
  <2>1. k + i \in 1 .. b - a /\ a + (k + i) = a + k + i
    <3>. HIDE DEF l
    <3>. QED  BY <1>1, <1>3
  <2>2. w[k + i] = s[a + (k + i)]
    BY <1>1, <2>1, Zenon
  <2>. QED  BY <1>4, <1>5, <2>1, <2>2
<1>7. u = v
  <2>. HIDE DEF l
  <2>. QED  BY <1>4, <1>5, <1>6, SameSeq
<1>8. u = t
  BY <1>2, <1>7 DEF v
<1>. QED  BY <1>3, <1>8, Zenon DEF Starts, u

\* The first match, and what is in front of it and behind it.
LEMMA MatchAt ==
    ASSUME NEW re, re.text \in Seq(Char), re.text # <<>>, NEW s \in Seq(Char), Starts(re, s) # {}
    PROVE  /\ rm_so(re, s) \in Starts(re, s) /\ \A k \in Starts(re, s) : rm_so(re, s) <= k
           /\ SubSeq(s, 1, rm_so(re, s)) \in Seq(Char) /\ AfterMatch(re, s) \in Seq(Char)
           /\ Len(AfterMatch(re, s)) < Len(s)
           /\ s = (SubSeq(s, 1, rm_so(re, s)) \o re.text) \o AfterMatch(re, s)
           /\ re.text = SubSeq(s, rm_so(re, s) + 1, rm_so(re, s) + Len(re.text))
           /\ rm_so(re, s) \in Nat /\ rm_so(re, s) + Len(re.text) <= Len(s)
<1>. DEFINE t == re.text
            l == Len(t)
            m == rm_so(re, s)
            h == SubSeq(s, 1, m)
            z == AfterMatch(re, s)
<1>0. Len(s) \in Nat /\ l \in Nat /\ l # 0 /\ t \in Seq(Char)
  OBVIOUS
<1>1. Starts(re, s) \in SUBSET Nat
  BY <1>0 DEF Starts
<1>2. m \in Starts(re, s) /\ \A k \in Starts(re, s) : m <= k
  BY <1>1, MinOf DEF rm_so
<1>3. m \in 0 .. (Len(s) - l) /\ SubSeq(s, m + 1, m + l) = t
  BY <1>2 DEF Starts
<1>4. m \in Nat /\ m + l <= Len(s)
  <2>. HIDE DEF l, m
  <2>. QED  BY <1>0, <1>3
<1>5. z = SubSeq(s, m + l + 1, Len(s))
  BY DEF AfterMatch, rm_eo
<1>. HIDE DEF t, m
<1>6. h \in Seq(Char) /\ Len(h) = m /\ \A i \in 1 .. m : s[i] = h[i]
  <2>. HIDE DEF l
  <2>. QED  BY <1>0, <1>4
<1>. HIDE DEF z
<1>7. z \in Seq(Char) /\ Len(z) = Len(s) - (m + l) /\ \A i \in 1 .. Len(z) : s[m + l + i] = z[i]
  <2>. HIDE DEF l
  <2>. QED  BY <1>0, <1>4, <1>5
<1>8. \A i \in 1 .. l : s[m + i] = t[i]
  <2>1. \A i \in 1 .. l : SubSeq(s, m + 1, m + l)[i] = s[m + i]
    <3>. HIDE DEF l
    <3>. QED  BY <1>0, <1>4
  <2>. QED  BY <1>3, <2>1, Zenon
<1>. HIDE DEF h
<1>9. Len(s) = Len(h) + Len(t) + Len(z)
  <2>1. Len(s) = m + l + (Len(s) - (m + l))
    <3>. HIDE DEF l
    <3>. QED  BY <1>0, <1>4
  <2>. QED  BY <1>6, <1>7, <2>1
<1>10. s = (h \o t) \o z
  <2>1. \A n \in 1 .. Len(h) : s[n] = h[n]
    BY <1>6
  <2>2. \A n \in 1 .. Len(t) : s[Len(h) + n] = t[n]
    BY <1>6, <1>8
  <2>3. \A n \in 1 .. Len(z) : s[Len(h) + Len(t) + n] = z[n]
    BY <1>6, <1>7
  <2>4. s \in Seq(Char) /\ h \in Seq(Char) /\ t \in Seq(Char) /\ z \in Seq(Char)
    BY <1>0, <1>6, <1>7
  <2>5. Covers(s, h, t, z)
    BY <1>9, <2>1, <2>2, <2>3, Zenon DEF Covers
  <2>6. MadeOf(s, h, t, z)
    BY <2>4, <2>5, ThreeParts
  <2>. QED  BY <2>6, Zenon DEF MadeOf
<1>11. Len(z) < Len(s)
  <2>. HIDE DEF l
  <2>. QED  BY <1>0, <1>4, <1>7
<1>. QED  BY <1>2, <1>3, <1>4, <1>6, <1>7, <1>10, <1>11 DEF h, z, m, t

\* A pattern matches its own text, at its start.
LEMMA OwnMatch ==
    ASSUME NEW re, re.text \in Seq(Char)
    PROVE  Starts(re, re.text) = {0}
<1>. DEFINE t == re.text
<1>1. t \in Seq(Char) /\ Len(t) \in Nat /\ Len(t) - Len(t) = 0 /\ 0 .. 0 = {0}
  OBVIOUS
<1>2. SubSeq(t, 0 + 1, 0 + Len(t)) = t
  <2>. HIDE DEF t
  <2>1. SubSeq(t, 1, Len(t)) = t
    BY <1>1
  <2>. QED  BY <1>1, <2>1
<1>. HIDE DEF t
<1>3. Starts(re, t) = {k \in 0 .. (Len(t) - Len(t)) : SubSeq(t, k + 1, k + Len(t)) = t}
  BY SMTT(30) DEF Starts, t
<1>4. Starts(re, t) = {k \in {0} : SubSeq(t, k + 1, k + Len(t)) = t}
  BY <1>1, <1>3, SMTT(30)
<1>. QED  BY <1>2, <1>4, Zenon DEF t

\* Pieces stand for output.
LEMMA ShownType ==
    ASSUME NEW p \in Shown
    PROVE  p.of \in Seq(Char)
<1>1. CASE p \in RawPieces
  BY <1>1 DEF RawPieces, Piece
<1>2. CASE p \in PlainPieces
  BY <1>2 DEF PlainPieces, Piece
<1>3. CASE p \in MatchPieces
  <2>1. PICK n \in DOMAIN subs, s \in Seq(Char) : p = Piece(subs[n].pat.text, Expand(subs[n], s), n)
    BY <1>3 DEF MatchPieces
  <2>2. p.of = subs[n].pat.text
    BY <2>1 DEF Piece
  <2>. QED  BY <2>2, PatternType
<1>4. CASE p \in EndlessPieces
  BY <1>4 DEF EndlessPieces, Piece
<1>. QED  BY <1>1, <1>2, <1>3, <1>4 DEF Shown

\* The output of each piece.
Ofs(ps) == [k \in DOMAIN ps |-> ps[k].of]

\* Pieces and their output are sequences of the same length.
LEMMA OfsType ==
    ASSUME NEW ps \in Seq(Shown)
    PROVE  /\ Ofs(ps) \in Seq(Seq(Char)) /\ Len(Ofs(ps)) = Len(ps) /\ Len(ps) \in Nat
           /\ \A k \in 1 .. Len(ps) : Ofs(ps)[k] = ps[k].of
<1>1. Len(ps) \in Nat /\ DOMAIN ps = 1 .. Len(ps)
  OBVIOUS
<1>2. \A k \in 1 .. Len(ps) : ps[k].of \in Seq(Char)
  BY ShownType
<1>3. Ofs(ps) = [k \in 1 .. Len(ps) |-> ps[k].of]
  BY <1>1 DEF Ofs
<1>4. Ofs(ps) \in [1 .. Len(ps) -> Seq(Char)]
  BY <1>2, <1>3
<1>5. Ofs(ps) \in Seq(Seq(Char)) /\ Len(Ofs(ps)) = Len(ps)
  BY <1>1, <1>4, IsSequence
<1>. QED  BY <1>1, <1>3, <1>5

\* The output of two sequences of pieces.
LEMMA SrcConcat ==
    ASSUME NEW p \in Seq(Shown), NEW q \in Seq(Shown)
    PROVE  Src(p) \in Seq(Char) /\ Src(p \o q) = Src(p) \o Src(q)
<1>. DEFINE r == p \o q
            a == Ofs(p)
            b == Ofs(q)
            c == Ofs(r)
<1>1. /\ r \in Seq(Shown) /\ Len(r) = Len(p) + Len(q)
      /\ \A k \in 1 .. Len(p) : r[k] = p[k]
      /\ \A k \in 1 .. Len(q) : r[Len(p) + k] = q[k]
  BY Joined
<1>. HIDE DEF r
<1>2. /\ a \in Seq(Seq(Char)) /\ Len(a) = Len(p) /\ Len(p) \in Nat
      /\ \A k \in 1 .. Len(p) : a[k] = p[k].of
  BY OfsType
<1>3. /\ b \in Seq(Seq(Char)) /\ Len(b) = Len(q) /\ Len(q) \in Nat
      /\ \A k \in 1 .. Len(q) : b[k] = q[k].of
  BY OfsType
<1>4. /\ c \in Seq(Seq(Char)) /\ Len(c) = Len(r) /\ \A k \in 1 .. Len(r) : c[k] = r[k].of
  BY <1>1, OfsType
<1>. HIDE DEF a, b, c
<1>5. c = a \o b
  <2>. DEFINE d == a \o b
  <2>1. /\ d \in Seq(Seq(Char)) /\ Len(d) = Len(a) + Len(b)
        /\ \A k \in 1 .. Len(a) : d[k] = a[k]
        /\ \A k \in 1 .. Len(b) : d[Len(a) + k] = b[k]
    <3>1. a \in Seq(Seq(Char)) /\ b \in Seq(Seq(Char))
      BY <1>2, <1>3
    <3>. QED  BY <3>1, Joined
  <2>. HIDE DEF d
  <2>2. Len(c) = Len(d) /\ Len(c) = Len(p) + Len(q)
    BY <1>1, <1>2, <1>3, <1>4, <2>1
  <2>3. ASSUME NEW k \in 1 .. Len(c) PROVE c[k] = d[k]
    <3>1. CASE k <= Len(p)
      <4>1. k \in 1 .. Len(p) /\ k \in 1 .. Len(r)
        BY <1>2, <1>4, <3>1
      <4>2. r[k] = p[k] /\ d[k] = a[k] /\ a[k] = p[k].of /\ c[k] = r[k].of
        BY <1>1, <1>2, <1>4, <2>1, <4>1, Zenon
      <4>. QED  BY <4>2, Zenon
    <3>2. CASE ~ (k <= Len(p))
      <4>. DEFINE j == k - Len(p)
      <4>1. j \in 1 .. Len(q) /\ Len(p) + j = k /\ k \in 1 .. Len(r)
        BY <1>2, <1>3, <1>4, <2>2, <3>2
      <4>. HIDE DEF j
      <4>2. r[Len(p) + j] = q[j] /\ d[Len(a) + j] = b[j] /\ b[j] = q[j].of /\ c[k] = r[k].of
        BY <1>1, <1>3, <1>4, <2>1, <4>1, Zenon
      <4>. QED  BY <1>2, <4>1, <4>2, Zenon
    <3>. QED  BY <3>1, <3>2
  <2>4. c = d
    BY <1>4, <2>1, <2>2, <2>3, SameSeq
  <2>. QED  BY <2>4 DEF d
<1>6. FlattenSeq(a \o b) = FlattenSeq(a) \o FlattenSeq(b)
  BY <1>2, <1>3, FlattenConcat
<1>7. FlattenSeq(a) \in Seq(Char)
  BY <1>2, FlattenType
<1>8. Src(p) = FlattenSeq(a) /\ Src(q) = FlattenSeq(b) /\ Src(r) = FlattenSeq(c)
  BY DEF Src, Ofs, a, b, c
<1>9. Src(r) = Src(p) \o Src(q)
  BY <1>5, <1>6, <1>8, Zenon
<1>. QED  BY <1>7, <1>8, <1>9 DEF r

\* One piece and no piece.
LEMMA SrcSmall ==
    /\ Src(<<>>) = <<>>
    /\ \A p \in Shown : Src(<<p>>) = p.of
<1>1. Src(<<>>) = <<>>
  <2>1. [k \in DOMAIN <<>> |-> <<>>[k].of] = <<>>
    OBVIOUS
  <2>. QED  BY <2>1, FlattenSmall DEF Src
<1>2. ASSUME NEW p \in Shown PROVE Src(<<p>>) = p.of
  <2>1. p.of \in Seq(Char)
    BY ShownType
  <2>2. [k \in DOMAIN <<p>> |-> <<p>>[k].of] = <<p.of>>
    OBVIOUS
  <2>3. FlattenSeq(<<p.of>>) = p.of
    BY <2>1, FlattenSmall
  <2>. QED  BY <2>2, <2>3 DEF Src
<1>. QED  BY <1>1, <1>2

\* Output that stays as it is.
LEMMA UnchangedShown ==
    ASSUME NEW s \in Seq(Char), s # <<>> => Unmatched(s)
    PROVE  Unchanged(s) \in Seq(Shown) /\ Src(Unchanged(s)) = s
<1>1. CASE s = <<>>
  <2>1. Unchanged(s) = <<>>
    BY <1>1 DEF Unchanged
  <2>2. <<>> \in Seq(Shown)
    OBVIOUS
  <2>. QED  BY <1>1, <2>1, <2>2, SrcSmall
<1>2. CASE s # <<>>
  <2>. DEFINE p == Piece(s, s, 0)
  <2>1. Unchanged(s) = <<p>>
    BY <1>2 DEF Unchanged
  <2>2. p \in Shown
    BY <1>2 DEF Shown, PlainPieces
  <2>3. p.of = s
    BY DEF Piece
  <2>. HIDE DEF p
  <2>4. <<p>> \in Seq(Shown)
    BY <2>2
  <2>. QED  BY <2>1, <2>2, <2>3, <2>4, SrcSmall
<1>. QED  BY <1>1, <1>2

\* A loop that shows what it takes, shows all.
LEMMA LoopSource ==
    ASSUME NEW Rest, NEW Out, IsTurn(Rest, Out, Char, Shown),
           \A x \in Seq(Char) : x # <<>> => Src(Out[x]) \o Rest[x] = x,
           NEW s \in Seq(Char)
    PROVE  Loop(Rest, Out, s) \in Seq(Shown) /\ Src(Loop(Rest, Out, s)) = s
<1>. DEFINE P(x) == Src(Loop(Rest, Out, x)) = x
            T == {n \in Nat : \A x \in Seq(Char) : Len(x) <= n => P(x)}
<1>0. \A x \in Seq(Char) : Loop(Rest, Out, x) \in Seq(Shown)
  BY LoopType
<1>1. ASSUME NEW x \in Seq(Char), x = <<>> PROVE P(x)
  BY <1>1, LoopEmpty, SrcSmall
<1>2. 0 \in T
  <2>. HIDE DEF P
  <2>. SUFFICES ASSUME NEW x \in Seq(Char), Len(x) <= 0 PROVE P(x)
    OBVIOUS
  <2>1. x = <<>>
    OBVIOUS
  <2>. QED  BY <1>1, <2>1
<1>3. ASSUME NEW n \in Nat, n \in T PROVE n + 1 \in T
  <2>. HIDE DEF P
  <2>. SUFFICES ASSUME NEW x \in Seq(Char), Len(x) <= n + 1, x # <<>> PROVE P(x)
    BY <1>1
  <2>. DEFINE r == Rest[x]
              o == Out[x]
              w == Loop(Rest, Out, r)
  <2>1. r \in Seq(Char) /\ o \in Seq(Shown) /\ Len(r) < Len(x)
    BY DEF IsTurn
  <2>2. LoopUnfolds(Rest, Out, x)
    BY LoopTurn
  <2>3. Loop(Rest, Out, x) = o \o w
    BY <2>2, Zenon DEF LoopUnfolds
  <2>. HIDE DEF r
  <2>4. w \in Seq(Shown) /\ Len(r) <= n
    BY <1>0, <2>1
  <2>5. P(r)
    BY <1>3, <2>1, <2>4
  <2>6. Src(w) = r
    BY <2>5 DEF P
  <2>7. Src(o) \o r = x
    BY DEF r
  <2>. HIDE DEF o, w
  <2>8. Src(o \o w) = Src(o) \o Src(w)
    BY <2>1, <2>4, SrcConcat
  <2>9. Src(Loop(Rest, Out, x)) = x
    BY <2>3, <2>6, <2>7, <2>8, Zenon
  <2>. QED  BY <2>9 DEF P
<1>. HIDE DEF T, P
<1>4. \A n \in Nat : n \in T
  BY <1>2, <1>3, EveryNat
<1>5. Len(s) \in Nat /\ Len(s) <= Len(s)
  OBVIOUS
<1>6. Len(s) \in T
  BY <1>4, <1>5
<1>7. P(s)
  BY <1>5, <1>6 DEF T
<1>. QED  BY <1>0, <1>7 DEF P

\* A match in the first m characters starts among them.
LEMMA StartsBelow ==
    ASSUME NEW re, re.text \in Seq(Char), re.text # <<>>, NEW s \in Seq(Char), NEW m \in Nat, m <= Len(s),
           NEW k \in Starts(re, SubSeq(s, 1, m))
    PROVE  k < m /\ k \in Nat
<1>. DEFINE l == Len(re.text)
            h == SubSeq(s, 1, m)
<1>1. l \in Nat /\ l # 0 /\ Len(h) = m
  OBVIOUS
<1>2. k \in 0 .. (Len(h) - l)
  BY DEF Starts
<1>. HIDE DEF l, h
<1>. QED  BY <1>1, <1>2

\* What a turn of cli_subst() leaves and shows, when a -subst matches.
LEMMA SubstTurn ==
    ASSUME NEW s \in Seq(Char)
    PROVE  /\ SubstRest(subs, s) \in Seq(Char) /\ SubstOut(subs, s) \in Seq(Shown)
           /\ s # <<>> => Len(SubstRest(subs, s)) < Len(s)
           /\ Src(SubstOut(subs, s)) \o SubstRest(subs, s) = s
<1>0. Hits(subs, s) \in SUBSET Nat /\ Hits(subs, s) \subseteq DOMAIN subs
  BY PatternType DEF Hits
<1>1. CASE Hits(subs, s) = {}
  <2>1. SubstRest(subs, s) = <<>> /\ SubstOut(subs, s) = Unchanged(s)
    BY <1>1 DEF SubstRest, SubstOut
  <2>2. s # <<>> => Unmatched(s)
    BY <1>1 DEF Unmatched, Hits
  <2>3. Unchanged(s) \in Seq(Shown) /\ Src(Unchanged(s)) = s
    BY <2>2, UnchangedShown
  <2>4. s \o <<>> = s /\ <<>> \in Seq(Char) /\ (s # <<>> => Len(<<>>) < Len(s))
    OBVIOUS
  <2>. QED  BY <2>1, <2>3, <2>4
<1>3. CASE EmptyMatch(subs, s)
  <2>. DEFINE p == Piece(s, <<>>, Endless)
  <2>0. Hits(subs, s) # {} /\ s # <<>>
    BY <1>3 DEF EmptyMatch, Hits
  <2>1. SubstRest(subs, s) = <<>> /\ SubstOut(subs, s) = <<p>>
    BY <1>3, <2>0, Zenon DEF SubstRest, SubstOut
  <2>2. p \in Shown
    BY Zenon DEF Shown, EndlessPieces
  <2>3. p.of = s
    BY DEF Piece
  <2>. HIDE DEF p
  <2>4. <<p>> \in Seq(Shown) /\ Src(<<p>>) = s
    BY <2>2, <2>3, SrcSmall
  <2>5. s \o <<>> = s /\ <<>> \in Seq(Char) /\ Len(<<>>) < Len(s)
    BY <2>0
  <2>. QED  BY <2>1, <2>4, <2>5, Zenon
<1>2. CASE Hits(subs, s) # {} /\ ~ EmptyMatch(subs, s)
  <2>. DEFINE n == Min(Hits(subs, s))
              re == subs[n].pat
              t == re.text
              h == SubSeq(s, 1, rm_so(re, s))
              z == AfterMatch(re, s)
              p == Piece(t, Expand(subs[n], s), n)
  <2>1. n \in Hits(subs, s) /\ \A k \in Hits(subs, s) : n <= k
    BY <1>0, <1>2, MinOf
  <2>2. n \in DOMAIN subs /\ n \in 1 .. Len(Substs) /\ Starts(re, s) # {} /\ s # <<>>
    BY <1>0, <2>1, PatternType DEF Hits
  <2>3. t \in Seq(Char) /\ t # <<>>
    <3>1. [k \in DOMAIN subs |-> subs[k].pat.text][n] # <<>>
      BY <1>2, Zenon DEF EmptyMatch
    <3>2. [k \in DOMAIN subs |-> subs[k].pat.text][n] = t
      <4>. HIDE DEF n
      <4>. QED  BY <2>2
    <3>3. t \in Seq(Char)
      <4>. HIDE DEF n
      <4>. QED  BY <2>2, PatternType
    <3>. QED  BY <3>1, <3>2, <3>3, Zenon
  <2>4. SubstRest(subs, s) = z /\ SubstOut(subs, s) = Unchanged(h) \o <<p>>
    <3>1. SubstRest(subs, s) = [k \in DOMAIN subs |-> AfterMatch(subs[k].pat, s)][n]
      BY <1>2, Zenon DEF SubstRest
    <3>2. SubstOut(subs, s) = [k \in DOMAIN subs |-> Substituted(subs[k], k, s)][n]
      BY <1>2, Zenon DEF SubstOut
    <3>3. SubstRest(subs, s) = AfterMatch(subs[n].pat, s) /\ SubstOut(subs, s) = Substituted(subs[n], n, s)
      <4>. HIDE DEF n
      <4>. QED  BY <2>2, <3>1, <3>2
    <3>. QED  BY <3>3, Zenon DEF Substituted
  <2>. HIDE DEF n
  <2>5. /\ rm_so(re, s) \in Starts(re, s) /\ \A k \in Starts(re, s) : rm_so(re, s) <= k
        /\ h \in Seq(Char) /\ z \in Seq(Char) /\ Len(z) < Len(s) /\ s = (h \o t) \o z
        /\ t = SubSeq(s, rm_so(re, s) + 1, rm_so(re, s) + Len(t))
        /\ rm_so(re, s) \in Nat /\ rm_so(re, s) + Len(t) <= Len(s)
    <3>. DEFINE e == re
    <3>1. e.text \in Seq(Char) /\ e.text # <<>> /\ Starts(e, s) # {}
      BY <2>2, <2>3
    <3>. HIDE DEF e
    <3>2. /\ rm_so(e, s) \in Starts(e, s) /\ \A k \in Starts(e, s) : rm_so(e, s) <= k
          /\ SubSeq(s, 1, rm_so(e, s)) \in Seq(Char) /\ AfterMatch(e, s) \in Seq(Char)
          /\ Len(AfterMatch(e, s)) < Len(s)
          /\ s = (SubSeq(s, 1, rm_so(e, s)) \o e.text) \o AfterMatch(e, s)
          /\ e.text = SubSeq(s, rm_so(e, s) + 1, rm_so(e, s) + Len(e.text))
          /\ rm_so(e, s) \in Nat /\ rm_so(e, s) + Len(e.text) <= Len(s)
      BY <3>1, MatchAt
    <3>. QED  BY <3>2, Zenon DEF e
  <2>6. ASSUME n # 1, 1 \in DOMAIN subs PROVE Starts(subs[1].pat, s) = {}
    <3>1. n > 1
      BY <2>2, <2>6
    <3>2. 1 \notin Hits(subs, s)
      BY <2>1, <2>2, <3>1
    <3>. QED  BY <2>2, <2>6, <3>2 DEF Hits
  <2>. DEFINE m == rm_so(re, s)
  <2>7. m \in Nat /\ Len(t) \in Nat /\ m + Len(t) <= Len(s) /\ Len(s) \in Nat
    BY <2>3, <2>5
  <2>8. Unmatched(h)
    <3>. SUFFICES ASSUME 1 \in DOMAIN subs, subs[1].pat.text # <<>>, NEW k \in Starts(subs[1].pat, h) PROVE FALSE
      BY DEF Unmatched
    <3>0. subs[1].pat.text \in Seq(Char) /\ subs[1].pat.text # <<>>
      BY PatternType
    <3>. DEFINE e == subs[1].pat
    <3>1. k \in Starts(e, SubSeq(s, 0 + 1, m)) /\ e.text \in Seq(Char) /\ 0 <= m /\ m <= Len(s)
      <4>1. m <= Len(s) /\ 0 <= m
        <5>. HIDE DEF m, t
        <5>. QED  BY <2>7
      <4>2. 0 + 1 = 1
        OBVIOUS
      <4>. QED  BY <3>0, <4>1, <4>2
    <3>2. e.text # <<>> /\ m \in Nat /\ k \in Starts(e, SubSeq(s, 1, m))
      BY <2>7, <3>0
    <3>. HIDE DEF e, m
    <3>3. k < m /\ k \in Nat
      BY <3>1, <3>2, StartsBelow
    <3>4. 0 + k \in Starts(e, s)
      <4>1. 0 \in Nat /\ m \in Nat
        BY <2>7
      <4>. QED  BY <3>1, <4>1, StartsIn
    <3>5. k \in Starts(e, s)
      BY <3>3, <3>4
    <3>6. CASE n = 1
      <4>1. m <= k
        BY <2>5, <3>5, <3>6 DEF e, m
      <4>. QED  BY <2>7, <3>3, <4>1
    <3>7. CASE n # 1
      BY <2>6, <3>5, <3>7 DEF e
    <3>. QED  BY <3>6, <3>7
  <2>9. n # 1 => Unmatched(t)
    <3>. SUFFICES ASSUME n # 1, 1 \in DOMAIN subs, NEW k \in Starts(subs[1].pat, t) PROVE FALSE
      BY DEF Unmatched
    <3>. DEFINE e == subs[1].pat
                b == m + Len(t)
    <3>1. e.text \in Seq(Char)
      BY PatternType
    <3>2. k \in Starts(e, SubSeq(s, m + 1, b))
      BY <2>5
    <3>3. m \in Nat /\ b \in Nat /\ m <= b /\ b <= Len(s)
      <4>. HIDE DEF m, t
      <4>. QED  BY <2>7
    <3>. HIDE DEF e, m, b
    <3>4. m + k \in Starts(e, s)
      BY <3>1, <3>2, <3>3, StartsIn
    <3>. QED  BY <2>6, <3>4 DEF e
  <2>10. Unchanged(h) \in Seq(Shown) /\ Src(Unchanged(h)) = h
    BY <2>5, <2>8, UnchangedShown
  <2>11. p \in Shown
    <3>1. n \in {m_1 \in DOMAIN subs : m_1 # 1 => Unmatched(subs[m_1].pat.text)}
      BY <2>2, <2>9
    <3>2. p \in MatchPieces
      BY <3>1 DEF MatchPieces
    <3>. QED  BY <3>2 DEF Shown
  <2>12. p.of = t
    BY DEF Piece
  <2>. HIDE DEF p
  <2>13. <<p>> \in Seq(Shown) /\ Src(<<p>>) = t
    BY <2>11, <2>12, SrcSmall
  <2>. DEFINE u == Unchanged(h)
              q == <<p>>
  <2>14. u \in Seq(Shown) /\ q \in Seq(Shown)
    BY <2>10, <2>13
  <2>. HIDE DEF u, q
  <2>15. u \o q \in Seq(Shown)
    BY <2>14
  <2>16. Src(u \o q) = Src(u) \o Src(q)
    BY <2>14, SrcConcat
  <2>17. Src(u \o q) = h \o t
    BY <2>10, <2>13, <2>16, Zenon DEF u, q
  <2>. QED  BY <2>4, <2>5, <2>15, <2>17, Zenon DEF u, q
<1>. QED  BY <1>1, <1>2, <1>3

\* cli_subst() and cli_subst_raw() as loops.
SubstRests == [t \in Seq(Char) |-> SubstRest(subs, t)]
SubstOuts == [t \in Seq(Char) |-> SubstOut(subs, t)]
RawRests == [t \in Seq(Char) |-> RawRest(t)]
RawOuts == [t \in Seq(Char) |-> RawOut(subs, t)]

\* cli_subst() shows all of its input, if it ends.
LEMMA SubstShows ==
    ASSUME NEW s \in Seq(Char)
    PROVE  cli_subst(subs, s) \in Seq(Shown) /\ Src(cli_subst(subs, s)) = s
<1>1. \A x \in Seq(Char) : SubstRests[x] = SubstRest(subs, x) /\ SubstOuts[x] = SubstOut(subs, x)
  BY Zenon DEF SubstRests, SubstOuts
<1>2. \A x \in Seq(Char) : /\ SubstRests[x] \in Seq(Char) /\ SubstOuts[x] \in Seq(Shown)
                           /\ x # <<>> => Len(SubstRests[x]) < Len(x)
                           /\ Src(SubstOuts[x]) \o SubstRests[x] = x
  BY <1>1, SubstTurn, Zenon
<1>3. SubstRests[<<>>] = <<>> /\ SubstOuts[<<>>] = <<>>
  <2>1. <<>> \in Seq(Char)
    OBVIOUS
  <2>2. Hits(subs, <<>>) = {}
    BY DEF Hits
  <2>3. SubstRest(subs, <<>>) = <<>> /\ SubstOut(subs, <<>>) = <<>>
    BY <2>2, Zenon DEF SubstRest, SubstOut, Unchanged
  <2>. QED  BY <1>1, <2>1, <2>3, Zenon
<1>4. IsTurn(SubstRests, SubstOuts, Char, Shown)
  <2>1. SubstRests \in [Seq(Char) -> Seq(Char)] /\ SubstOuts \in [Seq(Char) -> Seq(Shown)]
    BY SubstTurn DEF SubstRests, SubstOuts
  <2>. QED  BY <1>2, <1>3, <2>1, Zenon DEF IsTurn
<1>5. Loop(SubstRests, SubstOuts, s) \in Seq(Shown) /\ Src(Loop(SubstRests, SubstOuts, s)) = s
  BY <1>2, <1>4, LoopSource
<1>. QED  BY <1>5, Zenon DEF cli_subst, SubstRests, SubstOuts

\* A NUL is no match.
LEMMA NulShown ==
    Unchanged(<<NUL>>) \in Seq(Shown) /\ Src(Unchanged(<<NUL>>)) = <<NUL>>
<1>1. <<NUL>> \in Seq(Char) /\ Len(<<NUL>>) = 1 /\ <<NUL>>[1] = NUL
  BY DEF NUL, Char
<1>2. Unmatched(<<NUL>>)
  <2>. SUFFICES ASSUME 1 \in DOMAIN subs, subs[1].pat.text # <<>>, NEW k \in Starts(subs[1].pat, <<NUL>>) PROVE FALSE
    BY DEF Unmatched
  <2>. DEFINE t == subs[1].pat.text
              w == <<NUL>>
  <2>1. t \in Seq(Byte) /\ t # <<>>
    BY PatternType
  <2>2. k \in 0 .. (Len(w) - Len(t)) /\ SubSeq(w, k + 1, k + Len(t)) = t
    BY DEF Starts
  <2>. HIDE DEF t, w
  <2>3. Len(t) \in Nat /\ Len(t) # 0 /\ Len(w) = 1
    BY <1>1, <2>1 DEF w
  <2>4. k = 0 /\ Len(t) = 1
    <3>. DEFINE l == Len(t)
    <3>1. l \in Nat /\ l # 0 /\ k \in 0 .. (1 - l)
      BY <2>2, <2>3
    <3>. HIDE DEF l
    <3>2. k = 0 /\ l = 1
      BY <3>1
    <3>. QED  BY <3>2 DEF l
  <2>5. t = SubSeq(w, 1, 1)
    BY <2>2, <2>4
  <2>6. t[1] = NUL
    BY <1>1, <2>5 DEF w
  <2>7. t[1] \in Byte
    BY <2>1, <2>4
  <2>. QED  BY <2>6, <2>7 DEF NUL, Byte
<1>. QED  BY <1>1, <1>2, UnchangedShown

\* What a turn of cli_subst_raw() leaves and shows.
LEMMA RawTurn ==
    ASSUME NEW s \in Seq(Char)
    PROVE  /\ RawRest(s) \in Seq(Char) /\ RawOut(subs, s) \in Seq(Shown)
           /\ s # <<>> => Len(RawRest(s)) < Len(s)
           /\ Src(RawOut(subs, s)) \o RawRest(s) = s
<1>1. CASE Nuls(s) = {}
  <2>1. RawRest(s) = <<>> /\ RawOut(subs, s) = cli_subst(subs, s)
    BY <1>1, Zenon DEF RawRest, RawOut
  <2>2. s \o <<>> = s /\ <<>> \in Seq(Char) /\ (s # <<>> => Len(<<>>) < Len(s))
    OBVIOUS
  <2>. QED  BY <2>1, <2>2, SubstShows, Zenon
<1>2. CASE Nuls(s) # {}
  <2>. DEFINE m == Min(Nuls(s))
              h == SubSeq(s, 1, m - 1)
              z == SubSeq(s, m + 1, Len(s))
              w == <<NUL>>
              a == cli_subst(subs, h)
              b == Unchanged(w)
  <2>0. Nuls(s) \in SUBSET Nat /\ Nuls(s) \subseteq DOMAIN s
    BY DEF Nuls
  <2>1. m \in Nuls(s)
    BY <1>2, <2>0, MinOf
  <2>2. m \in 1 .. Len(s) /\ s[m] = NUL /\ Len(s) \in Nat
    BY <2>1 DEF Nuls
  <2>3. RawRest(s) = z /\ RawOut(subs, s) = a \o b
    BY <1>2, Zenon DEF RawRest, RawOut
  <2>. HIDE DEF m
  <2>4. h \in Seq(Char) /\ Len(h) = m - 1 /\ \A i \in 1 .. m - 1 : s[i] = h[i]
    BY <2>2
  <2>5. z \in Seq(Char) /\ Len(z) = Len(s) - m /\ \A i \in 1 .. Len(s) - m : s[m + i] = z[i]
    BY <2>2
  <2>6. w \in Seq(Char) /\ Len(w) = 1 /\ w[1] = NUL
    BY DEF NUL, Char
  <2>. HIDE DEF h, z, w
  <2>7. s = (h \o w) \o z
    <3>1. \A i \in 1 .. Len(h) : s[i] = h[i]
      BY <2>4
    <3>2. \A i \in 1 .. Len(w) : s[Len(h) + i] = w[i]
      BY <2>2, <2>4, <2>6
    <3>3. \A i \in 1 .. Len(z) : s[Len(h) + Len(w) + i] = z[i]
      BY <2>2, <2>4, <2>5, <2>6
    <3>4. Len(s) = Len(h) + Len(w) + Len(z)
      BY <2>2, <2>4, <2>5, <2>6
    <3>5. s \in Seq(Char) /\ h \in Seq(Char) /\ w \in Seq(Char) /\ z \in Seq(Char)
      BY <2>4, <2>5, <2>6
    <3>6. Covers(s, h, w, z)
      BY <3>1, <3>2, <3>3, <3>4, Zenon DEF Covers
    <3>7. MadeOf(s, h, w, z)
      BY <3>5, <3>6, ThreeParts
    <3>. QED  BY <3>7, Zenon DEF MadeOf
  <2>8. a \in Seq(Shown) /\ Src(a) = h
    BY <2>4, SubstShows
  <2>9. b \in Seq(Shown) /\ Src(b) = w
    BY NulShown DEF w
  <2>. HIDE DEF a, b
  <2>10. a \o b \in Seq(Shown) /\ Src(a \o b) = Src(a) \o Src(b)
    <3>1. a \in Seq(Shown) /\ b \in Seq(Shown)
      BY <2>8, <2>9
    <3>2. a \o b \in Seq(Shown)
      BY <3>1
    <3>3. Src(a \o b) = Src(a) \o Src(b)
      BY <3>1, SrcConcat
    <3>. QED  BY <3>2, <3>3
  <2>11. Len(z) < Len(s)
    BY <2>2, <2>5
  <2>. QED  BY <2>3, <2>5, <2>7, <2>8, <2>9, <2>10, <2>11, Zenon
<1>. QED  BY <1>1, <1>2

\* cli_subst_raw() shows all of its input, if it ends.
LEMMA RawShows ==
    ASSUME NEW s \in Seq(Char)
    PROVE  cli_subst_raw(subs, s) \in Seq(Shown) /\ Src(cli_subst_raw(subs, s)) = s
<1>1. \A x \in Seq(Char) : RawRests[x] = RawRest(x) /\ RawOuts[x] = RawOut(subs, x)
  BY Zenon DEF RawRests, RawOuts
<1>2. \A x \in Seq(Char) : /\ RawRests[x] \in Seq(Char) /\ RawOuts[x] \in Seq(Shown)
                           /\ x # <<>> => Len(RawRests[x]) < Len(x)
                           /\ Src(RawOuts[x]) \o RawRests[x] = x
  BY <1>1, RawTurn, Zenon
<1>3. RawRests[<<>>] = <<>> /\ RawOuts[<<>>] = <<>>
  <2>1. <<>> \in Seq(Char)
    OBVIOUS
  <2>2. Nuls(<<>>) = {}
    BY DEF Nuls
  <2>3. cli_subst(subs, <<>>) = <<>>
    BY LoopEmpty, Zenon DEF cli_subst
  <2>4. RawRest(<<>>) = <<>> /\ RawOut(subs, <<>>) = <<>>
    BY <2>2, <2>3, Zenon DEF RawRest, RawOut
  <2>. QED  BY <1>1, <2>1, <2>4, Zenon
<1>4. IsTurn(RawRests, RawOuts, Char, Shown)
  <2>1. RawRests \in [Seq(Char) -> Seq(Char)] /\ RawOuts \in [Seq(Char) -> Seq(Shown)]
    BY RawTurn DEF RawRests, RawOuts
  <2>. QED  BY <1>2, <1>3, <2>1, Zenon DEF IsTurn
<1>5. Loop(RawRests, RawOuts, s) \in Seq(Shown) /\ Src(Loop(RawRests, RawOuts, s)) = s
  BY <1>2, <1>4, LoopSource
<1>. QED  BY <1>5, Zenon DEF cli_subst_raw, RawRests, RawOuts

-----------------------------------------------------------------------------
(* Output *)

\* Output on its way, and all output that was read from the ptm.
DownStream == (cli.in \o down) \o serv.out
OutComing == Carried("OUTPUT", DownStream)
Unsent == IF serv.pc = "send" /\ serv.next = "sent" THEN <<>> ELSE raw
AllOutput == (Src(screen) \o OutComing) \o Unsent

\* What the server sends: OUTPUT, or the DISCONN after which it closes.
Sending ==
    serv.pc = "send" =>
       /\ serv.next \in {"sent", "close"}
       /\ serv.next = "sent" => serv.out \in Seq(OutElement)
       /\ serv.next = "close" => Len(serv.out) = 1

\* What is on its way has nothing but OUTPUT, and with the screen it is what was
\* read from the ptm.
OutputAt ==
    /\ Complete(DownStream) /\ cli.in \in Seq(OutElement) /\ down \in Seq(OutElement)
    /\ AllOutput = FirstOf(Output, nread)

\* Pieces cli_subst() gets behind.
OnScreen(ps) == ps \in Seq(Shown) /\ \A k \in DOMAIN ps : ps[k].sub # Endless

\* What OutputKept rests on: the screen has pieces of those kinds, the stream to
\* the client has messages, and the client ends by itself only after the server
\* has closed the connection.
OutputInv ==
    /\ OnScreen(screen)
    /\ ~ Over => Framed(DownStream)
    /\ open /\ ~ Over => OutputAt
    /\ cli.pc = "gone" => ~ open
    /\ Sending

\* All these are sequences.
LEMMA OutputTypes ==
    ASSUME Places, OutputInv
    PROVE  /\ DownStream \in Seq(Element) /\ Src(screen) \in Seq(Nat) /\ OutComing \in Seq(Nat) /\ Unsent \in Seq(Nat)
           /\ Src(screen) \o OutComing \in Seq(Nat) /\ screen \in Seq(Shown)
<1>1. cli.in \in Seq(DownElement) /\ down \in Seq(DownElement) /\ serv.out \in Seq(DownElement)
  BY DEF Places, SockType, ServPlaces, ServRecord, CliPlaces, CliRecord
<1>2. DownStream \in Seq(DownElement)
  BY <1>1 DEF DownStream
<1>3. DownStream \in Seq(Element)
  BY <1>2, CharSeq
<1>4. screen \in Seq(Shown)
  BY DEF OutputInv, OnScreen
<1>5. Src(screen) \in Seq(Nat)
  <2>1. Src(screen) \in Seq(Char)
    BY <1>4, SrcConcat
  <2>. QED  BY <2>1, CharSeq
<1>6. OutComing \in Seq(Nat)
  BY <1>3, CarriedType DEF OutComing
<1>7. raw \in Seq(Nat) /\ <<>> \in Seq(Nat)
  <2>1. raw \in Seq(Char)
    BY DEF Places, DataType
  <2>. QED  BY <2>1, CharSeq
<1>8. Unsent \in Seq(Nat)
  BY <1>7, Zenon DEF Unsent
<1>9. Src(screen) \o OutComing \in Seq(Nat)
  BY <1>5, <1>6
<1>. QED  BY <1>3, <1>4, <1>5, <1>6, <1>8, <1>9

\* Nothing was written at the start.
LEMMA OutputInit == ASSUME RelayInit PROVE OutputInv
<1>1. /\ cli.in = <<>> /\ down = <<>> /\ serv.out = <<>> /\ raw = <<>> /\ screen = <<>> /\ nread = 0
      /\ cli.pc = "write" /\ serv.pc = "select" /\ ~ Over
  BY DEF RelayInit, Client, Server, Over
<1>2. /\ <<>> \in Seq(Shown) /\ <<>> \in Seq(OutElement) /\ <<>> \in Seq(Element)
      /\ Framed(<<>>) /\ Complete(<<>>) /\ <<>> \o <<>> = <<>>
  BY DEF Framed, Complete
<1>3. DownStream = <<>> /\ Unsent = <<>>
  BY <1>1, <1>2 DEF DownStream, Unsent
<1>4. Carried("OUTPUT", <<>>) = <<>>
  BY <1>2, CarriedType
<1>5. OutComing = <<>>
  BY <1>3, <1>4 DEF OutComing
<1>6. AllOutput = <<>>
  BY <1>1, <1>2, <1>3, <1>5, SrcSmall, Zenon DEF AllOutput
<1>7. FirstOf(Output, 0) = <<>>
  BY DataBytes DEF FirstOf
<1>8. OutputAt
  BY <1>1, <1>2, <1>3, <1>6, <1>7, Zenon DEF OutputAt
<1>9. Sending
  BY <1>1 DEF Sending
<1>10. OnScreen(<<>>)
  BY <1>2 DEF OnScreen
<1>. QED  BY <1>1, <1>3, <1>2, <1>8, <1>9, <1>10 DEF OutputInv

\* Steps that leave the output where it is: the client or the connection may end.
LEMMA OutputSame ==
    ASSUME Places, OutputInv, screen' = screen, nread' = nread, DownStream' = DownStream, Unsent' = Unsent,
           open' => open, Over => Over', cli'.pc = "gone" => ~ open', Sending',
           open' /\ ~ Over' => cli'.in \in Seq(OutElement) /\ down' \in Seq(OutElement)
    PROVE  OutputInv'
<1>1. OutComing' = OutComing
  BY DEF OutComing
<1>2. AllOutput' = AllOutput
  BY <1>1 DEF AllOutput
<1>3. ASSUME open', ~ Over' PROVE OutputAt'
  <2>1. Complete(DownStream) /\ AllOutput = FirstOf(Output, nread)
    BY <1>3 DEF OutputInv, OutputAt
  <2>2. Complete(DownStream') /\ AllOutput' = FirstOf(Output, nread')
    BY <1>2, <2>1
  <2>. QED  BY <1>3, <2>2 DEF OutputAt
<1>4. ASSUME ~ Over' PROVE Framed(DownStream')
  BY <1>4 DEF OutputInv
<1>5. OnScreen(screen')
  BY DEF OutputInv
<1>. QED  BY <1>3, <1>4, <1>5 DEF OutputInv

\* Steps that do not touch output.
LEMMA OutputIdle ==
    ASSUME Places, OutputInv, UNCHANGED <<screen, nread, down, serv, raw, open>>, cli'.in = cli.in,
           Over => Over', cli'.pc = "gone" => cli.pc = "gone" \/ ~ open
    PROVE  OutputInv'
<1>1. DownStream' = DownStream /\ Unsent' = Unsent
  BY DEF DownStream, Unsent
<1>2. Sending'
  BY DEF OutputInv, Sending
<1>3. cli'.pc = "gone" => ~ open'
  BY DEF OutputInv
<1>4. open' /\ ~ Over' => cli'.in \in Seq(OutElement) /\ down' \in Seq(OutElement)
  BY DEF OutputInv, OutputAt
<1>. QED  BY <1>1, <1>2, <1>3, <1>4, OutputSame

\* The steps of the user and the child, and those of the client that do not read.
LEMMA OutputOthers ==
    ASSUME Places, OutputInv,
           \/ UserTypes \/ UserResizes \/ ChildStep \/ UNCHANGED relayVars
           \/ CliTop \/ cli_send_winsize \/ CliSelect \/ CliStdin \/ CliWrite
    PROVE  OutputInv'
<1>0. cli \in CliRecord /\ CliPlaces /\ (cli.pc \notin {"read", "drain", "stuck"} => cli.in = <<>>)
  BY DEF Places, CliPlaces
<1>1. UNCHANGED <<screen, nread, down, serv, raw, open>>
  BY DEF UserTypes, UserResizes, ChildStep, ChildReads, ChildWrites, CliTop, cli_send_winsize, CliSelect, CliStdin,
         CliWrite, server, relayVars
<1>2. CASE UserTypes \/ UserResizes \/ ChildStep \/ UNCHANGED relayVars
  <2>1. cli' = cli
    BY <1>2 DEF UserTypes, UserResizes, ChildStep, ChildReads, ChildWrites, relayVars
  <2>2. Over' = Over
    BY <2>1 DEF Over
  <2>. QED  BY <1>1, <2>1, <2>2, OutputIdle
<1>3. ASSUME ~ Over, cli'.in = cli.in, cli'.pc = "gone" => ~ open PROVE OutputInv'
  BY <1>1, <1>3, OutputIdle
<1>4. CASE CliTop
  <2>1. ~ Over /\ cli'.in = cli.in /\ cli'.pc # "gone"
    BY <1>0, <1>4 DEF CliTop, CliRecord, Over
  <2>. QED  BY <1>3, <2>1
<1>5. CASE cli_send_winsize
  <2>1. ~ Over /\ cli'.in = <<>> /\ cli.in = <<>> /\ cli'.pc # "gone"
    BY <1>0, <1>5 DEF cli_send_winsize, Client, Over
  <2>. QED  BY <1>3, <2>1
<1>6. CASE CliSelect
  <2>1. ~ Over /\ cli'.in = <<>> /\ cli.in = <<>> /\ cli'.pc # "gone"
    BY <1>0, <1>6 DEF CliSelect, Client, Over, AfterStdin
  <2>. QED  BY <1>3, <2>1
<1>7. CASE CliStdin
  <2>1. cli'.in = <<>> /\ cli'.pc = "write" /\ cli.pc = "stdin"
    BY <1>7 DEF CliStdin, Client
  <2>2. ~ Over /\ cli.in = <<>>
    BY <1>0, <2>1 DEF Over
  <2>. QED  BY <1>3, <2>1, <2>2
<1>8. CASE CliWrite
  <2>0. cli.pc = "write" /\ cli.in = <<>> /\ ~ Over /\ cli.next # "gone"
    BY <1>0, <1>8 DEF CliWrite, CliPlaces, Over
  <2>1. CASE open
    <3>1. PICK n : cli' = [cli EXCEPT !.out = Behind(@, n), !.pc = IF n = Len(cli.out) THEN cli.next ELSE @]
      BY <1>8, <2>1, Zenon DEF CliWrite
    <3>2. cli'.in = cli.in /\ cli'.pc # "gone"
      BY <1>0, <2>0, <3>1 DEF CliRecord
    <3>. QED  BY <1>3, <2>0, <3>2
  <2>2. CASE ~ open
    <3>1. cli' = Client("gone", <<>>, "gone")
      BY <1>8, <2>2 DEF CliWrite
    <3>2. cli'.in = <<>>
      BY <3>1 DEF Client
    <3>. QED  BY <1>3, <2>0, <2>2, <3>2
  <2>. QED  BY <2>1, <2>2
<1>. QED  BY <1>2, <1>4, <1>5, <1>6, <1>7, <1>8

\* A client that is killed shows no more.
LEMMA OutputKilled ==
    ASSUME Places, OutputInv, CliKilled
    PROVE  OutputInv'
<1>1. UNCHANGED <<screen, serv, open>> /\ cli'.pc = "dead" /\ Over'
  BY DEF CliKilled, server, Client, Over
<1>2. Sending' /\ OnScreen(screen')
  BY <1>1 DEF OutputInv, Sending
<1>. QED  BY <1>1, <1>2 DEF OutputInv

\* The output that comes next.
LEMMA OutputNext ==
    ASSUME NEW a \in Nat, NEW b \in Nat, a <= b, b <= Len(Output)
    PROVE  FirstOf(Output, a) \o SubSeq(Output, a + 1, b) = FirstOf(Output, b)
<1>. DEFINE h == FirstOf(Output, a)
            w == SubSeq(Output, a + 1, b)
            s == FirstOf(Output, b)
<1>0. Output \in Seq(Char) /\ Len(Output) \in Nat
  BY DataBytes
<1>1. h \in Seq(Char) /\ Len(h) = a /\ \A i \in 1 .. a : h[i] = Output[i]
  BY <1>0 DEF FirstOf
<1>2. w \in Seq(Char) /\ Len(w) = b - a /\ \A i \in 1 .. b - a : w[i] = Output[a + i]
  BY <1>0
<1>3. s \in Seq(Char) /\ Len(s) = b /\ \A i \in 1 .. b : s[i] = Output[i]
  BY <1>0 DEF FirstOf
<1>. HIDE DEF h, w, s
<1>4. s = (h \o w) \o <<>>
  <2>1. \A i \in 1 .. Len(h) : s[i] = h[i]
    BY <1>1, <1>3
  <2>2. \A i \in 1 .. Len(w) : s[Len(h) + i] = w[i]
    BY <1>1, <1>2, <1>3
  <2>3. <<>> \in Seq(Char) /\ Len(<<>>) = 0 /\ \A i \in 1 .. Len(<<>>) : s[Len(h) + Len(w) + i] = <<>>[i]
    OBVIOUS
  <2>4. Len(s) = Len(h) + Len(w) + Len(<<>>)
    BY <1>1, <1>2, <1>3
  <2>5. s \in Seq(Char) /\ h \in Seq(Char) /\ w \in Seq(Char)
    BY <1>1, <1>2, <1>3
  <2>6. Covers(s, h, w, <<>>)
    BY <2>1, <2>2, <2>3, <2>4, Zenon DEF Covers
  <2>7. MadeOf(s, h, w, <<>>)
    BY <2>3, <2>5, <2>6, ThreeParts
  <2>. QED  BY <2>7, Zenon DEF MadeOf
<1>5. (h \o w) \o <<>> = h \o w
  BY <1>1, <1>2
<1>. QED  BY <1>4, <1>5 DEF h, w, s

\* The server reads from the ptm.
LEMMA OutputSelect ==
    ASSUME Places, OutputInv, ServSelect
    PROVE  OutputInv'
<1>. DEFINE w == SubSeq(Output, nread + 1, nread')
            a == Src(screen) \o OutComing
<1>0. serv.pc = "select" /\ serv.out = <<>> /\ serv'.out = <<>> /\ serv'.pc # "send"
  BY DEF Places, ServPlaces, ServSelect, Server
<1>1. cli' = cli /\ down' = down /\ open' = open /\ screen' = screen
  BY DEF ServSelect
<1>2. DownStream' = DownStream /\ Unsent = raw /\ Unsent' = raw'
  BY <1>0, <1>1 DEF DownStream, Unsent
<1>3. /\ nread' \in nread .. made /\ raw' = raw \o w /\ nread \in Nat /\ raw \in Seq(Char) /\ raw \in Seq(Nat)
      /\ made \in 0 .. Len(Output) /\ Len(Output) \in Nat /\ Output \in Seq(Char)
  <2>1. raw \in Seq(Char) /\ nread \in 0 .. made /\ made \in 0 .. Len(Output)
    BY DEF Places, DataType, ChildType
  <2>2. nread' \in nread .. made /\ raw' = raw \o w
    BY PtmRead
  <2>3. Output \in Seq(Char) /\ Len(Output) \in Nat
    BY DataBytes
  <2>4. nread \in Nat
    BY <2>1
  <2>. QED  BY <2>1, <2>2, <2>3, <2>4, CharSeq
<1>4. w \in Seq(Nat)
  <2>1. w \in Seq(Char)
    BY <1>3
  <2>. QED  BY <2>1, CharSeq
<1>5. a \in Seq(Nat) /\ OutComing' = OutComing /\ Over' = Over
  BY <1>1, <1>2, OutputTypes DEF OutComing, Over
<1>6. AllOutput = a \o raw /\ AllOutput' = a \o (raw \o w)
  BY <1>1, <1>2, <1>3, <1>5 DEF AllOutput
<1>7. FirstOf(Output, nread) \o w = FirstOf(Output, nread')
  <2>. DEFINE b == nread'
  <2>1. b \in Nat /\ nread <= b /\ b <= Len(Output) /\ nread \in Nat
    <3>. HIDE DEF w
    <3>1. b \in nread .. made /\ made \in 0 .. Len(Output) /\ nread \in Nat /\ Len(Output) \in Nat
      BY <1>3
    <3>. HIDE DEF b
    <3>. QED  BY <3>1
  <2>. HIDE DEF b
  <2>2. FirstOf(Output, nread) \o SubSeq(Output, nread + 1, b) = FirstOf(Output, b)
    BY <2>1, OutputNext
  <2>. QED  BY <2>2 DEF b
<1>. HIDE DEF w, a
<1>8. a \o (raw \o w) = (a \o raw) \o w
  <2>1. a \in Seq(Nat) /\ raw \in Seq(Nat) /\ w \in Seq(Nat)
    BY <1>3, <1>4, <1>5
  <2>2. Grouped(a, raw, w)
    BY <2>1, Group3
  <2>. QED  BY <2>2, Zenon DEF Grouped
<1>9. ASSUME open, ~ Over PROVE OutputAt'
  <2>1. OutputAt
    BY <1>9 DEF OutputInv
  <2>2. AllOutput' = FirstOf(Output, nread')
    BY <1>6, <1>7, <1>8, <2>1, Zenon DEF OutputAt
  <2>. QED  BY <1>1, <1>2, <2>1, <2>2 DEF OutputAt
<1>10. Sending'
  BY <1>0 DEF Sending
<1>11. /\ OnScreen(screen') /\ (~ Over' => Framed(DownStream')) /\ (cli'.pc = "gone" => ~ open')
  BY <1>1, <1>2, <1>5 DEF OutputInv
<1>. QED  BY <1>1, <1>5, <1>9, <1>10, <1>11 DEF OutputInv

\* The server puts a message behind the others.
LEMMA DownAppend ==
    ASSUME Places, OutputInv, open, ~ Over, serv.out = <<>>, NEW tag \in {"OUTPUT", "DISCONN"}, NEW x \in Seq(Char),
           serv'.out = Frame(tag, x), cli' = cli, down' = down
    PROVE  /\ Framed(DownStream') /\ Complete(DownStream')
           /\ OutComing' = IF tag = "OUTPUT" THEN OutComing \o x ELSE OutComing
<1>. DEFINE f == Frame(tag, x)
<1>0. x \in Seq(Nat)
  BY CharSeq
<1>1. Framed(DownStream) /\ Complete(DownStream) /\ DownStream \in Seq(Element) /\ OutComing \in Seq(Nat)
  BY OutputTypes DEF OutputInv, OutputAt
<1>2. f \in Seq(Element)
  BY <1>0, FrameUp
<1>3. cli.in \in Seq(DownElement) /\ down \in Seq(DownElement)
  BY DEF Places, SockType, CliPlaces, CliRecord
<1>4. Framed(DownStream \o f) /\ Complete(DownStream \o f)
  BY <1>0, <1>1, FramedAppend
<1>5. Carried("OUTPUT", f) = IF tag = "OUTPUT" THEN x ELSE <<>>
  BY <1>0, CarriedFrame
<1>6. DownStream' = (cli.in \o down) \o f /\ DownStream = (cli.in \o down) \o <<>>
  BY DEF DownStream
<1>. HIDE DEF f
<1>7. (cli.in \o down) \o <<>> = cli.in \o down
  BY <1>3
<1>8. DownStream' = DownStream \o f
  BY <1>6, <1>7, Zenon
<1>9. Carried("OUTPUT", DownStream \o f) = Carried("OUTPUT", DownStream) \o Carried("OUTPUT", f)
  BY <1>1, <1>2, CarriedConcat
<1>10. OutComing' = OutComing \o Carried("OUTPUT", f)
  BY <1>8, <1>9 DEF OutComing
<1>11. OutComing \o <<>> = OutComing
  BY <1>1
<1>12. OutComing' = IF tag = "OUTPUT" THEN OutComing \o x ELSE OutComing
  BY <1>5, <1>10, <1>11
<1>. QED  BY <1>4, <1>8, <1>12

\* The server sends what it has read.
LEMMA OutputPass ==
    ASSUME Places, OutputInv, serv_pass
    PROVE  OutputInv'
<1>0. /\ serv.pc = "pass" /\ serv.out = <<>> /\ raw \in Seq(Char)
      /\ cli' = cli /\ down' = down /\ open' = open /\ screen' = screen /\ raw' = raw /\ nread' = nread
  BY DEF Places, ServPlaces, serv_pass, DataType
<1>1. Unsent = raw /\ Over' = Over
  BY <1>0 DEF Unsent, Over
<1>2. CASE serv' = Server("select", <<>>, "select")
  <2>1. serv'.pc = "select" /\ serv'.out = <<>>
    BY <1>2 DEF Server
  <2>2. DownStream' = DownStream /\ Unsent' = Unsent /\ Sending'
    BY <1>0, <1>1, <2>1 DEF DownStream, Unsent, Sending
  <2>3. open' /\ ~ Over' => cli'.in \in Seq(OutElement) /\ down' \in Seq(OutElement)
    BY <1>0, <1>1 DEF OutputInv, OutputAt
  <2>4. cli'.pc = "gone" => ~ open'
    BY <1>0 DEF OutputInv
  <2>. QED  BY <1>0, <1>1, <2>2, <2>3, <2>4, OutputSame
<1>3. CASE serv' = Server("send", Frame("OUTPUT", raw), "sent") /\ open
  <2>1. serv'.pc = "send" /\ serv'.out = Frame("OUTPUT", raw) /\ serv'.next = "sent"
    BY <1>3 DEF Server
  <2>2. Frame("OUTPUT", raw) \in Seq(OutElement)
    BY <1>0, FrameDown
  <2>3. Sending' /\ Unsent' = <<>>
    BY <2>1, <2>2 DEF Sending, Unsent
  <2>4. ASSUME ~ Over PROVE Framed(DownStream') /\ OutputAt'
    <3>1. /\ Framed(DownStream') /\ Complete(DownStream') /\ OutComing' = OutComing \o raw
      BY <1>0, <1>3, <2>1, <2>4, DownAppend
    <3>2. OutputAt
      BY <1>3, <2>4 DEF OutputInv
    <3>3. Src(screen) \in Seq(Nat) /\ OutComing \in Seq(Nat) /\ raw \in Seq(Nat)
      BY <1>0, OutputTypes, CharSeq
    <3>4. AllOutput' = (Src(screen) \o (OutComing \o raw)) \o <<>>
      BY <1>0, <2>3, <3>1 DEF AllOutput
    <3>5. AllOutput = (Src(screen) \o OutComing) \o raw
      BY <1>1 DEF AllOutput
    <3>. DEFINE a == Src(screen)
    <3>6. a \in Seq(Nat)
      BY <3>3
    <3>. HIDE DEF a
    <3>7. (a \o (OutComing \o raw)) \o <<>> = (a \o OutComing) \o raw
      <4>1. Grouped(a, OutComing, raw)
        BY <3>3, <3>6, Group3
      <4>2. a \o (OutComing \o raw) \in Seq(Nat)
        BY <3>3, <3>6
      <4>3. \A e \in Seq(Nat) : e \o <<>> = e
        OBVIOUS
      <4>. QED  BY <4>1, <4>2, <4>3, Zenon DEF Grouped
    <3>8. AllOutput' = AllOutput
      BY <3>4, <3>5, <3>7, Zenon DEF a
    <3>. QED  BY <1>0, <3>1, <3>2, <3>8 DEF OutputAt
  <2>5. OnScreen(screen') /\ (cli'.pc = "gone" => ~ open')
    BY <1>0 DEF OutputInv
  <2>. QED  BY <1>1, <2>3, <2>4, <2>5 DEF OutputInv
<1>. QED  BY <1>2, <1>3 DEF serv_pass

\* The parts of a sequence have its elements.
LEMMA PartsOf ==
    ASSUME NEW S, NEW T, NEW x \in Seq(S), NEW r \in Seq(S), x \o r \in Seq(T)
    PROVE  x \in Seq(T) /\ r \in Seq(T)
<1>. DEFINE s == x \o r
<1>1. /\ Len(s) = Len(x) + Len(r) /\ Len(x) \in Nat /\ Len(r) \in Nat
      /\ \A k \in 1 .. Len(x) : s[k] = x[k]
      /\ \A k \in 1 .. Len(r) : s[Len(x) + k] = r[k]
  BY Joined
<1>2. s \in Seq(T)
  OBVIOUS
<1>. HIDE DEF s
<1>3. \A k \in 1 .. Len(s) : s[k] \in T
  BY <1>2
<1>4. \A k \in 1 .. Len(x) : x[k] \in T
  <2>. SUFFICES ASSUME NEW k \in 1 .. Len(x) PROVE x[k] \in T
    OBVIOUS
  <2>1. k \in 1 .. Len(s)
    BY <1>1
  <2>. QED  BY <1>1, <1>3, <2>1
<1>5. \A k \in 1 .. Len(r) : r[k] \in T
  <2>. SUFFICES ASSUME NEW k \in 1 .. Len(r) PROVE r[k] \in T
    OBVIOUS
  <2>. DEFINE j == Len(x) + k
  <2>1. j \in 1 .. Len(s)
    BY <1>1
  <2>2. s[j] = r[k]
    BY <1>1
  <2>. HIDE DEF j
  <2>. QED  BY <1>3, <2>1, <2>2
<1>6. x \in [1 .. Len(x) -> T] /\ r \in [1 .. Len(r) -> T]
  BY <1>4, <1>5
<1>. QED  BY <1>1, <1>6, IsSequence

\* The server takes a message; after DISCONN it has only to answer it.
LEMMA OutputRecv ==
    ASSUME Places, OutputInv, ServRecv
    PROVE  OutputInv'
<1>0. /\ serv \in ServRecord /\ serv.pc = "recv" /\ serv.out = <<>> /\ open
      /\ cli' = cli /\ screen' = screen /\ raw' = raw /\ nread' = nread
  BY DEF Places, ServPlaces, ServRecv
<1>1. Unsent = raw /\ Over' = Over
  BY <1>0 DEF Unsent, Over
<1>2. ASSUME serv'.pc # "send", serv'.out = <<>>, open' => open, down' = down PROVE OutputInv'
  <2>1. DownStream' = DownStream /\ Unsent' = Unsent /\ Sending'
    BY <1>0, <1>1, <1>2 DEF DownStream, Unsent, Sending
  <2>2. open' /\ ~ Over' => cli'.in \in Seq(OutElement) /\ down' \in Seq(OutElement)
    BY <1>0, <1>1, <1>2 DEF OutputInv, OutputAt
  <2>3. cli'.pc = "gone" => ~ open'
    BY <1>0, <1>2 DEF OutputInv
  <2>. QED  BY <1>0, <1>1, <1>2, <2>1, <2>2, <2>3, OutputSame
<1>3. ASSUME NEW x, NEW r, IsServRead(x, r) PROVE OutputInv'
  <2>0. open' = open /\ down' = down
    BY <1>3 DEF IsServRead
  <2>1. CASE ~ Whole(x)
    <3>1. serv' = [serv EXCEPT !.in = x]
      BY <1>3, <2>1 DEF IsServRead
    <3>2. serv'.pc = "recv" /\ serv'.out = <<>>
      BY <1>0, <3>1 DEF ServRecord
    <3>. QED  BY <1>2, <2>0, <3>2
  <2>2. CASE Whole(x)
    <3>0. serv_process_msg(x)
      BY <1>3, <2>2 DEF IsServRead
    <3>1. CASE serv' = Server("pass", <<>>, "pass")
      <4>1. serv'.pc = "pass" /\ serv'.out = <<>>
        BY <3>1 DEF Server
      <4>. QED  BY <1>2, <2>0, <4>1
    <3>2. CASE serv' = Server("send", Frame("DISCONN", <<>>), "close")
      <4>1. serv'.pc = "send" /\ serv'.out = Frame("DISCONN", <<>>) /\ serv'.next = "close"
        BY <3>2 DEF Server
      <4>2. Sending' /\ Unsent' = Unsent
        BY <1>0, <1>1, <4>1, EmptyFrame DEF Sending, Unsent
      <4>3. ASSUME ~ Over PROVE Framed(DownStream') /\ OutputAt'
        <5>0. <<>> \in Seq(Char)
          OBVIOUS
        <5>1. /\ Framed(DownStream') /\ Complete(DownStream') /\ OutComing' = OutComing
          BY <1>0, <2>0, <4>1, <4>3, <5>0, DownAppend
        <5>2. OutputAt
          BY <1>0, <4>3 DEF OutputInv
        <5>3. AllOutput' = AllOutput
          BY <1>0, <4>2, <5>1 DEF AllOutput
        <5>. QED  BY <1>0, <2>0, <5>1, <5>2, <5>3 DEF OutputAt
      <4>4. OnScreen(screen') /\ (cli'.pc = "gone" => ~ open')
        BY <1>0, <2>0 DEF OutputInv
      <4>. QED  BY <1>1, <4>2, <4>3, <4>4 DEF OutputInv
    <3>. QED  BY <3>0, <3>1, <3>2 DEF serv_process_msg
  <2>. QED  BY <2>1, <2>2
<1>4. ASSUME Over, Sending', open' => open PROVE OutputInv'
  <2>1. OnScreen(screen') /\ (cli'.pc = "gone" => ~ open')
    BY <1>0, <1>4 DEF OutputInv
  <2>. QED  BY <1>1, <1>4, <2>1 DEF OutputInv
<1>5. ASSUME IsServReset PROVE OutputInv'
  <2>1. Over /\ serv_process_msg(Filled(serv.in))
    BY <1>5 DEF IsServReset
  <2>2. open' = open /\ (serv' = Server("send", Frame("DISCONN", <<>>), "close") \/ serv' = Server("pass", <<>>, "pass"))
    BY <2>1 DEF serv_process_msg
  <2>3. Sending'
    BY <2>2, EmptyFrame DEF Sending, Server
  <2>. QED  BY <1>4, <2>1, <2>2, <2>3
<1>6. ASSUME IsServClosed PROVE OutputInv'
  <2>1. Over /\ open' = FALSE /\ (serv' = Server("pass", <<>>, "pass") \/ serv' = Server("dead", <<>>, "dead"))
    BY <1>6 DEF IsServClosed
  <2>2. Sending'
    BY <2>1 DEF Sending, Server
  <2>. QED  BY <1>4, <2>1, <2>2
<1>. QED  BY <1>3, <1>5, <1>6, ServReads

\* The server writes, or is killed.
LEMMA OutputSend ==
    ASSUME Places, OutputInv, serv_msg_send
    PROVE  OutputInv'
<1>0. /\ serv \in ServRecord /\ serv.pc = "send" /\ open
      /\ cli' = cli /\ screen' = screen /\ nread' = nread
  BY DEF Places, ServPlaces, serv_msg_send
<1>1. Over' = Over /\ OnScreen(screen) /\ serv.next \in {"sent", "close"}
      /\ (serv.next = "sent" => serv.out \in Seq(OutElement)) /\ (serv.next = "close" => Len(serv.out) = 1)
  BY <1>0 DEF Over, OutputInv, Sending
<1>2. cli.in \in Seq(DownElement) /\ down \in Seq(DownElement) /\ serv.out \in Seq(DownElement) /\ <<>> \in Seq(DownElement)
  BY DEF Places, SockType, ServPlaces, ServRecord, CliPlaces, CliRecord
<1>3. ASSUME ~ Over, NEW n, NEW x, NEW r, IsServWrite(n, x, r) PROVE OutputInv'
  <2>1. /\ n \in 1 .. Len(serv.out) /\ x \in Seq(DownElement) /\ r \in Seq(DownElement) /\ down' = x
        /\ n = Len(serv.out) => r = <<>>
    BY <1>3 DEF IsServWrite, IsWrite
  <2>2. /\ (cli.in \o x) \o r = (cli.in \o down) \o serv.out
        /\ (<<>> \o x) \o r = (<<>> \o down) \o serv.out
    BY <1>2, <1>3, ZenonT(40) DEF IsServWrite, IsWrite
  <2>3. x \o r = down \o serv.out
    BY <1>2, <2>1, <2>2
  <2>4. OutputAt /\ cli.pc # "gone"
    BY <1>0, <1>3 DEF OutputInv, Over
  <2>5. ASSUME serv.next = "sent" PROVE x \in Seq(OutElement) /\ r \in Seq(OutElement)
    <3>1. down \in Seq(OutElement) /\ serv.out \in Seq(OutElement)
      BY <1>1, <2>4, <2>5 DEF OutputAt
    <3>2. down \o serv.out \in Seq(OutElement)
      BY <3>1
    <3>3. x \o r \in Seq(OutElement)
      BY <2>3, <3>2
    <3>. QED  BY <2>1, <3>3, PartsOf
  <2>6. CASE n # Len(serv.out)
    <3>1. serv' = [serv EXCEPT !.out = r] /\ open' = open /\ raw' = raw
      BY <1>3, <2>6 DEF IsServWrite
    <3>2. serv'.out = r /\ serv'.pc = serv.pc /\ serv'.next = serv.next
      BY <1>0, <3>1 DEF ServRecord
    <3>3. serv.next = "sent"
      <4>1. ASSUME serv.next = "close" PROVE FALSE
        <5>1. Len(serv.out) = 1 /\ n \in 1 .. 1
          BY <1>1, <2>1, <4>1
        <5>. QED  BY <2>6, <5>1
      <4>. QED  BY <1>1, <4>1
    <3>4. DownStream' = DownStream
      BY <1>0, <2>1, <2>2, <3>2 DEF DownStream
    <3>5. Unsent' = Unsent /\ Sending'
      BY <2>5, <3>1, <3>2, <3>3 DEF Unsent, Sending
    <3>6. cli'.in \in Seq(OutElement) /\ down' \in Seq(OutElement)
      BY <1>0, <2>1, <2>4, <2>5, <3>3 DEF OutputAt
    <3>. QED  BY <1>0, <1>1, <2>4, <3>1, <3>4, <3>5, <3>6, OutputSame
  <2>7. CASE n = Len(serv.out)
    <3>1. /\ serv' = Server("select", <<>>, "select") /\ open' = (serv.next # "close")
          /\ raw' = IF serv.next = "sent" THEN <<>> ELSE raw
      BY <1>3, <2>7 DEF IsServWrite
    <3>2. serv'.out = <<>> /\ serv'.pc = "select" /\ r = <<>>
      BY <2>1, <2>7, <3>1 DEF Server
    <3>3. DownStream' = DownStream
      BY <1>0, <2>1, <2>2, <3>2 DEF DownStream
    <3>4. Unsent' = Unsent /\ Sending'
      <4>1. Unsent = (IF serv.next = "sent" THEN <<>> ELSE raw) /\ Unsent' = raw'
        BY <1>0, <3>2 DEF Unsent
      <4>2. Sending'
        BY <3>2 DEF Sending
      <4>. QED  BY <3>1, <4>1, <4>2
    <3>5. open' => cli'.in \in Seq(OutElement) /\ down' \in Seq(OutElement)
      BY <1>0, <1>1, <2>1, <2>4, <2>5, <3>1 DEF OutputAt
    <3>. QED  BY <1>0, <1>1, <2>4, <3>3, <3>4, <3>5, OutputSame
  <2>. QED  BY <2>6, <2>7
<1>4. ASSUME Over, open' = FALSE, serv' = Server("select", <<>>, "select") PROVE OutputInv'
  <2>1. Sending'
    BY <1>4 DEF Sending, Server
  <2>. QED  BY <1>0, <1>1, <1>4, <2>1 DEF OutputInv
<1>. QED  BY <1>3, <1>4, ServWrites

\* A server that is killed may leave part of a message.
LEMMA OutputServKilled ==
    ASSUME Places, OutputInv, ServKilled
    PROVE  OutputInv'
<1>0. cli' = cli /\ down' = down /\ screen' = screen /\ ~ open' /\ serv'.out = <<>> /\ serv'.pc = "dead" /\ ~ Over
  BY DEF ServKilled, Server
<1>1. cli.in \in Seq(DownElement) /\ down \in Seq(DownElement) /\ serv.out \in Seq(DownElement)
  BY DEF Places, SockType, ServPlaces, ServRecord, CliPlaces, CliRecord
<1>. DEFINE a == cli.in \o down
            b == serv.out
<1>2. a \in Seq(DownElement) /\ b \in Seq(DownElement) /\ a \o <<>> = a
  BY <1>1
<1>3. a \in Seq(Element) /\ b \in Seq(Element)
  <2>. HIDE DEF a, b
  <2>. QED  BY <1>2, CharSeq
<1>4. DownStream = a \o b /\ DownStream' = a
  BY <1>0, <1>2 DEF DownStream
<1>. HIDE DEF a, b
<1>5. Framed(a)
  <2>1. Framed(a \o b)
    BY <1>0, <1>4 DEF OutputInv
  <2>. QED  BY <1>3, <2>1, FramedFront
<1>6. Framed(DownStream') /\ OnScreen(screen') /\ Sending'
  BY <1>0, <1>4, <1>5 DEF OutputInv, Sending
<1>. QED  BY <1>0, <1>6 DEF OutputInv

\* A message of the server has bytes.
LEMMA ValueBytes ==
    ASSUME NEW x \in Seq(DownElement), x # <<>>, \A k \in 2 .. Len(x) : x[k].t = "byte"
    PROVE  Value(x) \in Seq(Char)
<1>. DEFINE l == Len(x)
<1>1. l \in Nat /\ l >= 1 /\ \A k \in 1 .. l : x[k] \in DownElement
  OBVIOUS
<1>2. ASSUME NEW k \in 1 .. (l - 1) PROVE x[k + 1].v \in Char
  <2>. DEFINE j == k + 1
  <2>1. j \in 2 .. l /\ j \in 1 .. l
    <3>. HIDE DEF l
    <3>. QED  BY <1>1
  <2>. HIDE DEF j
  <2>2. x[j].t = "byte" /\ x[j] \in DownElement
    BY <1>1, <2>1
  <2>3. x[j].v \in Char
    BY <2>2 DEF DownElement
  <2>. QED  BY <2>3 DEF j
<1>3. Value(x) = [k \in 1 .. (l - 1) |-> x[k + 1].v] /\ l - 1 \in Nat
  BY <1>1 DEF Value
<1>. HIDE DEF l
<1>4. Value(x) \in [1 .. (l - 1) -> Char]
  BY <1>2, <1>3
<1>. QED  BY <1>3, <1>4, IsSequence

\* What Show() adds.
LEMMA ShowAdds ==
    ASSUME NEW x, Value(x) \in Seq(Char), OnScreen(screen), Show(x), cli.pc = "read" => ~ NeverEnds(subs, Value(x))
    PROVE  OnScreen(screen') /\ Src(screen') = Src(screen) \o Value(x)
<1>. DEFINE v == Value(x)
            raws == cli_subst_raw(subs, v)
            asis == <<Piece(v, v, AsIs)>>
<1>1. screen' = screen \o (IF cli.pc = "read" THEN raws ELSE asis)
  BY DEF Show
<1>2. v \in Seq(Char) /\ screen \in Seq(Shown)
  BY DEF OnScreen
<1>. HIDE DEF v
<1>3. raws \in Seq(Shown) /\ Src(raws) = v
  BY <1>2, RawShows
<1>4. cli.pc = "read" => OnScreen(raws)
  <2>1. cli.pc = "read" => \A k \in DOMAIN raws : raws[k].sub # Endless
    BY Zenon DEF NeverEnds, v
  <2>. QED  BY <1>3, <2>1, Zenon DEF OnScreen
<1>5. OnScreen(asis) /\ Src(asis) = v
  <2>. DEFINE p == Piece(v, v, AsIs)
  <2>1. p \in Shown /\ p.of = v /\ p.sub # Endless
    BY <1>2 DEF Shown, RawPieces, Piece, AsIs, Endless
  <2>. HIDE DEF p
  <2>2. <<p>> \in Seq(Shown) /\ Src(<<p>>) = p.of
    BY <2>1, SrcSmall
  <2>3. OnScreen(<<p>>)
    BY <2>1, <2>2 DEF OnScreen
  <2>. QED  BY <2>1, <2>2, <2>3 DEF p
<1>. HIDE DEF raws, asis
<1>6. PICK q : screen' = screen \o q /\ Src(q) = v /\ OnScreen(q)
  BY <1>1, <1>3, <1>4, <1>5
<1>7. q \in Seq(Shown)
  BY <1>6 DEF OnScreen
<1>8. OnScreen(screen \o q)
  <2>. DEFINE s == screen \o q
  <2>1. /\ s \in Seq(Shown) /\ Len(s) = Len(screen) + Len(q) /\ Len(screen) \in Nat /\ Len(q) \in Nat
        /\ \A k \in 1 .. Len(screen) : s[k] = screen[k]
        /\ \A k \in 1 .. Len(q) : s[Len(screen) + k] = q[k]
    BY <1>2, <1>7, Joined
  <2>2. /\ \A k \in 1 .. Len(screen) : screen[k].sub # Endless
        /\ \A k \in 1 .. Len(q) : q[k].sub # Endless
    BY <1>2, <1>6, <1>7 DEF OnScreen
  <2>. HIDE DEF s
  <2>3. ASSUME NEW k \in 1 .. Len(s) PROVE s[k].sub # Endless
    <3>1. CASE k \in 1 .. Len(screen)
      BY <2>1, <2>2, <3>1, Zenon
    <3>2. CASE k \notin 1 .. Len(screen)
      <4>. DEFINE m == k - Len(screen)
      <4>1. m \in 1 .. Len(q) /\ Len(screen) + m = k
        BY <2>1, <3>2
      <4>. HIDE DEF m
      <4>2. s[Len(screen) + m] = q[m] /\ q[m].sub # Endless
        BY <2>1, <2>2, <4>1, Zenon
      <4>. QED  BY <4>1, <4>2, Zenon
    <3>. QED  BY <3>1, <3>2
  <2>4. DOMAIN s = 1 .. Len(s)
    BY <2>1
  <2>5. OnScreen(s)
    BY <2>1, <2>3, <2>4, Zenon DEF OnScreen
  <2>. QED  BY <2>5 DEF s
<1>9. Src(screen \o q) = Src(screen) \o Src(q)
  BY <1>2, <1>7, SrcConcat
<1>. QED  BY <1>6, <1>8, <1>9 DEF v

\* A message that is filled up is a message.
LEMMA FilledFramed ==
    ASSUME NEW in \in Seq(DownElement), in # <<>>, Missing(in) >= 1, Framed(in)
    PROVE  /\ Framed(Filled(in)) /\ Filled(in) # <<>> /\ Filled(in) \in Seq(DownElement)
           /\ Filled(in)[1] = in[1] /\ Value(Filled(in)) \in Seq(Char)
<1>. DEFINE f == Filled(in)
            b == Fill(in)
            l == 1 + in[1].v
<1>0. in \in Seq(Element)
  BY CharSeq
<1>1. /\ f = in \o b /\ b \in Seq(DownElement) /\ f # <<>> /\ f[1] = in[1] /\ Len(f) = l
      /\ \A k \in 1 .. Len(b) : b[k].t = "byte"
  BY <1>0, FilledType
<1>2. in[1] \in Element /\ Len(in) \in Nat /\ Len(in) # 0
  BY <1>0
<1>3. in[1].v \in Nat
  BY <1>2 DEF Element
<1>. HIDE DEF f, b
<1>4. /\ f \in Seq(DownElement) /\ Len(f) = Len(in) + Len(b) /\ Len(b) \in Nat
      /\ \A k \in 1 .. Len(in) : f[k] = in[k]
      /\ \A k \in 1 .. Len(b) : f[Len(in) + k] = b[k]
  BY <1>1, Joined
<1>5. in[1].t # "byte" /\ FramedAt(in, 1)
  BY <1>2 DEF Framed
<1>6. \A j \in 2 .. l : j <= Len(in) => in[j].t = "byte"
  BY <1>3, <1>5 DEF FramedAt
<1>7. ASSUME NEW j \in 2 .. Len(f) PROVE f[j].t = "byte"
  <2>1. CASE j <= Len(in)
    <3>1. j \in 1 .. Len(in) /\ j \in 2 .. l
      BY <1>1, <1>2, <2>1
    <3>. QED  BY <1>4, <1>6, <2>1, <3>1
  <2>2. CASE ~ (j <= Len(in))
    <3>. DEFINE m == j - Len(in)
    <3>1. m \in 1 .. Len(b) /\ Len(in) + m = j
      BY <1>2, <1>4, <2>2
    <3>. HIDE DEF m
    <3>2. f[Len(in) + m] = b[m] /\ b[m].t = "byte"
      BY <1>1, <1>4, <3>1, Zenon
    <3>. QED  BY <3>1, <3>2, Zenon
  <2>. QED  BY <2>1, <2>2
<1>8. ASSUME NEW i \in 1 .. Len(f) PROVE FramedAt(f, i)
  <2>1. CASE i = 1
    <3>1. f[1].v = in[1].v /\ Len(f) = 1 + f[1].v
      BY <1>1
    <3>2. ASSUME NEW j \in 2 .. (1 + f[1].v), j <= Len(f) PROVE f[j].t = "byte"
      BY <1>3, <1>7, <3>1, <3>2
    <3>3. ~ (1 + f[1].v + 1 <= Len(f))
      BY <1>3, <3>1
    <3>. QED  BY <2>1, <3>2, <3>3 DEF FramedAt
  <2>2. CASE i # 1
    <3>1. i \in 2 .. Len(f)
      BY <1>4, <2>2
    <3>. QED  BY <1>7, <3>1 DEF FramedAt
  <2>. QED  BY <2>1, <2>2
<1>9. Framed(f)
  BY <1>1, <1>5, <1>8 DEF Framed
<1>10. Value(f) \in Seq(Char)
  BY <1>1, <1>4, <1>7, ValueBytes
<1>. QED  BY <1>1, <1>4, <1>9, <1>10 DEF f

\* The client shows what it has read, and ends when the server has closed.
LEMMA OutputRead ==
    ASSUME Places, OutputInv, CliRead
    PROVE  OutputInv'
<1>0. /\ cli \in CliRecord /\ cli.pc \in {"read", "drain"} /\ ~ Over
      /\ serv' = serv /\ open' = open /\ raw' = raw /\ nread' = nread
  BY DEF Places, CliPlaces, CliRead, server, Over
<1>1. /\ cli.in \in Seq(DownElement) /\ down \in Seq(DownElement) /\ serv.out \in Seq(DownElement)
      /\ <<>> \in Seq(DownElement)
  BY DEF Places, SockType, ServPlaces, ServRecord, CliPlaces, CliRecord
<1>2. Unsent' = Unsent /\ Sending' /\ OnScreen(screen) /\ Framed(DownStream)
  BY <1>0 DEF Unsent, Sending, OutputInv
<1>3. ASSUME ~ open, cli' = Client("gone", <<>>, "gone"), screen' = screen PROVE OutputInv'
  <2>1. Over'
    BY <1>3 DEF Client, Over
  <2>. QED  BY <1>0, <1>2, <1>3, <2>1 DEF OutputInv
<1>4. ASSUME NEW x, NEW r, IsCliRead(x, r) PROVE OutputInv'
  <2>. DEFINE out == serv.out
              w == r \o out
  <2>1. /\ x \in Seq(DownElement) /\ r \in Seq(DownElement) /\ x # <<>> /\ down' = r
        /\ Whole(x) => Len(x) = 1 + x[1].v
    BY <1>4 DEF IsCliRead, IsRead
  <2>2. /\ (cli.in \o down) \o serv.out = x \o (r \o serv.out)
        /\ (cli.in \o down) \o <<>> = x \o (r \o <<>>)
    BY <1>1, <1>4, Zenon DEF IsCliRead, IsRead
  <2>3. cli.in \o down = x \o r
    <3>1. r \o <<>> = r
      BY <2>1
    <3>2. (cli.in \o down) \o <<>> = cli.in \o down
      BY <1>1
    <3>. QED  BY <2>2, <3>1, <3>2, Zenon
  <2>4. DownStream = x \o w
    BY <2>2 DEF DownStream
  <2>5. ASSUME open PROVE x \in Seq(OutElement) /\ r \in Seq(OutElement)
    <3>1. cli.in \in Seq(OutElement) /\ down \in Seq(OutElement)
      BY <1>0, <2>5 DEF OutputInv, OutputAt
    <3>2. cli.in \o down \in Seq(OutElement)
      BY <3>1
    <3>3. x \o r \in Seq(OutElement)
      BY <2>3, <3>2
    <3>. QED  BY <2>1, <3>3, PartsOf
  <2>6. ASSUME cli'.in = x, cli'.pc \in {"read", "drain", "stuck"}, screen' = screen PROVE OutputInv'
    <3>3. x \o (r \o out) = (x \o r) \o out
      <4>1. x \in Seq(DownElement) /\ r \in Seq(DownElement) /\ out \in Seq(DownElement)
        BY <1>1, <2>1
      <4>. HIDE DEF out
      <4>. QED  BY <4>1
    <3>4. DownStream' = DownStream
      BY <1>0, <2>1, <2>4, <2>6, <3>3 DEF DownStream
    <3>5. open' /\ ~ Over' => cli'.in \in Seq(OutElement) /\ down' \in Seq(OutElement)
      BY <1>0, <2>1, <2>5, <2>6
    <3>. QED  BY <1>0, <1>2, <2>6, <3>4, <3>5, OutputSame
  <2>7. ASSUME Whole(x)
        PROVE  /\ Len(x) = 1 + x[1].v /\ x \in Seq(Element) /\ w \in Seq(Element)
               /\ Framed(w) /\ (Complete(DownStream) => Complete(w))
               /\ x[1].t # "byte" /\ Value(x) \in Seq(Char)
    <3>1. w \in Seq(DownElement) /\ Len(x) = 1 + x[1].v
      BY <1>1, <2>1, <2>7
    <3>. HIDE DEF w
    <3>2. w \in Seq(Element) /\ x \in Seq(Element) /\ Framed(x \o w)
      BY <1>2, <2>1, <2>4, <3>1, CharSeq
    <3>3. /\ Framed(w) /\ (Complete(x \o w) => Complete(w))
          /\ x[1].t # "byte" /\ \A k \in 2 .. Len(x) : x[k].t = "byte"
      BY <2>1, <3>1, <3>2, AfterWhole, Zenon
    <3>4. Value(x) \in Seq(Char)
      BY <2>1, <3>3, ValueBytes
    <3>. QED  BY <2>4, <3>1, <3>2, <3>3, <3>4
  <2>8. CASE Whole(x) /\ x[1].t = "OUTPUT" /\ IsShown(x)
    <3>1. /\ cli' = [cli EXCEPT !.in = <<>>, !.pc = IF cli.pc = "read" THEN "top" ELSE "drain"] /\ Show(x)
          /\ cli.pc = "read" => ~ NeverEnds(subs, Value(x))
      BY <2>8 DEF IsShown
    <3>2. cli'.in = <<>> /\ cli'.pc \in {"top", "drain"}
      BY <1>0, <3>1 DEF CliRecord
    <3>3. ~ Over' /\ cli'.pc # "gone"
      BY <3>2 DEF Over
    <3>4. DownStream' = w
      <4>1. DownStream' = (<<>> \o r) \o out
        BY <1>0, <2>1, <3>2 DEF DownStream
      <4>2. <<>> \o r = r
        BY <2>1
      <4>. QED  BY <4>1, <4>2
    <3>. HIDE DEF w
    <3>5. OnScreen(screen') /\ Src(screen') = Src(screen) \o Value(x)
      BY <1>2, <2>7, <2>8, <3>1, ShowAdds
    <3>6. OutComing = Value(x) \o OutComing'
      <4>1. Carried("OUTPUT", x \o w) = Part("OUTPUT", x) \o Carried("OUTPUT", w)
        BY <2>1, <2>7, <2>8, CarriedWhole, Zenon
      <4>2. Part("OUTPUT", x) = Value(x)
        BY <2>8 DEF Part
      <4>. QED  BY <2>4, <3>4, <4>1, <4>2, Zenon DEF OutComing
    <3>7. AllOutput' = AllOutput
      <4>. DEFINE a == Src(screen)
                  v == Value(x)
                  c == OutComing'
                  u == Unsent
      <4>1. a \in Seq(Nat) /\ u \in Seq(Nat)
        BY OutputTypes
      <4>2. v \in Seq(Nat)
        BY <2>7, <2>8, CharSeq
      <4>3. c \in Seq(Nat)
        <5>1. c = Carried("OUTPUT", w)
          BY <3>4 DEF OutComing
        <5>2. w \in Seq(Element)
          BY <2>7, <2>8
        <5>. QED  BY <5>1, <5>2, CarriedType
      <4>4. AllOutput = (a \o (v \o c)) \o u /\ AllOutput' = ((a \o v) \o c) \o u
        BY <1>2, <3>5, <3>6, Zenon DEF AllOutput
      <4>. HIDE DEF a, v, c, u
      <4>5. Grouped(a, v, c)
        BY <4>1, <4>2, <4>3, Group3
      <4>6. (a \o v) \o c = a \o (v \o c)
        BY <4>5, Zenon DEF Grouped
      <4>. QED  BY <4>4, <4>6, Zenon
    <3>8. Framed(DownStream')
      BY <2>7, <2>8, <3>4
    <3>9. ASSUME open PROVE OutputAt'
      <4>1. OutputAt /\ Complete(DownStream) /\ AllOutput = FirstOf(Output, nread)
        BY <1>0, <3>9 DEF OutputInv, OutputAt
      <4>2. Complete(DownStream')
        BY <2>7, <2>8, <3>4, <4>1
      <4>3. cli'.in \in Seq(OutElement) /\ down' \in Seq(OutElement)
        BY <2>1, <2>5, <3>2, <3>9
      <4>4. AllOutput' = FirstOf(Output, nread')
        BY <1>0, <3>7, <4>1
      <4>. QED  BY <4>2, <4>3, <4>4 DEF OutputAt
    <3>. QED  BY <1>0, <1>2, <3>3, <3>5, <3>8, <3>9 DEF OutputInv
  <2>9. CASE Whole(x) /\ x[1].t # "OUTPUT"
    <3>1. cli' = Client("gone", <<>>, "gone") /\ screen' = screen
      BY <1>4, <2>9 DEF IsCliRead, IsDone, IsGone
    <3>2. ASSUME open PROVE FALSE
      <4>1. x \in Seq(OutElement) /\ Len(x) \in Nat /\ Len(x) # 0
        BY <2>1, <2>5, <3>2
      <4>2. x[1] \in OutElement
        BY <4>1
      <4>3. x[1].t # "byte"
        BY <2>7, <2>9
      <4>. QED  BY <2>9, <4>2, <4>3 DEF OutElement, DownElement
    <3>. QED  BY <1>3, <3>1, <3>2
  <2>10. CASE ~ Whole(x)
    <3>1. cli' = [cli EXCEPT !.in = x] /\ screen' = screen
      BY <1>4, <2>10 DEF IsCliRead
    <3>2. cli'.in = x /\ cli'.pc = cli.pc
      BY <1>0, <3>1 DEF CliRecord
    <3>. QED  BY <1>0, <2>6, <3>1, <3>2
  <2>11. ASSUME IsStuck(x) PROVE OutputInv'
    <3>1. cli'.in = x /\ cli'.pc = "stuck" /\ screen' = screen
      BY <1>0, <2>11 DEF IsStuck, CliRecord
    <3>. QED  BY <2>6, <3>1
  <2>12. Whole(x) => IsDone(x)
    BY <1>4 DEF IsCliRead
  <2>. QED  BY <2>8, <2>9, <2>10, <2>11, <2>12 DEF IsDone
<1>5. ASSUME IsCliReset PROVE OutputInv'
  <2>. DEFINE in == cli.in
              f == Filled(in)
  <2>1. ~ open /\ in # <<>> /\ down = <<>> /\ down' = <<>> /\ IsDone(f)
    BY <1>5 DEF IsCliReset
  <2>2. serv.out = <<>>
    BY <2>1 DEF Places, ServPlaces
  <2>3. in \in Seq(DownElement) /\ Missing(in) >= 1
    BY <1>0, <1>1 DEF Places, CliPlaces
  <2>4. Framed(in)
    <3>1. DownStream = (in \o <<>>) \o <<>>
      BY <2>1, <2>2 DEF DownStream
    <3>. HIDE DEF in
    <3>2. (in \o <<>>) \o <<>> = in
      BY <2>3
    <3>. QED  BY <1>2, <3>1, <3>2
  <2>5. DownStream' = (cli'.in \o <<>>) \o <<>>
    BY <1>0, <2>1, <2>2 DEF DownStream
  <2>. HIDE DEF in
  <2>6. Framed(f) /\ f \in Seq(DownElement) /\ Value(f) \in Seq(Char)
    BY <2>1, <2>3, <2>4, FilledFramed
  <2>. HIDE DEF f
  <2>7. ASSUME Framed(cli'.in), cli'.in \in Seq(DownElement), OnScreen(screen'), cli'.pc # "gone" PROVE OutputInv'
    <3>. DEFINE y == cli'.in
    <3>1. (y \o <<>>) \o <<>> = y
      <4>1. y \in Seq(DownElement)
        BY <2>7
      <4>. HIDE DEF y
      <4>. QED  BY <4>1
    <3>2. Framed(DownStream')
      BY <2>5, <2>7, <3>1
    <3>. QED  BY <1>0, <1>2, <2>1, <2>7, <3>2 DEF OutputInv
  <2>8. CASE IsGone
    BY <1>3, <2>1, <2>8 DEF IsGone
  <2>9. CASE IsStuck(f)
    <3>1. cli'.in = f /\ cli'.pc = "stuck" /\ screen' = screen
      BY <1>0, <2>9 DEF IsStuck, CliRecord
    <3>. QED  BY <1>2, <2>6, <2>7, <3>1
  <2>10. CASE IsShown(f)
    <3>1. /\ cli' = [cli EXCEPT !.in = <<>>, !.pc = IF cli.pc = "read" THEN "top" ELSE "drain"] /\ Show(f)
          /\ cli.pc = "read" => ~ NeverEnds(subs, Value(f))
      BY <2>10 DEF IsShown
    <3>2. cli'.in = <<>> /\ cli'.pc \in {"top", "drain"}
      BY <1>0, <3>1 DEF CliRecord
    <3>3. OnScreen(screen')
      BY <1>2, <2>6, <3>1, ShowAdds
    <3>4. Framed(<<>>)
      BY DEF Framed
    <3>. QED  BY <1>1, <2>7, <3>2, <3>3, <3>4
  <2>. QED  BY <2>1, <2>8, <2>9, <2>10 DEF IsDone
<1>. QED  BY <1>3, <1>4, <1>5, CliReads DEF IsGone

\* Every step keeps the output in order.
LEMMA OutputStep ==
    ASSUME Places, OutputInv, [RelayNext]_relayVars
    PROVE  OutputInv'
BY OutputOthers, OutputKilled, OutputRead, OutputSelect, OutputRecv, OutputPass, OutputSend, OutputServKilled
   DEF RelayNext, CliStep, ServStep

\* The invariant says what OutputKept says.
LEMMA OutputMeans == ASSUME Places, OutputInv PROVE OutputKept
<1>1. ASSUME cli.pc # "dead", open
      PROVE  (Source \o Carried("OUTPUT", (cli.in \o down) \o serv.out))
             \o (IF serv.pc = "send" /\ serv.next = "sent" THEN <<>> ELSE raw) = FirstOf(Output, nread)
  <2>1. ~ Over
    BY <1>1 DEF OutputInv, Over
  <2>2. AllOutput = FirstOf(Output, nread)
    BY <1>1, <2>1 DEF OutputInv, OutputAt
  <2>. QED  BY <2>2, Zenon DEF AllOutput, OutComing, DownStream, Unsent, Source, Src
<1>2. ASSUME NEW k \in DOMAIN screen
      PROVE  /\ screen[k].sub > 0 => Starts(subs[screen[k].sub].pat, screen[k].of) = {0}
             /\ screen[k].sub <= 0 => screen[k].text = screen[k].of
             /\ subs # <<>> /\ subs[1].pat.text # <<>> /\ screen[k].sub \notin {1, AsIs} =>
                   Starts(subs[1].pat, screen[k].of) = {}
  <2>. DEFINE p == screen[k]
  <2>1. p \in Shown /\ p.sub # Endless
    BY DEF OutputInv, OnScreen
  <2>. HIDE DEF p
  <2>2. subs # <<>> => 1 \in DOMAIN subs
    <3>1. DOMAIN subs = 1 .. Len(Substs) /\ Len(Substs) \in Nat
      BY PatternType
    <3>2. Len(Substs) = 0 => subs = <<>>
      BY SubstsAssumption DEF subs
    <3>. QED  BY <3>1, <3>2
  <2>3. CASE p \in RawPieces
    <3>1. p.sub = AsIs /\ p.text = p.of
      BY <2>3 DEF RawPieces, Piece
    <3>. QED  BY <3>1 DEF AsIs, p
  <2>4. CASE p \in PlainPieces
    <3>1. p.sub = 0 /\ p.text = p.of /\ Unmatched(p.of)
      BY <2>4 DEF PlainPieces, Piece
    <3>. QED  BY <2>2, <3>1 DEF Unmatched, p
  <2>5. CASE p \in MatchPieces
    <3>1. PICK n \in DOMAIN subs, s \in Seq(Char) :
             (n # 1 => Unmatched(subs[n].pat.text)) /\ p = Piece(subs[n].pat.text, Expand(subs[n], s), n)
      BY <2>5 DEF MatchPieces
    <3>2. p.sub = n /\ p.of = subs[n].pat.text
      BY <3>1 DEF Piece
    <3>3. n \in Nat /\ n > 0 /\ subs[n].pat.text \in Seq(Char)
      BY PatternType
    <3>4. Starts(subs[n].pat, subs[n].pat.text) = {0}
      <4>. DEFINE e == subs[n].pat
      <4>1. e.text \in Seq(Char)
        BY <3>3
      <4>. HIDE DEF e
      <4>2. Starts(e, e.text) = {0}
        BY <4>1, OwnMatch
      <4>. QED  BY <4>2 DEF e
    <3>5. ASSUME subs # <<>>, subs[1].pat.text # <<>>, n # 1 PROVE Starts(subs[1].pat, subs[n].pat.text) = {}
      BY <2>2, <3>1, <3>5 DEF Unmatched
    <3>6. ~ (n <= 0)
      BY <3>3
    <3>. QED  BY <3>2, <3>4, <3>5, <3>6 DEF p
  <2>6. CASE p \in EndlessPieces
    BY <2>1, <2>6 DEF EndlessPieces, Piece
  <2>. QED  BY <2>1, <2>3, <2>4, <2>5, <2>6 DEF Shown
<1>. QED  BY <1>1, <1>2, Zenon DEF OutputKept

\* What the child writes is on the screen or on its way there, once and in order,
\* as long as both ends live, however much the buffers hold and whatever -subst
\* options cli_subst_compile() accepts; a first -subst with some text to match
\* misses no match in a message, and nothing but matches is replaced.  A match
\* of the empty string ends the way to the screen: the client stays with that
\* message, which is then on its way for ever.
THEOREM OutputIsKept == RelaySpec => []OutputKept
<1>1. RelayInit => Places /\ OutputInv
  BY PlacesInit, OutputInit
<1>2. Places /\ OutputInv /\ [RelayNext]_relayVars => Places' /\ OutputInv'
  BY PlacesStep, OutputStep
<1>3. Places /\ OutputInv => OutputKept
  BY OutputMeans
<1>. QED  BY <1>1, <1>2, <1>3, PTL DEF RelaySpec

=============================================================================
