---------------------------- MODULE ConvertProofs ----------------------------
(***************************************************************************)
(* What getargs() makes of its strings.  The buffers of strunesc() and     *)
(* glob2re() are large enough for every string, and neither leaves its     *)
(* input; escapes and globs mean what their tables say; what               *)
(* `get -expect-buf' prints is read back as the same text; and a pattern   *)
(* that is accepted is one the server can work with.                       *)
(***************************************************************************)
EXTENDS ArgsProps, SeqProofs, FiniteSetTheorems

\* in[k] is not the NUL only inside the string.
LEMMA AtInside ==
  ASSUME NEW s \in Seq(Byte), NEW k \in Nat, At(s, k) # NUL
  PROVE  k < Len(s)
  BY DEF At

\* Byte codes are numbers.
LEMMA ByteInt == Byte \subseteq Int
  BY DEF Byte

\* Bytes of the string, and its NUL, are numbers.
LEMMA AtInt ==
  ASSUME NEW s \in Seq(Byte), NEW k \in Nat
  PROVE  At(s, k) \in Int
<1>1. CASE k < Len(s)
  <2>1. k + 1 \in 1 .. Len(s)
    BY <1>1
  <2>2. s[k + 1] \in Byte
    BY <2>1
  <2>3. s[k + 1] \in Int
    BY <2>2, ByteInt
  <2>4. At(s, k) = s[k + 1]
    BY <1>1 DEF At
  <2> QED
    BY <2>3, <2>4
<1>2. CASE ~ (k < Len(s))
  BY <1>2 DEF At, NUL
<1> QED
  BY <1>1, <1>2

\* A character whose upper case is a letter is not the NUL.
LEMMA LetterNotNul ==
  ASSUME NEW c \in Int, toupper(c) \in 65 .. 95
  PROVE  c # NUL
  BY DEF toupper, NUL

\* A turn of strunesc()'s loop takes at least one byte, and none behind the end.
LEMMA UnescTurnInside ==
  ASSUME NEW s \in Seq(Byte), s # <<>>, UnescTurn(s).n > 0
  PROVE  UnescTurn(s).n \in 1 .. Len(s)
<1>0. Len(s) >= 1
  OBVIOUS
<1>1. CASE At(s, 0) # Backslash
  BY <1>0, <1>1 DEF UnescTurn, Turn
<1>2. CASE At(s, 0) = Backslash
  <2>0. UnescTurn(s) = Escape(s)
    BY <1>2 DEF UnescTurn
  <2>1. CASE At(s, 1) \in DOMAIN Native
    <3>1. At(s, 1) # NUL
      BY <2>1 DEF Native, NUL
    <3>2. 1 < Len(s)
      BY <3>1, AtInside
    <3> QED
      BY <2>0, <2>1, <3>2 DEF Escape, Turn
  <2>2. CASE At(s, 1) \notin DOMAIN Native /\ At(s, 1) = 99
    <3>1. Escape(s) = CtrlEscape(s)
      BY <2>2 DEF Escape
    <3>2. toupper(At(s, 2)) \in 65 .. 95
      BY <2>0, <3>1 DEF CtrlEscape, Invalid, Turn
    <3>3. At(s, 2) # NUL
      BY <3>2, AtInt, LetterNotNul
    <3>4. 2 < Len(s)
      BY <3>3, AtInside
    <3> QED
      BY <2>0, <3>1, <3>2, <3>4 DEF CtrlEscape, Turn
  <2>3. CASE At(s, 1) \notin DOMAIN Native /\ At(s, 1) = 120
    <3>1. Escape(s) = HexEscape(s)
      BY <2>3 DEF Escape
    <3>2. isxdigit(At(s, 2))
      BY <2>0, <3>1 DEF HexEscape, Invalid, Turn
    <3>3. 2 < Len(s)
      <4>1. At(s, 2) # NUL
        BY <3>2, SMTT(30) DEF isxdigit, NUL
      <4> QED
        BY <4>1, AtInside
    <3>4. isxdigit(At(s, 3)) => 3 < Len(s)
      <4>1. isxdigit(At(s, 3)) => At(s, 3) # NUL
        BY SMTT(30) DEF isxdigit, NUL
      <4> QED
        BY <4>1, AtInside
    <3> QED
      BY <2>0, <3>1, <3>2, <3>3, <3>4 DEF HexEscape, Turn
  <2>4. CASE At(s, 1) \notin DOMAIN Native /\ At(s, 1) \notin {99, 120} /\ isodigit(At(s, 1))
    <3>1. Escape(s) = OctalEscape(s)
      BY <2>4 DEF Escape
    <3>2. \A k \in Nat : isodigit(At(s, k)) => k < Len(s)
      <4>1. \A k \in Nat : isodigit(At(s, k)) => At(s, k) # NUL
        BY DEF isodigit, NUL
      <4> QED
        BY <4>1, AtInside
    <3>3. /\ 1 < Len(s)
          /\ isodigit(At(s, 2)) => 2 < Len(s)
          /\ isodigit(At(s, 3)) => 3 < Len(s)
      BY <2>4, <3>2
    <3> QED
      BY <2>0, <3>1, <3>3 DEF OctalEscape, Turn
  <2>5. CASE At(s, 1) = NUL
    <3>1. At(s, 1) \notin DOMAIN Native /\ At(s, 1) \notin {99, 120} /\ ~ isodigit(At(s, 1))
      BY <2>5 DEF Native, isodigit, NUL
    <3> QED
      BY <1>0, <2>0, <2>5, <3>1 DEF Escape, Turn
  <2>6. CASE /\ At(s, 1) \notin DOMAIN Native /\ At(s, 1) \notin {99, 120}
             /\ ~ isodigit(At(s, 1)) /\ At(s, 1) # NUL
    <3>1. 1 < Len(s)
      BY <2>6, AtInside
    <3> QED
      BY <2>0, <2>6, <3>1 DEF Escape, Turn
  <2> QED
    BY <2>1, <2>2, <2>3, <2>4, <2>5, <2>6
<1> QED
  BY <1>1, <1>2

\* So is what a turn of strunesc()'s loop appends.
LEMMA UnescTurnInt ==
  ASSUME NEW s \in Seq(Byte)
  PROVE  UnescTurn(s).c \in Int
<1>1. At(s, 0) \in Int /\ At(s, 1) \in Int /\ At(s, 2) \in Int /\ At(s, 3) \in Int
  BY AtInt
<1>2. \A c \in Int : toupper(c) \in Int /\ Digit(c) \in Int
  BY DEF toupper, Digit
<1>3. \A e \in DOMAIN Native : Native[e] \in Int
  BY DEF Native
<1>4. CtrlEscape(s).c \in Int
  <2>1. toupper(At(s, 2)) \in Int
    BY <1>1, <1>2
  <2> QED
    BY <2>1 DEF CtrlEscape, Turn, Invalid, NUL
<1>5. HexEscape(s).c \in Int
  <2>1. Digit(At(s, 2)) \in Int /\ Digit(At(s, 3)) \in Int
    BY <1>1, <1>2
  <2> QED
    BY <2>1 DEF HexEscape, Turn, Invalid, NUL
<1>6. OctalEscape(s).c \in Int
  <2>1. Digit(At(s, 1)) \in Int /\ Digit(At(s, 2)) \in Int /\ Digit(At(s, 3)) \in Int
    BY <1>1, <1>2
  <2>2. Octal2(s) \in Int
    BY <2>1 DEF Octal2
  <2>3. Octal3(s) \in Int
    BY <2>1, <2>2 DEF Octal3
  <2> QED
    BY <2>1, <2>2, <2>3 DEF OctalEscape, Turn
<1>7. Escape(s).c \in Int
  BY <1>1, <1>3, <1>4, <1>5, <1>6 DEF Escape, Turn, Backslash
<1> QED
  BY <1>1, <1>7 DEF UnescTurn, Turn

\* Advancing inside a string leaves the rest of it.
LEMMA DropFirst ==
  ASSUME NEW s \in Seq(Byte), NEW n \in 1 .. Len(s)
  PROVE  Advance(s, n) \in Seq(Byte) /\ Len(Advance(s, n)) = Len(s) - n
<1>1. Advance(s, n) = SubSeq(s, n + 1, Len(s))
  BY DEF Advance
<1> QED
  BY <1>1

\* The bytes put out and those still to come fit, with the final NUL.
UnescInv ==
    /\ src \in Seq(Byte) /\ dst \in Seq(Int) /\ room \in Nat
    /\ Len(dst) + Len(src) < room

\* The destination is allocated large enough: the room is more than strlen().
LEMMA UnescInvInit == UnescInit => UnescInv
  BY DEF UnescInit, UnescInv

\* A turn of the loop puts out no more bytes than it takes in.
LEMMA UnescInvNext == UnescInv /\ [UnescStep]_convVars => UnescInv'
<1> SUFFICES ASSUME UnescInv, [UnescStep]_convVars
             PROVE  UnescInv'
  OBVIOUS
<1>1. CASE UnescStep
  <2> DEFINE n == UnescTurn(src).n
             c == UnescTurn(src).c
  <2>1. src \in Seq(Byte) /\ src # <<>> /\ n > 0
    BY <1>1 DEF UnescStep, UnescGoesOn, UnescInv
  <2>2. n \in 1 .. Len(src) /\ c \in Int
    BY <2>1, UnescTurnInside, UnescTurnInt
  <2>3. src' \in Seq(Byte) /\ Len(src') = Len(src) - n
    BY <1>1, <2>1, <2>2, DropFirst DEF UnescStep
  <2>4. dst' \in Seq(Int) /\ Len(dst') = Len(dst) + 1
    BY <1>1, <2>2 DEF UnescStep, UnescInv
  <2>5. room' = room
    BY <1>1 DEF UnescStep
  <2> QED
    BY <2>2, <2>3, <2>4, <2>5 DEF UnescInv
<1>2. CASE UNCHANGED convVars
  BY <1>2 DEF UnescInv, convVars
<1> QED
  BY <1>1, <1>2

\* strunesc(): for every string, what it appends fits in strlen(in) + 1 bytes,
\* the final NUL included, and `in' never gets behind the string.
THEOREM UnescFits == UnescSpec => []Fits
<1>1. UnescInv => Fits
  BY DEF UnescInv, Fits
<1> QED
  BY <1>1, UnescInvInit, UnescInvNext, PTL DEF UnescSpec

-----------------------------------------------------------------------------
(* glob2re() *)

\* A bracket ends inside the string.
LEMMA BracketEndInside ==
  ASSUME NEW s \in Seq(Byte), Ends(s) # {}
  PROVE  BracketEnd(s) \in 1 .. (Len(s) - 1)
<1>1. FirstMember(s) \in Nat \ {0} /\ SearchFrom(s) \in Nat \ {0}
  BY DEF FirstMember, SearchFrom
<1>2. BracketEnd(s) \in Ends(s)
  BY DEF BracketEnd
<1> QED
  BY <1>1, <1>2 DEF Ends

\* What it means for a turn to fit.
TurnFits(t, len) ==
    t.n \in 1 .. len /\ t.o \in Seq(Int) /\ Len(t.o) <= 3 * t.n

\* A turn takes at least one byte and none behind the end, and appends at most
\* three bytes for every byte it takes.
LEMMA GlobTurnInside ==
  ASSUME NEW s \in Seq(Byte), s # <<>>, NEW first \in BOOLEAN, GlobTurn(s, first).n > 0
  PROVE  TurnFits(GlobTurn(s, first), Len(s))
<1> DEFINE c == At(s, 0)
           t == GlobTurn(s, first)
<1>0. Len(s) >= 1 /\ c \in Int /\ At(s, 1) \in Int
  BY AtInt
<1>2. CASE c = Star
  BY <1>0, <1>2 DEF GlobTurn, TurnFits, Emit, Dot, Star
<1>3. CASE c = Question
  BY <1>0, <1>3 DEF GlobTurn, TurnFits, Emit, Dot, Star, Question
<1>4. CASE c = Open
  <2>1. t = BracketTurn(s)
    BY <1>4 DEF GlobTurn, Star, Question, Open
  <2>2. Ends(s) # {} /\ t = Emit(BracketEnd(s) + 1, Bracket(s))
    BY <2>1 DEF BracketTurn, NoGlob, Emit
  <2>3. BracketEnd(s) \in 1 .. (Len(s) - 1)
    BY <2>2, BracketEndInside
  <2>4. Bracket(s) \in Seq(Int) /\ Len(Bracket(s)) = BracketEnd(s) + 1
    <3>1. BracketEnd(s) + 1 \in Nat /\ 1 .. (BracketEnd(s) + 1) \subseteq 1 .. Len(s)
      BY <2>3
    <3>2. \A k \in 1 .. (BracketEnd(s) + 1) : s[k] \in Int
      <4>1. \A k \in 1 .. Len(s) : s[k] \in Byte
        OBVIOUS
      <4> QED
        BY <3>1, <4>1, ByteInt
    <3>3. \A k \in 1 .. (BracketEnd(s) + 1) :
             (IF k = 2 /\ s[k] = Bang THEN Caret ELSE s[k]) \in Int
      BY <3>2 DEF Caret
    <3> QED
      BY <3>1, <3>3 DEF Bracket
  <2> QED
    BY <2>2, <2>3, <2>4 DEF Emit, TurnFits
<1>5. CASE c = Caret
  <2>1. t = CaretTurn(first)
    BY <1>5 DEF GlobTurn, Star, Question, Open, Caret
  <2> QED
    BY <1>0, <2>1 DEF CaretTurn, TurnFits, Emit, Caret, Backslash
<1>6. CASE c = Dollar
  <2>1. t = DollarTurn(s)
    BY <1>6 DEF GlobTurn, Star, Question, Open, Caret, Dollar
  <2>2. TurnFits(Emit(1, <<Dollar>>), Len(s)) /\ TurnFits(Emit(1, InBracket(Dollar)), Len(s))
    BY <1>0 DEF TurnFits, Emit, InBracket, Open, Close, Dollar
  <2> QED
    BY <2>1, <2>2 DEF DollarTurn
<1>7. CASE c \notin {Star, Question, Open, Caret, Dollar} /\ c \in Special
  <2>1. t = Emit(1, InBracket(c))
    BY <1>7 DEF GlobTurn
  <2>2. TurnFits(Emit(1, InBracket(c)), Len(s))
    BY <1>0 DEF TurnFits, Emit, InBracket, Open, Close
  <2> QED
    BY <2>1, <2>2
<1>8. CASE c \notin {Star, Question, Open, Caret, Dollar} /\ c \notin Special /\ c = Backslash
  <2>1. t = BackslashTurn(s)
    BY <1>8 DEF GlobTurn
  <2>2. At(s, 1) \in {Backslash, Star, Question, Open, Close}
    BY <2>1 DEF BackslashTurn, NoGlob, Emit
  <2>3. 1 < Len(s)
    <3>1. At(s, 1) # NUL
      BY <2>2 DEF Backslash, Star, Question, Open, Close, NUL
    <3> QED
      BY <3>1, AtInside
  <2>4. /\ TurnFits(Emit(2, <<Backslash, Backslash>>), Len(s))
        /\ TurnFits(Emit(2, InBracket(At(s, 1))), Len(s))
    BY <1>0, <2>3 DEF TurnFits, Emit, InBracket, Open, Close, Backslash
  <2> QED
    BY <2>1, <2>2, <2>4 DEF BackslashTurn
<1>9. CASE c \notin {Star, Question, Open, Caret, Dollar} /\ c \notin Special /\ c # Backslash
  BY <1>0, <1>9 DEF GlobTurn, TurnFits, Emit
<1> QED
  BY <1>2, <1>3, <1>4, <1>5, <1>6, <1>7, <1>8, <1>9

\* The bytes put out fit, with three for each still to come and the final NUL.
GlobInv ==
    /\ src \in Seq(Byte) /\ dst \in Seq(Int) /\ room \in Nat
    /\ Len(dst) + 3 * Len(src) < room

\* The destination has room for three bytes of each one of the pattern.
LEMMA GlobInvInit == GlobInit => GlobInv
  BY DEF GlobInit, GlobInv

\* A turn of the loop puts out at most three bytes for each it takes in.
LEMMA GlobInvNext == GlobInv /\ [GlobStep]_convVars => GlobInv'
<1> SUFFICES ASSUME GlobInv, [GlobStep]_convVars
             PROVE  GlobInv'
  OBVIOUS
<1>1. CASE GlobStep
  <2> DEFINE n == GlobTurn(src, AtStart).n
             o == GlobTurn(src, AtStart).o
  <2>1. src \in Seq(Byte) /\ src # <<>> /\ n > 0 /\ AtStart \in BOOLEAN
    BY <1>1 DEF GlobStep, GlobGoesOn, GlobInv, AtStart
  <2>2. n \in 1 .. Len(src) /\ o \in Seq(Int) /\ Len(o) <= 3 * n
    BY <2>1, GlobTurnInside DEF TurnFits
  <2>3. src' \in Seq(Byte) /\ Len(src') = Len(src) - n
    BY <1>1, <2>1, <2>2, DropFirst DEF GlobStep
  <2>4. dst' \in Seq(Int) /\ Len(dst') = Len(dst) + Len(o)
    BY <1>1, <2>2 DEF GlobStep, GlobInv
  <2>5. room' = room
    BY <1>1 DEF GlobStep
  <2>6. Len(src) \in Nat /\ Len(dst) \in Nat /\ Len(o) \in Nat
    BY <2>1, <2>2 DEF GlobInv
  <2> HIDE DEF n, o
  <2>7. Len(dst') + 3 * Len(src') < room'
    BY <2>2, <2>3, <2>4, <2>5, <2>6 DEF GlobInv
  <2> QED
    BY <2>3, <2>4, <2>5, <2>7 DEF GlobInv
<1>2. CASE UNCHANGED convVars
  BY <1>2 DEF GlobInv, convVars
<1> QED
  BY <1>1, <1>2

\* glob2re(): for every pattern, the regular expression fits in 3 * strlen(in)
\* + 1 bytes, the final NUL included, and `in' never gets behind the pattern.
THEOREM GlobFits == GlobSpec => []Fits
<1>1. GlobInv => Fits
  BY DEF GlobInv, Fits
<1> QED
  BY <1>1, GlobInvInit, GlobInvNext, PTL DEF GlobSpec

-----------------------------------------------------------------------------
(* What strunesc() computes *)

\* An escape's spelling by the bytes behind its backslash.
Spelling3(a, b) ==
    \/ a = 99 /\ toupper(b) \in 65 .. 95
    \/ a = 120 /\ isxdigit(b)
    \/ isodigit(a) /\ isodigit(b)
Spelling4(a, b, c) ==
    \/ a = 120 /\ isxdigit(b) /\ isxdigit(c)
    \/ a \in 48 .. 51 /\ isodigit(b) /\ isodigit(c)

\* The NUL is no digit and no letter.
LEMMA NulNoDigit == ~ isodigit(NUL) /\ ~ isxdigit(NUL) /\ toupper(NUL) \notin 65 .. 95
BY DEF isodigit, isxdigit, toupper, NUL

\* The bytes of the string, and behind them its NUL.
LEMMA AtBytes ==
    ASSUME NEW s \in Seq(Byte), NEW k \in Nat
    PROVE  /\ k < Len(s) => At(s, k) = s[k + 1] /\ At(s, k) \in Byte
           /\ k >= Len(s) => At(s, k) = NUL
           /\ At(s, k) \in 0 .. 255
<1>1. CASE k < Len(s)
  <2>1. s[k + 1] \in Byte
    BY <1>1
  <2>2. At(s, k) = s[k + 1]
    BY <1>1 DEF At
  <2>. QED  BY <1>1, <2>1, <2>2 DEF Byte
<1>2. CASE ~ (k < Len(s))
  BY <1>2 DEF At, NUL
<1>. QED  BY <1>1, <1>2

\* The start of a string.
LEMMA Prefix ==
    ASSUME NEW s \in Seq(Byte), NEW k \in 1 .. Len(s)
    PROVE  /\ SubSeq(s, 1, k) \in Seq(Byte) /\ Len(SubSeq(s, 1, k)) = k
           /\ \A j \in 1 .. k : SubSeq(s, 1, k)[j] = At(s, j - 1)
<1>1. \A j \in 1 .. k : SubSeq(s, 1, k)[j] = s[j]
  OBVIOUS
<1>2. \A j \in 1 .. k : At(s, j - 1) = s[j]
  BY DEF At
<1>. QED  BY <1>1, <1>2

\* Which lengths an escape at the start of s can have.
LEMMA SpellingsAre ==
    ASSUME NEW s \in Seq(Byte), Len(s) >= 2
    PROVE  /\ Spellings(s) \subseteq {2, 3, 4}
           /\ 2 \in Spellings(s) <=> At(s, 1) \notin {99, 120}
           /\ 3 \in Spellings(s) <=> Spelling3(At(s, 1), At(s, 2))
           /\ 4 \in Spellings(s) <=> Spelling4(At(s, 1), At(s, 2), At(s, 3))
<1>. DEFINE m == Min({4, Len(s)})
            e(k) == SubSeq(s, 1, k)
<1>1. Len(s) \in Int /\ m = IF 4 <= Len(s) THEN 4 ELSE Len(s)
  BY MinTwo
<1>2. \A k : k \in Spellings(s) <=> k \in 2 .. m /\ Spelled(e(k))
  BY DEF Spellings
<1>. HIDE DEF m
<1>3. \A k \in 2 .. m : k \in 2 .. 4 /\ k \in 1 .. Len(s)
  BY <1>1
<1>4. Spellings(s) \subseteq {2, 3, 4}
  BY <1>2, <1>3
<1>5. 2 \in Spellings(s) <=> At(s, 1) \notin {99, 120}
  <2>1. 2 \in 2 .. m /\ 2 \in 1 .. Len(s) /\ 2 \in 1 .. 2 /\ 2 - 1 = 1
    BY <1>1
  <2>2. Len(e(2)) = 2 /\ e(2)[2] = At(s, 1)
    BY <2>1, Prefix
  <2>. HIDE DEF e
  <2>. QED  BY <1>2, <2>1, <2>2 DEF Spelled
<1>6. 3 \in Spellings(s) <=> Spelling3(At(s, 1), At(s, 2))
  <2>1. CASE Len(s) >= 3
    <3>1. 3 \in 2 .. m /\ 3 \in 1 .. Len(s) /\ 2 \in 1 .. 3 /\ 3 \in 1 .. 3 /\ 2 - 1 = 1 /\ 3 - 1 = 2
      BY <1>1, <2>1
    <3>2. Len(e(3)) = 3 /\ e(3)[2] = At(s, 1) /\ e(3)[3] = At(s, 2)
      BY <3>1, Prefix
    <3>. HIDE DEF e
    <3>3. 3 # 2 /\ 3 # 4
      OBVIOUS
    <3>4. Spelled(e(3)) <=> Spelling3(At(s, 1), At(s, 2))
      BY <3>2, <3>3, ZenonT(60) DEF Spelled, Spelling3
    <3>. QED  BY <1>2, <3>1, <3>4
  <2>2. CASE ~ (Len(s) >= 3)
    <3>1. 3 \notin 2 .. m
      BY <1>1, <2>2
    <3>2. At(s, 2) = NUL
      BY <1>1, <2>2, AtBytes
    <3>. QED  BY <1>2, <3>1, <3>2, NulNoDigit DEF Spelling3
  <2>. QED  BY <2>1, <2>2
<1>7. 4 \in Spellings(s) <=> Spelling4(At(s, 1), At(s, 2), At(s, 3))
  <2>1. CASE Len(s) >= 4
    <3>1. /\ 4 \in 2 .. m /\ 4 \in 1 .. Len(s) /\ 2 \in 1 .. 4 /\ 3 \in 1 .. 4 /\ 4 \in 1 .. 4
          /\ 2 - 1 = 1 /\ 3 - 1 = 2 /\ 4 - 1 = 3
      BY <1>1, <2>1
    <3>2. Len(e(4)) = 4 /\ e(4)[2] = At(s, 1) /\ e(4)[3] = At(s, 2) /\ e(4)[4] = At(s, 3)
      BY <3>1, Prefix
    <3>. HIDE DEF e
    <3>. QED  BY <1>2, <3>1, <3>2 DEF Spelled, Spelling4
  <2>2. CASE ~ (Len(s) >= 4)
    <3>1. 4 \notin 2 .. m
      BY <1>1, <2>2
    <3>2. At(s, 3) = NUL
      BY <1>1, <2>2, AtBytes
    <3>. QED  BY <1>2, <3>1, <3>2, NulNoDigit DEF Spelling4
  <2>. QED  BY <2>1, <2>2
<1>. QED  BY <1>4, <1>5, <1>6, <1>7

\* What an escape of each length denotes, by the bytes behind its backslash.
LEMMA DenotesWhat ==
    ASSUME NEW s \in Seq(Byte), NEW k \in 2 .. 4, k <= Len(s)
    PROVE  LET e == SubSeq(s, 1, k)
               a == At(s, 1)
               b == At(s, 2)
               c == At(s, 3)
           IN  /\ k = 2 /\ a \notin {99, 120} =>
                     Denotes(e) = IF isodigit(a) THEN Digit(a)
                                  ELSE IF a \in DOMAIN Native THEN Native[a] ELSE a
               /\ k = 3 /\ a = 99 => Denotes(e) = toupper(b) - 64
               /\ k = 3 /\ a = 120 => Denotes(e) = Digit(b)
               /\ k = 3 /\ isodigit(a) => Denotes(e) = 8 * Digit(a) + Digit(b)
               /\ k = 4 /\ a = 120 => Denotes(e) = 16 * Digit(b) + Digit(c)
               /\ k = 4 /\ isodigit(a) =>
                     Denotes(e) = 8 * (8 * Digit(a) + Digit(b)) + Digit(c)
<1>. DEFINE e == SubSeq(s, 1, k)
            a == At(s, 1)
            b == At(s, 2)
            c == At(s, 3)
<1>1. k \in 1 .. Len(s)
  OBVIOUS
<1>2. e \in Seq(Byte) /\ Len(e) = k /\ \A j \in 1 .. k : e[j] = At(s, j - 1)
  BY <1>1, Prefix
<1>3. e[2] = a /\ (k >= 3 => e[3] = b) /\ (k = 4 => e[4] = c)
  <2>1. /\ 2 \in 1 .. k /\ 2 - 1 = 1 /\ (k >= 3 => 3 \in 1 .. k) /\ 3 - 1 = 2
        /\ (k = 4 => 4 \in 1 .. k) /\ 4 - 1 = 3
    OBVIOUS
  <2>. QED  BY <1>2, <2>1
<1>. HIDE DEF e, a, b, c
<1>4. ~ isodigit(99) /\ ~ isodigit(120) /\ (isodigit(a) => a # 99 /\ a # 120)
  BY DEF isodigit
<1>5. CASE k = 2
  <2>1. InBase(8, SubSeq(e, 2, Len(e))) = Digit(a)
    <3>1. Len(SubSeq(e, 2, Len(e))) = 1 /\ SubSeq(e, 2, Len(e))[1] = e[2]
      BY <1>2, <1>5
    <3>. QED  BY <1>3, <3>1 DEF InBase
  <2>2. a \notin {99, 120} => Denotes(e) = IF isodigit(a) THEN Digit(a)
                                  ELSE IF a \in DOMAIN Native THEN Native[a] ELSE a
    BY <1>3, <2>1, Zenon DEF Denotes
  <2>. QED  BY <1>5, <2>2 DEF e, a, b, c
<1>6. CASE k = 3
  <2>1. InBase(8, SubSeq(e, 2, Len(e))) = 8 * Digit(a) + Digit(b)
    <3>1. Len(SubSeq(e, 2, Len(e))) = 2 /\ SubSeq(e, 2, Len(e))[1] = e[2] /\ SubSeq(e, 2, Len(e))[2] = e[3]
      BY <1>2, <1>6
    <3>. QED  BY <1>3, <1>6, <3>1 DEF InBase
  <2>2. InBase(16, SubSeq(e, 3, Len(e))) = Digit(b)
    <3>1. Len(SubSeq(e, 3, Len(e))) = 1 /\ SubSeq(e, 3, Len(e))[1] = e[3]
      BY <1>2, <1>6
    <3>. QED  BY <1>3, <1>6, <3>1 DEF InBase
  <2>3. /\ a = 99 => Denotes(e) = toupper(b) - 64
        /\ a = 120 => Denotes(e) = Digit(b)
        /\ isodigit(a) => Denotes(e) = 8 * Digit(a) + Digit(b)
    BY <1>3, <1>4, <1>6, <2>1, <2>2 DEF Denotes
  <2>. QED  BY <1>6, <2>3 DEF e, a, b, c
<1>7. CASE k = 4
  <2>1. InBase(8, SubSeq(e, 2, Len(e))) = 8 * (8 * Digit(a) + Digit(b)) + Digit(c)
    <3>1. /\ Len(SubSeq(e, 2, Len(e))) = 3 /\ SubSeq(e, 2, Len(e))[1] = e[2]
          /\ SubSeq(e, 2, Len(e))[2] = e[3] /\ SubSeq(e, 2, Len(e))[3] = e[4]
      BY <1>2, <1>7
    <3>. QED  BY <1>3, <1>7, <3>1 DEF InBase
  <2>2. InBase(16, SubSeq(e, 3, Len(e))) = 16 * Digit(b) + Digit(c)
    <3>1. Len(SubSeq(e, 3, Len(e))) = 2 /\ SubSeq(e, 3, Len(e))[1] = e[3] /\ SubSeq(e, 3, Len(e))[2] = e[4]
      BY <1>2, <1>7
    <3>. QED  BY <1>3, <1>7, <3>1 DEF InBase
  <2>3. /\ a = 120 => Denotes(e) = 16 * Digit(b) + Digit(c)
        /\ isodigit(a) => Denotes(e) = 8 * (8 * Digit(a) + Digit(b)) + Digit(c)
    BY <1>3, <1>4, <1>7, <2>1, <2>2 DEF Denotes
  <2>. QED  BY <1>7, <2>3 DEF e, a, b, c
<1>. QED  BY <1>5, <1>6, <1>7

\* The turn t takes the longest escape at the start of s, or s starts with none.
TakesEscape(s, t) ==
    \/ t.n = 0 /\ Spellings(s) = {}
    \/ /\ t.n \in Spellings(s) /\ \A k \in Spellings(s) : k <= t.n
       /\ t.c = Denotes(SubSeq(s, 1, t.n)) /\ t.c \in 0 .. 255

\* The values of digits and of control characters are bytes.
LEMMA DigitValues ==
    /\ \A c \in 0 .. 255 : isodigit(c) => Digit(c) \in 0 .. 7 /\ Digit(c) = c - 48
    /\ \A c \in 0 .. 255 : isxdigit(c) => Digit(c) \in 0 .. 15
    /\ \A c \in DOMAIN Native : Native[c] \in 0 .. 255
BY DEF isodigit, isxdigit, Digit, toupper, Native

\* Two hexadecimal digits are a byte, three octal digits are one if the first is
\* at most 3.
LEMMA DigitSums ==
    /\ \A x, y \in 0 .. 15 : 16 * x + y \in 0 .. 255
    /\ \A x, y \in 0 .. 7 : 8 * x + y \in 0 .. 255
    /\ \A x, y, z \in 0 .. 7 :
          /\ x <= 3 => 8 * (8 * x + y) + z \in 0 .. 255 /\ ~ (8 * (8 * x + y) + z > 255)
          /\ ~ (x <= 3) => 8 * (8 * x + y) + z > 255
OBVIOUS

\* A turn of strunesc() at a backslash takes the longest escape.
LEMMA EscapeTakes ==
    ASSUME NEW s \in Seq(Byte), Len(s) >= 2
    PROVE  TakesEscape(s, Escape(s))
<1>. DEFINE a == At(s, 1)
            b == At(s, 2)
            c == At(s, 3)
            D(k) == Denotes(SubSeq(s, 1, k))
<1>1. a \in 1 .. 255 /\ b \in 0 .. 255 /\ c \in 0 .. 255
  BY AtBytes DEF Byte
<1>2. /\ Spellings(s) \subseteq {2, 3, 4}
      /\ 2 \in Spellings(s) <=> a \notin {99, 120}
      /\ 3 \in Spellings(s) <=> Spelling3(a, b)
      /\ 4 \in Spellings(s) <=> Spelling4(a, b, c)
  BY SpellingsAre
<1>3. Len(s) \in Nat /\ (b # NUL => Len(s) >= 3) /\ (c # NUL => Len(s) >= 4)
  BY AtBytes
<1>4. a \notin {99, 120} =>
        D(2) = IF isodigit(a) THEN Digit(a) ELSE IF a \in DOMAIN Native THEN Native[a] ELSE a
  BY DenotesWhat
<1>5. Len(s) >= 3 => /\ a = 99 => D(3) = toupper(b) - 64
                     /\ a = 120 => D(3) = Digit(b)
                     /\ isodigit(a) => D(3) = 8 * Digit(a) + Digit(b)
  BY <1>3, DenotesWhat
<1>6. Len(s) >= 4 => /\ a = 120 => D(4) = 16 * Digit(b) + Digit(c)
                     /\ isodigit(a) => D(4) = 8 * (8 * Digit(a) + Digit(b)) + Digit(c)
  BY <1>3, DenotesWhat
<1>7. /\ isodigit(b) \/ isxdigit(b) \/ toupper(b) \in 65 .. 95 => b # NUL
      /\ isodigit(c) \/ isxdigit(c) => c # NUL
  BY NulNoDigit
<1>8. CtrlEscape(s) = IF toupper(b) \in 65 .. 95 THEN Turn(3, toupper(b) - 64) ELSE Invalid
  BY DEF CtrlEscape
<1>9. HexEscape(s) = IF ~ isxdigit(b) THEN Invalid
                     ELSE IF isxdigit(c) THEN Turn(4, 16 * Digit(b) + Digit(c)) ELSE Turn(3, Digit(b))
  BY DEF HexEscape
<1>10. OctalEscape(s) = IF ~ isodigit(b) THEN Turn(2, Digit(a))
                        ELSE IF ~ isodigit(c) \/ 8 * (8 * Digit(a) + Digit(b)) + Digit(c) > 255
                        THEN Turn(3, 8 * Digit(a) + Digit(b))
                        ELSE Turn(4, 8 * (8 * Digit(a) + Digit(b)) + Digit(c))
  BY DEF OctalEscape, Octal2, Octal3
<1>11. Escape(s) = IF a \in DOMAIN Native THEN Turn(2, Native[a])
                   ELSE IF a = 99 THEN CtrlEscape(s)
                   ELSE IF a = 120 THEN HexEscape(s)
                   ELSE IF isodigit(a) THEN OctalEscape(s)
                   ELSE IF a = NUL THEN Turn(1, Backslash)
                   ELSE Turn(2, a)
  BY DEF Escape
<1>. HIDE DEF a, b, c, D
<1>12. \A n, v : Turn(n, v).n = n /\ Turn(n, v).c = v
  BY DEF Turn
<1>13. \A t : TakesEscape(s, t) <=>
         \/ t.n = 0 /\ Spellings(s) = {}
         \/ /\ t.n \in Spellings(s) /\ \A k \in Spellings(s) : k <= t.n
            /\ t.c = D(t.n) /\ t.c \in 0 .. 255
  BY DEF TakesEscape, D
<1>14. /\ isodigit(a) => a \notin {99, 120} /\ a \notin DOMAIN Native /\ a # NUL
       /\ a \in DOMAIN Native => a \notin {99, 120}
       /\ a # NUL
  <2>. DEFINE K == {92, 97, 98, 101, 69, 102, 110, 114, 116, 118}
              X == {99, 120}
  <2>1. DOMAIN Native = K
    BY DEF Native
  <2>2. isodigit(a) => a \in 48 .. 55
    BY DEF isodigit
  <2>3. a # NUL
    BY <1>1 DEF NUL
  <2>4. \A d \in 48 .. 55 : d \notin X /\ d \notin K
    OBVIOUS
  <2>5. \A d \in K : d \notin X
    OBVIOUS
  <2>. HIDE DEF K, X
  <2>6. isodigit(a) => a \notin X /\ a \notin DOMAIN Native
    BY <2>1, <2>2, <2>4, Zenon
  <2>7. a \in DOMAIN Native => a \notin X
    BY <2>1, <2>5, Zenon
  <2>. QED  BY <2>3, <2>6, <2>7, Zenon DEF X
<1>15. CASE a \in DOMAIN Native
  <2>1. Spellings(s) = {2}
    <3>1. ~ Spelling3(a, b) /\ ~ Spelling4(a, b, c)
      BY <1>15, SMTT(40) DEF Spelling3, Spelling4, Native, isodigit
    <3>. QED  BY <1>2, <1>14, <1>15, <3>1, SMTT(40)
  <2>2. D(2) = Native[a] /\ Native[a] \in 0 .. 255
    BY <1>4, <1>14, <1>15, DigitValues
  <2>3. Escape(s) = Turn(2, Native[a])
    BY <1>11, <1>15
  <2>4. Escape(s).n = 2 /\ Escape(s).c = Native[a]
    BY <1>12, <2>3
  <2>. QED  BY <1>13, <2>1, <2>2, <2>4
<1>16. CASE a = 99
  <2>1. Escape(s) = CtrlEscape(s)
    BY <1>11, <1>14, <1>16
  <2>2. 2 \notin Spellings(s) /\ 4 \notin Spellings(s)
        /\ (3 \in Spellings(s) <=> toupper(b) \in 65 .. 95)
    BY <1>2, <1>16 DEF Spelling3, Spelling4, isodigit
  <2>3. CASE toupper(b) \in 65 .. 95
    <3>1. Escape(s).n = 3 /\ Escape(s).c = toupper(b) - 64
      BY <1>8, <1>12, <2>1, <2>3
    <3>2. D(3) = toupper(b) - 64 /\ toupper(b) - 64 \in 0 .. 255
      BY <1>3, <1>5, <1>7, <1>16, <2>3
    <3>3. Spellings(s) = {3}
      BY <1>2, <2>2, <2>3
    <3>4. Escape(s).c = D(Escape(s).n) /\ Escape(s).c \in 0 .. 255
      BY <3>1, <3>2, Zenon
    <3>5. Escape(s).n \in Spellings(s) /\ \A k \in Spellings(s) : k <= Escape(s).n
      BY <3>1, <3>3
    <3>. QED  BY <1>13, <3>4, <3>5, Zenon
  <2>4. CASE ~ (toupper(b) \in 65 .. 95)
    <3>1. Escape(s).n = 0
      BY <1>8, <1>12, <2>1, <2>4 DEF Invalid
    <3>2. Spellings(s) = {}
      BY <1>2, <2>2, <2>4, ZenonT(60)
    <3>. QED  BY <1>13, <3>1, <3>2
  <2>. QED  BY <2>3, <2>4
<1>17. CASE a = 120
  <2>1. Escape(s) = HexEscape(s)
    BY <1>11, <1>14, <1>17
  <2>2. /\ 2 \notin Spellings(s)
        /\ (3 \in Spellings(s) <=> isxdigit(b))
        /\ (4 \in Spellings(s) <=> isxdigit(b) /\ isxdigit(c))
    BY <1>2, <1>17 DEF Spelling3, Spelling4, isodigit, isxdigit
  <2>3. CASE ~ isxdigit(b)
    <3>1. Escape(s).n = 0
      BY <1>9, <1>12, <2>1, <2>3 DEF Invalid
    <3>2. Spellings(s) = {}
      BY <1>2, <2>2, <2>3
    <3>. QED  BY <1>13, <3>1, <3>2
  <2>4. CASE isxdigit(b) /\ isxdigit(c)
    <3>1. Escape(s).n = 4 /\ Escape(s).c = 16 * Digit(b) + Digit(c)
      BY <1>9, <1>12, <2>1, <2>4
    <3>2. D(4) = 16 * Digit(b) + Digit(c)
      BY <1>3, <1>6, <1>7, <1>17, <2>4
    <3>3. Digit(b) \in 0 .. 15 /\ Digit(c) \in 0 .. 15
      BY <1>1, <2>4, DigitValues
    <3>4. 16 * Digit(b) + Digit(c) \in 0 .. 255
      BY <3>3, DigitSums
    <3>5. 4 \in Spellings(s) /\ \A k \in Spellings(s) : k <= 4
      BY <1>2, <2>2, <2>4
    <3>. QED  BY <1>13, <3>1, <3>2, <3>4, <3>5
  <2>5. CASE isxdigit(b) /\ ~ isxdigit(c)
    <3>1. Escape(s).n = 3 /\ Escape(s).c = Digit(b)
      BY <1>9, <1>12, <2>1, <2>5
    <3>2. D(3) = Digit(b)
      BY <1>3, <1>5, <1>7, <1>17, <2>5
    <3>3. Digit(b) \in 0 .. 255
      <4>1. Digit(b) \in 0 .. 15
        BY <1>1, <2>5, DigitValues
      <4>. QED  BY <4>1
    <3>4. Spellings(s) = {3}
      BY <1>2, <2>2, <2>5
    <3>. QED  BY <1>13, <3>1, <3>2, <3>3, <3>4
  <2>. QED  BY <2>3, <2>4, <2>5
<1>18. CASE isodigit(a)
  <2>1. Escape(s) = OctalEscape(s)
    BY <1>11, <1>14, <1>18
  <2>2. /\ 2 \in Spellings(s)
        /\ (3 \in Spellings(s) <=> isodigit(b))
        /\ (4 \in Spellings(s) <=> a \in 48 .. 51 /\ isodigit(b) /\ isodigit(c))
    BY <1>2, <1>14, <1>18 DEF Spelling3, Spelling4, isodigit
  <2>3. Digit(a) \in 0 .. 7 /\ (Digit(a) <= 3 <=> a \in 48 .. 51)
    <3>1. a \in 0 .. 255
      BY <1>1
    <3>2. Digit(a) \in 0 .. 7 /\ Digit(a) = a - 48
      BY <1>18, <3>1, DigitValues, Zenon
    <3>. QED  BY <3>1, <3>2
  <2>4. CASE ~ isodigit(b)
    <3>1. Escape(s).n = 2 /\ Escape(s).c = Digit(a)
      BY <1>10, <1>12, <2>1, <2>4
    <3>2. D(2) = Digit(a) /\ Digit(a) \in 0 .. 255
      BY <1>4, <1>14, <1>18, <2>3
    <3>3. Spellings(s) = {2}
      BY <1>2, <2>2, <2>4
    <3>. QED  BY <1>13, <3>1, <3>2, <3>3
  <2>5. CASE isodigit(b) /\ isodigit(c) /\ a \in 48 .. 51
    <3>1. Digit(b) \in 0 .. 7 /\ Digit(c) \in 0 .. 7
      BY <1>1, <2>5, DigitValues
    <3>2. ~ (8 * (8 * Digit(a) + Digit(b)) + Digit(c) > 255) /\ 8 * (8 * Digit(a) + Digit(b)) + Digit(c) \in 0 .. 255
      BY <2>3, <2>5, <3>1, DigitSums, ZenonT(40)
    <3>3. Escape(s).n = 4 /\ Escape(s).c = 8 * (8 * Digit(a) + Digit(b)) + Digit(c)
      BY <1>10, <1>12, <2>1, <2>5, <3>2
    <3>4. D(4) = 8 * (8 * Digit(a) + Digit(b)) + Digit(c)
      BY <1>3, <1>6, <1>7, <1>18, <2>5
    <3>5. 4 \in Spellings(s) /\ \A k \in Spellings(s) : k <= 4
      BY <1>2, <2>2, <2>5
    <3>. QED  BY <1>13, <3>2, <3>3, <3>4, <3>5
  <2>6. CASE isodigit(b) /\ ~ (isodigit(c) /\ a \in 48 .. 51)
    <3>1. Digit(b) \in 0 .. 7 /\ (isodigit(c) => Digit(c) \in 0 .. 7)
      BY <1>1, <2>6, DigitValues, ZenonT(60)
    <3>2. isodigit(c) => 8 * (8 * Digit(a) + Digit(b)) + Digit(c) > 255
      BY <2>3, <2>6, <3>1, DigitSums
    <3>3. Escape(s).n = 3 /\ Escape(s).c = 8 * Digit(a) + Digit(b)
      BY <1>10, <1>12, <2>1, <2>6, <3>2
    <3>4. D(3) = 8 * Digit(a) + Digit(b)
      BY <1>3, <1>5, <1>7, <1>18, <2>6
    <3>5. 8 * Digit(a) + Digit(b) \in 0 .. 255
      BY <2>3, <3>1, DigitSums
    <3>6. 3 \in Spellings(s) /\ \A k \in Spellings(s) : k <= 3
      BY <1>2, <2>2, <2>6
    <3>. QED  BY <1>13, <3>3, <3>4, <3>5, <3>6
  <2>. QED  BY <2>4, <2>5, <2>6
<1>19. CASE a \notin DOMAIN Native /\ a \notin {99, 120} /\ ~ isodigit(a)
  <2>1. Escape(s) = Turn(2, a)
    BY <1>11, <1>14, <1>19
  <2>2. Escape(s).n = 2 /\ Escape(s).c = a
    BY <1>12, <2>1
  <2>3. D(2) = a /\ a \in 0 .. 255
    BY <1>1, <1>4, <1>19
  <2>4. Spellings(s) = {2}
    <3>1. a \notin 48 .. 51
      BY <1>19 DEF isodigit
    <3>2. ~ Spelling3(a, b) /\ ~ Spelling4(a, b, c)
      BY <1>19, <3>1, Zenon DEF Spelling3, Spelling4
    <3>. QED  BY <1>2, <1>19, <3>2
  <2>5. Escape(s).c = D(Escape(s).n) /\ Escape(s).c \in 0 .. 255
    BY <2>2, <2>3, Zenon
  <2>6. Escape(s).n \in Spellings(s) /\ \A k \in Spellings(s) : k <= Escape(s).n
    BY <2>2, <2>4
  <2>. QED  BY <1>13, <2>5, <2>6, Zenon
<1>. QED  BY <1>15, <1>16, <1>17, <1>18, <1>19

\* A turn of strunesc() takes what a turn of the meaning does and appends the
\* same, and it gives up where there is no meaning.
LEMMA UnescTakes ==
    ASSUME NEW s \in Seq(Byte), s # <<>>
    PROVE  /\ UnescTurn(s).n > 0 =>
                 /\ MeaningRest(s) = Advance(s, UnescTurn(s).n)
                 /\ MeaningOut(s) = <<UnescTurn(s).c>> /\ UnescTurn(s).c \in 0 .. 255
           /\ ~ (UnescTurn(s).n > 0) => 
                 UnescTurn(s).n = 0 /\ MeaningOut(s) = <<-1>> /\ MeaningRest(s) = <<>>
<1>1. Len(s) \in Nat /\ Len(s) >= 1 /\ Head(s) = s[1] /\ At(s, 0) = s[1] /\ s[1] \in Byte
  BY DEF At
<1>2. CASE At(s, 0) # Backslash \/ Len(s) = 1
  <2>1. IsPlain(s)
    BY <1>1, <1>2 DEF IsPlain
  <2>2. MeaningRest(s) = Tail(s) /\ MeaningOut(s) = <<Head(s)>>
    BY <2>1 DEF MeaningRest, MeaningOut
  <2>3. UnescTurn(s) = Turn(1, At(s, 0))
    <3>1. CASE At(s, 0) # Backslash
      BY <3>1 DEF UnescTurn
    <3>2. CASE At(s, 0) = Backslash
      <4>1. At(s, 1) = NUL
        BY <1>1, <1>2, <3>2, AtBytes
      <4>2. At(s, 1) \notin DOMAIN Native /\ At(s, 1) \notin {99, 120} /\ ~ isodigit(At(s, 1))
        BY <4>1 DEF Native, isodigit, NUL
      <4>. QED  BY <3>2, <4>1, <4>2 DEF UnescTurn, Escape
    <3>. QED  BY <3>1, <3>2
  <2>4. UnescTurn(s).n = 1 /\ UnescTurn(s).c = s[1]
    BY <1>1, <2>3 DEF Turn
  <2>5. Advance(s, 1) = Tail(s)
    <3>1. Advance(s, 1) = SubSeq(s, 2, Len(s))
      BY <1>1 DEF Advance
    <3>. QED  BY <1>1, <3>1
  <2>. QED  BY <1>1, <2>2, <2>4, <2>5 DEF Byte
<1>3. CASE At(s, 0) = Backslash /\ Len(s) # 1
  <2>1. ~ IsPlain(s) /\ Len(s) >= 2
    <3>1. Head(s) = Backslash
      BY <1>1, <1>3, Zenon
    <3>2. Len(s) >= 2
      <4>. DEFINE l == Len(s)
      <4>1. l \in Nat /\ l >= 1 /\ l # 1
        BY <1>1, <1>3, Zenon
      <4>. HIDE DEF l
      <4>2. l >= 2
        BY <4>1
      <4>. QED  BY <4>2 DEF l
    <3>. QED  BY <1>3, <3>1, <3>2, Zenon DEF IsPlain
  <2>2. UnescTurn(s) = Escape(s) /\ TakesEscape(s, Escape(s))
    BY <1>3, <2>1, EscapeTakes DEF UnescTurn
  <2>. DEFINE n == UnescTurn(s).n
              c == UnescTurn(s).c
  <2>3. \/ n = 0 /\ Spellings(s) = {}
        \/ /\ n \in Spellings(s) /\ \A k \in Spellings(s) : k <= n
           /\ c = Denotes(SubSeq(s, 1, n)) /\ c \in 0 .. 255
    BY <2>2 DEF TakesEscape
  <2>. HIDE DEF n, c
  <2>4. CASE n = 0 /\ Spellings(s) = {}
    <3>1. MeaningOut(s) = <<-1>> /\ MeaningRest(s) = <<>>
      BY <2>1, <2>4 DEF MeaningOut, MeaningRest
    <3>. QED  BY <2>4, <3>1 DEF n
  <2>5. CASE /\ n \in Spellings(s) /\ \A k \in Spellings(s) : k <= n
             /\ c = Denotes(SubSeq(s, 1, n)) /\ c \in 0 .. 255
    <3>1. Spellings(s) \subseteq {2, 3, 4} /\ \A k \in Spellings(s) : k <= Len(s)
      <4>1. Spellings(s) \subseteq {2, 3, 4}
        BY <2>1, SpellingsAre
      <4>2. Min({4, Len(s)}) <= Len(s) /\ Min({4, Len(s)}) \in Int
        BY <1>1, MinTwo
      <4>. DEFINE m == Min({4, Len(s)})
      <4>3. \A k \in Spellings(s) : k \in 2 .. m
        BY Zenon DEF Spellings
      <4>4. m <= Len(s) /\ m \in Int
        BY <4>2
      <4>. HIDE DEF m
      <4>5. \A k \in 2 .. m : k <= Len(s)
        BY <1>1, <4>4
      <4>. QED  BY <4>1, <4>3, <4>5, Zenon
    <3>2. Max(Spellings(s)) = n
      BY <2>5, <3>1, MaxIs
    <3>3. Spellings(s) # {} /\ n > 0 /\ n \in Nat /\ n <= Len(s)
      BY <2>5, <3>1
    <3>4. MeaningRest(s) = SubSeq(s, n + 1, Len(s)) /\ MeaningOut(s) = <<c>>
      BY <2>1, <2>5, <3>2, <3>3, Zenon DEF MeaningRest, MeaningOut
    <3>5. Advance(s, n) = SubSeq(s, n + 1, Len(s))
      BY <1>1, <3>3 DEF Advance
    <3>. QED  BY <2>5, <3>3, <3>4, <3>5 DEF n, c
  <2>. QED  BY <2>3, <2>4, <2>5
<1>. QED  BY <1>2, <1>3

\* The functions of the loop that Meaning() is.
MeaningRests == [t \in Seq(Byte) |-> MeaningRest(t)]
MeaningOuts == [t \in Seq(Byte) |-> MeaningOut(t)]

\* Every turn of it takes something.
LEMMA MeaningTurns ==
    IsTurn(MeaningRests, MeaningOuts, Byte, Int) /\ \A s : Meaning(s) = Loop(MeaningRests, MeaningOuts, s)
<1>1. ASSUME NEW s \in Seq(Byte), s # <<>>
      PROVE  MeaningRest(s) \in Seq(Byte) /\ Len(MeaningRest(s)) < Len(s) /\ MeaningOut(s) \in Seq(Int)
  <2>. DEFINE t == UnescTurn(s)
  <2>1. CASE t.n > 0
    <3>1. MeaningRest(s) = Advance(s, t.n) /\ MeaningOut(s) = <<t.c>> /\ t.c \in 0 .. 255
      BY <1>1, <2>1, UnescTakes
    <3>2. t.n \in 1 .. Len(s)
      BY <1>1, <2>1, UnescTurnInside
    <3>. HIDE DEF t
    <3>3. Advance(s, t.n) \in Seq(Byte) /\ Len(Advance(s, t.n)) = Len(s) - t.n
      BY <3>2, DropFirst
    <3>4. <<t.c>> \in Seq(Int)
      <4>1. \A x \in 0 .. 255 : <<x>> \in Seq(Int)
        OBVIOUS
      <4>. QED  BY <3>1, <4>1, Zenon
    <3>5. Len(s) - t.n < Len(s)
      BY <3>2
    <3>. QED  BY <3>1, <3>3, <3>4, <3>5, Zenon
  <2>2. CASE ~ (t.n > 0)
    <3>1. MeaningRest(s) = <<>> /\ MeaningOut(s) = <<-1>>
      BY <1>1, <2>2, UnescTakes
    <3>2. <<>> \in Seq(Byte) /\ Len(<<>>) < Len(s)
      <4>1. <<>> \in Seq(Byte) /\ Len(<<>>) = 0
        OBVIOUS
      <4>2. Len(s) \in Nat /\ Len(s) # 0
        BY <1>1
      <4>. QED  BY <4>1, <4>2
    <3>3. -1 \in Int
      OBVIOUS
    <3>4. <<-1>> \in Seq(Int)
      BY <3>3
    <3>. QED  BY <3>1, <3>2, <3>4, Zenon
  <2>. QED  BY <2>1, <2>2, Zenon
<1>2. <<>> \in Seq(Byte) /\ <<>> \in Seq(Int) /\ MeaningRest(<<>>) = <<>> /\ MeaningOut(<<>>) = <<>>
  BY DEF MeaningRest, MeaningOut
<1>3. MeaningRests \in [Seq(Byte) -> Seq(Byte)] /\ MeaningRests[<<>>] = <<>>
  BY <1>1, <1>2, Zenon DEF MeaningRests
<1>4. MeaningOuts \in [Seq(Byte) -> Seq(Int)] /\ MeaningOuts[<<>>] = <<>>
  BY <1>1, <1>2, Zenon DEF MeaningOuts
<1>5. \A x \in Seq(Byte) : x # <<>> => Len(MeaningRests[x]) < Len(x)
  BY <1>1, Zenon DEF MeaningRests
<1>6. \A s : Meaning(s) = Loop(MeaningRests, MeaningOuts, s)
  BY Zenon DEF Meaning, MeaningRests, MeaningOuts
<1>. QED  BY <1>3, <1>4, <1>5, <1>6, Zenon DEF IsTurn

\* What a string means is a sequence of numbers; nothing means nothing.
LEMMA MeaningType ==
    ASSUME NEW s \in Seq(Byte)
    PROVE  Meaning(s) \in Seq(Int) /\ Meaning(<<>>) = <<>>
<1>1. IsTurn(MeaningRests, MeaningOuts, Byte, Int)
  BY MeaningTurns
<1>2. Loop(MeaningRests, MeaningOuts, s) \in Seq(Int)
  BY <1>1, LoopType
<1>3. Loop(MeaningRests, MeaningOuts, <<>>) = <<>>
  BY LoopEmpty
<1>. QED  BY <1>2, <1>3, MeaningTurns, Zenon

\* The meaning of a string by its first turn.
LEMMA MeaningTurn ==
    ASSUME NEW s \in Seq(Byte), s # <<>>
    PROVE  Meaning(s) = MeaningOut(s) \o Meaning(MeaningRest(s))
<1>1. IsTurn(MeaningRests, MeaningOuts, Byte, Int)
  BY MeaningTurns
<1>2. LoopUnfolds(MeaningRests, MeaningOuts, s)
  BY <1>1, LoopTurn
<1>3. MeaningRests[s] = MeaningRest(s) /\ MeaningOuts[s] = MeaningOut(s)
  BY Zenon DEF MeaningRests, MeaningOuts
<1>. QED  BY <1>2, <1>3, MeaningTurns, Zenon DEF LoopUnfolds

\* What was written and the meaning of what is left: a turn changes neither.
LEMMA UnescMeans ==
    ASSUME NEW s \in Seq(Byte), s # <<>>, NEW d \in Seq(0 .. 255)
    PROVE  /\ UnescTurn(s).n > 0 =>
                 /\ Append(d, UnescTurn(s).c) \in Seq(0 .. 255) /\ Advance(s, UnescTurn(s).n) \in Seq(Byte)
                 /\ Append(d, UnescTurn(s).c) \o Meaning(Advance(s, UnescTurn(s).n)) = d \o Meaning(s)
           /\ ~ (UnescTurn(s).n > 0) => d \o Meaning(s) = Append(d, -1)
<1>. DEFINE n == UnescTurn(s).n
            c == UnescTurn(s).c
            m == Meaning(Advance(s, n))
<1>0. d \in Seq(Int)
  <2>1. 0 .. 255 \subseteq Int
    OBVIOUS
  <2>. QED  BY <2>1, SeqSubset, ZenonT(40)
<1>1. ASSUME n > 0
      PROVE  /\ Append(d, c) \in Seq(0 .. 255) /\ Advance(s, n) \in Seq(Byte)
             /\ Append(d, c) \o m = d \o Meaning(s)
  <2>1. MeaningRest(s) = Advance(s, n) /\ MeaningOut(s) = <<c>> /\ c \in 0 .. 255
    BY <1>1, UnescTakes
  <2>2. n \in 1 .. Len(s)
    BY <1>1, UnescTurnInside
  <2>3. Meaning(s) = <<c>> \o m
    BY <2>1, MeaningTurn
  <2>. HIDE DEF n, c
  <2>4. Advance(s, n) \in Seq(Byte)
    BY <2>2, DropFirst
  <2>5. m \in Seq(Int)
    BY <2>4, MeaningType
  <2>. HIDE DEF m
  <2>6. Append(d, c) \in Seq(0 .. 255)
    BY <2>1
  <2>7. Append(d, c) = d \o <<c>> /\ <<c>> \in Seq(Int)
    BY <2>1
  <2>8. Grouped(d, <<c>>, m)
    BY <1>0, <2>5, <2>7, Group3
  <2>. QED  BY <2>3, <2>4, <2>6, <2>7, <2>8, Zenon DEF Grouped
<1>2. ASSUME ~ (n > 0) PROVE d \o Meaning(s) = Append(d, -1)
  <2>1. MeaningOut(s) = <<-1>> /\ MeaningRest(s) = <<>>
    BY <1>2, UnescTakes
  <2>2. Meaning(s) = <<-1>> \o <<>>
    <3>1. Meaning(s) = <<-1>> \o Meaning(<<>>)
      BY <2>1, MeaningTurn
    <3>. QED  BY <3>1, MeaningType
  <2>3. <<-1>> \o <<>> = <<-1>> /\ d \o <<-1>> = Append(d, -1)
    BY <1>0
  <2>. QED  BY <2>2, <2>3, Zenon
<1>. QED  BY <1>1, <1>2

-----------------------------------------------------------------------------
(* What getargs() makes of -cstring *)

\* What is known of g.cmdopts while the command line is read: -cstring has been
\* seen, and then the string v.
SendFields == {"cstring", "enter", "strip", "sources", "from", "data", "limit"}
PassFields == {"subcmd", "has_timeout", "timeout", "flags", "pattern", "cstring", "lookback", "subs"}

CStringSeen ==
    /\ st.cstring
    /\ line.cmd = "send" =>
          DOMAIN st = SendFields /\ st.sources = 0 /\ st.strip = FALSE /\ st.limit = 0
    /\ line.cmd # "send" => DOMAIN st = PassFields /\ st.flags \subseteq {"EXIT"} /\ st.pattern = NULL

StringSeen(v) ==
    /\ st.cstring
    /\ line.cmd = "send" =>
          DOMAIN st = SendFields /\ st.sources = 1 /\ st.strip = FALSE /\ st.from = "arg" /\ st.data = v
    /\ line.cmd # "send" =>
          /\ DOMAIN st = PassFields /\ st.pattern = v
          /\ \E f \in {"EXACT", "ERE"} : st.flags \ {"EXIT"} = {f}

\* The text is the meaning of v, and it has a meaning.
TextSeen(v) ==
    /\ Meaning(v) \in Seq(0 .. 255)
    /\ line.cmd = "send" => st.data = Meaning(v)
    /\ line.cmd # "send" =>
          /\ st.pattern = Meaning(v) /\ "GLOB" \notin st.flags
          /\ \A k \in DOMAIN Meaning(v) : Meaning(v)[k] # NUL

BadText(v) ==
    \/ \E k \in DOMAIN Meaning(v) : Meaning(v)[k] = -1
    \/ line.cmd # "send" /\ (Meaning(v) = <<>> \/ \E k \in DOMAIN Meaning(v) : Meaning(v)[k] = NUL)
    \/ line.cmd = "send" /\ Len(Meaning(v)) > MaxSend

\* The states of getargs() on a command line with -cstring and the string v.
CStringAt(v) ==
    \/ phase = "args" /\ i = 1 /\ st = SubCommand(line.cmd)
    \/ phase = "args" /\ i = 2 /\ CStringSeen
    \/ phase = "args" /\ i = 3 /\ StringSeen(v)
    \/ /\ phase = "unesc" /\ StringSeen(v)
       /\ src \in Seq(Byte) /\ dst \in Seq(0 .. 255) /\ dst \o Meaning(src) = Meaning(v)
    \/ phase = "text" /\ TextSeen(v)
    \/ phase = "usage" /\ BadText(v)
    \/ phase = "build" /\ ~ BadText(v) /\ Meaning(v) = IF line.cmd = "send" THEN st.data ELSE st.pattern

CStringInv == line \in CommandLines /\ (HasEscapes => CStringAt(line.args[2].v))

\* What such a command line is.
LEMMA EscapeLine ==
    ASSUME line \in CommandLines, HasEscapes
    PROVE  /\ line.cmd \in {"expect", "interact", "send"} /\ Len(line.args) = 2
           /\ line.args[1].o = "cstring"
           /\ line.cmd = "expect" => line.args[2].o \in {"exact", "re", "bare"}
           /\ line.cmd = "interact" => line.args[2].o = "re"
           /\ line.cmd = "send" => line.args[2].o \in {"bare", "--"}
           /\ line.args[2].v \in Seq(Byte) /\ line.args[2].v # NULL
<1>1. /\ line.cmd \in {"expect", "interact", "send"} /\ Len(line.args) = 2
      /\ line.args[1].o = "cstring" /\ line.args[2].v # NULL
  BY DEF HasEscapes, CStringOpts
<1>2. line.args[2].o \in CStringOpts[line.cmd]
  BY DEF HasEscapes
<1>3. /\ line.cmd = "expect" => line.args[2].o \in {"exact", "re", "bare"}
      /\ line.cmd = "interact" => line.args[2].o = "re"
      /\ line.cmd = "send" => line.args[2].o \in {"bare", "--"}
  BY <1>2 DEF CStringOpts
<1>4. 2 \in DOMAIN line.args
  <2>1. DOMAIN line.args = 1 .. Len(line.args)
    BY ArgumentsAssumption
  <2>. QED  BY <1>1, <2>1
<1>5. line.args[2].o \in {"exact", "re", "glob", "bare", "--"}
  BY <1>1, <1>3
<1>6. line.args[2].v \in {NULL} \cup Seq(Byte)
  BY <1>4, <1>5, ArgumentsAssumption
<1>. QED  BY <1>1, <1>3, <1>6

\* getargs() starts in such a state.
LEMMA CStringInit == ArgsInit => CStringInv
BY DEF ArgsInit, CStringInv, CStringAt

\* What the options mean for these sub-commands.
LEMMA OptionTables ==
    /\ FlagOpts["expect"] = {"nocase", "anchor", "cstring", "eof"}
    /\ FlagOpts["interact"] = {"nocase", "anchor", "cstring", "nodetach"}
    /\ FlagOpts["send"] = {"cstring", "cr", "strip"}
    /\ TextOpts["expect"] = {"exact", "re", "glob", "bare"}
    /\ TextOpts["interact"] = {"re", "subst"}
    /\ TextOpts["send"] = {"env", "file", "fd", "bare", "--"}
    /\ IntOpts["expect"] = {"timeout", "lookback"}
    /\ IntOpts["interact"] = {"lookback"}
    /\ IntOpts["send"] = {"limit"}
    /\ \A cmd \in {"expect", "interact", "send"} : BoolOpts[cmd] = {}
<1>1. /\ FlagOpts["expect"] = {"nocase", "anchor", "cstring", "eof"}
      /\ FlagOpts["interact"] = {"nocase", "anchor", "cstring", "nodetach"}
      /\ FlagOpts["send"] = {"cstring", "cr", "strip"}
      /\ {"expect", "interact", "send"} \subseteq DOMAIN FlagOpts
  BY DEF FlagOpts
<1>2. /\ TextOpts["expect"] = {"exact", "re", "glob", "bare"}
      /\ TextOpts["interact"] = {"re", "subst"}
      /\ TextOpts["send"] = {"env", "file", "fd", "bare", "--"}
  BY DEF TextOpts
<1>3. /\ IntOpts["expect"] = {"timeout", "lookback"}
      /\ IntOpts["interact"] = {"lookback"}
      /\ IntOpts["send"] = {"limit"}
  BY DEF IntOpts
<1>4. \A cmd \in {"expect", "interact", "send"} : BoolOpts[cmd] = {}
  BY <1>1 DEF BoolOpts
<1>. QED  BY <1>1, <1>2, <1>3, <1>4

\* -cstring is an option of all of them, and takes no argument.
LEMMA CStringTaken ==
    ASSUME line \in CommandLines, HasEscapes, phase = "args", i = 1, st = SubCommand(line.cmd), GetArg
    PROVE  phase' = "args" /\ i' = 2 /\ CStringSeen'
<1>. DEFINE a == line.args[1]
            cmd == line.cmd
<1>1. cmd \in {"expect", "interact", "send"} /\ a.o = "cstring" /\ Len(line.args) = 2
  BY EscapeLine
<1>2. /\ a.o \in FlagOpts[cmd] /\ a.o \notin TextOpts[cmd] /\ a.o \notin IntOpts[cmd]
      /\ a.o \notin BoolOpts[cmd]
  <2>. HIDE DEF a, cmd
  <2>. QED  BY <1>1, OptionTables
<1>3. ~ UsageError(a)
  <2>1. cmd # "get" /\ a.o # "bare" /\ a.o # "limit" /\ a.o # "--"
    BY <1>1
  <2>. QED  BY <1>2, <2>1 DEF UsageError
<1>4. i <= Len(line.args) /\ ~ EndsOptions(a) /\ ~ Overruns(a)
  BY <1>1 DEF EndsOptions, Overruns
<1>5. /\ st' = Takes(a) /\ i' = 2 /\ phase' = "args" /\ line' = line
  BY <1>3, <1>4 DEF GetArg
<1>6. CASE cmd = "send"
  <2>1. st = [cstring |-> FALSE, enter |-> FALSE, strip |-> FALSE, sources |-> 0,
              from |-> "none", data |-> NULL, limit |-> 0]
    BY <1>6 DEF SubCommand
  <2>2. Takes(a) = [st EXCEPT !.cstring = TRUE]
    BY <1>1, <1>6 DEF Takes, IsPass, send_arg
  <2>3. /\ DOMAIN st' = SendFields /\ st'.cstring = TRUE /\ st'.sources = 0 /\ st'.strip = FALSE
        /\ st'.limit = 0
    BY <1>5, <2>1, <2>2 DEF SendFields
  <2>. QED  BY <1>5, <1>6, <2>3 DEF CStringSeen
<1>7. CASE cmd # "send"
  <2>2. DOMAIN st = PassFields /\ st.flags \subseteq {"EXIT"} /\ st.pattern = NULL
    <3>1. CASE cmd = "expect"
      <4>1. st = Pass(1, FALSE, {})
        BY <3>1 DEF SubCommand
      <4>. QED  BY <4>1 DEF Pass, PassFields
    <3>2. CASE cmd = "interact"
      <4>1. st = Pass(2, TRUE, {"EXIT"})
        BY <3>2 DEF SubCommand
      <4>. QED  BY <4>1 DEF Pass, PassFields
    <3>. QED  BY <1>1, <1>7, <3>1, <3>2
  <2>3. Takes(a) = pass_arg(a)
    BY <1>1, <1>7 DEF Takes, IsPass
  <2>4. a.o \notin DOMAIN PatternFlag /\ a.o \notin DOMAIN SimpleFlag
    BY <1>1 DEF PatternFlag, SimpleFlag
  <2>5. pass_arg(a) = [st EXCEPT !.cstring = TRUE]
    BY <1>1, <2>4, Zenon DEF pass_arg
  <2>6. /\ DOMAIN st' = PassFields /\ st'.cstring = TRUE /\ st'.flags \subseteq {"EXIT"}
        /\ st'.pattern = NULL
    BY <1>5, <2>2, <2>3, <2>5 DEF PassFields
  <2>. QED  BY <1>5, <1>7, <2>6 DEF CStringSeen
<1>. QED  BY <1>5, <1>6, <1>7

\* The string comes next; only an empty word without a dash is refused.
LEMMA StringTaken ==
    ASSUME line \in CommandLines, HasEscapes, phase = "args", i = 2, CStringSeen, GetArg
    PROVE  \/ phase' = "args" /\ i' = 3 /\ StringSeen(line.args[2].v)'
           \/ phase' = "usage" /\ line.cmd = "expect" /\ line.args[2].v = <<>>
<1>. DEFINE a == line.args[2]
            cmd == line.cmd
<1>1. /\ cmd \in {"expect", "interact", "send"} /\ Len(line.args) = 2
      /\ cmd = "expect" => a.o \in {"exact", "re", "bare"}
      /\ cmd = "interact" => a.o = "re"
      /\ cmd = "send" => a.o \in {"bare", "--"}
      /\ a.v # NULL
  BY EscapeLine
<1>2. a.o \in TextOpts[cmd] /\ a.o \notin IntOpts[cmd] /\ a.o \notin BoolOpts[cmd]
  <2>. HIDE DEF a, cmd
  <2>. QED  BY <1>1, OptionTables
<1>3. UsageError(a) => cmd = "expect" /\ a.v = <<>>
  <2>1. cmd # "get" /\ a.o # "limit" /\ ~ (i < Len(line.args))
    BY <1>1
  <2>2. ASSUME cmd = "expect" PROVE "EXACT" \notin st.flags
    BY <2>2 DEF CStringSeen
  <2>. QED  BY <1>1, <1>2, <2>1, <2>2 DEF UsageError
<1>4. CASE UsageError(a)
  <2>1. phase' = "usage"
    BY <1>1, <1>4 DEF GetArg
  <2>. QED  BY <1>3, <1>4, <2>1
<1>5. CASE ~ UsageError(a)
  <2>1. st' = Takes(a) /\ phase' = "args" /\ line' = line /\ i' = 3
    <3>1. i <= Len(line.args)
      BY <1>1
    <3>2. st' = Takes(a) /\ i' = (IF EndsOptions(a) THEN Len(line.args) + 1 ELSE i + 1)
          /\ phase' = "args" /\ line' = line
      BY <1>1, <1>5, <3>1 DEF GetArg, Overruns
    <3>. QED  BY <1>1, <3>2
  <2>2. CASE cmd = "send"
    <3>1. Takes(a) = [st EXCEPT !.sources = @ + 1, !.from = "arg", !.data = a.v]
      BY <1>1, <2>2 DEF Takes, IsPass, send_arg
    <3>2. st.cstring /\ DOMAIN st = SendFields /\ st.sources = 0 /\ st.strip = FALSE
      BY <2>2 DEF CStringSeen
    <3>3. /\ DOMAIN st' = SendFields /\ st'.cstring = st.cstring /\ st'.sources = 1 /\ st'.strip = FALSE
          /\ st'.from = "arg" /\ st'.data = a.v
      <4>. DEFINE r == [st EXCEPT !.sources = @ + 1]
                  t == [r EXCEPT !.from = "arg"]
                  w == a.v
      <4>1. DOMAIN r = SendFields /\ r.cstring = st.cstring /\ r.sources = 1 /\ r.strip = FALSE
        <5>1. {"sources", "cstring", "strip"} \subseteq DOMAIN st
          BY <3>2 DEF SendFields
        <5>2. DOMAIN r = DOMAIN st /\ r.cstring = st.cstring /\ r.strip = st.strip /\ r.sources = st.sources + 1
          BY <5>1
        <5>3. st.sources + 1 = 1
          BY <3>2
        <5>. QED  BY <3>2, <5>2, <5>3, Zenon
      <4>. HIDE DEF r, w
      <4>2. DOMAIN t = SendFields /\ t.cstring = st.cstring /\ t.sources = 1 /\ t.strip = FALSE /\ t.from = "arg"
        BY <4>1 DEF SendFields
      <4>. HIDE DEF t
      <4>3. st' = [t EXCEPT !.data = w]
        BY <2>1, <3>1, Zenon DEF r, t, w
      <4>4. /\ DOMAIN st' = SendFields /\ st'.cstring = st.cstring /\ st'.sources = 1 /\ st'.strip = FALSE
            /\ st'.from = "arg" /\ st'.data = w
        BY <4>2, <4>3 DEF SendFields
      <4>. QED  BY <4>4, Zenon DEF w
    <3>. QED  BY <2>1, <2>2, <3>2, <3>3 DEF StringSeen
  <2>3. CASE cmd # "send"
    <3>1. Takes(a) = pass_arg(a)
      BY <1>1, <2>3 DEF Takes, IsPass
    <3>2. a.o \in DOMAIN PatternFlag /\ PatternFlag[a.o] \in {"EXACT", "ERE"}
      <4>1. a.o \in {"exact", "re", "bare"}
        BY <1>1, <2>3
      <4>. HIDE DEF a
      <4>. QED  BY <4>1 DEF PatternFlag
    <3>3. pass_arg(a) = [st EXCEPT !.pattern = a.v, !.flags = @ \cup {PatternFlag[a.o]}]
      BY <3>2, Zenon DEF pass_arg
    <3>4. st.cstring /\ DOMAIN st = PassFields /\ st.flags \subseteq {"EXIT"}
      BY <2>3 DEF CStringSeen
    <3>5. /\ DOMAIN st' = PassFields /\ st'.cstring = st.cstring /\ st'.pattern = a.v
          /\ st'.flags = st.flags \cup {PatternFlag[a.o]}
      BY <2>1, <3>1, <3>3, <3>4 DEF PassFields
    <3>6. st'.flags \ {"EXIT"} = {PatternFlag[a.o]}
      BY <3>2, <3>4, <3>5
    <3>. QED  BY <2>1, <2>3, <3>2, <3>4, <3>5, <3>6 DEF StringSeen
  <2>. QED  BY <2>1, <2>2, <2>3
<1>. QED  BY <1>4, <1>5

\* Nothing is wrong with such a command line: the conversion starts.
LEMMA StringChecked ==
    ASSUME line \in CommandLines, HasEscapes, phase = "args", i = 3, StringSeen(line.args[2].v), CheckArgs
    PROVE  phase' = "unesc" /\ st' = st /\ src' = line.args[2].v /\ dst' = <<>>
<1>. DEFINE v == line.args[2].v
            cmd == line.cmd
<1>1. cmd \in {"expect", "interact", "send"} /\ v # NULL /\ Len(line.args) = 2
  BY EscapeLine
<1>2. ~ Refused
  <2>1. CASE cmd = "send"
    BY <1>1, <2>1 DEF Refused, SendRefused, StringSeen
  <2>2. CASE cmd = "expect"
    <3>1. PICK f \in {"EXACT", "ERE"} : st.flags \ {"EXIT"} = {f}
      BY <2>2 DEF StringSeen
    <3>2. st.flags \cap Kinds = {f}
      BY <3>1 DEF Kinds
    <3>3. Cardinality({f}) = 1
      BY FS_Singleton
    <3>4. Exclusive
      BY <3>2, <3>3 DEF Exclusive
    <3>5. "NEWLINE" \notin st.flags
      BY <3>1
    <3>. QED  BY <2>2, <3>4, <3>5 DEF Refused, PassRefused
  <2>3. CASE cmd = "interact"
    BY <2>3 DEF Refused, PassRefused
  <2>. QED  BY <1>1, <2>1, <2>2, <2>3
<1>3. HasText /\ Text = v /\ st.cstring
  BY <1>1 DEF HasText, Text, IsPass, StringSeen
<1>4. phase' = "unesc" /\ UnescStart(Text) /\ UNCHANGED st
  BY <1>2, <1>3, Zenon DEF CheckArgs
<1>. QED  BY <1>3, <1>4 DEF UnescStart

\* The turns of strunesc() keep the meaning of the string.
LEMMA CStringUnesc ==
    ASSUME line \in CommandLines, HasEscapes, phase = "unesc", StringSeen(line.args[2].v),
           src \in Seq(Byte), dst \in Seq(0 .. 255), dst \o Meaning(src) = Meaning(line.args[2].v), Unesc
    PROVE  CStringAt(line.args[2].v)'
<1>. DEFINE v == line.args[2].v
<1>1. src # <<>> /\ UnescTurn(src).n > 0
  BY DEF Unesc, UnescStep, UnescGoesOn
<1>2. /\ dst' = Append(dst, UnescTurn(src).c) /\ src' = Advance(src, UnescTurn(src).n)
      /\ line' = line /\ phase' = phase /\ st' = st
  BY DEF Unesc, UnescStep
<1>3. /\ dst' \in Seq(0 .. 255) /\ src' \in Seq(Byte)
      /\ dst' \o Meaning(src') = dst \o Meaning(src)
  BY <1>1, <1>2, UnescMeans
<1>4. StringSeen(v)'
  BY <1>2 DEF StringSeen
<1>5. phase' = "unesc" /\ dst' \o Meaning(src') = Meaning(v)
  BY <1>2, <1>3, Zenon
<1>6. v' = v
  BY <1>2
<1>. HIDE DEF v
<1>7. CStringAt(v)'
  BY <1>3, <1>4, <1>5, <1>6, Zenon DEF CStringAt
<1>. QED  BY <1>7 DEF v

\* strunesc() returns the meaning, or gives up where there is none; a pattern
\* with a NUL is refused.
LEMMA CStringUnescaped ==
    ASSUME line \in CommandLines, HasEscapes, phase = "unesc", StringSeen(line.args[2].v),
           src \in Seq(Byte), dst \in Seq(0 .. 255), dst \o Meaning(src) = Meaning(line.args[2].v), Unescaped
    PROVE  \/ phase' = "usage" /\ BadText(line.args[2].v)
           \/ phase' = "text" /\ TextSeen(line.args[2].v)'
<1>. DEFINE v == line.args[2].v
            m == Meaning(v)
<1>1. line.cmd \in {"expect", "interact", "send"} /\ (IsPass(line.cmd) <=> line.cmd # "send")
  BY EscapeLine DEF IsPass
<1>2. line' = line
  BY DEF Unescaped
<1>3. CASE UnescFails
  <2>1. src # <<>> /\ ~ (UnescTurn(src).n > 0)
    BY <1>3 DEF UnescFails
  <2>2. m = Append(dst, -1)
    BY <2>1, UnescMeans
  <2>. HIDE DEF m
  <2>3. Len(dst) + 1 \in DOMAIN m /\ m[Len(dst) + 1] = -1
    BY <2>2
  <2>4. phase' = "usage"
    BY <1>3 DEF Unescaped
  <2>. QED  BY <2>3, <2>4, Zenon DEF BadText, m
<1>4. CASE ~ UnescFails
  <2>1. src = <<>>
    BY <1>4 DEF Unescaped
  <2>2. m = dst
    <3>1. Meaning(src) = <<>>
      BY <2>1, MeaningType
    <3>2. dst \o <<>> = dst
      OBVIOUS
    <3>. QED  BY <3>1, <3>2
  <2>. HIDE DEF m, v
  <2>3. CASE line.cmd # "send" /\ \E k \in DOMAIN dst : dst[k] = NUL
    <3>1. phase' = "usage"
      BY <1>1, <2>3 DEF Unescaped
    <3>2. BadText(v)
      BY <2>2, <2>3, Zenon DEF BadText, m
    <3>. QED  BY <3>1, <3>2 DEF v
  <2>4. CASE ~ (line.cmd # "send" /\ \E k \in DOMAIN dst : dst[k] = NUL)
    <3>1. /\ phase' = "text"
          /\ st' = IF line.cmd = "send" THEN [st EXCEPT !.data = dst] ELSE [st EXCEPT !.pattern = dst]
      BY <1>1, <1>4, <2>4 DEF Unescaped
    <3>2. ASSUME line.cmd = "send" PROVE st'.data = dst
      BY <3>1, <3>2 DEF StringSeen, SendFields
    <3>3. ASSUME line.cmd # "send" PROVE st'.pattern = dst /\ "GLOB" \notin st'.flags
      <4>1. DOMAIN st = PassFields /\ st' = [st EXCEPT !.pattern = dst]
        BY <3>1, <3>3 DEF StringSeen
      <4>2. st'.pattern = dst /\ st'.flags = st.flags
        BY <4>1 DEF PassFields
      <4>3. "GLOB" \notin st.flags
        BY <3>3 DEF StringSeen
      <4>. QED  BY <4>2, <4>3
    <3>4. (m \in Seq(0 .. 255))' /\ m' = m
      BY <1>2, <2>2 DEF m, v
    <3>5. TextSeen(v)'
      BY <1>2, <2>2, <2>4, <3>2, <3>3, <3>4, Zenon DEF TextSeen, m
    <3>. QED  BY <3>1, <3>5 DEF v
  <2>. QED  BY <2>3, <2>4
<1>. QED  BY <1>3, <1>4

\* The last check.
LEMMA CStringChecked ==
    ASSUME line \in CommandLines, HasEscapes, phase = "text", TextSeen(line.args[2].v), CheckText
    PROVE  \/ phase' = "usage" /\ BadText(line.args[2].v)
           \/ /\ phase' = "build" /\ ~ BadText(line.args[2].v)
              /\ Meaning(line.args[2].v) = IF line.cmd = "send" THEN st'.data ELSE st'.pattern
<1>. DEFINE v == line.args[2].v
            m == Meaning(v)
<1>1. line.cmd \in {"expect", "interact", "send"} /\ (IsPass(line.cmd) <=> line.cmd # "send")
  BY EscapeLine DEF IsPass
<1>2. m \in Seq(0 .. 255) /\ m = (IF line.cmd = "send" THEN st.data ELSE st.pattern)
  BY DEF TextSeen
<1>3. ~ (\E k \in DOMAIN m : m[k] = -1)
  <2>. HIDE DEF m
  <2>0. m \in Seq(0 .. 255)
    BY <1>2
  <2>1. \A k \in DOMAIN m : m[k] \in 0 .. 255
    BY <2>0, ElementsOf, Zenon
  <2>2. -1 \notin 0 .. 255
    OBVIOUS
  <2>. QED  BY <2>1, <2>2, Zenon
<1>4. line.cmd # "send" => "GLOB" \notin st.flags /\ ~ (\E k \in DOMAIN m : m[k] = NUL)
  BY Zenon DEF TextSeen
<1>5. BadText(v) <=> TooShortOrLong
  <2>1. TooShortOrLong <=> (line.cmd = "send" /\ Len(m) > MaxSend) \/ (line.cmd # "send" /\ m = <<>>)
    BY <1>2, Zenon DEF TooShortOrLong
  <2>. QED  BY <1>3, <1>4, <2>1, Zenon DEF BadText, m
<1>6. st' = st
  BY DEF CheckText
<1>7. CASE TooShortOrLong
  <2>1. phase' = "usage"
    BY <1>7 DEF CheckText
  <2>. QED  BY <1>5, <1>7, <2>1
<1>8. CASE ~ TooShortOrLong
  <2>1. phase' = "build"
    BY <1>1, <1>4, <1>8 DEF CheckText
  <2>. QED  BY <1>2, <1>5, <1>6, <1>8, <2>1
<1>. QED  BY <1>7, <1>8

\* No step of getargs() leaves these states.
LEMMA CStringNext == CStringInv /\ [getargs]_argVars => CStringInv'
<1>. SUFFICES ASSUME CStringInv, [getargs]_argVars PROVE CStringInv'
  OBVIOUS
<1>0. line \in CommandLines
  BY DEF CStringInv
<1>1. CASE UNCHANGED argVars
  <2>1. /\ line' = line /\ i' = i /\ st' = st /\ phase' = phase /\ src' = src /\ dst' = dst
    BY <1>1 DEF argVars
  <2>2. ASSUME HasEscapes PROVE CStringAt(line.args[2].v)'
    BY <2>1, <2>2 DEF CStringInv, CStringAt, CStringSeen, StringSeen, TextSeen, BadText
  <2>3. HasEscapes' <=> HasEscapes
    BY <2>1 DEF HasEscapes
  <2>. QED  BY <1>0, <2>1, <2>2, <2>3 DEF CStringInv
<1>2. CASE getargs
  <2>1. line' = line /\ line' \in CommandLines
    BY <1>0, <1>2 DEF getargs, GetArg, CheckArgs, Unesc, Unescaped, CheckText, GlobLoop, GlobDone
  <2>2. HasEscapes' <=> HasEscapes
    BY <2>1 DEF HasEscapes
  <2>. SUFFICES ASSUME HasEscapes PROVE CStringAt(line.args[2].v)'
    BY <2>1, <2>2 DEF CStringInv
  <2>. DEFINE v == line.args[2].v
  <2>3. v' = v /\ BadText(v)' = BadText(v) /\ v \in Seq(Byte) /\ Len(line.args) = 2
    BY <1>0, <2>1, EscapeLine DEF BadText
  <2>4. CStringAt(v)
    BY DEF CStringInv
  <2>5. CASE phase = "args" /\ i = 1 /\ st = SubCommand(line.cmd)
    <3>1. GetArg
      BY <1>2, <2>3, <2>5 DEF getargs, CheckArgs, Unesc, Unescaped, CheckText, GlobLoop, GlobDone
    <3>2. phase' = "args" /\ i' = 2 /\ CStringSeen'
      BY <1>0, <2>5, <3>1, CStringTaken
    <3>. QED  BY <3>2 DEF CStringAt
  <2>6. CASE phase = "args" /\ i = 2 /\ CStringSeen
    <3>1. GetArg
      BY <1>2, <2>3, <2>6 DEF getargs, CheckArgs, Unesc, Unescaped, CheckText, GlobLoop, GlobDone
    <3>2. \/ phase' = "args" /\ i' = 3 /\ StringSeen(v)'
          \/ phase' = "usage" /\ line.cmd = "expect" /\ v = <<>>
      BY <1>0, <2>6, <3>1, StringTaken
    <3>3. ASSUME line.cmd = "expect", v = <<>> PROVE BadText(v)
      <4>1. Meaning(v) = <<>>
        BY <2>3, <3>3, MeaningType
      <4>. QED  BY <3>3, <4>1 DEF BadText
    <3>. QED  BY <2>3, <3>2, <3>3 DEF CStringAt
  <2>7. CASE phase = "args" /\ i = 3 /\ StringSeen(v)
    <3>1. CheckArgs
      BY <1>2, <2>3, <2>7 DEF getargs, GetArg, Unesc, Unescaped, CheckText, GlobLoop, GlobDone
    <3>2. phase' = "unesc" /\ st' = st /\ src' = v /\ dst' = <<>>
      BY <1>0, <2>7, <3>1, StringChecked
    <3>3. StringSeen(v)'
      BY <2>1, <2>7, <3>2 DEF StringSeen
    <3>4. <<>> \in Seq(0 .. 255) /\ <<>> \o Meaning(v) = Meaning(v)
      <4>1. Meaning(v) \in Seq(Int)
        BY <2>3, MeaningType
      <4>. QED  BY <4>1
    <3>. QED  BY <2>3, <3>2, <3>3, <3>4 DEF CStringAt
  <2>8. CASE /\ phase = "unesc" /\ StringSeen(v)
             /\ src \in Seq(Byte) /\ dst \in Seq(0 .. 255) /\ dst \o Meaning(src) = Meaning(v)
    <3>1. Unesc \/ Unescaped
      BY <1>2, <2>8 DEF getargs, GetArg, CheckArgs, CheckText, GlobLoop, GlobDone
    <3>2. CASE Unesc
      BY <1>0, <2>8, <3>2, CStringUnesc
    <3>3. CASE Unescaped
      <4>1. \/ phase' = "usage" /\ BadText(v)
            \/ phase' = "text" /\ TextSeen(v)'
        BY <1>0, <2>8, <3>3, CStringUnescaped
      <4>. QED  BY <2>3, <4>1 DEF CStringAt
    <3>. QED  BY <3>1, <3>2, <3>3
  <2>9. CASE phase = "text" /\ TextSeen(v)
    <3>1. CheckText
      BY <1>2, <2>9 DEF getargs, GetArg, CheckArgs, Unesc, Unescaped, GlobLoop, GlobDone
    <3>2. \/ phase' = "usage" /\ BadText(v)
          \/ phase' = "build" /\ ~ BadText(v) /\ Meaning(v) = IF line.cmd = "send" THEN st'.data ELSE st'.pattern
      BY <1>0, <2>9, <3>1, CStringChecked
    <3>. QED  BY <2>1, <2>3, <3>2 DEF CStringAt
  <2>10. CASE phase \in {"usage", "build"}
    BY <1>2, <2>10 DEF getargs, GetArg, CheckArgs, Unesc, Unescaped, CheckText, GlobLoop, GlobDone
  <2>. QED  BY <2>4, <2>5, <2>6, <2>7, <2>8, <2>9, <2>10 DEF CStringAt
<1>. QED  BY <1>1, <1>2

\* -cstring: for every string without NUL, what getargs() accepts as a pattern or
\* as data to send is what the list above strunesc() says it means, and it
\* refuses the string only when it has no meaning, is empty, has a NUL or is too
\* long.
THEOREM StringsMean == ArgsSpec => []CStringMeans
<1>1. CStringInv => CStringMeans
  <2>. SUFFICES ASSUME CStringInv, phase \in {"usage", "build"}, HasEscapes
                PROVE  IF phase = "usage" THEN BadText(line.args[2].v)
                       ELSE /\ ~ BadText(line.args[2].v)
                            /\ Meaning(line.args[2].v) = IF line.cmd = "send" THEN st.data ELSE st.pattern
    BY Zenon DEF CStringMeans, BadText
  <2>. QED  BY DEF CStringInv, CStringAt
<1>. QED  BY <1>1, CStringInit, CStringNext, PTL DEF ArgsSpec

-----------------------------------------------------------------------------
(* What cli_dump_cstring() prints *)

\* x is read as the byte c, whatever follows, and has no quote.
Spells(x, c) ==
    /\ x \in Seq(Byte \ {39}) /\ x # <<>>
    /\ \A r \in Seq(Byte) : UnescTurn(x \o r) = Turn(Len(x), c)

\* The bytes of a string that another one follows.
LEMMA AtJoined ==
    ASSUME NEW x \in Seq(Byte), NEW r \in Seq(Byte), NEW k \in Nat, k < Len(x)
    PROVE  At(x \o r, k) = x[k + 1]
<1>1. x \o r \in Seq(Byte) /\ k < Len(x \o r) /\ k + 1 \in 1 .. Len(x)
  BY Joined
<1>2. (x \o r)[k + 1] = x[k + 1]
  BY <1>1, Joined
<1>. QED  BY <1>1, <1>2 DEF At

\* Short strings.
LEMMA Words ==
    ASSUME NEW S
    PROVE  /\ \A a \in S : <<a>> \in Seq(S) /\ <<a>> # <<>> /\ Len(<<a>>) = 1 /\ <<a>>[1] = a
           /\ \A a, b \in S :
                 <<a, b>> \in Seq(S) /\ <<a, b>> # <<>> /\ Len(<<a, b>>) = 2 /\ <<a, b>>[1] = a /\ <<a, b>>[2] = b
           /\ \A a, b, c, d \in S :
                 /\ <<a, b, c, d>> \in Seq(S) /\ <<a, b, c, d>> # <<>> /\ Len(<<a, b, c, d>>) = 4
                 /\ <<a, b, c, d>>[1] = a /\ <<a, b, c, d>>[2] = b /\ <<a, b, c, d>>[3] = c /\ <<a, b, c, d>>[4] = d
OBVIOUS

\* A byte that is no backslash spells itself.
LEMMA SpellsPlain ==
    ASSUME NEW c \in Byte \ {39}, c # Backslash
    PROVE  Spells(<<c>>, c)
<1>1. <<c>> \in Seq(Byte \ {39}) /\ <<c>> \in Seq(Byte) /\ <<c>> # <<>> /\ Len(<<c>>) = 1 /\ <<c>>[1] = c
  BY Words
<1>. DEFINE x == <<c>>
<1>. HIDE DEF x
<1>2. ASSUME NEW r \in Seq(Byte) PROVE UnescTurn(x \o r) = Turn(Len(x), c)
  <2>0. x \in Seq(Byte) /\ Len(x) = 1 /\ x[1] = c /\ 0 < Len(x) /\ 0 \in Nat
    BY <1>1 DEF x
  <2>1. At(x \o r, 0) = x[0 + 1]
    BY <2>0, AtJoined
  <2>2. At(x \o r, 0) = c
    BY <2>0, <2>1
  <2>. QED  BY <2>0, <2>2, Zenon DEF UnescTurn
<1>. QED  BY <1>1, <1>2, Zenon DEF Spells, x

\* A backslash and the letter of a native escape.
LEMMA SpellsNative ==
    ASSUME NEW e \in DOMAIN Native
    PROVE  Spells(<<Backslash, e>>, Native[e])
<1>. DEFINE x == <<Backslash, e>>
<1>1. e \in Byte \ {39} /\ Backslash \in Byte \ {39}
  BY DEF Native, Backslash, Byte
<1>2. x \in Seq(Byte \ {39}) /\ x \in Seq(Byte) /\ x # <<>> /\ Len(x) = 2 /\ x[1] = Backslash /\ x[2] = e
  BY <1>1, Words
<1>. HIDE DEF x
<1>3. ASSUME NEW r \in Seq(Byte) PROVE UnescTurn(x \o r) = Turn(Len(x), Native[e])
  <2>1. At(x \o r, 0) = x[0 + 1] /\ At(x \o r, 1) = x[1 + 1]
    BY <1>2, AtJoined
  <2>2. At(x \o r, 0) = Backslash /\ At(x \o r, 1) = e
    BY <1>2, <2>1
  <2>. QED  BY <1>2, <2>2, Zenon DEF UnescTurn, Escape
<1>. QED  BY <1>2, <1>3, Zenon DEF Spells, x

\* Four characters after which an escape is complete.
LEMMA SpellsFour ==
    ASSUME NEW a \in Byte \ {39}, NEW b \in Byte \ {39}, NEW d \in Byte \ {39}, NEW c,
           \A s \in Seq(Byte) : At(s, 1) = a /\ At(s, 2) = b /\ At(s, 3) = d => Escape(s) = Turn(4, c)
    PROVE  Spells(<<Backslash, a, b, d>>, c)
<1>. DEFINE x == <<Backslash, a, b, d>>
<1>1. Backslash \in Byte \ {39}
  BY DEF Backslash, Byte
<1>2. /\ x \in Seq(Byte \ {39}) /\ x \in Seq(Byte) /\ x # <<>> /\ Len(x) = 4
      /\ x[1] = Backslash /\ x[2] = a /\ x[3] = b /\ x[4] = d
  BY <1>1, Words
<1>. HIDE DEF x
<1>3. ASSUME NEW r \in Seq(Byte) PROVE UnescTurn(x \o r) = Turn(Len(x), c)
  <2>0. \A k \in 0 .. 3 : k \in Nat /\ k < Len(x)
    BY <1>2
  <2>1. \A k \in 0 .. 3 : At(x \o r, k) = x[k + 1]
    BY <1>2, <2>0, AtJoined, Zenon
  <2>2. At(x \o r, 0) = Backslash /\ At(x \o r, 1) = a /\ At(x \o r, 2) = b /\ At(x \o r, 3) = d
    BY <1>2, <2>1
  <2>3. x \o r \in Seq(Byte)
    BY <1>2
  <2>. QED  BY <1>2, <2>2, <2>3, Zenon DEF UnescTurn
<1>. QED  BY <1>2, <1>3, Zenon DEF Spells, x

\* The value of a hexadecimal digit that was printed.
LEMMA HexCharValue ==
    ASSUME NEW d \in 0 .. 15
    PROVE  isxdigit(HexChar(d)) /\ Digit(HexChar(d)) = d /\ HexChar(d) \in Byte \ {39}
BY DEF isxdigit, HexChar, Digit, toupper, Byte

\* Two hexadecimal digits.
LEMMA SpellsHex ==
    ASSUME NEW c \in Byte
    PROVE  Spells(HexChars(c), c)
<1>. DEFINE a == HexChar(c \div 16)
            b == HexChar(c % 16)
<1>1. c \div 16 \in 0 .. 15 /\ c % 16 \in 0 .. 15 /\ 16 * (c \div 16) + (c % 16) = c
  BY DEF Byte
<1>2. /\ isxdigit(a) /\ isxdigit(b) /\ a \in Byte \ {39} /\ b \in Byte \ {39}
      /\ Digit(a) = c \div 16 /\ Digit(b) = c % 16
  BY <1>1, HexCharValue
<1>3. HexChars(c) = <<Backslash, 120, a, b>>
  BY DEF HexChars
<1>4. 16 * Digit(a) + Digit(b) = c
  BY <1>1, <1>2, Zenon
<1>. HIDE DEF a, b
<1>5. 120 \in Byte \ {39} /\ 120 \notin DOMAIN Native /\ 120 # 99
  BY DEF Byte, Native
<1>6. ASSUME NEW s \in Seq(Byte), At(s, 1) = 120, At(s, 2) = a, At(s, 3) = b PROVE Escape(s) = Turn(4, c)
  <2>1. Escape(s) = HexEscape(s)
    BY <1>5, <1>6 DEF Escape
  <2>. QED  BY <1>2, <1>4, <1>6, <2>1, Zenon DEF HexEscape
<1>. QED  BY <1>2, <1>3, <1>5, <1>6, SpellsFour

\* The quote, in octal.
LEMMA SpellsQuote == Spells(OctChars(39), 39)
<1>1. OctChars(39) = <<Backslash, 48, 52, 55>>
  BY DEF OctChars
<1>2. /\ 48 \in Byte \ {39} /\ 52 \in Byte \ {39} /\ 55 \in Byte \ {39}
      /\ 48 \notin DOMAIN Native /\ 48 # 99 /\ 48 # 120 /\ isodigit(48) /\ isodigit(52) /\ isodigit(55)
      /\ Digit(48) = 0 /\ Digit(52) = 4 /\ Digit(55) = 7
  BY DEF Byte, Native, isodigit, Digit
<1>3. ASSUME NEW s \in Seq(Byte), At(s, 1) = 48, At(s, 2) = 52, At(s, 3) = 55 PROVE Escape(s) = Turn(4, 39)
  <2>1. Escape(s) = OctalEscape(s)
    BY <1>2, <1>3 DEF Escape
  <2>2. Octal2(s) = 4 /\ Octal3(s) = 39
    BY <1>2, <1>3 DEF Octal2, Octal3
  <2>. QED  BY <1>2, <1>3, <2>1, <2>2 DEF OctalEscape
<1>. QED  BY <1>1, <1>2, <1>3, SpellsFour

\* The characters that have a native escape: 7 to 13.
LEMMA NativeCovers ==
    ASSUME NEW c \in 7 .. 13
    PROVE  \E e \in DOMAIN Native : Native[e] = c
<1>1. DOMAIN Native = {92, 97, 98, 101, 69, 102, 110, 114, 116, 118}
  BY DEF Native
<1>2. /\ Native[97] = 7 /\ Native[98] = 8 /\ Native[116] = 9 /\ Native[110] = 10 /\ Native[118] = 11
      /\ Native[102] = 12 /\ Native[114] = 13
  BY DEF Native
<1>3. c = 7 \/ c = 8 \/ c = 9 \/ c = 10 \/ c = 11 \/ c = 12 \/ c = 13
  OBVIOUS
<1>. QED  BY <1>1, <1>2, <1>3

\* What is printed for a byte is read as this byte.
LEMMA DumpSpells ==
    ASSUME NEW c \in Byte
    PROVE  Spells(DumpByte(c), c)
<1>1. CASE c = 39
  <2>1. DumpByte(c) = OctChars(39)
    BY <1>1 DEF DumpByte, Backslash
  <2>. QED  BY <1>1, <2>1, SpellsQuote, Zenon
<1>2. CASE c = Backslash
  <2>1. DumpByte(c) = <<Backslash, Backslash>>
    BY <1>2 DEF DumpByte, Backslash
  <2>2. Backslash \in DOMAIN Native /\ Native[Backslash] = Backslash
    BY DEF Native, Backslash
  <2>. QED  BY <1>2, <2>1, <2>2, SpellsNative, Zenon
<1>3. CASE c \in (32 .. 126) \ {39, Backslash}
  <2>1. DumpByte(c) = <<c>>
    BY <1>3 DEF DumpByte, Backslash
  <2>2. c \in Byte \ {39} /\ c # Backslash
    BY <1>3
  <2>. QED  BY <2>1, <2>2, SpellsPlain, Zenon
<1>4. CASE c \in 7 .. 13
  <2>. DEFINE e == CHOOSE e \in DOMAIN Native : Native[e] = c
  <2>1. DumpByte(c) = <<Backslash, e>>
    BY <1>4 DEF DumpByte, Backslash
  <2>2. e \in DOMAIN Native /\ Native[e] = c
    BY <1>4, NativeCovers, Zenon
  <2>. HIDE DEF e
  <2>. QED  BY <2>1, <2>2, SpellsNative, Zenon
<1>5. CASE c # 39 /\ c # Backslash /\ c \notin 32 .. 126 /\ c \notin 7 .. 13
  <2>1. DumpByte(c) = HexChars(c)
    BY <1>5 DEF DumpByte
  <2>. QED  BY <2>1, SpellsHex, Zenon
<1>. QED  BY <1>1, <1>2, <1>3, <1>4, <1>5

\* What is printed for the bytes of a text, one by one.
Dumps(t) == [k \in DOMAIN t |-> DumpByte(t[k])]

\* It has no quote.
LEMMA DumpsType ==
    ASSUME NEW t \in Seq(Byte)
    PROVE  /\ Dumps(t) \in Seq(Seq(Byte \ {39})) /\ Dumps(t) \in Seq(Seq(Byte)) /\ Len(Dumps(t)) = Len(t)
           /\ FlattenSeq(Dumps(t)) \in Seq(Byte \ {39}) /\ FlattenSeq(Dumps(t)) \in Seq(Byte)
<1>. DEFINE B == Byte \ {39}
<1>1. Len(t) \in Nat /\ DOMAIN t = 1 .. Len(t) /\ \A k \in DOMAIN t : t[k] \in Byte
  OBVIOUS
<1>2. \A k \in DOMAIN t : DumpByte(t[k]) \in Seq(B)
  BY <1>1, DumpSpells, Zenon DEF Spells
<1>3. B \subseteq Byte
  OBVIOUS
<1>. HIDE DEF B
<1>. DEFINE W == Seq(B)
            X == Seq(Byte)
<1>4. W \subseteq X
  BY <1>3, SeqSubset
<1>5. Dumps(t) \in [1 .. Len(t) -> W]
  BY <1>1, <1>2, Zenon DEF Dumps
<1>6. FlattenSeq(Dumps(t)) \in X /\ FlattenSeq(Dumps(t)) \in W /\ Dumps(t) \in Seq(W) /\ Dumps(t) \in Seq(X) /\ Len(Dumps(t)) = Len(t)
  <2>1. Dumps(t) \in Seq(W) /\ Len(Dumps(t)) = Len(t)
    <3>. HIDE DEF W
    <3>. QED  BY <1>1, <1>5, IsSequence
  <2>2. Dumps(t) \in Seq(X)
    <3>. HIDE DEF W, X
    <3>. QED  BY <1>4, <2>1, SeqSubset
  <2>3. FlattenSeq(Dumps(t)) \in W
    BY <2>1, FlattenType
  <2>. QED  BY <1>4, <2>1, <2>2, <2>3, Zenon
<1>. QED  BY <1>6, Zenon DEF W, X, B

\* One byte more.
LEMMA DumpsAppend ==
    ASSUME NEW t \in Seq(Byte), NEW c \in Byte
    PROVE  FlattenSeq(Dumps(Append(t, c))) = FlattenSeq(Dumps(t)) \o DumpByte(c)
<1>. DEFINE u == Append(t, c)
            d == Dumps(t)
            x == DumpByte(c)
            X == Seq(Byte)
<1>1. /\ u \in Seq(Byte) /\ Len(u) = Len(t) + 1 /\ Len(t) \in Nat
      /\ u[Len(t) + 1] = c /\ \A k \in 1 .. Len(t) : u[k] = t[k]
  BY Appended
<1>2. d \in Seq(X) /\ Len(d) = Len(t) /\ Dumps(u) \in Seq(X) /\ Len(Dumps(u)) = Len(u)
  BY <1>1, DumpsType
<1>3. x \in X
  <2>1. x \in Seq(Byte \ {39}) /\ Byte \ {39} \subseteq Byte
    BY DumpSpells DEF Spells
  <2>. HIDE DEF x
  <2>. QED  BY <2>1, SeqSubset
<1>4. \A k \in 1 .. Len(t) : Dumps(u)[k] = DumpByte(t[k]) /\ d[k] = DumpByte(t[k])
  <2>. TAKE k \in 1 .. Len(t)
  <2>1. k \in DOMAIN u /\ k \in DOMAIN t
    BY <1>1
  <2>. QED  BY <1>1, <2>1, Zenon DEF Dumps
<1>5. Dumps(u)[Len(t) + 1] = x
  <2>1. Len(t) + 1 \in DOMAIN u
    BY <1>1
  <2>. QED  BY <1>1, <2>1, Zenon DEF Dumps
<1>. DEFINE y == Dumps(u)
<1>6. y = Append(d, x)
  <2>1. /\ y \in Seq(X) /\ Len(y) = Len(t) + 1 /\ \A k \in 1 .. Len(t) : y[k] = d[k]
        /\ y[Len(t) + 1] = x /\ d \in Seq(X) /\ Len(d) = Len(t) /\ Len(t) \in Nat
    BY <1>1, <1>2, <1>4, <1>5, Zenon
  <2>. HIDE DEF y, d, x, X
  <2>2. /\ Append(d, x) \in Seq(X) /\ Len(Append(d, x)) = Len(d) + 1
        /\ Append(d, x)[Len(d) + 1] = x /\ \A k \in 1 .. Len(d) : Append(d, x)[k] = d[k]
    BY <1>3, <2>1, Appended
  <2>3. Len(y) = Len(Append(d, x))
    BY <2>1, <2>2
  <2>4. ASSUME NEW k \in 1 .. Len(y) PROVE y[k] = Append(d, x)[k]
    <3>1. k \in 1 .. Len(t) \/ k = Len(t) + 1
      BY <2>1
    <3>. QED  BY <2>1, <2>2, <3>1, Zenon
  <2>. QED  BY <2>1, <2>2, <2>3, <2>4, SameSeq
<1>. HIDE DEF y, d, x
<1>7. FlattenSeq(Append(d, x)) = FlattenSeq(d) \o x
  BY <1>2, <1>3, FlattenAppend
<1>. QED  BY <1>6, <1>7, Zenon DEF y, d, x, u

\* A byte that was printed means this byte.
LEMMA DumpMeans ==
    ASSUME NEW c \in Byte, NEW r \in Seq(Byte)
    PROVE  Meaning(DumpByte(c) \o r) = <<c>> \o Meaning(r)
<1>. DEFINE x == DumpByte(c)
            s == x \o r
<1>1. /\ x \in Seq(Byte \ {39}) /\ x # <<>> /\ UnescTurn(s) = Turn(Len(x), c)
  BY DumpSpells, Zenon DEF Spells
<1>2. x \in Seq(Byte)
  <2>1. Byte \ {39} \subseteq Byte
    OBVIOUS
  <2>. HIDE DEF x
  <2>. QED  BY <1>1, <2>1, SeqSubset
<1>. HIDE DEF x
<1>3. s \in Seq(Byte) /\ s # <<>> /\ Len(x) > 0 /\ Len(x) \in Nat /\ Len(s) >= Len(x)
  BY <1>1, <1>2
<1>4. SubSeq(s, Len(x) + 1, Len(s)) = r
  BY <1>2
<1>. HIDE DEF s
<1>5. UnescTurn(s).n = Len(x) /\ UnescTurn(s).c = c
  BY <1>1 DEF Turn
<1>6. MeaningRest(s) = Advance(s, Len(x)) /\ MeaningOut(s) = <<c>>
  BY <1>3, <1>5, UnescTakes
<1>7. Advance(s, Len(x)) = r
  BY <1>3, <1>4 DEF Advance
<1>. QED  BY <1>3, <1>6, <1>7, MeaningTurn, Zenon DEF s, x

\* A text that was printed means the text, whatever follows it.
LEMMA DumpsMean ==
    ASSUME NEW t \in Seq(Byte), NEW r \in Seq(Byte)
    PROVE  Meaning(FlattenSeq(Dumps(t)) \o r) = t \o Meaning(r)
<1>. DEFINE F(u) == FlattenSeq(Dumps(u))
            T == {n \in Nat : \A u, x \in Seq(Byte) : Len(u) = n => Meaning(F(u) \o x) = u \o Meaning(x)}
<1>0. Byte \subseteq Int
  BY ByteInt
<1>1. 0 \in T
  <2>. SUFFICES ASSUME NEW u \in Seq(Byte), NEW x \in Seq(Byte), Len(u) = 0
                PROVE  Meaning(F(u) \o x) = u \o Meaning(x)
    OBVIOUS
  <2>1. u = <<>>
    OBVIOUS
  <2>2. Dumps(<<>>) = <<>>
    <3>1. <<>> \in Seq(Byte) /\ Len(<<>>) = 0
      OBVIOUS
    <3>2. Dumps(<<>>) \in Seq(Seq(Byte)) /\ Len(Dumps(<<>>)) = 0
      BY <3>1, DumpsType
    <3>. QED  BY <3>2
  <2>3. F(u) = <<>>
    BY <2>1, <2>2, FlattenSmall, Zenon
  <2>4. Meaning(x) \in Seq(Int)
    BY MeaningType
  <2>5. <<>> \o x = x /\ <<>> \o Meaning(x) = Meaning(x)
    BY <2>4
  <2>. QED  BY <2>1, <2>3, <2>5, Zenon
<1>2. ASSUME NEW n \in Nat, n \in T PROVE n + 1 \in T
  <2>0. n + 1 \in Nat
    OBVIOUS
  <2>. SUFFICES ASSUME NEW u \in Seq(Byte), NEW x \in Seq(Byte), Len(u) = n + 1
                PROVE  Meaning(F(u) \o x) = u \o Meaning(x)
    BY <2>0, ZenonT(60)
  <2>1. PICK w \in Seq(Byte), c \in Byte : u = Append(w, c) /\ Len(w) = n
    BY OneLess
  <2>. DEFINE d == DumpByte(c)
              y == d \o x
  <2>2. F(u) = F(w) \o d
    BY <2>1, DumpsAppend
  <2>3. F(w) \in Seq(Byte)
    BY DumpsType
  <2>4. d \in Seq(Byte)
    <3>1. d \in Seq(Byte \ {39}) /\ Byte \ {39} \subseteq Byte
      BY DumpSpells DEF Spells
    <3>. HIDE DEF d
    <3>. QED  BY <3>1, SeqSubset
  <2>5. y \in Seq(Byte)
    <3>. HIDE DEF d
    <3>. QED  BY <2>4
  <2>6. Meaning(F(w) \o y) = w \o Meaning(y)
    <3>1. \A a, b \in Seq(Byte) : Len(a) = n => Meaning(F(a) \o b) = a \o Meaning(b)
      BY <1>2
    <3>. HIDE DEF F, y
    <3>. QED  BY <2>1, <2>5, <3>1, Zenon
  <2>7. Grouped(F(w), d, x)
    <3>. HIDE DEF F, d
    <3>. QED  BY <2>3, <2>4, Group3
  <2>8. Meaning(y) = <<c>> \o Meaning(x)
    BY DumpMeans
  <2>9. Grouped(w, <<c>>, Meaning(x))
    <3>1. Meaning(x) \in Seq(Int) /\ w \in Seq(Int)
      BY <1>0, MeaningType, SeqSubset
    <3>2. <<c>> \in Seq(Int)
      BY <1>0
    <3>. QED  BY <3>1, <3>2, Group3
  <2>10. u = w \o <<c>>
    BY <2>1
  <2>. HIDE DEF F, d
  <2>. QED  BY <2>2, <2>6, <2>7, <2>8, <2>9, <2>10, Zenon DEF Grouped
<1>3. \A n \in Nat : n \in T
  <2>. HIDE DEF T
  <2>. QED  BY <1>1, <1>2, EveryNat
<1>4. Len(t) \in Nat
  OBVIOUS
<1>. QED  BY <1>3, <1>4

\* The word that is printed for a text means this text.
LEMMA DumpWord ==
    ASSUME NEW t \in Seq(Byte)
    PROVE  /\ ShellWord(FlattenSeq(Dumps(t))) = FlattenSeq(Dumps(t))
           /\ FlattenSeq(Dumps(t)) \in Seq(Byte) /\ Meaning(FlattenSeq(Dumps(t))) = t
<1>. DEFINE w == FlattenSeq(Dumps(t))
<1>1. w \in Seq(Byte \ {39}) /\ w \in Seq(Byte)
  BY DumpsType
<1>2. Meaning(w \o <<>>) = t \o Meaning(<<>>)
  <2>1. <<>> \in Seq(Byte)
    OBVIOUS
  <2>. QED  BY <2>1, DumpsMean
<1>. HIDE DEF w
<1>3. \A k \in DOMAIN w : w[k] # 39
  <2>. DEFINE B == Byte \ {39}
  <2>1. w \in Seq(B)
    BY <1>1
  <2>2. \A b \in B : b # 39
    OBVIOUS
  <2>. HIDE DEF B
  <2>3. \A k \in DOMAIN w : w[k] \in B
    BY <2>1, ElementsOf, Zenon
  <2>. QED  BY <2>2, <2>3, Zenon
<1>4. ShellWord(w) = w
  BY <1>3, Zenon DEF ShellWord
<1>5. w \o <<>> = w /\ t \o <<>> = t
  BY <1>1
<1>6. Meaning(<<>>) = <<>>
  BY <1>1, MeaningType
<1>. QED  BY <1>1, <1>2, <1>4, <1>5, <1>6, Zenon DEF w

\* `get -expect-buf': what it prints for a text is accepted by expect and makes it
\* wait for just that text, for every text.
THEOREM DumpIsAccepted == ArgsSpec => []DumpAccepted
<1>1. CStringInv => DumpAccepted
  <2>. SUFFICES ASSUME CStringInv, line.of # NULL
                PROVE  phase # "usage" /\ (phase = "build" => st.pattern = line.of)
    BY DEF DumpAccepted
  <2>. DEFINE t == line.of
              w == FlattenSeq(Dumps(t))
  <2>1. line \in CommandLines
    BY DEF CStringInv
  <2>2. t \in Seq(Byte) /\ t # <<>> /\ line = cli_dump_cstring(t)
    BY <2>1, PrintedAssumption
  <2>3. ShellWord(w) = w /\ w \in Seq(Byte) /\ Meaning(w) = t
    BY <2>2, DumpWord
  <2>4. line = [cmd |-> "expect",
                args |-> <<[o |-> "cstring", v |-> NULL], [o |-> "exact", v |-> w]>>, of |-> t]
    BY <2>2, <2>3, Zenon DEF cli_dump_cstring, Dumps
  <2>. HIDE DEF w, t
  <2>5. /\ line.cmd = "expect" /\ Len(line.args) = 2 /\ line.args[1].o = "cstring"
        /\ line.args[2].o = "exact" /\ line.args[2].v = w
    BY <2>4
  <2>6. w # NULL
    <3>1. w \in Seq(Int)
      BY <2>3, ByteInt, SeqSubset
    <3>. QED  BY <3>1, ArgumentsAssumption
  <2>7. HasEscapes
    BY <2>5, <2>6 DEF HasEscapes, CStringOpts
  <2>8. CStringAt(w)
    BY <2>5, <2>7 DEF CStringInv
  <2>9. ~ BadText(w)
    <3>1. \A k \in DOMAIN t : t[k] # -1 /\ t[k] # NUL
      <4>1. \A k \in DOMAIN t : t[k] \in Byte
        BY <2>2
      <4>. QED  BY <4>1 DEF Byte, NUL
    <3>. QED  BY <2>2, <2>3, <2>5, <3>1 DEF BadText
  <2>10. phase # "usage" /\ (phase = "build" => st.pattern = t)
    BY <2>3, <2>5, <2>8, <2>9 DEF CStringAt
  <2>. QED  BY <2>10 DEF t
<1>. QED  BY <1>1, CStringInit, CStringNext, PTL DEF ArgsSpec

-----------------------------------------------------------------------------
(* What glob2re() computes *)

\* A bracket expression whose end is known.
LEMMA BracketIs ==
    ASSUME NEW s \in Seq(Byte), NEW negs, NEW e \in Int,
           e \in (MembersFrom(s, negs) + 1) .. Len(s), s[e] = Close,
           \A k \in (MembersFrom(s, negs) + 1) .. (e - 1) : s[k] # Close
    PROVE  BracketAt(s, negs) =
              Atom(e, BracketAtom(SubSeq(s, MembersFrom(s, negs), e - 1), MembersFrom(s, negs) = 3))
<1>. DEFINE f == MembersFrom(s, negs)
            E == ClosedAt(s, negs)
<1>1. f \in {2, 3}
  BY DEF MembersFrom
<1>2. E = {k \in (f + 1) .. Len(s) : s[k] = Close}
  BY DEF ClosedAt
<1>. HIDE DEF f, E
<1>3. e \in E /\ E \subseteq Nat /\ Len(s) \in Nat
  BY <1>1, <1>2 DEF f
<1>4. Min(E) \in E /\ \A y \in E : Min(E) <= y
  BY <1>3, MinOf
<1>5. Min(E) = e
  <2>. DEFINE m == Min(E)
  <2>1. m \in (f + 1) .. Len(s) /\ s[m] = Close /\ m <= e
    BY <1>2, <1>3, <1>4
  <2>. HIDE DEF m
  <2>2. ~ (m \in (f + 1) .. (e - 1))
    BY <2>1, Zenon DEF f
  <2>3. m = e
    BY <1>1, <2>1, <2>2
  <2>. QED  BY <2>3 DEF m
<1>6. E # {}
  BY <1>3
<1>. QED  BY <1>5, <1>6, Zenon DEF BracketAt, f, E

\* A bracket expression without an end.
LEMMA BracketOpen ==
    ASSUME NEW s \in Seq(Byte), NEW negs,
           \A k \in (MembersFrom(s, negs) + 1) .. Len(s) : s[k] # Close
    PROVE  BracketAt(s, negs) = Atom(Len(s), Wrong)
<1>1. ClosedAt(s, negs) = {}
  BY DEF ClosedAt
<1>. QED  BY <1>1 DEF BracketAt

\* The atoms.
EreAll == {EreAtom(s).atom : s \in Seq(Byte)}
GlobAll(first) == {GlobAtom(s, first).atom : s \in Seq(Byte)}
Atoms == EreAll \cup GlobAll(TRUE) \cup GlobAll(FALSE)

\* A bracket expression takes something.
LEMMA BracketTakes ==
    ASSUME NEW s \in Seq(Byte), s # <<>>, NEW negs
    PROVE  BracketAt(s, negs).n \in Nat \ {0}
<1>. DEFINE E == ClosedAt(s, negs)
<1>1. Len(s) \in Nat \ {0}
  OBVIOUS
<1>2. CASE E = {}
  <2>1. BracketAt(s, negs).n = Len(s)
    BY <1>2 DEF BracketAt, Atom
  <2>. QED  BY <1>1, <2>1
<1>3. CASE E # {}
  <2>1. E \subseteq Nat \ {0}
    <3>1. MembersFrom(s, negs) \in {2, 3}
      BY DEF MembersFrom
    <3>. QED  BY <1>1, <3>1 DEF ClosedAt
  <2>2. Min(E) \in E
    <3>1. E \in SUBSET Nat
      BY <2>1
    <3>. HIDE DEF E
    <3>. QED  BY <1>3, <3>1, MinOf
  <2>3. BracketAt(s, negs).n = Min(E)
    BY <1>3 DEF BracketAt, Atom
  <2>. QED  BY <2>1, <2>2, <2>3
<1>. QED  BY <1>2, <1>3

\* What an atom of a glob is, in the order of glob2re().
LEMMA GlobAtomIs ==
    ASSUME NEW s \in Seq(Byte), s # <<>>, NEW first \in BOOLEAN
    PROVE  /\ s[1] = Star => GlobAtom(s, first) = Atom(1, Many(Byte))
           /\ s[1] = Question => GlobAtom(s, first) = Atom(1, One(Byte))
           /\ s[1] = Open => GlobAtom(s, first) = BracketAt(s, {Bang, Caret})
           /\ s[1] = Caret /\ first => GlobAtom(s, first) = Atom(1, Bol)
           /\ s[1] = Dollar /\ Len(s) = 1 => GlobAtom(s, first) = Atom(1, Eol)
           /\ s[1] = Backslash /\ Len(s) > 1 /\ s[2] \in {Backslash, Star, Question, Open, Close}
              => GlobAtom(s, first) = Atom(2, One({s[2]}))
           /\ s[1] = Backslash /\ ~ (Len(s) > 1 /\ s[2] \in {Backslash, Star, Question, Open, Close})
              => GlobAtom(s, first) = Atom(1, Wrong)
           /\ \/ s[1] \notin {Star, Question, Open, Caret, Dollar, Backslash}
              \/ s[1] = Caret /\ ~ first
              \/ s[1] = Dollar /\ Len(s) # 1
              => GlobAtom(s, first) = Atom(1, One({s[1]}))
<1>. DEFINE c == s[1]
<1>1. /\ Star # Question /\ Star # Open /\ Star # Caret /\ Star # Dollar /\ Star # Backslash
      /\ Question # Open /\ Question # Caret /\ Question # Dollar /\ Question # Backslash
      /\ Open # Caret /\ Open # Dollar /\ Open # Backslash
      /\ Caret # Dollar /\ Caret # Backslash /\ Dollar # Backslash
  BY DEF Star, Question, Open, Caret, Dollar, Backslash
<1>. QED  BY <1>1 DEF GlobAtom

\* What an atom of a regular expression is, without a * behind it.
LEMMA EreOneIs ==
    ASSUME NEW s \in Seq(Byte), s # <<>>
    PROVE  /\ s[1] = Open => EreOne(s) = BracketAt(s, {Caret})
           /\ s[1] = Dot => EreOne(s) = Atom(1, One(Byte))
           /\ s[1] = Caret => EreOne(s) = Atom(1, Bol)
           /\ s[1] = Dollar => EreOne(s) = Atom(1, Eol)
           /\ s[1] = Backslash /\ Len(s) > 1 => EreOne(s) = Atom(2, One({s[2]}))
           /\ s[1] = Backslash /\ ~ (Len(s) > 1) => EreOne(s) = Atom(1, Wrong)
           /\ s[1] \in {Star, Question, 40, 41, 43, 123, 124} => EreOne(s) = Atom(1, Wrong)
           /\ s[1] \notin {Open, Dot, Caret, Dollar, Backslash, Star, Question, 40, 41, 43, 123, 124}
              => EreOne(s) = Atom(1, One({s[1]}))
<1>1. /\ Open # Dot /\ Open # Caret /\ Open # Dollar /\ Open # Backslash
      /\ Dot # Caret /\ Dot # Dollar /\ Dot # Backslash
      /\ Caret # Dollar /\ Caret # Backslash /\ Dollar # Backslash
      /\ \A c \in {Open, Dot, Caret, Dollar, Backslash} : c \notin {Star, Question, 40, 41, 43, 123, 124}
  BY DEF Star, Question, Open, Dot, Caret, Dollar, Backslash
<1>2. Len(s) \in Nat /\ Len(s) >= 1
  OBVIOUS
<1>3. ~ (Len(s) > 1) => Len(s) = 1
  <2>1. \A n \in Nat : n >= 1 /\ ~ (n > 1) => n = 1
    OBVIOUS
  <2>. QED  BY <1>2, <2>1, Zenon
<1>. QED  BY <1>1, <1>3 DEF EreOne

\* An atom takes something.
LEMMA GlobTakes ==
    ASSUME NEW s \in Seq(Byte), s # <<>>, NEW first \in BOOLEAN
    PROVE  GlobAtom(s, first).n \in Nat \ {0}
<1>1. \A n, x : Atom(n, x).n = n
  BY DEF Atom
<1>2. CASE s[1] = Open
  BY <1>2, BracketTakes, GlobAtomIs
<1>3. CASE s[1] # Open
  <2>. DEFINE g == GlobAtom(s, first)
              c == s[1]
              m == Len(s) > 1 /\ s[2] \in {Backslash, Star, Question, Open, Close}
  <2>0. /\ c = Star => g = Atom(1, Many(Byte))
        /\ c = Question => g = Atom(1, One(Byte))
        /\ c = Caret /\ first => g = Atom(1, Bol)
        /\ c = Dollar /\ Len(s) = 1 => g = Atom(1, Eol)
        /\ c = Backslash /\ m => g = Atom(2, One({s[2]}))
        /\ c = Backslash /\ ~ m => g = Atom(1, Wrong)
        /\ \/ c \notin {Star, Question, Open, Caret, Dollar, Backslash}
           \/ c = Caret /\ ~ first
           \/ c = Dollar /\ Len(s) # 1
           => g = Atom(1, One({c}))
    BY GlobAtomIs, Zenon
  <2>. HIDE DEF g, c, m
  <2>1. \E x : g = Atom(1, x) \/ g = Atom(2, x)
    BY <1>3, <2>0 DEF c
  <2>. USE DEF g
  <2>. QED  BY <1>1, <2>1
<1>. QED  BY <1>2, <1>3

\* So does an atom of a regular expression.
LEMMA EreTakes ==
    ASSUME NEW s \in Seq(Byte), s # <<>>
    PROVE  EreAtom(s).n \in Nat \ {0}
<1>1. \A n, x : Atom(n, x).n = n
  BY DEF Atom
<1>2. EreOne(s).n \in Nat \ {0}
  <2>1. CASE s[1] = Open
    BY <2>1, BracketTakes, EreOneIs
  <2>2. CASE s[1] # Open
    <3>1. \E x : EreOne(s) = Atom(1, x) \/ EreOne(s) = Atom(2, x)
      BY <2>2, EreOneIs
    <3>. QED  BY <1>1, <3>1
  <2>. QED  BY <2>1, <2>2
<1>3. EreAtom(s).n = EreOne(s).n \/ EreAtom(s).n = EreOne(s).n + 1
  BY <1>1 DEF EreAtom
<1>. QED  BY <1>2, <1>3

\* The strings that can follow an atom without changing it.
Tails == {t \in Seq(Byte) : t = <<>> \/ t[1] # Star}

\* The atom of a string that starts with o is a, whatever follows.
Reads(o, a) == \A t \in Tails : EreAtom(o \o t) = Atom(Len(o), a)

\* No * behind it: the atom is what comes first.
LEMMA NoStar ==
    ASSUME NEW s \in Seq(Byte), s # <<>>, NEW n \in Nat, NEW a, EreOne(s) = Atom(n, a),
           n < Len(s) => s[n + 1] # Star
    PROVE  EreAtom(s) = Atom(n, a)
BY DEF EreAtom, Atom

\* What a string that starts with o is like.
LEMMA Followed ==
    ASSUME NEW o \in Seq(Byte), o # <<>>, NEW t \in Tails
    PROVE  /\ o \o t \in Seq(Byte) /\ o \o t # <<>>
           /\ Len(o) \in Nat \ {0} /\ Len(o \o t) \in Nat /\ Len(o) <= Len(o \o t)
           /\ \A k \in 1 .. Len(o) : (o \o t)[k] = o[k]
           /\ Len(o) < Len(o \o t) => (o \o t)[Len(o) + 1] # Star
<1>. DEFINE u == o \o t
<1>1. t \in Seq(Byte) /\ (t = <<>> \/ t[1] # Star)
  BY DEF Tails
<1>2. /\ u \in Seq(Byte) /\ Len(u) = Len(o) + Len(t)
      /\ \A k \in 1 .. Len(o) : u[k] = o[k]
      /\ \A k \in 1 .. Len(t) : u[Len(o) + k] = t[k]
  BY <1>1, Joined
<1>3. Len(o) \in Nat \ {0} /\ Len(t) \in Nat
  BY <1>1
<1>. HIDE DEF u
<1>4. ASSUME Len(o) < Len(u) PROVE u[Len(o) + 1] # Star
  <2>1. 1 \in 1 .. Len(t)
    BY <1>2, <1>3, <1>4
  <2>2. u[Len(o) + 1] = t[1]
    BY <1>2, <2>1
  <2>3. t # <<>>
    BY <2>1
  <2>. QED  BY <1>1, <2>2, <2>3
<1>5. u # <<>>
  BY <1>2, <1>3
<1>6. Len(u) \in Nat /\ Len(o) <= Len(u)
  BY <1>2, <1>3
<1>. QED  BY <1>2, <1>3, <1>4, <1>5, <1>6 DEF u

\* Without a * behind it only the first part of the atom matters.
LEMMA ReadsOne ==
    ASSUME NEW o \in Seq(Byte), o # <<>>, NEW a, \A t \in Tails : EreOne(o \o t) = Atom(Len(o), a)
    PROVE  Reads(o, a)
<1>. SUFFICES ASSUME NEW t \in Tails PROVE EreAtom(o \o t) = Atom(Len(o), a)
  BY DEF Reads
<1>. DEFINE u == o \o t
<1>1. /\ u \in Seq(Byte) /\ u # <<>> /\ Len(o) \in Nat
      /\ Len(o) < Len(u) => u[Len(o) + 1] # Star
  BY Followed
<1>2. EreOne(u) = Atom(Len(o), a)
  OBVIOUS
<1>. HIDE DEF u
<1>3. EreAtom(u) = Atom(Len(o), a)
  BY <1>1, <1>2, NoStar
<1>. QED  BY <1>3 DEF u

\* What is written for * and ? and for the anchors.
LEMMA ReadsSigns ==
    /\ Reads(<<Dot, Star>>, Many(Byte))
    /\ Reads(<<Dot>>, One(Byte)) /\ Reads(<<Caret>>, Bol) /\ Reads(<<Dollar>>, Eol)
<1>0. Dot \in Byte /\ Star \in Byte /\ Caret \in Byte /\ Dollar \in Byte
  BY DEF Dot, Star, Caret, Dollar, Byte
<1>1. Reads(<<Dot, Star>>, Many(Byte))
  <2>. SUFFICES ASSUME NEW t \in Tails PROVE EreAtom(<<Dot, Star>> \o t) = Atom(2, Many(Byte))
    BY DEF Reads
  <2>. DEFINE o == <<Dot, Star>>
              u == o \o t
  <2>1. o \in Seq(Byte) /\ o # <<>> /\ Len(o) = 2 /\ o[1] = Dot /\ o[2] = Star
    BY <1>0
  <2>. HIDE DEF o
  <2>2. u \in Seq(Byte) /\ u # <<>> /\ u[1] = Dot /\ u[2] = Star /\ 2 <= Len(u) /\ Len(u) \in Nat
    <3>1. /\ u \in Seq(Byte) /\ u # <<>> /\ Len(o) <= Len(u) /\ Len(u) \in Nat
          /\ \A k \in 1 .. Len(o) : u[k] = o[k]
      BY <2>1, Followed
    <3>. HIDE DEF u
    <3>. QED  BY <2>1, <3>1
  <2>. HIDE DEF u
  <2>3. EreOne(u) = Atom(1, One(Byte))
    BY <2>2, EreOneIs
  <2>4. 1 < Len(u)
    BY <2>2
  <2>5. EreAtom(u) = Atom(2, Many(Byte))
    <3>1. Atom(1, One(Byte)).n = 1 /\ Atom(1, One(Byte)).atom = One(Byte) /\ 1 + 1 = 2
      BY DEF Atom
    <3>2. One(Byte)[1] = "one" /\ One(Byte)[2] = Byte
      BY DEF One
    <3>. QED  BY <2>2, <2>3, <2>4, <3>1, <3>2, Zenon DEF EreAtom
  <2>. QED  BY <2>5 DEF u, o
<1>2. ASSUME NEW c \in {Dot, Caret, Dollar}, NEW t \in Tails
      PROVE  <<c>> \o t \in Seq(Byte) /\ <<c>> \o t # <<>> /\ (<<c>> \o t)[1] = c
  <2>1. <<c>> \in Seq(Byte) /\ <<c>> # <<>> /\ Len(<<c>>) = 1 /\ <<c>>[1] = c
    BY <1>0
  <2>. DEFINE o == <<c>>
  <2>. HIDE DEF o
  <2>2. o \o t \in Seq(Byte) /\ o \o t # <<>> /\ (o \o t)[1] = o[1]
    <3>1. o \in Seq(Byte) /\ o # <<>> /\ Len(o) = 1
      BY <2>1 DEF o
    <3>. QED  BY <3>1, Followed
  <2>. QED  BY <2>1, <2>2 DEF o
<1>3. \A t \in Tails : /\ EreOne(<<Dot>> \o t) = Atom(1, One(Byte))
                       /\ EreOne(<<Caret>> \o t) = Atom(1, Bol)
                       /\ EreOne(<<Dollar>> \o t) = Atom(1, Eol)
  BY <1>2, EreOneIs
<1>4. \A c \in {Dot, Caret, Dollar} : <<c>> \in Seq(Byte) /\ <<c>> # <<>> /\ Len(<<c>>) = 1
  BY <1>0
<1>5. Reads(<<Dot>>, One(Byte)) /\ Reads(<<Caret>>, Bol) /\ Reads(<<Dollar>>, Eol)
  BY <1>3, <1>4, ReadsOne
<1>. QED  BY <1>1, <1>5

\* A byte that has no special meaning, and one behind a backslash.
LEMMA ReadsByte ==
    ASSUME NEW c \in Byte
    PROVE  /\ Reads(<<Backslash, c>>, One({c}))
           /\ c \notin {Open, Dot, Caret, Dollar, Backslash, Star, Question, 40, 41, 43, 123, 124}
              => Reads(<<c>>, One({c}))
<1>0. Backslash \in Byte
  BY DEF Backslash, Byte
<1>1. Reads(<<Backslash, c>>, One({c}))
  <2>. DEFINE o == <<Backslash, c>>
  <2>1. o \in Seq(Byte) /\ o # <<>> /\ Len(o) = 2 /\ o[1] = Backslash /\ o[2] = c
    BY <1>0
  <2>. HIDE DEF o
  <2>2. ASSUME NEW t \in Tails PROVE EreOne(o \o t) = Atom(Len(o), One({c}))
    <3>. DEFINE u == o \o t
    <3>1. u \in Seq(Byte) /\ u # <<>> /\ u[1] = Backslash /\ u[2] = c /\ 2 <= Len(u) /\ Len(u) \in Nat
      <4>1. /\ u \in Seq(Byte) /\ u # <<>> /\ Len(o) <= Len(u) /\ Len(u) \in Nat
            /\ \A k \in 1 .. Len(o) : u[k] = o[k]
        BY <2>1, Followed
      <4>. HIDE DEF u
      <4>. QED  BY <2>1, <4>1
    <3>. HIDE DEF u
    <3>2. Len(u) > 1
      BY <3>1
    <3>3. EreOne(u) = Atom(2, One({c}))
      BY <3>1, <3>2, EreOneIs
    <3>. QED  BY <2>1, <3>3 DEF u
  <2>3. Reads(o, One({c}))
    BY <2>1, <2>2, ReadsOne
  <2>. QED  BY <2>3 DEF o
<1>2. ASSUME c \notin {Open, Dot, Caret, Dollar, Backslash, Star, Question, 40, 41, 43, 123, 124}
      PROVE  Reads(<<c>>, One({c}))
  <2>. DEFINE o == <<c>>
  <2>1. o \in Seq(Byte) /\ o # <<>> /\ Len(o) = 1 /\ o[1] = c
    BY <1>0
  <2>. HIDE DEF o
  <2>2. ASSUME NEW t \in Tails PROVE EreOne(o \o t) = Atom(Len(o), One({c}))
    <3>. DEFINE u == o \o t
    <3>1. u \in Seq(Byte) /\ u # <<>> /\ u[1] = c
      BY <2>1, Followed
    <3>. HIDE DEF u
    <3>3. EreOne(u) = Atom(1, One({c}))
      BY <1>2, <3>1, EreOneIs
    <3>. QED  BY <2>1, <3>3 DEF u
  <2>3. Reads(o, One({c}))
    BY <2>1, <2>2, ReadsOne
  <2>. QED  BY <2>3 DEF o
<1>. QED  BY <1>1, <1>2

\* A bracket expression of a regular expression whose end is known.
LEMMA ReadsBracket ==
    ASSUME NEW o \in Seq(Byte), o # <<>>, o[1] = Open, o[Len(o)] = Close,
           Len(o) > MembersFrom(o, {Caret}),
           \A k \in (MembersFrom(o, {Caret}) + 1) .. (Len(o) - 1) : o[k] # Close
    PROVE  Reads(o, BracketAtom(SubSeq(o, MembersFrom(o, {Caret}), Len(o) - 1), MembersFrom(o, {Caret}) = 3))
<1>. DEFINE f == MembersFrom(o, {Caret})
            e == Len(o)
            in == SubSeq(o, f, e - 1)
<1>0. f \in {2, 3} /\ e \in Nat
  BY DEF MembersFrom
<1>1. ASSUME NEW t \in Tails PROVE EreOne(o \o t) = Atom(e, BracketAtom(in, f = 3))
  <2>. DEFINE u == o \o t
  <2>1. /\ u \in Seq(Byte) /\ u # <<>> /\ Len(u) \in Nat /\ e <= Len(u)
        /\ \A k \in 1 .. e : u[k] = o[k]
    BY Followed
  <2>. HIDE DEF u
  <2>2. u[1] = Open /\ u[2] = o[2] /\ u[e] = Close /\ Len(u) > 1 /\ e > 1
    BY <1>0, <2>1
  <2>3. MembersFrom(u, {Caret}) = f
    BY <2>2 DEF MembersFrom
  <2>. HIDE DEF f, e
  <2>4. e \in (f + 1) .. Len(u)
    BY <1>0, <2>1 DEF f, e
  <2>5. \A k \in (f + 1) .. (e - 1) : u[k] # Close
    <3>1. \A k \in (f + 1) .. (e - 1) : k \in 1 .. e
      BY <1>0
    <3>2. \A k \in (f + 1) .. (e - 1) : o[k] # Close
      BY Zenon DEF f, e
    <3>. QED  BY <2>1, <3>1, <3>2
  <2>6. BracketAt(u, {Caret}) = Atom(e, BracketAtom(SubSeq(u, f, e - 1), f = 3))
    <3>1. e \in Int
      BY <1>0
    <3>. QED  BY <2>1, <2>2, <2>3, <2>4, <2>5, <3>1, BracketIs
  <2>7. SubSeq(u, f, e - 1) = in
    <3>1. f \in Nat /\ e - 1 \in Nat /\ f >= 1 /\ e - 1 <= Len(u) /\ e - 1 <= Len(o)
      BY <1>0, <2>1, <2>2 DEF e
    <3>2. \A k \in f .. (e - 1) : u[k] = o[k]
      BY <1>0, <2>1
    <3>. QED  BY <2>1, <3>1, <3>2
  <2>8. EreOne(u) = BracketAt(u, {Caret})
    BY <2>1, <2>2, EreOneIs
  <2>. QED  BY <2>6, <2>7, <2>8 DEF u
<1>2. Reads(o, BracketAtom(in, f = 3))
  BY <1>1, ReadsOne
<1>. QED  BY <1>2

\* One byte in brackets; a ^ cannot be written that way.
LEMMA ReadsInBracket ==
    ASSUME NEW c \in Byte \ {Caret}
    PROVE  Reads(InBracket(c), One({c})) /\ InBracket(c) \in Seq(Byte) /\ Len(InBracket(c)) = 3
<1>. DEFINE o == InBracket(c)
<1>1. o \in Seq(Byte) /\ Len(o) = 3 /\ o[1] = Open /\ o[2] = c /\ o[3] = Close /\ o # <<>>
  BY DEF InBracket, Open, Close, Byte
<1>. HIDE DEF o
<1>2. MembersFrom(o, {Caret}) = 2
  BY <1>1 DEF MembersFrom
<1>3. Reads(o, BracketAtom(SubSeq(o, 2, 2), FALSE))
  <2>1. /\ Len(o) > 2 /\ o[Len(o)] = Close
        /\ \A k \in (2 + 1) .. (Len(o) - 1) : o[k] # Close
    BY <1>1
  <2>2. Reads(o, BracketAtom(SubSeq(o, 2, Len(o) - 1), 2 = 3))
    BY <1>1, <1>2, <2>1, ReadsBracket
  <2>3. Len(o) - 1 = 2 /\ (2 = 3) = FALSE
    BY <1>1
  <2>. QED  BY <2>2, <2>3
<1>4. SubSeq(o, 2, 2) = <<c>>
  <2>. DEFINE p == SubSeq(o, 1 + 1, 1 + 1)
  <2>1. p \in Seq(Byte) /\ Len(p) = 1 /\ \A j \in 1 .. 1 : p[j] = o[1 + j]
    BY <1>1, PartOfSeq
  <2>. HIDE DEF p
  <2>2. p[1] = c
    BY <1>1, <2>1
  <2>3. p = <<c>>
    BY <2>1, <2>2
  <2>4. p = SubSeq(o, 2, 2)
    BY DEF p
  <2>. QED  BY <2>3, <2>4
<1>5. ~ IsClass(<<c>>) /\ Members(<<c>>) = {c}
  BY DEF IsClass, Members
<1>6. BracketAtom(<<c>>, FALSE) = One({c})
  BY <1>5, Zenon DEF BracketAtom
<1>. QED  BY <1>1, <1>3, <1>4, <1>6 DEF o

\* Where the members of a bracket expression of a glob start.
LEMMA BracketStart ==
    ASSUME NEW s \in Seq(Byte), s # <<>>
    PROVE  /\ FirstMember(s) \in {1, 2}
           /\ FirstMember(s) + 1 = MembersFrom(s, {Bang, Caret})
           /\ SearchFrom(s) \in {FirstMember(s), FirstMember(s) + 1}
           /\ SearchFrom(s) = FirstMember(s) + 1 <=> At(s, FirstMember(s)) = Close
           /\ \A k \in 0 .. (Len(s) - 1) : At(s, k) = s[k + 1]
<1>1. \A k \in 0 .. (Len(s) - 1) : At(s, k) = s[k + 1]
  BY DEF At
<1>2. FirstMember(s) \in {1, 2}
  BY DEF FirstMember
<1>3. FirstMember(s) + 1 = MembersFrom(s, {Bang, Caret})
  <2>1. CASE Len(s) > 1
    <3>1. At(s, 1) = s[2]
      BY <1>1, <2>1
    <3>. QED  BY <2>1, <3>1 DEF FirstMember, MembersFrom
  <2>2. CASE ~ (Len(s) > 1)
    <3>1. At(s, 1) = NUL
      BY <2>2 DEF At
    <3>2. NUL # Bang /\ NUL # Caret
      BY DEF NUL, Bang, Caret
    <3>. QED  BY <2>2, <3>1, <3>2 DEF FirstMember, MembersFrom
  <2>. QED  BY <2>1, <2>2
<1>. QED  BY <1>1, <1>2, <1>3 DEF SearchFrom

\* The end that strchr() finds is the first ] behind the first member.
LEMMA BracketEnds ==
    ASSUME NEW s \in Seq(Byte), s # <<>>, Ends(s) # {}
    PROVE  /\ BracketEnd(s) + 1 \in (MembersFrom(s, {Bang, Caret}) + 1) .. Len(s)
           /\ s[BracketEnd(s) + 1] = Close
           /\ \A k \in (MembersFrom(s, {Bang, Caret}) + 1) .. BracketEnd(s) : s[k] # Close
<1>. DEFINE f == FirstMember(s)
            w == SearchFrom(s)
            b == BracketEnd(s)
<1>1. /\ f \in {1, 2} /\ f + 1 = MembersFrom(s, {Bang, Caret}) /\ w \in {f, f + 1}
      /\ w = f + 1 <=> At(s, f) = Close
      /\ \A k \in 0 .. (Len(s) - 1) : At(s, k) = s[k + 1]
  BY BracketStart
<1>2. b \in Ends(s)
  BY Zenon DEF BracketEnd
<1>. HIDE DEF b
<1>3. b \in w .. (Len(s) - 1) /\ At(s, b) = Close /\ \A j \in w .. (b - 1) : At(s, j) # Close
  BY <1>2 DEF Ends
<1>. HIDE DEF f, w
<1>4. b # f /\ b \in (f + 1) .. (Len(s) - 1) /\ Len(s) \in Nat
  BY <1>1, <1>3
<1>5. s[b + 1] = Close
  BY <1>1, <1>3, <1>4
<1>6. ASSUME NEW k \in (f + 2) .. b PROVE s[k] # Close
  <2>1. k - 1 \in w .. (b - 1) /\ k - 1 \in 0 .. (Len(s) - 1) /\ (k - 1) + 1 = k
    BY <1>1, <1>4
  <2>2. At(s, k - 1) # Close /\ At(s, k - 1) = s[(k - 1) + 1]
    BY <1>1, <1>3, <2>1
  <2>. QED  BY <2>1, <2>2
<1>7. MembersFrom(s, {Bang, Caret}) + 1 = f + 2
  BY <1>1
<1>8. b + 1 \in (f + 2) .. Len(s)
  BY <1>1, <1>4
<1>. QED  BY <1>5, <1>6, <1>7, <1>8 DEF b

\* Without one there is no end.
LEMMA BracketEndless ==
    ASSUME NEW s \in Seq(Byte), s # <<>>, Ends(s) = {}
    PROVE  ClosedAt(s, {Bang, Caret}) = {}
<1>. DEFINE f == FirstMember(s)
            w == SearchFrom(s)
            E == ClosedAt(s, {Bang, Caret})
<1>. SUFFICES ASSUME E # {} PROVE FALSE
  OBVIOUS
<1>1. /\ f \in {1, 2} /\ f + 1 = MembersFrom(s, {Bang, Caret}) /\ w \in {f, f + 1}
      /\ w = f + 1 <=> At(s, f) = Close
      /\ \A k \in 0 .. (Len(s) - 1) : At(s, k) = s[k + 1]
  BY BracketStart
<1>2. E = {k \in (f + 2) .. Len(s) : s[k] = Close}
  <2>1. MembersFrom(s, {Bang, Caret}) + 1 = f + 2
    BY <1>1
  <2>. QED  BY <2>1 DEF ClosedAt
<1>. HIDE DEF E
<1>3. E \in SUBSET Nat
  BY <1>1, <1>2
<1>. DEFINE m == Min(E)
<1>4. m \in E /\ \A y \in E : m <= y
  BY <1>3, MinOf
<1>. HIDE DEF m
<1>5. m \in (f + 2) .. Len(s) /\ s[m] = Close /\ Len(s) \in Nat
  BY <1>2, <1>4
<1>6. \A k \in (f + 2) .. (m - 1) : s[k] # Close
  <2>. SUFFICES ASSUME NEW k \in (f + 2) .. (m - 1), s[k] = Close PROVE FALSE
    OBVIOUS
  <2>0. f \in Nat /\ m \in Nat
    BY <1>1, <1>5
  <2>1. k \in (f + 2) .. Len(s) /\ k < m /\ k \in Nat
    BY <1>5, <2>0
  <2>2. k \in E
    BY <1>2, <2>1
  <2>3. m <= k
    BY <1>4, <2>2
  <2>. QED  BY <2>0, <2>1, <2>3
<1>. HIDE DEF f
<1>7. At(s, m - 1) = Close /\ m - 1 \in w .. (Len(s) - 1)
  <2>1. m - 1 \in 0 .. (Len(s) - 1) /\ (m - 1) + 1 = m
    BY <1>1, <1>5
  <2>2. At(s, m - 1) = s[(m - 1) + 1]
    BY <1>1, <2>1
  <2>3. m - 1 \in w .. (Len(s) - 1)
    BY <1>1, <1>5
  <2>. QED  BY <1>5, <2>1, <2>2, <2>3
<1>8. ASSUME NEW j \in w .. ((m - 1) - 1) PROVE At(s, j) # Close
  <2>1. CASE j = f
    <3>1. w = f
      BY <1>1, <2>1
    <3>2. w # f + 1
      BY <1>1, <3>1
    <3>. QED  BY <1>1, <2>1, <3>2
  <2>2. CASE j # f
    <3>1. j + 1 \in (f + 2) .. (m - 1) /\ j \in 0 .. (Len(s) - 1)
      BY <1>1, <1>5, <2>2
    <3>. QED  BY <1>1, <1>6, <3>1
  <2>. QED  BY <2>1, <2>2
<1>9. m - 1 \in Ends(s)
  BY <1>7, <1>8 DEF Ends, w
<1>. QED  BY <1>9

\* The members of a bracket expression of a glob.
GlobMembers(s) == SubSeq(s, MembersFrom(s, {Bang, Caret}), BracketEnd(s))

\* They are between the [ or [! and the ].
LEMMA GlobMembersAre ==
    ASSUME NEW s \in Seq(Byte), s # <<>>, Ends(s) # {}
    PROVE  /\ GlobMembers(s) \in Seq(Byte)
           /\ BracketEnd(s) \in Nat /\ Len(GlobMembers(s)) = BracketEnd(s) - FirstMember(s)
           /\ \A k \in 1 .. (BracketEnd(s) - FirstMember(s)) : GlobMembers(s)[k] = s[FirstMember(s) + k]
<1>. DEFINE f == FirstMember(s)
            b == BracketEnd(s)
            F == MembersFrom(s, {Bang, Caret})
<1>1. f \in {1, 2} /\ f + 1 = F
  BY BracketStart
<1>2. b + 1 \in (F + 1) .. Len(s)
  BY BracketEnds
<1>. HIDE DEF f, b, F
<1>3. b \in Int
  <2>1. BracketEnd(s) \in 1 .. (Len(s) - 1)
    BY BracketEndInside
  <2>. QED  BY <2>1 DEF b
<1>4. f \in Nat /\ b - f \in Nat /\ f + (b - f) <= Len(s) /\ f + (b - f) = b /\ b \in Nat
  BY <1>1, <1>2, <1>3
<1>. DEFINE d == b - f
            p == SubSeq(s, f + 1, f + d)
<1>5. p \in Seq(Byte) /\ Len(p) = d /\ \A k \in 1 .. d : p[k] = s[f + k]
  <2>. HIDE DEF d
  <2>. QED  BY <1>4, PartOfSeq DEF d
<1>6. p = GlobMembers(s)
  BY <1>1, <1>4 DEF GlobMembers, F, b
<1>. HIDE DEF p
<1>. QED  BY <1>4, <1>5, <1>6 DEF b, f

\* glob2re() refuses the classes it finds between strchr()'s start and end, and
\* these are all.
LEMMA BracketClass ==
    ASSUME NEW s \in Seq(Byte), s # <<>>, Ends(s) # {}
    PROVE  HasClass(s) <=> IsClass(GlobMembers(s))
<1>. DEFINE f == FirstMember(s)
            w == SearchFrom(s)
            b == BracketEnd(s)
            in == GlobMembers(s)
            C == {Colon, Dot, Equals}
<1>1. /\ f \in {1, 2} /\ w \in {f, f + 1}
      /\ w = f + 1 <=> At(s, f) = Close
      /\ \A k \in 0 .. (Len(s) - 1) : At(s, k) = s[k + 1]
  BY BracketStart
<1>2. b \in Nat /\ Len(in) = b - f /\ \A k \in 1 .. (b - f) : in[k] = s[f + k]
  BY GlobMembersAre
<1>3. s[b + 1] = Close
  BY BracketEnds
<1>4. b \in 1 .. (Len(s) - 1) /\ Len(s) \in Nat
  BY BracketEndInside
<1>5. Close \notin C /\ Open # Close
  BY DEF Close, Open, Colon, Dot, Equals
<1>6. HasClass(s) <=> \E k \in w .. (b - 1) : At(s, k) = Open /\ At(s, k + 1) \in C
  BY DEF HasClass
<1>7. IsClass(in) <=> \E k \in 1 .. (Len(in) - 1) : in[k] = Open /\ in[k + 1] \in C
  BY DEF IsClass
<1>. HIDE DEF f, w, b, in, C
<1>8. ASSUME NEW k \in w .. (b - 1), At(s, k) = Open, At(s, k + 1) \in C PROVE IsClass(in)
  <2>1. k \in 0 .. (Len(s) - 1) /\ k + 1 \in 0 .. (Len(s) - 1) /\ (k + 1) + 1 = k + 2
    BY <1>1, <1>4
  <2>2. s[k + 1] = Open /\ s[k + 2] \in C
    BY <1>1, <1>8, <2>1
  <2>3. k # b - 1
    <3>. SUFFICES ASSUME k = b - 1 PROVE FALSE
      OBVIOUS
    <3>1. k + 2 = b + 1
      BY <1>4
    <3>. QED  BY <1>3, <1>5, <2>2, <3>1
  <2>. DEFINE q == (k - f) + 1
  <2>4. /\ q \in 1 .. (Len(in) - 1) /\ q \in 1 .. (b - f) /\ q + 1 \in 1 .. (b - f)
        /\ f + q = k + 1 /\ f + (q + 1) = k + 2
    BY <1>1, <1>2, <1>4, <2>3
  <2>. HIDE DEF q
  <2>5. in[q] = s[k + 1] /\ in[q + 1] = s[k + 2]
    BY <1>2, <2>4
  <2>. QED  BY <1>7, <2>2, <2>4, <2>5
<1>9. ASSUME NEW q \in 1 .. (Len(in) - 1), in[q] = Open, in[q + 1] \in C PROVE HasClass(s)
  <2>. DEFINE k == f + q - 1
  <2>1. /\ q \in 1 .. (b - f) /\ q + 1 \in 1 .. (b - f) /\ k \in f .. (b - 1) /\ k + 1 = f + q
        /\ (k + 1) + 1 = f + (q + 1)
        /\ k \in 0 .. (Len(s) - 1) /\ k + 1 \in 0 .. (Len(s) - 1)
    BY <1>1, <1>2, <1>4
  <2>. HIDE DEF k
  <2>2. At(s, k) = in[q] /\ At(s, k + 1) = in[q + 1]
    BY <1>1, <1>2, <2>1
  <2>3. k \in w .. (b - 1)
    <3>1. CASE w = f
      BY <2>1, <3>1
    <3>2. CASE w = f + 1
      <4>1. At(s, f) = Close
        BY <1>1, <3>2
      <4>2. k # f
        BY <1>5, <1>9, <2>2, <4>1
      <4>. QED  BY <1>1, <2>1, <3>2, <4>2
    <3>. QED  BY <1>1, <3>1, <3>2
  <2>. QED  BY <1>6, <1>9, <2>2, <2>3
<1>. QED  BY <1>6, <1>7, <1>8, <1>9 DEF in

\* What is copied means in a regular expression what it meant in the glob.
LEMMA BracketCopied ==
    ASSUME NEW s \in Seq(Byte), s # <<>>, Ends(s) # {}, s[1] = Open
    PROVE  /\ Bracket(s) \in Seq(Byte) /\ Bracket(s) # <<>> /\ Bracket(s)[1] = Open
           /\ Reads(Bracket(s), BracketAtom(GlobMembers(s), MembersFrom(s, {Bang, Caret}) = 3))
<1>. DEFINE f == FirstMember(s)
            b == BracketEnd(s)
            F == MembersFrom(s, {Bang, Caret})
            o == Bracket(s)
<1>1. f \in {1, 2} /\ f + 1 = F
  BY BracketStart
<1>2. b + 1 \in (F + 1) .. Len(s) /\ s[b + 1] = Close /\ \A k \in (F + 1) .. b : s[k] # Close
  BY BracketEnds
<1>3. b \in 1 .. (Len(s) - 1) /\ Len(s) \in Nat
  BY BracketEndInside
<1>4. F = 3 <=> s[2] \in {Bang, Caret}
  <2>1. Len(s) > 1
    BY <1>3
  <2>. QED  BY <2>1 DEF MembersFrom
<1>5. o = [k \in 1 .. (b + 1) |-> IF k = 2 /\ s[k] = Bang THEN Caret ELSE s[k]]
  BY DEF Bracket
<1>6. GlobMembers(s) \in Seq(Byte) /\ Len(GlobMembers(s)) = b - f
      /\ \A k \in 1 .. (b - f) : GlobMembers(s)[k] = s[f + k]
  BY GlobMembersAre
<1>. DEFINE in == GlobMembers(s)
<1>. HIDE DEF f, b, F, o, in
<1>7. o \in Seq(Byte) /\ Len(o) = b + 1
  <2>1. \A k \in 1 .. (b + 1) : s[k] \in Byte
    <3>1. \A k \in 1 .. (b + 1) : k \in 1 .. Len(s)
      BY <1>3
    <3>2. \A k \in 1 .. Len(s) : s[k] \in Byte
      OBVIOUS
    <3>. QED  BY <3>1, <3>2
  <2>2. Caret \in Byte
    BY DEF Caret, Byte
  <2>3. o \in [1 .. (b + 1) -> Byte]
    BY <1>5, <2>1, <2>2
  <2>4. b + 1 \in Nat
    BY <1>3
  <2>. DEFINE m == b + 1
  <2>. HIDE DEF m
  <2>5. o \in [1 .. m -> Byte] /\ m \in Nat
    BY <2>3, <2>4 DEF m
  <2>6. o \in Seq(Byte) /\ Len(o) = m
    BY <2>5, IsSequence
  <2>. QED  BY <2>6 DEF m
<1>8. /\ \A k \in 1 .. (b + 1) : k # 2 => o[k] = s[k]
      /\ s[2] # Bang => o[2] = s[2]
      /\ s[2] = Bang => o[2] = Caret
  <2>1. 2 \in 1 .. (b + 1)
    BY <1>3
  <2>. QED  BY <1>5, <2>1
<1>9. b + 1 > 2 /\ F \in {2, 3} /\ b >= F
  BY <1>1, <1>2, <1>3
<1>10. MembersFrom(o, {Caret}) = F
  <2>1. Len(o) > 1
    BY <1>7, <1>9
  <2>2. o[2] = Caret <=> s[2] \in {Bang, Caret}
    BY <1>8
  <2>. QED  BY <1>4, <1>9, <2>1, <2>2 DEF MembersFrom
<1>11. o[1] = Open /\ o[Len(o)] = Close
  <2>1. 1 \in 1 .. (b + 1) /\ b + 1 \in 1 .. (b + 1) /\ b + 1 # 2
    BY <1>3, <1>9
  <2>. QED  BY <1>2, <1>7, <1>8, <2>1
<1>12. \A k \in (F + 1) .. (Len(o) - 1) : o[k] # Close
  <2>. TAKE k \in (F + 1) .. (Len(o) - 1)
  <2>1. k \in (F + 1) .. b /\ k \in 1 .. (b + 1) /\ k # 2
    BY <1>3, <1>7, <1>9
  <2>. QED  BY <1>2, <1>8, <2>1
<1>13. o # <<>> /\ Len(o) > F
  BY <1>3, <1>7, <1>9
<1>14. Reads(o, BracketAtom(SubSeq(o, F, Len(o) - 1), F = 3))
  BY <1>7, <1>10, <1>11, <1>12, <1>13, ReadsBracket
<1>15. SubSeq(o, F, Len(o) - 1) = in
  <2>. DEFINE d == b - f
              p == SubSeq(o, f + 1, f + d)
  <2>1. f \in Nat /\ d \in Nat /\ f + d <= Len(o)
    BY <1>1, <1>3, <1>7, <1>9
  <2>2. p \in Seq(Byte) /\ Len(p) = d /\ \A k \in 1 .. d : p[k] = o[f + k]
    <3>. HIDE DEF d
    <3>. QED  BY <1>7, <2>1, PartOfSeq
  <2>3. p = SubSeq(o, F, Len(o) - 1)
    <3>1. f + d = Len(o) - 1
      BY <1>1, <1>3, <1>7
    <3>. QED  BY <1>1, <3>1
  <2>. HIDE DEF p
  <2>4. \A k \in 1 .. d : p[k] = in[k]
    <3>. TAKE k \in 1 .. d
    <3>1. f + k \in 1 .. (b + 1)
      BY <1>1, <1>3
    <3>2. o[f + k] = s[f + k]
      <4>1. CASE f + k # 2
        BY <1>8, <3>1, <4>1
      <4>2. CASE f + k = 2
        <5>1. f = 1
          BY <1>1, <4>2
        <5>2. F # 3
          BY <1>1, <5>1
        <5>. QED  BY <1>4, <1>8, <4>2, <5>2
      <4>. QED  BY <4>1, <4>2
    <3>. QED  BY <1>6, <2>2, <3>2 DEF in
  <2>5. in \in Seq(Byte) /\ Len(in) = d
    BY <1>6 DEF in
  <2>6. p = in
    <3>. HIDE DEF d
    <3>. QED  BY <2>2, <2>4, <2>5, SameSeq
  <2>. QED  BY <2>3, <2>6
<1>. QED  BY <1>7, <1>11, <1>13, <1>14, <1>15 DEF o, in, F

\* A turn takes what the atom a of the glob takes, and what it writes is read as
\* that atom; it gives up where the atom is wrong.
TurnReads(g, a) ==
    /\ g.n > 0 => /\ a.n = g.n /\ a.atom # Wrong /\ Reads(g.o, a.atom)
                  /\ g.o \in Seq(Byte) /\ g.o # <<>> /\ g.o[1] # Star
    /\ ~ (g.n > 0) => a.atom = Wrong

\* A turn that writes what is read so.
LEMMA EmitReads ==
    ASSUME NEW n \in Nat \ {0}, NEW o \in Seq(Byte), NEW x, o # <<>>, o[1] # Star, x # Wrong, Reads(o, x)
    PROVE  TurnReads(Emit(n, o), Atom(n, x))
<1>. DEFINE g == Emit(n, o)
            a == Atom(n, x)
<1>1. g.n = n /\ g.o = o /\ a.n = n /\ a.atom = x
  BY DEF Emit, Atom
<1>. HIDE DEF g, a
<1>2. g.n > 0
  BY <1>1
<1>3. TurnReads(g, a)
  BY <1>1, <1>2 DEF TurnReads
<1>. QED  BY <1>3 DEF g, a

\* A turn that writes one byte, or two.
LEMMA EmitBytes ==
    ASSUME NEW n \in Nat \ {0}, NEW d \in Byte \ {Star}, NEW e \in Byte, NEW x, x # Wrong
    PROVE  /\ Reads(<<d>>, x) => TurnReads(Emit(n, <<d>>), Atom(n, x))
           /\ Reads(<<d, e>>, x) => TurnReads(Emit(n, <<d, e>>), Atom(n, x))
<1>. DEFINE o == <<d>>
            u == <<d, e>>
<1>1. /\ o \in Seq(Byte) /\ o # <<>> /\ o[1] # Star
      /\ u \in Seq(Byte) /\ u # <<>> /\ u[1] # Star
  OBVIOUS
<1>. HIDE DEF o, u
<1>2. Reads(o, x) => TurnReads(Emit(n, o), Atom(n, x))
  BY <1>1, EmitReads
<1>3. Reads(u, x) => TurnReads(Emit(n, u), Atom(n, x))
  BY <1>1, EmitReads
<1>. QED  BY <1>2, <1>3 DEF o, u

\* A turn that gives up.
LEMMA GivesUp ==
    ASSUME NEW n
    PROVE  TurnReads(NoGlob, Atom(n, Wrong))
<1>1. NoGlob.n = 0 /\ ~ (0 > 0) /\ Atom(n, Wrong).atom = Wrong
  BY DEF NoGlob, Emit, Atom
<1>. QED  BY <1>1 DEF TurnReads

\* No atom but a wrong one is wrong.
LEMMA NotWrong == Bol # Wrong /\ Eol # Wrong /\ \A set : One(set) # Wrong /\ Many(set) # Wrong
BY DEF Bol, Eol, Wrong, One, Many

\* The signs are bytes.
LEMMA SignBytes ==
    /\ {Bang, Dollar, Star, Dot, Question, Open, Close, Caret, Backslash} \subseteq Byte
    /\ Star \notin {Dot, Question, Open, Close, Caret, Backslash, Dollar}
    /\ Caret \notin {Dot, Question, Open, Close, Star, Backslash, Dollar}
    /\ Caret \notin Special /\ Open \notin Special /\ Question \notin Special /\ Backslash \notin Special
BY DEF Bang, Dollar, Star, Dot, Question, Open, Close, Caret, Backslash, Special, Byte

\* A bracket expression is copied.
LEMMA BracketReads ==
    ASSUME NEW s \in Seq(Byte), s # <<>>, s[1] = Open
    PROVE  TurnReads(BracketTurn(s), BracketAt(s, {Bang, Caret}))
<1>. DEFINE F == MembersFrom(s, {Bang, Caret})
            b == BracketEnd(s)
<1>1. CASE Ends(s) = {}
  <2>1. BracketAt(s, {Bang, Caret}) = Atom(Len(s), Wrong)
    BY <1>1, BracketEndless DEF BracketAt
  <2>2. BracketTurn(s) = NoGlob
    BY <1>1 DEF BracketTurn
  <2>. QED  BY <2>1, <2>2, GivesUp
<1>2. CASE Ends(s) # {}
  <2>1. b + 1 \in (F + 1) .. Len(s) /\ s[b + 1] = Close /\ \A k \in (F + 1) .. b : s[k] # Close
    BY <1>2, BracketEnds
  <2>2. b \in Nat /\ b + 1 \in Nat \ {0} /\ b + 1 \in Int /\ (b + 1) - 1 = b
    <3>1. b \in 1 .. (Len(s) - 1)
      BY <1>2, BracketEndInside
    <3>. QED  BY <3>1
  <2>3. BracketAt(s, {Bang, Caret}) = Atom(b + 1, BracketAtom(GlobMembers(s), F = 3))
    <3>. DEFINE e == b + 1
    <3>1. /\ e \in Int /\ e \in (F + 1) .. Len(s) /\ s[e] = Close /\ e - 1 = b
          /\ \A k \in (F + 1) .. (e - 1) : s[k] # Close
      BY <2>1, <2>2
    <3>. HIDE DEF e
    <3>2. BracketAt(s, {Bang, Caret}) = Atom(e, BracketAtom(SubSeq(s, F, e - 1), F = 3))
      BY <3>1, BracketIs
    <3>. QED  BY <3>1, <3>2 DEF GlobMembers, e
  <2>4. CASE HasClass(s)
    <3>1. BracketAtom(GlobMembers(s), F = 3) = Wrong
      BY <1>2, <2>4, BracketClass DEF BracketAtom
    <3>2. BracketTurn(s) = NoGlob
      BY <2>4 DEF BracketTurn
    <3>. QED  BY <2>3, <3>1, <3>2, GivesUp
  <2>5. CASE ~ HasClass(s)
    <3>1. BracketAtom(GlobMembers(s), F = 3) # Wrong
      <4>1. ~ IsClass(GlobMembers(s))
        BY <1>2, <2>5, BracketClass
      <4>. QED  BY <4>1, NotWrong, Zenon DEF BracketAtom
    <3>2. BracketTurn(s) = Emit(b + 1, Bracket(s))
      BY <1>2, <2>5 DEF BracketTurn
    <3>3. /\ Bracket(s) \in Seq(Byte) /\ Bracket(s) # <<>> /\ Bracket(s)[1] # Star
          /\ Reads(Bracket(s), BracketAtom(GlobMembers(s), F = 3))
      BY <1>2, BracketCopied, SignBytes
    <3>. QED  BY <2>2, <2>3, <3>1, <3>2, <3>3, EmitReads
  <2>. QED  BY <2>4, <2>5
<1>. QED  BY <1>1, <1>2

\* One byte in brackets is read as that byte.
LEMMA InBracketReads ==
    ASSUME NEW c \in Byte \ {Caret}, NEW n \in Nat \ {0}
    PROVE  TurnReads(Emit(n, InBracket(c)), Atom(n, One({c})))
<1>1. Reads(InBracket(c), One({c})) /\ InBracket(c) \in Seq(Byte) /\ Len(InBracket(c)) = 3
  BY ReadsInBracket
<1>2. InBracket(c) # <<>>
  BY <1>1
<1>3. InBracket(c)[1] = Open
  BY DEF InBracket
<1>. QED  BY <1>1, <1>2, <1>3, EmitReads, NotWrong, SignBytes

\* Every turn of glob2re() does what the table above it says.
LEMMA GlobReads ==
    ASSUME NEW s \in Seq(Byte), s # <<>>, NEW first \in BOOLEAN
    PROVE  TurnReads(GlobTurn(s, first), GlobAtom(s, first))
<1>. DEFINE c == s[1]
            g == GlobTurn(s, first)
            a == GlobAtom(s, first)
            Quoted == {Backslash, Star, Question, Open, Close}
<1>0. /\ At(s, 0) = c /\ c \in Byte /\ Len(s) \in Nat \ {0}
      /\ Len(s) > 1 => At(s, 1) = s[2] /\ s[2] \in Byte
      /\ ~ (Len(s) > 1) => At(s, 1) = NUL /\ Len(s) = 1
  <2>1. Len(s) \in Nat \ {0} /\ s[1] \in Byte
    OBVIOUS
  <2>2. At(s, 0) = s[0 + 1]
    BY <2>1, AtBytes
  <2>3. Len(s) > 1 => At(s, 1) = s[1 + 1] /\ At(s, 1) \in Byte
    BY <2>1, AtBytes
  <2>4. ASSUME ~ (Len(s) > 1) PROVE At(s, 1) = NUL /\ Len(s) = 1
    <3>0. \A n \in Nat \ {0} : ~ (n > 1) => 1 >= n /\ n = 1
      OBVIOUS
    <3>1. 1 \in Nat /\ 1 >= Len(s) /\ Len(s) = 1
      BY <2>1, <2>4, <3>0, Zenon
    <3>. QED  BY <3>1, AtBytes
  <2>5. 0 + 1 = 1 /\ 1 + 1 = 2
    OBVIOUS
  <2>. QED  BY <2>1, <2>2, <2>3, <2>4, <2>5, Zenon
<1>00. 1 \in Nat \ {0} /\ 2 \in Nat \ {0}
  OBVIOUS
<1>. HIDE DEF c
<1>1. CASE c = Star
  <2>1. g = Emit(1, <<Dot, Star>>) /\ a = Atom(1, Many(Byte))
    BY <1>0, <1>1, GlobAtomIs DEF GlobTurn, c
  <2>. QED  BY <1>00, <2>1, ReadsSigns, EmitBytes, NotWrong, SignBytes
<1>2. CASE c = Question
  <2>1. g = Emit(1, <<Dot>>)
    BY <1>0, <1>2, SignBytes DEF GlobTurn
  <2>2. a = Atom(1, One(Byte))
    BY <1>2, GlobAtomIs DEF c
  <2>. QED  BY <1>00, <2>1, <2>2, ReadsSigns, EmitBytes, NotWrong, SignBytes
<1>3. CASE c = Open
  <2>1. g = BracketTurn(s)
    BY <1>0, <1>3, SignBytes DEF GlobTurn, Question, Open
  <2>2. a = BracketAt(s, {Bang, Caret})
    BY <1>3, GlobAtomIs DEF c
  <2>. QED  BY <1>3, <2>1, <2>2, BracketReads DEF c
<1>4. CASE c = Caret
  <2>1. g = CaretTurn(first)
    BY <1>0, <1>4 DEF GlobTurn, Star, Question, Open, Caret
  <2>2. CASE first
    <3>1. g = Emit(1, <<Caret>>) /\ a = Atom(1, Bol)
      BY <1>4, <2>1, <2>2, GlobAtomIs DEF CaretTurn, c
    <3>. QED  BY <1>00, <3>1, ReadsSigns, EmitBytes, NotWrong, SignBytes
  <2>3. CASE ~ first
    <3>1. g = Emit(1, <<Backslash, Caret>>) /\ a = Atom(1, One({Caret}))
      BY <1>4, <2>1, <2>3, GlobAtomIs DEF CaretTurn, c
    <3>3. Reads(<<Backslash, Caret>>, One({Caret}))
      BY SignBytes, ReadsByte
    <3>. QED  BY <1>00, <3>1, <3>3, EmitBytes, NotWrong, SignBytes
  <2>. QED  BY <2>2, <2>3
<1>5. CASE c = Dollar
  <2>1. g = DollarTurn(s)
    BY <1>0, <1>5 DEF GlobTurn, Star, Question, Open, Caret, Dollar
  <2>2. CASE Len(s) = 1
    <3>1. At(s, 1) = NUL
      BY <1>0, <2>2
    <3>2. g = Emit(1, <<Dollar>>)
      BY <2>1, <3>1 DEF DollarTurn
    <3>3. a = Atom(1, Eol)
      BY <1>5, <2>2, GlobAtomIs DEF c
    <3>. QED  BY <1>00, <3>2, <3>3, ReadsSigns, EmitBytes, NotWrong, SignBytes
  <2>3. CASE Len(s) # 1
    <3>1. At(s, 1) # NUL
      <4>0. Len(s) > 1
        BY <1>0, <2>3, Zenon
      <4>1. At(s, 1) \in Byte
        BY <1>0, <4>0, Zenon
      <4>2. \A x \in Byte : x # NUL
        BY DEF NUL, Byte
      <4>. QED  BY <4>1, <4>2, Zenon
    <3>2. g = Emit(1, InBracket(Dollar))
      BY <2>1, <3>1 DEF DollarTurn
    <3>3. a = Atom(1, One({Dollar}))
      BY <1>5, <2>3, GlobAtomIs DEF c
    <3>4. Dollar \in Byte \ {Caret}
      BY SignBytes
    <3>. QED  BY <3>2, <3>3, <3>4, InBracketReads
  <2>. QED  BY <2>2, <2>3
<1>6. CASE c = Backslash
  <2>1. g = BackslashTurn(s)
    BY <1>0, <1>6 DEF GlobTurn, Star, Question, Open, Caret, Dollar, Backslash, Special
  <2>2. CASE Len(s) > 1 /\ s[2] \in Quoted
    <3>1. a = Atom(2, One({s[2]}))
      BY <1>6, <2>2, GlobAtomIs DEF c
    <3>2. CASE s[2] = Backslash
      <4>1. g = Emit(2, <<Backslash, Backslash>>)
        BY <1>0, <2>1, <2>2, <3>2 DEF BackslashTurn
      <4>3. Reads(<<Backslash, Backslash>>, One({Backslash}))
        BY SignBytes, ReadsByte
      <4>. QED  BY <1>00, <3>1, <3>2, <4>1, <4>3, EmitBytes, NotWrong, SignBytes
    <3>3. CASE s[2] # Backslash
      <4>1. s[2] \in {Star, Question, Open, Close}
        BY <2>2, <3>3
      <4>2. g = Emit(2, InBracket(s[2]))
        BY <1>0, <2>1, <2>2, <3>3, <4>1 DEF BackslashTurn
      <4>3. s[2] \in Byte \ {Caret}
        BY <1>0, <2>2, <4>1, SignBytes
      <4>. QED  BY <3>1, <4>2, <4>3, InBracketReads
    <3>. QED  BY <3>2, <3>3
  <2>3. CASE ~ (Len(s) > 1 /\ s[2] \in Quoted)
    <3>1. a = Atom(1, Wrong)
      BY <1>6, <2>3, GlobAtomIs DEF c
    <3>2. At(s, 1) \notin Quoted
      <4>1. NUL \notin Quoted
        BY DEF NUL, Backslash, Star, Question, Open, Close
      <4>. QED  BY <1>0, <2>3, <4>1
    <3>3. g = NoGlob
      BY <2>1, <3>2 DEF BackslashTurn
    <3>. QED  BY <3>1, <3>3, GivesUp
  <2>. QED  BY <2>2, <2>3
<1>7. CASE c \notin {Star, Question, Open, Caret, Dollar, Backslash}
  <2>1. a = Atom(1, One({c}))
    BY <1>7, GlobAtomIs DEF c
  <2>2. CASE c \in Special
    <3>1. g = Emit(1, InBracket(c))
      BY <1>0, <1>7, <2>2 DEF GlobTurn
    <3>2. c \in Byte \ {Caret}
      BY <1>0, <1>7
    <3>. QED  BY <2>1, <3>1, <3>2, InBracketReads
  <2>3. CASE c \notin Special
    <3>1. g = Emit(1, <<c>>)
      BY <1>0, <1>7, <2>3 DEF GlobTurn
    <3>3. c \notin {Open, Dot, Caret, Dollar, Backslash, Star, Question, 40, 41, 43, 123, 124}
      BY <1>7, <2>3 DEF Special, Dot
    <3>4. Reads(<<c>>, One({c}))
      BY <1>0, <3>3, ReadsByte
    <3>. QED  BY <1>0, <1>00, <1>7, <2>1, <3>1, <3>4, EmitBytes, NotWrong
  <2>. QED  BY <2>2, <2>3
<1>. QED  BY <1>1, <1>2, <1>3, <1>4, <1>5, <1>6, <1>7

\* The functions of the loops that GlobAtoms() and EreAtoms() are.
GlobRests == [t \in Seq(Byte) |-> GlobRest(t, FALSE)]
GlobOuts == [t \in Seq(Byte) |-> GlobOut(t, FALSE)]
EreRests == [t \in Seq(Byte) |-> EreRest(t)]
EreOuts == [t \in Seq(Byte) |-> EreOut(t)]

\* What is left when something was taken is shorter.
LEMMA LeftOver ==
    ASSUME NEW s \in Seq(Byte), s # <<>>, NEW n \in Nat \ {0}
    PROVE  SubSeq(s, n + 1, Len(s)) \in Seq(Byte) /\ Len(SubSeq(s, n + 1, Len(s))) < Len(s)
<1>0. Len(s) \in Nat \ {0}
  OBVIOUS
<1>1. CASE n <= Len(s)
  <2>. DEFINE d == Len(s) - n
  <2>1. n \in Nat /\ d \in Nat /\ n + d = Len(s) /\ n + d <= Len(s) /\ d < Len(s)
    BY <1>0, <1>1
  <2>. HIDE DEF d
  <2>2. SubSeq(s, n + 1, n + d) \in Seq(Byte) /\ Len(SubSeq(s, n + 1, n + d)) = d
    BY <2>1, PartOfSeq
  <2>. QED  BY <2>1, <2>2
<1>2. CASE ~ (n <= Len(s))
  <2>1. SubSeq(s, n + 1, Len(s)) = <<>>
    BY <1>0, <1>2
  <2>2. <<>> \in Seq(Byte) /\ Len(<<>>) = 0 /\ 0 < Len(s)
    BY <1>0
  <2>. QED  BY <2>1, <2>2
<1>. QED  BY <1>1, <1>2

\* A turn of the loop over a glob.
LEMMA GlobTurnsOne ==
    ASSUME NEW s \in Seq(Byte), s # <<>>, NEW first \in BOOLEAN
    PROVE  /\ GlobRest(s, first) = SubSeq(s, GlobAtom(s, first).n + 1, Len(s))
           /\ GlobRest(s, first) \in Seq(Byte) /\ Len(GlobRest(s, first)) < Len(s)
           /\ GlobOut(s, first) = <<GlobAtom(s, first).atom>>
           /\ GlobAtom(s, first).atom \in Atoms /\ GlobOut(s, first) \in Seq(Atoms)
<1>1. GlobRest(s, first) = SubSeq(s, GlobAtom(s, first).n + 1, Len(s)) /\ GlobOut(s, first) = <<GlobAtom(s, first).atom>>
  BY DEF GlobRest, GlobOut
<1>2. GlobAtom(s, first).n \in Nat \ {0}
  BY GlobTakes
<1>3. GlobAtom(s, first).atom \in Atoms
  <2>1. GlobAtom(s, first).atom \in GlobAll(first)
    BY Zenon DEF GlobAll
  <2>2. first = TRUE \/ first = FALSE
    OBVIOUS
  <2>. QED  BY <2>1, <2>2, Zenon DEF Atoms
<1>. DEFINE n == GlobAtom(s, first).n
            a == GlobAtom(s, first).atom
<1>4. SubSeq(s, n + 1, Len(s)) \in Seq(Byte) /\ Len(SubSeq(s, n + 1, Len(s))) < Len(s)
  <2>. HIDE DEF n
  <2>. QED  BY <1>2, LeftOver DEF n
<1>5. <<a>> \in Seq(Atoms)
  <2>. HIDE DEF a
  <2>. QED  BY <1>3 DEF a
<1>. QED  BY <1>1, <1>3, <1>4, <1>5, Zenon

\* A turn of the loop over a regular expression.
LEMMA EreTurnsOne ==
    ASSUME NEW s \in Seq(Byte), s # <<>>
    PROVE  /\ EreRest(s) = SubSeq(s, EreAtom(s).n + 1, Len(s))
           /\ EreRest(s) \in Seq(Byte) /\ Len(EreRest(s)) < Len(s)
           /\ EreOut(s) = <<EreAtom(s).atom>>
           /\ EreAtom(s).atom \in Atoms /\ EreOut(s) \in Seq(Atoms)
<1>1. EreRest(s) = SubSeq(s, EreAtom(s).n + 1, Len(s)) /\ EreOut(s) = <<EreAtom(s).atom>>
  BY DEF EreRest, EreOut
<1>2. EreAtom(s).n \in Nat \ {0}
  BY EreTakes
<1>3. EreAtom(s).atom \in Atoms
  <2>1. EreAtom(s).atom \in EreAll
    BY Zenon DEF EreAll
  <2>. QED  BY <2>1, Zenon DEF Atoms
<1>. DEFINE n == EreAtom(s).n
            a == EreAtom(s).atom
<1>4. SubSeq(s, n + 1, Len(s)) \in Seq(Byte) /\ Len(SubSeq(s, n + 1, Len(s))) < Len(s)
  <2>. HIDE DEF n
  <2>. QED  BY <1>2, LeftOver DEF n
<1>5. <<a>> \in Seq(Atoms)
  <2>. HIDE DEF a
  <2>. QED  BY <1>3 DEF a
<1>. QED  BY <1>1, <1>3, <1>4, <1>5, Zenon

\* Every turn of these loops takes something.
LEMMA AtomTurns ==
    /\ IsTurn(GlobRests, GlobOuts, Byte, Atoms)
    /\ IsTurn(EreRests, EreOuts, Byte, Atoms)
<1>0. <<>> \in Seq(Byte) /\ <<>> \in Seq(Atoms) /\ FALSE \in BOOLEAN
  OBVIOUS
<1>1. IsTurn(GlobRests, GlobOuts, Byte, Atoms)
  <2>1. GlobRest(<<>>, FALSE) = <<>> /\ GlobOut(<<>>, FALSE) = <<>>
    BY DEF GlobRest, GlobOut
  <2>2. GlobRests \in [Seq(Byte) -> Seq(Byte)] /\ GlobRests[<<>>] = <<>>
    BY <1>0, <2>1, GlobTurnsOne, Zenon DEF GlobRests
  <2>3. GlobOuts \in [Seq(Byte) -> Seq(Atoms)] /\ GlobOuts[<<>>] = <<>>
    BY <1>0, <2>1, GlobTurnsOne, Zenon DEF GlobOuts
  <2>4. \A x \in Seq(Byte) : x # <<>> => Len(GlobRests[x]) < Len(x)
    BY <1>0, GlobTurnsOne, Zenon DEF GlobRests
  <2>. QED  BY <2>2, <2>3, <2>4, Zenon DEF IsTurn
<1>2. IsTurn(EreRests, EreOuts, Byte, Atoms)
  <2>1. EreRest(<<>>) = <<>> /\ EreOut(<<>>) = <<>>
    BY DEF EreRest, EreOut
  <2>2. EreRests \in [Seq(Byte) -> Seq(Byte)] /\ EreRests[<<>>] = <<>>
    BY <1>0, <2>1, EreTurnsOne, Zenon DEF EreRests
  <2>3. EreOuts \in [Seq(Byte) -> Seq(Atoms)] /\ EreOuts[<<>>] = <<>>
    BY <1>0, <2>1, EreTurnsOne, Zenon DEF EreOuts
  <2>4. \A x \in Seq(Byte) : x # <<>> => Len(EreRests[x]) < Len(x)
    BY EreTurnsOne, Zenon DEF EreRests
  <2>. QED  BY <2>2, <2>3, <2>4, Zenon DEF IsTurn
<1>. QED  BY <1>1, <1>2

\* The atoms of a glob by its first one.
LEMMA GlobUnfolds ==
    ASSUME NEW s \in Seq(Byte), s # <<>>, NEW first \in BOOLEAN
    PROVE  /\ GlobAtoms(s, first) \in Seq(Atoms)
           /\ GlobAtoms(s, first) = <<GlobAtom(s, first).atom>> \o GlobAtoms(GlobRest(s, first), FALSE)
           /\ GlobAtoms(GlobRest(s, first), FALSE) \in Seq(Atoms)
<1>. DEFINE r == GlobRest(s, first)
            L(t) == Loop(GlobRests, GlobOuts, t)
<1>1. r \in Seq(Byte) /\ GlobOut(s, first) = <<GlobAtom(s, first).atom>> /\ GlobOut(s, first) \in Seq(Atoms)
  BY GlobTurnsOne
<1>2. \A t, f : GlobAtoms(t, f) = GlobOut(t, f) \o L(GlobRest(t, f))
  BY Zenon DEF GlobAtoms, GlobRests, GlobOuts
<1>3. L(r) \in Seq(Atoms)
  BY <1>1, AtomTurns, LoopType
<1>4. GlobAtoms(r, FALSE) = L(r)
  <2>1. CASE r = <<>>
    <3>1. GlobOut(<<>>, FALSE) = <<>> /\ GlobRest(<<>>, FALSE) = <<>>
      BY DEF GlobOut, GlobRest
    <3>2. L(<<>>) = <<>>
      BY LoopEmpty
    <3>3. <<>> \o <<>> = <<>>
      OBVIOUS
    <3>. QED  BY <1>2, <2>1, <3>1, <3>2, <3>3, Zenon
  <2>2. CASE r # <<>>
    <3>1. LoopUnfolds(GlobRests, GlobOuts, r)
      BY <1>1, <2>2, AtomTurns, LoopTurn
    <3>2. GlobOuts[r] = GlobOut(r, FALSE) /\ GlobRests[r] = GlobRest(r, FALSE)
      BY <1>1, Zenon DEF GlobOuts, GlobRests
    <3>. QED  BY <1>2, <3>1, <3>2, Zenon DEF LoopUnfolds
  <2>. QED  BY <2>1, <2>2
<1>5. GlobAtoms(s, first) = GlobOut(s, first) \o L(r)
  BY <1>2, Zenon
<1>. DEFINE h == GlobOut(s, first)
            l == L(r)
<1>6. h \o l \in Seq(Atoms)
  <2>1. h \in Seq(Atoms) /\ l \in Seq(Atoms)
    BY <1>1, <1>3
  <2>. HIDE DEF h, l
  <2>. QED  BY <2>1
<1>. QED  BY <1>1, <1>3, <1>4, <1>5, <1>6, Zenon

\* The empty glob has none.
LEMMA GlobNone == \A first : GlobAtoms(<<>>, first) = <<>>
<1>1. \A first : GlobOut(<<>>, first) = <<>> /\ GlobRest(<<>>, first) = <<>>
  BY DEF GlobOut, GlobRest
<1>2. Loop(GlobRests, GlobOuts, <<>>) = <<>>
  BY LoopEmpty
<1>3. <<>> \o <<>> = <<>>
  OBVIOUS
<1>. QED  BY <1>1, <1>2, <1>3, Zenon DEF GlobAtoms, GlobRests, GlobOuts

\* The atoms of a regular expression.
LEMMA EreType == EreAtoms(<<>>) = <<>> /\ \A s \in Seq(Byte) : EreAtoms(s) \in Seq(Atoms)
<1>1. \A s : EreAtoms(s) = Loop(EreRests, EreOuts, s)
  BY Zenon DEF EreAtoms, EreRests, EreOuts
<1>2. Loop(EreRests, EreOuts, <<>>) = <<>>
  BY LoopEmpty
<1>3. ASSUME NEW s \in Seq(Byte) PROVE Loop(EreRests, EreOuts, s) \in Seq(Atoms)
  BY AtomTurns, LoopType
<1>. QED  BY <1>1, <1>2, <1>3, Zenon

\* The atom that is read first, and those behind it.
LEMMA EreReads ==
    ASSUME NEW o \in Seq(Byte), o # <<>>, NEW a, Reads(o, a), NEW t \in Tails
    PROVE  EreAtoms(o \o t) = <<a>> \o EreAtoms(t) /\ a \in Atoms
<1>. DEFINE u == o \o t
<1>0. t \in Seq(Byte)
  BY DEF Tails
<1>1. u \in Seq(Byte) /\ u # <<>>
  BY Followed
<1>2. EreAtom(u) = Atom(Len(o), a)
  BY Zenon DEF Reads
<1>3. EreAtom(u).n = Len(o) /\ EreAtom(u).atom = a
  BY <1>2 DEF Atom
<1>4. SubSeq(u, Len(o) + 1, Len(u)) = t
  BY <1>0
<1>. HIDE DEF u
<1>5. EreRest(u) = t /\ EreOut(u) = <<a>> /\ a \in Atoms
  <2>1. EreRest(u) = SubSeq(u, EreAtom(u).n + 1, Len(u)) /\ EreOut(u) = <<EreAtom(u).atom>> /\ EreAtom(u).atom \in Atoms
    BY <1>1, EreTurnsOne
  <2>. QED  BY <1>3, <1>4, <2>1, Zenon
<1>6. LoopUnfolds(EreRests, EreOuts, u)
  BY <1>1, AtomTurns, LoopTurn
<1>7. EreRests[u] = EreRest(u) /\ EreOuts[u] = EreOut(u)
  BY <1>1, Zenon DEF EreRests, EreOuts
<1>8. \A s : EreAtoms(s) = Loop(EreRests, EreOuts, s)
  BY Zenon DEF EreAtoms, EreRests, EreOuts
<1>9. EreAtoms(u) = <<a>> \o EreAtoms(t)
  BY <1>5, <1>6, <1>7, <1>8, Zenon DEF LoopUnfolds
<1>. QED  BY <1>5, <1>9 DEF u

\* What follows d does not change what d is read as.
Splits(d) == \A t \in Tails : EreAtoms(d \o t) = EreAtoms(d) \o EreAtoms(t)

\* It stays so when something is written that is read as an atom.
LEMMA SplitsMore ==
    ASSUME NEW d \in Seq(Byte), Splits(d), NEW o \in Seq(Byte), o # <<>>, o[1] # Star, NEW a, Reads(o, a)
    PROVE  EreAtoms(d \o o) = EreAtoms(d) \o <<a>> /\ Splits(d \o o) /\ a \in Atoms
<1>. DEFINE e == EreAtoms(d)
<1>1. e \in Seq(Atoms)
  BY EreType
<1>2. <<>> \in Tails /\ o \in Tails
  BY DEF Tails
<1>3. EreAtoms(o) = <<a>> /\ a \in Atoms
  <2>1. EreAtoms(o \o <<>>) = <<a>> \o EreAtoms(<<>>) /\ a \in Atoms
    BY <1>2, EreReads
  <2>2. o \o <<>> = o /\ <<a>> \o <<>> = <<a>>
    OBVIOUS
  <2>. QED  BY <2>1, <2>2, EreType, Zenon
<1>4. EreAtoms(d \o o) = e \o <<a>>
  BY <1>2, <1>3, Zenon DEF Splits
<1>5. ASSUME NEW t \in Tails PROVE EreAtoms((d \o o) \o t) = EreAtoms(d \o o) \o EreAtoms(t)
  <2>. DEFINE w == EreAtoms(t)
  <2>0. t \in Seq(Byte) /\ w \in Seq(Atoms)
    BY EreType DEF Tails
  <2>1. o \o t \in Tails
    <3>1. o \o t \in Seq(Byte) /\ Len(o) \in Nat \ {0} /\ \A k \in 1 .. Len(o) : (o \o t)[k] = o[k]
      BY Followed
    <3>2. 1 \in 1 .. Len(o)
      BY <3>1
    <3>3. (o \o t)[1] = o[1]
      BY <3>1, <3>2, Zenon
    <3>. QED  BY <3>1, <3>3, Zenon DEF Tails
  <2>2. Grouped(d, o, t)
    BY <2>0, Group3
  <2>3. EreAtoms((d \o o) \o t) = e \o (<<a>> \o w)
    <3>1. EreAtoms(o \o t) = <<a>> \o w
      BY EreReads
    <3>2. EreAtoms(d \o (o \o t)) = e \o EreAtoms(o \o t)
      BY <2>1, Zenon DEF Splits
    <3>. QED  BY <2>2, <3>1, <3>2, Zenon DEF Grouped
  <2>. HIDE DEF e, w
  <2>4. <<a>> \in Seq(Atoms)
    BY <1>3
  <2>5. Grouped(e, <<a>>, w)
    BY <1>1, <2>0, <2>4, Group3
  <2>. QED  BY <1>4, <2>3, <2>5, Zenon DEF Grouped, w
<1>6. Splits(d \o o)
  BY <1>5, Zenon DEF Splits
<1>. QED  BY <1>3, <1>4, <1>6

\* What glob2re() has written of v, and what is left.
Converted(v, s, d) ==
    /\ s \in Seq(Byte) /\ d \in Seq(Byte) /\ (s # <<>> \/ d # <<>>)
    /\ GlobAtoms(v, TRUE) = EreAtoms(d) \o GlobAtoms(s, d = <<>>)
    /\ Splits(d)
    /\ \A k \in DOMAIN EreAtoms(d) : EreAtoms(d)[k] # Wrong
    /\ d # <<>> => EreAtoms(d) # <<>>

BadGlob(v) == GlobAtoms(v, TRUE) = <<>> \/ \E k \in DOMAIN GlobAtoms(v, TRUE) : GlobAtoms(v, TRUE)[k] = Wrong

\* Nothing is written yet.
LEMMA ConvertStart ==
    ASSUME NEW v \in Seq(Byte), v # <<>>
    PROVE  Converted(v, v, <<>>)
<1>1. EreAtoms(<<>>) = <<>>
  BY EreType
<1>2. <<>> \in Seq(Byte) /\ (<<>> = <<>>) = TRUE /\ DOMAIN <<>> = {}
  OBVIOUS
<1>3. GlobAtoms(v, TRUE) = <<>> \o GlobAtoms(v, TRUE)
  <2>1. GlobAtoms(v, TRUE) \in Seq(Atoms)
    BY GlobUnfolds
  <2>. QED  BY <2>1
<1>4. Splits(<<>>)
  <2>. SUFFICES ASSUME NEW t \in Tails PROVE EreAtoms(<<>> \o t) = EreAtoms(<<>>) \o EreAtoms(t)
    BY DEF Splits
  <2>1. t \in Seq(Byte)
    BY DEF Tails
  <2>2. EreAtoms(t) \in Seq(Atoms)
    BY <2>1, EreType
  <2>3. <<>> \o t = t /\ <<>> \o EreAtoms(t) = EreAtoms(t)
    BY <2>1, <2>2
  <2>. QED  BY <1>1, <2>3, Zenon
<1>. QED  BY <1>1, <1>2, <1>3, <1>4, Zenon DEF Converted

\* A turn goes on with that, or v is wrong.
LEMMA ConvertTurn ==
    ASSUME NEW v, NEW s, NEW d, Converted(v, s, d), s # <<>>
    PROVE  /\ GlobTurn(s, d = <<>>).n > 0
              => Converted(v, Advance(s, GlobTurn(s, d = <<>>).n), d \o GlobTurn(s, d = <<>>).o)
           /\ ~ (GlobTurn(s, d = <<>>).n > 0) => BadGlob(v)
<1>. DEFINE first == d = <<>>
            g == GlobTurn(s, first)
            a == GlobAtom(s, first).atom
            n == GlobAtom(s, first).n
            e == EreAtoms(d)
            w == GlobAtoms(GlobRest(s, first), FALSE)
            u == GlobAtoms(v, TRUE)
<1>1. /\ s \in Seq(Byte) /\ d \in Seq(Byte) /\ first \in BOOLEAN
      /\ u = e \o GlobAtoms(s, first) /\ Splits(d)
      /\ \A k \in DOMAIN e : e[k] # Wrong
  BY Zenon DEF Converted
<1>2. TurnReads(g, GlobAtom(s, first))
  BY <1>1, GlobReads
<1>3. GlobAtoms(s, first) = <<a>> \o w /\ w \in Seq(Atoms)
  BY <1>1, GlobUnfolds
<1>4. a \in Atoms /\ GlobRest(s, first) = SubSeq(s, n + 1, Len(s))
  BY <1>1, GlobTurnsOne
<1>5. e \in Seq(Atoms)
  BY <1>1, EreType
<1>6. u = (e \o <<a>>) \o w
  <2>1. e \in Seq(Atoms) /\ w \in Seq(Atoms) /\ a \in Atoms
    BY <1>3, <1>4, <1>5
  <2>. HIDE DEF e, w, a
  <2>2. <<a>> \in Seq(Atoms)
    BY <2>1
  <2>3. Grouped(e, <<a>>, w)
    BY <2>1, <2>2, Group3
  <2>. QED  BY <1>1, <1>3, <2>3, Zenon DEF Grouped
<1>7. ASSUME g.n > 0 PROVE Converted(v, Advance(s, g.n), d \o g.o)
  <2>. DEFINE o == g.o
              x == d \o o
  <2>1. n = g.n /\ a # Wrong /\ Reads(o, a) /\ o \in Seq(Byte) /\ o # <<>> /\ o[1] # Star
    BY <1>2, <1>7, Zenon DEF TurnReads
  <2>2. g.n \in 1 .. Len(s)
    BY <1>1, <1>7, GlobTurnInside DEF TurnFits
  <2>. HIDE DEF g, o
  <2>3. Advance(s, g.n) \in Seq(Byte) /\ Advance(s, g.n) = SubSeq(s, n + 1, Len(s))
    <3>1. Advance(s, g.n) \in Seq(Byte)
      BY <1>1, <2>2, DropFirst
    <3>2. ~ (g.n > Len(s))
      BY <1>1, <2>2
    <3>. QED  BY <2>1, <3>1, <3>2, Zenon DEF Advance
  <2>4. EreAtoms(x) = e \o <<a>> /\ Splits(x)
    BY <1>1, <2>1, SplitsMore
  <2>5. x \in Seq(Byte) /\ x # <<>>
    <3>1. Len(x) = Len(d) + Len(o) /\ Len(o) # 0 /\ Len(o) \in Nat /\ Len(d) \in Nat /\ x \in Seq(Byte)
      BY <1>1, <2>1
    <3>. HIDE DEF x
    <3>2. Len(x) # 0
      BY <3>1
    <3>. QED  BY <3>1, <3>2
  <2>. HIDE DEF x
  <2>6. e \o <<a>> # <<>> /\ \A k \in DOMAIN (e \o <<a>>) : (e \o <<a>>)[k] # Wrong
    <3>0. e \in Seq(Atoms) /\ a \in Atoms /\ a # Wrong /\ \A k \in DOMAIN e : e[k] # Wrong
      BY <1>1, <1>4, <1>5, <2>1
    <3>. HIDE DEF e, a
    <3>. DEFINE p == Append(e, a)
    <3>1. e \o <<a>> = p
      BY <3>0
    <3>2. /\ p \in Seq(Atoms) /\ p # <<>> /\ Len(p) = Len(e) + 1 /\ Len(e) \in Nat
          /\ p[Len(e) + 1] = a /\ \A k \in 1 .. Len(e) : p[k] = e[k]
      BY <3>0, Appended
    <3>. HIDE DEF p
    <3>3. ASSUME NEW k \in DOMAIN p PROVE p[k] # Wrong
      <4>1. k \in 1 .. Len(e) \/ k = Len(e) + 1
        BY <3>2
      <4>2. DOMAIN e = 1 .. Len(e)
        BY <3>0
      <4>. QED  BY <3>0, <3>2, <4>1, <4>2, Zenon
    <3>. QED  BY <3>1, <3>2, <3>3, Zenon
  <2>7. (x = <<>>) = FALSE
    BY <2>5
  <2>8. u = EreAtoms(x) \o GlobAtoms(Advance(s, g.n), x = <<>>)
    BY <1>4, <1>6, <2>3, <2>4, <2>7, Zenon
  <2>9. Converted(v, Advance(s, g.n), x)
    BY <2>3, <2>4, <2>5, <2>6, <2>8, Zenon DEF Converted
  <2>. QED  BY <2>9 DEF x, o
<1>8. ASSUME ~ (g.n > 0) PROVE BadGlob(v)
  <2>1. a = Wrong
    BY <1>2, <1>8, Zenon DEF TurnReads
  <2>2. e \in Seq(Atoms) /\ w \in Seq(Atoms) /\ a \in Atoms
    BY <1>3, <1>4, <1>5
  <2>3. u = (e \o <<a>>) \o w
    BY <1>6
  <2>. HIDE DEF e, w, a, u
  <2>4. Len(e) + 1 \in DOMAIN u /\ u[Len(e) + 1] = a
    <3>. DEFINE h == <<a>>
    <3>1. h \in Seq(Atoms) /\ Len(h) = 1 /\ h[1] = a
      BY <2>2
    <3>. HIDE DEF h
    <3>2. /\ u \in Seq(Atoms) /\ Len(u) = Len(e) + Len(h) + Len(w)
          /\ \A k \in 1 .. Len(h) : u[Len(e) + k] = h[k]
      BY <2>2, <2>3, <3>1, JoinedThree DEF h
    <3>3. Len(e) \in Nat /\ Len(w) \in Nat
      BY <2>2
    <3>4. DOMAIN u = 1 .. Len(u)
      BY <3>2
    <3>. QED  BY <3>1, <3>2, <3>3, <3>4
  <2>. QED  BY <2>1, <2>4, Zenon DEF BadGlob, u
<1>. QED  BY <1>7, <1>8

\* At the end all of v has been written.
LEMMA ConvertEnd ==
    ASSUME NEW v, NEW d, Converted(v, <<>>, d)
    PROVE  ~ BadGlob(v) /\ EreAtoms(d) = GlobAtoms(v, TRUE)
<1>1. d \in Seq(Byte) /\ EreAtoms(d) # <<>> /\ GlobAtoms(v, TRUE) = EreAtoms(d) \o GlobAtoms(<<>>, d = <<>>)
  BY Zenon DEF Converted
<1>2. GlobAtoms(<<>>, d = <<>>) = <<>>
  BY GlobNone
<1>3. EreAtoms(d) \in Seq(Atoms)
  BY <1>1, EreType
<1>4. EreAtoms(d) \o <<>> = EreAtoms(d)
  BY <1>3
<1>5. GlobAtoms(v, TRUE) = EreAtoms(d)
  BY <1>1, <1>2, <1>4, Zenon
<1>. QED  BY <1>1, <1>5, Zenon DEF BadGlob, Converted

-----------------------------------------------------------------------------
(* What getargs() makes of -glob *)

GlobSeen(v) == DOMAIN st = PassFields /\ st.pattern = v /\ st.flags = {"GLOB"} /\ st.cstring = FALSE

\* The states of getargs() on a command line with the glob v.
GlobAt(v) ==
    \/ phase = "args" /\ i = 1 /\ st = SubCommand(line.cmd)
    \/ phase = "args" /\ i = 2 /\ GlobSeen(v)
    \/ phase = "text" /\ GlobSeen(v)
    \/ phase = "glob" /\ GlobSeen(v) /\ Converted(v, src, dst)
    \/ phase = "usage" /\ BadGlob(v)
    \/ phase = "build" /\ ~ BadGlob(v) /\ EreAtoms(st.pattern) = GlobAtoms(v, TRUE)

GlobLineInv == line \in CommandLines /\ (HasGlob => GlobAt(line.args[1].v))

\* getargs() starts in such a state.
LEMMA GlobLineInit == ArgsInit => GlobLineInv
BY ZenonT(40) DEF ArgsInit, GlobLineInv, GlobAt

\* What such a command line is.
LEMMA GlobLine ==
    ASSUME line \in CommandLines, HasGlob
    PROVE  /\ line.cmd = "expect" /\ Len(line.args) = 1 /\ line.args[1].o = "glob"
           /\ line.args[1].v \in Seq(Byte) /\ line.args[1].v # NULL
<1>1. line.cmd = "expect" /\ Len(line.args) = 1 /\ line.args[1].o = "glob" /\ line.args[1].v # NULL
  BY DEF HasGlob
<1>2. 1 \in DOMAIN line.args
  <2>1. DOMAIN line.args = 1 .. Len(line.args)
    BY ArgumentsAssumption
  <2>. QED  BY <1>1, <2>1
<1>3. line.args[1].v \in {NULL} \cup Seq(Byte)
  <2>1. line.args[1].o \in {"exact", "re", "glob", "bare", "--"}
    BY <1>1
  <2>. QED  BY <1>2, <2>1, ArgumentsAssumption, ZenonT(40)
<1>. QED  BY <1>1, <1>3

\* The option is taken.
LEMMA GlobTaken ==
    ASSUME line \in CommandLines, HasGlob, phase = "args", i = 1, st = SubCommand(line.cmd), GetArg
    PROVE  phase' = "args" /\ i' = 2 /\ GlobSeen(line.args[1].v)'
<1>. DEFINE a == line.args[1]
<1>1. line.cmd = "expect" /\ Len(line.args) = 1 /\ a.o = "glob" /\ a.v # NULL
  BY GlobLine
<1>2. a.o \in TextOpts["expect"] /\ a.o \notin IntOpts["expect"] /\ a.o \notin BoolOpts["expect"]
  <2>. HIDE DEF a
  <2>. QED  BY <1>1, OptionTables
<1>3. ~ UsageError(a)
  <2>1. line.cmd # "get" /\ line.cmd # "send" /\ a.o # "bare"
    BY <1>1
  <2>. QED  BY <1>1, <1>2, <2>1 DEF UsageError
<1>4. i <= Len(line.args) /\ ~ EndsOptions(a) /\ ~ Overruns(a)
  BY <1>1 DEF EndsOptions, Overruns
<1>5. st' = Takes(a) /\ i' = 2 /\ phase' = "args" /\ line' = line
  BY <1>3, <1>4 DEF GetArg
<1>6. st = Pass(1, FALSE, {})
  BY <1>1 DEF SubCommand
<1>7. DOMAIN st = PassFields /\ st.flags = {} /\ st.cstring = FALSE
  BY <1>6 DEF Pass, PassFields
<1>8. Takes(a) = pass_arg(a)
  BY <1>1 DEF Takes, IsPass
<1>9. a.o \in DOMAIN PatternFlag /\ PatternFlag[a.o] = "GLOB"
  BY <1>1 DEF PatternFlag
<1>10. pass_arg(a) = [st EXCEPT !.pattern = a.v, !.flags = @ \cup {"GLOB"}]
  BY <1>9, Zenon DEF pass_arg
<1>11. /\ DOMAIN st' = PassFields /\ st'.cstring = FALSE /\ st'.pattern = a.v /\ st'.flags = {"GLOB"}
  <2>. DEFINE w == a.v
  <2>1. st' = [st EXCEPT !.pattern = w, !.flags = @ \cup {"GLOB"}]
    BY <1>5, <1>8, <1>10, Zenon
  <2>. HIDE DEF w
  <2>2. /\ DOMAIN st' = PassFields /\ st'.cstring = FALSE /\ st'.pattern = w
        /\ st'.flags = {} \cup {"GLOB"}
    BY <1>7, <2>1 DEF PassFields
  <2>3. {} \cup {"GLOB"} = {"GLOB"}
    OBVIOUS
  <2>. QED  BY <2>2, <2>3, Zenon DEF w
<1>. QED  BY <1>5, <1>11 DEF GlobSeen

\* Nothing is wrong with it.
LEMMA GlobChecked ==
    ASSUME line \in CommandLines, HasGlob, phase = "args", GlobSeen(line.args[1].v), CheckArgs
    PROVE  phase' = "text" /\ st' = st
<1>1. line.cmd = "expect" /\ line.args[1].v # NULL
  BY GlobLine
<1>2. st.flags = {"GLOB"} /\ st.pattern # NULL /\ st.cstring = FALSE
  BY <1>1 DEF GlobSeen
<1>3. ~ Refused
  <2>1. st.flags \cap Kinds = {"GLOB"}
    BY <1>2 DEF Kinds
  <2>2. Cardinality({"GLOB"}) = 1
    BY FS_Singleton
  <2>3. Exclusive
    BY <2>1, <2>2 DEF Exclusive
  <2>4. "NEWLINE" \notin st.flags
    BY <1>2
  <2>. QED  BY <1>1, <2>3, <2>4 DEF Refused, PassRefused
<1>4. HasText
  BY <1>1, <1>2 DEF HasText, IsPass
<1>5. line.cmd # "send" /\ ~ st.cstring
  BY <1>1, <1>2
<1>. QED  BY <1>3, <1>4, <1>5, Zenon DEF CheckArgs

\* No step of getargs() leaves these states.
LEMMA GlobLineNext == GlobLineInv /\ [getargs]_argVars => GlobLineInv'
<1>. SUFFICES ASSUME GlobLineInv, [getargs]_argVars PROVE GlobLineInv'
  OBVIOUS
<1>0. line \in CommandLines
  BY DEF GlobLineInv
<1>1. CASE UNCHANGED argVars
  <2>1. line' = line /\ i' = i /\ st' = st /\ phase' = phase /\ src' = src /\ dst' = dst
    BY <1>1 DEF argVars
  <2>2. ASSUME HasGlob PROVE GlobAt(line.args[1].v)'
    BY <2>1, <2>2 DEF GlobLineInv, GlobAt, GlobSeen
  <2>3. HasGlob' <=> HasGlob
    BY <2>1 DEF HasGlob
  <2>. QED  BY <1>0, <2>1, <2>2, <2>3 DEF GlobLineInv
<1>2. CASE getargs
  <2>1. line' = line /\ line' \in CommandLines
    BY <1>0, <1>2 DEF getargs, GetArg, CheckArgs, Unesc, Unescaped, CheckText, GlobLoop, GlobDone
  <2>2. HasGlob' <=> HasGlob
    BY <2>1 DEF HasGlob
  <2>. SUFFICES ASSUME HasGlob PROVE GlobAt(line.args[1].v)'
    BY <2>1, <2>2 DEF GlobLineInv
  <2>. DEFINE v == line.args[1].v
  <2>3. v' = v /\ v \in Seq(Byte) /\ Len(line.args) = 1 /\ line.cmd = "expect"
    BY <1>0, <2>1, GlobLine
  <2>4. GlobAt(v)
    BY DEF GlobLineInv
  <2>5. CASE phase = "args" /\ i = 1 /\ st = SubCommand(line.cmd)
    <3>1. GetArg
      BY <1>2, <2>3, <2>5 DEF getargs, CheckArgs, Unesc, Unescaped, CheckText, GlobLoop, GlobDone
    <3>2. phase' = "args" /\ i' = 2 /\ GlobSeen(v)'
      BY <1>0, <2>5, <3>1, GlobTaken
    <3>. QED  BY <3>2 DEF GlobAt
  <2>6. CASE phase = "args" /\ i = 2 /\ GlobSeen(v)
    <3>1. CheckArgs
      BY <1>2, <2>3, <2>6 DEF getargs, GetArg, Unesc, Unescaped, CheckText, GlobLoop, GlobDone
    <3>2. phase' = "text" /\ st' = st
      BY <1>0, <2>6, <3>1, GlobChecked
    <3>3. GlobSeen(v)'
      BY <2>3, <2>6, <3>2 DEF GlobSeen
    <3>. QED  BY <3>2, <3>3 DEF GlobAt
  <2>7. CASE phase = "text" /\ GlobSeen(v)
    <3>1. CheckText
      BY <1>2, <2>7 DEF getargs, GetArg, CheckArgs, Unesc, Unescaped, GlobLoop, GlobDone
    <3>2. IsPass(line.cmd) /\ "GLOB" \in st.flags /\ st.pattern = v /\ line.cmd # "send"
      BY <2>3, <2>7 DEF IsPass, GlobSeen
    <3>3. CASE v = <<>>
      <4>1. TooShortOrLong
        BY <3>2, <3>3 DEF TooShortOrLong
      <4>2. phase' = "usage"
        BY <3>1, <4>1, Zenon DEF CheckText
      <4>3. BadGlob(v)
        BY <3>3, GlobNone, Zenon DEF BadGlob
      <4>. QED  BY <2>3, <4>2, <4>3, Zenon DEF GlobAt
    <3>4. CASE v # <<>>
      <4>1. ~ TooShortOrLong
        BY <3>2, <3>4 DEF TooShortOrLong
      <4>2. phase' = "glob" /\ GlobStart(st.pattern) /\ st' = st
        BY <3>1, <3>2, <4>1, Zenon DEF CheckText
      <4>3. src' = v /\ dst' = <<>>
        BY <3>2, <4>2, Zenon DEF GlobStart
      <4>4. Converted(v, v, <<>>)
        BY <2>3, <3>4, ConvertStart
      <4>5. GlobSeen(v)'
        BY <2>3, <2>7, <4>2 DEF GlobSeen
      <4>6. Converted(v', src', dst')
        BY <2>3, <4>3, <4>4, Zenon
      <4>. QED  BY <4>2, <4>5, <4>6, Zenon DEF GlobAt
    <3>. QED  BY <3>3, <3>4
  <2>8. CASE phase = "glob" /\ GlobSeen(v) /\ Converted(v, src, dst)
    <3>1. GlobLoop \/ GlobDone
      BY <1>2, <2>8 DEF getargs, GetArg, CheckArgs, CheckText, Unesc, Unescaped
    <3>. DEFINE g == GlobTurn(src, dst = <<>>)
    <3>2. CASE GlobLoop
      <4>1. /\ src # <<>> /\ g.n > 0 /\ dst' = dst \o g.o /\ src' = Advance(src, g.n)
            /\ st' = st /\ phase' = "glob"
        BY <2>8, <3>2, Zenon DEF GlobLoop, GlobStep, GlobGoesOn, AtStart
      <4>2. Converted(v, Advance(src, g.n), dst \o g.o)
        BY <2>8, <4>1, ConvertTurn
      <4>3. GlobSeen(v)'
        BY <2>3, <2>8, <4>1 DEF GlobSeen
      <4>4. Converted(v', src', dst')
        BY <2>3, <4>1, <4>2, Zenon
      <4>. QED  BY <4>1, <4>3, <4>4, Zenon DEF GlobAt
    <3>3. CASE GlobDone /\ GlobFails
      <4>1. src # <<>> /\ g.n = 0 /\ phase' = "usage"
        BY <3>3, Zenon DEF GlobDone, GlobFails, AtStart
      <4>2. ~ (g.n > 0)
        BY <4>1
      <4>3. BadGlob(v)
        BY <2>8, <4>1, <4>2, ConvertTurn
      <4>. QED  BY <2>3, <4>1, <4>3, Zenon DEF GlobAt
    <3>4. CASE GlobDone /\ ~ GlobFails
      <4>1. src = <<>> /\ phase' = "build" /\ st' = [st EXCEPT !.pattern = dst, !.flags = IsEre(@)]
        BY <3>4, Zenon DEF GlobDone
      <4>2. ~ BadGlob(v) /\ EreAtoms(dst) = GlobAtoms(v, TRUE)
        BY <2>8, <4>1, ConvertEnd, Zenon
      <4>3. st'.pattern = dst
        BY <2>8, <4>1 DEF GlobSeen, PassFields
      <4>. QED  BY <2>3, <4>1, <4>2, <4>3, Zenon DEF GlobAt
    <3>. QED  BY <3>1, <3>2, <3>3, <3>4
  <2>9. CASE phase \in {"usage", "build"}
    BY <1>2, <2>9 DEF getargs, GetArg, CheckArgs, Unesc, Unescaped, CheckText, GlobLoop, GlobDone
  <2>. QED  BY <2>4, <2>5, <2>6, <2>7, <2>8, <2>9 DEF GlobAt
<1>. QED  BY <1>1, <1>2

\* -glob: for every pattern, the regular expression that getargs() makes is read
\* as the very atoms that the table above glob2re() says the glob has, and a
\* glob is refused only when it is empty or when the table says so.
THEOREM GlobsMean == ArgsSpec => []GlobMeans
<1>1. GlobLineInv => GlobMeans
  <2>. SUFFICES ASSUME GlobLineInv, phase \in {"usage", "build"}, HasGlob
                PROVE  IF phase = "usage" THEN BadGlob(line.args[1].v)
                       ELSE /\ ~ BadGlob(line.args[1].v)
                            /\ EreAtoms(st.pattern) = GlobAtoms(line.args[1].v, TRUE)
    BY Zenon DEF GlobMeans, BadGlob
  <2>. QED  BY DEF GlobLineInv, GlobAt
<1>. QED  BY <1>1, GlobLineInit, GlobLineNext, PTL DEF ArgsSpec

-----------------------------------------------------------------------------
(* The kind of pattern *)

OneKind(flags) == \E k : flags \cap Kinds \subseteq {k}

\* What is known of a pattern and its flags, whatever options were given.
PassOk ==
    /\ DOMAIN st = PassFields
    /\ st.pattern = NULL => st.flags \cap {"EXACT", "ERE", "GLOB"} = {}
    /\ st.pattern # NULL => st.pattern \in Seq(Byte)
    /\ line.cmd # "expect" => st.flags \cap Kinds \subseteq {"ERE"}
    /\ phase \notin {"args", "usage", "overrun"} => OneKind(st.flags)
    /\ phase = "unesc" => st.pattern # NULL /\ src \in Seq(Byte) /\ dst \in Seq(0 .. 255)
    /\ phase = "text" => st.pattern # NULL
    /\ phase = "glob" =>
          "GLOB" \in st.flags /\ src \in Seq(Byte) /\ dst \in Seq(Byte) /\ (src # <<>> \/ dst # <<>>)
    /\ phase = "build" => "GLOB" \notin st.flags /\ st.pattern # <<>>

KindInv == line \in CommandLines /\ i \in Nat \ {0} /\ (IsPass(line.cmd) => PassOk)

\* NULL is no string.
LEMMA NullNoString == NULL \notin Seq(Byte) /\ NULL # <<>>
<1>1. Byte \subseteq Int /\ <<>> \in Seq(Byte)
  BY ByteInt
<1>2. \A s \in Seq(Byte) : s \in Seq(Int)
  BY <1>1, SeqSubset
<1>. QED  BY <1>1, <1>2, ArgumentsAssumption, Zenon

\* One kind and at most one are the same.
LEMMA KindCount ==
    ASSUME NEW flags
    PROVE  /\ Cardinality(flags \cap Kinds) <= 1 => OneKind(flags)
           /\ OneKind(flags) => Cardinality(flags \cap {"EXACT", "ERE", "EOF"}) <= 1
<1>. DEFINE S == flags \cap Kinds
            T == flags \cap {"EXACT", "ERE", "EOF"}
<1>1. IsFiniteSet(Kinds)
  <2>1. IsFiniteSet({}) 
    BY FS_EmptySet
  <2>2. IsFiniteSet({} \cup {"EOF"} \cup {"EXACT"} \cup {"ERE"} \cup {"GLOB"})
    BY <2>1, FS_AddElement
  <2>3. {} \cup {"EOF"} \cup {"EXACT"} \cup {"ERE"} \cup {"GLOB"} = Kinds
    BY DEF Kinds
  <2>. QED  BY <2>2, <2>3
<1>2. IsFiniteSet(S)
  BY <1>1, FS_Subset
<1>3. ASSUME Cardinality(S) <= 1 PROVE OneKind(flags)
  <2>1. Cardinality(S) \in Nat
    BY <1>2, FS_CardinalityType
  <2>. HIDE DEF S
  <2>2. Cardinality(S) = 0 \/ Cardinality(S) = 1
    BY <1>3, <2>1
  <2>3. CASE Cardinality(S) = 0
    <3>1. S = {}
      BY <1>2, <2>3, FS_EmptySet
    <3>2. S \subseteq {"EOF"}
      BY <3>1
    <3>. QED  BY <3>2 DEF OneKind, S
  <2>4. CASE Cardinality(S) = 1
    <3>1. PICK x : S = {x}
      BY <1>2, <2>4, FS_Singleton
    <3>. QED  BY <3>1 DEF OneKind, S
  <2>. QED  BY <2>2, <2>3, <2>4
<1>4. ASSUME OneKind(flags) PROVE Cardinality(T) <= 1
  <2>1. PICK k : S \subseteq {k}
    BY <1>4 DEF OneKind
  <2>2. T \subseteq S
    BY DEF Kinds
  <2>3. T = {} \/ T = {k}
    BY <2>1, <2>2
  <2>. HIDE DEF T
  <2>4. Cardinality({}) = 0 /\ Cardinality({k}) = 1
    BY FS_EmptySet, FS_Singleton
  <2>. QED  BY <2>3, <2>4
<1>. QED  BY <1>3, <1>4

\* getargs() starts without a pattern.
LEMMA KindInit == ArgsInit => KindInv
<1>. SUFFICES ASSUME ArgsInit PROVE KindInv
  OBVIOUS
<1>1. line \in CommandLines /\ i \in Nat \ {0} /\ phase = "args" /\ st = SubCommand(line.cmd)
  BY DEF ArgsInit
<1>2. ASSUME IsPass(line.cmd) PROVE PassOk
  <2>1. st \in {Pass(1, FALSE, {}), Pass(2, TRUE, {"EXIT"}), Pass(3, TRUE, {"EXIT"})}
    BY <1>1, <1>2 DEF SubCommand, IsPass
  <2>2. DOMAIN st = PassFields /\ st.pattern = NULL /\ st.flags \subseteq {"EXIT"}
    BY <2>1 DEF Pass, PassFields
  <2>. QED  BY <1>1, <2>2 DEF PassOk, Kinds
<1>. QED  BY <1>1, <1>2 DEF KindInv

\* The options of the sub-commands that have a pattern.
LEMMA PassOptions ==
    ASSUME NEW cmd, IsPass(cmd), NEW o, o \in FlagOpts[cmd] \cup TextOpts[cmd] \cup IntOpts[cmd] \cup BoolOpts[cmd]
    PROVE  /\ o \in DOMAIN PatternFlag =>
                 o \in TextOpts[cmd] \ {"--"} /\ o \in {"exact", "re", "glob", "bare", "--"}
           /\ o \in DOMAIN PatternFlag /\ cmd # "expect" => PatternFlag[o] = "ERE"
           /\ o \in DOMAIN SimpleFlag /\ cmd # "expect" => SimpleFlag[o] \notin Kinds
<1>1. DOMAIN PatternFlag = {"exact", "re", "glob", "bare"} /\ PatternFlag["re"] = "ERE"
  BY DEF PatternFlag
<1>2. /\ DOMAIN SimpleFlag = {"nocase", "anchor", "eof"}
      /\ SimpleFlag["nocase"] = "ICASE" /\ SimpleFlag["anchor"] = "NEWLINE"
  BY DEF SimpleFlag
<1>3. CASE cmd = "expect"
  BY <1>1, <1>3, OptionTables
<1>4. CASE cmd = "interact"
  <2>1. o \in {"nocase", "anchor", "cstring", "nodetach", "re", "subst", "lookback"} /\ TextOpts[cmd] = {"re", "subst"}
    BY <1>4, OptionTables
  <2>. QED  BY <1>1, <1>2, <2>1 DEF Kinds
<1>5. CASE cmd = "wait"
  <2>1. FlagOpts["wait"] = {} /\ TextOpts["wait"] = {} /\ IntOpts["wait"] = {"lookback"} /\ BoolOpts["wait"] = {}
    <3>1. FlagOpts["wait"] = {} /\ "wait" \in DOMAIN FlagOpts
      BY DEF FlagOpts
    <3>. QED  BY <3>1 DEF TextOpts, IntOpts, BoolOpts
  <2>2. o = "lookback"
    BY <1>5, <2>1
  <2>. QED  BY <1>1, <1>2, <2>2
<1>. QED  BY <1>3, <1>4, <1>5 DEF IsPass

\* What an option changes of them.
LEMMA PassArg ==
    ASSUME DOMAIN st = PassFields, NEW a
    PROVE  /\ DOMAIN pass_arg(a) = PassFields
           /\ a.o \in DOMAIN PatternFlag =>
                 pass_arg(a).pattern = a.v /\ pass_arg(a).flags = st.flags \cup {PatternFlag[a.o]}
           /\ a.o \notin DOMAIN PatternFlag => pass_arg(a).pattern = st.pattern
           /\ a.o \in DOMAIN SimpleFlag /\ a.o \notin DOMAIN PatternFlag =>
                 pass_arg(a).flags = st.flags \cup {SimpleFlag[a.o]}
           /\ a.o \notin DOMAIN SimpleFlag /\ a.o \notin DOMAIN PatternFlag => pass_arg(a).flags = st.flags
<1>. DEFINE p == pass_arg(a)
            v == a.v
            o == a.o
            P == DOMAIN PatternFlag
            M == DOMAIN SimpleFlag
<1>1. {"pattern", "flags", "cstring", "has_timeout", "timeout", "lookback", "subs"} \subseteq DOMAIN st
  BY DEF PassFields
<1>2. CASE o \in P
  <2>. DEFINE f == PatternFlag[o]
  <2>1. p = [st EXCEPT !.pattern = v, !.flags = @ \cup {f}]
    BY <1>2, Zenon DEF pass_arg
  <2>. HIDE DEF p, v, f
  <2>2. DOMAIN p = DOMAIN st /\ p.pattern = v /\ p.flags = st.flags \cup {f}
    BY <1>1, <2>1
  <2>. QED  BY <1>2, <2>2, Zenon DEF p, v, f
<1>3. CASE o \notin P /\ o \in M
  <2>. DEFINE f == SimpleFlag[o]
  <2>1. p = [st EXCEPT !.flags = @ \cup {f}]
    BY <1>3, Zenon DEF pass_arg
  <2>. HIDE DEF p, f
  <2>2. DOMAIN p = DOMAIN st /\ p.pattern = st.pattern /\ p.flags = st.flags \cup {f}
    BY <1>1, <2>1
  <2>. QED  BY <1>3, <2>2, Zenon DEF p, f
<1>4. CASE o \notin P /\ o \notin M
  <2>. DEFINE t == Clamp(v, -1)
  <2>1. \/ p = [st EXCEPT !.cstring = TRUE]
        \/ p = [st EXCEPT !.has_timeout = TRUE, !.timeout = t]
        \/ p = [st EXCEPT !.lookback = v]
        \/ p = [st EXCEPT !.subs = Append(@, v)]
        \/ p = st
    BY <1>4, Zenon DEF pass_arg
  <2>. HIDE DEF p, v, t
  <2>2. DOMAIN p = DOMAIN st /\ p.pattern = st.pattern /\ p.flags = st.flags
    <3>1. CASE p = [st EXCEPT !.cstring = TRUE]
      BY <1>1, <3>1
    <3>2. CASE p = [st EXCEPT !.has_timeout = TRUE, !.timeout = t]
      BY <1>1, <3>2
    <3>3. CASE p = [st EXCEPT !.lookback = v]
      BY <1>1, <3>3
    <3>4. CASE p = [st EXCEPT !.subs = Append(@, v)]
      <4>. DEFINE w == Append(st.subs, v)
      <4>1. p = [st EXCEPT !.subs = w]
        BY <3>4, Zenon
      <4>. HIDE DEF w
      <4>. QED  BY <1>1, <4>1
    <3>. QED  BY <2>1, <3>1, <3>2, <3>3, <3>4
  <2>. QED  BY <1>4, <2>2, Zenon DEF p
<1>. QED  BY <1>2, <1>3, <1>4, Zenon

\* An option is taken or refused.
LEMMA KindTaken ==
    ASSUME line \in CommandLines, i \in Nat \ {0}, IsPass(line.cmd), PassOk, GetArg
    PROVE  PassOk'
<1>. DEFINE a == line.args[i]
            p == pass_arg(a)
            K == {"EXACT", "ERE", "GLOB"}
<1>1. phase = "args" /\ i <= Len(line.args) /\ line' = line
  BY DEF GetArg
<1>2. CASE UsageError(a)
  <2>1. phase' = "usage" /\ st' = st
    BY <1>2 DEF GetArg
  <2>. QED  BY <1>1, <2>1 DEF PassOk
<1>3. CASE ~ UsageError(a) /\ Overruns(a)
  <2>1. phase' = "overrun" /\ st' = st
    BY <1>3 DEF GetArg
  <2>. QED  BY <1>1, <2>1 DEF PassOk
<1>4. CASE ~ UsageError(a) /\ ~ Overruns(a)
  <2>1. st' = p /\ phase' = "args"
    <3>1. st' = Takes(a) /\ phase' = phase
      BY <1>4 DEF GetArg
    <3>2. Takes(a) = p
      BY DEF Takes, IsPass
    <3>. QED  BY <1>1, <3>1, <3>2
  <2>2. /\ a.o \in FlagOpts[line.cmd] \cup TextOpts[line.cmd] \cup IntOpts[line.cmd] \cup BoolOpts[line.cmd]
        /\ a.o \in TextOpts[line.cmd] \ {"--"} => a.v # NULL
    BY <1>4 DEF UsageError
  <2>3. DOMAIN st = PassFields
    BY DEF PassOk
  <2>4. /\ DOMAIN p = PassFields
        /\ a.o \in DOMAIN PatternFlag => p.pattern = a.v /\ p.flags = st.flags \cup {PatternFlag[a.o]}
        /\ a.o \notin DOMAIN PatternFlag => p.pattern = st.pattern
        /\ a.o \in DOMAIN SimpleFlag /\ a.o \notin DOMAIN PatternFlag => p.flags = st.flags \cup {SimpleFlag[a.o]}
        /\ a.o \notin DOMAIN SimpleFlag /\ a.o \notin DOMAIN PatternFlag => p.flags = st.flags
    BY <2>3, PassArg
  <2>5. /\ a.o \in DOMAIN PatternFlag =>
              a.o \in TextOpts[line.cmd] \ {"--"} /\ a.o \in {"exact", "re", "glob", "bare", "--"}
        /\ a.o \in DOMAIN PatternFlag /\ line.cmd # "expect" => PatternFlag[a.o] = "ERE"
        /\ a.o \in DOMAIN SimpleFlag /\ line.cmd # "expect" => SimpleFlag[a.o] \notin Kinds
    BY <2>2, PassOptions
  <2>6. a.o \in DOMAIN PatternFlag => a.v \in Seq(Byte) /\ a.v # NULL
    <3>. SUFFICES ASSUME a.o \in DOMAIN PatternFlag PROVE a.v \in Seq(Byte) /\ a.v # NULL
      OBVIOUS
    <3>1. i \in DOMAIN line.args
      <4>1. DOMAIN line.args = 1 .. Len(line.args) /\ Len(line.args) \in Nat
        BY ArgumentsAssumption
      <4>. QED  BY <1>1, <4>1
    <3>. QED  BY <2>2, <2>5, <3>1, ArgumentsAssumption
  <2>7. a.o \in DOMAIN SimpleFlag => SimpleFlag[a.o] \notin K
    BY DEF SimpleFlag
  <2>8. /\ st.pattern = NULL => st.flags \cap K = {}
        /\ st.pattern # NULL => st.pattern \in Seq(Byte)
        /\ line.cmd # "expect" => st.flags \cap Kinds \subseteq {"ERE"}
    BY DEF PassOk
  <2>. HIDE DEF a, p
  <2>9. /\ p.pattern = NULL => p.flags \cap K = {}
        /\ p.pattern # NULL => p.pattern \in Seq(Byte)
    <3>. HIDE DEF K
    <3>1. CASE a.o \in DOMAIN PatternFlag
      BY <2>4, <2>6, <3>1
    <3>2. CASE a.o \notin DOMAIN PatternFlag /\ a.o \in DOMAIN SimpleFlag
      BY <2>4, <2>7, <2>8, <3>2
    <3>3. CASE a.o \notin DOMAIN PatternFlag /\ a.o \notin DOMAIN SimpleFlag
      BY <2>4, <2>8, <3>3
    <3>. QED  BY <3>1, <3>2, <3>3
  <2>10. line.cmd # "expect" => p.flags \cap Kinds \subseteq {"ERE"}
    BY <2>4, <2>5, <2>8
  <2>. QED  BY <1>1, <2>1, <2>4, <2>9, <2>10 DEF PassOk
<1>. QED  BY <1>2, <1>3, <1>4

\* The checks leave at most one kind of pattern.
LEMMA KindChecked ==
    ASSUME line \in CommandLines, IsPass(line.cmd), PassOk, CheckArgs
    PROVE  PassOk'
<1>1. phase = "args" /\ line' = line /\ line.cmd # "send"
  BY DEF CheckArgs, IsPass
<1>2. CASE Refused
  <2>1. phase' = "usage" /\ st' = st
    BY <1>2, Zenon DEF CheckArgs
  <2>. QED  BY <1>1, <2>1 DEF PassOk
<1>3. CASE ~ Refused
  <2>1. OneKind(st.flags)
    <3>1. CASE line.cmd = "expect"
      <4>1. Exclusive
        BY <1>3, <3>1 DEF Refused, PassRefused
      <4>. QED  BY <4>1, KindCount DEF Exclusive
    <3>2. CASE line.cmd # "expect"
      BY <3>2 DEF PassOk, OneKind
    <3>. QED  BY <3>1, <3>2
  <2>2. CASE ~ HasText
    <3>1. phase' = "build" /\ st' = st
      BY <1>3, <2>2, Zenon DEF CheckArgs
    <3>2. st.pattern = NULL
      BY <2>2 DEF HasText
    <3>3. st.pattern # <<>> /\ "GLOB" \notin st.flags
      BY <3>2, NullNoString DEF PassOk
    <3>. QED  BY <1>1, <2>1, <3>1, <3>3 DEF PassOk
  <2>3. CASE HasText
    <3>1. st.pattern # NULL
      BY <1>1, <2>3 DEF HasText
    <3>2. st.pattern \in Seq(Byte)
      BY <3>1 DEF PassOk
    <3>3. CASE st.cstring
      <4>1. phase' = "unesc" /\ UnescStart(Text) /\ st' = st
        BY <1>3, <2>3, <3>3, Zenon DEF CheckArgs
      <4>2. src' = st.pattern /\ dst' = <<>>
        BY <1>1, <4>1 DEF UnescStart, Text
      <4>3. <<>> \in Seq(0 .. 255)
        OBVIOUS
      <4>4. src' \in Seq(Byte) /\ dst' \in Seq(0 .. 255) /\ st'.pattern # NULL /\ OneKind(st'.flags)
        BY <2>1, <3>1, <3>2, <4>1, <4>2, <4>3, Zenon
      <4>. QED  BY <1>1, <4>1, <4>4 DEF PassOk
    <3>4. CASE ~ st.cstring
      <4>1. phase' = "text" /\ st' = st
        BY <1>1, <1>3, <2>3, <3>4, Zenon DEF CheckArgs
      <4>. QED  BY <1>1, <2>1, <3>1, <4>1 DEF PassOk
    <3>. QED  BY <3>3, <3>4
  <2>. QED  BY <2>2, <2>3
<1>. QED  BY <1>2, <1>3

\* A turn of strunesc().
LEMMA KindUnesc ==
    ASSUME IsPass(line.cmd), PassOk, Unesc
    PROVE  PassOk'
<1>1. phase = "unesc" /\ phase' = phase /\ st' = st /\ line' = line
  BY DEF Unesc
<1>2. /\ src # <<>> /\ UnescTurn(src).n > 0
      /\ dst' = Append(dst, UnescTurn(src).c) /\ src' = Advance(src, UnescTurn(src).n)
  BY DEF Unesc, UnescStep, UnescGoesOn
<1>3. src \in Seq(Byte) /\ dst \in Seq(0 .. 255)
  BY <1>1 DEF PassOk
<1>4. src' \in Seq(Byte) /\ dst' \in Seq(0 .. 255)
  BY <1>2, <1>3, UnescMeans
<1>. QED  BY <1>1, <1>4 DEF PassOk

\* What strunesc() returns is a string without NUL.
LEMMA KindUnescaped ==
    ASSUME IsPass(line.cmd), PassOk, Unescaped
    PROVE  PassOk'
<1>1. phase = "unesc" /\ line' = line /\ line.cmd # "send"
  BY DEF Unescaped, IsPass
<1>2. CASE UnescFails \/ \E k \in DOMAIN dst : dst[k] = NUL
  <2>1. phase' = "usage" /\ st' = st
    BY <1>2, Zenon DEF Unescaped
  <2>. QED  BY <1>1, <2>1 DEF PassOk
<1>3. CASE ~ (UnescFails \/ \E k \in DOMAIN dst : dst[k] = NUL)
  <2>1. phase' = "text" /\ st' = [st EXCEPT !.pattern = dst]
    BY <1>1, <1>3, Zenon DEF Unescaped
  <2>2. dst \in Seq(Byte)
    <3>. DEFINE B == 0 .. 255
    <3>1. dst \in Seq(B)
      BY <1>1 DEF PassOk
    <3>2. \A x \in B : x # NUL => x \in Byte
      BY DEF NUL, Byte
    <3>. HIDE DEF B
    <3>3. Len(dst) \in Nat /\ DOMAIN dst = 1 .. Len(dst) /\ dst \in [1 .. Len(dst) -> B]
      BY <3>1
    <3>4. \A k \in 1 .. Len(dst) : dst[k] \in Byte
      <4>. TAKE k \in 1 .. Len(dst)
      <4>1. dst[k] \in B
        BY <3>3, Zenon
      <4>2. dst[k] # NUL
        BY <1>3, <3>3, Zenon
      <4>. QED  BY <3>2, <4>1, <4>2, Zenon
    <3>5. dst \in [1 .. Len(dst) -> Byte]
      BY <3>3, <3>4
    <3>. QED  BY <3>3, <3>5, IsSequence
  <2>3. DOMAIN st = PassFields
    BY DEF PassOk
  <2>4. DOMAIN st' = PassFields /\ st'.pattern = dst /\ st'.flags = st.flags
    BY <2>1, <2>3 DEF PassFields
  <2>5. st'.pattern # NULL /\ st'.pattern \in Seq(Byte)
    BY <2>2, <2>4, NullNoString
  <2>6. OneKind(st.flags)
    BY <1>1 DEF PassOk
  <2>. QED  BY <1>1, <2>1, <2>4, <2>5, <2>6 DEF PassOk
<1>. QED  BY <1>2, <1>3

\* The last check.
LEMMA KindText ==
    ASSUME IsPass(line.cmd), PassOk, CheckText
    PROVE  PassOk'
<1>1. phase = "text" /\ line' = line /\ st' = st /\ line.cmd # "send"
  BY DEF CheckText, IsPass
<1>2. OneKind(st.flags) /\ st.pattern # NULL /\ st.pattern \in Seq(Byte)
  BY <1>1 DEF PassOk
<1>3. CASE TooShortOrLong
  <2>1. phase' = "usage"
    BY <1>3, Zenon DEF CheckText
  <2>. QED  BY <1>1, <2>1 DEF PassOk
<1>4. CASE ~ TooShortOrLong
  <2>0. st.pattern # <<>>
    BY <1>1, <1>4 DEF TooShortOrLong
  <2>1. CASE "GLOB" \in st.flags
    <3>1. phase' = "glob" /\ GlobStart(st.pattern)
      BY <1>4, <2>1, Zenon DEF CheckText
    <3>2. src' = st.pattern /\ dst' = <<>> /\ <<>> \in Seq(Byte)
      BY <3>1 DEF GlobStart
    <3>3. src' \in Seq(Byte) /\ dst' \in Seq(Byte) /\ src' # <<>>
      BY <1>2, <2>0, <3>2, Zenon
    <3>. QED  BY <1>1, <1>2, <2>1, <3>1, <3>3 DEF PassOk
  <2>2. CASE "GLOB" \notin st.flags
    <3>1. phase' = "build"
      BY <1>4, <2>2, Zenon DEF CheckText
    <3>. QED  BY <1>1, <1>2, <2>0, <2>2, <3>1 DEF PassOk
  <2>. QED  BY <2>1, <2>2
<1>. QED  BY <1>3, <1>4

\* A turn of glob2re().
LEMMA KindGlob ==
    ASSUME IsPass(line.cmd), PassOk, GlobLoop
    PROVE  PassOk'
<1>. DEFINE g == GlobTurn(src, AtStart)
<1>1. phase = "glob" /\ phase' = phase /\ st' = st /\ line' = line
  BY DEF GlobLoop
<1>2. src # <<>> /\ g.n > 0 /\ dst' = dst \o g.o /\ src' = Advance(src, g.n)
  BY Zenon DEF GlobLoop, GlobStep, GlobGoesOn
<1>3. src \in Seq(Byte) /\ dst \in Seq(Byte) /\ AtStart \in BOOLEAN
  BY <1>1 DEF PassOk, AtStart
<1>4. g.o \in Seq(Byte) /\ g.o # <<>>
  BY <1>2, <1>3, GlobReads DEF TurnReads
<1>5. g.n \in 1 .. Len(src)
  BY <1>2, <1>3, GlobTurnInside DEF TurnFits
<1>. HIDE DEF g
<1>6. src' \in Seq(Byte)
  BY <1>2, <1>3, <1>5, DropFirst
<1>7. dst' \in Seq(Byte) /\ dst' # <<>>
  <2>. DEFINE o == g.o
              x == dst \o o
  <2>. HIDE DEF o
  <2>1. Len(x) = Len(dst) + Len(o) /\ Len(o) # 0 /\ Len(o) \in Nat /\ Len(dst) \in Nat /\ x \in Seq(Byte)
    BY <1>3, <1>4 DEF o
  <2>. HIDE DEF x
  <2>2. Len(x) # 0
    BY <2>1
  <2>3. x # <<>>
    BY <2>2
  <2>. QED  BY <1>2, <2>1, <2>3 DEF x, o
<1>. QED  BY <1>1, <1>6, <1>7 DEF PassOk

\* The glob becomes a regular expression.
LEMMA KindGlobDone ==
    ASSUME IsPass(line.cmd), PassOk, GlobDone
    PROVE  PassOk'
<1>1. phase = "glob" /\ line' = line /\ (GlobFails \/ src = <<>>)
  BY DEF GlobDone
<1>2. CASE GlobFails
  <2>1. phase' = "usage" /\ st' = st
    BY <1>2, Zenon DEF GlobDone
  <2>. QED  BY <1>1, <2>1 DEF PassOk
<1>3. CASE ~ GlobFails
  <2>1. phase' = "build" /\ st' = [st EXCEPT !.pattern = dst, !.flags = IsEre(@)]
    BY <1>3, Zenon DEF GlobDone
  <2>2. dst \in Seq(Byte) /\ dst # <<>> /\ "GLOB" \in st.flags /\ DOMAIN st = PassFields /\ OneKind(st.flags)
    BY <1>1, <1>3 DEF PassOk
  <2>3. DOMAIN st' = PassFields /\ st'.pattern = dst /\ st'.flags = (st.flags \ {"GLOB"}) \cup {"ERE"}
    BY <2>1, <2>2 DEF PassFields, IsEre
  <2>4. st'.flags \cap Kinds = {"ERE"}
    <3>1. PICK k : st.flags \cap Kinds \subseteq {k}
      BY <2>2 DEF OneKind
    <3>2. k = "GLOB"
      BY <2>2, <3>1 DEF Kinds
    <3>. QED  BY <2>3, <3>1, <3>2 DEF Kinds
  <2>5. OneKind(st'.flags) /\ "GLOB" \notin st'.flags
    BY <2>3, <2>4 DEF OneKind
  <2>6. st'.pattern # NULL
    BY <2>2, <2>3, NullNoString
  <2>. QED  BY <1>1, <2>1, <2>2, <2>3, <2>4, <2>5, <2>6 DEF PassOk
<1>. QED  BY <1>2, <1>3

\* No step of getargs() breaks it.
LEMMA KindNext == KindInv /\ [getargs]_argVars => KindInv'
<1>. SUFFICES ASSUME KindInv, [getargs]_argVars PROVE KindInv'
  OBVIOUS
<1>0. line \in CommandLines /\ i \in Nat \ {0} /\ (IsPass(line.cmd) => PassOk)
  BY DEF KindInv
<1>1. CASE UNCHANGED argVars
  <2>1. line' = line /\ i' = i /\ st' = st /\ phase' = phase /\ src' = src /\ dst' = dst
    BY <1>1 DEF argVars
  <2>. QED  BY <1>0, <2>1 DEF KindInv, PassOk
<1>2. CASE getargs
  <2>1. line' = line
    BY <1>2 DEF getargs, GetArg, CheckArgs, Unesc, Unescaped, CheckText, GlobLoop, GlobDone
  <2>2. i' \in Nat \ {0}
    <3>1. CASE GetArg
      <4>1. Len(line.args) \in Nat
        BY <1>0, ArgumentsAssumption
      <4>2. i' = i \/ i' = Len(line.args) + 1 \/ i' = i + 1
        BY <3>1 DEF GetArg
      <4>. QED  BY <1>0, <4>1, <4>2
    <3>2. CASE ~ GetArg
      <4>1. i' = i
        BY <1>2, <3>2 DEF getargs, CheckArgs, Unesc, Unescaped, CheckText, GlobLoop, GlobDone
      <4>. QED  BY <1>0, <4>1
    <3>. QED  BY <3>1, <3>2
  <2>3. ASSUME IsPass(line.cmd) PROVE PassOk'
    BY <1>0, <1>2, <2>3, KindTaken, KindChecked, KindUnesc, KindUnescaped, KindText, KindGlob, KindGlobDone
    DEF getargs
  <2>. QED  BY <1>0, <2>1, <2>2, <2>3 DEF KindInv
<1>. QED  BY <1>1, <1>2

\* Whatever options are given, in whatever order: an expect, interact or wait
\* that getargs() accepts asks for one kind of match at most, never for a glob,
\* and for an exact or a regular one only with a pattern that is not empty.
THEOREM AcceptedIsSafe == ArgsSpec => []SafeToSend
<1>1. KindInv => SafeToSend
  BY KindCount DEF KindInv, PassOk, SafeToSend
<1>. QED  BY <1>1, KindInit, KindNext, PTL DEF ArgsSpec

=============================================================================
