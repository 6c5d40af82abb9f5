-------------------------------- MODULE Glob --------------------------------
(***************************************************************************)
(* -glob: glob2re() (src/common.c) turns a glob pattern into an extended   *)
(* regular expression on the client's side; the server only knows regular  *)
(* expressions.  As in CString the turns of the loop are steps.            *)
(***************************************************************************)
EXTENDS CString

Bang == 33
Dollar == 36
Star == 42
Dot == 46
Colon == 58
Equals == 61
Question == 63
Open == 91
Close == 93
Caret == 94

\* . + | < > ( ) { }
Special == {46, 43, 124, 60, 62, 40, 41, 123, 125}

\* The bytes `in' is advanced by and the bytes appended; n = 0: return NULL.
Emit(n, o) == [n |-> n, o |-> o]
NoGlob == Emit(0, <<>>)

InBracket(c) == <<Open, c, Close>>

-----------------------------------------------------------------------------
(* [...] *)

\* The first member's index: a ! or ^ may come before it.
FirstMember(s) == IF At(s, 1) \in {Bang, Caret} THEN 2 ELSE 1

\* Fault: a ] always ends the bracket, also as its first member.
SearchFrom_First(s) == FirstMember(s)

\* Where strchr() starts looking for the ]: a ] that comes first is a member.
SearchFrom(s) == IF At(s, FirstMember(s)) = Close THEN FirstMember(s) + 1 ELSE FirstMember(s)

\* The index of the first ] from there on, if there is one.
Ends(s) ==
    {k \in SearchFrom(s) .. (Len(s) - 1) :
        At(s, k) = Close /\ \A j \in SearchFrom(s) .. (k - 1) : At(s, j) # Close}
BracketEnd(s) == CHOOSE k \in Ends(s) : TRUE

\* [: [. and [= are not supported.
HasClass(s) ==
    \E k \in SearchFrom(s) .. (BracketEnd(s) - 1) :
       At(s, k) = Open /\ At(s, k + 1) \in {Colon, Dot, Equals}

\* Copied as it is, but for a leading !.
Bracket(s) ==
    [k \in 1 .. (BracketEnd(s) + 1) |-> IF k = 2 /\ s[k] = Bang THEN Caret ELSE s[k]]

BracketTurn(s) ==
    IF Ends(s) = {} \/ HasClass(s) THEN NoGlob ELSE Emit(BracketEnd(s) + 1, Bracket(s))

-----------------------------------------------------------------------------
\* An anchor at the start of the pattern, a character elsewhere.
CaretTurn(first) == Emit(1, IF first THEN <<Caret>> ELSE <<Backslash, Caret>>)

\* An anchor at the end of the pattern.
DollarTurn(s) == Emit(1, IF At(s, 1) = NUL THEN <<Dollar>> ELSE InBracket(Dollar))

BackslashTurn(s) ==
    IF At(s, 1) = Backslash THEN Emit(2, <<Backslash, Backslash>>)
    ELSE IF At(s, 1) \in {Star, Question, Open, Close} THEN Emit(2, InBracket(At(s, 1)))
    ELSE NoGlob

\* One turn of the loop; first: in == save_in.
GlobTurn(s, first) ==
    LET c == At(s, 0)
    IN  IF c = Star THEN Emit(1, <<Dot, Star>>)
        ELSE IF c = Question THEN Emit(1, <<Dot>>)
        ELSE IF c = Open THEN BracketTurn(s)
        ELSE IF c = Caret THEN CaretTurn(first)
        ELSE IF c = Dollar THEN DollarTurn(s)
        ELSE IF c \in Special THEN Emit(1, InBracket(c))
        ELSE IF c = Backslash THEN BackslashTurn(s)
        ELSE Emit(1, <<c>>)

-----------------------------------------------------------------------------
(* The loop. *)

GlobStart(s) == src' = s /\ dst' = <<>> /\ room' = 3 * Len(s) + 1

\* Nothing was appended yet: `in' is where it started.
AtStart == dst = <<>>

GlobGoesOn == src # <<>> /\ GlobTurn(src, AtStart).n > 0
GlobFails == src # <<>> /\ GlobTurn(src, AtStart).n = 0

GlobStep ==
    /\ GlobGoesOn
    /\ dst' = dst \o GlobTurn(src, AtStart).o
    /\ src' = Advance(src, GlobTurn(src, AtStart).n)
    /\ UNCHANGED room

\* glob2re() alone, on any string.
GlobInit == src \in Seq(Byte) /\ dst = <<>> /\ room = 3 * Len(src) + 1
GlobSpec == GlobInit /\ [][GlobStep]_convVars

=============================================================================
