------------------------------ MODULE CString ------------------------------
(***************************************************************************)
(* -cstring: strunesc() (src/common.c) replaces C style backslash escapes  *)
(* in patterns and in data to send.  The loop's turns are steps: src is    *)
(* what `in' still points to, dst is out[0 .. len - 1] and room the size   *)
(* malloc() was called with.                                               *)
(***************************************************************************)
EXTENDS Escapes

VARIABLES src, dst, room

convVars == <<src, dst, room>>

-----------------------------------------------------------------------------
(* The loop. *)

\* in += n.  A loop that jumps over the NUL finds whatever lies behind the
\* string; a NUL that is a member stands for that.
Advance(s, n) == IF n > Len(s) THEN <<NUL>> ELSE SubSeq(s, n + 1, Len(s))

UnescStart(s) == src' = s /\ dst' = <<>> /\ room' = Len(s) + 1

UnescGoesOn == src # <<>> /\ UnescTurn(src).n > 0
UnescFails == src # <<>> /\ UnescTurn(src).n = 0

UnescStep ==
    /\ UnescGoesOn
    /\ dst' = Append(dst, UnescTurn(src).c)
    /\ src' = Advance(src, UnescTurn(src).n)
    /\ UNCHANGED room

\* strunesc() alone, on any string.
UnescInit == src \in Seq(Byte) /\ dst = <<>> /\ room = Len(src) + 1
UnescSpec == UnescInit /\ [][UnescStep]_convVars

-----------------------------------------------------------------------------
\* strunesc() and glob2re() write out[len++] without a check: what they append
\* and the final NUL must fit in what was allocated before the first turn, and
\* `in' must not be advanced over the NUL that ends the string, or the loop
\* would go on behind it.
Fits == Len(dst) < room /\ src \in Seq(Byte)

=============================================================================
