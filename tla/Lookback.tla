------------------------------ MODULE Lookback ------------------------------
(***************************************************************************)
(* -lookback N in serv_pass() (src/server.c): where in rawbuf the first    *)
(* OUTPUT message to an expect, interact or wait client starts.  Positions *)
(* are offsets from rawbuf: rawbuf[i] of the code is rawbuf[i + 1] here,   *)
(* and rawnew is at oldcnt.                                                *)
(***************************************************************************)
EXTENDS ServBytes

CONSTANTS
    NL,         \* '\n'
    MaxLines    \* bound: N

ASSUME LinesAssumption == MaxLines \in Nat

\* strchr() returned NULL and the pointer is used all the same.
Wild == -1

Positions == 0 .. (Len(rawbuf) - 1)
NLs == {i \in Positions : rawbuf[i + 1] = NL}
NULs == {i \in Positions : rawbuf[i + 1] = Nul}

\* A final NL ends the last line, it does not begin another one.
EndsLine == Len(rawbuf) > 0 /\ rawbuf[Len(rawbuf)] = NL

\* Fault: a final NL counts as the start of a line.
WantNLs_N(n) == n

\* N, or N + 1 when the last byte is a NL: the NLs to go back over.
WantNLs(n) == IF EndsLine THEN n + 1 ELSE n

\* The position of the k-th NL from the end.
NthLast(k) == CHOOSE i \in NLs : Cardinality({j \in NLs : j >= i}) = k

\* strchr(rawbuf, '\n') + 1; it stops at the first NUL.
AfterFirstNL == IF \E z \in NULs : z < Min(NLs) THEN Wild ELSE Min(NLs) + 1

\* The last line that begins in the old data, for new data of many lines.
NearestLine ==
    LET before == {i \in NLs : i < g.oldcnt}
    IN  IF before # {} THEN Max(before) + 1
        ELSE IF g.rawoffset > 0 THEN g.oldcnt ELSE 0

serv_pass_psend(n) ==
    IF NLs = {} THEN 0
    ELSE IF Cardinality(NLs) < WantNLs(n)
    THEN IF g.rawoffset = 0 THEN 0 ELSE Min({AfterFirstNL, g.oldcnt})
    ELSE IF NthLast(WantNLs(n)) < g.oldcnt THEN NthLast(WantNLs(n)) + 1
    ELSE NearestLine

-----------------------------------------------------------------------------
(* Properties *)

\* serv_pass() is about to send with -lookback.
LooksBack == Passing /\ lookback

\* Where lines begin, as far as rawbuf tells.
LineStarts ==
    {s \in 0 .. Len(rawbuf) : (s = 0 /\ g.rawoffset = 0) \/ (s > 0 /\ rawbuf[s] = NL)}

\* The lines shown when the output starts at p.
LinesFrom(p) ==
    IF p = Len(rawbuf) THEN 0
    ELSE 1 + Cardinality({i \in NLs : i >= p /\ i < Len(rawbuf) - 1})

\* All new output is sent, none of it is skipped by -lookback, and the message
\* starts inside rawbuf.
ShowsNew == LooksBack => \A n \in 1 .. MaxLines : serv_pass_psend(n) \in 0 .. g.oldcnt

\* "Show the most recent last N lines of output": of text without NULs the
\* message starts inside rawbuf and skips no new output, it starts where a line
\* starts, goes back N lines or as far as rawbuf does, and no further than the
\* line in which the new output starts when that has more than N lines.
ShowsLines ==
    LooksBack /\ NULs = {} =>
       \A n \in 1 .. MaxLines :
          LET p == serv_pass_psend(n)
          IN  /\ p \in 0 .. g.oldcnt
              /\ p \in LineStarts \/ \A s \in LineStarts : s > g.oldcnt
              /\ LinesFrom(p) >= n \/ \A s \in LineStarts : s >= p
              /\ LinesFrom(p) > n => \A s \in LineStarts : s <= p \/ s > g.oldcnt

=============================================================================
