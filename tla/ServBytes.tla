----------------------------- MODULE ServBytes -----------------------------
(***************************************************************************)
(* The bytes in the server's buffers (src/server.c).  Every step is a step *)
(* of ServBuf together with what it copies, moves and matches: read(), the *)
(* memmove()s of drop_old_data(), the copy without NULs into expbuf, and   *)
(* expect_exact().                                                         *)
(***************************************************************************)
EXTENDS ServBuf, Sequences, FiniteSetsExt

CONSTANTS
    Outputs,    \* what the child may write: sequences of MaxTotal bytes
    Nul,        \* '\0'
    Pattern     \* what every `expect -exact' looks for; it has no NULs

\* An output is a sequence of MaxTotal bytes.
ASSUME OutputsAssumption == \A o \in Outputs : o = [i \in 1 .. MaxTotal |-> o[i]]

ASSUME PatternAssumption == Len(Pattern) \in Nat

VARIABLES
    output,     \* what the child writes
    rawbuf,     \* g.rawbuf
    expbuf,     \* g.expbuf
    mark        \* how much of the stream matches and interact/wait used up

bytes == <<output, rawbuf, expbuf, mark>>
byteVars == <<vars, bytes>>

\* Everything read from ptm so far.
stream == SubSeq(output, 1, g.ntotal)

\* What buf_raw2expect() copies of s, one byte after the other: not the NULs.
Text(s) ==
    LET copied[n \in 0 .. Len(s)] ==
            IF n = 0 THEN <<>>
            ELSE IF s[n] = Nul THEN copied[n - 1] ELSE Append(copied[n - 1], s[n])
    IN  copied[Len(s)]

LastOf(s, n) == SubSeq(s, Len(s) - n + 1, Len(s))

\* expbuf after buf_raw2expect().
CopyOver == SubSeq(expbuf, 1, SkipGap(g).expcnt) \o Text(LastOf(rawbuf, ncopy(g)))

\* strstr(): where Pattern starts in e.
Found(e) ==
    {i \in 0 .. (Len(e) - Len(Pattern)) : SubSeq(e, i + 1, i + Len(Pattern)) = Pattern}

\* Fault: a match empties expbuf.
AfterMatch_Empty(e) == <<>>

\* What follows the first match stays in expbuf.
AfterMatch(e) == SubSeq(e, Min(Found(e)) + Len(Pattern) + 1, Len(e))

\* serv_expect(): nothing can match in an empty buffer after EOF.
Matches(e) == (Len(e) > 0 \/ ptm) /\ Found(e) # {}

\* Where in the stream the last n bytes of its text start.
StartOfLast(n) ==
    Max({p \in 0 .. g.ntotal : Len(Text(SubSeq(output, p + 1, g.ntotal))) = n})

-----------------------------------------------------------------------------
ByteInit ==
    /\ Init
    /\ output \in Outputs /\ rawbuf = <<>> /\ expbuf = <<>> /\ mark = 0

ByteRead ==
    /\ ReadData
    /\ rawbuf' = rawbuf \o SubSeq(output, g.ntotal + 1, g'.ntotal)
    /\ UNCHANGED <<output, expbuf, mark>>

ByteInfo ==
    /\ MsgInfo
    /\ expbuf' = IF ph' = "aborted" THEN expbuf ELSE CopyOver
    /\ g'.expcnt = Len(expbuf')
    /\ UNCHANGED <<output, rawbuf, mark>>

\* The match used up the stream as far as its last byte.
ByteMatched ==
    /\ PassMatched
    /\ Matches(CopyOver)
    /\ expbuf' = AfterMatch(CopyOver)
    /\ g'.expcnt = Len(expbuf')
    /\ mark' = StartOfLast(Len(CopyOver) - (Min(Found(CopyOver)) + Len(Pattern)))
    /\ UNCHANGED <<output, rawbuf>>

ByteNotMatched ==
    /\ \E r \in BOOLEAN : PassAtEof(r) \/ PassGoesOn(r)
    /\ IF has_PATTERN(pass)
       THEN /\ expbuf' = CopyOver /\ g'.expcnt = Len(expbuf')
            /\ ~Matches(expbuf') /\ UNCHANGED mark
       ELSE IF pass \in {"interact", "wait"} \/ (pass = "eof" /\ ~ptm)
       THEN expbuf' = <<>> /\ mark' = g'.expoffset
       ELSE UNCHANGED <<expbuf, mark>>
    /\ g'.expcnt = Len(expbuf')
    /\ UNCHANGED <<output, rawbuf>>

\* Fault: the wrong end of rawbuf is kept.
ByteDrop_Front ==
    /\ DropOld
    /\ rawbuf' = SubSeq(rawbuf, 1, g'.oldcnt + g'.newcnt)
    /\ expbuf' = LastOf(expbuf, g'.expcnt)
    /\ UNCHANGED <<output, mark>>

ByteDrop ==
    /\ DropOld
    /\ rawbuf' = LastOf(rawbuf, g'.oldcnt + g'.newcnt)
    /\ expbuf' = LastOf(expbuf, g'.expcnt)
    /\ UNCHANGED <<output, mark>>

\* The steps that touch no byte.
ByteOther ==
    /\ \/ LoopTop \/ ExitLoop \/ SelectReturns \/ serv_accept \/ NoAccept
       \/ ReadEof \/ ReadNothing \/ NonblockMark
       \/ MsgOther \/ MsgCloses \/ MsgClose \/ MsgSet
       \/ \E k \in PassKinds, lb \in BOOLEAN : MsgPass(k, lb)
       \/ NotPassing \/ PassSendFails \/ PassAborts
    /\ UNCHANGED bytes

ByteNext ==
    \/ ByteRead \/ ByteInfo \/ ByteMatched \/ ByteNotMatched \/ ByteDrop \/ ByteOther

ByteSpec == ByteInit /\ [][ByteNext]_byteVars

\* The fairness of ServBuf!FairSpec: the loop goes on and select() times out.
ByteFairSpec ==
    /\ ByteSpec
    /\ WF_byteVars(ByteNext)
    /\ SF_byteVars(SelectReturns /\ ph' = "accept" /\ UNCHANGED bytes)

-----------------------------------------------------------------------------
(* Properties *)

\* The memmove()s keep rawbuf a contiguous piece of the output that ends with
\* the last byte read, and the counters describe it.
RawIsWindow ==
    /\ Len(rawbuf) = g.oldcnt + g.newcnt
    /\ rawbuf = SubSeq(stream, g.rawoffset + 1, g.ntotal)

\* expbuf is the output up to expoffset without NULs, cut off on the left
\* only: a pattern never matches across bytes that were dropped in between.
ExpIsText ==
    /\ Len(expbuf) = g.expcnt
    /\ LET text == Text(SubSeq(stream, 1, g.expoffset))
       IN  Len(expbuf) <= Len(text) /\ expbuf = LastOf(text, Len(expbuf))

\* expect misses nothing: as long as no more than MAX_OLD_DATA bytes came
\* since the last match, interact or wait, all of their text is in expbuf or
\* about to be copied, whoever was sent them and with whatever sub-command.
NothingMissed ==
    Len(stream) - mark <= MaxOldData =>
       CopyOver = Text(SubSeq(stream, mark + 1, Len(stream)))

=============================================================================
