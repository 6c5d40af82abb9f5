--------------------------- MODULE ServBufProofs ---------------------------
(***************************************************************************)
(* Proofs about ServBuf, for every size of the buffers that passes the     *)
(* compile-time check and every amount of output.                          *)
(*                                                                         *)
(* What makes the invariants inductive is a statement about the buffer     *)
(* alone, BufOK, that every operation preserves (one lemma per operation), *)
(* and how full expbuf can be in each phase of the loop, ExpOK.            *)
(***************************************************************************)
EXTENDS ServBuf, TLAPS

-----------------------------------------------------------------------------
(* The buffer alone *)

BufOK(b) ==
    /\ b \in Buf
    /\ b.ntotal = b.rawoffset + b.oldcnt + b.newcnt
    /\ b.oldcnt + b.newcnt <= RawBufSize
    /\ b.expoffset <= b.ntotal
    /\ b.rawoffset > 0 => b.oldcnt >= MaxOldData

\* Every old byte has been copied to expbuf or given up, and what expbuf holds
\* is still in rawbuf: no copy can then overflow expbuf.
NoLag(b) ==
    /\ b.rawoffset + b.oldcnt <= b.expoffset
    /\ b.rawoffset + b.expcnt <= b.expoffset

\* The empty buffers of serv_init().
LEMMA InitBuf == BufOK(serv_init) /\ NoLag(serv_init)
BY SizesAssumption DEF BufOK, NoLag, serv_init, Buf

\* serv_read_ptm() reads at most what there is room for.
LEMMA AppendBuf ==
    ASSUME NEW b, BufOK(b), NEW n \in 1 .. Room(b)
    PROVE  /\ BufOK(AppendNew(b, n))
           /\ NoLag(b) => NoLag(AppendNew(b, n))
           /\ AppendNew(b, n).expcnt = b.expcnt
<1>1. /\ b \in Buf /\ n \in Nat
      /\ b.newcnt + n \in Nat /\ b.ntotal + n \in Nat
  BY SizesAssumption DEF BufOK, Buf, Room
<1>2. AppendNew(b, n) \in Buf
  BY <1>1 DEF AppendNew, Buf
<1>. QED  BY <1>1, <1>2, SizesAssumption DEF BufOK, NoLag, AppendNew, Buf, Room

\* Sending the new data keeps the window.
LEMMA SentBuf ==
    ASSUME NEW b, BufOK(b)
    PROVE  /\ BufOK(MarkSent(b))
           /\ MarkSent(b).newcnt = 0
           /\ MarkSent(b).expcnt = b.expcnt
           /\ MarkSent(b).expoffset = b.expoffset
           /\ MarkSent(b).ntotal = b.ntotal
           /\ MarkSent(b).rawoffset = b.rawoffset
<1>1. b \in Buf /\ b.oldcnt + b.newcnt \in Nat
  BY DEF BufOK, Buf
<1>2. MarkSent(b) \in Buf
  BY <1>1 DEF MarkSent, Buf
<1>. QED  BY <1>1, <1>2, SizesAssumption DEF BufOK, MarkSent, Buf

\* -nonblock marks no more than there is: a full buffer with at most
\* MAX_OLD_DATA old bytes has 2 * NONBLOCK_DROP_SIZE new ones.
LEMMA DroppedBuf ==
    ASSUME NEW b, BufOK(b), MustMark(b)
    PROVE  /\ BufOK(MarkDropped(b))
           /\ MarkDropped(b).newcnt > 0
           /\ MarkDropped(b).expcnt = b.expcnt
<1>1. /\ b \in Buf
      /\ b.oldcnt + DropSize \in Nat
      /\ b.newcnt - DropSize \in Nat /\ b.newcnt - DropSize > 0
  BY SizesAssumption DEF BufOK, MustMark, Full, Buf
<1>2. MarkDropped(b) \in Buf
  BY <1>1 DEF MarkDropped, Buf
<1>. QED  BY <1>1, <1>2, SizesAssumption DEF BufOK, MarkDropped, Buf

\* drop_old_data() keeps MAX_OLD_DATA bytes of each buffer.
LEMMA DropBuf ==
    ASSUME NEW b, BufOK(b)
    PROVE  /\ BufOK(drop_old_data(b))
           /\ drop_old_data(b).expcnt <= MaxOldData
           /\ drop_old_data(b).oldcnt <= MaxOldData
           /\ NoLag(b) => NoLag(drop_old_data(b))
<1>. DEFINE d == drop_old_data(b)
            size == IF b.oldcnt > MaxOldData THEN b.oldcnt - MaxOldData ELSE 0
            cnt == IF b.expcnt > MaxOldData THEN MaxOldData ELSE b.expcnt
<1>1. /\ b \in Buf /\ cnt \in Nat /\ cnt <= MaxOldData /\ cnt <= b.expcnt
      /\ size \in Nat /\ b.oldcnt - size \in Nat /\ b.rawoffset + size \in Nat
      /\ b.oldcnt - size <= MaxOldData
      /\ size > 0 => b.oldcnt - size = MaxOldData
  BY SizesAssumption DEF BufOK, Buf
<1>2. d = [b EXCEPT !.oldcnt = b.oldcnt - size, !.rawoffset = b.rawoffset + size,
                    !.expcnt = cnt]
  BY Zenon DEF drop_old_data
<1>. HIDE DEF d, size, cnt
<1>3. d \in Buf
  BY <1>1, <1>2 DEF Buf
<1>4. /\ d.oldcnt = b.oldcnt - size /\ d.rawoffset = b.rawoffset + size
      /\ d.expcnt = cnt /\ d.newcnt = b.newcnt /\ d.ntotal = b.ntotal
      /\ d.expoffset = b.expoffset
  BY <1>1, <1>2 DEF Buf
<1>5. BufOK(d) /\ d.expcnt <= MaxOldData /\ d.oldcnt <= MaxOldData
  BY <1>1, <1>3, <1>4, SizesAssumption DEF BufOK, Buf
<1>6. NoLag(b) => NoLag(d)
  BY <1>1, <1>3, <1>4, SizesAssumption DEF BufOK, NoLag, Buf
<1>. QED  BY <1>5, <1>6 DEF d

\* After the gap check expoffset lies in rawbuf: copy_start >= rawbuf.
LEMMA GapBuf ==
    ASSUME NEW b, BufOK(b)
    PROVE  /\ BufOK(SkipGap(b))
           /\ SkipGap(b).rawoffset <= SkipGap(b).expoffset
           /\ ncopy(b) \in Nat
           /\ ncopy(b) <= RawBufSize
           /\ SkipGap(b).ntotal = b.ntotal
           /\ SkipGap(b).rawoffset = b.rawoffset
           /\ SkipGap(b).oldcnt = b.oldcnt
           /\ SkipGap(b).newcnt = b.newcnt
           /\ SkipGap(b).expcnt <= b.expcnt
           /\ b.rawoffset <= b.expoffset => SkipGap(b) = b
<1>. DEFINE s == SkipGap(b)
<1>1. CASE b.expoffset < b.rawoffset
  <2>1. s = [b EXCEPT !.expoffset = b.rawoffset, !.expcnt = 0]
    BY <1>1 DEF SkipGap
  <2>2. b \in Buf /\ b.rawoffset \in Nat
    BY DEF BufOK, Buf
  <2>3. s \in Buf
    <3>1. [b EXCEPT !.expoffset = b.rawoffset, !.expcnt = 0] \in Buf
      BY <2>2 DEF Buf
    <3>. QED  BY <2>1, <3>1
  <2>4. /\ s.expoffset = b.rawoffset /\ s.expcnt = 0 /\ s.ntotal = b.ntotal
        /\ s.rawoffset = b.rawoffset /\ s.oldcnt = b.oldcnt /\ s.newcnt = b.newcnt
    BY <2>1, <2>2 DEF Buf
  <2>. QED  BY <1>1, <2>3, <2>4, SizesAssumption DEF BufOK, ncopy, Buf
<1>2. CASE ~(b.expoffset < b.rawoffset)
  <2>1. s = b
    BY <1>2 DEF SkipGap
  <2>. QED  BY <1>2, <2>1, SizesAssumption DEF BufOK, ncopy, Buf
<1>. QED  BY <1>1, <1>2

\* buf_raw2expect() leaves nothing to copy, and what it copied fits if the
\* assertion held.
LEMMA Raw2ExpectBuf ==
    ASSUME NEW b, BufOK(b), NEW kept \in 0 .. ncopy(b)
    PROVE  LET c == buf_raw2expect(b, kept)
           IN  /\ BufOK(c)
               /\ c.expoffset = c.ntotal
               /\ AssertFits(b) => c.expcnt <= RawBufSize
               /\ b.rawoffset + b.expcnt <= b.expoffset => NoLag(c)
<1>. DEFINE s == SkipGap(b)  c == buf_raw2expect(b, kept)
<1>1. /\ BufOK(s) /\ s.rawoffset <= s.expoffset /\ ncopy(b) \in Nat
      /\ s.ntotal = b.ntotal /\ s.rawoffset = b.rawoffset /\ s.oldcnt = b.oldcnt
      /\ ncopy(b) = s.ntotal - s.expoffset
      /\ b.rawoffset <= b.expoffset => s = b
  BY GapBuf DEF ncopy
<1>2. c = [s EXCEPT !.expoffset = b.ntotal, !.expcnt = s.expcnt + kept]
  BY Zenon DEF buf_raw2expect
<1>. HIDE DEF s, c
<1>3. b \in Buf /\ s \in Buf /\ s.expcnt + kept \in Nat
  BY <1>1 DEF BufOK, Buf
<1>4. c \in Buf
  BY <1>2, <1>3 DEF Buf
<1>5. /\ BufOK(c) /\ c.expoffset = c.ntotal /\ c.expcnt = s.expcnt + kept
      /\ c.rawoffset = b.rawoffset /\ c.oldcnt = b.oldcnt /\ c.ntotal = b.ntotal
  BY <1>1, <1>2, <1>3, <1>4, SizesAssumption DEF BufOK, Buf
<1>6. AssertFits(b) => c.expcnt <= RawBufSize
  BY <1>1, <1>5, SizesAssumption DEF AssertFits, s, BufOK, Buf
<1>7. ASSUME b.rawoffset + b.expcnt <= b.expoffset  PROVE NoLag(c)
  BY <1>1, <1>5, <1>7 DEF NoLag, BufOK, Buf
<1>. QED  BY <1>5, <1>6, <1>7 DEF c

\* interact and wait give up what was not matched.
LEMMA ForgetBuf ==
    ASSUME NEW b, BufOK(b)
    PROVE  /\ BufOK(ForgetExpect(b))
           /\ ForgetExpect(b).expcnt = 0
           /\ NoLag(ForgetExpect(b))
<1>1. b \in Buf /\ b.ntotal - b.newcnt \in Nat
  BY DEF BufOK, Buf
<1>2. ForgetExpect(b) \in Buf
  BY <1>1 DEF ForgetExpect, Buf
<1>. QED  BY <1>1, <1>2, SizesAssumption DEF BufOK, NoLag, ForgetExpect, Buf

\* A match only shortens expbuf.
LEMMA ConsumeBuf ==
    ASSUME NEW b, BufOK(b), NEW rest \in 0 .. b.expcnt
    PROVE  /\ BufOK(ConsumeMatch(b, rest))
           /\ ConsumeMatch(b, rest).expcnt = rest
           /\ ConsumeMatch(b, rest).expoffset = b.expoffset
           /\ ConsumeMatch(b, rest).ntotal = b.ntotal
           /\ NoLag(b) => NoLag(ConsumeMatch(b, rest))
<1>1. b \in Buf /\ rest \in Nat
  BY DEF BufOK, Buf
<1>2. ConsumeMatch(b, rest) \in Buf
  BY <1>1 DEF ConsumeMatch, Buf
<1>. QED  BY <1>1, <1>2 DEF BufOK, NoLag, ConsumeMatch, Buf

-----------------------------------------------------------------------------
(* The loop *)

\* expbuf is over MAX_OLD_DATA only between a copy and drop_old_data(), and
\* then nothing is left to copy.
ExpOK ==
    \/ g.expcnt <= MaxOldData
    \/ /\ ph \in {"pass", "drop", "aborted"}
       /\ g.expcnt <= RawBufSize
       /\ g.expoffset = g.ntotal

Inv ==
    /\ TypeOK
    /\ BufOK(g)
    /\ ExpOK
    /\ ph \in {"top", "select"} => g.expcnt <= MaxOldData /\ g.oldcnt <= MaxOldData

\* What serv_pass() leaves in the buffers when nothing matched.
LEMMA ExpectStepBuf ==
    ASSUME BufOK(g), ExpOK, ph = "pass",
           has_PATTERN(pass) => AssertFits(MarkSent(g)),
           NEW b \in ExpectStep(MarkSent(g))
    PROVE  /\ BufOK(b)
           /\ \/ b.expcnt <= MaxOldData
              \/ b.expcnt <= RawBufSize /\ b.expoffset = b.ntotal
           /\ NoLag(g) /\ pass \in PassKinds \ {"eof", "nopattern"} => NoLag(b)
<1>. DEFINE m == MarkSent(g)
<1>1. /\ BufOK(m) /\ m.expcnt = g.expcnt /\ m.expoffset = g.expoffset
      /\ m.ntotal = g.ntotal /\ m.rawoffset = g.rawoffset
  BY SentBuf
<1>2. CASE has_PATTERN(pass)
  <2>1. PICK kept \in 0 .. ncopy(m) : b = buf_raw2expect(m, kept)
    BY <1>2 DEF ExpectStep
  <2>2. /\ BufOK(b) /\ b.expoffset = b.ntotal /\ b.expcnt <= RawBufSize
        /\ m.rawoffset + m.expcnt <= m.expoffset => NoLag(b)
    BY <1>1, <1>2, <2>1, Raw2ExpectBuf
  <2>. QED  BY <1>1, <2>2 DEF NoLag
<1>3. CASE pass \in {"interact", "wait"}
  <2>1. b = ForgetExpect(m)
    BY <1>3 DEF ExpectStep, has_PATTERN
  <2>. QED  BY <1>1, <2>1, ForgetBuf, SizesAssumption
<1>4. CASE ~has_PATTERN(pass) /\ pass \notin {"interact", "wait"}
  <2>1. b = m
    BY <1>4 DEF ExpectStep
  <2>2. pass \notin PassKinds \ {"eof", "nopattern"}
    BY <1>4, KindsAssumption DEF has_PATTERN
  <2>. QED  BY <1>1, <2>1, <2>2 DEF ExpOK
<1>. QED  BY <1>2, <1>3, <1>4

\* serv_init() leaves the buffers empty.
LEMMA InitInv == Init => Inv
<1>. SUFFICES ASSUME Init PROVE Inv
  OBVIOUS
<1>1. BufOK(g)
  BY InitBuf DEF Init
<1>2. TypeOK
  BY <1>1, KindsAssumption DEF Init, TypeOK, BufOK, Phases
<1>. QED  BY <1>1, <1>2, SizesAssumption DEF Init, Inv, ExpOK, serv_init

\* One turn of the loop keeps the invariant, phase by phase.
LEMMA NextInv == Inv /\ [Next]_vars => Inv'
<1>. SUFFICES ASSUME Inv, [Next]_vars PROVE Inv'
  OBVIOUS
<1>. USE DEF Inv
<1>1. CASE UNCHANGED vars
  BY <1>1 DEF vars, TypeOK, ExpOK
<1>2. ASSUME g' = g, TypeOK', ph # "pass", ph # "drop", ph # "aborted",
             ph' \in {"top", "select"} => ph \in {"top", "select"}
      PROVE  Inv'
  BY <1>2 DEF ExpOK
<1>3. CASE LoopTop \/ ExitLoop \/ serv_accept \/ NoAccept
  <2>1. TypeOK'
    BY <1>3 DEF LoopTop, ExitLoop, serv_accept, NoAccept, TypeOK, Phases
  <2>. QED  BY <1>2, <1>3, <2>1 DEF LoopTop, ExitLoop, serv_accept, NoAccept
<1>4. CASE SelectReturns
  <2>1. TypeOK'
    BY <1>4 DEF SelectReturns, TypeOK, Phases
  <2>. QED  BY <1>4, <2>1 DEF SelectReturns, ExpOK
<1>5. CASE ReadData
  <2>1. PICK n \in 1 .. Room(g) : g' = AppendNew(g, n)
    BY <1>5 DEF ReadData
  <2>2. BufOK(g') /\ g'.expcnt = g.expcnt
    BY <2>1, AppendBuf
  <2>3. TypeOK'
    BY <1>5, <2>2 DEF ReadData, TypeOK, BufOK, Phases
  <2>. QED  BY <1>5, <2>2, <2>3 DEF ReadData, ExpOK
<1>6. CASE ReadEof \/ ReadNothing
  <2>1. TypeOK'
    BY <1>6 DEF ReadEof, ReadNothing, TypeOK, Phases
  <2>. QED  BY <1>2, <1>6, <2>1 DEF ReadEof, ReadNothing
<1>7. CASE NonblockMark
  <2>1. BufOK(g') /\ g'.expcnt = g.expcnt
    BY <1>7, DroppedBuf DEF NonblockMark
  <2>2. TypeOK'
    BY <1>7, <2>1 DEF NonblockMark, TypeOK, BufOK, Phases
  <2>. QED  BY <1>7, <2>1, <2>2 DEF NonblockMark, ExpOK
<1>8. CASE serv_process_msg
  <2>1. CASE MsgOther \/ MsgCloses \/ MsgClose \/ MsgSet
             \/ \E k \in PassKinds, lb \in BOOLEAN : MsgPass(k, lb)
    <3>1. g' = g /\ ph = "msg" /\ ph' = "pass"
      BY <2>1 DEF MsgOther, MsgCloses, MsgClose, MsgSet, MsgPass, Request
    <3>2. TypeOK'
      BY <2>1 DEF MsgOther, MsgCloses, MsgClose, MsgSet, MsgPass, TypeOK, Phases
    <3>. QED  BY <1>2, <3>1, <3>2
  <2>2. CASE MsgInfo
    <3>1. CASE AssertFits(g)
      <4>1. PICK kept \in 0 .. ncopy(g) : g' = buf_raw2expect(g, kept)
        BY <2>2, <3>1 DEF MsgInfo
      <4>2. BufOK(g') /\ g'.expoffset = g'.ntotal /\ g'.expcnt <= RawBufSize
        BY <3>1, <4>1, Raw2ExpectBuf
      <4>3. ph' = "pass" /\ TypeOK'
        BY <2>2, <3>1, <4>2 DEF MsgInfo, TypeOK, BufOK, Phases
      <4>. QED  BY <4>2, <4>3 DEF ExpOK
    <3>2. CASE ~AssertFits(g)
      BY <2>2, <3>2, <1>2 DEF MsgInfo, TypeOK, Phases, Request
    <3>. QED  BY <3>1, <3>2
  <2>. QED  BY <1>8, <2>1, <2>2 DEF serv_process_msg
<1>9. CASE serv_pass
  <2>1. CASE NotPassing \/ PassSendFails \/ PassAborts
    <3>1. g' = g /\ ph = "pass" /\ ph' \in {"drop", "aborted"}
      BY <2>1 DEF NotPassing, PassSendFails, PassAborts, Passing
    <3>2. TypeOK'
      BY <2>1 DEF NotPassing, PassSendFails, PassAborts, TypeOK, Phases
    <3>. QED  BY <3>1, <3>2 DEF ExpOK
  <2>2. CASE PassMatched
    <3>. DEFINE m == MarkSent(g)
    <3>1. PICK kept \in 0 .. ncopy(m) :
             \E rest \in 0 .. buf_raw2expect(m, kept).expcnt :
                g' = ConsumeMatch(buf_raw2expect(m, kept), rest)
      BY <2>2 DEF PassMatched
    <3>. DEFINE c == buf_raw2expect(m, kept)
    <3>2. PICK rest \in 0 .. c.expcnt : g' = ConsumeMatch(c, rest)
      BY <3>1
    <3>3. AssertFits(m)
      BY <2>2 DEF PassMatched
    <3>4. BufOK(c) /\ c.expoffset = c.ntotal /\ c.expcnt <= RawBufSize
      BY <3>3, SentBuf, Raw2ExpectBuf
    <3>5. BufOK(g') /\ g'.expoffset = g'.ntotal /\ g'.expcnt = rest
      BY <3>2, <3>4, ConsumeBuf
    <3>6. rest <= RawBufSize
      BY <3>4, SizesAssumption DEF BufOK, Buf
    <3>7. ph' = "drop" /\ TypeOK'
      BY <2>2, <3>5 DEF PassMatched, TypeOK, BufOK, Phases
    <3>. QED  BY <3>5, <3>6, <3>7 DEF ExpOK
  <2>3. ASSUME NEW r \in BOOLEAN, PassAtEof(r) \/ PassGoesOn(r)
        PROVE  Inv'
    <3>1. ph = "pass" /\ ph' = "drop" /\ (has_PATTERN(pass) => AssertFits(MarkSent(g)))
      BY <2>3 DEF PassAtEof, PassGoesOn, Passing
    <3>2. PICK b \in ExpectStep(MarkSent(g)) : g' = b \/ g' = ForgetExpect(b)
      BY <2>3 DEF PassAtEof, PassGoesOn
    <3>3. /\ BufOK(b)
          /\ \/ b.expcnt <= MaxOldData
             \/ b.expcnt <= RawBufSize /\ b.expoffset = b.ntotal
      BY <3>1, <3>2, ExpectStepBuf
    <3>4. /\ BufOK(g')
          /\ \/ g'.expcnt <= MaxOldData
             \/ g'.expcnt <= RawBufSize /\ g'.expoffset = g'.ntotal
      BY <3>2, <3>3, ForgetBuf, SizesAssumption
    <3>5. TypeOK'
      BY <2>3, <3>1, <3>4 DEF PassAtEof, PassGoesOn, TypeOK, BufOK, Phases
    <3>. QED  BY <3>1, <3>4, <3>5 DEF ExpOK
  <2>. QED  BY <1>9, <2>1, <2>2, <2>3 DEF serv_pass
<1>10. CASE DropOld
  <2>1. BufOK(g') /\ g'.expcnt <= MaxOldData /\ g'.oldcnt <= MaxOldData
    BY <1>10, DropBuf DEF DropOld
  <2>2. TypeOK'
    BY <1>10, <2>1 DEF DropOld, TypeOK, BufOK, Phases
  <2>. QED  BY <2>1, <2>2 DEF ExpOK
<1>. QED  BY <1>1, <1>3, <1>4, <1>5, <1>6, <1>7, <1>8, <1>9, <1>10 DEF Next

\* The strengthened invariant holds in every state of the server.
THEOREM Invariance == Spec => []Inv
BY InitInv, NextInv, PTL DEF Spec

\* Type correctness: no counter of the buffers ever becomes negative.
THEOREM TypeCorrect == Spec => []TypeOK
<1>1. Inv => TypeOK
  BY DEF Inv
<1>. QED  BY <1>1, Invariance, PTL

\* rawbuf is always the last bytes of the output and never overflows.
THEOREM WindowCorrect == Spec => [](Window /\ KeepsOldData)
<1>1. Inv => Window /\ KeepsOldData
  BY DEF Inv, BufOK, Window, KeepsOldData
<1>. QED  BY <1>1, Invariance, PTL

\* Whatever is dropped, MAX_OLD_DATA bytes stay for -lookback and for the read
\* of rawnew[newcnt - 1].
THEOREM OldDataCorrect == Spec => []KeepsOldData
BY WindowCorrect, PTL

\* However clients mix their requests, expbuf is short of what a copy needs
\* by at most MAX_OLD_DATA bytes.
THEOREM ExpBufCorrect == Spec => []ExpBufBounded
<1>1. ASSUME Inv PROVE ExpBufBounded
  <2>. USE <1>1 DEF Inv
  <2>1. /\ BufOK(SkipGap(g)) /\ ncopy(g) \in Nat /\ ncopy(g) <= RawBufSize
        /\ SkipGap(g).expcnt <= g.expcnt /\ SkipGap(g).ntotal = g.ntotal
        /\ g.rawoffset <= g.expoffset => SkipGap(g) = g
        /\ ncopy(g) = SkipGap(g).ntotal - SkipGap(g).expoffset
    BY GapBuf DEF ncopy
  <2>2. CASE g.expcnt <= MaxOldData
    BY <2>1, <2>2, SizesAssumption DEF ExpBufBounded, BufOK, Buf
  <2>3. CASE g.expoffset = g.ntotal /\ g.expcnt <= RawBufSize
    <3>1. g.rawoffset <= g.expoffset
      BY <2>3 DEF BufOK, Buf
    <3>. QED  BY <2>1, <2>3, <3>1, SizesAssumption DEF ExpBufBounded, BufOK, Buf
  <2>. QED  BY <2>2, <2>3 DEF ExpOK
<1>. QED  BY <1>1, Invariance, PTL

-----------------------------------------------------------------------------
(* The assertion of buf_raw2expect() *)

AssertInv == Inv /\ NoLag(g) /\ AssertHolds

\* Without a lag the copy fits: all of it is in rawbuf.
LEMMA NoLagFits ==
    ASSUME NEW b, BufOK(b), b.rawoffset + b.expcnt <= b.expoffset
    PROVE  AssertFits(b)
<1>1. b.rawoffset <= b.expoffset
  BY DEF BufOK, Buf
<1>2. SkipGap(b) = b
  BY <1>1, GapBuf
<1>. QED  BY <1>2, SizesAssumption DEF AssertFits, ncopy, BufOK, Buf

\* Without `expect -eof', an expect without a pattern and -nonblock no step makes
\* expbuf lag behind.
LEMMA NextAssert ==
    ASSUME PassKinds \cap {"eof", "nopattern"} = {}, TRUE \notin NonblockModes
    PROVE  AssertInv /\ [Next]_vars => AssertInv'
<1>. SUFFICES ASSUME AssertInv, [Next]_vars PROVE NoLag(g') /\ AssertHolds'
  BY NextInv DEF AssertInv
<1>. USE DEF AssertInv, AssertHolds
<1>1. TypeOK /\ BufOK(g) /\ ExpOK
  BY DEF Inv
<1>. DEFINE m == MarkSent(g)
<1>2. BufOK(m) /\ m.rawoffset + m.expcnt <= m.expoffset
  BY <1>1, SentBuf DEF NoLag
<1>3. AssertFits(g) /\ AssertFits(m)
  BY <1>1, <1>2, NoLagFits DEF NoLag
<1>4. CASE UNCHANGED vars
  BY <1>4 DEF vars
<1>5. CASE LoopTop \/ ExitLoop \/ SelectReturns \/ serv_accept \/ NoAccept
           \/ ReadEof \/ ReadNothing
  BY <1>5 DEF LoopTop, ExitLoop, SelectReturns, serv_accept, NoAccept,
          ReadEof, ReadNothing
<1>6. CASE ReadData
  BY <1>1, <1>6, AppendBuf DEF ReadData
<1>7. CASE NonblockMark
  <2>1. ~nonblock
    BY <1>1 DEF TypeOK
  <2>. QED  BY <1>7, <2>1 DEF NonblockMark
<1>8. CASE serv_process_msg
  <2>1. CASE MsgInfo
    <3>1. PICK kept \in 0 .. ncopy(g) : g' = buf_raw2expect(g, kept)
      BY <1>3, <2>1 DEF MsgInfo
    <3>2. NoLag(g')
      BY <1>1, <3>1, Raw2ExpectBuf DEF NoLag
    <3>. QED  BY <1>3, <2>1, <3>2 DEF MsgInfo
  <2>2. CASE MsgOther \/ MsgCloses \/ MsgClose \/ MsgSet
             \/ \E k \in PassKinds, lb \in BOOLEAN : MsgPass(k, lb)
    BY <2>2 DEF MsgOther, MsgCloses, MsgClose, MsgSet, MsgPass
  <2>. QED  BY <1>8, <2>1, <2>2 DEF serv_process_msg
<1>9. CASE serv_pass
  <2>1. CASE NotPassing \/ PassSendFails
    BY <2>1 DEF NotPassing, PassSendFails
  <2>2. CASE PassAborts
    BY <1>3, <2>2 DEF PassAborts
  <2>3. CASE PassMatched
    <3>1. PICK kept \in 0 .. ncopy(m) :
             \E rest \in 0 .. buf_raw2expect(m, kept).expcnt :
                g' = ConsumeMatch(buf_raw2expect(m, kept), rest)
      BY <2>3 DEF PassMatched
    <3>. DEFINE c == buf_raw2expect(m, kept)
    <3>2. BufOK(c) /\ NoLag(c)
      BY <1>2, Raw2ExpectBuf
    <3>3. NoLag(g')
      BY <3>1, <3>2, ConsumeBuf
    <3>. QED  BY <2>3, <3>3 DEF PassMatched
  <2>4. ASSUME NEW r \in BOOLEAN, PassAtEof(r) \/ PassGoesOn(r)
        PROVE  NoLag(g') /\ AssertHolds'
    <3>1. ph = "pass" /\ ph' = "drop" /\ pass \in PassKinds \ {"eof", "nopattern"}
      BY <1>1, <2>4 DEF PassAtEof, PassGoesOn, Passing, TypeOK
    <3>2. PICK b \in ExpectStep(m) : g' = b
      BY <2>4, <3>1 DEF PassAtEof, PassGoesOn
    <3>3. NoLag(b)
      BY <1>1, <1>3, <3>1, ExpectStepBuf
    <3>. QED  BY <3>1, <3>2, <3>3
  <2>. QED  BY <1>9, <2>1, <2>2, <2>3, <2>4 DEF serv_pass
<1>10. CASE DropOld
  BY <1>1, <1>10, DropBuf DEF DropOld
<1>. QED  BY <1>4, <1>5, <1>6, <1>7, <1>8, <1>9, <1>10 DEF Next

\* As long as no client uses `expect -eof' or an expect with -nocase or -anchor
\* alone, and -nonblock is off, the assertion of buf_raw2expect() never
\* fails: neither get nor expect can overflow expbuf, whatever the sizes and the
\* output.
THEOREM AssertCorrect ==
    ASSUME PassKinds \cap {"eof", "nopattern"} = {}, TRUE \notin NonblockModes
    PROVE  Spec => []AssertHolds
<1>1. Init => AssertInv
  BY InitInv, InitBuf DEF AssertInv, AssertHolds, Init
<1>2. AssertInv /\ [Next]_vars => AssertInv'
  BY NextAssert
<1>3. AssertInv => AssertHolds
  BY DEF AssertInv
<1>. QED  BY <1>1, <1>2, <1>3, PTL DEF Spec

=============================================================================
