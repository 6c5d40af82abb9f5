----------------------------- MODULE ByteProofs -----------------------------
(***************************************************************************)
(* Proofs about ServBytes, for every output, every size of the buffers and *)
(* every way of cutting the output into reads.                             *)
(*                                                                         *)
(* The buffers with bytes implement the counters of ServBuf, so what       *)
(* ServBufProofs proves of the counters holds of them.  With it, rawbuf is *)
(* the piece of the output that the counters describe: that is inductive   *)
(* once it is said of the whole output and not of what was read so far.    *)
(*                                                                         *)
(* What "expect" sees: expbuf is a piece of the child's text, and as long  *)
(* as the output fits it is all of the text since the last match.  For it, *)
(* what buf_raw2expect() copies: the text of two pieces of output is the   *)
(* text of the first and then of the second, by induction over a set of    *)
(* lengths (SeqProofs).                                                    *)
(***************************************************************************)
EXTENDS Lookback, ServBufProofs, SeqProofs

-----------------------------------------------------------------------------
(* The counters *)

\* Every step of the bytes is a step of the counters, or touches none of them.
LEMMA ByteStep == [ByteNext]_byteVars => [Next]_vars
<1>. SUFFICES ASSUME [ByteNext]_byteVars PROVE [Next]_vars
  OBVIOUS
<1>1. CASE UNCHANGED byteVars
  BY <1>1 DEF byteVars
<1>2. CASE ByteRead
  BY <1>2 DEF ByteRead, Next
<1>3. CASE ByteInfo
  BY <1>3 DEF ByteInfo, Next, serv_process_msg
<1>4. CASE ByteMatched
  BY <1>4 DEF ByteMatched, Next, serv_pass
<1>5. CASE ByteNotMatched
  BY <1>5 DEF ByteNotMatched, Next, serv_pass
<1>6. CASE ByteDrop
  BY <1>6 DEF ByteDrop, Next
<1>7. CASE ByteOther
  BY <1>7 DEF ByteOther, Next, serv_process_msg, serv_pass
<1>. QED  BY <1>1, <1>2, <1>3, <1>4, <1>5, <1>6, <1>7 DEF ByteNext

\* ServBytes only adds conjuncts to the steps of ServBuf, so the invariants of the
\* counters hold there, too.
LEMMA BytesImplementCounters == ByteSpec => Spec
<1>1. ByteInit => Init
  BY DEF ByteInit
<1>. QED  BY <1>1, ByteStep, PTL DEF ByteSpec, Spec

-----------------------------------------------------------------------------
(* Pieces of a sequence *)

\* The last k elements of a piece are a shorter piece that ends where it did.
LEMMA LastOfPiece ==
    ASSUME NEW S, NEW s \in Seq(S), NEW j \in 0 .. Len(s), NEW i \in 0 .. j,
           NEW k \in 0 .. j - i
    PROVE  LastOf(SubSeq(s, i + 1, j), k) = SubSeq(s, j - k + 1, j)
<1>1. Len(s) \in Nat /\ j \in Nat /\ i \in Nat /\ k \in Nat
  OBVIOUS
<1>2. Len(SubSeq(s, i + 1, j)) = j - i
  <2>1. \A n \in i + 1 .. j : s[n] \in S
    BY <1>1
  <2>2. Len(SubSeq(s, i + 1, j)) = IF i + 1 <= j THEN j - (i + 1) + 1 ELSE 0
    BY <1>1, <2>1, SubSeqProperties
  <2>. QED  BY <1>1, <2>2
<1>3. CASE k = 0
  <2>1. SubSeq(s, j - k + 1, j) = <<>>
    BY <1>1, <1>3, SubSeqEmpty
  <2>2. SubSeq(SubSeq(s, i + 1, j), j - i - k + 1, j - i) = <<>>
    BY <1>1, <1>3, SubSeqEmpty
  <2>. QED  BY <1>2, <2>1, <2>2 DEF LastOf
<1>4. CASE k # 0
  <2>1. /\ i + 1 \in 1 .. Len(s) /\ j \in 1 .. Len(s)
        /\ j - i - k + 1 \in 1 .. j - (i + 1) + 1
        /\ j - i \in 1 .. j - (i + 1) + 1
    BY <1>1, <1>4
  <2>2. SubSeq(SubSeq(s, i + 1, j), j - i - k + 1, j - i)
           = SubSeq(s, (i + 1) + (j - i - k + 1) - 1, (i + 1) + (j - i) - 1)
    BY <2>1, SubSeqOfSubSeq
  <2>3. (i + 1) + (j - i - k + 1) - 1 = j - k + 1 /\ (i + 1) + (j - i) - 1 = j
    BY <1>1
  <2>. QED  BY <1>2, <2>2, <2>3 DEF LastOf
<1>. QED  BY <1>3, <1>4

-----------------------------------------------------------------------------
(* rawbuf *)

\* rawbuf holds the output from rawoffset to ntotal.
RawInv ==
    /\ output \in Outputs
    /\ g.ntotal <= MaxTotal
    /\ rawbuf = SubSeq(output, g.rawoffset + 1, g.ntotal)

\* Every output is a sequence.
LEMMA OutputSeq ==
    ASSUME output \in Outputs
    PROVE  \E S : output \in Seq(S) /\ Len(output) = MaxTotal
<1>. DEFINE S == {output[i] : i \in 1 .. MaxTotal}
<1>1. output = [i \in 1 .. MaxTotal |-> output[i]]
  BY OutputsAssumption
<1>2. output \in [1 .. MaxTotal -> S]
  BY <1>1
<1>3. output \in Seq(S)
  BY <1>2, MaxTotalAssumption
<1>4. Len(output) = MaxTotal
  BY <1>1, <1>3, MaxTotalAssumption
<1>. QED  BY <1>3, <1>4

\* The steps that neither read nor drop leave the window where it is.
LEMMA WindowStays ==
    ASSUME Inv, ByteInfo \/ ByteMatched \/ ByteNotMatched \/ ByteOther
    PROVE  /\ g'.ntotal = g.ntotal /\ g'.rawoffset = g.rawoffset
           /\ rawbuf' = rawbuf /\ output' = output
<1>. DEFINE Same(b) == b.ntotal = g.ntotal /\ b.rawoffset = g.rawoffset
            m == MarkSent(g)
<1>1. g \in Buf /\ BufOK(g) /\ BufOK(m) /\ Same(m) /\ Same(g)
  BY SentBuf DEF Inv, BufOK
<1>2. ASSUME NEW b, BufOK(b), Same(b), NEW kept \in 0 .. ncopy(b)
      PROVE  Same(buf_raw2expect(b, kept)) /\ buf_raw2expect(b, kept) \in Buf
  <2>1. BufOK(SkipGap(b)) /\ SkipGap(b).ntotal = b.ntotal
        /\ SkipGap(b).rawoffset = b.rawoffset
    BY <1>2, GapBuf
  <2>2. BufOK(buf_raw2expect(b, kept))
    BY <1>2, Raw2ExpectBuf
  <2>. QED  BY <1>2, <2>1, <2>2 DEF buf_raw2expect, BufOK, Buf
<1>3. ASSUME NEW b \in Buf, Same(b)
      PROVE  Same(ForgetExpect(b)) /\ \A n : Same(ConsumeMatch(b, n))
  BY <1>3 DEF ForgetExpect, ConsumeMatch, Buf
<1>. HIDE DEF Same
<1>4. Same(g')
  <2>1. CASE ByteInfo
    <3>1. CASE AssertFits(g)
      BY <1>1, <1>2, <2>1, <3>1 DEF ByteInfo, MsgInfo
    <3>2. CASE ~AssertFits(g)
      BY <1>1, <2>1, <3>2 DEF ByteInfo, MsgInfo
    <3>. QED  BY <3>1, <3>2
  <2>2. CASE ByteMatched
    <3>1. PICK kept \in 0 .. ncopy(m) :
             \E rest \in 0 .. buf_raw2expect(m, kept).expcnt :
                g' = ConsumeMatch(buf_raw2expect(m, kept), rest)
      BY <2>2 DEF ByteMatched, PassMatched
    <3>. QED  BY <1>1, <1>2, <1>3, <3>1
  <2>3. CASE ByteNotMatched
    <3>1. PICK b \in ExpectStep(m) : g' = b \/ g' = ForgetExpect(b)
      BY <2>3 DEF ByteNotMatched, PassAtEof, PassGoesOn
    <3>2. Same(b) /\ b \in Buf
      <4>1. CASE has_PATTERN(pass)
        BY <1>1, <1>2, <3>1, <4>1 DEF ExpectStep
      <4>2. CASE ~has_PATTERN(pass) /\ pass \in {"interact", "wait"}
        BY <1>1, <1>3, <3>1, <4>2, ForgetBuf DEF ExpectStep, BufOK
      <4>3. CASE ~has_PATTERN(pass) /\ pass \notin {"interact", "wait"}
        BY <1>1, <3>1, <4>3 DEF ExpectStep, BufOK
      <4>. QED  BY <4>1, <4>2, <4>3
    <3>. QED  BY <1>3, <3>1, <3>2
  <2>4. CASE ByteOther /\ NonblockMark
    BY <1>1, <2>4 DEF NonblockMark, MarkDropped, Buf, Same
  <2>5. CASE ByteOther /\ ~NonblockMark
    <3>1. g' = g
      BY <2>5 DEF ByteOther, LoopTop, ExitLoop, SelectReturns, serv_accept,
        NoAccept, ReadEof, ReadNothing, MsgOther, MsgCloses, MsgClose, MsgSet,
        MsgPass, NotPassing, PassSendFails, PassAborts
    <3>. QED  BY <1>1, <3>1
  <2>. QED  BY <2>1, <2>2, <2>3, <2>4, <2>5
<1>5. rawbuf' = rawbuf /\ output' = output
  BY DEF ByteInfo, ByteMatched, ByteNotMatched, ByteOther, bytes
<1>. QED  BY <1>4, <1>5 DEF Same

\* read() appends what comes next, drop_old_data() moves the end to the front.
LEMMA RawNext == Inv /\ RawInv /\ [ByteNext]_byteVars => RawInv'
<1>. SUFFICES ASSUME Inv, RawInv, [ByteNext]_byteVars PROVE RawInv'
  OBVIOUS
<1>1. BufOK(g) /\ BufOK(g')
  BY NextInv, ByteStep DEF Inv
<1>2. PICK S : output \in Seq(S) /\ Len(output) = MaxTotal
  BY OutputSeq DEF RawInv
<1>3. /\ g.ntotal \in 0 .. MaxTotal /\ g.rawoffset \in 0 .. g.ntotal
      /\ g.ntotal = g.rawoffset + g.oldcnt + g.newcnt
      /\ g.oldcnt \in Nat /\ g.newcnt \in Nat
  <2>1. g \in Buf /\ g.ntotal = g.rawoffset + g.oldcnt + g.newcnt
    BY <1>1 DEF BufOK
  <2>2. g.ntotal \in Nat /\ g.rawoffset \in Nat /\ g.oldcnt \in Nat /\ g.newcnt \in Nat
    BY <2>1 DEF Buf
  <2>3. g.ntotal <= MaxTotal
    BY DEF RawInv
  <2>. QED  BY <2>1, <2>2, <2>3, MaxTotalAssumption
<1>4. /\ g'.ntotal \in Nat /\ g'.rawoffset \in 0 .. g'.ntotal
      /\ g'.ntotal = g'.rawoffset + g'.oldcnt + g'.newcnt
      /\ g'.oldcnt \in Nat /\ g'.newcnt \in Nat
  <2>1. g' \in Buf /\ g'.ntotal = g'.rawoffset + g'.oldcnt + g'.newcnt
    BY <1>1 DEF BufOK
  <2>2. g'.ntotal \in Nat /\ g'.rawoffset \in Nat /\ g'.oldcnt \in Nat /\ g'.newcnt \in Nat
    BY <2>1 DEF Buf
  <2>. QED  BY <2>1, <2>2
<1>5. CASE UNCHANGED byteVars
  BY <1>5 DEF byteVars, vars, bytes, RawInv
<1>6. CASE ByteInfo \/ ByteMatched \/ ByteNotMatched \/ ByteOther
  BY <1>6, WindowStays DEF RawInv
<1>7. CASE ByteRead
  <2>1. PICK n \in 1 .. Room(g) : g.ntotal + n <= MaxTotal /\ g' = AppendNew(g, n)
    BY <1>7 DEF ByteRead, ReadData
  <2>2. /\ g'.ntotal = g.ntotal + n /\ g'.rawoffset = g.rawoffset
        /\ g'.ntotal <= MaxTotal /\ n \in Nat
    BY <1>1, <2>1, SizesAssumption DEF AppendNew, BufOK, Buf, Room
  <2>3. SubSeq(output, g.rawoffset + 1, g.ntotal) \o SubSeq(output, g.ntotal + 1, g'.ntotal)
           = SubSeq(output, g.rawoffset + 1, g'.ntotal)
    <3>1. /\ g.rawoffset + 1 \in 1 .. Len(output) + 1
          /\ g.ntotal \in (g.rawoffset + 1) - 1 .. Len(output)
          /\ g'.ntotal \in g.ntotal .. Len(output)
      BY <1>2, <1>3, <2>2, MaxTotalAssumption
    <3>. QED  BY <1>2, <3>1, ConcatAdjacentSubSeq
  <2>4. rawbuf' = rawbuf \o SubSeq(output, g.ntotal + 1, g'.ntotal) /\ output' = output
    BY <1>7 DEF ByteRead
  <2>. QED  BY <2>2, <2>3, <2>4 DEF RawInv
<1>8. CASE ByteDrop
  <2>1. rawbuf' = LastOf(rawbuf, g'.oldcnt + g'.newcnt) /\ output' = output
    BY <1>8 DEF ByteDrop
  <2>2. g' = drop_old_data(g)
    BY <1>8 DEF ByteDrop, DropOld
  <2>3. g'.ntotal = g.ntotal /\ g'.oldcnt <= g.oldcnt /\ g'.newcnt = g.newcnt
    BY <1>1, <2>2, SizesAssumption DEF drop_old_data, BufOK, Buf
  <2>4. LastOf(rawbuf, g'.oldcnt + g'.newcnt)
           = SubSeq(output, g.ntotal - (g'.oldcnt + g'.newcnt) + 1, g.ntotal)
    <3>1. /\ g.ntotal \in 0 .. Len(output) /\ g.rawoffset \in 0 .. g.ntotal
          /\ g'.oldcnt + g'.newcnt \in 0 .. g.ntotal - g.rawoffset
      BY <1>2, <1>3, <1>4, <2>3
    <3>. QED  BY <1>2, <3>1, LastOfPiece DEF RawInv
  <2>5. g.ntotal - (g'.oldcnt + g'.newcnt) + 1 = g'.rawoffset + 1
    BY <1>3, <1>4, <2>3
  <2>. QED  BY <1>3, <2>1, <2>3, <2>4, <2>5 DEF RawInv
<1>. QED  BY <1>5, <1>6, <1>7, <1>8 DEF ByteNext

\* The counters' invariant and the window hold in every state.
LEMMA RawInvariance == ByteSpec => [](Inv /\ RawInv)
<1>1. ByteInit => RawInv
  <2>. SUFFICES ASSUME ByteInit PROVE RawInv
    OBVIOUS
  <2>1. output \in Outputs /\ rawbuf = <<>> /\ g.ntotal = 0 /\ g.rawoffset = 0
    BY DEF ByteInit, Init, serv_init
  <2>2. SubSeq(output, 1, 0) = <<>>
    BY SubSeqEmpty
  <2>. QED  BY <2>1, <2>2, MaxTotalAssumption DEF RawInv
<1>. QED  BY <1>1, RawNext, BytesImplementCounters, Invariance, PTL DEF ByteSpec

\* However the output is cut into reads and whatever is dropped in between,
\* rawbuf is a contiguous piece of it that ends with the last byte read.
THEOREM RawCorrect == ByteSpec => []RawIsWindow
<1>1. ASSUME Inv, RawInv PROVE RawIsWindow
  <2>1. PICK S : output \in Seq(S) /\ Len(output) = MaxTotal
    BY <1>1, OutputSeq DEF RawInv
  <2>2. /\ g.ntotal \in 0 .. MaxTotal /\ g.rawoffset \in 0 .. g.ntotal
        /\ g.ntotal - g.rawoffset = g.oldcnt + g.newcnt
    BY <1>1, MaxTotalAssumption DEF RawInv, Inv, BufOK, Buf
  <2>3. Len(stream) = g.ntotal
    <3>1. \A i \in 1 .. g.ntotal : output[i] \in S
      BY <2>1, <2>2, MaxTotalAssumption
    <3>. QED  BY <2>2, <3>1, SubSeqProperties, MaxTotalAssumption DEF stream
  <2>4. LastOf(stream, g.ntotal - g.rawoffset) = rawbuf
    <3>1. /\ g.ntotal \in 0 .. Len(output) /\ 0 \in 0 .. g.ntotal
          /\ g.ntotal - g.rawoffset \in 0 .. g.ntotal - 0
          /\ g.ntotal - (g.ntotal - g.rawoffset) = g.rawoffset
      BY <2>1, <2>2, MaxTotalAssumption
    <3>2. LastOf(SubSeq(output, 0 + 1, g.ntotal), g.ntotal - g.rawoffset)
             = SubSeq(output, g.ntotal - (g.ntotal - g.rawoffset) + 1, g.ntotal)
      BY <2>1, <3>1, LastOfPiece
    <3>. QED  BY <1>1, <3>1, <3>2 DEF RawInv, stream
  <2>5. g.ntotal - (g.ntotal - g.rawoffset) + 1 = g.rawoffset + 1
    BY <2>2, MaxTotalAssumption
  <2>6. Len(rawbuf) = g.ntotal - g.rawoffset
    <3>1. \A i \in g.rawoffset + 1 .. g.ntotal : output[i] \in S
      BY <2>1, <2>2, MaxTotalAssumption
    <3>. QED  BY <1>1, <2>2, <3>1, SubSeqProperties, MaxTotalAssumption DEF RawInv
  <2>. QED  BY <2>2, <2>3, <2>4, <2>5, <2>6 DEF RawIsWindow, LastOf
<1>. QED  BY <1>1, RawInvariance, PTL

-----------------------------------------------------------------------------
(* Positions in a buffer *)

\* A set of positions has a last one: strrchr().
LEMMA GreatestOf ==
    ASSUME NEW L \in Nat, NEW T \in SUBSET (0 .. L - 1), T # {}
    PROVE  \E x \in T : \A y \in T : x >= y
<1>. DEFINE D == {L - y : y \in T}
<1>1. D \in SUBSET Nat
  <2>1. \A y \in T : L - y \in Nat
    OBVIOUS
  <2>. QED  BY <2>1
<1>0. D # {}
  OBVIOUS
<1>2. PICK d \in D : \A e \in D : d <= e
  BY <1>1, <1>0, LeastOf
<1>3. PICK x \in T : d = L - x
  BY <1>2
<1>4. ASSUME NEW y \in T PROVE x >= y
  <2>1. L - y \in D
    OBVIOUS
  <2>2. L - x <= L - y
    BY <1>2, <1>3, <2>1
  <2>. QED  BY <2>2
<1>. QED  BY <1>4

\* Going backwards from the end, each of the positions is met: there is a k-th
\* last one for every k up to their number.
LEMMA NthFromEnd ==
    ASSUME NEW L \in Nat, NEW T \in SUBSET (0 .. L - 1),
           NEW k \in 1 .. Cardinality(T)
    PROVE  \E i \in T : Cardinality({j \in T : j >= i}) = k
<1>. DEFINE From(i) == {j \in T : j >= i}
            Missing == {c \in 1 .. Cardinality(T) : \A i \in T : Cardinality(From(i)) # c}
<1>1. IsFiniteSet(T) /\ Cardinality(T) \in Nat
  <2>1. IsFiniteSet(0 .. L - 1)
    BY FS_Interval
  <2>. QED  BY <2>1, FS_Subset, FS_CardinalityType
<1>2. SUFFICES ASSUME Missing # {} PROVE FALSE
  OBVIOUS
<1>3. PICK c \in Missing : \A d \in Missing : c <= d
  <2>1. Missing \in SUBSET Nat
    BY <1>1
  <2>. QED  BY <1>2, <2>1, LeastOf
<1>4. PICK U : /\ U \in SUBSET T /\ Cardinality(U) = c - 1
               /\ \A j \in T, i \in U : j >= i => j \in U
  <2>1. CASE c = 1
    <3>1. {} \in SUBSET T /\ Cardinality({}) = c - 1
      BY <2>1, FS_EmptySet
    <3>. QED  BY <3>1
  <2>2. CASE c # 1
    <3>1. c - 1 \in 1 .. Cardinality(T) /\ ~(c <= c - 1)
      BY <1>1, <2>2
    <3>2. c - 1 \notin Missing
      BY <1>3, <3>1
    <3>3. PICK i \in T : Cardinality(From(i)) = c - 1
      BY <3>1, <3>2
    <3>4. From(i) \in SUBSET T /\ \A j \in T, h \in From(i) : j >= h => j \in From(i)
      OBVIOUS
    <3>. QED  BY <3>3, <3>4
  <2>. QED  BY <2>1, <2>2
<1>5. T \ U # {}
  <2>1. Cardinality(U) # Cardinality(T)
    BY <1>1, <1>3, <1>4
  <2>2. U # T
    BY <2>1
  <2>. QED  BY <1>4, <2>2
<1>6. PICK i \in T \ U : \A j \in T \ U : i >= j
  <2>1. T \ U \in SUBSET (0 .. L - 1)
    OBVIOUS
  <2>. QED  BY <1>5, <2>1, GreatestOf
<1>7. From(i) = U \cup {i}
  <2>1. ASSUME NEW j \in T, j >= i PROVE j \in U \cup {i}
    BY <1>6, <2>1
  <2>2. ASSUME NEW j \in U PROVE j \in T /\ j >= i
    BY <1>4, <1>6
  <2>. QED  BY <1>6, <2>1, <2>2
<1>8. Cardinality(U \cup {i}) = c
  <2>1. IsFiniteSet(U) /\ i \notin U
    BY <1>1, <1>4, <1>6, FS_Subset
  <2>2. Cardinality(U \cup {i}) = Cardinality(U) + 1
    BY <2>1, FS_AddElement
  <2>. QED  BY <1>1, <1>4, <2>2
<1>. QED  BY <1>3, <1>6, <1>7, <1>8
-----------------------------------------------------------------------------
(* -lookback *)

\* What -lookback n promises of an OUTPUT message that starts at p.
Shows(n, p) ==
    /\ p \in 0 .. g.oldcnt
    /\ p \in LineStarts \/ \A s \in LineStarts : s > g.oldcnt
    /\ LinesFrom(p) >= n \/ \A s \in LineStarts : s >= p
    /\ LinesFrom(p) > n => \A s \in LineStarts : s <= p \/ s > g.oldcnt

\* The NLs from position q on.
NLsFrom(q) == {j \in NLs : j >= q}

\* rawbuf and its counters agree, and something old is left once output was
\* dropped.
Sized ==
    /\ g.oldcnt \in Nat /\ g.newcnt \in Nat /\ g.rawoffset \in Nat
    /\ Len(rawbuf) = g.oldcnt + g.newcnt
    /\ g.rawoffset > 0 => g.oldcnt > 0

\* The NLs of rawbuf are finitely many positions; the last byte is one of them
\* if it ends a line.
LEMMA LineEnds ==
    ASSUME Sized
    PROVE  /\ Len(rawbuf) \in Nat
           /\ NLs \in SUBSET (0 .. Len(rawbuf) - 1)
           /\ IsFiniteSet(NLs) /\ Cardinality(NLs) \in Nat
           /\ EndsLine <=> Len(rawbuf) - 1 \in NLs
<1>1. Len(rawbuf) \in Nat
  BY DEF Sized
<1>. DEFINE L == Len(rawbuf)
<1>2. NLs \in SUBSET (0 .. L - 1)
  BY DEF NLs, Positions
<1>3. IsFiniteSet(NLs) /\ Cardinality(NLs) \in Nat
  <2>1. IsFiniteSet(0 .. L - 1)
    BY <1>1, FS_Interval
  <2>2. IsFiniteSet(NLs)
    BY <1>2, <2>1, FS_Subset
  <2>. QED  BY <2>2, FS_CardinalityType
<1>4. EndsLine <=> L - 1 \in NLs
  BY <1>1 DEF EndsLine, NLs, Positions
<1>. QED  BY <1>1, <1>2, <1>3, <1>4

\* A line starts after each NL, and at the start of the output.
LEMMA Starts ==
    ASSUME Sized
    PROVE  /\ \A s \in LineStarts : s \in Nat /\ (s # 0 => s - 1 \in NLs)
           /\ \A i \in NLs : i + 1 \in LineStarts
           /\ g.rawoffset = 0 <=> 0 \in LineStarts
BY DEF Sized, LineStarts, NLs, Positions

\* How many lines a message shows: the NLs in it, but for a final one.
LEMMA CountLines ==
    ASSUME Sized, NEW q \in 0 .. Len(rawbuf)
    PROVE  /\ LinesFrom(q) \in Nat
           /\ LinesFrom(q) <= 1 + Cardinality(NLs \ {Len(rawbuf) - 1})
           /\ q < Len(rawbuf) =>
                 LinesFrom(q) = IF EndsLine THEN Cardinality(NLsFrom(q))
                                ELSE 1 + Cardinality(NLsFrom(q))
<1>. DEFINE L == Len(rawbuf)
            C == {i \in NLs : i >= q /\ i < L - 1}
<1>1. /\ L \in Nat /\ NLs \in SUBSET (0 .. L - 1) /\ IsFiniteSet(NLs)
      /\ EndsLine <=> L - 1 \in NLs
  BY LineEnds
<1>2. C \in SUBSET (NLs \ {L - 1}) /\ IsFiniteSet(NLs \ {L - 1})
  BY <1>1, FS_RemoveElement
<1>3. /\ Cardinality(C) \in Nat
      /\ Cardinality(C) <= Cardinality(NLs \ {L - 1})
      /\ Cardinality(NLs \ {L - 1}) \in Nat
  BY <1>2, FS_Subset, FS_CardinalityType
<1>4. LinesFrom(q) = IF q = L THEN 0 ELSE 1 + Cardinality(C)
  BY DEF LinesFrom
<1>5. ASSUME q < L
      PROVE  Cardinality(C) = IF EndsLine THEN Cardinality(NLsFrom(q)) - 1
                              ELSE Cardinality(NLsFrom(q))
  <2>1. C = NLsFrom(q) \ {L - 1}
    <3>1. \A i \in NLs : i < L - 1 <=> i # L - 1
      BY <1>1
    <3>. QED  BY <3>1 DEF NLsFrom
  <2>2. IsFiniteSet(NLsFrom(q))
    BY <1>1, FS_Subset DEF NLsFrom
  <2>3. L - 1 \in NLsFrom(q) <=> EndsLine
    BY <1>1, <1>5 DEF NLsFrom
  <2>4. Cardinality(NLsFrom(q) \ {L - 1})
           = IF L - 1 \in NLsFrom(q) THEN Cardinality(NLsFrom(q)) - 1
             ELSE Cardinality(NLsFrom(q))
    BY <2>2, FS_RemoveElement
  <2>. QED  BY <2>1, <2>3, <2>4
<1>6. IsFiniteSet(NLsFrom(q)) /\ Cardinality(NLsFrom(q)) \in Nat
  BY <1>1, FS_Subset, FS_CardinalityType DEF NLsFrom
<1>. HIDE DEF C
<1>7. LinesFrom(q) \in Nat /\ LinesFrom(q) <= 1 + Cardinality(NLs \ {L - 1})
  BY <1>3, <1>4
<1>8. ASSUME q < L
      PROVE  LinesFrom(q) = IF EndsLine THEN Cardinality(NLsFrom(q))
                            ELSE 1 + Cardinality(NLsFrom(q))
  <2>1. LinesFrom(q) = 1 + Cardinality(C)
    BY <1>1, <1>4, <1>8
  <2>. QED  BY <1>3, <1>5, <1>6, <1>8, <2>1
<1>. QED  BY <1>7, <1>8

\* Less than the lines asked for are in rawbuf: the message starts with its
\* first whole line, or where the new output starts if that comes first.
LEMMA ShowsAll ==
    ASSUME Sized, NULs = {}, NEW n \in Nat \ {0}, Cardinality(NLs) < WantNLs(n)
    PROVE  Shows(n, serv_pass_psend(n))
<1>. DEFINE L == Len(rawbuf)  p == serv_pass_psend(n)
<1>1. /\ L \in Nat /\ NLs \in SUBSET (0 .. L - 1) /\ IsFiniteSet(NLs)
      /\ EndsLine <=> L - 1 \in NLs
      /\ Cardinality(NLs) \in Nat
  BY LineEnds
<1>2. ASSUME NEW q \in 0 .. g.oldcnt PROVE ~(LinesFrom(q) > n)
  <2>1. Cardinality(NLs \ {L - 1})
           = IF L - 1 \in NLs THEN Cardinality(NLs) - 1 ELSE Cardinality(NLs)
    BY <1>1, FS_RemoveElement, ZenonT(40)
  <2>2. Cardinality(NLs \ {L - 1}) < n
    BY <1>1, <2>1 DEF WantNLs
  <2>3. q \in 0 .. L /\ Cardinality(NLs \ {L - 1}) \in Nat
    BY <1>1, <2>1, FS_RemoveElement, FS_CardinalityType DEF Sized
  <2>4. LinesFrom(q) \in Nat /\ LinesFrom(q) <= 1 + Cardinality(NLs \ {L - 1})
    BY <2>3, CountLines
  <2>. QED  BY <2>2, <2>3, <2>4
<1>3. /\ \A s \in LineStarts : s \in Nat /\ (s # 0 => s - 1 \in NLs)
      /\ \A i \in NLs : i + 1 \in LineStarts
      /\ g.rawoffset = 0 <=> 0 \in LineStarts
  BY Starts
<1>4. CASE NLs = {} \/ g.rawoffset = 0
  <2>1. p = 0
    BY <1>4 DEF serv_pass_psend
  <2>2. p \in 0 .. g.oldcnt
    BY <2>1 DEF Sized
  <2>3. p \in LineStarts \/ \A s \in LineStarts : s > g.oldcnt
    BY <1>3, <1>4, <2>1
  <2>4. \A s \in LineStarts : s >= p
    BY <1>3, <2>1
  <2>. QED  BY <1>2, <2>2, <2>3, <2>4 DEF Shows
<1>6. \A i \in NLs : i \in Nat
  BY <1>1
<1>5. CASE NLs # {} /\ g.rawoffset # 0
  <2>1. NLs # {} /\ g.rawoffset # 0 /\ p = Min({AfterFirstNL, g.oldcnt})
    BY <1>5 DEF serv_pass_psend
  <2>2. AfterFirstNL = Min(NLs) + 1
    BY DEF AfterFirstNL
  <2>3. Min(NLs) \in NLs /\ \A y \in NLs : Min(NLs) <= y
    <3>1. \E x \in NLs : \A y \in NLs : x =< y
      BY <1>1, <2>1, LeastOf
    <3>. QED  BY <3>1 DEF Min
  <2>. DEFINE f == Min(NLs)
  <2>. HIDE DEF f
  <2>4. p \in {f + 1, g.oldcnt} /\ p <= f + 1 /\ p <= g.oldcnt
    <3>1. f \in Nat /\ g.oldcnt \in Nat
      BY <1>6, <2>3 DEF Sized, f
    <3>2. \E x \in {f + 1, g.oldcnt} : \A y \in {f + 1, g.oldcnt} : x =< y
      BY <3>1
    <3>3. p = Min({f + 1, g.oldcnt})
      BY <2>1, <2>2 DEF f
    <3>4. p \in {f + 1, g.oldcnt} /\ \A y \in {f + 1, g.oldcnt} : p =< y
      BY <3>2, <3>3 DEF Min
    <3>5. f + 1 \in {f + 1, g.oldcnt} /\ g.oldcnt \in {f + 1, g.oldcnt}
      OBVIOUS
    <3>. QED  BY <3>4, <3>5
  <2>5. f \in NLs /\ f \in Nat /\ \A y \in NLs : f <= y
    BY <1>6, <2>3 DEF f
  <2>6. \A s \in LineStarts : s \in Nat /\ s >= f + 1
    BY <1>1, <1>3, <2>1, <2>5
  <2>7. p \in 0 .. g.oldcnt
    BY <2>4, <2>5 DEF Sized
  <2>8. p \in LineStarts \/ \A s \in LineStarts : s > g.oldcnt
    <3>1. CASE p = f + 1
      BY <1>3, <2>5, <3>1
    <3>2. CASE p # f + 1
      BY <2>4, <2>5, <2>6, <3>2 DEF Sized
    <3>. QED  BY <3>1, <3>2
  <2>9. \A s \in LineStarts : s >= p
    BY <2>4, <2>5, <2>6, <2>7
  <2>. QED  BY <1>2, <2>7, <2>8, <2>9 DEF Shows
<1>. QED  BY <1>4, <1>5

\* The lines asked for are in rawbuf: the message starts with the first of
\* them, or with the line in which the new output starts if that is longer.
LEMMA ShowsSome ==
    ASSUME Sized, NEW n \in Nat \ {0}, Cardinality(NLs) >= WantNLs(n)
    PROVE  Shows(n, serv_pass_psend(n))
<1>. DEFINE L == Len(rawbuf)  p == serv_pass_psend(n)  w == WantNLs(n)
            i == NthLast(WantNLs(n))
<1>1. /\ L \in Nat /\ NLs \in SUBSET (0 .. L - 1) /\ IsFiniteSet(NLs)
      /\ EndsLine <=> L - 1 \in NLs
      /\ Cardinality(NLs) \in Nat
      /\ \A j \in NLs : j \in Nat /\ j < L
  BY LineEnds
<1>2. w \in Nat /\ w = IF EndsLine THEN n + 1 ELSE n
  BY DEF WantNLs
<1>0. w \in 1 .. Cardinality(NLs) /\ ~(Cardinality(NLs) < w)
  <2>1. Cardinality(NLs) \in Nat
    BY LineEnds
  <2>2. w > 0 /\ Cardinality(NLs) >= w
    BY <1>2
  <2>. QED  BY <1>2, <2>1, <2>2
<1>. HIDE DEF w
<1>3. i \in NLs /\ Cardinality(NLsFrom(i)) = w
  <2>1. \A T \in SUBSET (0 .. L - 1) : \A k \in 1 .. Cardinality(T) :
           \E j \in T : Cardinality({h \in T : h >= j}) = k
    BY <1>1, NthFromEnd
  <2>2. \E j \in NLs : Cardinality({h \in NLs : h >= j}) = w
    BY <1>0, <1>1, <2>1, Zenon
  <2>3. i = CHOOSE j \in NLs : Cardinality({h \in NLs : h >= j}) = w
    BY DEF NthLast, w
  <2>4. i \in NLs /\ Cardinality({h \in NLs : h >= i}) = w
    BY <2>2, <2>3, Zenon
  <2>. QED  BY <2>4 DEF NLsFrom
<1>4. /\ \A s \in LineStarts : s \in Nat /\ (s # 0 => s - 1 \in NLs)
      /\ \A j \in NLs : j + 1 \in LineStarts
      /\ g.rawoffset = 0 <=> 0 \in LineStarts
  BY Starts
<1>5. NLs # {} /\ ~(Cardinality(NLs) < w)
  BY <1>0, <1>3
<1>6. i \in Nat /\ i < L /\ g.oldcnt \in Nat /\ g.oldcnt <= L
  <2>1. i \in Nat /\ i < L
    BY <1>1, <1>3, Zenon
  <2>2. g.oldcnt \in Nat /\ g.oldcnt <= L
    BY DEF Sized
  <2>. QED  BY <2>1, <2>2
<1>. HIDE DEF i
<1>7. CASE i < g.oldcnt
  <2>1. p = i + 1
    BY <1>5, <1>7 DEF serv_pass_psend, w, i
  <2>2. p \in 0 .. g.oldcnt /\ p \in LineStarts
    BY <1>3, <1>4, <1>6, <1>7, <2>1
  <2>3. NLsFrom(p) = NLsFrom(i) \ {i}
    <3>1. \A j \in NLs : j >= i + 1 <=> j >= i /\ j # i
      BY <1>1, <1>6
    <3>. QED  BY <2>1, <3>1 DEF NLsFrom
  <2>4. Cardinality(NLsFrom(p)) = w - 1
    <3>1. IsFiniteSet(NLsFrom(i)) /\ i \in NLsFrom(i)
      BY <1>1, <1>3, <1>6, FS_Subset DEF NLsFrom
    <3>2. Cardinality(NLsFrom(i) \ {i}) = Cardinality(NLsFrom(i)) - 1
      BY <3>1, FS_RemoveElement
    <3>. QED  BY <1>3, <2>3, <3>2
  <2>5. p < L
    <3>1. SUFFICES ASSUME p = L PROVE FALSE
      BY <1>6, <2>2
    <3>2. NLsFrom(p) = {}
      <4>1. \A j \in NLs : ~(j >= L)
        BY <1>1
      <4>. QED  BY <3>1, <4>1 DEF NLsFrom
    <3>3. w = 1
      BY <1>2, <2>4, <3>2, FS_EmptySet
    <3>4. EndsLine
      BY <1>1, <1>3, <1>6, <2>1, <3>1
    <3>. QED  BY <1>2, <3>3, <3>4
  <2>6. LinesFrom(p) = n
    <3>1. p \in 0 .. L
      BY <1>6, <2>2
    <3>2. LinesFrom(p) = IF EndsLine THEN Cardinality(NLsFrom(p))
                         ELSE 1 + Cardinality(NLsFrom(p))
      BY <2>5, <3>1, CountLines
    <3>. QED  BY <1>2, <2>4, <3>2
  <2>. QED  BY <2>2, <2>6 DEF Shows
<1>8. CASE ~(i < g.oldcnt)
  <2>. DEFINE before == {j \in NLs : j < g.oldcnt}
  <2>1. p = NearestLine
    BY <1>5, <1>8 DEF serv_pass_psend, w, i
  <2>2. ASSUME NEW s \in LineStarts
        PROVE  s = 0 \/ s > g.oldcnt \/ s - 1 \in before
    BY <1>1, <1>4, <1>6
  <2>3. CASE before = {}
    <3>1. p = IF g.rawoffset > 0 THEN g.oldcnt ELSE 0
      BY <2>1, <2>3 DEF NearestLine
    <3>2. CASE g.rawoffset > 0
      <4>1. \A s \in LineStarts : s > g.oldcnt
        BY <1>4, <2>2, <2>3, <3>2
      <4>. QED  BY <1>4, <1>6, <3>1, <3>2, <4>1 DEF Shows
    <3>3. CASE ~(g.rawoffset > 0)
      <4>1. g.rawoffset = 0 /\ p = 0
        BY <3>1, <3>3 DEF Sized
      <4>2. \A s \in LineStarts : s = 0 \/ s > g.oldcnt
        BY <2>2, <2>3
      <4>. QED  BY <1>4, <1>6, <4>1, <4>2 DEF Shows
    <3>. QED  BY <3>2, <3>3
  <2>4. CASE before # {}
    <3>. DEFINE b == Max(before)
    <3>1. p = b + 1
      BY <2>1, <2>4 DEF NearestLine
    <3>2. b \in before /\ \A j \in before : b >= j
      <4>1. before \in SUBSET (0 .. L - 1)
        BY <1>1
      <4>2. \E x \in before : \A y \in before : x >= y
        BY <1>1, <2>4, <4>1, GreatestOf
      <4>. QED  BY <4>2 DEF Max
    <3>. HIDE DEF b
    <3>3. b \in NLs /\ b \in Nat /\ b < g.oldcnt
      BY <1>1, <3>2
    <3>4. p \in 0 .. g.oldcnt /\ p \in LineStarts /\ p <= i /\ p \in 0 .. L
      BY <1>4, <1>6, <1>8, <3>1, <3>3
    <3>5. LinesFrom(p) >= n
      <4>1. NLsFrom(i) \in SUBSET NLsFrom(p)
        <5>1. \A j \in NLs : j >= i => j >= p
          BY <1>1, <1>6, <3>4
        <5>. QED  BY <5>1 DEF NLsFrom
      <4>2. IsFiniteSet(NLsFrom(p))
        BY <1>1, FS_Subset DEF NLsFrom
      <4>3. Cardinality(NLsFrom(p)) \in Nat /\ w <= Cardinality(NLsFrom(p))
        BY <1>3, <4>1, <4>2, FS_Subset, FS_CardinalityType
      <4>4. LinesFrom(p) = IF EndsLine THEN Cardinality(NLsFrom(p))
                           ELSE 1 + Cardinality(NLsFrom(p))
        BY <1>6, <3>4, CountLines
      <4>. QED  BY <1>2, <4>3, <4>4
    <3>6. \A s \in LineStarts : s <= p \/ s > g.oldcnt
      <4>1. ASSUME NEW s \in LineStarts PROVE s <= p \/ s > g.oldcnt
        <5>1. s \in Nat /\ (s = 0 \/ s > g.oldcnt \/ s - 1 \in before)
          BY <1>4, <2>2
        <5>2. ASSUME s - 1 \in before PROVE s <= p
          BY <3>1, <3>2, <3>3, <5>1, <5>2
        <5>. QED  BY <3>4, <5>1, <5>2
      <4>. QED  BY <4>1
    <3>. QED  BY <3>4, <3>5, <3>6 DEF Shows
  <2>. QED  BY <2>3, <2>4
<1>. QED  BY <1>7, <1>8

\* -lookback N shows the last N lines of the output, for every N and every
\* state of the buffers: the loops over rawbuf find the line to start with.
THEOREM LookbackCorrect == ByteSpec => []ShowsLines
<1>1. ASSUME Inv, RawIsWindow PROVE ShowsLines
  <2>1. Sized
    BY <1>1, SizesAssumption DEF Sized, Inv, BufOK, Buf, RawIsWindow
  <2>2. ASSUME NEW n \in 1 .. MaxLines, NULs = {} PROVE Shows(n, serv_pass_psend(n))
    <3>1. n \in Nat \ {0}
      BY LinesAssumption
    <3>2. Cardinality(NLs) \in Nat /\ WantNLs(n) \in Nat
      BY <2>1, <3>1, LineEnds DEF WantNLs
    <3>3. CASE Cardinality(NLs) < WantNLs(n)
      BY <2>1, <2>2, <3>1, <3>3, ShowsAll
    <3>4. CASE Cardinality(NLs) >= WantNLs(n)
      BY <2>1, <3>1, <3>4, ShowsSome
    <3>. QED  BY <3>2, <3>3, <3>4
  <2>. QED  BY <2>2 DEF ShowsLines, Shows
<1>2. ByteSpec => []Inv
  BY RawInvariance, PTL
<1>. QED  BY <1>1, <1>2, RawCorrect, PTL

-----------------------------------------------------------------------------
(* Copying without NULs *)

\* One byte copied to t by buf_raw2expect(): NULs are left out.
Put(t, x) == IF x = Nul THEN t ELSE Append(t, x)

\* f[k] is what the first k bytes of s, copied one after the other, become.
IsCopy(f, s, n) == f = [k \in 0 .. n |-> IF k = 0 THEN <<>> ELSE Put(f[k - 1], s[k])]

\* Bytes can be copied one after the other.
LEMMA CopyExists ==
    ASSUME NEW s, NEW m \in Nat
    PROVE  \E f : IsCopy(f, s, m)
<1>. DEFINE T == {n \in Nat : \E f : IsCopy(f, s, n)}
<1>1. 0 \in T
  <2>. DEFINE f == [k \in 0 .. 0 |-> <<>>]
  <2>1. f = [k \in 0 .. 0 |-> IF k = 0 THEN <<>> ELSE Put(f[k - 1], s[k])]
    OBVIOUS
  <2>. QED  BY <2>1, Zenon DEF IsCopy
<1>2. ASSUME NEW n \in Nat, n \in T PROVE n + 1 \in T
  <2>1. PICK f : IsCopy(f, s, n)
    BY <1>2
  <2>. DEFINE h == [k \in 0 .. n + 1 |-> IF k = n + 1 THEN Put(f[n], s[n + 1]) ELSE f[k]]
  <2>2. \A k \in 0 .. n : f[k] = IF k = 0 THEN <<>> ELSE Put(f[k - 1], s[k])
    BY <2>1 DEF IsCopy
  <2>3. \A k \in 0 .. n + 1 : h[k] = IF k = 0 THEN <<>> ELSE Put(h[k - 1], s[k])
    <3>1. ASSUME NEW k \in 0 .. n PROVE h[k] = IF k = 0 THEN <<>> ELSE Put(h[k - 1], s[k])
      <4>1. h[k] = f[k] /\ (k # 0 => h[k - 1] = f[k - 1])
        OBVIOUS
      <4>. QED  BY <2>2, <4>1
    <3>2. h[n + 1] = Put(h[n], s[n + 1]) /\ n + 1 # 0 /\ (n + 1) - 1 = n
      OBVIOUS
    <3>. HIDE DEF h
    <3>3. h[n + 1] = IF n + 1 = 0 THEN <<>> ELSE Put(h[(n + 1) - 1], s[n + 1])
      BY <3>2
    <3>4. \A k \in 0 .. n + 1 : k \in 0 .. n \/ k = n + 1
      OBVIOUS
    <3>. QED  BY <3>1, <3>3, <3>4, Zenon
  <2>4. IsCopy(h, s, n + 1)
    <3>1. h = [k \in 0 .. n + 1 |-> h[k]]
      OBVIOUS
    <3>. HIDE DEF h
    <3>. QED  BY <2>3, <3>1, Zenon DEF IsCopy
  <2>. HIDE DEF h
  <2>5. n + 1 \in Nat /\ \E e : IsCopy(e, s, n + 1)
    BY <2>4
  <2>. QED  BY <2>5
<1>. HIDE DEF T
<1>3. m \in T
  BY <1>1, <1>2, EveryNat
<1>. QED  BY <1>3 DEF T

\* What a byte becomes does not depend on the bytes after it.
LEMMA CopyAgrees ==
    ASSUME NEW f, NEW h, NEW s, NEW t, NEW n \in Nat, NEW m \in Nat,
           IsCopy(f, s, n), IsCopy(h, t, m),
           NEW c \in Nat, c <= n, c <= m, \A j \in 1 .. c : s[j] = t[j]
    PROVE  f[c] = h[c]
<1>. DEFINE T == {k \in Nat : k <= c => f[k] = h[k]}
<1>1. /\ \A k \in 0 .. n : f[k] = IF k = 0 THEN <<>> ELSE Put(f[k - 1], s[k])
      /\ \A k \in 0 .. m : h[k] = IF k = 0 THEN <<>> ELSE Put(h[k - 1], t[k])
  BY DEF IsCopy
<1>2. 0 \in T
  BY <1>1
<1>3. ASSUME NEW k \in Nat, k \in T PROVE k + 1 \in T
  <2>. SUFFICES ASSUME k + 1 <= c PROVE f[k + 1] = h[k + 1]
    OBVIOUS
  <2>1. /\ k + 1 \in 0 .. n /\ k + 1 \in 0 .. m /\ k + 1 # 0 /\ (k + 1) - 1 = k
        /\ f[k] = h[k] /\ s[k + 1] = t[k + 1]
    BY <1>3
  <2>2. f[k + 1] = Put(f[k], s[k + 1]) /\ h[k + 1] = Put(h[k], t[k + 1])
    BY <1>1, <2>1
  <2>. QED  BY <2>1, <2>2
<1>. HIDE DEF T
<1>4. c \in T
  BY <1>2, <1>3, EveryNat
<1>. QED  BY <1>4 DEF T

\* Text() is what copying all of the bytes leaves.
LEMMA TextIsCopy ==
    ASSUME NEW s, Len(s) \in Nat
    PROVE  \E f : IsCopy(f, s, Len(s)) /\ Text(s) = f[Len(s)]
<1>. DEFINE f == CHOOSE h : h = [n \in 0 .. Len(s) |->
                    IF n = 0 THEN <<>>
                    ELSE IF s[n] = Nul THEN h[n - 1] ELSE Append(h[n - 1], s[n])]
<1>1. Text(s) = f[Len(s)]
  BY Zenon DEF Text
<1>2. \E h : IsCopy(h, s, Len(s))
  BY CopyExists
<1>3. f = [n \in 0 .. Len(s) |->
             IF n = 0 THEN <<>>
             ELSE IF s[n] = Nul THEN f[n - 1] ELSE Append(f[n - 1], s[n])]
  BY <1>2, Zenon DEF IsCopy, Put
<1>4. IsCopy(f, s, Len(s))
  BY <1>3, Zenon DEF IsCopy, Put
<1>. QED  BY <1>1, <1>4, Zenon

\* The text of a sequence is a sequence of its elements, and not longer.
LEMMA TextType ==
    ASSUME NEW S, NEW s \in Seq(S)
    PROVE  Text(s) \in Seq(S) /\ Len(Text(s)) \in Nat /\ Len(Text(s)) <= Len(s)
<1>1. PICK f : IsCopy(f, s, Len(s)) /\ Text(s) = f[Len(s)]
  BY TextIsCopy
<1>. DEFINE T == {k \in Nat : k <= Len(s) => f[k] \in Seq(S) /\ Len(f[k]) <= k}
<1>2. \A k \in 0 .. Len(s) : f[k] = IF k = 0 THEN <<>> ELSE Put(f[k - 1], s[k])
  BY <1>1 DEF IsCopy
<1>3. 0 \in T
  <2>1. 0 \in 0 .. Len(s)
    OBVIOUS
  <2>2. f[0] = <<>>
    BY <1>2, <2>1, Zenon
  <2>3. <<>> \in Seq(S) /\ Len(<<>>) <= 0
    OBVIOUS
  <2>. QED  BY <2>2, <2>3
<1>4. ASSUME NEW k \in Nat, k \in T PROVE k + 1 \in T
  <2>. SUFFICES ASSUME k + 1 <= Len(s) PROVE f[k + 1] \in Seq(S) /\ Len(f[k + 1]) <= k + 1
    OBVIOUS
  <2>1. f[k] \in Seq(S) /\ Len(f[k]) <= k /\ s[k + 1] \in S
    BY <1>4
  <2>2. k + 1 \in 0 .. Len(s) /\ k + 1 # 0 /\ (k + 1) - 1 = k
    OBVIOUS
  <2>3. f[k + 1] = Put(f[k], s[k + 1])
    BY <1>2, <2>2
  <2>4. CASE s[k + 1] = Nul
    BY <2>1, <2>3, <2>4 DEF Put
  <2>5. CASE s[k + 1] # Nul
    <3>1. f[k + 1] = Append(f[k], s[k + 1])
      BY <2>3, <2>5 DEF Put
    <3>. QED  BY <2>1, <3>1, AppendProperties
  <2>. QED  BY <2>4, <2>5
<1>. HIDE DEF T
<1>5. Len(s) \in T
  BY <1>3, <1>4, EveryNat
<1>. QED  BY <1>1, <1>5 DEF T

\* An empty buffer has no text.
LEMMA TextEmpty == Text(<<>>) = <<>>
<1>1. Len(<<>>) = 0
  OBVIOUS
<1>2. PICK f : IsCopy(f, <<>>, 0) /\ Text(<<>>) = f[0]
  BY <1>1, TextIsCopy
<1>. QED  BY <1>2 DEF IsCopy

\* One more byte adds itself to the text, or nothing.
LEMMA TextOneMore ==
    ASSUME NEW S, NEW s \in Seq(S), NEW x \in S
    PROVE  Text(s \o <<x>>) = Text(s) \o (IF x = Nul THEN <<>> ELSE <<x>>)
<1>. DEFINE t == s \o <<x>>  m == Len(s)
<1>1. t \in Seq(S) /\ Len(t) = m + 1 /\ t[m + 1] = x /\ \A j \in 1 .. m : s[j] = t[j]
  OBVIOUS
<1>. HIDE DEF t
<1>2. PICK f : IsCopy(f, s, m) /\ Text(s) = f[m]
  BY TextIsCopy
<1>3. PICK h : IsCopy(h, t, m + 1) /\ Text(t) = h[m + 1]
  BY <1>1, TextIsCopy
<1>4. f[m] = h[m]
  BY <1>1, <1>2, <1>3, CopyAgrees
<1>5. h[m + 1] = Put(h[m], x)
  <2>1. \A k \in 0 .. m + 1 : h[k] = IF k = 0 THEN <<>> ELSE Put(h[k - 1], t[k])
    BY <1>3 DEF IsCopy
  <2>2. m + 1 \in 0 .. m + 1 /\ m + 1 # 0 /\ (m + 1) - 1 = m
    OBVIOUS
  <2>. QED  BY <1>1, <2>1, <2>2
<1>6. Text(t) = Put(Text(s), x)
  BY <1>2, <1>3, <1>4, <1>5
<1>7. Text(s) \in Seq(S)
  BY TextType
<1>8. CASE x = Nul
  BY <1>6, <1>7, <1>8, ConcatEmptySeq DEF Put, t
<1>9. CASE x # Nul
  BY <1>6, <1>7, <1>9, AppendIsConcat DEF Put, t
<1>. QED  BY <1>8, <1>9

\* The text of two pieces is the text of the first and then of the second.
LEMMA TextConcat ==
    ASSUME NEW S, NEW s \in Seq(S), NEW r \in Seq(S)
    PROVE  Text(s \o r) = Text(s) \o Text(r)
<1>. DEFINE T == {n \in Nat : \A t \in Seq(S) : Len(t) = n => Text(s \o t) = Text(s) \o Text(t)}
<1>1. 0 \in T
  <2>1. ASSUME NEW t \in Seq(S), Len(t) = 0 PROVE Text(s \o t) = Text(s) \o Text(t)
    <3>1. t = <<>>
      BY <2>1
    <3>2. Text(s) \in Seq(S)
      BY TextType
    <3>. QED  BY <3>1, <3>2, TextEmpty, ConcatEmptySeq
  <2>. QED  BY <2>1
<1>2. ASSUME NEW n \in Nat, n \in T PROVE n + 1 \in T
  <2>1. ASSUME NEW t \in Seq(S), Len(t) = n + 1 PROVE Text(s \o t) = Text(s) \o Text(t)
    <3>. DEFINE u == SubSeq(t, 1, n)  x == t[n + 1]
                e == IF x = Nul THEN <<>> ELSE <<x>>
    <3>1. u \in Seq(S) /\ Len(u) = n /\ x \in S
      BY <2>1
    <3>2. t = u \o <<x>>
      <4>1. SubSeq(t, 1, n + 1) = SubSeq(t, 1, (n + 1) - 1) \o <<t[n + 1]>>
        BY <2>1, SubSeqRecursiveSecond
      <4>. QED  BY <2>1, <4>1, SubSeqFull
    <3>. HIDE DEF u, x
    <3>3. e \in Seq(S) /\ <<x>> \in Seq(S)
      BY <3>1
    <3>. HIDE DEF e
    <3>4. Text(s \o u) = Text(s) \o Text(u)
      BY <1>2, <3>1
    <3>5. s \o t = (s \o u) \o <<x>>
      BY <3>1, <3>2, <3>3, ConcatAssociative
    <3>6. Text(u \o <<x>>) = Text(u) \o e /\ Text((s \o u) \o <<x>>) = Text(s \o u) \o e
      BY <3>1, TextOneMore, ConcatProperties DEF e
    <3>7. (Text(s) \o Text(u)) \o e = Text(s) \o (Text(u) \o e)
      <4>1. Text(s) \in Seq(S) /\ Text(u) \in Seq(S)
        BY <3>1, TextType
      <4>. QED  BY <3>3, <4>1, ConcatAssociative, SMTT(30)
    <3>. QED  BY <3>2, <3>4, <3>5, <3>6, <3>7
  <2>. QED  BY <2>1
<1>. HIDE DEF T
<1>3. Len(r) \in T
  BY <1>1, <1>2, EveryNat
<1>. QED  BY <1>3 DEF T
-----------------------------------------------------------------------------
(* The end of a sequence *)

\* e is the end of t.
EndOf(e, t) == Len(e) \in Nat /\ Len(e) <= Len(t) /\ e = LastOf(t, Len(e))

\* The last k elements.
LEMMA LastOfType ==
    ASSUME NEW S, NEW s \in Seq(S), NEW k \in 0 .. Len(s)
    PROVE  /\ LastOf(s, k) \in Seq(S)
           /\ Len(LastOf(s, k)) = k
           /\ \A i \in 1 .. k : LastOf(s, k)[i] = s[Len(s) - k + i]
<1>. DEFINE m == Len(s) - k + 1
<1>1. m \in Int /\ Len(s) \in Int /\ \A i \in m .. Len(s) : s[i] \in S
  OBVIOUS
<1>2. /\ SubSeq(s, m, Len(s)) \in Seq(S)
      /\ Len(SubSeq(s, m, Len(s))) = IF m <= Len(s) THEN Len(s) - m + 1 ELSE 0
      /\ \A i \in 1 .. Len(s) - m + 1 : SubSeq(s, m, Len(s))[i] = s[m + i - 1]
  BY <1>1, SubSeqProperties
<1>3. LastOf(s, k) = SubSeq(s, m, Len(s))
  BY DEF LastOf
<1>4. (IF m <= Len(s) THEN Len(s) - m + 1 ELSE 0) = k /\ Len(s) - m + 1 = k
  OBVIOUS
<1>5. \A i \in 1 .. k : m + i - 1 = Len(s) - k + i
  OBVIOUS
<1>. HIDE DEF m
<1>. QED  BY <1>2, <1>3, <1>4, <1>5

\* All of the elements.
LEMMA LastOfAll == ASSUME NEW S, NEW s \in Seq(S) PROVE LastOf(s, Len(s)) = s
<1>1. Len(s) - Len(s) + 1 = 1
  OBVIOUS
<1>. QED  BY <1>1, SubSeqFull DEF LastOf

\* The end of the end.
LEMMA EndOfEnd ==
    ASSUME NEW S, NEW t \in Seq(S), NEW e, EndOf(e, t), NEW k \in 0 .. Len(e)
    PROVE  EndOf(LastOf(e, k), t) /\ Len(LastOf(e, k)) = k
<1>1. e \in Seq(S) /\ Len(e) \in 0 .. Len(t)
  BY LastOfType DEF EndOf
<1>2. LastOf(e, k) = LastOf(t, k)
  <2>. DEFINE i == Len(t) - Len(e)
  <2>1. /\ Len(t) \in 0 .. Len(t) /\ i \in 0 .. Len(t) /\ k \in 0 .. Len(t) - i
        /\ Len(t) - Len(e) + 1 = i + 1
    BY <1>1
  <2>2. LastOf(SubSeq(t, i + 1, Len(t)), k) = SubSeq(t, Len(t) - k + 1, Len(t))
    BY <2>1, LastOfPiece
  <2>3. e = SubSeq(t, i + 1, Len(t))
    BY <2>1 DEF EndOf, LastOf
  <2>. QED  BY <2>2, <2>3 DEF LastOf
<1>3. k \in 0 .. Len(t)
  BY <1>1
<1>4. Len(LastOf(t, k)) = k
  BY <1>3, LastOfType
<1>. QED  BY <1>2, <1>3, <1>4 DEF EndOf

\* What is added to a sequence is added to its end.
LEMMA EndOfConcat ==
    ASSUME NEW S, NEW a \in Seq(S), NEW b \in Seq(S), NEW e, EndOf(e, a)
    PROVE  EndOf(e \o b, a \o b)
<1>. DEFINE c == e \o b  d == a \o b  k == Len(e)  m == Len(e) + Len(b)
<1>1. /\ k \in 0 .. Len(a) /\ e = LastOf(a, k) /\ e \in Seq(S)
      /\ \A i \in 1 .. k : e[i] = a[Len(a) - k + i]
  BY LastOfType, SMTT(30) DEF EndOf
<1>2. /\ c \in Seq(S) /\ Len(c) = m
      /\ \A i \in 1 .. m : c[i] = IF i <= k THEN e[i] ELSE b[i - k]
  BY <1>1, ConcatProperties
<1>3. /\ d \in Seq(S) /\ Len(d) = Len(a) + Len(b)
      /\ \A i \in 1 .. Len(a) + Len(b) :
            d[i] = IF i <= Len(a) THEN a[i] ELSE b[i - Len(a)]
  BY ConcatProperties
<1>4. m \in 0 .. Len(d) /\ m \in Nat
  BY <1>1, <1>3
<1>5. /\ LastOf(d, m) \in Seq(S) /\ Len(LastOf(d, m)) = m
      /\ \A i \in 1 .. m : LastOf(d, m)[i] = d[Len(d) - m + i]
  BY <1>3, <1>4, LastOfType, ZenonT(40)
<1>. HIDE DEF c, d
<1>6. ASSUME NEW i \in 1 .. m PROVE c[i] = LastOf(d, m)[i]
  <2>1. Len(d) - m + i = Len(a) - k + i /\ Len(a) - k + i \in 1 .. Len(a) + Len(b)
    BY <1>1, <1>3
  <2>2. CASE i <= k
    <3>1. Len(a) - k + i <= Len(a) /\ i \in 1 .. k
      BY <1>1, <2>2
    <3>2. c[i] = e[i] /\ e[i] = a[Len(a) - k + i]
      BY <1>1, <1>2, <2>2, <3>1
    <3>3. d[Len(a) - k + i] = a[Len(a) - k + i]
      BY <1>3, <2>1, <3>1
    <3>. QED  BY <1>5, <2>1, <3>2, <3>3
  <2>3. CASE ~(i <= k)
    <3>1. (Len(a) - k + i) - Len(a) = i - k /\ ~(Len(a) - k + i <= Len(a))
      BY <1>1, <2>3
    <3>. QED  BY <1>1, <1>2, <1>3, <1>5, <2>1, <2>3, <3>1
  <2>. QED  BY <2>2, <2>3
<1>7. c = LastOf(d, m)
  BY <1>2, <1>5, <1>6, SeqEqual
<1>. QED  BY <1>2, <1>4, <1>7 DEF EndOf, c, d

\* Every sequence ends with nothing.
LEMMA EndOfNone == ASSUME NEW S, NEW a \in Seq(S) PROVE EndOf(<<>>, a)
<1>1. LastOf(a, 0) = <<>>
  <2>1. Len(a) - 0 + 1 > Len(a) /\ Len(a) \in Int /\ Len(a) - 0 + 1 \in Int
    OBVIOUS
  <2>. QED  BY <2>1, SubSeqEmpty DEF LastOf
<1>. QED  BY <1>1 DEF EndOf

\* A sequence ends with its second part.
LEMMA EndOfPair ==
    ASSUME NEW S, NEW a \in Seq(S), NEW b \in Seq(S)
    PROVE  EndOf(b, a \o b)
<1>1. <<>> \o b = b
  BY ConcatEmptySeq
<1>. QED  BY <1>1, EndOfNone, EndOfConcat

-----------------------------------------------------------------------------
(* Pieces of the output *)

\* The text of the output between two positions.
TextOf(i, j) == Text(SubSeq(output, i + 1, j))

\* Pieces of the output and their texts are sequences.
LEMMA Pieces ==
    ASSUME NEW S, output \in Seq(S), NEW j \in 0 .. Len(output), NEW i \in 0 .. j
    PROVE  /\ SubSeq(output, i + 1, j) \in Seq(S)
           /\ Len(SubSeq(output, i + 1, j)) = j - i
           /\ TextOf(i, j) \in Seq(S)
           /\ Len(TextOf(i, j)) \in Nat /\ Len(TextOf(i, j)) <= j - i
<1>1. /\ i + 1 \in Int /\ j \in Int /\ \A n \in i + 1 .. j : output[n] \in S
      /\ (IF i + 1 <= j THEN j - (i + 1) + 1 ELSE 0) = j - i
  OBVIOUS
<1>2. /\ SubSeq(output, i + 1, j) \in Seq(S)
      /\ Len(SubSeq(output, i + 1, j)) = j - i
  BY <1>1, SubSeqProperties
<1>. QED  BY <1>2, TextType DEF TextOf

\* The text of a piece is that of its two halves.
LEMMA TextSplits ==
    ASSUME NEW S, output \in Seq(S), NEW j \in 0 .. Len(output), NEW n \in 0 .. j,
           NEW i \in 0 .. n
    PROVE  TextOf(i, j) = TextOf(i, n) \o TextOf(n, j)
<1>1. /\ i + 1 \in 1 .. Len(output) + 1 /\ n \in (i + 1) - 1 .. Len(output)
      /\ j \in n .. Len(output)
  OBVIOUS
<1>2. SubSeq(output, i + 1, n) \o SubSeq(output, n + 1, j) = SubSeq(output, i + 1, j)
  BY <1>1, ConcatAdjacentSubSeq
<1>3. SubSeq(output, i + 1, n) \in Seq(S) /\ SubSeq(output, n + 1, j) \in Seq(S)
  <2>1. n \in 0 .. Len(output)
    OBVIOUS
  <2>. QED  BY <2>1, Pieces
<1>. QED  BY <1>2, <1>3, TextConcat DEF TextOf

\* No output has no text.
LEMMA NoText == ASSUME NEW i \in Nat PROVE TextOf(i, i) = <<>>
<1>1. SubSeq(output, i + 1, i) = <<>>
  BY SubSeqEmpty
<1>. QED  BY <1>1, TextEmpty DEF TextOf

\* Going backwards from j, the text grows by at most one byte at a time, so
\* every length up to that of the whole text is met.
LEMMA EveryLength ==
    ASSUME NEW S, output \in Seq(S), NEW j \in 0 .. Len(output),
           NEW r \in 0 .. Len(TextOf(0, j))
    PROVE  \E i \in 0 .. j : Len(TextOf(i, j)) = r
<1>. DEFINE D == {d \in 0 .. j : Len(TextOf(j - d, j)) >= r}
<1>1. D \in SUBSET Nat /\ j \in D
  <2>1. j - j = 0 /\ 0 \in 0 .. j
    OBVIOUS
  <2>2. Len(TextOf(0, j)) \in Nat
    BY <2>1, Pieces
  <2>. QED  BY <2>1, <2>2
<1>2. PICK d \in D : \A e \in D : d <= e
  BY <1>1, LeastOf
<1>. DEFINE i == j - d
<1>3. i \in 0 .. j /\ Len(TextOf(i, j)) >= r /\ Len(TextOf(i, j)) \in Nat
  BY <1>2, Pieces
<1>4. CASE d = 0
  <2>1. i = j
    BY <1>4
  <2>2. Len(TextOf(j, j)) = 0
    BY NoText
  <2>. QED  BY <1>3, <2>1, <2>2
<1>5. CASE d # 0
  <2>1. /\ d - 1 \in 0 .. j /\ ~(d <= d - 1) /\ j - (d - 1) = i + 1
        /\ i + 1 \in 0 .. j /\ i \in 0 .. i + 1 /\ i + 1 \in 0 .. Len(output)
    BY <1>2, <1>5
  <2>2. ~(Len(TextOf(i + 1, j)) >= r)
    <3>1. d - 1 \notin D
      BY <1>2, <2>1
    <3>. QED  BY <2>1, <3>1
  <2>. HIDE DEF i
  <2>3. TextOf(i, j) = TextOf(i, i + 1) \o TextOf(i + 1, j)
    BY <2>1, TextSplits
  <2>4. /\ TextOf(i, i + 1) \in Seq(S) /\ Len(TextOf(i, i + 1)) \in Nat
        /\ Len(TextOf(i, i + 1)) <= (i + 1) - i
    BY <2>1, Pieces
  <2>5. TextOf(i + 1, j) \in Seq(S) /\ Len(TextOf(i + 1, j)) \in Nat
    BY <2>1, Pieces
  <2>6. Len(TextOf(i, j)) = Len(TextOf(i, i + 1)) + Len(TextOf(i + 1, j))
    BY <2>3, <2>4, <2>5, ConcatProperties
  <2>7. (i + 1) - i = 1
    BY <2>1
  <2>8. Len(TextOf(i, j)) = r
    BY <1>3, <2>2, <2>4, <2>5, <2>6, <2>7
  <2>. QED  BY <1>3, <2>8
<1>. QED  BY <1>4, <1>5

-----------------------------------------------------------------------------
(* expbuf *)

\* expbuf is the end of the text up to expoffset.
ExpInv ==
    /\ Len(expbuf) = g.expcnt
    /\ EndOf(expbuf, TextOf(0, g.expoffset))

\* Nothing after `mark' was taken out of expbuf, unless it had to make room.
MarkInv ==
    /\ mark \in 0 .. g.expoffset
    /\ g.ntotal - mark <= MaxOldData => expbuf = TextOf(mark, g.expoffset)

\* The counters are positions in the output.
LEMMA Places ==
    ASSUME Inv, RawInv
    PROVE  /\ \E S : output \in Seq(S)
           /\ g.ntotal \in 0 .. Len(output)
           /\ g.rawoffset \in 0 .. g.ntotal /\ g.expoffset \in 0 .. g.ntotal
           /\ g.expcnt \in Nat
<1>1. \E S : output \in Seq(S) /\ Len(output) = MaxTotal
  BY OutputSeq DEF RawInv
<1>. QED  BY <1>1, MaxTotalAssumption DEF Inv, RawInv, BufOK, Buf

\* expbuf is a sequence of bytes of the output.
LEMMA ExpSeq ==
    ASSUME Inv, RawInv, ExpInv, NEW S, output \in Seq(S)
    PROVE  expbuf \in Seq(S)
<1>1. g.expoffset \in 0 .. Len(output) /\ 0 \in 0 .. g.expoffset
  BY Places
<1>2. TextOf(0, g.expoffset) \in Seq(S)
  BY <1>1, Pieces
<1>3. Len(expbuf) \in 0 .. Len(TextOf(0, g.expoffset))
  BY <1>2 DEF ExpInv, EndOf
<1>. QED  BY <1>2, <1>3, LastOfType DEF ExpInv, EndOf

\* What buf_raw2expect() makes of expbuf: the end of all of the text, and
\* when nothing was dropped what was there is kept.
LEMMA CopyText ==
    ASSUME Inv, RawInv, ExpInv
    PROVE  /\ EndOf(CopyOver, TextOf(0, g.ntotal))
           /\ g.rawoffset <= g.expoffset =>
                 CopyOver = expbuf \o TextOf(g.expoffset, g.ntotal)
<1>1. PICK S : output \in Seq(S)
  BY Places
<1>2. /\ g.ntotal \in 0 .. Len(output) /\ 0 \in 0 .. g.rawoffset /\ 0 \in 0 .. g.expoffset
      /\ g.rawoffset \in 0 .. g.ntotal /\ g.expoffset \in 0 .. g.ntotal
      /\ g.expoffset \in 0 .. Len(output)
      /\ g.expcnt \in Nat /\ BufOK(g) /\ g \in Buf
  BY Places DEF Inv, BufOK
<1>. DEFINE x == SkipGap(g).expoffset  c == SkipGap(g).expcnt
<1>3. /\ g.expoffset < g.rawoffset => x = g.rawoffset /\ c = 0
      /\ g.rawoffset <= g.expoffset => x = g.expoffset /\ c = g.expcnt
  BY <1>2 DEF SkipGap, Buf
<1>4. ncopy(g) = g.ntotal - x
  BY <1>2, GapBuf DEF ncopy
<1>. HIDE DEF x, c
<1>5. x \in g.rawoffset .. g.ntotal
  BY <1>2, <1>3
<1>6. LastOf(rawbuf, ncopy(g)) = SubSeq(output, x + 1, g.ntotal)
  <2>1. ncopy(g) \in 0 .. g.ntotal - g.rawoffset /\ g.ntotal - ncopy(g) + 1 = x + 1
    BY <1>2, <1>4, <1>5
  <2>2. LastOf(SubSeq(output, g.rawoffset + 1, g.ntotal), ncopy(g))
           = SubSeq(output, g.ntotal - ncopy(g) + 1, g.ntotal)
    BY <1>1, <1>2, <2>1, LastOfPiece
  <2>. QED  BY <2>1, <2>2 DEF RawInv
<1>7. CopyOver = SubSeq(expbuf, 1, c) \o TextOf(x, g.ntotal)
  BY <1>6 DEF CopyOver, TextOf, c
<1>8. CASE g.expoffset < g.rawoffset
  <2>1. SubSeq(expbuf, 1, c) = <<>>
    BY <1>3, <1>8, SubSeqEmpty
  <2>2. TextOf(g.rawoffset, g.ntotal) \in Seq(S) /\ TextOf(0, g.rawoffset) \in Seq(S)
    <3>1. g.rawoffset \in 0 .. Len(output)
      BY <1>2
    <3>. QED  BY <1>1, <1>2, <3>1, Pieces
  <2>3. CopyOver = TextOf(g.rawoffset, g.ntotal)
    BY <1>3, <1>7, <1>8, <2>1, <2>2, ConcatEmptySeq
  <2>4. TextOf(0, g.ntotal) = TextOf(0, g.rawoffset) \o TextOf(g.rawoffset, g.ntotal)
    BY <1>1, <1>2, TextSplits
  <2>5. EndOf(CopyOver, TextOf(0, g.ntotal))
    BY <2>2, <2>3, <2>4, EndOfPair
  <2>6. ~(g.rawoffset <= g.expoffset)
    BY <1>2, <1>8
  <2>. QED  BY <2>5, <2>6
<1>9. CASE g.rawoffset <= g.expoffset
  <2>1. expbuf \in Seq(S)
    BY <1>1, ExpSeq
  <2>2. SubSeq(expbuf, 1, c) = expbuf
    BY <1>3, <1>9, <2>1, SubSeqFull DEF ExpInv
  <2>3. CopyOver = expbuf \o TextOf(g.expoffset, g.ntotal)
    BY <1>3, <1>7, <1>9, <2>2
  <2>4. TextOf(0, g.expoffset) \in Seq(S) /\ TextOf(g.expoffset, g.ntotal) \in Seq(S)
    BY <1>1, <1>2, Pieces
  <2>5. TextOf(0, g.ntotal) = TextOf(0, g.expoffset) \o TextOf(g.expoffset, g.ntotal)
    BY <1>1, <1>2, TextSplits
  <2>6. EndOf(CopyOver, TextOf(0, g.ntotal))
    BY <2>3, <2>4, <2>5, EndOfConcat DEF ExpInv
  <2>. QED  BY <2>3, <2>6
<1>. QED  BY <1>2, <1>8, <1>9

-----------------------------------------------------------------------------
(* What each step does to expbuf *)

\* expbuf stays.
KeepsExp ==
    /\ expbuf' = expbuf /\ mark' = mark
    /\ g'.expoffset = g.expoffset /\ g'.expcnt = g.expcnt

\* buf_raw2expect(), and no match.
CopiesExp ==
    /\ expbuf' = CopyOver /\ mark' = mark /\ g'.ntotal = g.ntotal
    /\ g'.expoffset = g.ntotal /\ g'.expcnt = Len(expbuf')

\* buf_raw2expect(), and a match.
MatchesExp ==
    /\ Found(CopyOver) # {} /\ expbuf' = AfterMatch(CopyOver)
    /\ mark' = StartOfLast(Len(CopyOver) - (Min(Found(CopyOver)) + Len(Pattern)))
    /\ g'.ntotal = g.ntotal /\ g'.expoffset = g.ntotal /\ g'.expcnt = Len(expbuf')

\* interact, wait or EOF give the text up.
EmptiesExp == expbuf' = <<>> /\ mark' = g'.expoffset /\ g'.expcnt = 0

\* drop_old_data().
TrimsExp ==
    /\ expbuf' = LastOf(expbuf, g'.expcnt) /\ mark' = mark
    /\ g'.ntotal = g.ntotal /\ g'.expoffset = g.expoffset
    /\ g'.expcnt = IF g.expcnt > MaxOldData THEN MaxOldData ELSE g.expcnt

\* A copy to expbuf, with what is sent marked as sent before it or not.
LEMMA CopyCounts ==
    ASSUME NEW b, BufOK(b), b.ntotal = g.ntotal, NEW kept \in 0 .. ncopy(b)
    PROVE  /\ buf_raw2expect(b, kept) \in Buf
           /\ buf_raw2expect(b, kept).expoffset = g.ntotal
           /\ buf_raw2expect(b, kept).ntotal = g.ntotal
<1>1. BufOK(SkipGap(b)) /\ SkipGap(b).ntotal = b.ntotal
  BY GapBuf
<1>2. BufOK(buf_raw2expect(b, kept))
  BY Raw2ExpectBuf
<1>. QED  BY <1>1, <1>2 DEF buf_raw2expect, BufOK, Buf

\* A pass that matches nothing copies, gives up or leaves the text alone.
LEMMA NotMatchedExp ==
    ASSUME Inv, ByteNotMatched
    PROVE  CopiesExp \/ EmptiesExp \/ KeepsExp
<1>. DEFINE m == MarkSent(g)
<1>1. BufOK(m) /\ m.ntotal = g.ntotal /\ m.expoffset = g.expoffset /\ m.expcnt = g.expcnt
  BY SentBuf DEF Inv
<1>2. PICK r \in BOOLEAN : PassAtEof(r) \/ PassGoesOn(r)
  BY DEF ByteNotMatched
<1>3. pass \in {"expect", "eof", "nopattern", "interact", "interact_re", "wait"}
  BY <1>2, KindsAssumption DEF PassAtEof, PassGoesOn, Passing, Inv, TypeOK
<1>4. g'.expcnt = Len(expbuf')
  BY DEF ByteNotMatched
<1>5. CASE has_PATTERN(pass)
  <2>1. pass # "eof" /\ expbuf' = CopyOver /\ mark' = mark
    BY <1>5 DEF has_PATTERN, ByteNotMatched
  <2>2. PICK kept \in 0 .. ncopy(m) : g' = buf_raw2expect(m, kept)
    BY <1>2, <1>5, <2>1 DEF PassAtEof, PassGoesOn, ExpectStep
  <2>. QED  BY <1>1, <1>4, <2>1, <2>2, CopyCounts DEF CopiesExp
<1>6. CASE ~has_PATTERN(pass) /\ (pass \in {"interact", "wait"} \/ (pass = "eof" /\ ~ptm))
  <2>1. expbuf' = <<>> /\ mark' = g'.expoffset
    BY <1>6 DEF ByteNotMatched
  <2>. QED  BY <1>4, <2>1 DEF EmptiesExp
<1>7. CASE (pass = "eof" /\ ptm) \/ pass = "nopattern"
  <2>1. expbuf' = expbuf /\ mark' = mark
    BY <1>7 DEF ByteNotMatched, has_PATTERN
  <2>2. g' = m
    BY <1>2, <1>7 DEF PassAtEof, PassGoesOn, ExpectStep, has_PATTERN
  <2>. QED  BY <1>1, <2>1, <2>2 DEF KeepsExp
<1>. QED  BY <1>3, <1>5, <1>6, <1>7 DEF has_PATTERN

\* Each step does one of these.
LEMMA ExpSteps ==
    ASSUME Inv, [ByteNext]_byteVars
    PROVE  KeepsExp \/ CopiesExp \/ MatchesExp \/ EmptiesExp \/ TrimsExp
<1>. DEFINE m == MarkSent(g)
<1>1. g \in Buf /\ BufOK(g) /\ BufOK(m) /\ m.ntotal = g.ntotal
  BY SentBuf DEF Inv, BufOK
<1>2. CASE UNCHANGED byteVars
  BY <1>2 DEF byteVars, vars, bytes, KeepsExp
<1>3. CASE ByteRead
  <2>1. PICK n \in 1 .. Room(g) : g' = AppendNew(g, n)
    BY <1>3 DEF ByteRead, ReadData
  <2>2. g'.expoffset = g.expoffset /\ g'.expcnt = g.expcnt
    BY <1>1, <2>1 DEF AppendNew, Buf
  <2>. QED  BY <1>3, <2>2 DEF ByteRead, KeepsExp
<1>4. CASE ByteInfo
  <2>1. CASE AssertFits(g)
    <3>1. PICK kept \in 0 .. ncopy(g) : g' = buf_raw2expect(g, kept)
      BY <1>4, <2>1 DEF ByteInfo, MsgInfo
    <3>2. expbuf' = CopyOver /\ mark' = mark /\ g'.expcnt = Len(expbuf')
      BY <1>4, <2>1 DEF ByteInfo, MsgInfo
    <3>. QED  BY <1>1, <3>1, <3>2, CopyCounts DEF CopiesExp
  <2>2. CASE ~AssertFits(g)
    BY <1>4, <2>2 DEF ByteInfo, MsgInfo, KeepsExp
  <2>. QED  BY <2>1, <2>2
<1>5. CASE ByteMatched
  <2>1. PICK kept \in 0 .. ncopy(m) :
           \E rest \in 0 .. buf_raw2expect(m, kept).expcnt :
              g' = ConsumeMatch(buf_raw2expect(m, kept), rest)
    BY <1>5 DEF ByteMatched, PassMatched
  <2>. DEFINE b == buf_raw2expect(m, kept)
  <2>2. b \in Buf /\ b.expoffset = g.ntotal /\ b.ntotal = g.ntotal
    BY <1>1, CopyCounts
  <2>. HIDE DEF b
  <2>3. g'.expoffset = g.ntotal /\ g'.ntotal = g.ntotal
    <3>1. PICK rest : g' = ConsumeMatch(b, rest)
      BY <2>1 DEF b
    <3>. QED  BY <2>2, <3>1 DEF ConsumeMatch, Buf
  <2>. QED  BY <1>5, <2>3 DEF ByteMatched, Matches, MatchesExp
<1>6. CASE ByteNotMatched
  BY <1>6, NotMatchedExp
<1>7. CASE ByteDrop
  <2>1. /\ g'.ntotal = g.ntotal /\ g'.expoffset = g.expoffset
        /\ g'.expcnt = IF g.expcnt > MaxOldData THEN MaxOldData ELSE g.expcnt
    BY <1>1, <1>7 DEF ByteDrop, DropOld, drop_old_data, Buf
  <2>. QED  BY <1>7, <2>1 DEF ByteDrop, TrimsExp
<1>8. CASE ByteOther
  <2>1. expbuf' = expbuf /\ mark' = mark
    BY <1>8 DEF ByteOther, bytes
  <2>2. CASE NonblockMark
    BY <1>1, <2>1, <2>2 DEF NonblockMark, MarkDropped, Buf, KeepsExp
  <2>3. CASE ~NonblockMark
    <3>1. g' = g
      BY <1>8, <2>3 DEF ByteOther, LoopTop, ExitLoop, SelectReturns, serv_accept,
        NoAccept, ReadEof, ReadNothing, MsgOther, MsgCloses, MsgClose, MsgSet,
        MsgPass, NotPassing, PassSendFails, PassAborts
    <3>. QED  BY <2>1, <3>1 DEF KeepsExp
  <2>. QED  BY <2>2, <2>3
<1>. QED  BY <1>2, <1>3, <1>4, <1>5, <1>6, <1>7, <1>8 DEF ByteNext

\* The output never changes, only more of it is read.
LEMMA ReadsMore ==
    ASSUME Inv, [ByteNext]_byteVars
    PROVE  output' = output /\ g'.ntotal >= g.ntotal
<1>1. g \in Buf
  BY DEF Inv, BufOK
<1>2. CASE UNCHANGED byteVars
  BY <1>1, <1>2 DEF byteVars, vars, bytes, Buf
<1>3. CASE ByteInfo \/ ByteMatched \/ ByteNotMatched \/ ByteOther
  BY <1>1, <1>3, WindowStays DEF Buf
<1>4. CASE ByteRead
  <2>1. PICK n \in 1 .. Room(g) : g' = AppendNew(g, n)
    BY <1>4 DEF ByteRead, ReadData
  <2>2. n \in Nat
    OBVIOUS
  <2>3. g'.ntotal >= g.ntotal
    BY <1>1, <2>1, <2>2 DEF AppendNew, Buf
  <2>. QED  BY <1>4, <2>3 DEF ByteRead
<1>5. CASE ByteDrop
  <2>1. g'.ntotal >= g.ntotal
    BY <1>1, <1>5 DEF ByteDrop, DropOld, drop_old_data, Buf
  <2>. QED  BY <1>5, <2>1 DEF ByteDrop
<1>. QED  BY <1>2, <1>3, <1>4, <1>5 DEF ByteNext

\* What a match leaves in expbuf is the end of the text.
LEMMA MatchRest ==
    ASSUME Inv, RawInv, ExpInv, Found(CopyOver) # {}
    PROVE  /\ EndOf(AfterMatch(CopyOver), TextOf(0, g.ntotal))
           /\ Len(AfterMatch(CopyOver))
                 = Len(CopyOver) - (Min(Found(CopyOver)) + Len(Pattern))
<1>. DEFINE e == CopyOver  k == Min(Found(CopyOver)) + Len(Pattern)  r == Len(e) - k
<1>1. PICK S : output \in Seq(S)
  BY Places
<1>2. EndOf(e, TextOf(0, g.ntotal)) /\ Len(e) \in Nat
  BY CopyText DEF EndOf
<1>3. TextOf(0, g.ntotal) \in Seq(S)
  <2>1. g.ntotal \in 0 .. Len(output) /\ 0 \in 0 .. g.ntotal
    BY Places
  <2>. QED  BY <1>1, <2>1, Pieces
<1>4. k \in 0 .. Len(e)
  <2>1. Found(e) \in SUBSET Nat /\ \A i \in Found(e) : i + Len(Pattern) <= Len(e)
    BY <1>2, PatternAssumption DEF Found
  <2>2. \E x \in Found(e) : \A y \in Found(e) : x =< y
    BY <2>1, LeastOf
  <2>3. Min(Found(e)) \in Found(e)
    BY <2>2 DEF Min
  <2>. QED  BY <1>2, <2>1, <2>3, PatternAssumption
<1>5. AfterMatch(e) = SubSeq(e, k + 1, Len(e))
  BY DEF AfterMatch
<1>. HIDE DEF e, k
<1>6. r \in 0 .. Len(e) /\ Len(e) - r + 1 = k + 1
  BY <1>2, <1>4
<1>7. AfterMatch(e) = LastOf(e, r)
  BY <1>5, <1>6 DEF LastOf
<1>8. EndOf(LastOf(e, r), TextOf(0, g.ntotal)) /\ Len(LastOf(e, r)) = r
  BY <1>2, <1>3, <1>6, EndOfEnd
<1>. QED  BY <1>7, <1>8 DEF e, k

\* Every step leaves in expbuf the end of the text up to expoffset.
LEMMA ExpNext ==
    ASSUME Inv, RawInv, ExpInv, [ByteNext]_byteVars
    PROVE  ExpInv'
<1>1. Inv' /\ RawInv'
  BY NextInv, ByteStep, RawNext
<1>2. output' = output
  BY ReadsMore
<1>3. TextOf(0, g.expoffset)' = TextOf(0, g'.expoffset)
  BY <1>2 DEF TextOf
<1>4. PICK S : output \in Seq(S)
  BY Places
<1>5. TextOf(0, g.expoffset) \in Seq(S) /\ TextOf(0, g'.expoffset) \in Seq(S)
  <2>1. /\ g.expoffset \in 0 .. Len(output) /\ 0 \in 0 .. g.expoffset
    BY Places
  <2>2. g'.expoffset \in 0 .. Len(output) /\ 0 \in 0 .. g'.expoffset
    <3>1. g'.ntotal <= MaxTotal /\ Len(output) = MaxTotal
      BY <1>1, OutputSeq DEF RawInv
    <3>. QED  BY <1>1, <3>1, MaxTotalAssumption, SMTT(30) DEF Inv, BufOK, Buf
  <2>. QED  BY <1>4, <2>1, <2>2, Pieces
<1>6. SUFFICES Len(expbuf') = g'.expcnt /\ EndOf(expbuf', TextOf(0, g'.expoffset))
  BY <1>3 DEF ExpInv, EndOf, LastOf
<1>7. CASE KeepsExp
  BY <1>7 DEF KeepsExp, ExpInv
<1>8. CASE CopiesExp
  BY <1>8, CopyText DEF CopiesExp
<1>9. CASE MatchesExp
  BY <1>9, MatchRest DEF MatchesExp
<1>10. CASE EmptiesExp
  <2>1. Len(<<>>) = 0
    OBVIOUS
  <2>. QED  BY <1>5, <1>10, <2>1, EndOfNone DEF EmptiesExp
<1>11. CASE TrimsExp
  <2>1. g'.expcnt \in 0 .. Len(expbuf)
    <3>1. g.expcnt \in Nat /\ Len(expbuf) = g.expcnt
      BY Places DEF ExpInv
    <3>. QED  BY <1>11, <3>1, SizesAssumption DEF TrimsExp
  <2>2. EndOf(LastOf(expbuf, g'.expcnt), TextOf(0, g.expoffset))
        /\ Len(LastOf(expbuf, g'.expcnt)) = g'.expcnt
    BY <1>5, <2>1, EndOfEnd DEF ExpInv
  <2>. QED  BY <1>11, <2>2 DEF TrimsExp
<1>. QED  BY <1>7, <1>8, <1>9, <1>10, <1>11, ExpSteps

\* The match used up the stream exactly as far as what it leaves in expbuf.
LEMMA MatchMark ==
    ASSUME Inv, RawInv, ExpInv, MatchesExp
    PROVE  mark' \in 0 .. g.ntotal /\ expbuf' = TextOf(mark', g.ntotal)
<1>. DEFINE r == Len(CopyOver) - (Min(Found(CopyOver)) + Len(Pattern))
            P == {p \in 0 .. g.ntotal : Len(TextOf(p, g.ntotal)) = r}
            t == TextOf(0, g.ntotal)
<1>1. PICK S : output \in Seq(S)
  BY Places
<1>2. g.ntotal \in 0 .. Len(output) /\ 0 \in 0 .. g.ntotal /\ g.ntotal \in Nat
  BY Places
<1>3. expbuf' = AfterMatch(CopyOver) /\ mark' = Max(P)
  BY DEF MatchesExp, StartOfLast, TextOf
<1>4. EndOf(expbuf', t) /\ Len(expbuf') = r
  BY <1>3, MatchRest DEF MatchesExp
<1>. HIDE DEF r
<1>5. r \in 0 .. Len(t)
  <2>1. Len(t) \in Nat
    BY <1>1, <1>2, Pieces
  <2>. QED  BY <1>4, <2>1 DEF EndOf
<1>6. mark' \in P
  <2>1. P # {}
    BY <1>1, <1>2, <1>5, EveryLength
  <2>2. P \in SUBSET (0 .. (g.ntotal + 1) - 1) /\ g.ntotal + 1 \in Nat
    BY <1>2
  <2>3. \E x \in P : \A y \in P : x >= y
    BY <2>1, <2>2, GreatestOf
  <2>. QED  BY <1>3, <2>3 DEF Max
<1>7. mark' \in 0 .. g.ntotal /\ Len(TextOf(mark', g.ntotal)) = r
  BY <1>6
<1>8. TextOf(0, mark') \in Seq(S) /\ TextOf(mark', g.ntotal) \in Seq(S)
  <2>1. mark' \in 0 .. Len(output) /\ 0 \in 0 .. mark'
    BY <1>2, <1>7
  <2>. QED  BY <1>1, <1>2, <1>7, <2>1, Pieces
<1>9. t = TextOf(0, mark') \o TextOf(mark', g.ntotal)
  <2>1. 0 \in 0 .. mark'
    BY <1>7
  <2>. QED  BY <1>1, <1>2, <1>7, <2>1, TextSplits
<1>10. EndOf(TextOf(mark', g.ntotal), t)
  BY <1>8, <1>9, EndOfPair
<1>. QED  BY <1>4, <1>7, <1>10 DEF EndOf

\* As long as the output since `mark' fits, a copy leaves all of it in expbuf.
LEMMA CopyMisses ==
    ASSUME Inv, RawInv, ExpInv, MarkInv, g.ntotal - mark <= MaxOldData
    PROVE  CopyOver = TextOf(mark, g.ntotal)
<1>1. PICK S : output \in Seq(S)
  BY Places
<1>2. /\ g.ntotal \in 0 .. Len(output) /\ g.expoffset \in 0 .. g.ntotal
      /\ mark \in 0 .. g.expoffset
  BY Places DEF MarkInv
<1>3. g.rawoffset <= g.expoffset
  BY <1>2, SizesAssumption, SMTT(30) DEF Inv, BufOK, Buf
<1>4. CopyOver = expbuf \o TextOf(g.expoffset, g.ntotal)
  BY <1>3, CopyText
<1>5. expbuf = TextOf(mark, g.expoffset)
  BY DEF MarkInv
<1>6. TextOf(mark, g.ntotal) = TextOf(mark, g.expoffset) \o TextOf(g.expoffset, g.ntotal)
  BY <1>1, <1>2, TextSplits
<1>. QED  BY <1>4, <1>5, <1>6

\* No step takes text out of expbuf that came after the last match, interact
\* or wait, but for the limit of MAX_OLD_DATA.
LEMMA MarkNext ==
    ASSUME Inv, RawInv, ExpInv, MarkInv, [ByteNext]_byteVars
    PROVE  MarkInv'
<1>1. output' = output /\ g'.ntotal >= g.ntotal
  BY ReadsMore
<1>2. TextOf(mark, g.expoffset)' = TextOf(mark', g'.expoffset)
  BY <1>1 DEF TextOf
<1>3. /\ g.ntotal \in Nat /\ g.expoffset \in 0 .. g.ntotal /\ mark \in 0 .. g.expoffset
      /\ g.expoffset \in 0 .. Len(output) /\ g.expcnt \in Nat
  BY Places DEF MarkInv
<1>4. g'.ntotal \in Nat /\ g'.expoffset \in Nat
  BY NextInv, ByteStep DEF Inv, BufOK, Buf
<1>5. SUFFICES /\ mark' \in 0 .. g'.expoffset
               /\ g'.ntotal - mark' <= MaxOldData => expbuf' = TextOf(mark', g'.expoffset)
  BY <1>2 DEF MarkInv
<1>6. g'.ntotal - mark <= MaxOldData => g.ntotal - mark <= MaxOldData
  BY <1>1, <1>3, <1>4, SizesAssumption
<1>7. CASE KeepsExp
  BY <1>3, <1>6, <1>7 DEF KeepsExp, MarkInv
<1>8. CASE CopiesExp
  <2>1. mark \in 0 .. g.ntotal
    BY <1>3
  <2>. QED  BY <1>6, <1>8, <2>1, CopyMisses DEF CopiesExp
<1>9. CASE MatchesExp
  BY <1>9, MatchMark DEF MatchesExp
<1>10. CASE EmptiesExp
  BY <1>4, <1>10, NoText DEF EmptiesExp
<1>11. CASE TrimsExp
  <2>1. ASSUME g.ntotal - mark <= MaxOldData
        PROVE  expbuf' = TextOf(mark, g.expoffset)
    <3>1. PICK S : output \in Seq(S)
      BY Places
    <3>2. expbuf = TextOf(mark, g.expoffset)
      BY <2>1 DEF MarkInv
    <3>3. /\ expbuf \in Seq(S) /\ Len(expbuf) \in Nat
          /\ Len(expbuf) <= g.expoffset - mark
      BY <1>3, <3>1, <3>2, Pieces
    <3>4. ~(g.expcnt > MaxOldData) /\ Len(expbuf) = g.expcnt
      BY <1>3, <2>1, <3>3, SizesAssumption DEF ExpInv
    <3>5. expbuf' = LastOf(expbuf, Len(expbuf))
      BY <1>11, <3>4 DEF TrimsExp
    <3>. QED  BY <3>2, <3>3, <3>5, LastOfAll
  <2>. QED  BY <1>3, <1>6, <1>11, <2>1 DEF TrimsExp
<1>. QED  BY <1>7, <1>8, <1>9, <1>10, <1>11, ExpSteps

-----------------------------------------------------------------------------
(* What expect sees *)

\* The invariants of the counters, of rawbuf and of expbuf together.
TextInv == Inv /\ RawInv /\ ExpInv /\ MarkInv

\* They hold in every state of the server.
LEMMA TextInvariance == ByteSpec => []TextInv
<1>1. ByteInit => ExpInv /\ MarkInv
  <2>. SUFFICES ASSUME ByteInit PROVE ExpInv /\ MarkInv
    OBVIOUS
  <2>1. /\ expbuf = <<>> /\ mark = 0
        /\ g.expcnt = 0 /\ g.expoffset = 0 /\ g.ntotal = 0
    BY DEF ByteInit, Init, serv_init
  <2>2. TextOf(0, 0) = <<>>
    BY NoText
  <2>3. Len(<<>>) = 0 /\ <<>> \in Seq({})
    OBVIOUS
  <2>4. EndOf(<<>>, <<>>)
    BY <2>3, EndOfNone
  <2>. QED  BY <2>1, <2>2, <2>3, <2>4 DEF ExpInv, MarkInv
<1>2. TextInv /\ [ByteNext]_byteVars => TextInv'
  BY NextInv, ByteStep, RawNext, ExpNext, MarkNext DEF TextInv
<1>3. ByteSpec => [](Inv /\ RawInv)
  BY RawInvariance
<1>. QED  BY <1>1, <1>2, <1>3, PTL DEF ByteSpec, TextInv

\* The stream is the output that was read.
LEMMA StreamText ==
    ASSUME Inv, RawInv, NEW i \in 0 .. g.ntotal, NEW j \in i .. g.ntotal
    PROVE  Len(stream) = g.ntotal /\ Text(SubSeq(stream, i + 1, j)) = TextOf(i, j)
<1>1. PICK S : output \in Seq(S)
  BY Places
<1>2. g.ntotal \in 0 .. Len(output) /\ g.ntotal \in Nat
  BY Places
<1>3. Len(stream) = g.ntotal
  <2>1. 0 \in 0 .. g.ntotal /\ g.ntotal - 0 = g.ntotal /\ 0 + 1 = 1
    BY <1>2
  <2>2. Len(SubSeq(output, 0 + 1, g.ntotal)) = g.ntotal - 0
    BY <1>1, <1>2, <2>1, Pieces
  <2>. QED  BY <2>1, <2>2 DEF stream
<1>4. CASE i = j
  <2>1. SubSeq(stream, i + 1, j) = <<>> /\ SubSeq(output, i + 1, j) = <<>>
    BY <1>2, <1>4, SubSeqEmpty
  <2>. QED  BY <1>3, <2>1 DEF TextOf
<1>5. CASE i # j
  <2>1. /\ 1 \in 1 .. Len(output) /\ g.ntotal \in 1 .. Len(output)
        /\ i + 1 \in 1 .. g.ntotal - 1 + 1 /\ j \in 1 .. g.ntotal - 1 + 1
        /\ 1 + (i + 1) - 1 = i + 1 /\ 1 + j - 1 = j
    BY <1>2, <1>5
  <2>2. SubSeq(SubSeq(output, 1, g.ntotal), i + 1, j)
           = SubSeq(output, 1 + (i + 1) - 1, 1 + j - 1)
    BY <1>1, <2>1, SubSeqOfSubSeq
  <2>. QED  BY <1>3, <2>1, <2>2 DEF stream, TextOf
<1>. QED  BY <1>4, <1>5

\* A pattern only ever matches bytes that the child wrote one after the other
\* (but for NULs): expbuf is a piece of its text, however much was dropped.
THEOREM ExpTextCorrect == ByteSpec => []ExpIsText
<1>1. ASSUME TextInv PROVE ExpIsText
  <2>1. Inv /\ RawInv /\ ExpInv
    BY <1>1 DEF TextInv
  <2>2. 0 \in 0 .. g.ntotal /\ g.expoffset \in 0 .. g.ntotal /\ 0 + 1 = 1
    BY <2>1, Places
  <2>3. Text(SubSeq(stream, 0 + 1, g.expoffset)) = TextOf(0, g.expoffset)
    BY <2>1, <2>2, StreamText
  <2>. QED  BY <2>1, <2>2, <2>3 DEF ExpInv, EndOf, ExpIsText
<1>. QED  BY <1>1, TextInvariance, PTL

\* expect misses nothing: whatever clients came and went in between and
\* however the output was read, the text since the last match, interact or
\* wait is there to be matched as long as it fits into MAX_OLD_DATA bytes.
THEOREM NothingMissedCorrect == ByteSpec => []NothingMissed
<1>1. ASSUME TextInv, Len(stream) - mark <= MaxOldData
      PROVE  CopyOver = Text(SubSeq(stream, mark + 1, Len(stream)))
  <2>1. Inv /\ RawInv /\ ExpInv /\ MarkInv
    BY <1>1 DEF TextInv
  <2>2. mark \in 0 .. g.ntotal /\ g.ntotal \in mark .. g.ntotal
    BY <2>1, Places DEF MarkInv
  <2>3. /\ Len(stream) = g.ntotal
        /\ Text(SubSeq(stream, mark + 1, g.ntotal)) = TextOf(mark, g.ntotal)
    BY <2>1, <2>2, StreamText
  <2>. QED  BY <1>1, <2>1, <2>3, CopyMisses
<1>2. TextInv => NothingMissed
  BY <1>1 DEF NothingMissed
<1>. QED  BY <1>2, TextInvariance, PTL
=============================================================================
