------------------------------ MODULE ServBuf ------------------------------
(***************************************************************************)
(* The server's output buffers (src/server.c): `rawbuf', the window of the *)
(* child's output that is kept, split into data a client has been sent     *)
(* (old) and data no client has seen (new), and `expbuf', the text that    *)
(* "expect" patterns are matched against.  Bytes are counted, not stored;  *)
(* module ServBytes stores them and implements this module.                *)
(*                                                                         *)
(* One turn of serv_loop() is the cycle of phases                          *)
(*      top -> select -> accept -> ptm -> mark -> msg -> pass -> drop      *)
(* and what the clients and the child do is chosen freely in each phase;   *)
(* module Server says what they can do.                                    *)
(***************************************************************************)
EXTENDS Naturals

CONSTANTS
    RawBufSize,     \* SIZE_RAW_BUF; expbuf has the same size
    MaxOldData,     \* MAX_OLD_DATA
    DropSize,       \* NONBLOCK_DROP_SIZE
    MaxTotal,       \* bound: bytes the child ever writes
    PassKinds,      \* the expect/interact/wait requests clients may send
    NonblockModes   \* the values spawn/set may give to -nonblock

\* The compile-time check of the sizes, and that none of them is zero.
ASSUME SizesAssumption ==
    /\ RawBufSize \in Nat /\ MaxOldData \in Nat \ {0} /\ DropSize \in Nat \ {0}
    /\ RawBufSize >= MaxOldData + 2 * DropSize

\* "expect" and "interact_re" carry a pattern; "eof" is `expect -eof' and
\* "nopattern" an expect with -nocase or -anchor alone, which waits in vain.
ASSUME KindsAssumption ==
    /\ PassKinds \subseteq {"expect", "eof", "nopattern", "interact", "interact_re", "wait"}
    /\ NonblockModes \subseteq BOOLEAN /\ NonblockModes # {}

ASSUME MaxTotalAssumption == MaxTotal \in Nat

VARIABLES
    g,          \* the counters of the two buffers
    ph,         \* where serv_loop() is
    ptm,        \* is_PTM_OPEN
    sock,       \* is_CONNECTED
    pass,       \* the request being served, "none" when not is_PASSING
    lookback,   \* g.conn.pass.lookback > 0
    nonblock    \* spawn->nonblock

vars == <<g, ph, ptm, sock, pass, lookback, nonblock>>

\* oldcnt is `rawnew - rawbuf'.
Buf == [ntotal : Nat, rawoffset : Nat, oldcnt : Nat, newcnt : Nat,
        expoffset : Nat, expcnt : Nat]

Phases == {"top", "select", "accept", "ptm", "mark", "msg", "pass", "drop",
           "exited", "aborted"}

has_PATTERN(k) == k \in {"expect", "interact_re"}
expects_EXIT(k) == k \in {"interact", "interact_re", "wait"}

serv_init == [ntotal |-> 0, rawoffset |-> 0, oldcnt |-> 0, newcnt |-> 0,
              expoffset |-> 0, expcnt |-> 0]

-----------------------------------------------------------------------------
(* The operations on the buffers. *)

Full(b) == b.oldcnt + b.newcnt = RawBufSize

\* Fault: only the new data counts.
Room_NewOnly(b) == RawBufSize - b.newcnt

\* ntoread in serv_read_ptm().
Room(b) == RawBufSize - (b.newcnt + b.oldcnt)

\* serv_read_ptm() got n bytes.
AppendNew(b, n) == [b EXCEPT !.newcnt = @ + n, !.ntotal = @ + n]

\* The new data became old: the OUTPUT message was sent.
MarkSent(b) == [b EXCEPT !.oldcnt = @ + b.newcnt, !.newcnt = 0]

\* -nonblock: the oldest new data becomes old although nobody saw it.
MarkDropped(b) == [b EXCEPT !.oldcnt = @ + DropSize, !.newcnt = @ - DropSize]

\* Fault: data is marked although there is room.
MustMark_NotFull(b) == b.oldcnt <= MaxOldData

\* Fault: off by one, nothing is marked when oldcnt = MAX_OLD_DATA.
MustMark_Less(b) == Full(b) /\ b.oldcnt < MaxOldData

MustMark(b) == Full(b) /\ b.oldcnt <= MaxOldData

\* Fault: all of the old data goes.
drop_old_data_All(b) ==
    IF b.oldcnt > MaxOldData
    THEN [b EXCEPT !.oldcnt = 0, !.rawoffset = @ + b.oldcnt,
                   !.expcnt = IF @ > MaxOldData THEN MaxOldData ELSE @]
    ELSE b

\* Fault: expbuf is not trimmed.
drop_old_data_NoExp(b) ==
    LET dropsize == IF b.oldcnt > MaxOldData THEN b.oldcnt - MaxOldData ELSE 0
    IN  [b EXCEPT !.oldcnt = @ - dropsize, !.rawoffset = @ + dropsize]

drop_old_data(b) ==
    LET dropsize == IF b.oldcnt > MaxOldData THEN b.oldcnt - MaxOldData ELSE 0
    IN  [b EXCEPT !.oldcnt = @ - dropsize,
                  !.rawoffset = @ + dropsize,
                  !.expcnt = IF @ > MaxOldData THEN MaxOldData ELSE @]

\* Fault: expbuf is not emptied when bytes were dropped before the copy.
SkipGap_KeepsText(b) ==
    IF b.expoffset < b.rawoffset THEN [b EXCEPT !.expoffset = b.rawoffset] ELSE b

\* The first lines of buf_raw2expect(): bytes were dropped before they were
\* copied, so what expbuf holds does not continue in rawbuf.
SkipGap(b) ==
    IF b.expoffset < b.rawoffset
    THEN [b EXCEPT !.expoffset = b.rawoffset, !.expcnt = 0]
    ELSE b

ncopy(b) == SkipGap(b).ntotal - SkipGap(b).expoffset

\* assert(g.expcnt + ncopy <= g.expbufsize)
AssertFits(b) == SkipGap(b).expcnt + ncopy(b) <= RawBufSize

\* `kept' of the bytes copied are not NUL.
buf_raw2expect(b, kept) ==
    [SkipGap(b) EXCEPT !.expoffset = b.ntotal, !.expcnt = @ + kept]

\* expect_exact(), expect_ere(): what follows the match stays.
ConsumeMatch(b, rest) == [b EXCEPT !.expcnt = rest]

\* interact/wait without a pattern, and EOF reported to `expect -eof'.
ForgetExpect(b) == [b EXCEPT !.expoffset = b.ntotal - b.newcnt, !.expcnt = 0]

-----------------------------------------------------------------------------
Init ==
    /\ g = serv_init
    /\ ph = "top"
    /\ ptm = TRUE
    /\ sock = FALSE
    /\ pass = "none"
    /\ lookback = FALSE
    /\ nonblock \in NonblockModes

\* The top of the loop, where -cloexit may close ptm.
LoopTop ==
    /\ ph = "top"
    /\ ptm' \in {ptm, FALSE}
    /\ ph' = "select"
    /\ UNCHANGED <<g, sock, pass, lookback, nonblock>>

\* The loop ends only when no client is connected.
ExitLoop ==
    /\ ph = "top" /\ ~sock
    /\ ptm' \in {ptm, FALSE}
    /\ ph' = "exited"
    /\ UNCHANGED <<g, sock, pass, lookback, nonblock>>

\* select() returned, or was interrupted by a signal.
SelectReturns ==
    /\ ph = "select"
    /\ ph' \in {"accept", "top"}
    /\ UNCHANGED <<g, ptm, sock, pass, lookback, nonblock>>

\* Fault: serv_cleanup_conn() is not called.
serv_accept_NoCleanup ==
    /\ ph = "accept" /\ ~sock
    /\ sock' = TRUE /\ ph' = "ptm"
    /\ UNCHANGED <<g, ptm, pass, lookback, nonblock>>

\* serv_cleanup_conn() forgets the previous client's request.
serv_accept ==
    /\ ph = "accept" /\ ~sock
    /\ sock' = TRUE /\ pass' = "none" /\ lookback' = FALSE
    /\ ph' = "ptm"
    /\ UNCHANGED <<g, ptm, nonblock>>

NoAccept ==
    /\ ph = "accept"
    /\ ph' = "ptm"
    /\ UNCHANGED <<g, ptm, sock, pass, lookback, nonblock>>

ReadData ==
    /\ ph = "ptm" /\ ptm
    /\ \E n \in 1 .. Room(g) :
          /\ g.ntotal + n <= MaxTotal
          /\ g' = AppendNew(g, n)
    /\ ph' = "mark"
    /\ UNCHANGED <<ptm, sock, pass, lookback, nonblock>>

\* read() returned 0 or an error: only tried when there is room.
ReadEof ==
    /\ ph = "ptm" /\ ptm /\ ~Full(g)
    /\ ptm' = FALSE
    /\ ph' = "mark"
    /\ UNCHANGED <<g, sock, pass, lookback, nonblock>>

\* ptm closed or not readable, EAGAIN, or rawbuf full.
ReadNothing ==
    /\ ph = "ptm"
    /\ ph' = "mark"
    /\ UNCHANGED <<g, ptm, sock, pass, lookback, nonblock>>

NonblockMark ==
    /\ ph = "mark"
    /\ g' = IF nonblock /\ ~sock /\ MustMark(g) THEN MarkDropped(g) ELSE g
    /\ ph' = "msg"
    /\ UNCHANGED <<ptm, sock, pass, lookback, nonblock>>

-----------------------------------------------------------------------------
(* serv_process_msg(), as far as the buffers can tell.  A client makes its  *)
(* request before it is being served; afterwards it only sends INPUT, WINCH *)
(* and DISCONN.                                                             *)

Request == ph = "msg" /\ sock /\ pass = "none"

\* No message, or one that leaves all of this alone (HELLO, SEND, WINCH...).
MsgOther ==
    /\ ph = "msg"
    /\ ph' = "pass"
    /\ UNCHANGED <<g, ptm, sock, pass, lookback, nonblock>>

\* DISCONN, the client died, or the reply could not be sent.
MsgCloses ==
    /\ ph = "msg" /\ sock
    /\ sock' = FALSE
    /\ ph' = "pass"
    /\ UNCHANGED <<g, ptm, pass, lookback, nonblock>>

MsgPass(k, lb) ==
    /\ Request
    /\ pass' = k /\ lookback' = lb
    /\ ph' = "pass"
    /\ UNCHANGED <<g, ptm, sock, nonblock>>

MsgClose ==
    /\ Request /\ ptm
    /\ ptm' = FALSE
    /\ sock' \in BOOLEAN
    /\ ph' = "pass"
    /\ UNCHANGED <<g, pass, lookback, nonblock>>

MsgSet ==
    /\ Request
    /\ nonblock' \in NonblockModes
    /\ sock' \in BOOLEAN
    /\ ph' = "pass"
    /\ UNCHANGED <<g, ptm, pass, lookback>>

MsgInfo ==
    /\ Request
    /\ IF AssertFits(g)
       THEN /\ \E kept \in 0 .. ncopy(g) : g' = buf_raw2expect(g, kept)
            /\ sock' \in BOOLEAN
            /\ ph' = "pass"
       ELSE ph' = "aborted" /\ UNCHANGED <<g, sock>>
    /\ UNCHANGED <<ptm, pass, lookback, nonblock>>

-----------------------------------------------------------------------------
(* serv_pass() *)

Passing == ph = "pass" /\ sock /\ pass # "none"

NotPassing ==
    /\ ph = "pass" /\ (~sock \/ pass = "none")
    /\ ph' = "drop"
    /\ UNCHANGED <<g, ptm, sock, pass, lookback, nonblock>>

\* serv_msg_send(OUTPUT) failed: the data stays new for the next client.
PassSendFails ==
    /\ Passing
    /\ g.newcnt > 0 \/ (lookback /\ g.oldcnt > 0)
    /\ sock' = FALSE /\ lookback' = FALSE
    /\ ph' = "drop"
    /\ UNCHANGED <<g, ptm, pass, nonblock>>

PassAborts ==
    /\ Passing /\ has_PATTERN(pass) /\ ~AssertFits(MarkSent(g))
    /\ ph' = "aborted"
    /\ UNCHANGED <<g, ptm, sock, pass, lookback, nonblock>>

\* Fault: conn.passing is not reset after MATCHED.
PassMatched_GoesOn ==
    /\ Passing /\ has_PATTERN(pass) /\ AssertFits(MarkSent(g))
    /\ g' = buf_raw2expect(MarkSent(g), ncopy(MarkSent(g)))
    /\ sock' \in BOOLEAN
    /\ ph' = "drop"
    /\ UNCHANGED <<ptm, pass, lookback, nonblock>>

PassMatched ==
    /\ Passing /\ has_PATTERN(pass) /\ AssertFits(MarkSent(g))
    /\ \E kept \in 0 .. ncopy(MarkSent(g)) :
          LET b == buf_raw2expect(MarkSent(g), kept)
          IN  /\ ptm \/ b.expcnt > 0
              /\ \E rest \in 0 .. b.expcnt : g' = ConsumeMatch(b, rest)
    /\ pass' = "none" /\ lookback' = FALSE
    /\ sock' \in BOOLEAN
    /\ ph' = "drop"
    /\ UNCHANGED <<ptm, nonblock>>

\* The expect buffer after a pass that did not match.
ExpectStep(b) ==
    IF has_PATTERN(pass)
    THEN {buf_raw2expect(b, kept) : kept \in 0 .. ncopy(b)}
    ELSE IF pass \in {"interact", "wait"} THEN {ForgetExpect(b)} ELSE {b}

\* No match and ptm closed.  `reaped': the exit status was sent.
PassAtEof(reaped) ==
    /\ Passing /\ ~ptm /\ (has_PATTERN(pass) => AssertFits(MarkSent(g)))
    /\ \E b \in ExpectStep(MarkSent(g)) :
          g' = IF pass = "eof" THEN ForgetExpect(b) ELSE b
    /\ IF expects_EXIT(pass) /\ ~reaped
       THEN UNCHANGED <<sock, pass>>
       ELSE pass' = "none" /\ sock' \in BOOLEAN
    /\ lookback' = FALSE
    /\ ph' = "drop"
    /\ UNCHANGED <<ptm, nonblock>>

\* No match and ptm open.  interact and wait have no timeout.
PassGoesOn(timedout) ==
    /\ Passing /\ ptm /\ (has_PATTERN(pass) => AssertFits(MarkSent(g)))
    /\ g' \in ExpectStep(MarkSent(g))
    /\ IF timedout
       THEN ~expects_EXIT(pass) /\ pass' = "none" /\ sock' \in BOOLEAN
       ELSE UNCHANGED <<sock, pass>>
    /\ lookback' = FALSE
    /\ ph' = "drop"
    /\ UNCHANGED <<ptm, nonblock>>

DropOld ==
    /\ ph = "drop"
    /\ g' = drop_old_data(g)
    /\ ph' = "top"
    /\ UNCHANGED <<ptm, sock, pass, lookback, nonblock>>

serv_process_msg ==
    \/ MsgOther \/ MsgCloses \/ MsgClose \/ MsgSet \/ MsgInfo
    \/ \E k \in PassKinds, lb \in BOOLEAN : MsgPass(k, lb)

serv_pass ==
    \/ NotPassing \/ PassSendFails \/ PassAborts \/ PassMatched
    \/ \E r \in BOOLEAN : PassAtEof(r) \/ PassGoesOn(r)

Next ==
    \/ LoopTop \/ ExitLoop \/ SelectReturns \/ serv_accept \/ NoAccept
    \/ ReadData \/ ReadEof \/ ReadNothing \/ NonblockMark
    \/ serv_process_msg \/ serv_pass \/ DropOld

Spec == Init /\ [][Next]_vars

\* The loop never blocks: select() times out after 200 ms, and signals do not
\* interrupt it for ever.
FairSpec == Spec /\ WF_vars(Next) /\ SF_vars(SelectReturns /\ ph' = "accept")

-----------------------------------------------------------------------------
(* Properties *)

\* The counters stay natural numbers (-nonblock never makes newcnt negative)
\* and the phases and requests are the ones of the code.
TypeOK ==
    /\ g \in Buf
    /\ ph \in Phases
    /\ ptm \in BOOLEAN /\ sock \in BOOLEAN /\ lookback \in BOOLEAN
    /\ pass \in PassKinds \cup {"none"}
    /\ nonblock \in NonblockModes

\* rawbuf is exactly the last oldcnt + newcnt bytes of the output and never
\* overflows, and everything copied to expbuf had been read: the pointer
\* arithmetic of serv_read_ptm(), drop_old_data() and buf_raw2expect() stays
\* inside the buffer.
Window ==
    /\ g.ntotal = g.rawoffset + g.oldcnt + g.newcnt
    /\ g.oldcnt + g.newcnt <= RawBufSize
    /\ g.expoffset <= g.ntotal

\* Once output was dropped MAX_OLD_DATA bytes of it are still there: -lookback
\* has something to show, and its rawnew[newcnt - 1] (guarded by ntotal > 0
\* only) never reads in front of rawbuf.
KeepsOldData == g.rawoffset > 0 => g.oldcnt >= MaxOldData

\* At the top of the loop expbuf holds at most MAX_OLD_DATA bytes, so however
\* far it lags behind, the next buf_raw2expect() needs at most
\* MAX_OLD_DATA bytes more than the size of the buffer.
ExpBufBounded ==
    /\ ph = "top" => g.expcnt <= MaxOldData /\ g.oldcnt <= MaxOldData
    /\ SkipGap(g).expcnt + ncopy(g) <= RawBufSize + MaxOldData

\* assert(g.expcnt + ncopy <= g.expbufsize) in buf_raw2expect() never fails.
AssertHolds == ph # "aborted"

\* "For non-blocking mode, we'll drop old data as necessary so `rawbuf' would
\* always have free space for new output": without a client a full buffer is
\* not full for ever.
NonblockMakesRoom ==
    (nonblock /\ Full(g)) ~> (~Full(g) \/ sock \/ ~nonblock \/ ph \in {"exited", "aborted"})

=============================================================================
