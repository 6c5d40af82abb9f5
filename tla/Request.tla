------------------------------ MODULE Request ------------------------------
(***************************************************************************)
(* A request on its way: from the command line (Args) through cli_main()   *)
(* (src/client.c) and the wire (Ttlv) to serv_process_msg()                *)
(* (src/server.c).  The client may be killed while it writes, with an      *)
(* answer of the server unread.  HELLO and the answers are in Session; here *)
(* the payloads are.                                                       *)
(***************************************************************************)
EXTENDS Args, Ttlv, Subst

CONSTANTS
    DefTimeout,     \* spawn -timeout
    Winsize,        \* rows and columns of the user's terminal
    KillArgs        \* bound: the client is only killed with so many arguments

VARIABLES
    wire,       \* what is in the socket
    written,    \* the bytes the client has written
    reset,      \* the client died with data unread: the server gets ECONNRESET
    buf,        \* the server's static buffer in msg_recv()
    sv          \* what the server knows of the request, and its settings

reqVars == <<line, i, st, phase, src, dst, room, wire, written, reset, buf, sv>>

-----------------------------------------------------------------------------
(* Tags and flags *)

TAG_PASS == 1
TAG_WINCH == 2
TAG_SEND == 3
TAG_EXPOUT == 5
TAG_CLOSE == 6
TAG_KILL == 7
TAG_SET == 8
TAG_INFO == 18
TAG_EXP_FLAGS == 21
TAG_PATTERN == 22
TAG_EXP_TIMEOUT == 23
TAG_WINSIZE_ROW == 26
TAG_WINSIZE_COL == 27
TAG_NONBLOCK == 32
TAG_AUTOWAIT == 33
TAG_TTL == 34
TAG_IDLETIME == 36
TAG_LOOKBACK == 40
TAG_PASS_SUBCMD == 41

Bit == [EXACT |-> 1, GLOB |-> 2, ERE |-> 4, EOF |-> 8, EXIT |-> 16, ICASE |-> 32, NEWLINE |-> 128]
Bits(flags) == MapThenSumSet(LAMBDA f : Bit[f], flags)
FlagSet(n) == {f \in DOMAIN Bit : (n \div Bit[f]) % 2 = 1}

SIGTERM == 15
CR == 13

-----------------------------------------------------------------------------
(* cli_main() *)

DotStar == <<46, 42>>

\* expect without a pattern
Defaulted ==
    IF st.subcmd = 1 /\ st.flags = {} THEN [st EXCEPT !.flags = {"ERE"}, !.pattern = DotStar]
    ELSE st

Opt(on, child) == IF on THEN <<child>> ELSE <<>>

Struct(tag, children) == FoldLeft(ttlv_append_child, ttlv_new_struct(tag), children)

PassMsg(p) ==
    Struct(TAG_PASS,
        <<ttlv_new_int(TAG_PASS_SUBCMD, p.subcmd), ttlv_new_int(TAG_EXP_FLAGS, Bits(p.flags))>>
        \o Opt(p.has_timeout, ttlv_new_int(TAG_EXP_TIMEOUT, p.timeout))
        \o Opt(p.pattern # NULL, ttlv_new_text(TAG_PATTERN, p.pattern))
        \o Opt(p.lookback > 0, ttlv_new_int(TAG_LOOKBACK, p.lookback)))

SetMsg ==
    Struct(TAG_SET,
        Opt(st.autowait # NULL, ttlv_new_bool(TAG_AUTOWAIT, st.autowait))
        \o Opt(st.nonblock # NULL, ttlv_new_bool(TAG_NONBLOCK, st.nonblock))
        \o Opt(st.timeout # NULL, ttlv_new_int(TAG_EXP_TIMEOUT, st.timeout))
        \o Opt(st.ttl # NULL, ttlv_new_int(TAG_TTL, st.ttl))
        \o Opt(st.idle # NULL, ttlv_new_int(TAG_IDLETIME, st.idle)))

Msg ==
    CASE IsPass(line.cmd) -> PassMsg(Defaulted)
      [] line.cmd = "set" -> SetMsg
      [] line.cmd = "send" -> ttlv_new_raw(TAG_SEND, IF st.enter THEN Append(st.data, CR) ELSE st.data)
      [] line.cmd = "kill" -> ttlv_new_int(TAG_KILL, IF st.signal < 0 THEN SIGTERM ELSE st.signal)
      [] line.cmd = "expect_out" -> ttlv_new_int(TAG_EXPOUT, st.index)
      [] line.cmd = "get" -> ttlv_new_struct(TAG_INFO)
      [] line.cmd = "close" -> ttlv_new_struct(TAG_CLOSE)

cli_send_winsize ==
    Struct(TAG_WINCH, <<ttlv_new_int(TAG_WINSIZE_ROW, Winsize[1]),
                        ttlv_new_int(TAG_WINSIZE_COL, Winsize[2])>>)

\* send of nothing
NothingToDo == line.cmd = "send" /\ ~ st.enter /\ st.data = <<>>

\* The messages the client sends, one after the other.
Sent == <<Msg>> \o Opt(line.cmd = "interact", cli_send_winsize)

\* cli_subst_compile() comes before the message is made.
BadSubst == line.cmd = "interact" /\ \E k \in DOMAIN st.subs : ~ SubstAccepted(st.subs[k], st.cstring)

cli_main ==
    /\ phase = "build"
    /\ \/ /\ BadSubst
          /\ phase' = "usage"
          /\ UNCHANGED <<wire, written>>
       \/ /\ NothingToDo
          /\ phase' = "nothing"
          /\ UNCHANGED <<wire, written>>
       \/ /\ ~ BadSubst /\ ~ NothingToDo /\ (msg_send_TooLarge(Msg) \/ ~ msg_send_Fits(Msg))
          /\ phase' = "error"
          /\ UNCHANGED <<wire, written>>
       \/ /\ ~ BadSubst /\ ~ NothingToDo /\ ~ msg_send_TooLarge(Msg) /\ msg_send_Fits(Msg)
          /\ phase' = "sent"
          /\ wire' = FlattenSeq([k \in DOMAIN Sent |-> Frame(Sent[k])])
          /\ written' = Len(wire')
    /\ UNCHANGED <<line, i, st, src, dst, room, reset, buf, sv>>

\* The length of the first k messages on the wire.
FrameEnd(k) == MapThenSumSet(LAMBDA j : Len(Frame(Sent[j])), 1 .. k)

\* The client is killed while it writes.  Once the server has processed one of
\* its messages there may be an answer (OUTPUT) that it has not read.
CliKilled ==
    /\ phase = "sent" /\ Len(line.args) <= KillArgs
    /\ written = FrameEnd(Len(Sent))
    /\ \E n \in 0 .. (Len(wire) - 1) :
          /\ wire' = SubSeq(wire, 1, n)
          /\ written' = written - Len(wire) + n
    /\ reset' \in IF sv.got > 0 THEN BOOLEAN ELSE {FALSE}
    /\ UNCHANGED <<line, i, st, phase, src, dst, room, buf, sv>>

-----------------------------------------------------------------------------
(* serv_process_msg() *)

ServInit ==
    [passing |-> FALSE, subcmd |-> 0, flags |-> 0, pattern |-> NULL, timeout |-> 0, lookback |-> 0,
     autowait |-> FALSE, nonblock |-> FALSE, def_timeout |-> DefTimeout, ttl |-> 0, idle |-> 0,
     typed |-> <<>>, signal |-> NULL, index |-> NULL, winsize |-> <<0, 0>>, got |-> 0]

\* The value of a child, if it is there.
Child(m, tag, old) == IF HasChild(m, tag) THEN ttlv_find_child(m, tag).v ELSE old
BoolChild(m, tag, old) == IF HasChild(m, tag) THEN ttlv_find_child(m, tag).v # 0 ELSE old

ServPassMsg(m) ==
    [sv EXCEPT !.passing = TRUE,
               !.subcmd = ttlv_find_child(m, TAG_PASS_SUBCMD).v,
               !.flags = ttlv_find_child(m, TAG_EXP_FLAGS).v,
               !.pattern = Child(m, TAG_PATTERN, @),
               !.timeout = Child(m, TAG_EXP_TIMEOUT, sv.def_timeout),
               !.lookback = IF Child(m, TAG_LOOKBACK, 0) > 0 THEN Child(m, TAG_LOOKBACK, 0) ELSE @]

ServSetMsg(m) ==
    [sv EXCEPT !.autowait = BoolChild(m, TAG_AUTOWAIT, @),
               !.nonblock = BoolChild(m, TAG_NONBLOCK, @),
               !.def_timeout = Child(m, TAG_EXP_TIMEOUT, @),
               !.ttl = Child(m, TAG_TTL, @),
               !.idle = Child(m, TAG_IDLETIME, @)]

Process(m) ==
    CASE m.tag = TAG_PASS -> ServPassMsg(m)
      [] m.tag = TAG_SET -> ServSetMsg(m)
      [] m.tag = TAG_SEND -> [sv EXCEPT !.typed = @ \o m.v]
      [] m.tag = TAG_KILL -> [sv EXCEPT !.signal = m.v]
      [] m.tag = TAG_EXPOUT -> [sv EXCEPT !.index = m.v]
      [] m.tag = TAG_WINCH ->
            [sv EXCEPT !.winsize = <<ttlv_find_child(m, TAG_WINSIZE_ROW).v,
                                     ttlv_find_child(m, TAG_WINSIZE_COL).v>>]
      [] m.tag \in {TAG_INFO, TAG_CLOSE} -> sv

\* serv_process_msg() uses these children without asking whether they are there.
Lacks(m) ==
    \/ m.tag = TAG_PASS /\ ~ (HasChild(m, TAG_PASS_SUBCMD) /\ HasChild(m, TAG_EXP_FLAGS))
    \/ m.tag = TAG_WINCH /\ ~ (HasChild(m, TAG_WINSIZE_ROW) /\ HasChild(m, TAG_WINSIZE_COL))

serv_process_msg ==
    /\ phase = "sent"
    /\ LET r == Recv(wire, reset, buf)
       IN  /\ r.ok
           /\ buf' = r.buf
           /\ wire' = r.rest
           /\ IF Lacks(r.msg)
              THEN phase' = "crashed" /\ sv' = [sv EXCEPT !.got = @ + 1]
              ELSE UNCHANGED phase /\ sv' = [Process(r.msg) EXCEPT !.got = sv.got + 1]
    /\ UNCHANGED <<line, i, st, src, dst, room, written, reset>>

\* The end of the stream, at a message's end or inside one.
serv_hangup ==
    /\ phase = "sent"
    /\ ~ Recv(wire, reset, buf).ok
    /\ phase' = "closed"
    /\ UNCHANGED <<line, i, st, src, dst, room, wire, written, reset, buf, sv>>

-----------------------------------------------------------------------------

Init ==
    /\ ArgsInit
    /\ wire = <<>> /\ written = 0 /\ reset = FALSE
    /\ buf = <<>> /\ sv = ServInit

Next ==
    \/ getargs /\ UNCHANGED <<wire, written, reset, buf, sv>>
    \/ cli_main
    \/ CliKilled
    \/ serv_process_msg
    \/ serv_hangup

Spec == Init /\ [][Next]_reqVars

=============================================================================
