--------------------------- MODULE ProtocolProofs ---------------------------
(***************************************************************************)
(* The sessions of any number of clients with the server, for any sizes,   *)
(* bounds, options and sub-commands.  First, the whole system implements   *)
(* ServBuf: whatever the clients, the child and the signals do, the        *)
(* server's buffers only take steps of ServBuf, so what ServBufProofs      *)
(* proves of these holds in every session.  Then what is on its way on     *)
(* each socket, who is served, and what is left of the child's output.     *)
(***************************************************************************)
EXTENDS Session, ServBufProofs, SequenceTheorems

-----------------------------------------------------------------------------
(* The buffers of a session *)

\* exp_timed_out() and the condition of waitpid() are truth values.
LEMMA Booleans == exp_timed_out \in BOOLEAN /\ MustReap \in BOOLEAN
    BY DEF exp_timed_out, MustReap

\* serv_process_msg() with the messages of Session is the one of ServBuf.
LEMMA MsgStep == ServMsg => serv_process_msg
<1>1. RecvFails => serv_process_msg
    BY DEF RecvFails, serv_process_msg
<1>2. RecvHello => serv_process_msg
    BY DEF RecvHello, serv_process_msg
<1>3. RecvDisconn \/ RecvInput => serv_process_msg
    BY DEF RecvDisconn, RecvInput, serv_process_msg
<1>4. RecvRequest \/ InfoAborts => serv_process_msg
    BY DEF RecvRequest, InfoAborts, serv_process_msg
<1>5. RecvPass => serv_process_msg
    BY DEF RecvPass, serv_process_msg
<1> QED
    BY <1>1, <1>2, <1>3, <1>4, <1>5 DEF ServMsg, serv_process_msg

\* serv_pass() with the answers of Session is the one of ServBuf.
LEMMA PassStep == ServPass => serv_pass
<1>1. AtEof => serv_pass
    BY Booleans DEF AtEof, serv_pass
<1>2. PassGoesOn(exp_timed_out) => serv_pass
    BY Booleans DEF serv_pass
<1> QED
    BY <1>1, <1>2 DEF ServPass, Matched, serv_pass

\* Each turn of serv_loop() in Session is one of ServBuf.
LEMMA LoopStep == ServStep => Next
<1>1. ServTop => Next
    BY DEF ServTop, Next
<1>2. ServSelect \/ ServAccept \/ ServReadPtm \/ ServMark \/ ServDrop => Next
    BY DEF ServSelect, ServAccept, ServReadPtm, ServMark, ServDrop, Next
<1>3. ServMsg \/ ServPass => Next
    BY MsgStep, PassStep DEF Next
<1> QED
    BY <1>1, <1>2, <1>3 DEF ServStep

\* Signals, the child, the clock and the clients leave the buffers alone,
\* except that SIGCHLD may interrupt select().
LEMMA SessStep == [SessNext]_sessVars => [Next]_vars
<1>1. serv_sigCHLD => [Next]_vars
    BY DEF serv_sigCHLD, Next
<1>2. InstallHandler \/ ChildStep \/ Tick => UNCHANGED vars
    BY DEF InstallHandler, ChildStep, Tick, servVars
<1>3. ASSUME NEW c \in Clients,
             CliStep(c) \/ CliConnect(c) \/ CliInput(c) \/ CliDetach(c) \/ CliDie(c)
      PROVE  UNCHANGED vars
    BY <1>3 DEF CliStep, CliConnect, CliInput, CliDetach, CliDie, cli_hello, cli_loop,
                cli_disconn, CliEof, OnlyClient
<1>4. UNCHANGED sessVars => UNCHANGED vars
    BY DEF sessVars, servVars
<1> QED
    BY <1>1, <1>2, <1>3, <1>4, LoopStep DEF SessNext, Program, Environment

\* Server only adds conjuncts to the steps of ServBuf, so the invariants of the
\* buffers hold in every session.
LEMMA SessionImplementsBuffers == SessSpec => Spec
<1>1. SessInit => Init
    BY DEF SessInit, ServInit
<1>2. [SessNext]_sessVars => [Next]_vars
    BY SessStep
<1> QED
    BY <1>1, <1>2, PTL DEF SessSpec, Spec

\* Hence rawbuf is a window of the child's output, MAX_OLD_DATA bytes of it
\* survive, and expbuf is bounded, in every session.
THEOREM SessionBuffersCorrect == SessSpec => [](Window /\ KeepsOldData /\ ExpBufBounded)
    BY SessionImplementsBuffers, WindowCorrect, ExpBufCorrect, PTL

-----------------------------------------------------------------------------
(* Messages on a socket *)

\* The messages in a socket.
Elems(s) == {s[i] : i \in DOMAIN s}

\* An empty socket holds no message.
LEMMA ElemsEmpty == Elems(<<>>) = {}
    BY DEF Elems

\* A socket with one message.
LEMMA ElemsOne == ASSUME NEW a PROVE Elems(<<a>>) = {a}
    BY DEF Elems

\* A socket with two messages.
LEMMA ElemsTwo == ASSUME NEW a, NEW b PROVE Elems(<<a, b>>) = {a, b}
    BY DEF Elems

\* Messages are added at the end of what a socket holds.
LEMMA ElemsConcat ==
    ASSUME NEW S, NEW s \in Seq(S), NEW t \in Seq(S)
    PROVE  s \o t \in Seq(S) /\ Elems(s \o t) = Elems(s) \cup Elems(t)
<1>1. /\ s \o t \in Seq(S) /\ Len(s \o t) = Len(s) + Len(t)
      /\ \A i \in 1 .. Len(s) + Len(t) :
            (s \o t)[i] = IF i <= Len(s) THEN s[i] ELSE t[i - Len(s)]
    OBVIOUS
<1>2. Elems(s \o t) \subseteq Elems(s) \cup Elems(t)
    BY <1>1 DEF Elems
<1>3. Elems(s) \subseteq Elems(s \o t)
    BY <1>1 DEF Elems
<1>4. ASSUME NEW j \in DOMAIN t PROVE t[j] \in Elems(s \o t)
    <2>1. j + Len(s) \in DOMAIN (s \o t) /\ (s \o t)[j + Len(s)] = t[j]
        BY <1>1
    <2> QED
        BY <2>1 DEF Elems
<1> QED
    BY <1>1, <1>2, <1>3, <1>4 DEF Elems

\* The receiver takes the first message and leaves the others.
LEMMA ElemsHead ==
    ASSUME NEW S, NEW s \in Seq(S), s # <<>>
    PROVE  /\ Head(s) \in S /\ Tail(s) \in Seq(S)
           /\ Elems(s) = {Head(s)} \cup Elems(Tail(s))
<1>1. /\ Len(s) \in Nat /\ Len(s) > 0 /\ DOMAIN s = 1 .. Len(s)
      /\ Head(s) = s[1] /\ Tail(s) \in Seq(S)
      /\ DOMAIN Tail(s) = 1 .. (Len(s) - 1)
      /\ \A i \in 1 .. (Len(s) - 1) : Tail(s)[i] = s[i + 1]
    OBVIOUS
<1>2. Elems(s) \subseteq {Head(s)} \cup Elems(Tail(s))
    <2> SUFFICES ASSUME NEW j \in DOMAIN s PROVE s[j] \in {Head(s)} \cup Elems(Tail(s))
        BY DEF Elems
    <2>1. CASE j = 1
        BY <1>1, <2>1
    <2>2. CASE j # 1
        <3>1. j - 1 \in DOMAIN Tail(s) /\ Tail(s)[j - 1] = s[j]
            BY <1>1, <2>2
        <3> QED
            BY <3>1 DEF Elems
    <2> QED
        BY <2>1, <2>2
<1>3. {Head(s)} \cup Elems(Tail(s)) \subseteq Elems(s)
    BY <1>1 DEF Elems
<1> QED
    BY <1>1, <1>2, <1>3

\* One more message at the end.
LEMMA TailSend ==
    ASSUME NEW S, NEW s \in Seq(S), NEW e \in S
    PROVE  /\ <<e>> \in Seq(S)
           /\ Head(s \o <<e>>) = IF s = <<>> THEN e ELSE Head(s)
           /\ Tail(s \o <<e>>) = IF s = <<>> THEN <<>> ELSE Tail(s) \o <<e>>
           /\ Elems(s \o <<e>>) = Elems(s) \cup {e}
<1>1. s \o <<e>> = Append(s, e)
    BY AppendIsConcat
<1>2. s # <<>> => Tail(s) \in Seq(S)
    OBVIOUS
<1>3. s # <<>> => Tail(s) \o <<e>> = Append(Tail(s), e)
    BY <1>2, AppendIsConcat
<1>4. <<e>> \in Seq(S)
    OBVIOUS
<1>5. Elems(s \o <<e>>) = Elems(s) \cup {e}
    <2>1. Elems(s \o <<e>>) = Elems(s) \cup Elems(<<e>>)
        BY <1>4, ElemsConcat, ZenonT(40)
    <2>2. Elems(<<e>>) = {e}
        BY ElemsOne
    <2> QED
        BY <2>1, <2>2, Zenon
<1>6. Head(s \o <<e>>) = IF s = <<>> THEN e ELSE Head(s)
    BY <1>1, HeadTailAppend
<1>7. Tail(s \o <<e>>) = IF s = <<>> THEN <<>> ELSE Tail(s) \o <<e>>
    BY <1>1, <1>3, HeadTailAppend
<1> QED
    BY <1>4, <1>5, <1>6, <1>7

\* Two messages sent one after the other.
LEMMA TwoMessages ==
    ASSUME NEW S, NEW a \in S, NEW b \in S
    PROVE  <<a>> \o <<b>> = <<a, b>> /\ <<a, b>> \in Seq(S) /\ Tail(<<a, b>>) = <<b>>
<1>1. <<a>> \o <<b>> = Append(<<a>>, b)
    BY AppendIsConcat
<1>2. Append(<<a>>, b) = <<a, b>>
    <2>1. /\ Append(<<a>>, b) \in Seq(S) /\ Len(Append(<<a>>, b)) = 2
          /\ Append(<<a>>, b)[1] = a /\ Append(<<a>>, b)[2] = b
        OBVIOUS
    <2>2. /\ <<a, b>> \in Seq(S) /\ Len(<<a, b>>) = 2 /\ <<a, b>>[1] = a /\ <<a, b>>[2] = b
        OBVIOUS
    <2>3. Len(Append(<<a>>, b)) = Len(<<a, b>>)
        BY <2>1, <2>2
    <2>4. \A i \in 1 .. Len(Append(<<a>>, b)) : Append(<<a>>, b)[i] = <<a, b>>[i]
        BY <2>1, <2>2
    <2> QED
        BY <2>1, <2>2, <2>3, <2>4, SeqEqual, Zenon
<1>3. <<a, b>> \in Seq(S)
    OBVIOUS
<1>4. Tail(<<a, b>>) = <<b>>
    OBVIOUS
<1> QED
    BY <1>1, <1>2, <1>3, <1>4

-----------------------------------------------------------------------------
(* What a turn of the server does to its clients.  The steps of Server fall *)
(* into these few, which leave out buffers, clocks and signals.             *)

wire == <<up, down, copen, backlog, who, pass, waited, cliVars>>

\* The answers to requests that are answered at once.
Prompt(k) ==
    IF k = "expect_out" THEN {"EXPOUT_TEXT", "ERR_USAGE"}
    ELSE IF k = "kill" THEN {"ACK", "ERR_SYS"}
    ELSE IF k = "get" THEN {"INFO"} ELSE {"ACK"}

Prompts == {"send", "expect_out", "kill", "close", "set", "get"}

\* The answers that end expect, interact and wait.
Final(k) ==
    (IF has_PATTERN(k) THEN {"MATCHED"} ELSE {}) \cup
    (IF expects_EXIT(k) THEN {"EXITED"} ELSE {"ERR_TIMEOUT"}) \cup
    (IF k = "eof" THEN {"EOF"} ELSE IF expects_EXIT(k) THEN {} ELSE {"ERR_EOF"})

\* The answers that say that there will be no more output.
EndMsgs == {"EOF", "ERR_EOF", "EXITED"}

Sends(c, ms) == down' = [down EXCEPT ![c] = IF copen[c] THEN @ \o ms ELSE @]
StaysIfOpen(c) == who' = IF copen[c] THEN c ELSE NoClient
Receives(c) ==
    /\ who = c /\ up[c] # <<>> /\ up' = [up EXCEPT ![c] = Tail(@)]
    /\ UNCHANGED <<copen, backlog, waited, cliVars>>

Accepts ==
    /\ ph = "accept" /\ ~sock /\ "listen" \in rdy
    /\ who' = Head(backlog) /\ backlog' = Tail(backlog) /\ pass' = "none"
    /\ UNCHANGED <<up, down, copen, waited, cliVars>>

GetsHello(c) ==
    /\ Receives(c) /\ Head(up[c]) = "HELLO"
    /\ Sends(c, <<"HELLO">>) /\ StaysIfOpen(c) /\ UNCHANGED pass

GetsBadHello(c) ==
    /\ Receives(c) /\ Head(up[c]) = "BADHELLO"
    /\ Sends(c, <<"ERR_PROTO">>) /\ who' = NoClient /\ UNCHANGED pass

GetsOldHello(c) ==
    /\ Receives(c) /\ Head(up[c]) = "OLDHELLO"
    /\ who' = NoClient /\ UNCHANGED <<down, pass>>

GetsDisconn(c) ==
    /\ Receives(c) /\ Head(up[c]) = "DISCONN"
    /\ Sends(c, <<"DISCONN">>) /\ who' = NoClient /\ UNCHANGED pass

GetsRequest(c) ==
    /\ Receives(c) /\ Head(up[c]) \in Prompts
    /\ \E a \in Prompt(Head(up[c])) : Sends(c, <<a>>)
    /\ StaysIfOpen(c) /\ UNCHANGED pass

GetsPass(c) ==
    /\ Receives(c) /\ Head(up[c]) \in PassKinds /\ pass = "none"
    /\ pass' = Head(up[c]) /\ UNCHANGED <<down, who>>

\* INPUT, WINCH, or the request that makes the server abort.
GetsOther(c) == Receives(c) /\ UNCHANGED <<down, who, pass>>

Closes(c) ==
    /\ who = c /\ who' = NoClient
    /\ UNCHANGED <<up, down, copen, backlog, pass, waited, cliVars>>

PassesOn(c) ==
    /\ who = c /\ pass # "none" /\ (Output # <<>> => copen[c])
    /\ down' = [down EXCEPT ![c] = @ \o Output]
    /\ UNCHANGED <<up, copen, backlog, who, pass, waited, cliVars>>

\* The exit status is collected with EXITED, for the first time.
PassEnds(c) ==
    /\ who = c /\ pass # "none" /\ pass' = "none"
    /\ \E a \in Final(pass) :
          /\ Sends(c, Output \o <<a>>)
          /\ IF a = "EXITED" THEN ~waited /\ waited' = TRUE ELSE UNCHANGED waited
          /\ a \in EndMsgs => \E r \in BOOLEAN : PassAtEof(r)
    /\ StaysIfOpen(c)
    /\ UNCHANGED <<up, copen, backlog, cliVars>>

Serves(c) ==
    \/ GetsHello(c) \/ GetsBadHello(c) \/ GetsDisconn(c) \/ GetsRequest(c)
    \/ GetsPass(c) \/ GetsOther(c) \/ Closes(c) \/ PassesOn(c) \/ PassEnds(c)
    \/ GetsOldHello(c)

CliActs(c) == CliStep(c) \/ CliConnect(c) \/ CliInput(c) \/ CliDetach(c) \/ CliDie(c)

\* serv_process_msg() is one of the steps.
LEMMA MsgServes ==
    ASSUME ServMsg, UNCHANGED cliVars, sock => who \in Clients
    PROVE  UNCHANGED wire \/ \E c \in Clients : Serves(c)
<1>1. CASE ~sock \/ "sock" \notin rdy
    BY <1>1 DEF ServMsg, MsgOther, wire
<1>2. CASE sock /\ "sock" \in rdy
    <2> SUFFICES Serves(who)
        BY <1>2
    <2>0. UNCHANGED <<copen, backlog, waited, cliVars>>
        BY DEF ServMsg
    <2>1. CASE RecvFails
        BY <2>0, <2>1 DEF RecvFails, MsgCloses, Hangup, Serves, Closes
    <2>2. CASE RecvHello
        BY <2>0, <2>2 DEF RecvHello, MsgCloses, MsgOther, Hangup, Serves, GetsHello,
            GetsBadHello, GetsOldHello, Receives, Received, serv_msg_send, msg_send, Sends, StaysIfOpen
    <2>3. CASE RecvDisconn
        BY <2>0, <2>3 DEF RecvDisconn, MsgCloses, Hangup, Serves, GetsDisconn, Receives,
            Received, msg_send, Sends
    <2>4. CASE RecvInput \/ InfoAborts
        BY <2>0, <2>4 DEF RecvInput, InfoAborts, MsgInfo, MsgOther, Serves, GetsOther,
            Receives, Received
    <2>5. CASE RecvRequest
        BY <2>0, <2>5 DEF RecvRequest, MsgOther, MsgCloses, MsgClose, MsgSet, MsgInfo,
            Hangup, Serves, GetsRequest, Receives, Received, serv_msg_send, msg_send,
            Sends, StaysIfOpen, Prompts, Prompt
    <2>6. CASE RecvPass
        BY <2>0, <2>6 DEF RecvPass, MsgPass, Request, Serves, GetsPass, Receives, Received
    <2> QED
        BY <1>2, <2>1, <2>2, <2>3, <2>4, <2>5, <2>6 DEF ServMsg
<1> QED
    BY <1>1, <1>2

\* serv_pass() is one of the steps.
LEMMA PassServes ==
    ASSUME ServPass, UNCHANGED cliVars, sock => who \in Clients
    PROVE  UNCHANGED wire \/ \E c \in Clients : Serves(c)
<1>0. UNCHANGED <<up, copen, backlog, cliVars>>
    BY DEF ServPass
<1>1. CASE NotPassing /\ UNCHANGED <<child, waited, who, down, age>>
    BY <1>0, <1>1 DEF NotPassing, wire
<1>2. CASE /\ PassAborts /\ (Output # <<>> => copen[who])
           /\ down' = [down EXCEPT ![who] = @ \o Output]
           /\ UNCHANGED <<child, waited, who, age>>
    BY <1>0, <1>2 DEF PassAborts, Passing, Serves, PassesOn
<1>3. CASE PassSendFails /\ Hangup /\ UNCHANGED <<child, waited, down>>
    BY <1>0, <1>3 DEF PassSendFails, Passing, Hangup, Serves, Closes
<1>4. CASE Matched
    <2>1. has_PATTERN(pass) /\ pass # "none" /\ pass' = "none" /\ sock /\ UNCHANGED waited
        BY <1>4 DEF Matched, PassMatched, Passing
    <2>2. Sends(who, Output \o <<"MATCHED">>) /\ StaysIfOpen(who)
        BY <1>4 DEF Matched, Answer, serv_msg_send, msg_send, Hangup, Sends, StaysIfOpen
    <2>3. "MATCHED" \in Final(pass) /\ "MATCHED" \notin EndMsgs
        BY <2>1 DEF Final, EndMsgs
    <2>4. PassEnds(who)
        BY <1>0, <2>1, <2>2, <2>3 DEF PassEnds
    <2> QED
        BY <2>1, <2>4 DEF Serves
<1>5. CASE AtEof
    <2>1. pass # "none" /\ sock /\ \E r \in BOOLEAN : PassAtEof(r)
        BY <1>5, Booleans DEF AtEof, PassAtEof, Passing
    <2>2. CASE pass = "eof"
        <3>1. UNCHANGED waited /\ pass' = "none"
            BY <1>5, <2>2 DEF AtEof, PassAtEof, MustReap, expects_EXIT
        <3>2. Sends(who, Output \o <<"EOF">>) /\ StaysIfOpen(who)
            BY <1>5, <2>2 DEF AtEof, EofAnswer, Answer, serv_msg_send, msg_send, Hangup,
                              Sends, StaysIfOpen, expects_EXIT
        <3>3. "EOF" \in Final(pass)
            BY <2>2 DEF Final
        <3> QED
            BY <1>0, <2>1, <3>1, <3>2, <3>3 DEF PassEnds, Serves
    <2>3. CASE pass # "eof" /\ MustReap
        <3>1. expects_EXIT(pass) /\ ~waited /\ waited' = TRUE /\ pass' = "none"
            BY <1>5, <2>3 DEF AtEof, PassAtEof, MustReap
        <3>2. Sends(who, Output \o <<"EXITED">>) /\ StaysIfOpen(who)
            BY <1>5, <2>3, <3>1 DEF AtEof, EofAnswer, Answer, serv_msg_send, msg_send,
                              Hangup, Sends, StaysIfOpen
        <3>3. "EXITED" \in Final(pass)
            BY <3>1 DEF Final
        <3> QED
            BY <1>0, <2>1, <3>1, <3>2, <3>3 DEF PassEnds, Serves
    <2>4. CASE pass # "eof" /\ expects_EXIT(pass) /\ ~MustReap
        BY <1>0, <1>5, <2>1, <2>4 DEF AtEof, PassAtEof, EofAnswer, Answer, Output, Serves, PassesOn
    <2>5. CASE pass # "eof" /\ ~expects_EXIT(pass)
        <3>1. UNCHANGED waited /\ pass' = "none"
            BY <1>5, <2>5 DEF AtEof, PassAtEof, MustReap
        <3>2. Sends(who, Output \o <<"ERR_EOF">>) /\ StaysIfOpen(who)
            BY <1>5, <2>5 DEF AtEof, EofAnswer, Answer, serv_msg_send, msg_send, Hangup,
                              Sends, StaysIfOpen
        <3>3. "ERR_EOF" \in Final(pass)
            BY <2>5 DEF Final
        <3> QED
            BY <1>0, <2>1, <3>1, <3>2, <3>3 DEF PassEnds, Serves
    <2> QED
        BY <2>2, <2>3, <2>4, <2>5
<1>6. CASE /\ PassGoesOn(exp_timed_out)
           /\ Answer(IF exp_timed_out THEN <<"ERR_TIMEOUT">> ELSE <<>>)
           /\ UNCHANGED <<child, waited>>
    <2>1. pass # "none" /\ sock
        BY <1>6 DEF PassGoesOn, Passing
    <2>2. CASE exp_timed_out
        <3>1. ~expects_EXIT(pass) /\ pass' = "none"
            BY <1>6, <2>2 DEF PassGoesOn
        <3>2. Sends(who, Output \o <<"ERR_TIMEOUT">>) /\ StaysIfOpen(who)
            BY <1>6, <2>2 DEF Answer, serv_msg_send, msg_send, Hangup, Sends, StaysIfOpen
        <3>3. "ERR_TIMEOUT" \in Final(pass) /\ "ERR_TIMEOUT" \notin EndMsgs
            BY <3>1 DEF Final, EndMsgs
        <3> QED
            BY <1>0, <1>6, <2>1, <3>1, <3>2, <3>3 DEF PassEnds, Serves
    <2>3. CASE ~exp_timed_out
        BY <1>0, <1>6, <2>1, <2>3 DEF PassGoesOn, Answer, Output, Serves, PassesOn
    <2> QED
        BY <2>2, <2>3
<1> QED
    BY <1>1, <1>2, <1>3, <1>4, <1>5, <1>6 DEF ServPass

\* The rest of the loop, the child, the clock and the signals leave the
\* clients alone, except for accept().
LEMMA WireStep ==
    ASSUME [SessNext]_sessVars, sock => who \in Clients
    PROVE  \/ UNCHANGED wire \/ Accepts
           \/ \E c \in Clients : Serves(c)
           \/ \E c \in Clients : CliActs(c)
<1>1. CASE UNCHANGED sessVars
    BY <1>1 DEF sessVars, servVars, vars, procVars, connVars, wireVars, cliVars, wire
<1>2. CASE (InstallHandler \/ serv_sigCHLD \/ ChildStep \/ Tick) /\ UNCHANGED cliVars
    BY <1>2 DEF InstallHandler, serv_sigCHLD, ChildStep, Tick, servVars, vars, procVars,
                connVars, wireVars, wire, SelectReturns
<1>3. CASE (ServTop \/ ServSelect \/ ServReadPtm \/ ServMark \/ ServDrop) /\ UNCHANGED cliVars
    <2>1. CASE ServTop
        BY <1>3, <2>1 DEF ServTop, LoopTop, ExitLoop, connVars, wireVars, wire
    <2>2. CASE ServSelect
        BY <1>3, <2>2 DEF ServSelect, SelectReturns, procVars, wireVars, wire
    <2>3. CASE ServReadPtm
        BY <1>3, <2>3 DEF ServReadPtm, ReadData, ReadEof, ReadNothing, procVars, wireVars, wire
    <2>4. CASE ServMark \/ ServDrop
        BY <1>3, <2>4 DEF ServMark, NonblockMark, ServDrop, DropOld, procVars, connVars,
                          wireVars, wire
    <2> QED
        BY <1>3, <2>1, <2>2, <2>3, <2>4
<1>4. CASE ServAccept /\ UNCHANGED cliVars
    BY <1>4 DEF ServAccept, serv_accept, NoAccept, procVars, wireVars, wire, Accepts
<1>5. CASE ServMsg /\ UNCHANGED cliVars
    BY <1>5, MsgServes
<1>6. CASE ServPass /\ UNCHANGED cliVars
    BY <1>6, PassServes
<1> QED
    BY <1>1, <1>2, <1>3, <1>4, <1>5, <1>6
    DEF SessNext, Program, Environment, ServStep, CliActs

-----------------------------------------------------------------------------
(* Types *)

Messages ==
    {"HELLO", "BADHELLO", "OLDHELLO", "DISCONN", "INPUT", "WINCH", "OUTPUT",
     "expect", "eof", "interact", "interact_re", "wait", "send", "kill", "close",
     "set", "get", "expect_out", "mismatch", "too_old", "nopattern", "none",
     "ACK", "ERR_SYS", "INFO", "EXPOUT_TEXT", "ERR_USAGE", "MATCHED", "EOF",
     "ERR_EOF", "ERR_TIMEOUT", "EXITED", "ERR_PROTO"}

WireTypes ==
    /\ backlog \in Seq(Clients)
    /\ up \in [Clients -> Seq(Messages)] /\ down \in [Clients -> Seq(Messages)]
    /\ copen \in [Clients -> BOOLEAN]
    /\ cst \in [Clients -> {"off", "hello", "loop", "disconn"}]
    /\ cmd \in [Clients -> Commands \cup {"none"}]
    /\ who \in Clients \cup {NoClient}
    /\ waited \in BOOLEAN

\* What select() found is still there when it is used.
Watched ==
    /\ rdy \subseteq {"listen", "ptm", "sock"}
    /\ "listen" \in rdy => backlog # <<>>

Connected == sock <=> who # NoClient

\* Every sub-command is a message, and none of them is "none".
LEMMA CommandMessages == Commands \cup {"none"} \subseteq Messages /\ "none" \notin Commands
    BY CommandsAssumption DEF Messages

\* What the server answers at once are messages.
LEMMA PromptMessages == \A k : Prompt(k) \subseteq Messages
    BY DEF Prompt, Messages

\* What ends an expect, interact or wait are messages.
LEMMA FinalMessages == \A k : Final(k) \subseteq Messages
    BY DEF Final, Messages

\* serv_pass() sends one OUTPUT message or none.
LEMMA OutputMessages == Output \in Seq(Messages)
<1>1. <<>> \in Seq(Messages) /\ <<"OUTPUT">> \in Seq(Messages)
    BY DEF Messages
<1> QED
    BY <1>1 DEF Output

\* Every step keeps the types of the sockets and the clients.
LEMMA WireTypesNext ==
    ASSUME WireTypes, Watched, Connected, [SessNext]_sessVars
    PROVE  WireTypes'
<1> USE DEF WireTypes
<1>1. CASE UNCHANGED wire
    BY <1>1 DEF wire, cliVars
<1>2. CASE Accepts
    <2>1. backlog # <<>>
        BY <1>2 DEF Accepts, Watched
    <2>2. Head(backlog) \in Clients /\ Tail(backlog) \in Seq(Clients)
        BY <2>1
    <2> QED
        BY <1>2, <2>2 DEF Accepts, cliVars
<1>3. ASSUME NEW c \in Clients, Serves(c) PROVE WireTypes'
    <2>1. ASSUME Receives(c) PROVE up' \in [Clients -> Seq(Messages)]
        <3>1. Tail(up[c]) \in Seq(Messages)
            BY <2>1 DEF Receives
        <3> QED
            BY <2>1, <3>1 DEF Receives
    <2>2. ASSUME NEW ms \in Seq(Messages), Sends(c, ms) PROVE down' \in [Clients -> Seq(Messages)]
        <3>1. down[c] \o ms \in Seq(Messages)
            BY ElemsConcat
        <3> QED
            BY <2>2, <3>1 DEF Sends
    <2>0. <<"HELLO">> \in Seq(Messages) /\ <<"ERR_PROTO">> \in Seq(Messages)
            /\ <<"DISCONN">> \in Seq(Messages)
        BY DEF Messages
    <2>3. CASE GetsHello(c)
        BY <2>0, <2>1, <2>2, <2>3 DEF GetsHello, Receives, StaysIfOpen, cliVars
    <2>4. CASE GetsBadHello(c)
        BY <2>0, <2>1, <2>2, <2>4 DEF GetsBadHello, Receives, cliVars
    <2>5. CASE GetsDisconn(c)
        BY <2>0, <2>1, <2>2, <2>5 DEF GetsDisconn, Receives, cliVars
    <2>6. CASE GetsRequest(c)
        <3>1. PICK a \in Prompt(Head(up[c])) : Sends(c, <<a>>)
            BY <2>6 DEF GetsRequest
        <3>2. <<a>> \in Seq(Messages)
            BY PromptMessages
        <3> QED
            BY <2>1, <2>2, <2>6, <3>1, <3>2 DEF GetsRequest, Receives, StaysIfOpen, cliVars
    <2>7. CASE GetsPass(c) \/ GetsOther(c) \/ GetsOldHello(c)
        BY <2>1, <2>7 DEF GetsPass, GetsOther, GetsOldHello, Receives, cliVars
    <2>8. CASE Closes(c)
        BY <2>8 DEF Closes, cliVars
    <2>9. CASE PassesOn(c)
        <3>1. down[c] \o Output \in Seq(Messages)
            BY OutputMessages, ElemsConcat
        <3> QED
            BY <2>9, <3>1 DEF PassesOn, cliVars
    <2>10. CASE PassEnds(c)
        <3>1. PICK a \in Final(pass) : /\ Sends(c, Output \o <<a>>)
                                       /\ waited' \in BOOLEAN
            BY <2>10 DEF PassEnds
        <3>2. <<a>> \in Seq(Messages)
            BY FinalMessages
        <3>3. Output \o <<a>> \in Seq(Messages)
            BY <3>2, OutputMessages, ElemsConcat
        <3> QED
            BY <2>2, <2>10, <3>1, <3>3 DEF PassEnds, StaysIfOpen, cliVars
    <2> QED
        BY <1>3, <2>3, <2>4, <2>5, <2>6, <2>7, <2>8, <2>9, <2>10 DEF Serves
<1>4. ASSUME NEW c \in Clients, CliActs(c) PROVE WireTypes'
    <2>0. UNCHANGED <<who, waited>>
        BY <1>4 DEF CliActs, CliStep, CliConnect, CliInput, CliDetach, CliDie, cli_hello,
                    cli_loop, cli_disconn, CliEof, OnlyClient, procVars
    <2>1. ASSUME CliEnds(c), UNCHANGED <<up, backlog>> PROVE WireTypes'
        <3>1. <<>> \in Seq(Messages)
            OBVIOUS
        <3> QED
            BY <2>0, <2>1, <3>1 DEF CliEnds
    <2>2. down[c] # <<>> => Tail(down[c]) \in Seq(Messages)
        OBVIOUS
    <2>3. ASSUME NEW ms \in Seq(Messages), NEW l \in {"loop", "disconn"}, down[c] # <<>>,
                 cli_msg_send(c, ms, l), UNCHANGED backlog
          PROVE  WireTypes'
        <3>1. CASE ServHas(c)
            <4>1. up[c] \o ms \in Seq(Messages)
                BY ElemsConcat
            <4> QED
                BY <2>0, <2>2, <2>3, <3>1, <4>1 DEF cli_msg_send
        <3>2. CASE ~ServHas(c)
            BY <2>1, <2>3, <3>2 DEF cli_msg_send
        <3> QED
            BY <3>1, <3>2
    <2>4. CASE cli_hello(c)
        <3>1. <<cmd[c]>> \o cli_send_winsize(c) \in Seq(Messages)
            <4>1. /\ <<cmd[c]>> \in Seq(Messages)
                  /\ <<"WINCH">> \in Seq(Messages) /\ <<>> \in Seq(Messages)
                BY CommandMessages DEF Messages
            <4>2. cli_send_winsize(c) \in Seq(Messages)
                BY <4>1 DEF cli_send_winsize
            <4> QED
                BY <4>1, <4>2, ElemsConcat
        <3> QED
            BY <2>0, <2>1, <2>2, <2>3, <2>4, <3>1 DEF cli_hello
    <2>5. CASE cli_loop(c)
        <3>1. <<"DISCONN">> \in Seq(Messages)
            BY DEF Messages
        <3> QED
            BY <2>0, <2>1, <2>2, <2>3, <2>5, <3>1 DEF cli_loop
    <2>6. CASE cli_disconn(c)
        BY <2>0, <2>1, <2>2, <2>6 DEF cli_disconn
    <2>7. CASE CliEof(c) \/ CliDie(c)
        BY <2>1, <2>7 DEF CliEof, CliDie
    <2>8. CASE CliInput(c)
        <3>1. <<"INPUT">> \in Seq(Messages)
            BY DEF Messages
        <3> QED
            BY <2>0, <2>1, <2>8, <3>1 DEF CliInput
    <2>9. CASE CliDetach(c)
        <3>1. Append(up[c], "DISCONN") \in Seq(Messages)
            BY DEF Messages
        <3> QED
            BY <2>0, <2>1, <2>9, <3>1 DEF CliDetach
    <2>10. CASE CliConnect(c)
        <3>1. \A k : Hello(k) \in Seq(Messages)
            <4>1. <<"HELLO">> \in Seq(Messages) /\ <<"BADHELLO">> \in Seq(Messages)
                  /\ <<"OLDHELLO">> \in Seq(Messages)
                BY DEF Messages
            <4> QED
                BY <4>1 DEF Hello
        <3>2. up' \in [Clients -> Seq(Messages)]
            BY <2>10, <3>1 DEF CliConnect
        <3>3. Append(backlog, c) \in Seq(Clients)
            OBVIOUS
        <3> QED
            BY <2>0, <2>10, <3>2, <3>3 DEF CliConnect
    <2> QED
        BY <1>4, <2>4, <2>5, <2>6, <2>7, <2>8, <2>9, <2>10 DEF CliActs, CliStep
<1> QED
    BY <1>1, <1>2, <1>3, <1>4, WireStep DEF Connected

\* The steps of the clients leave the server alone.
LEMMA ClientsOnly ==
    ASSUME NEW c \in Clients, CliActs(c)
    PROVE  UNCHANGED <<vars, procVars, who, rdy, tmo, age, forced, ptyVars>>
    BY DEF CliActs, CliStep, CliConnect, CliInput, CliDetach, CliDie, cli_hello, cli_loop,
           cli_disconn, CliEof, OnlyClient

\* What a client does to its own socket, in the same manner.
ServerSame == UNCHANGED <<who, pass, waited, ph>>

EndsWith(c, b) == CliEnds(c) /\ bugs' = b /\ UNCHANGED <<up, backlog>> /\ ServerSame

Reads(c) ==
    /\ down[c] # <<>> /\ down' = [down EXCEPT ![c] = Tail(@)]
    /\ UNCHANGED <<copen, cmd, backlog>> /\ ServerSame

Comes(c) ==
    /\ cst[c] = "off" /\ ~ServHas(c) /\ ~ServDown
    /\ \E k \in Commands :
          /\ cmd' = [cmd EXCEPT ![c] = k]
          /\ up' = [up EXCEPT ![c] = Hello(k)]
    /\ cst' = [cst EXCEPT ![c] = "hello"] /\ copen' = [copen EXCEPT ![c] = TRUE]
    /\ UNCHANGED <<down, bugs>> /\ ServerSame

Asks(c) ==
    /\ cst[c] = "hello" /\ Reads(c) /\ Head(down[c]) = "HELLO"
    /\ up' = [up EXCEPT ![c] = @ \o (<<cmd[c]>> \o cli_send_winsize(c))]
    /\ cst' = [cst EXCEPT ![c] = "loop"] /\ UNCHANGED bugs

TakesAnswer(c) ==
    /\ cst[c] = "loop" /\ Reads(c) /\ Head(down[c]) \notin {"OUTPUT", "HELLO", "DISCONN"}
    /\ up' = [up EXCEPT ![c] = @ \o <<"DISCONN">>]
    /\ cst' = [cst EXCEPT ![c] = "disconn"] /\ UNCHANGED bugs

TakesOutput(c) ==
    /\ cst[c] = "loop" /\ Reads(c) /\ Head(down[c]) = "OUTPUT"
    /\ UNCHANGED <<up, cst, bugs>>

\* OUTPUT that was under way, or a message that has no place here.
Skips(c) ==
    /\ Reads(c) /\ UNCHANGED <<up, cst>>
    /\ \/ /\ cst[c] = "hello" /\ Head(down[c]) \notin {"HELLO", "ERR_PROTO"}
       \/ /\ cst[c] = "disconn" /\ Head(down[c]) # "DISCONN"
          /\ Head(down[c]) = "OUTPUT" /\ cmd[c] \in Passes => UNCHANGED bugs

Types(c) ==
    /\ cst[c] = "loop" /\ up[c] = <<>> /\ up' = [up EXCEPT ![c] = <<"INPUT">>]
    /\ UNCHANGED <<cst, cmd, copen, down, bugs, backlog>> /\ ServerSame

Detaches(c) ==
    /\ MayDetach /\ cst[c] = "loop"
    /\ up' = [up EXCEPT ![c] = @ \o <<"DISCONN">>]
    /\ cst' = [cst EXCEPT ![c] = "disconn"]
    /\ UNCHANGED <<cmd, copen, down, bugs, backlog>> /\ ServerSame

\* [BUG!?] is printed only when HELLO or DISCONN comes in cli_loop().
Quits(c) ==
    /\ cst[c] # "off"
    /\ \/ EndsWith(c, bugs)
       \/ /\ cst[c] = "loop" /\ down[c] # <<>> /\ Head(down[c]) \in {"HELLO", "DISCONN"}
          /\ EndsWith(c, bugs \cup {Head(down[c])})

\* What each step of a client does to the sockets: it comes, asks, reads,
\* types, detaches or quits.
LEMMA ClientStep ==
    ASSUME WireTypes, NEW c \in Clients, CliActs(c)
    PROVE  \/ Comes(c) \/ Asks(c) \/ TakesAnswer(c) \/ TakesOutput(c) \/ Skips(c)
           \/ Types(c) \/ Detaches(c) \/ Quits(c)
<1>0. ServerSame
    BY ClientsOnly DEF ServerSame, vars, procVars
<1>1. CASE CliConnect(c)
    BY <1>0, <1>1 DEF CliConnect, Running, Comes
<1>2. CASE cli_hello(c)
    BY <1>0, <1>2 DEF cli_hello, cli_msg_send, Asks, Reads, Skips, Quits, EndsWith
<1>3. CASE cli_loop(c)
    <2>1. CASE Head(down[c]) = "OUTPUT"
        BY <1>0, <1>3, <2>1 DEF cli_loop, TakesOutput, Reads
    <2>2. CASE Head(down[c]) \in {"HELLO", "DISCONN"}
        BY <1>0, <1>3, <2>2 DEF cli_loop, Quits, EndsWith
    <2>3. CASE Head(down[c]) \notin {"OUTPUT", "HELLO", "DISCONN"}
        BY <1>0, <1>3, <2>3 DEF cli_loop, cli_msg_send, TakesAnswer, Reads, Quits, EndsWith
    <2> QED
        BY <2>1, <2>2, <2>3
<1>4. CASE cli_disconn(c)
    BY <1>0, <1>4 DEF cli_disconn, Skips, Reads, Quits, EndsWith
<1>5. CASE CliEof(c) \/ CliDie(c)
    BY <1>0, <1>5 DEF CliEof, CliDie, Running, Quits, EndsWith
<1>6. CASE CliInput(c)
    BY <1>0, <1>6 DEF CliInput, Types, Quits, EndsWith
<1>7. CASE CliDetach(c)
    <2>1. Append(up[c], "DISCONN") = up[c] \o <<"DISCONN">>
        BY DEF WireTypes
    <2> QED
        BY <1>0, <1>7, <2>1 DEF CliDetach, Detaches, Quits, EndsWith
<1> QED
    BY <1>1, <1>2, <1>3, <1>4, <1>5, <1>6, <1>7 DEF CliActs, CliStep

\* g.conn.sock is closed exactly when there is no client.
LEMMA ConnectedNext ==
    ASSUME WireTypes, Watched, Connected, [SessNext]_sessVars
    PROVE  Connected'
<1> USE DEF Connected
<1>1. CASE UNCHANGED sessVars
    BY <1>1 DEF sessVars, servVars, vars, connVars
<1>2. CASE InstallHandler \/ serv_sigCHLD \/ ChildStep \/ Tick
    BY <1>2 DEF InstallHandler, serv_sigCHLD, ChildStep, Tick, servVars, vars, connVars,
                SelectReturns
<1>3. CASE ServTop \/ ServSelect \/ ServReadPtm \/ ServMark \/ ServDrop
    BY <1>3 DEF ServTop, LoopTop, ExitLoop, ServSelect, SelectReturns, ServReadPtm, ReadData,
                ReadEof, ReadNothing, ServMark, NonblockMark, ServDrop, DropOld, connVars
<1>4. CASE ServAccept
    <2>1. "listen" \in rdy => Head(backlog) \in Clients
        BY DEF Watched, WireTypes
    <2> QED
        BY <1>4, <2>1, ServerAssumption DEF ServAccept, serv_accept, NoAccept
<1>5. CASE ServMsg
    <2>1. CASE ~sock \/ "sock" \notin rdy
        BY <1>5, <2>1 DEF ServMsg, MsgOther
    <2>2. CASE RecvFails \/ RecvDisconn
        BY <2>2 DEF RecvFails, RecvDisconn, Hangup
    <2>3. CASE RecvHello
        BY <2>3 DEF RecvHello, Hangup, serv_msg_send, MsgOther, MsgCloses
    <2>4. CASE RecvInput \/ RecvPass \/ InfoAborts
        BY <2>4 DEF RecvInput, RecvPass, InfoAborts, MsgInfo, MsgOther, MsgPass
    <2>5. CASE RecvRequest /\ sock
        <3>1. \E m : serv_msg_send(<<m>>)
            BY <2>5 DEF RecvRequest
        <3> QED
            BY <2>5, <3>1 DEF serv_msg_send, Hangup
    <2> QED
        BY <1>5, <2>1, <2>2, <2>3, <2>4, <2>5 DEF ServMsg
<1>6. CASE ServPass
    <2>1. ASSUME NEW ms, Answer(ms), sock PROVE Connected'
        BY <2>1 DEF Answer, serv_msg_send, Hangup
    <2>2. CASE (NotPassing \/ PassAborts) /\ UNCHANGED who
        BY <2>2 DEF NotPassing, PassAborts
    <2>6. CASE PassSendFails /\ Hangup
        BY <2>6 DEF Hangup
    <2>3. CASE Matched
        BY <2>1, <2>3 DEF Matched, PassMatched, Passing
    <2>4. CASE AtEof
        BY <2>1, <2>4 DEF AtEof, PassAtEof, Passing
    <2>5. CASE /\ PassGoesOn(exp_timed_out)
               /\ Answer(IF exp_timed_out THEN <<"ERR_TIMEOUT">> ELSE <<>>)
        BY <2>1, <2>5 DEF PassGoesOn, Passing
    <2> QED
        BY <1>6, <2>2, <2>3, <2>4, <2>5, <2>6 DEF ServPass
<1>7. ASSUME NEW c \in Clients, CliActs(c) PROVE Connected'
    BY <1>7, ClientsOnly DEF vars
<1> QED
    BY <1>1, <1>2, <1>3, <1>4, <1>5, <1>6, <1>7
    DEF SessNext, Program, Environment, ServStep, CliActs

\* What select() reports is valid until it is used.
LEMMA WatchedNext ==
    ASSUME WireTypes, Watched, [SessNext]_sessVars
    PROVE  Watched'
<1> USE DEF Watched
<1>1. CASE UNCHANGED <<rdy, backlog>>
    BY <1>1
<1>2. CASE ServSelect
    BY <1>2 DEF ServSelect, Ready
<1>3. CASE ServAccept \/ ServReadPtm \/ ServMsg
    BY <1>3 DEF ServAccept, ServReadPtm, ServMsg
<1>4. ASSUME NEW c \in Clients, CliActs(c) PROVE Watched'
    <2>1. UNCHANGED rdy
        BY <1>4, ClientsOnly
    <2>2. backlog' \in {backlog, Append(backlog, c)}
        BY <1>4 DEF CliActs, CliStep, CliConnect, CliInput, CliDetach, CliDie, cli_hello,
                    cli_loop, cli_disconn, CliEof
    <2>3. Len(Append(backlog, c)) > 0
        BY DEF WireTypes
    <2> QED
        BY <2>1, <2>2, <2>3
<1>5. CASE \/ UNCHANGED sessVars \/ InstallHandler \/ serv_sigCHLD \/ ChildStep \/ Tick
           \/ ServTop \/ ServMark \/ ServPass \/ ServDrop
    BY <1>1, <1>5 DEF sessVars, servVars, connVars, InstallHandler, serv_sigCHLD, ChildStep,
                      Tick, ServTop, ServMark, ServPass, ServDrop
<1> QED
    BY <1>2, <1>3, <1>4, <1>5 DEF SessNext, Program, Environment, ServStep, CliActs

-----------------------------------------------------------------------------
(* The child's output and its end *)

\* buf_raw2expect() and forgetting what expect has not seen move no output.
LEMMA TextCounts ==
    ASSUME NEW b \in Buf, NEW kept
    PROVE  /\ buf_raw2expect(b, kept).ntotal = b.ntotal
           /\ buf_raw2expect(b, kept).newcnt = b.newcnt
           /\ ForgetExpect(b).ntotal = b.ntotal
           /\ ForgetExpect(b).newcnt = b.newcnt
    BY DEF Buf, buf_raw2expect, SkipGap, ForgetExpect

\* Sending the new output leaves nothing new.
LEMMA SentCounts ==
    ASSUME Inv
    PROVE  /\ MarkSent(g) \in Buf /\ MarkSent(g).ntotal = g.ntotal /\ MarkSent(g).newcnt = 0
    BY SentBuf DEF Inv, BufOK

\* Matching against the new output neither reads nor leaves any of it new.
LEMMA ExpectStepCounts ==
    ASSUME Inv, NEW b \in ExpectStep(MarkSent(g))
    PROVE  b.ntotal = g.ntotal /\ b.newcnt = 0
    BY SentCounts, TextCounts DEF ExpectStep

\* When the end of ptm is reported, all output was sent just before.
LEMMA EofCounts ==
    ASSUME Inv, NEW r \in BOOLEAN, PassAtEof(r)
    PROVE  ~ptm /\ ~ptm' /\ g'.ntotal = g.ntotal /\ g'.newcnt = 0
<1>0. BufOK(g)
    BY DEF Inv
<1>1. PICK b \in ExpectStep(MarkSent(g)) : g' = IF pass = "eof" THEN ForgetExpect(b) ELSE b
    BY DEF PassAtEof
<1>2. BufOK(b)
    BY <1>0, ExpectStepBuf DEF Inv, PassAtEof, Passing
<1>3. g'.ntotal = g.ntotal /\ g'.newcnt = 0
    BY <1>1, <1>2, ExpectStepCounts, TextCounts DEF BufOK
<1> QED
    BY <1>3 DEF PassAtEof

\* Only read(ptm) adds output, and once all was sent nothing becomes new again.
LEMMA OutputStep ==
    ASSUME Inv, [Next]_vars
    PROVE  \/ ReadData
           \/ g'.ntotal = g.ntotal /\ (g.newcnt = 0 => g'.newcnt = 0)
<1>0. BufOK(g) /\ g \in Buf
    BY DEF Inv, TypeOK
<1>1. CASE UNCHANGED g
    BY <1>1
<1>2. CASE LoopTop \/ ExitLoop \/ SelectReturns \/ serv_accept \/ NoAccept \/ ReadEof
           \/ ReadNothing \/ MsgOther \/ MsgCloses \/ MsgClose \/ MsgSet
           \/ (\E k \in PassKinds, lb \in BOOLEAN : MsgPass(k, lb))
           \/ NotPassing \/ PassSendFails \/ PassAborts
    BY <1>1, <1>2 DEF LoopTop, ExitLoop, SelectReturns, serv_accept, NoAccept, ReadEof,
        ReadNothing, MsgOther, MsgCloses, MsgClose, MsgSet, MsgPass, NotPassing,
        PassSendFails, PassAborts
<1>3. CASE NonblockMark
    <2>1. CASE MustMark(g)
        <3>1. MarkDropped(g).newcnt > 0 /\ MarkDropped(g).newcnt = g.newcnt - DropSize
                /\ MarkDropped(g).ntotal = g.ntotal
            BY <1>0, <2>1, DroppedBuf DEF MarkDropped, Buf
        <3> QED
            BY <1>0, <1>3, <3>1, SizesAssumption DEF NonblockMark, Buf
    <2>2. CASE ~MustMark(g)
        BY <1>1, <1>3, <2>2 DEF NonblockMark
    <2> QED
        BY <2>1, <2>2
<1>4. CASE MsgInfo
    BY <1>0, <1>4, TextCounts DEF MsgInfo
<1>5. CASE PassMatched
    <2>1. PICK kept \in 0 .. ncopy(MarkSent(g)) :
             \E rest : g' = ConsumeMatch(buf_raw2expect(MarkSent(g), kept), rest)
        BY <1>5 DEF PassMatched
    <2>2. PICK rest : g' = ConsumeMatch(buf_raw2expect(MarkSent(g), kept), rest)
        BY <2>1
    <2>3. /\ buf_raw2expect(MarkSent(g), kept).ntotal = g.ntotal
          /\ buf_raw2expect(MarkSent(g), kept).newcnt = 0
        BY SentCounts, TextCounts
    <2>4. BufOK(buf_raw2expect(MarkSent(g), kept))
        BY <1>0, SentBuf, Raw2ExpectBuf
    <2> QED
        BY <2>2, <2>3, <2>4 DEF ConsumeMatch, BufOK, Buf
<1>6. ASSUME NEW r \in BOOLEAN, PassAtEof(r) PROVE g'.ntotal = g.ntotal /\ g'.newcnt = 0
    BY <1>6, EofCounts
<1>7. ASSUME NEW r \in BOOLEAN, PassGoesOn(r) PROVE g'.ntotal = g.ntotal /\ g'.newcnt = 0
    BY <1>7, ExpectStepCounts DEF PassGoesOn
<1>8. CASE DropOld
    BY <1>0, <1>8, SizesAssumption DEF DropOld, drop_old_data, Buf
<1> QED
    BY <1>1, <1>2, <1>3, <1>4, <1>5, <1>6, <1>7, <1>8
    DEF Next, serv_process_msg, serv_pass, vars

\* What the child wrote was read or is still in the pty, and the end of ptm
\* means that it was read, unless ptm was closed early.
Stream ==
    /\ started \in BOOLEAN /\ forced \in BOOLEAN
    /\ produced = g.ntotal + pend
    /\ ~ptm /\ ~forced => pend = 0

\* The child and its pty: types, and where its output is.
LEMMA StreamNext ==
    ASSUME Inv, PtyTypeOK, Stream, [SessNext]_sessVars
    PROVE  PtyTypeOK' /\ Stream'
<1> USE PtyAssumption DEF PtyTypeOK, Stream
<1>0. g.ntotal \in Nat /\ g.newcnt \in Nat /\ ptm \in BOOLEAN
    BY DEF Inv, TypeOK, Buf
<1>1. ASSUME UNCHANGED <<produced, pend, pts, sigpend>>, child' \in {child, "reaped"},
             started' \in {started, TRUE}, g'.ntotal = g.ntotal,
             (ptm' = ptm /\ forced' = forced) \/ forced' = TRUE
      PROVE  PtyTypeOK' /\ Stream'
    <2>1. PtyTypeOK'
        BY <1>1
    <2>2. started' \in BOOLEAN
        BY <1>1
    <2>3. forced' \in BOOLEAN
        BY <1>1
    <2>4. produced' = g'.ntotal + pend'
        BY <1>1
    <2>5. ~ptm' /\ ~forced' => pend' = 0
        BY <1>1
    <2> QED
        BY <2>1, <2>2, <2>3, <2>4, <2>5
<1>2. ASSUME ~ReadData, ServStep \/ serv_sigCHLD PROVE g'.ntotal = g.ntotal
    <2>1. [Next]_vars
        BY <1>2, SessStep
    <2> QED
        BY <1>2, <2>1, OutputStep
<1>3. CASE UNCHANGED <<vars, ptyVars, forced>> /\ started' \in {started, TRUE}
    BY <1>1, <1>3 DEF vars, ptyVars
<1>4. CASE serv_sigCHLD
    <2>1. UNCHANGED <<g, ptm>>
        BY <1>4 DEF serv_sigCHLD, SelectReturns, vars
    <2> QED
        BY <1>0, <1>4, <2>1 DEF serv_sigCHLD
<1>5. CASE ChildStep
    <2>1. UNCHANGED <<g, ptm, forced, started>>
        BY <1>5 DEF ChildStep, servVars, vars, procVars
    <2>2. CASE ptm /\ ChildWrite
        BY <1>0, <2>1, <2>2 DEF ChildWrite
    <2>3. CASE \E h \in pts : ClosePts(h)
        BY <1>0, <2>1, <2>3 DEF ClosePts
    <2>4. CASE ChildExit(started) \/ ChildStopOrCont(started)
        BY <1>0, <2>1, <2>4 DEF ChildExit, ChildStopOrCont
    <2> QED
        BY <1>5, <2>2, <2>3, <2>4 DEF ChildStep
<1>6. CASE ServTop
    <2>1. ~ReadData
        BY <1>6 DEF ServTop, LoopTop, ExitLoop, ReadData
    <2>2. (ptm' = ptm /\ forced' = forced) \/ forced' = TRUE
        BY <1>0, <1>6 DEF ServTop
    <2> QED
        BY <1>1, <1>2, <1>6, <2>1, <2>2 DEF ServTop, ptyVars, ServStep
<1>7. CASE ServSelect \/ ServAccept \/ ServMark \/ ServDrop
    <2>1. ~ReadData
        BY <1>7 DEF ServSelect, SelectReturns, ServAccept, serv_accept, NoAccept, ServMark,
                    NonblockMark, ServDrop, DropOld, ReadData
    <2>2. UNCHANGED <<ptm, forced, started, ptyVars>>
        BY <1>7 DEF ServSelect, SelectReturns, ServAccept, serv_accept, NoAccept, ServMark,
                    NonblockMark, ServDrop, DropOld, procVars
    <2> QED
        BY <1>1, <1>2, <1>7, <2>1, <2>2 DEF ptyVars, ServStep
<1>8. CASE ServReadPtm
    <2>1. CASE ReadData /\ g'.ntotal - g.ntotal <= pend /\ pend' = pend - (g'.ntotal - g.ntotal)
        <3>1. PICK n \in 1 .. Room(g) : g' = AppendNew(g, n)
            BY <2>1 DEF ReadData
        <3>2. g'.ntotal = g.ntotal + n
            BY <3>1 DEF AppendNew, Inv, TypeOK, Buf
        <3>3. n \in Nat
            BY DEF Room, Inv, TypeOK, Buf
        <3>4. UNCHANGED <<ptm, forced, started, child, pts, produced, sigpend>> /\ ptm
            BY <1>8, <2>1 DEF ServReadPtm, ReadData, procVars
        <3> QED
            BY <1>0, <2>1, <3>2, <3>3, <3>4
    <2>2. CASE pend = 0 /\ ReadEof /\ UNCHANGED pend
        BY <1>0, <1>8, <2>2 DEF ServReadPtm, ReadEof, procVars
    <2>3. CASE ReadNothing /\ UNCHANGED pend
        BY <1>1, <1>8, <2>3 DEF ServReadPtm, ReadNothing, procVars
    <2> QED
        BY <1>8, <2>1, <2>2, <2>3 DEF ServReadPtm
<1>9. CASE ServMsg
    <2>1. ~ReadData
        BY <1>9, MsgStep DEF ReadData, serv_process_msg, MsgOther, MsgCloses, MsgClose, MsgSet,
                             MsgInfo, MsgPass, Request
    <2>2. (ptm' = ptm /\ forced' = forced) \/ forced' = TRUE
        BY <1>9 DEF ServMsg, RecvFails, RecvHello, RecvDisconn, RecvInput, RecvRequest, RecvPass,
                    InfoAborts, MsgOther, MsgCloses, MsgClose, MsgSet, MsgInfo, MsgPass
    <2> QED
        BY <1>1, <1>2, <1>9, <2>1, <2>2 DEF ServMsg, ptyVars, ServStep
<1>10. CASE ServPass
    <2>1. ~ReadData
        BY <1>10, PassStep DEF ReadData, serv_pass, NotPassing, PassSendFails, PassAborts,
                               PassMatched, PassAtEof, PassGoesOn, Passing
    <2>2. ptm' = ptm
        BY <1>10, PassStep DEF serv_pass, NotPassing, PassSendFails, PassAborts, PassMatched,
                               PassAtEof, PassGoesOn
    <2>3. child' \in {child, "reaped"}
        BY <1>10 DEF ServPass, Matched, AtEof
    <2> QED
        BY <1>1, <1>2, <1>10, <2>1, <2>2, <2>3 DEF ServPass, ServStep
<1>11. ASSUME NEW c \in Clients, CliActs(c) PROVE PtyTypeOK' /\ Stream'
    BY <1>3, <1>11, ClientsOnly DEF procVars
<1>12. CASE InstallHandler \/ Tick \/ UNCHANGED sessVars
    BY <1>3, <1>12 DEF InstallHandler, Tick, sessVars, servVars, procVars
<1> QED
    BY <1>4, <1>5, <1>6, <1>7, <1>8, <1>9, <1>10, <1>11, <1>12
    DEF SessNext, Program, Environment, ServStep, CliActs

-----------------------------------------------------------------------------
(* The clock *)

\* Every way a connection can end sets lastactive.
LEMMA ClockNext ==
    ASSUME TypeOK, age \in Ages, IdleClock, [SessNext]_sessVars
    PROVE  age' \in Ages /\ IdleClock'
<1> USE DEF Ages, IdleClock
<1>1. ASSUME UNCHANGED age, sock' = sock \/ sock' = TRUE PROVE age' \in Ages /\ IdleClock'
    BY <1>1 DEF TypeOK
<1>2. ASSUME age' = Active PROVE age' \in Ages /\ IdleClock'
    BY <1>2 DEF Active
<1>3. CASE Tick
    <2> DEFINE Older(f) == IF age[f] < AgeCap[f] THEN age[f] + 1 ELSE age[f]
    <2>1. age' = [spawn |-> Older("spawn"), active |-> Older("active"),
                  exit |-> IF SIGCHLDed THEN Older("exit") ELSE 0,
                  pass |-> IF sock THEN Older("pass") ELSE 0,
                  free |-> IF sock THEN 0 ELSE Older("free")]
        BY <1>3 DEF Tick
    <2>2. /\ Older("spawn") \in Nat /\ Older("active") \in Nat /\ Older("exit") \in Nat
          /\ Older("pass") \in Nat /\ Older("free") \in Nat
        BY ServerAssumption
    <2>3. age.active <= age.free => Older("active") <= Older("free")
        BY ServerAssumption
    <2>4. sock' = sock
        BY <1>3 DEF Tick, vars
    <2> QED
        BY <2>1, <2>2, <2>3, <2>4
<1>4. CASE serv_sigCHLD
    <2>1. sock' = sock /\ age' = [age EXCEPT !.exit = 0]
        BY <1>4 DEF serv_sigCHLD, SelectReturns, vars
    <2> QED
        BY <2>1
<1>5. CASE ServAccept
    <2>1. CASE serv_accept /\ age' = [age EXCEPT !.pass = 0, !.free = 0]
        BY <2>1 DEF serv_accept
    <2>2. CASE NoAccept /\ UNCHANGED age
        BY <1>1, <2>2 DEF NoAccept
    <2> QED
        BY <1>5, <2>1, <2>2 DEF ServAccept
<1>6. CASE ServMsg
    BY <1>1, <1>2, <1>6 DEF ServMsg, MsgOther
<1>7. CASE ServPass
    <2>1. ASSUME NEW ms, Answer(ms) PROVE age' \in Ages /\ IdleClock'
        <3>1. age' = Active \/ (UNCHANGED age /\ sock' = TRUE)
            BY <2>1 DEF Answer, serv_msg_send
        <3> QED
            BY <1>1, <1>2, <3>1
    <2>2. CASE Matched \/ AtEof
        BY <2>1, <2>2 DEF Matched, AtEof
    <2>3. CASE (NotPassing \/ PassAborts) /\ UNCHANGED age
        BY <1>1, <2>3 DEF NotPassing, PassAborts
    <2> QED
        BY <1>2, <1>7, <2>1, <2>2, <2>3 DEF ServPass
<1>8. ASSUME NEW c \in Clients, CliActs(c) PROVE age' \in Ages /\ IdleClock'
    BY <1>1, <1>8, ClientsOnly DEF vars
<1>9. CASE InstallHandler \/ ChildStep \/ UNCHANGED sessVars
    BY <1>1, <1>9 DEF InstallHandler, ChildStep, sessVars, servVars, vars
<1>10. CASE ServTop \/ ServSelect \/ ServReadPtm \/ ServMark \/ ServDrop
    BY <1>1, <1>10 DEF ServTop, LoopTop, ExitLoop, ServSelect, SelectReturns, ServReadPtm,
        ReadData, ReadEof, ReadNothing, ServMark, NonblockMark, ServDrop, DropOld
<1> QED
    BY <1>3, <1>4, <1>5, <1>6, <1>7, <1>8, <1>9, <1>10
    DEF SessNext, Program, Environment, ServStep, CliActs

\* The invariant of the server's own state.
SessTypes ==
    /\ WireTypes /\ Watched /\ Connected
    /\ PtyTypeOK /\ Stream
    /\ age \in Ages /\ IdleClock

\* A new server has no client and its child has written nothing.
LEMMA SessTypesInit == SessInit => SessTypes
<1> SUFFICES ASSUME SessInit PROVE SessTypes
    OBVIOUS
<1>1. WireTypes
    <2>1. <<>> \in Seq(Messages) /\ <<>> \in Seq(Clients)
        OBVIOUS
    <2> QED
        BY <2>1 DEF SessInit, ServInit, WireTypes
<1>2. Watched /\ Connected
    BY DEF SessInit, ServInit, Watched, Connected, Init
<1>3. PtyTypeOK
    <2>1. produced \in 0 .. MaxOut /\ pend \in 0 .. PtyCap
        BY PtyAssumption DEF SessInit, ServInit, PtyInit
    <2>2. pts \subseteq {"child", "grand"} /\ child = "running" /\ sigpend = FALSE
        BY DEF SessInit, ServInit, PtyInit
    <2> QED
        BY <2>1, <2>2 DEF PtyTypeOK
<1>5. Stream
    <2>1. produced = 0 /\ pend = 0 /\ g.ntotal = 0
        BY DEF SessInit, ServInit, PtyInit, Init, serv_init
    <2>2. started \in BOOLEAN /\ forced \in BOOLEAN
        BY DEF SessInit, ServInit
    <2> QED
        BY <2>1, <2>2 DEF Stream
<1>4. age \in Ages /\ IdleClock
    BY DEF SessInit, ServInit, Ages, IdleClock
<1> QED
    BY <1>1, <1>2, <1>3, <1>4, <1>5 DEF SessTypes

\* Every step of the server, the clients, the child and the clock keeps the
\* types and the counts.
LEMMA SessTypesNext == Inv /\ SessTypes /\ [SessNext]_sessVars => SessTypes'
    BY WireTypesNext, WatchedNext, ConnectedNext, StreamNext, ClockNext DEF SessTypes, Inv

\* What ServBufProofs knows of the buffers holds in every session.
LEMMA SessBufInv == SessSpec => []Inv
    BY SessionImplementsBuffers, Invariance, PTL

\* The types and the counts hold in every state of every session.
LEMMA SessTypesInv == SessSpec => []SessTypes
    BY SessTypesInit, SessTypesNext, SessBufInv, PTL DEF SessSpec

\* Type correctness of the whole system: in particular the server's socket is
\* open exactly when it has a client, and what select() reported is still true
\* when the server acts on it.
THEOREM SessTypeCorrect == SessSpec => []SessTypeOK
<1>1. Inv /\ SessTypes => SessTypeOK
    BY DEF Inv, SessTypes, SessTypeOK, WireTypes, Watched, Connected
<1> QED
    BY <1>1, SessBufInv, SessTypesInv, PTL

\* -idle and -zombie-idle: between two clients lastactive is never older than
\* the end of the last connection, however it ended.
THEOREM IdleClockCorrect == SessSpec => []IdleClock
<1>1. SessTypes => IdleClock
    BY DEF SessTypes
<1> QED
    BY <1>1, SessTypesInv, PTL

=============================================================================
