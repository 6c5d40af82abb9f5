------------------------------- MODULE Server -------------------------------
(***************************************************************************)
(* The background server (src/server.c): serv_loop() with its signal       *)
(* handler, its timers and the one client it serves at a time.             *)
(*                                                                         *)
(* Every step of the loop is a step of ServBuf that the child, the pty,    *)
(* the clock and the clients' messages allow here.  Messages are their     *)
(* tags; a request is the name of the sub-command that sent it.            *)
(***************************************************************************)
EXTENDS ServBuf, Pty, Integers, Sequences

CONSTANTS
    Clients, NoClient,
    MaxBacklog,     \* clients that connect() lets in before accept()
    Cloexit,        \* spawn -cloexit
    ZombieIdle,     \* spawn -zombie-idle; -1: off
    OptSet,         \* what spawn and set may choose: [autowait, ttl, idle, timeout]
    ClientTimeouts, \* what expect -timeout may choose
    EarlyExit,      \* TRUE: the child may exit before SIGCHLD is handled
    AgeCap          \* bound: beyond this each age is not told apart

Ages == [spawn : Nat, active : Nat, exit : Nat, pass : Nat, free : Nat]

\* "No client" is no client, and the time without one is counted at least as
\* far as lastactive.
ASSUME ServerAssumption ==
    /\ NoClient \notin Clients
    /\ AgeCap \in Ages /\ AgeCap.active <= AgeCap.free

VARIABLES
    started,    \* serv_main() has installed the SIGCHLD handler
    SIGCHLDed, waited,
    ncloexit,   \* the static counter n of -cloexit
    opts,       \* cmdopts->spawn
    who,        \* the client g.conn.sock is connected to
    backlog,    \* connected, not yet accepted
    rdy,        \* readfds as select() left it
    tmo,        \* g.conn.pass.timeout
    age,        \* seconds since startime, lastactive, exittime, pass.startime
    up, down,   \* messages to the server, to the client
    copen,      \* the client's end of the socket is open
    forced      \* ptm was closed before its end: `close', -cloexit

connVars == <<who, backlog, rdy, tmo>>
wireVars == <<up, down, copen>>
procVars == <<started, SIGCHLDed, waited, ncloexit, opts>>
servVars == <<vars, procVars, connVars, wireVars, age, forced>>

ServDown == ph \in {"exited", "aborted"}

\* The server holds the other end of c's socket.
ServHas(c) == ~ServDown /\ (who = c \/ \E i \in DOMAIN backlog : backlog[i] = c)

ServInit ==
    /\ Init /\ PtyInit
    /\ started = FALSE /\ SIGCHLDed = FALSE /\ waited = FALSE
    /\ ncloexit = 0 /\ opts \in OptSet
    /\ who = NoClient /\ backlog = <<>> /\ rdy = {} /\ tmo = 0
    /\ age = [spawn |-> 0, active |-> 0, exit |-> 0, pass |-> 0, free |-> 0]
    /\ up = [c \in Clients |-> <<>>] /\ down = [c \in Clients |-> <<>>]
    /\ copen = [c \in Clients |-> FALSE]
    /\ forced = FALSE

-----------------------------------------------------------------------------
(* The child, the clock and the signal *)

\* Clients and the loop leave these alone.
ChildStep ==
    /\ \/ ptm /\ ~ServDown /\ ChildWrite
       \/ \E h \in pts : ClosePts(h)
       \/ (started \/ EarlyExit) /\ ChildExit(started)
       \/ (started \/ EarlyExit) /\ ChildStopOrCont(started)
    /\ UNCHANGED servVars

\* Clock_diff() only matters up to the limits in use.  `free' is the time
\* since a client was last connected; the server does not keep it.
Tick ==
    /\ ~ServDown
    /\ LET Older(f) == IF age[f] < AgeCap[f] THEN age[f] + 1 ELSE age[f]
       IN  /\ age' = [spawn |-> Older("spawn"), active |-> Older("active"),
                      exit |-> IF SIGCHLDed THEN Older("exit") ELSE 0,
                      pass |-> IF sock THEN Older("pass") ELSE 0,
                      free |-> IF sock THEN 0 ELSE Older("free")]
           /\ age' # age
    /\ UNCHANGED <<vars, procVars, connVars, wireVars, forced, ptyVars>>

InstallHandler ==
    /\ ~started
    /\ started' = TRUE
    /\ UNCHANGED <<vars, SIGCHLDed, waited, ncloexit, opts, connVars, wireVars,
                   age, forced, ptyVars>>

\* Fault: ptm is closed as soon as the child is gone.
serv_sigCHLD_Closes ==
    /\ sigpend /\ ~ServDown
    /\ SIGCHLDed' = TRUE /\ sigpend' = FALSE /\ ptm' = FALSE
    /\ UNCHANGED <<g, ph, sock, pass, lookback, nonblock, age, started, waited, ncloexit,
                   opts, connVars, wireVars, forced, child, pts, produced, pend>>

\* The handler runs between any two steps; it may interrupt select().
serv_sigCHLD ==
    /\ sigpend /\ ~ServDown
    /\ SIGCHLDed' = TRUE /\ sigpend' = FALSE
    /\ age' = [age EXCEPT !.exit = 0]
    /\ \/ ph = "select" /\ SelectReturns /\ ph' = "top"
       \/ UNCHANGED vars
    /\ UNCHANGED <<started, waited, ncloexit, opts, connVars, wireVars, forced,
                   child, pts, produced, pend>>

-----------------------------------------------------------------------------
(* serv_loop(): the top of the loop *)

ChildGone == SIGCHLDed /\ ~ptm'

\* Fault: -idle is not checked.
MustExit_NoIdle ==
    \/ opts.autowait /\ ChildGone
    \/ /\ ZombieIdle >= 0 /\ ChildGone
       /\ age.active > ZombieIdle /\ age.exit > ZombieIdle
    \/ opts.ttl > 0 /\ age.spawn > opts.ttl

\* Fault: -autowait only looks at the timers.
MustExit_NoAutowait == MustExit_NoIdle /\ ~opts.autowait

\* The breaks at the top of the loop; all of them want no client.
MustExit ==
    \/ opts.autowait /\ ChildGone
    \/ /\ ZombieIdle >= 0 /\ ChildGone
       /\ age.active > ZombieIdle /\ age.exit > ZombieIdle
    \/ opts.ttl > 0 /\ age.spawn > opts.ttl
    \/ opts.idle > 0 /\ age.active > opts.idle

\* Fault: ptm is closed only while a client is connected.
CloexitTurn_Connected == Cloexit /\ SIGCHLDed /\ ptm /\ sock

\* -cloexit: close ptm in the second turn after SIGCHLD.
CloexitTurn == Cloexit /\ SIGCHLDed /\ ptm

\* Fault: the loop goes on after waitpid().
ServTop_Stays ==
    /\ started
    /\ LoopTop \/ ExitLoop
    /\ ncloexit' = IF CloexitTurn THEN ncloexit + 1 ELSE ncloexit
    /\ ptm' = (ptm /\ ~(CloexitTurn /\ ncloexit' > 1))
    /\ (ph' = "exited") <=> (~sock /\ MustExit)
    /\ forced' = (forced \/ ptm' # ptm)
    /\ UNCHANGED <<started, SIGCHLDed, waited, opts, connVars, wireVars, age, ptyVars>>

ServTop ==
    /\ started
    /\ \/ waited /\ ~sock /\ ExitLoop /\ ptm' = ptm /\ UNCHANGED ncloexit
       \/ /\ ~waited \/ sock
          /\ LoopTop \/ ExitLoop
          /\ ncloexit' = IF CloexitTurn THEN ncloexit + 1 ELSE ncloexit
          /\ ptm' = (ptm /\ ~(CloexitTurn /\ ncloexit' > 1))
          /\ (ph' = "exited") <=> (~sock /\ MustExit)
    /\ forced' = (forced \/ ptm' # ptm)
    /\ UNCHANGED <<started, SIGCHLDed, waited, opts, connVars, wireVars, age, ptyVars>>

\* Fault: ptm is not watched while a client is connected.
Ready_OneAtATime ==
    {f \in {"listen", "ptm", "sock"} :
       \/ f = "listen" /\ ~sock /\ backlog # <<>>
       \/ f = "ptm" /\ ptm /\ ~sock /\ (~Full(g) \/ nonblock) /\ Readable
       \/ f = "sock" /\ sock /\ (up[who] # <<>> \/ ~copen[who])}

Ready ==
    {f \in {"listen", "ptm", "sock"} :
       \/ f = "listen" /\ ~sock /\ backlog # <<>>
       \/ f = "ptm" /\ ptm /\ (~Full(g) \/ nonblock) /\ Readable
       \/ f = "sock" /\ sock /\ (up[who] # <<>> \/ ~copen[who])}

\* select() returns what is ready, nothing after 200 ms.
ServSelect ==
    /\ SelectReturns /\ ph' = "accept"
    /\ rdy' = Ready
    /\ UNCHANGED <<procVars, who, backlog, tmo, wireVars, age, forced, ptyVars>>

ServAccept ==
    /\ \/ /\ "listen" \in rdy /\ serv_accept
          /\ who' = Head(backlog) /\ backlog' = Tail(backlog)
          /\ tmo' = 0
          /\ age' = [age EXCEPT !.pass = 0, !.free = 0]
       \/ /\ "listen" \notin rdy /\ NoAccept
          /\ UNCHANGED <<who, backlog, tmo, age>>
    /\ rdy' = rdy \ {"listen"}
    /\ UNCHANGED <<procVars, wireVars, forced, ptyVars>>

ServReadPtm ==
    /\ \/ /\ "ptm" \in rdy /\ ReadData
          /\ g'.ntotal - g.ntotal <= pend
          /\ pend' = pend - (g'.ntotal - g.ntotal)
       \/ "ptm" \in rdy /\ pend = 0 /\ ReadEof /\ UNCHANGED pend
       \/ ("ptm" \in rdy => Full(g)) /\ ReadNothing /\ UNCHANGED pend
    /\ rdy' = rdy \ {"ptm"}
    /\ UNCHANGED <<procVars, who, backlog, tmo, wireVars, age, forced,
                   child, pts, produced, sigpend>>

ServMark ==
    /\ NonblockMark
    /\ UNCHANGED <<procVars, connVars, wireVars, age, forced, ptyVars>>

-----------------------------------------------------------------------------
(* serv_process_msg() *)

\* Fault: lastactive is not updated.
Active_Not == age

Active == [age EXCEPT !.active = 0]

\* Fault: the connection's state is kept.
Hangup_KeepsWho == sock' = FALSE /\ UNCHANGED who

\* g.conn.sock = -1
Hangup == sock' = FALSE /\ who' = NoClient

\* msg_send() to the client; nothing arrives when the client is gone.
msg_send(ms) == down' = [down EXCEPT ![who] = IF copen[who] THEN @ \o ms ELSE @]

\* serv_msg_send() closes the socket when msg_send() fails.
serv_msg_send(ms) ==
    /\ msg_send(ms)
    /\ IF copen[who] THEN sock' = TRUE /\ UNCHANGED who ELSE Hangup

\* The message at the head of the socket was m.
Received(m) ==
    /\ up[who] # <<>> /\ Head(up[who]) = m
    /\ up' = [up EXCEPT ![who] = Tail(@)]

RecvFails ==
    /\ up[who] = <<>>
    /\ MsgCloses /\ Hangup
    /\ UNCHANGED <<tmo, opts, forced, up, down>>

\* HELLO of this version, of another one (BADHELLO), without one (OLDHELLO).
RecvHello ==
    /\ \/ /\ Received("HELLO") /\ serv_msg_send(<<"HELLO">>)
          /\ IF copen[who] THEN MsgOther ELSE MsgCloses
       \/ /\ Received("BADHELLO") /\ MsgCloses /\ Hangup
          /\ msg_send(<<"ERR_PROTO">>)
       \/ Received("OLDHELLO") /\ MsgCloses /\ Hangup /\ UNCHANGED down
    /\ UNCHANGED <<tmo, opts, forced>>

RecvDisconn ==
    /\ Received("DISCONN") /\ MsgCloses /\ Hangup
    /\ msg_send(<<"DISCONN">>)
    /\ UNCHANGED <<tmo, opts, forced>>

RecvInput ==
    /\ Received("INPUT") \/ Received("WINCH")
    /\ MsgOther
    /\ UNCHANGED <<tmo, opts, forced, who, down>>

\* Requests that are answered at once.  expect_out may ask for an index above 9,
\* kill for a signal that does not exist.
RecvRequest ==
    \/ /\ \/ Received("send") /\ serv_msg_send(<<"ACK">>)
          \/ /\ Received("expect_out")
             /\ \E m \in {"EXPOUT_TEXT", "ERR_USAGE"} : serv_msg_send(<<m>>)
          \/ /\ Received("kill")
             /\ \E m \in {"ACK", "ERR_SYS"} :
                   (child = "reaped" => m = "ERR_SYS") /\ serv_msg_send(<<m>>)
          \/ Received("close") /\ ~ptm /\ serv_msg_send(<<"ACK">>)
       /\ IF copen[who] THEN MsgOther ELSE MsgCloses
       /\ UNCHANGED <<tmo, opts, forced>>
    \/ /\ Received("close") /\ MsgClose /\ serv_msg_send(<<"ACK">>)
       /\ forced' = TRUE
       /\ UNCHANGED <<tmo, opts>>
    \/ /\ Received("set") /\ MsgSet /\ serv_msg_send(<<"ACK">>)
       /\ opts' \in OptSet
       /\ UNCHANGED <<tmo, forced>>
    \/ /\ Received("get") /\ MsgInfo /\ ph' = "pass" /\ serv_msg_send(<<"INFO">>)
       /\ UNCHANGED <<tmo, opts, forced>>

\* The assertion in buf_raw2expect() failed: no answer.
InfoAborts ==
    /\ Received("get") /\ MsgInfo /\ ph' = "aborted"
    /\ UNCHANGED <<tmo, opts, forced, who, down>>

\* interact and wait ask for no timeout; expect may rely on the default.  `lb':
\* -lookback finds old lines to show (module Lookback says which); when it finds
\* none, serv_pass() goes on as if it was not given.
RecvPass ==
    /\ \E k \in PassKinds, lb \in BOOLEAN :
          /\ Received(k) /\ MsgPass(k, lb)
          /\ IF expects_EXIT(k) THEN tmo' = -1 ELSE tmo' \in ClientTimeouts \cup {opts.timeout}
    /\ UNCHANGED <<opts, forced, who, down>>

ServMsg ==
    /\ \/ /\ sock /\ "sock" \in rdy
          /\ \/ RecvFails \/ RecvHello \/ RecvDisconn \/ RecvInput \/ RecvRequest
             \/ RecvPass \/ InfoAborts
          /\ age' = Active
       \/ /\ ~sock \/ "sock" \notin rdy
          /\ MsgOther
          /\ UNCHANGED <<who, tmo, opts, forced, up, down, age>>
    /\ rdy' = {}
    /\ UNCHANGED <<started, SIGCHLDed, waited, ncloexit, backlog, copen, ptyVars>>

-----------------------------------------------------------------------------
(* serv_pass() *)

\* Fault: only -timeout 0 times out.
exp_timed_out_Zero == tmo = 0

exp_timed_out == tmo = 0 \/ (tmo > 0 /\ age.pass > tmo)

\* The OUTPUT message that goes out first: new data, or old lines for -lookback.
Output == IF g.newcnt > 0 \/ (lookback /\ g.oldcnt > 0) THEN <<"OUTPUT">> ELSE <<>>

\* OUTPUT could be sent; then the last answer, if there is one.
Answer(ms) ==
    /\ Output # <<>> => copen[who]
    /\ IF ms = <<>>
       THEN /\ down' = [down EXCEPT ![who] = @ \o Output]
            /\ sock' = TRUE /\ UNCHANGED <<who, age>>
       ELSE serv_msg_send(Output \o ms) /\ age' = IF copen[who] THEN age ELSE Active

\* waitpid() is called, and blocks until the child is a zombie.
MustReap == expects_EXIT(pass) /\ SIGCHLDed /\ ~waited

EofAnswer ==
    CASE pass = "eof"        -> <<"EOF">>
      [] expects_EXIT(pass)  -> IF MustReap THEN <<"EXITED">> ELSE <<>>
      [] OTHER               -> <<"ERR_EOF">>

AtEof ==
    /\ PassAtEof(MustReap) /\ Answer(EofAnswer)
    /\ IF MustReap
       THEN child = "zombie" /\ child' = "reaped" /\ waited' = TRUE
       ELSE UNCHANGED <<child, waited>>

\* Fault: no return after MATCHED, the end of file is reported, too.
Matched_FallsThrough ==
    /\ PassMatched /\ Answer(IF ptm THEN <<"MATCHED">> ELSE <<"MATCHED", "ERR_EOF">>)
    /\ UNCHANGED <<child, waited>>

Matched == PassMatched /\ Answer(<<"MATCHED">>) /\ UNCHANGED <<child, waited>>

ServPass ==
    /\ \/ NotPassing /\ UNCHANGED <<child, waited, who, down, age>>
       \/ /\ PassSendFails /\ ~copen[who] /\ Hangup /\ age' = Active
          /\ UNCHANGED <<child, waited, down>>
       \/ /\ PassAborts /\ (Output # <<>> => copen[who])
          /\ down' = [down EXCEPT ![who] = @ \o Output]
          /\ UNCHANGED <<child, waited, who, age>>
       \/ Matched
       \/ AtEof
       \/ /\ PassGoesOn(exp_timed_out)
          /\ Answer(IF exp_timed_out THEN <<"ERR_TIMEOUT">> ELSE <<>>)
          /\ UNCHANGED <<child, waited>>
    /\ UNCHANGED <<started, SIGCHLDed, ncloexit, opts, backlog, rdy, tmo, up, copen,
                   forced, pts, produced, pend, sigpend>>

ServDrop ==
    /\ DropOld
    /\ UNCHANGED <<procVars, connVars, wireVars, age, forced, ptyVars>>

ServStep ==
    \/ ServTop \/ ServSelect \/ ServAccept \/ ServReadPtm \/ ServMark
    \/ ServMsg \/ ServPass \/ ServDrop

=============================================================================
