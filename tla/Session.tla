------------------------------- MODULE Session -------------------------------
(***************************************************************************)
(* The clients (src/client.c) and their sessions with the server.  A       *)
(* client process runs one sub-command: it connects, exchanges HELLO,      *)
(* sends its request, waits for the answer in cli_loop(), exchanges        *)
(* DISCONN and exits.  It may be killed at any time.                       *)
(***************************************************************************)
EXTENDS Server, FiniteSets

CONSTANTS
    Commands,   \* the sub-commands clients run
    MayDetach,  \* TRUE: CTRL-] is pressed in interact
    MayDie      \* TRUE: clients may be killed

\* "mismatch" is a client of another version, "too_old" one that sends none.
ASSUME CommandsAssumption ==
    Commands \subseteq {"expect", "eof", "nopattern", "interact", "interact_re", "wait",
                       "send", "kill", "close", "set", "get", "expect_out",
                       "mismatch", "too_old"}

VARIABLES
    cst,        \* where each client is
    cmd,        \* its sub-command
    bugs        \* [BUG!?] messages printed by cli_hello, cli_disconn, cli_loop

cliVars == <<cst, cmd, bugs>>
sessVars == <<servVars, ptyVars, cliVars>>

Passes == {"expect", "eof", "nopattern", "interact", "interact_re", "wait"}
Interacts == {"interact", "interact_re"}

\* Nothing but the client's socket changes with it.
OnlyClient == UNCHANGED <<vars, procVars, who, rdy, tmo, age, forced, ptyVars>>

Running(c) == cst[c] # "off"

\* exit() or fatal(): the socket is closed and unread messages go with it.
CliEnds(c) ==
    /\ cst' = [cst EXCEPT ![c] = "off"]
    /\ cmd' = [cmd EXCEPT ![c] = "none"]
    /\ copen' = [copen EXCEPT ![c] = FALSE]
    /\ down' = [down EXCEPT ![c] = <<>>]

\* msg_send() fails when the server has closed the socket: fatal().
cli_msg_send(c, ms, next) ==
    IF ServHas(c)
    THEN /\ up' = [up EXCEPT ![c] = @ \o ms]
         /\ cst' = [cst EXCEPT ![c] = next]
         /\ down' = [down EXCEPT ![c] = Tail(@)]
         /\ UNCHANGED <<copen, cmd>>
    ELSE CliEnds(c) /\ UNCHANGED up

\* msg_hello() with the client's version, if it has one.
Hello(k) ==
    CASE k = "mismatch" -> <<"BADHELLO">> [] k = "too_old" -> <<"OLDHELLO">>
      [] OTHER -> <<"HELLO">>

\* Someone runs a sub-command: cli_main() up to sending HELLO.  connect()
\* waits while the backlog is full and fails when nobody listens.
CliConnect(c) ==
    /\ ~Running(c) /\ ~ServHas(c) /\ ~ServDown
    /\ Len(backlog) < MaxBacklog
    /\ \E k \in Commands :
          /\ cmd' = [cmd EXCEPT ![c] = k]
          /\ up' = [up EXCEPT ![c] = Hello(k)]
    /\ cst' = [cst EXCEPT ![c] = "hello"]
    /\ copen' = [copen EXCEPT ![c] = TRUE]
    /\ backlog' = Append(backlog, c)
    /\ OnlyClient /\ UNCHANGED <<down, bugs>>

\* interact tells the server the size of its terminal.
cli_send_winsize(c) == IF cmd[c] \in Interacts THEN <<"WINCH">> ELSE <<>>

\* cli_hello() gets the server's HELLO and cli_main() sends the request.
cli_hello(c) ==
    /\ cst[c] = "hello" /\ down[c] # <<>>
    /\ IF Head(down[c]) = "HELLO"
       THEN cli_msg_send(c, <<cmd[c]>> \o cli_send_winsize(c), "loop") /\ UNCHANGED bugs
       ELSE IF Head(down[c]) = "ERR_PROTO"
       THEN CliEnds(c) /\ UNCHANGED <<up, bugs>>
       ELSE /\ down' = [down EXCEPT ![c] = Tail(@)]
            /\ bugs' = bugs \cup {Head(down[c])}
            /\ UNCHANGED <<up, cst, cmd, copen>>
    /\ OnlyClient /\ UNCHANGED backlog

\* cli_loop() receives OUTPUT, or an answer that ends the session.
cli_loop(c) ==
    /\ cst[c] = "loop" /\ down[c] # <<>>
    /\ CASE Head(down[c]) = "OUTPUT" ->
              /\ down' = [down EXCEPT ![c] = Tail(@)]
              /\ UNCHANGED <<up, cst, cmd, copen, bugs>>
         [] Head(down[c]) \in {"HELLO", "DISCONN"} ->
              CliEnds(c) /\ bugs' = bugs \cup {Head(down[c])} /\ UNCHANGED up
         [] OTHER ->
              cli_msg_send(c, <<"DISCONN">>, "disconn") /\ UNCHANGED bugs
    /\ OnlyClient /\ UNCHANGED backlog

\* A key is pressed in interact.  One at a time is enough to be in flight.
CliInput(c) ==
    /\ cst[c] = "loop" /\ cmd[c] \in Interacts /\ up[c] = <<>>
    /\ IF ServHas(c)
       THEN up' = [up EXCEPT ![c] = <<"INPUT">>] /\ UNCHANGED <<cst, cmd, copen, down>>
       ELSE CliEnds(c) /\ UNCHANGED up
    /\ OnlyClient /\ UNCHANGED <<backlog, bugs>>

\* CTRL-]: cli_disconn(ERROR_DETACH) while the server is still passing.
CliDetach(c) ==
    /\ MayDetach /\ cst[c] = "loop" /\ cmd[c] \in Interacts
    /\ IF ServHas(c)
       THEN /\ up' = [up EXCEPT ![c] = Append(@, "DISCONN")]
            /\ cst' = [cst EXCEPT ![c] = "disconn"]
            /\ UNCHANGED <<cmd, copen, down>>
       ELSE CliEnds(c) /\ UNCHANGED up
    /\ OnlyClient /\ UNCHANGED <<backlog, bugs>>

\* cli_disconn() waits for the server's DISCONN.
cli_disconn(c) ==
    /\ cst[c] = "disconn" /\ down[c] # <<>>
    /\ IF Head(down[c]) = "DISCONN"
       THEN CliEnds(c) /\ UNCHANGED bugs
       ELSE /\ down' = [down EXCEPT ![c] = Tail(@)]
            /\ bugs' = IF Head(down[c]) = "OUTPUT" /\ cmd[c] \in Passes THEN bugs
                       ELSE bugs \cup {Head(down[c])}
            /\ UNCHANGED <<cst, cmd, copen>>
    /\ OnlyClient /\ UNCHANGED <<backlog, up>>

\* Fault: cli_hello() does not notice that the socket is closed.
CliEof_NotHello(c) ==
    /\ cst[c] \in {"loop", "disconn"} /\ down[c] = <<>> /\ ~ServHas(c)
    /\ CliEnds(c)
    /\ OnlyClient /\ UNCHANGED <<backlog, up, bugs>>

\* cli_msg_recv() finds the socket closed: fatal("server dead?").
CliEof(c) ==
    /\ Running(c) /\ down[c] = <<>> /\ ~ServHas(c)
    /\ CliEnds(c)
    /\ OnlyClient /\ UNCHANGED <<backlog, up, bugs>>

CliDie(c) ==
    /\ MayDie /\ Running(c)
    /\ CliEnds(c)
    /\ OnlyClient /\ UNCHANGED <<backlog, up, bugs>>

CliStep(c) ==
    cli_hello(c) \/ cli_loop(c) \/ cli_disconn(c) \/ CliEof(c)

-----------------------------------------------------------------------------
SessInit ==
    /\ ServInit
    /\ cst = [c \in Clients |-> "off"]
    /\ cmd = [c \in Clients |-> "none"]
    /\ bugs = {}

\* What the program does by itself, and what is done to it.
Program ==
    \/ (InstallHandler \/ serv_sigCHLD \/ ServStep) /\ UNCHANGED cliVars
    \/ \E c \in Clients : CliStep(c)

Environment ==
    \/ (ChildStep \/ Tick) /\ UNCHANGED cliVars
    \/ \E c \in Clients : CliConnect(c) \/ CliInput(c) \/ CliDetach(c) \/ CliDie(c)

SessNext == Program \/ Environment

SessSpec == SessInit /\ [][SessNext]_sessVars

\* The processes run: the loop's select() times out, pending signals are
\* delivered, clients read their sockets, time passes.  Nobody has to start a
\* client, press a key, kill a client or let the child write or exit.
SessFair ==
    /\ WF_sessVars(InstallHandler /\ UNCHANGED cliVars)
    /\ WF_sessVars(serv_sigCHLD /\ UNCHANGED cliVars)
    /\ WF_sessVars(ServStep /\ UNCHANGED cliVars)
    /\ WF_sessVars(Tick /\ UNCHANGED cliVars)
    /\ \A c \in Clients : WF_sessVars(CliStep(c))

SessFairSpec == SessSpec /\ SessFair

-----------------------------------------------------------------------------
(* Properties *)

\* Types, and that the server's view of its connection is consistent.
SessTypeOK ==
    /\ TypeOK /\ PtyTypeOK
    /\ who \in Clients \cup {NoClient} /\ (sock <=> who # NoClient)
    /\ rdy \subseteq {"listen", "ptm", "sock"}
    /\ cst \in [Clients -> {"off", "hello", "loop", "disconn"}]

\* What the server may answer to each request.
Answers(k) ==
    {"HELLO", "DISCONN"} \cup
    CASE k \in {"send", "close", "set"} -> {"ACK"}
      [] k = "kill"        -> {"ACK", "ERR_SYS"}
      [] k = "get"         -> {"INFO"}
      [] k = "expect_out"  -> {"EXPOUT_TEXT", "ERR_USAGE"}
      [] k = "expect"      -> {"OUTPUT", "MATCHED", "ERR_EOF", "ERR_TIMEOUT"}
      [] k = "eof"         -> {"OUTPUT", "EOF", "ERR_TIMEOUT"}
      [] k = "nopattern"   -> {"OUTPUT", "ERR_EOF", "ERR_TIMEOUT"}
      [] k = "interact_re" -> {"OUTPUT", "MATCHED", "EXITED"}
      [] k \in {"interact", "wait"} -> {"OUTPUT", "EXITED"}
      [] OTHER             -> {"ERR_PROTO"}

\* A client only gets answers to its own request, even after the client before
\* it was killed in the middle of expect, interact or wait: serv_cleanup_conn()
\* leaves nothing of the old request behind.
AnswersFit ==
    \A c \in Clients : \A i \in DOMAIN down[c] : down[c][i] \in Answers(cmd[c])

\* An answer that ends a request, as opposed to OUTPUT and the handshakes.
Ends(m) == m \notin {"HELLO", "DISCONN", "OUTPUT"}

\* What a client was told: the answers on their way to it, and the one it has
\* taken from its socket before it sent DISCONN.
Told(c) ==
    Cardinality({i \in DOMAIN down[c] : Ends(down[c][i])}) + (IF cst[c] = "disconn" THEN 1 ELSE 0)

\* The sessions implement the service: channels, phases of the loop, buffers
\* and signals are hidden, the server is gone when the loop has ended.
ToService ==
    INSTANCE Service WITH
        Requests <- Commands,
        Waiters <- {"interact", "interact_re", "wait"},
        request <- cmd,
        replies <- [c \in Clients |-> Told(c)],
        serving <- who,
        collected <- waited,
        stopped <- ServDown

\* However clients, child, signals and kills interleave, the server serves one
\* client at a time, gives each request at most one final answer and gives it
\* to the client that asked, hands out the exit status once, and stops only
\* between clients.  (CTRL-] is not part of the service: see NoClientBug.)
ImplementsService == ToService!ServiceSpec

\* No client prints [BUG!?]: "not supposed to receive tag", "unexpected tag".
NoClientBug == bugs = {}

\* EOF and the exit status come after all of the output: what the child wrote
\* before it closed the pty has been read and sent to a client by then, unless
\* ptm was closed early by `sexpect close' or -cloexit.
EndMeansDrained ==
    \A c \in Clients :
       (\E i \in DOMAIN down[c] : down[c][i] \in {"EOF", "ERR_EOF", "EXITED"}) /\ ~forced
          => g.ntotal = produced /\ g.newcnt = 0

\* Once the child is reaped no new request is served, so kill() never gets a
\* pid that is not the child's any more, and there is no second exit status.
PidStillOurs ==
    waited /\ sock =>
       /\ pass = "none"
       /\ \A i \in DOMAIN up[who] : up[who][i] \in {"INPUT", "WINCH", "DISCONN"}

\* Between clients lastactive is never older than the end of the last
\* connection, however it ended: -idle and -zombie-idle count from there.
IdleClock == ~sock => age.active <= age.free

\* "The wait sub-command waits for the spawned process to complete and return
\* the spawned process' exit code."
WaitReturns ==
    \A c \in Clients :
       (cst[c] = "loop" /\ cmd[c] = "wait" /\ child \in {"zombie", "reaped"} /\ pts = {})
          ~> cst[c] # "loop"

\* Every request but interact and wait is answered, provided that expect has
\* a timeout, whatever the child and the other clients do.
RequestReturns ==
    \A c \in Clients :
       (cst[c] = "loop" /\ cmd[c] \notin {"interact", "interact_re", "wait"})
          ~> cst[c] # "loop"

\* When the server is gone, every client notices.
NobodyHangs == ServDown ~> \A c \in Clients : ~Running(c)

\* The server goes away after the exit status was collected.
ReapEndsServer == waited ~> ServDown

\* "When autowait is turned on, after the spawned process exits it'll be
\* automatically waited and then the server will exit."
AutowaitExits ==
    (child = "zombie" /\ pts = {} /\ \A o \in OptSet : o.autowait) ~> ServDown

\* -cloexit: "Close the pty after the spawned process has exited even if the
\* spawned process's child processes are still opening the pty."
CloexitCloses == (Cloexit /\ child = "zombie") ~> (~ptm \/ ServDown)

\* The rest of the output fits in rawbuf, so serv_loop() goes on selecting ptm
\* and reaches its end: a full rawbuf is only emptied by a client or -nonblock.
EndInReach == ~ptm \/ nonblock \/ g.oldcnt + g.newcnt + pend < RawBufSize

\* A server that was given a limit does not sit there for ever without
\* clients: -ttl, -idle, and -zombie-idle once the child is gone and the end of
\* the pty can be read (ExitsByItself is what the manual says).
Limited ==
    \/ opts.ttl > 0 \/ opts.idle > 0
    \/ ZombieIdle >= 0 /\ child = "zombie" /\ pts = {} /\ EndInReach
NoOrphanServer == Limited ~> (ServDown \/ sock)

\* "When autowait is turned on, after the spawned process exits it'll be
\* automatically waited and then the server will exit", and -zombie-idle: "When
\* the spawned process closes the pty and exits, if there are no client requests
\* in the last N seconds the server will automatically wait the spawned process
\* and then exit."
ExitsByItself ==
    (child = "zombie" /\ pts = {} /\ (ZombieIdle >= 0 \/ \A o \in OptSet : o.autowait))
       ~> (ServDown \/ sock)

\* -cloexit closes the pty "after the spawned process has exited": as long as
\* the process is there, nothing but its own end of the pty or `sexpect close'
\* closes ptm.  It fails: stopping the process raises SIGCHLD as well.
CloexitAfterExit == forced => child \in {"zombie", "reaped"}

=============================================================================
