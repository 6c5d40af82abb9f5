------------------------------- MODULE Relay -------------------------------
(***************************************************************************)
(* interact as a relay: keys from the user's terminal through cli_loop()   *)
(* (src/client.c), a socket with bounded buffers and serv_loop()           *)
(* (src/server.c) to the pty, output the other way.  readn() and writen()  *)
(* (src/common.c) block, so both loops can wait in the middle of a         *)
(* message; the write to the pty does not block.  CTRL-] detaches (no      *)
(* -nodetach).  Old data, patterns and the end of the child are in ServBuf *)
(* and Session.                                                            *)
(***************************************************************************)
EXTENDS Subst, FiniteSets

CONSTANTS
    Keys,       \* what the user types
    Output,     \* what the child writes
    SockBuf,    \* what a socket holds in one direction
    PtyIn,      \* what the pty holds for the child
    RawBuf,     \* bound: room for new output in rawbuf
    ReadMax,    \* sizeof(buf) in cli_loop()
    Substs,     \* the -subst options
    MaxSize     \* bound: how often the terminal is resized

VARIABLES
    typed,      \* how many keys the user has typed
    tty,        \* those cli_loop() has not read
    size,       \* the size of the user's terminal
    winch,      \* g.received_winch
    cli,        \* the client: where it is, and the message it reads or writes
    up, down,   \* the socket
    open,       \* g.conn.sock >= 0
    serv,       \* the server, as cli
    passing,    \* g.conn.passing
    raw,        \* g.newcnt bytes at g.rawnew
    winsize,    \* the size of the pty
    ptyin,      \* written to ptm, not read by the child
    got,        \* what the child has read
    made,       \* how much the child has written
    nread,      \* how much of that was read from ptm
    lost,       \* write(ptm) was short
    screen      \* what the user has seen, in pieces

relayVars == <<typed, tty, size, winch, cli, up, down, open, serv, passing, raw, winsize,
               ptyin, got, made, nread, lost, screen>>

user == <<typed, tty, size>>
child == <<ptyin, got, made>>
server == <<serv, open, passing, raw, winsize, nread, lost>>

DETACH == 29

subs == [k \in DOMAIN Substs |-> cli_subst_compile(Substs[k], FALSE)]

ASSUME SizesAssumption ==
    SockBuf \in Nat /\ PtyIn \in Nat /\ RawBuf \in Nat /\ ReadMax \in Nat \ {0} /\ MaxSize \in Nat

ASSUME DataAssumption == Keys \in Seq(Octet) /\ Output \in Seq(Octet)

\* Patterns come from argv[] and have no NUL.
ASSUME SubstsAssumption ==
    /\ Substs \in Seq(Seq(Byte))
    /\ \A k \in DOMAIN Substs : SubstAccepted(Substs[k], FALSE) /\ subs[k].pat.text \in Seq(Byte)

-----------------------------------------------------------------------------
(* Messages as they lie in the socket: a header, then the bytes.           *)

Element == [t : {"byte", "PASS", "WINCH", "INPUT", "OUTPUT", "DISCONN"}, v : Nat]

Hdr(tag, len) == [t |-> tag, v |-> len]
Bytes(s) == [k \in DOMAIN s |-> [t |-> "byte", v |-> s[k]]]

\* Fault: the header counts padding that is not sent.
Frame_Rounded(tag, s) == <<Hdr(tag, Len(s) + (Len(s) % 2))>> \o Bytes(s)

Frame(tag, s) == <<Hdr(tag, Len(s))>> \o Bytes(s)

\* readn(): how much is still to be read of the header, then of the value.
Missing(in) == IF in = <<>> THEN 1 ELSE 1 + in[1].v - Len(in)
Whole(in) == in # <<>> /\ Missing(in) = 0
Value(in) == [k \in 1 .. (Len(in) - 1) |-> in[k + 1].v]

\* One read() and one write() of readn() and writen().
ReadSize(sock, in) == Min({Len(sock), Missing(in)})
WriteSizes(sock, out) == 1 .. Min({SockBuf - Len(sock), Len(out)})

\* The rest of a message whose value readn() could not read: ECONNRESET, as the
\* peer died with data unread, makes it return -1, which is not less than the
\* uint32_t taglen.  What older messages left in the buffer is taken for it.
Filled(in) == in \o Bytes([k \in 1 .. Missing(in) |-> Stale])

FirstOf(s, n) == SubSeq(s, 1, n)
Behind(s, n) == SubSeq(s, n + 1, Len(s))

-----------------------------------------------------------------------------
(* The user, and the child until the server is killed *)

Over == cli.pc \in {"gone", "dead"}

UserTypes ==
    /\ typed < Len(Keys) /\ ~ Over
    /\ typed' = typed + 1
    /\ tty' = Append(tty, Keys[typed'])
    /\ UNCHANGED <<size, winch, cli, up, down, server, child, screen>>

\* SIGWINCH: cli_sigWINCH()
UserResizes ==
    /\ size < MaxSize /\ ~ Over
    /\ size' = size + 1
    /\ winch' = TRUE
    /\ UNCHANGED <<typed, tty, cli, up, down, server, child, screen>>

ChildReads ==
    /\ ptyin # <<>> /\ serv.pc # "dead"
    /\ got' = Append(got, Head(ptyin)) /\ ptyin' = Tail(ptyin)
    /\ UNCHANGED <<user, winch, cli, up, down, server, made, screen>>

ChildWrites ==
    /\ made < Len(Output) /\ serv.pc # "dead"
    /\ made' = made + 1
    /\ UNCHANGED <<user, winch, cli, up, down, server, ptyin, got, screen>>

ChildStep == ChildReads \/ ChildWrites

-----------------------------------------------------------------------------
(* The client *)

\* Where the client is: in a call of writen() it has out to write and goes on
\* at next; in has what readn() has read of a message.
Client(pc, out, next) == [pc |-> pc, in |-> <<>>, out |-> out, next |-> next]

\* The flag is reset before the size is asked for.
CliTop ==
    /\ cli.pc = "top"
    /\ cli' = [cli EXCEPT !.pc = IF winch THEN "winsize" ELSE "select"]
    /\ winch' = FALSE
    /\ UNCHANGED <<user, up, down, server, child, screen>>

\* Also once before the loop.
cli_send_winsize ==
    /\ cli.pc \in {"first", "winsize"}
    /\ cli' = Client("write", Frame("WINCH", <<size>>), IF cli.pc = "first" THEN "top" ELSE "select")
    /\ UNCHANGED <<user, winch, up, down, server, child, screen>>

\* FD_ISSET() of the two descriptors.
SockReady == down # <<>> \/ ~ open

\* Fault: the socket is read without asking whether it is ready.
AfterStdin_Blocks == "read"

AfterStdin == IF SockReady THEN "read" ELSE "top"

\* Fault: select() is called again when it timed out.
CliSelect_Again ==
    /\ cli.pc = "select" /\ (tty # <<>> \/ SockReady)
    /\ cli' = IF tty # <<>> THEN Client("stdin", <<>>, AfterStdin) ELSE Client("read", <<>>, "top")
    /\ UNCHANGED <<user, winch, up, down, server, child, screen>>

\* What is ready now is served, stdin first.  A timeout and a signal lead back
\* to the top.
CliSelect ==
    /\ cli.pc = "select"
    /\ cli' = IF tty # <<>> THEN Client("stdin", <<>>, AfterStdin) ELSE Client(AfterStdin, <<>>, "top")
    /\ UNCHANGED <<user, winch, up, down, server, child, screen>>

CliStdin ==
    /\ cli.pc = "stdin"
    /\ LET keys == FirstOf(tty, Min({Len(tty), ReadMax}))
       IN  /\ tty' = Behind(tty, Len(keys))
           /\ cli' = IF keys = <<DETACH>> THEN Client("write", Frame("DISCONN", <<>>), "drain")
                     ELSE Client("write", Frame("INPUT", keys), cli.next)
    /\ UNCHANGED <<typed, size, winch, up, down, server, child, screen>>

\* writen(); it fails when the server has closed the connection.
CliWrite ==
    /\ cli.pc = "write"
    /\ \/ /\ open
          /\ \E n \in WriteSizes(up, cli.out) :
                /\ up' = up \o FirstOf(cli.out, n)
                /\ cli' = [cli EXCEPT !.out = Behind(@, n), !.pc = IF n = Len(cli.out) THEN cli.next ELSE @]
       \/ /\ ~ open
          /\ cli' = Client("gone", <<>>, "gone")
          /\ UNCHANGED up
    /\ UNCHANGED <<user, winch, down, server, child, screen>>

\* Output no -subst was applied to.
AsIs == -1

\* OUTPUT is shown, without -subst once the client waits for DISCONN.
Show(in) ==
    screen' = screen \o (IF cli.pc = "read" THEN cli_subst_raw(subs, Value(in))
                         ELSE <<Piece(Value(in), Value(in), AsIs)>>)

\* What the client does with a message.  It stays in a loop of cli_subst() that
\* never ends; what is on the screen from that message is left out.
cli_process_msg(in) ==
    IF in[1].t # "OUTPUT" THEN cli' = Client("gone", <<>>, "gone") /\ UNCHANGED screen
    ELSE IF cli.pc = "read" /\ NeverEnds(subs, Value(in))
    THEN cli' = [cli EXCEPT !.in = in, !.pc = "stuck"] /\ UNCHANGED screen
    ELSE cli' = [cli EXCEPT !.in = <<>>, !.pc = IF @ = "read" THEN "top" ELSE @] /\ Show(in)

\* read() returns -1 once, the server died with keys unread; these are no more.
CliReset == ~ open /\ up # <<>> /\ cli.in # <<>>

\* msg_recv() in cli_loop() and in cli_disconn()
CliRead ==
    /\ cli.pc \in {"read", "drain"}
    /\ \/ /\ down # <<>>
          /\ LET n == ReadSize(down, cli.in)
                 in == cli.in \o FirstOf(down, n)
             IN  /\ down' = Behind(down, n)
                 /\ IF Whole(in) THEN cli_process_msg(in)
                    ELSE cli' = [cli EXCEPT !.in = in] /\ UNCHANGED screen
          /\ UNCHANGED up
       \/ /\ down = <<>> /\ CliReset
          /\ cli_process_msg(Filled(cli.in))
          /\ up' = <<>>
          /\ UNCHANGED down
       \/ /\ down = <<>> /\ ~ open /\ ~ CliReset
          /\ cli' = Client("gone", <<>>, "gone")
          /\ UNCHANGED <<up, down, screen>>
    /\ UNCHANGED <<user, winch, server, child>>

CliKilled ==
    /\ ~ Over
    /\ cli' = Client("dead", <<>>, "dead")
    /\ UNCHANGED <<user, winch, up, down, server, child, screen>>

CliStep == CliTop \/ cli_send_winsize \/ CliSelect \/ CliStdin \/ CliWrite \/ CliRead

-----------------------------------------------------------------------------
(* The server *)

Server(pc, out, next) == [pc |-> pc, in |-> <<>>, out |-> out, next |-> next]

PtmReady == nread < made /\ Len(raw) < RawBuf
ConnReady == open /\ (up # <<>> \/ Over)

\* select(), or its timeout; the ptm is read first.
ServSelect ==
    /\ serv.pc = "select"
    /\ serv' = Server(IF ConnReady THEN "recv" ELSE "pass", <<>>, "pass")
    /\ IF ~ PtmReady THEN UNCHANGED <<raw, nread>>
       ELSE /\ nread' = Min({made, nread + RawBuf - Len(raw)})
            /\ raw' = raw \o SubSeq(Output, nread + 1, nread')
    /\ UNCHANGED <<user, winch, cli, up, down, open, passing, winsize, child, lost, screen>>

\* INPUT: what does not fit in the pty is lost.
write_ptm(keys) ==
    LET n == Min({Len(keys), PtyIn - Len(ptyin)})
    IN  /\ ptyin' = ptyin \o FirstOf(keys, n)
        /\ lost' = (lost \/ n < Len(keys))

\* A WINCH with old bytes may not be a message any more, or have no size.
WinchFails ==
    /\ open' = FALSE
    /\ serv' \in {Server("pass", <<>>, "pass"), Server("dead", <<>>, "dead")}
    /\ UNCHANGED <<passing, winsize, ptyin, lost>>

serv_process_msg(in) ==
    /\ open' = open
    /\ serv' = IF in[1].t = "DISCONN" THEN Server("send", Frame("DISCONN", <<>>), "close")
               ELSE Server("pass", <<>>, "pass")
    /\ passing' = (passing \/ in[1].t = "PASS")
    /\ winsize' = IF in[1].t = "WINCH" THEN Value(in)[1] ELSE winsize
    /\ IF in[1].t = "INPUT" THEN write_ptm(Value(in)) ELSE UNCHANGED <<ptyin, lost>>

\* Fault: readn() goes on at the end of the file.
RecvFails_Not == FALSE

\* read() returns -1 once, the client died with output unread; that is no more.
ServReset == Over /\ down # <<>> /\ serv.in # <<>>

\* read() returned 0, or -1 where a message starts.
RecvFails == up = <<>> /\ Over /\ ~ ServReset

ServRecv ==
    /\ serv.pc = "recv"
    /\ \/ /\ up # <<>>
          /\ LET n == ReadSize(up, serv.in)
                 in == serv.in \o FirstOf(up, n)
             IN  /\ up' = Behind(up, n)
                 /\ IF Whole(in) THEN serv_process_msg(in)
                    ELSE /\ serv' = [serv EXCEPT !.in = in]
                         /\ UNCHANGED <<open, passing, winsize, ptyin, lost>>
          /\ UNCHANGED down
       \/ /\ up = <<>> /\ ServReset
          /\ \/ serv_process_msg(Filled(serv.in))
             \/ serv.in[1].t = "WINCH" /\ WinchFails
          /\ down' = <<>>
          /\ UNCHANGED up
       \/ /\ RecvFails
          /\ open' = FALSE
          /\ serv' = Server("pass", <<>>, "pass")
          /\ UNCHANGED <<up, down, passing, winsize, ptyin, lost>>
    /\ UNCHANGED <<user, winch, cli, raw, got, made, nread, screen>>

serv_pass ==
    /\ serv.pc = "pass"
    /\ serv' = IF open /\ passing /\ raw # <<>> THEN Server("send", Frame("OUTPUT", raw), "sent")
               ELSE Server("select", <<>>, "select")
    /\ UNCHANGED <<user, winch, cli, up, down, open, passing, raw, winsize, child, nread, lost, screen>>

\* writen(); a client that is gone does not read any more.
serv_msg_send ==
    /\ serv.pc = "send"
    /\ \/ /\ ~ Over
          /\ \E n \in WriteSizes(down, serv.out) :
                /\ down' = down \o FirstOf(serv.out, n)
                /\ IF n < Len(serv.out)
                   THEN serv' = [serv EXCEPT !.out = Behind(@, n)] /\ UNCHANGED <<open, raw>>
                   ELSE /\ serv' = Server("select", <<>>, "select")
                        /\ open' = (serv.next # "close")
                        /\ raw' = IF serv.next = "sent" THEN <<>> ELSE raw
       \/ /\ Over
          /\ open' = FALSE
          /\ serv' = Server("select", <<>>, "select")
          /\ UNCHANGED <<down, raw>>
    /\ UNCHANGED <<user, winch, cli, up, passing, winsize, child, nread, lost, screen>>

\* The kernel closes the socket.
ServKilled ==
    /\ serv.pc # "dead" /\ ~ Over
    /\ serv' = Server("dead", <<>>, "dead")
    /\ open' = FALSE
    /\ UNCHANGED <<user, winch, cli, up, down, passing, raw, winsize, child, nread, lost, screen>>

ServStep == ServSelect \/ ServRecv \/ serv_pass \/ serv_msg_send

-----------------------------------------------------------------------------
\* The client has connected and HELLOs were exchanged.
RelayInit ==
    /\ typed = 0 /\ tty = <<>> /\ size = 1 /\ winch = FALSE
    /\ cli = Client("write", Frame("PASS", <<>>), "first")
    /\ up = <<>> /\ down = <<>> /\ open = TRUE
    /\ serv = Server("select", <<>>, "select")
    /\ passing = FALSE /\ raw = <<>> /\ winsize = 0
    /\ ptyin = <<>> /\ got = <<>> /\ made = 0 /\ nread = 0 /\ lost = FALSE
    /\ screen = <<>>

RelayNext ==
    \/ UserTypes \/ UserResizes \/ ChildStep
    \/ CliStep \/ CliKilled \/ ServStep \/ ServKilled

\* Processes that can run do run; nobody has to type, resize or kill.
RelaySpec ==
    /\ RelayInit /\ [][RelayNext]_relayVars
    /\ WF_relayVars(CliStep) /\ WF_relayVars(ServStep) /\ WF_relayVars(ChildStep)

-----------------------------------------------------------------------------
(* Properties *)

\* The bytes of the messages with a tag in a stream that starts with a header.
Carried(tag, s) ==
    LET n(in) == Min({1 + in[1].v, Len(in)})
    IN  Loop([in \in Seq(Element) |-> IF in = <<>> THEN <<>> ELSE Behind(in, n(in))],
             [in \in Seq(Element) |-> IF in # <<>> /\ in[1].t = tag THEN Value(FirstOf(in, n(in))) ELSE <<>>], s)

\* CTRL-] was read.
Detaching == cli.next = "drain"

\* Keys are in one place each and stay in order, however the socket cuts the
\* messages: read by the child, in the pty, on their way or in the terminal.
\* If the pty was full once, some are missing and the rest is in order.  A client
\* that dies in the middle of a message may leave bytes nobody typed behind it.
KeysKept ==
    LET arrived == got \o ptyin
    IN  IF lost \/ Over \/ ~ open \/ Detaching
        THEN \A i, j \in DOMAIN arrived :
                i < j => \/ Over /\ Stale \in {arrived[i], arrived[j]}
                         \/ \E k, m \in DOMAIN Keys : k < m /\ Keys[k] = arrived[i] /\ Keys[m] = arrived[j]
        ELSE arrived \o Carried("INPUT", serv.in \o up \o cli.out) \o tty = FirstOf(Keys, typed)

Source == FlattenSeq([k \in DOMAIN screen |-> screen[k].of])

\* Output reaches the screen once and in order, with -subst, while the client
\* detaches and when a message comes in parts.  The first -subst misses no
\* match inside a message, and replaces nothing but matches.
OutputKept ==
    /\ LET coming == Carried("OUTPUT", cli.in \o down \o serv.out)
           unsent == IF serv.pc = "send" /\ serv.next = "sent" THEN <<>> ELSE raw
       IN  cli.pc # "dead" /\ open => Source \o coming \o unsent = FirstOf(Output, nread)
    /\ \A k \in DOMAIN screen :
          /\ screen[k].sub > 0 => Starts(subs[screen[k].sub].pat, screen[k].of) = {0}
          /\ screen[k].sub <= 0 => screen[k].text = screen[k].of
          /\ subs # <<>> /\ subs[1].pat.text # <<>> /\ screen[k].sub \notin {1, AsIs} =>
                Starts(subs[1].pat, screen[k].of) = {}

\* Nobody waits for ever: as long as the client lives, the user sees all the
\* child has written, and the child gets all that was typed.
CatchesUp ==
    []<>(\/ Over
         \/ Source = FirstOf(Output, made) /\ (lost \/ got = FirstOf(Keys, typed)))

\* A resize always gets through, also one just before select() or while another
\* size is being sent.
SizeArrives == []<>(Over \/ winsize = size)

\* A client that detaches ends, and so does one whose server was killed; the
\* server is free for the next client after that and after its client was
\* killed, wherever both were.
ConnectionEnds == (Over \/ cli.next = "drain" \/ ~ open) ~> (Over /\ ~ open)

=============================================================================
