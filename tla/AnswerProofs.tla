---------------------------- MODULE AnswerProofs ----------------------------
(***************************************************************************)
(* Who is answered what: the invariants of the conversation between each   *)
(* client and the server, for any number of clients.  Without CTRL-] there *)
(* is one answer for each request: no client ever prints [BUG!?], and the  *)
(* sessions implement the service.                                         *)
(***************************************************************************)
EXTENDS ProtocolProofs, FiniteSetTheorems

\* What a client may send after its request.
Quiet == {"INPUT", "WINCH", "DISCONN"}

\* A client that is gone has no socket, no request and nothing to read.
Gone(c) ==
    /\ (cst[c] = "off") <=> ~copen[c]
    /\ (cst[c] = "off") <=> (cmd[c] = "none")
    /\ cst[c] = "off" => down[c] = <<>>

\* HELLO goes to the server and comes back before anything else is sent.
Shaking(c) ==
    cst[c] = "hello" =>
       /\ up[c] \in {<<>>, <<"HELLO">>, <<"BADHELLO">>, <<"OLDHELLO">>}
       /\ down[c] \in {<<>>, <<"HELLO">>, <<"ERR_PROTO">>}
       /\ up[c] = <<>> \/ down[c] = <<>>

\* Only the first message on its way to the server can be HELLO or a request.
OneRequest(c) == up[c] # <<>> => Elems(Tail(up[c])) \subseteq Quiet

\* The client that is served, and the one that was told the exit status, has
\* made its request.
Served(c) ==
    who = c /\ (pass # "none" \/ waited) => cst[c] # "hello" /\ Elems(up[c]) \subseteq Quiet

Talking(c) == Gone(c) /\ Shaking(c) /\ OneRequest(c) /\ Served(c)

\* After waitpid() no request is served, and the server does not wait for
\* another client.
AfterReap ==
    waited => /\ who # NoClient => pass = "none"
              /\ ~sock => ph \in {"pass", "drop", "top", "exited", "aborted"}

\* Requests that are served and those that answer at once are not quiet, and
\* greetings are neither.
LEMMA QuietKinds ==
    /\ PassKinds \cap Quiet = {} /\ Prompts \cap Quiet = {}
    /\ {"HELLO", "BADHELLO", "OLDHELLO"} \cap (Quiet \cup PassKinds \cup Prompts) = {}
    BY KindsAssumption DEF Quiet, Prompts

\* Receiving the first message leaves only quiet ones.
LEMMA ReceivesQuiet ==
    ASSUME WireTypes, NEW c \in Clients, Receives(c), OneRequest(c)
    PROVE  /\ Head(up[c]) \in Elems(up[c]) /\ Elems(Tail(up[c])) \subseteq Elems(up[c])
           /\ Elems(up'[c]) \subseteq Quiet /\ OneRequest(c)'
           /\ \A d \in Clients : d # c => up'[d] = up[d]
<1>1. /\ up[c] \in Seq(Messages) /\ up[c] # <<>>
      /\ up'[c] = Tail(up[c]) /\ \A d \in Clients : d # c => up'[d] = up[d]
    BY DEF WireTypes, Receives
<1>2. /\ Tail(up[c]) \in Seq(Messages)
      /\ Elems(up[c]) = {Head(up[c])} \cup Elems(Tail(up[c]))
    BY <1>1, ElemsHead
<1>3. up'[c] # <<>> => Elems(Tail(up'[c])) \subseteq Elems(up'[c])
    BY <1>1, <1>2, ElemsHead
<1> QED
    BY <1>1, <1>2, <1>3 DEF OneRequest

\* A client in its handshake has sent HELLO at most.
LEMMA ShakingHead ==
    ASSUME NEW c \in Clients, Shaking(c), cst[c] = "hello", up[c] # <<>>
    PROVE  Head(up[c]) \in {"HELLO", "BADHELLO", "OLDHELLO"} /\ Tail(up[c]) = <<>> /\ down[c] = <<>>
<1>1. up[c] \in {<<"HELLO">>, <<"BADHELLO">>, <<"OLDHELLO">>}
    BY DEF Shaking
<1>2. /\ Head(<<"HELLO">>) = "HELLO" /\ Tail(<<"HELLO">>) = <<>>
      /\ Head(<<"BADHELLO">>) = "BADHELLO" /\ Tail(<<"BADHELLO">>) = <<>>
      /\ Head(<<"OLDHELLO">>) = "OLDHELLO" /\ Tail(<<"OLDHELLO">>) = <<>>
    OBVIOUS
<1> QED
    BY <1>1, <1>2 DEF Shaking

\* The steps of the server keep every conversation in order.
LEMMA TalkingServes ==
    ASSUME WireTypes, NEW c \in Clients, Serves(c), NEW d \in Clients,
           \A e \in Clients : Talking(e)
    PROVE  Talking(d)'
<1>0. UNCHANGED <<copen, cst, cmd, bugs>>
    BY DEF Serves, GetsHello, GetsBadHello, GetsOldHello, GetsDisconn, GetsRequest, GetsPass,
           GetsOther,
           Receives, Closes, PassesOn, PassEnds, cliVars
<1>1. who = c /\ who' \in {c, NoClient} /\ NoClient \notin Clients
    BY ServerAssumption DEF Serves, GetsHello, GetsBadHello, GetsOldHello, GetsDisconn,
           GetsRequest, GetsPass,
           GetsOther, Receives, Closes, PassesOn, PassEnds, StaysIfOpen
<1>2. up' = up \/ (Receives(c) /\ UNCHANGED waited)
    BY DEF Serves, GetsHello, GetsBadHello, GetsOldHello, GetsDisconn, GetsRequest, GetsPass,
           GetsOther,
           Closes, PassesOn, PassEnds, Receives
<1>3. down' = down \/ (\E s : down' = [down EXCEPT ![c] = s])
    BY DEF Serves, GetsHello, GetsBadHello, GetsOldHello, GetsDisconn, GetsRequest, GetsPass,
           GetsOther,
           Closes, PassesOn, PassEnds, Sends, Receives
<1>4. CASE d # c
    <2>1. up'[d] = up[d] /\ down'[d] = down[d] /\ who' # d
        BY <1>1, <1>2, <1>3, <1>4 DEF WireTypes, Receives
    <2> QED
        BY <1>0, <2>1 DEF Talking, Gone, Shaking, OneRequest, Served
<1>5. CASE d = c
    <2>1. OneRequest(c)'
        BY <1>2, ReceivesQuiet DEF Talking, OneRequest
    <2>2. Gone(c)'
        <3>1. ~copen[c] => down'[c] = down[c]
            <4>1. ASSUME ~copen[c], NEW ms, Sends(c, ms) PROVE down'[c] = down[c]
                BY <4>1 DEF Sends, WireTypes
            <4>2. ASSUME ~copen[c], PassesOn(c) PROVE down'[c] = down[c]
                <5>1. Output = <<>> /\ down[c] \in Seq(Messages)
                    BY <4>2 DEF PassesOn, WireTypes
                <5> QED
                    BY <4>2, <5>1 DEF PassesOn, WireTypes
            <4> QED
                BY <4>1, <4>2 DEF Serves, GetsHello, GetsBadHello, GetsOldHello, GetsDisconn,
                       GetsRequest,
                    GetsPass, GetsOther, Closes, PassEnds
        <3> QED
            BY <1>0, <3>1 DEF Talking, Gone
    <2>3. Shaking(c)'
        <3> SUFFICES ASSUME cst[c] = "hello" PROVE Shaking(c)'
            BY <1>0 DEF Shaking
        <3>1. pass = "none" /\ Shaking(c)
            BY <1>1 DEF Talking, Served
        <3>2. ASSUME Receives(c)
              PROVE  up'[c] = <<>> /\ down[c] = <<>> /\ Head(up[c]) \in {"HELLO", "BADHELLO", "OLDHELLO"}
            BY <3>1, <3>2, ShakingHead DEF Receives, WireTypes
        <3>3. <<>> \o <<"HELLO">> = <<"HELLO">> /\ <<>> \o <<"ERR_PROTO">> = <<"ERR_PROTO">>
            OBVIOUS
        <3>4. CASE GetsHello(c)
            BY <3>2, <3>3, <3>4 DEF GetsHello, Sends, Shaking, WireTypes
        <3>5. CASE GetsBadHello(c)
            BY <3>2, <3>3, <3>5 DEF GetsBadHello, Sends, Shaking, WireTypes
        <3>6. CASE GetsOther(c) \/ GetsOldHello(c)
            BY <3>2, <3>6 DEF GetsOther, GetsOldHello, Shaking
        <3>7. CASE Closes(c)
            BY <3>1, <3>7 DEF Closes, Shaking, cliVars
        <3>8. ~(GetsDisconn(c) \/ GetsRequest(c) \/ GetsPass(c))
            BY <3>2, QuietKinds DEF GetsDisconn, GetsRequest, GetsPass, Quiet
        <3>9. ~(PassesOn(c) \/ PassEnds(c))
            BY <3>1 DEF PassesOn, PassEnds
        <3> QED
            BY <3>4, <3>5, <3>6, <3>7, <3>8, <3>9 DEF Serves
    <2>4. Served(c)'
        <3>1. CASE GetsPass(c)
            <4>1. Elems(up'[c]) \subseteq Quiet
                BY <3>1, ReceivesQuiet DEF GetsPass, Talking
            <4>2. cst[c] # "hello"
                BY <3>1, ShakingHead, QuietKinds DEF GetsPass, Receives, Talking
            <4> QED
                BY <1>0, <4>1, <4>2 DEF Served
        <3>2. CASE ~GetsPass(c)
            <4>1. (pass' # "none" \/ waited') => (pass # "none" \/ waited)
                BY <3>2 DEF Serves, GetsHello, GetsBadHello, GetsOldHello, GetsDisconn, GetsRequest,
                    GetsOther, Receives, Closes, PassesOn, PassEnds
            <4>2. up' = up \/ Elems(up'[c]) \subseteq Quiet
                BY <1>2, ReceivesQuiet DEF Talking
            <4> QED
                BY <1>0, <1>1, <4>1, <4>2 DEF Talking, Served
        <3> QED
            BY <3>1, <3>2
    <2> QED
        BY <1>5, <2>1, <2>2, <2>3, <2>4 DEF Talking
<1> QED
    BY <1>4, <1>5

\* The steps of a client concern its own socket only.
LEMMA ClientFrame ==
    ASSUME WireTypes, NEW c \in Clients, CliActs(c), NEW d \in Clients, d # c
    PROVE  /\ up'[d] = up[d] /\ down'[d] = down[d] /\ copen'[d] = copen[d]
           /\ cst'[d] = cst[d] /\ cmd'[d] = cmd[d]
           /\ UNCHANGED <<who, pass, waited>>
<1> USE DEF WireTypes, Reads, ServerSame
<1>1. CASE Comes(c)
    BY <1>1 DEF Comes
<1>2. CASE Asks(c) \/ TakesAnswer(c)
    BY <1>2 DEF Asks, TakesAnswer
<1>3. CASE TakesOutput(c) \/ Skips(c)
    BY <1>3 DEF TakesOutput, Skips
<1>4. CASE Types(c) \/ Detaches(c)
    BY <1>4 DEF Types, Detaches
<1>5. CASE Quits(c)
    BY <1>5 DEF Quits, EndsWith, CliEnds
<1> QED
    BY ClientStep, <1>1, <1>2, <1>3, <1>4, <1>5

\* The steps of a client keep its conversation in order.
LEMMA TalkingClient ==
    ASSUME WireTypes, NEW c \in Clients, CliActs(c), NEW d \in Clients,
           \A e \in Clients : Talking(e)
    PROVE  Talking(d)'
<1>1. CASE d # c
    BY <1>1, ClientFrame DEF Talking, Gone, Shaking, OneRequest, Served
<1>2. CASE d = c
    <2> SUFFICES Talking(c)'
        BY <1>2
    <2>0. /\ up[c] \in Seq(Messages) /\ down[c] \in Seq(Messages)
          /\ Gone(c) /\ Shaking(c) /\ OneRequest(c) /\ Served(c)
        BY DEF WireTypes, Talking
    <2>1. CASE Comes(c)
        <3>1. /\ cst'[c] = "hello" /\ copen'[c] = TRUE /\ cmd'[c] # "none" /\ down'[c] = <<>>
              /\ up'[c] \in {<<"HELLO">>, <<"BADHELLO">>, <<"OLDHELLO">>}
            BY <2>0, <2>1, CommandMessages DEF Comes, Gone, WireTypes, Hello
        <3>2. Tail(<<"HELLO">>) = <<>> /\ Tail(<<"BADHELLO">>) = <<>> /\ Tail(<<"OLDHELLO">>) = <<>>
            OBVIOUS
        <3>3. OneRequest(c)'
            BY <3>1, <3>2, ElemsEmpty DEF OneRequest
        <3>4. who' # c
            BY <2>1 DEF Comes, ServHas, ServerSame
        <3> QED
            BY <3>1, <3>3, <3>4 DEF Talking, Gone, Shaking, Served
    <2>2. CASE Asks(c)
        <3>1. up[c] = <<>> /\ down[c] # <<>> /\ down[c] \in {<<"HELLO">>, <<"ERR_PROTO">>}
            BY <2>0, <2>2 DEF Asks, Reads, Shaking
        <3>2. /\ cst'[c] = "loop" /\ copen'[c] = copen[c] /\ cmd'[c] = cmd[c]
              /\ UNCHANGED <<who, pass, waited>>
            BY <2>2 DEF Asks, Reads, ServerSame, WireTypes
        <3>3. up'[c] = <<>> \o (<<cmd[c]>> \o cli_send_winsize(c))
            BY <2>2, <3>1 DEF Asks, WireTypes
        <3>4. cmd[c] \in Messages /\ "WINCH" \in Messages
            BY CommandMessages DEF Messages, WireTypes
        <3>5. \/ up'[c] = <<cmd[c], "WINCH">> \/ up'[c] = <<cmd[c]>>
            <4>1. <<cmd[c]>> \in Seq(Messages) /\ <<cmd[c], "WINCH">> \in Seq(Messages)
                BY <3>4, TwoMessages
            <4>2. <<cmd[c]>> \o cli_send_winsize(c) \in {<<cmd[c], "WINCH">>, <<cmd[c]>>}
                BY <3>4, <4>1, TwoMessages, ConcatEmptySeq DEF cli_send_winsize
            <4> QED
                BY <3>3, <4>1, <4>2, ConcatEmptySeq
        <3>6. Tail(<<cmd[c], "WINCH">>) = <<"WINCH">> /\ Tail(<<cmd[c]>>) = <<>>
            BY <3>4, TwoMessages
        <3>7. OneRequest(c)'
            BY <3>5, <3>6, ElemsEmpty, ElemsOne DEF OneRequest, Quiet
        <3>8. Served(c)'
            BY <2>0, <2>2, <3>2 DEF Served, Asks
        <3> QED
            BY <2>0, <2>2, <3>2, <3>7, <3>8 DEF Talking, Gone, Shaking, Asks
    <2>3. CASE TakesAnswer(c) \/ Detaches(c)
        <3>1. /\ cst[c] = "loop" /\ cst'[c] = "disconn" /\ copen'[c] = copen[c]
              /\ cmd'[c] = cmd[c] /\ up'[c] = up[c] \o <<"DISCONN">>
              /\ UNCHANGED <<who, pass, waited>>
            BY <2>3 DEF TakesAnswer, Detaches, Reads, ServerSame, WireTypes
        <3>2. "DISCONN" \in Messages /\ <<"DISCONN">> \in Seq(Messages)
            BY DEF Messages
        <3>5. "DISCONN" \in Quiet
            BY DEF Quiet
        <3>6. \A s \in Seq(Messages) : Elems(s \o <<"DISCONN">>) = Elems(s) \cup {"DISCONN"}
            BY <3>2, TailSend
        <3>3. Elems(up'[c]) \subseteq Elems(up[c]) \cup Quiet
            BY <2>0, <3>1, <3>5, <3>6
        <3>4. OneRequest(c)'
            <4>1. Tail(up'[c]) = IF up[c] = <<>> THEN <<>> ELSE Tail(up[c]) \o <<"DISCONN">>
                BY <2>0, <3>1, <3>2, TailSend
            <4>2. CASE up[c] = <<>>
                BY <4>1, <4>2, ElemsEmpty DEF OneRequest
            <4>3. CASE up[c] # <<>>
                <5>1. Tail(up[c]) \in Seq(Messages)
                    BY <2>0, <4>3
                <5>3. Elems(Tail(up[c]) \o <<"DISCONN">>) = Elems(Tail(up[c])) \cup {"DISCONN"}
                    BY <3>6, <5>1
                <5>2. Elems(Tail(up'[c])) \subseteq Elems(Tail(up[c])) \cup Quiet
                    BY <3>5, <4>1, <4>3, <5>3
                <5> QED
                    BY <2>0, <4>3, <5>2 DEF OneRequest
            <4> QED
                BY <4>2, <4>3
        <3> QED
            BY <2>0, <3>1, <3>3, <3>4 DEF Talking, Gone, Shaking, Served
    <2>4. CASE TakesOutput(c) \/ Skips(c)
        <3>1. /\ down[c] # <<>> /\ down'[c] = Tail(down[c]) /\ up'[c] = up[c] /\ cst'[c] = cst[c]
              /\ copen'[c] = copen[c] /\ cmd'[c] = cmd[c] /\ UNCHANGED <<who, pass, waited>>
            BY <2>4 DEF TakesOutput, Skips, Reads, ServerSame, WireTypes
        <3>2. cst[c] # "hello"
            <4>1. Head(<<"HELLO">>) = "HELLO" /\ Head(<<"ERR_PROTO">>) = "ERR_PROTO"
                OBVIOUS
            <4> QED
                BY <2>0, <2>4, <3>1, <4>1 DEF TakesOutput, Skips, Shaking
        <3> QED
            BY <2>0, <3>1, <3>2 DEF Talking, Gone, Shaking, OneRequest, Served
    <2>5. CASE Types(c)
        <3>1. /\ up'[c] = <<"INPUT">> /\ down'[c] = down[c] /\ cst'[c] = "loop" /\ cst[c] = "loop"
              /\ copen'[c] = copen[c] /\ cmd'[c] = cmd[c] /\ UNCHANGED <<who, pass, waited>>
            BY <2>5 DEF Types, ServerSame, WireTypes
        <3>2. Tail(<<"INPUT">>) = <<>>
            OBVIOUS
        <3> QED
            BY <2>0, <3>1, <3>2, ElemsOne, ElemsEmpty
            DEF Talking, Gone, Shaking, OneRequest, Served, Quiet
    <2>6. CASE Quits(c)
        BY <2>0, <2>6 DEF Quits, EndsWith, CliEnds, ServerSame, WireTypes, Talking, Gone, Shaking,
                          OneRequest, Served
    <2> QED
        BY ClientStep, <2>1, <2>2, <2>3, <2>4, <2>5, <2>6
<1> QED
    BY <1>1, <1>2

\* A new client starts its conversation with nothing left of the last one.
LEMMA TalkingAccepts ==
    ASSUME AfterReap, Accepts, NEW d \in Clients, Talking(d)
    PROVE  Talking(d)'
<1>1. ~waited
    BY DEF AfterReap, Accepts
<1> QED
    BY <1>1 DEF Accepts, cliVars, Talking, Gone, Shaking, OneRequest, Served

\* Every step leaves each conversation in one of its stages.
LEMMA TalkingNext ==
    ASSUME WireTypes, Connected, AfterReap, \A c \in Clients : Talking(c), [SessNext]_sessVars
    PROVE  \A c \in Clients : Talking(c)'
<1>1. CASE UNCHANGED wire
    BY <1>1 DEF wire, cliVars, Talking, Gone, Shaking, OneRequest, Served
<1>2. CASE Accepts
    BY <1>2, TalkingAccepts
<1>3. ASSUME NEW c \in Clients, Serves(c), NEW d \in Clients PROVE Talking(d)'
    BY <1>3, TalkingServes
<1>4. ASSUME NEW c \in Clients, CliActs(c), NEW d \in Clients PROVE Talking(d)'
    BY <1>4, TalkingClient
<1> QED
    BY <1>1, <1>2, <1>3, <1>4, WireStep DEF Connected, WireTypes

\* Once the exit status was given away, the loop ends with the connection.
LEMMA AfterReapNext ==
    ASSUME WireTypes, Connected, AfterReap, \A c \in Clients : Talking(c), [SessNext]_sessVars
    PROVE  AfterReap'
<1>1. waited' /\ who' # NoClient => pass' = "none"
    <2>1. CASE UNCHANGED wire \/ Accepts
        BY <2>1 DEF wire, Accepts, AfterReap
    <2>2. ASSUME NEW c \in Clients, Serves(c) PROVE waited' /\ who' # NoClient => pass' = "none"
        <3>1. CASE GetsPass(c)
            <4>1. Head(up[c]) \in Elems(up[c])
                BY <3>1, ReceivesQuiet DEF GetsPass, Talking
            <4>2. ~waited
                BY <3>1, <4>1, QuietKinds DEF GetsPass, Receives, Talking, Served
            <4> QED
                BY <3>1, <4>2 DEF GetsPass, Receives
        <3>2. CASE PassEnds(c)
            BY <3>2 DEF PassEnds
        <3>3. CASE ~GetsPass(c) /\ ~PassEnds(c)
            BY <2>2, <3>3, ServerAssumption DEF AfterReap, Serves, GetsHello, GetsBadHello,
                GetsOldHello, GetsDisconn, GetsRequest, GetsOther, Receives, Closes, PassesOn
        <3> QED
            BY <3>1, <3>2, <3>3
    <2>3. ASSUME NEW c \in Clients, CliActs(c) PROVE waited' /\ who' # NoClient => pass' = "none"
        BY <2>3, ClientsOnly DEF AfterReap, vars, procVars
    <2> QED
        BY <2>1, <2>2, <2>3, WireStep DEF Connected, WireTypes
<1>2. waited' /\ ~sock' => ph' \in {"pass", "drop", "top", "exited", "aborted"}
    <2> DEFINE Late == {"pass", "drop", "top", "exited", "aborted"}
    <2>0. waited /\ ~sock => ph \in Late
        BY DEF AfterReap
    <2>1. CASE UNCHANGED <<waited, sock, ph>>
        BY <2>0, <2>1
    <2>2. CASE InstallHandler \/ ChildStep \/ Tick \/ UNCHANGED sessVars
        BY <2>1, <2>2 DEF InstallHandler, ChildStep, Tick, sessVars, servVars, vars, procVars
    <2>3. CASE serv_sigCHLD
        BY <2>0, <2>3 DEF serv_sigCHLD, SelectReturns, vars
    <2>4. CASE ServTop
        BY <2>0, <2>4 DEF ServTop, LoopTop, ExitLoop
    <2>5. CASE ServSelect \/ ServAccept \/ ServReadPtm \/ ServMark \/ ServDrop
        BY <2>0, <2>5 DEF ServSelect, SelectReturns, ServAccept, serv_accept, NoAccept,
            ServReadPtm, ReadData, ReadEof, ReadNothing, ServMark, NonblockMark, ServDrop,
            DropOld, procVars
    <2>6. CASE ServMsg
        <3>1. ph' \in {"pass", "aborted"}
            BY <2>6, MsgStep DEF serv_process_msg, MsgOther, MsgCloses, MsgClose, MsgSet,
                MsgInfo, MsgPass
        <3> QED
            BY <3>1
    <2>7. CASE ServPass
        <3>1. ph' \in {"drop", "aborted"}
            BY <2>7, PassStep DEF serv_pass, NotPassing, PassSendFails, PassAborts, PassMatched,
                PassAtEof, PassGoesOn
        <3> QED
            BY <3>1
    <2>8. ASSUME NEW c \in Clients, CliActs(c) PROVE UNCHANGED <<waited, sock, ph>>
        BY <2>8, ClientsOnly DEF vars, procVars
    <2> QED
        BY <2>1, <2>2, <2>3, <2>4, <2>5, <2>6, <2>7, <2>8
        DEF SessNext, Program, Environment, ServStep, CliActs
<1> QED
    BY <1>1, <1>2 DEF AfterReap

\* What is inductive about the conversations.
Conversations == AfterReap /\ \A c \in Clients : Talking(c)

\* In every session each client is in one of the stages of a conversation.
LEMMA ConversationsInv == SessSpec => []Conversations
<1>1. SessInit => Conversations
    <2> SUFFICES ASSUME SessInit PROVE Conversations
        OBVIOUS
    <2>1. AfterReap
        BY DEF SessInit, ServInit, AfterReap
    <2>2. ASSUME NEW c \in Clients PROVE Talking(c)
        BY ServerAssumption
        DEF SessInit, ServInit, Talking, Gone, Shaking, OneRequest, Served
    <2> QED
        BY <2>1, <2>2 DEF Conversations
<1>2. Conversations /\ SessTypes /\ [SessNext]_sessVars => Conversations'
    BY TalkingNext, AfterReapNext DEF Conversations, SessTypes
<1> QED
    BY <1>1, <1>2, SessTypesInv, PTL DEF SessSpec

\* Once the child is reaped no request is served any more, for any number of
\* clients: kill() never gets a pid that may belong to another process, and
\* the exit status is not asked for twice.
THEOREM PidCorrect == SessSpec => []PidStillOurs
<1>1. SessTypes /\ Conversations => PidStillOurs
    <2> SUFFICES ASSUME SessTypes, Conversations, waited, sock
                 PROVE  /\ pass = "none"
                        /\ \A i \in DOMAIN up[who] : up[who][i] \in {"INPUT", "WINCH", "DISCONN"}
        BY DEF PidStillOurs
    <2>1. who \in Clients
        BY DEF SessTypes, Connected, WireTypes
    <2>2. pass = "none"
        BY <2>1, ServerAssumption DEF Conversations, AfterReap
    <2>3. Elems(up[who]) \subseteq Quiet
        BY <2>1 DEF Conversations, Talking, Served
    <2> QED
        BY <2>2, <2>3 DEF Elems, Quiet
<1> QED
    BY <1>1, SessTypesInv, ConversationsInv, PTL

-----------------------------------------------------------------------------
(* Answers to one's own request *)

\* What a client that is still there sent, and is being served, is its own
\* request.
Asked(c) ==
    copen[c] => /\ Elems(up[c]) \subseteq Quiet \cup {"HELLO", "BADHELLO", "OLDHELLO", cmd[c]}
                /\ "BADHELLO" \in Elems(up[c]) => cmd[c] = "mismatch"
                /\ who = c => pass \in {"none", cmd[c]}

OwnAnswers(c) == Elems(down[c]) \subseteq Answers(cmd[c])

\* Every answer the server gives to a request is among the ones it may give.
LEMMA AnswersKnown ==
    /\ \A k : "HELLO" \in Answers(k) /\ "DISCONN" \in Answers(k)
    /\ \A k \in Prompts : Prompt(k) \subseteq Answers(k)
    /\ \A k \in PassKinds : Final(k) \cup {"OUTPUT"} \subseteq Answers(k)
    /\ "ERR_PROTO" \in Answers("mismatch")
<1>1. \A k : "HELLO" \in Answers(k) /\ "DISCONN" \in Answers(k)
    BY DEF Answers
<1>2. \A k \in Prompts : Prompt(k) \subseteq Answers(k)
    BY DEF Answers, Prompts, Prompt
<1>3. \A k \in PassKinds : Final(k) \cup {"OUTPUT"} \subseteq Answers(k)
    BY KindsAssumption DEF Answers, Final, has_PATTERN, expects_EXIT
<1>4. "ERR_PROTO" \in Answers("mismatch")
    BY DEF Answers
<1> QED
    BY <1>1, <1>2, <1>3, <1>4

\* serv_pass() sends OUTPUT first, or nothing.
LEMMA OutputElems == Output \in Seq(Messages) /\ Elems(Output) \subseteq {"OUTPUT"}
<1>1. Elems(Output) \subseteq {"OUTPUT"}
    BY ElemsEmpty, ElemsOne DEF Output
<1> QED
    BY <1>1, OutputMessages

\* The messages a step of the server adds to the socket of its client.
LEMMA ServesElems ==
    ASSUME WireTypes, NEW c \in Clients, Serves(c)
    PROVE  \/ down'[c] = down[c]
           \/ /\ copen[c]
              /\ \/ GetsHello(c) /\ down'[c] = down[c] \o <<"HELLO">>
                 \/ GetsBadHello(c) /\ down'[c] = down[c] \o <<"ERR_PROTO">>
                 \/ GetsDisconn(c) /\ down'[c] = down[c] \o <<"DISCONN">>
                 \/ GetsRequest(c) /\ \E a \in Prompt(Head(up[c])) : down'[c] = down[c] \o <<a>>
                 \/ PassesOn(c) /\ down'[c] = down[c] \o <<"OUTPUT">>
                 \/ /\ PassEnds(c)
                    /\ \E a \in Final(pass) : down'[c] = down[c] \o (Output \o <<a>>)
<1>2. CASE PassesOn(c)
    <2>1. down'[c] = down[c] \o Output /\ Output \in {<<>>, <<"OUTPUT">>} /\ (Output # <<>> => copen[c])
        BY <1>2 DEF PassesOn, WireTypes, Output
    <2>2. down[c] \o <<>> = down[c]
        BY ConcatEmptySeq DEF WireTypes
    <2> QED
        BY <1>2, <2>1, <2>2
<1>3. CASE GetsHello(c) \/ GetsBadHello(c) \/ GetsDisconn(c)
    BY <1>3 DEF GetsHello, GetsBadHello, GetsDisconn, Sends, WireTypes
<1>4. CASE GetsRequest(c)
    BY <1>4 DEF GetsRequest, Sends, WireTypes
<1>5. CASE GetsPass(c) \/ GetsOther(c) \/ GetsOldHello(c) \/ Closes(c)
    BY <1>5 DEF GetsPass, GetsOther, GetsOldHello, Closes
<1>6. CASE PassEnds(c)
    BY <1>6 DEF PassEnds, Sends, WireTypes
<1> QED
    BY <1>2, <1>3, <1>4, <1>5, <1>6 DEF Serves

\* The request, and the size of the terminal after it.
LEMMA AskedElems ==
    ASSUME WireTypes, NEW c \in Clients, Asks(c), Talking(c)
    PROVE  Elems(up'[c]) \subseteq {cmd[c], "WINCH"}
<1>1. up'[c] = up[c] \o (<<cmd[c]>> \o cli_send_winsize(c)) /\ up[c] = <<>>
    BY DEF Asks, Reads, WireTypes, Talking, Shaking
<1>2. cmd[c] \in Messages /\ "WINCH" \in Messages
    BY CommandMessages DEF Messages, WireTypes
<1>3. <<cmd[c]>> \in Seq(Messages) /\ <<"WINCH">> \in Seq(Messages) /\ <<>> \in Seq(Messages)
    BY <1>2
<1>4. cli_send_winsize(c) = <<"WINCH">> \/ cli_send_winsize(c) = <<>>
    BY DEF cli_send_winsize
<1>5. Elems(<<"WINCH">>) = {"WINCH"} /\ Elems(<<>>) = {} /\ Elems(<<cmd[c]>>) = {cmd[c]}
    BY ElemsEmpty, ElemsOne
<1>6. cli_send_winsize(c) \in Seq(Messages) /\ Elems(cli_send_winsize(c)) \subseteq {"WINCH"}
    BY <1>3, <1>4, <1>5, Zenon
<1> DEFINE t == <<cmd[c]>> \o cli_send_winsize(c)
<1>7. t \in Seq(Messages) /\ Elems(t) = {cmd[c]} \cup Elems(cli_send_winsize(c))
    <2>1. ASSUME NEW r \in Seq(Messages)
          PROVE  /\ <<cmd[c]>> \o r \in Seq(Messages)
                 /\ Elems(<<cmd[c]>> \o r) = Elems(<<cmd[c]>>) \cup Elems(r)
        BY <1>3, ElemsConcat, ZenonT(40)
    <2> QED
        BY <1>5, <1>6, <2>1, Zenon
<1> HIDE DEF t
<1>8. up'[c] = t
    BY <1>1, <1>7, ConcatEmptySeq DEF t
<1> QED
    BY <1>6, <1>7, <1>8

\* What a client that stays reads and writes.
LEMMA ClientElems ==
    ASSUME WireTypes, NEW c \in Clients, CliActs(c), Talking(c), ~Comes(c), ~Quits(c)
    PROVE  /\ copen'[c] = copen[c] /\ cmd'[c] = cmd[c]
           /\ Elems(down'[c]) \subseteq Elems(down[c])
           /\ Elems(up'[c]) \subseteq Elems(up[c]) \cup Quiet \cup {cmd[c]}
<1>0. /\ up[c] \in Seq(Messages) /\ down[c] \in Seq(Messages)
      /\ down[c] # <<>> => Elems(Tail(down[c])) \subseteq Elems(down[c])
    BY ElemsHead DEF WireTypes
<1>1. "DISCONN" \in Messages /\ \A s \in Seq(Messages) : Elems(s \o <<"DISCONN">>) = Elems(s) \cup {"DISCONN"}
    <2>1. "DISCONN" \in Messages
        BY DEF Messages
    <2> QED
        BY <2>1, TailSend
<1>2. CASE Asks(c)
    BY <1>0, <1>2, AskedElems DEF Asks, Reads, WireTypes, Quiet
<1>3. CASE TakesAnswer(c) \/ Detaches(c)
    <2>1. /\ up'[c] = up[c] \o <<"DISCONN">> /\ copen'[c] = copen[c] /\ cmd'[c] = cmd[c]
          /\ down'[c] = down[c] \/ (down[c] # <<>> /\ down'[c] = Tail(down[c]))
        BY <1>3 DEF TakesAnswer, Detaches, Reads, WireTypes
    <2>2. Elems(up'[c]) = Elems(up[c]) \cup {"DISCONN"}
        BY <1>0, <1>1, <2>1
    <2> QED
        BY <1>0, <2>1, <2>2 DEF Quiet
<1>4. CASE TakesOutput(c) \/ Skips(c)
    BY <1>0, <1>4 DEF TakesOutput, Skips, Reads, WireTypes
<1>5. CASE Types(c)
    BY <1>5, ElemsOne DEF Types, WireTypes, Quiet
<1> QED
    BY <1>2, <1>3, <1>4, <1>5, ClientStep

\* serv_process_msg() and serv_pass() answer the request they were sent.
LEMMA OwnServes ==
    ASSUME WireTypes, TypeOK, NEW c \in Clients, Serves(c), Talking(c), Asked(c), OwnAnswers(c),
           NEW d \in Clients, Asked(d), OwnAnswers(d)
    PROVE  Asked(d)' /\ OwnAnswers(d)'
<1>0. UNCHANGED <<copen, cmd>> /\ who = c
    BY DEF Serves, GetsHello, GetsBadHello, GetsOldHello, GetsDisconn, GetsRequest, GetsPass,
           GetsOther,
           Receives, Closes, PassesOn, PassEnds, cliVars
<1>1. who' \in {c, NoClient} /\ NoClient \notin Clients
    BY <1>0, ServerAssumption DEF Serves, GetsHello, GetsBadHello, GetsOldHello, GetsDisconn,
           GetsRequest,
           GetsPass, GetsOther, Closes, PassesOn, PassEnds, StaysIfOpen
<1>2. up' = up \/ Receives(c)
    BY DEF Serves, GetsHello, GetsBadHello, GetsOldHello, GetsDisconn, GetsRequest, GetsPass,
           GetsOther,
           Closes, PassesOn, PassEnds, Receives
<1>3. down' = down \/ (\E s : down' = [down EXCEPT ![c] = s])
    BY DEF Serves, GetsHello, GetsBadHello, GetsOldHello, GetsDisconn, GetsRequest, GetsPass,
           GetsOther,
           Closes, PassesOn, PassEnds, Sends, Receives
<1>4. CASE d # c
    <2>1. up'[d] = up[d] /\ down'[d] = down[d] /\ who' # d
        BY <1>1, <1>2, <1>3, <1>4 DEF WireTypes, Receives
    <2> QED
        BY <1>0, <2>1 DEF Asked, OwnAnswers
<1>5. CASE d = c
    <2>1. Receives(c) => Head(up[c]) \in Elems(up[c]) /\ Elems(up'[c]) \subseteq Elems(up[c])
        <3>1. up[c] \in Seq(Messages) /\ (Receives(c) => up[c] # <<>> /\ up'[c] = Tail(up[c]))
            BY DEF WireTypes, Receives
        <3> QED
            BY <3>1, ElemsHead
    <2>2. Elems(up'[c]) \subseteq Elems(up[c])
        BY <1>2, <2>1
    <2>3. ASSUME copen[c], Receives(c), Head(up[c]) \in PassKinds \cup Prompts
          PROVE  Head(up[c]) = cmd[c]
        BY <2>1, <2>3, QuietKinds DEF Asked
    <2>4. copen[c] /\ who' = c => pass' \in {"none", cmd[c]}
        <3>1. CASE GetsPass(c)
            BY <2>3, <3>1 DEF GetsPass
        <3>2. CASE ~GetsPass(c)
            <4>1. pass' \in {pass, "none"}
                BY <3>2 DEF Serves, GetsHello, GetsBadHello, GetsOldHello, GetsDisconn, GetsRequest,
                    GetsOther, Closes, PassesOn, PassEnds
            <4> QED
                BY <1>0, <4>1 DEF Asked
        <3> QED
            BY <3>1, <3>2
    <2>5. Asked(c)'
        BY <1>0, <2>2, <2>4 DEF Asked
    <2>6. OwnAnswers(c)'
        <3> DEFINE k == cmd[c]
        <3>0. down[c] \in Seq(Messages) /\ Elems(down[c]) \subseteq Answers(k) /\ cmd' = cmd
            BY <1>0 DEF WireTypes, OwnAnswers
        <3> SUFFICES Elems(down'[c]) \subseteq Answers(k)
            BY <3>0 DEF OwnAnswers
        <3> HIDE DEF k
        <3>1. ASSUME NEW a \in Answers(k) \cap Messages, down'[c] = down[c] \o <<a>>
              PROVE  Elems(down'[c]) \subseteq Answers(k)
            <4>1. Elems(down[c] \o <<a>>) = Elems(down[c]) \cup {a}
                BY <3>0, TailSend
            <4> QED
                BY <3>0, <3>1, <4>1
        <3>2. {"HELLO", "ERR_PROTO", "DISCONN", "OUTPUT"} \subseteq Messages
            BY DEF Messages
        <3>3. CASE down'[c] = down[c]
            BY <3>0, <3>3
        <3>4. CASE copen[c] /\ GetsHello(c) /\ down'[c] = down[c] \o <<"HELLO">>
            <4>1. "HELLO" \in Answers(k) \cap Messages
                BY <3>2, AnswersKnown
            <4> QED
                BY <3>1, <3>4, <4>1
        <3>5. CASE copen[c] /\ GetsBadHello(c) /\ down'[c] = down[c] \o <<"ERR_PROTO">>
            <4>1. k = "mismatch"
                BY <2>1, <3>5 DEF GetsBadHello, Asked, k
            <4>2. "ERR_PROTO" \in Answers(k) \cap Messages
                BY <3>2, <4>1, AnswersKnown
            <4> QED
                BY <3>1, <3>5, <4>2
        <3>6. CASE copen[c] /\ GetsDisconn(c) /\ down'[c] = down[c] \o <<"DISCONN">>
            <4>1. "DISCONN" \in Answers(k) \cap Messages
                BY <3>2, AnswersKnown
            <4> QED
                BY <3>1, <3>6, <4>1
        <3>7. CASE /\ copen[c] /\ GetsRequest(c)
                   /\ \E a \in Prompt(Head(up[c])) : down'[c] = down[c] \o <<a>>
            <4>1. Head(up[c]) \in Prompts /\ Head(up[c]) = k
                BY <2>3, <3>7 DEF GetsRequest, k
            <4>2. PICK a \in Prompt(k) : down'[c] = down[c] \o <<a>>
                BY <3>7, <4>1
            <4>3. a \in Answers(k) \cap Messages
                BY <4>1, <4>2, AnswersKnown, PromptMessages
            <4> QED
                BY <3>1, <4>2, <4>3
        <3>8. ASSUME copen[c], pass # "none" PROVE pass = k /\ k \in PassKinds
            BY <1>0, <3>8 DEF TypeOK, Asked, k
        <3>9. CASE copen[c] /\ PassesOn(c) /\ down'[c] = down[c] \o <<"OUTPUT">>
            <4>1. "OUTPUT" \in Answers(k) \cap Messages
                BY <3>2, <3>8, <3>9, AnswersKnown DEF PassesOn
            <4> QED
                BY <3>1, <3>9, <4>1
        <3>10. CASE /\ copen[c] /\ PassEnds(c)
                    /\ \E a \in Final(pass) : down'[c] = down[c] \o (Output \o <<a>>)
            <4>1. pass = k /\ k \in PassKinds
                BY <3>8, <3>10 DEF PassEnds
            <4>2. PICK a \in Final(k) : down'[c] = down[c] \o (Output \o <<a>>)
                BY <3>10, <4>1
            <4>3. a \in Messages /\ a \in Answers(k) /\ "OUTPUT" \in Answers(k)
                BY <4>1, <4>2, AnswersKnown, FinalMessages
            <4>4. /\ Output \o <<a>> \in Seq(Messages)
                  /\ Elems(Output \o <<a>>) = Elems(Output) \cup {a}
                <5>1. <<a>> \in Seq(Messages)
                    BY <4>3
                <5>2. Output \o <<a>> \in Seq(Messages)
                    BY <5>1, OutputMessages, ElemsConcat
                <5> QED
                    BY <4>3, <5>2, OutputMessages, TailSend
            <4>5. Elems(down'[c]) = Elems(down[c]) \cup Elems(Output \o <<a>>)
                <5>1. down[c] \in Seq(Messages) /\ Output \o <<a>> \in Seq(Messages)
                    BY <3>0, <4>4
                <5>2. \A s, t \in Seq(Messages) : Elems(s \o t) = Elems(s) \cup Elems(t)
                    BY ElemsConcat
                <5>3. Elems(down[c] \o (Output \o <<a>>)) = Elems(down[c]) \cup Elems(Output \o <<a>>)
                    BY <5>1, <5>2, Zenon
                <5> QED
                    BY <4>2, <5>3, Zenon
            <4> QED
                BY <3>0, <4>3, <4>4, <4>5, OutputElems
        <3> QED
            BY <3>3, <3>4, <3>5, <3>6, <3>7, <3>9, <3>10, ServesElems
    <2> QED
        BY <1>5, <2>5, <2>6
<1> QED
    BY <1>4, <1>5

\* A client sends its own request only, and starts with an empty socket.
LEMMA OwnClient ==
    ASSUME WireTypes, NEW c \in Clients, CliActs(c), Talking(c), Asked(c), OwnAnswers(c),
           NEW d \in Clients, Asked(d), OwnAnswers(d)
    PROVE  Asked(d)' /\ OwnAnswers(d)'
<1>0. UNCHANGED <<who, pass>>
    BY ClientsOnly DEF vars
<1>1. CASE d # c
    BY <1>1, ClientFrame DEF Asked, OwnAnswers
<1>2. CASE d = c
    <2>1. CASE Comes(c)
        <3>1. PICK k \in Commands :
                /\ cmd' = [cmd EXCEPT ![c] = k]
                /\ up' = [up EXCEPT ![c] = Hello(k)]
            BY <2>1 DEF Comes
        <3>2. /\ cmd'[c] = k /\ (k = "mismatch" => Elems(up'[c]) = {"BADHELLO"})
              /\ (k # "mismatch" => Elems(up'[c]) \subseteq {"HELLO", "OLDHELLO"})
            BY <3>1, ElemsOne DEF WireTypes, Hello
        <3>3. who' # c /\ Elems(down'[c]) = {}
            BY <2>1, ElemsEmpty DEF Comes, ServHas, ServerSame, Talking, Gone, WireTypes
        <3> QED
            BY <1>2, <3>2, <3>3 DEF Asked, OwnAnswers
    <2>2. CASE Quits(c)
        <3>1. ~copen'[c] /\ Elems(down'[c]) = {}
            BY <2>2, ElemsEmpty DEF Quits, EndsWith, CliEnds, WireTypes
        <3> QED
            BY <1>2, <3>1 DEF Asked, OwnAnswers
    <2>3. CASE ~Comes(c) /\ ~Quits(c)
        <3>1. "BADHELLO" \in Elems(up'[c]) => "BADHELLO" \in Elems(up[c]) \/ cmd[c] = "BADHELLO"
            BY <2>3, ClientElems DEF Quiet
        <3>2. cmd[c] # "BADHELLO"
            BY CommandsAssumption DEF WireTypes
        <3> QED
            BY <1>0, <1>2, <2>3, <3>1, <3>2, ClientElems DEF Asked, OwnAnswers
    <2> QED
        BY <2>1, <2>2, <2>3
<1> QED
    BY <1>1, <1>2

Own == \A c \in Clients : Asked(c) /\ OwnAnswers(c)

\* Every step keeps answers and requests together.
LEMMA OwnNext ==
    ASSUME WireTypes, TypeOK, Connected, Conversations, Own, [SessNext]_sessVars
    PROVE  Own'
<1> USE DEF Own
<1>1. CASE UNCHANGED wire
    BY <1>1 DEF wire, cliVars, Asked, OwnAnswers
<1>2. CASE Accepts
    BY <1>2 DEF Accepts, cliVars, Asked, OwnAnswers
<1>3. ASSUME NEW c \in Clients, Serves(c), NEW d \in Clients PROVE Asked(d)' /\ OwnAnswers(d)'
    BY <1>3, OwnServes DEF Conversations
<1>4. ASSUME NEW c \in Clients, CliActs(c), NEW d \in Clients PROVE Asked(d)' /\ OwnAnswers(d)'
    BY <1>4, OwnClient DEF Conversations
<1> QED
    BY <1>1, <1>2, <1>3, <1>4, WireStep DEF Connected, WireTypes

\* The invariant of requests and answers.
LEMMA OwnInv == SessSpec => []Own
<1>1. SessInit => Own
    BY ElemsEmpty DEF SessInit, ServInit, Own, Asked, OwnAnswers
<1>2. Own /\ Inv /\ SessTypes /\ Conversations /\ [SessNext]_sessVars => Own'
    BY OwnNext DEF Inv, SessTypes
<1> QED
    BY <1>1, <1>2, SessBufInv, SessTypesInv, ConversationsInv, PTL DEF SessSpec

\* A client only gets answers to its own request, for any number of clients:
\* nothing of a request whose client was killed reaches the next client.
THEOREM AnswersCorrect == SessSpec => []AnswersFit
<1>1. Own => AnswersFit
    BY DEF Own, OwnAnswers, AnswersFit, Elems
<1> QED
    BY <1>1, OwnInv, PTL

-----------------------------------------------------------------------------
(* The end comes last *)

\* A client that is being told of the end was sent all of the output, and no
\* more will come.
Ended(c) == Elems(down[c]) \cap EndMsgs # {} => ~ptm /\ g.newcnt = 0

\* A closed pty stays closed, and nothing becomes new again.
LEMMA EndStays ==
    ASSUME Inv, [SessNext]_sessVars, ~ptm, g.newcnt = 0
    PROVE  ~ptm' /\ g'.newcnt = 0
<1>1. [Next]_vars
    BY SessStep
<1>2. g'.newcnt = 0
    BY <1>1, OutputStep DEF ReadData
<1>3. ~ptm'
    BY <1>1 DEF Next, LoopTop, ExitLoop, SelectReturns, serv_accept, NoAccept, ReadData, ReadEof,
        ReadNothing, NonblockMark, serv_process_msg, MsgOther, MsgCloses, MsgClose, MsgSet,
        MsgInfo, MsgPass, serv_pass, NotPassing, PassSendFails, PassAborts, PassMatched,
        PassAtEof, PassGoesOn, DropOld, vars
<1> QED
    BY <1>2, <1>3

\* The end is reported by a pass that has sent all that was left.
LEMMA EndedServes ==
    ASSUME WireTypes, Inv, NEW c \in Clients, Serves(c)
    PROVE  \/ Elems(down'[c]) \cap EndMsgs \subseteq Elems(down[c])
           \/ ~ptm' /\ g'.newcnt = 0
<1>0. down[c] \in Seq(Messages)
    BY DEF WireTypes
<1>1. ASSUME NEW a \in Messages \ EndMsgs, down'[c] = down[c] \o <<a>>
      PROVE  Elems(down'[c]) \cap EndMsgs \subseteq Elems(down[c])
    <2>1. Elems(down[c] \o <<a>>) = Elems(down[c]) \cup {a}
        BY <1>0, TailSend
    <2> QED
        BY <1>1, <2>1
<1>2. {"HELLO", "ERR_PROTO", "DISCONN", "OUTPUT"} \subseteq Messages \ EndMsgs
    BY DEF Messages, EndMsgs
<1>3. \A k : Prompt(k) \subseteq Messages \ EndMsgs
    BY DEF Prompt, Messages, EndMsgs
<1>4. CASE PassEnds(c)
    <2>1. PICK a \in Final(pass) :
             /\ Sends(c, Output \o <<a>>)
             /\ a \in EndMsgs => \E r \in BOOLEAN : PassAtEof(r)
        BY <1>4 DEF PassEnds
    <2>2. CASE a \in EndMsgs
        BY <2>1, <2>2, EofCounts
    <2>3. CASE a \notin EndMsgs
        <3>1. down'[c] = down[c] \/ down'[c] = down[c] \o (Output \o <<a>>)
            BY <2>1 DEF Sends, WireTypes
        <3>2. a \in Messages
            BY FinalMessages
        <3>3. <<a>> \in Seq(Messages)
            BY <3>2
        <3>4. Output \o <<a>> \in Seq(Messages)
            BY <3>3, OutputMessages, ElemsConcat
        <3>5. Elems(Output \o <<a>>) = Elems(Output) \cup {a}
            BY <3>2, OutputMessages, TailSend
        <3>6. \A t \in Seq(Messages) : Elems(down[c] \o t) = Elems(down[c]) \cup Elems(t)
            BY <1>0, ElemsConcat
        <3>7. "OUTPUT" \notin EndMsgs
            BY <1>2
        <3> QED
            BY <2>3, <3>1, <3>4, <3>5, <3>6, <3>7, OutputElems
    <2> QED
        BY <2>2, <2>3
<1>5. CASE ~PassEnds(c)
    BY <1>1, <1>2, <1>3, <1>5, ServesElems
<1> QED
    BY <1>4, <1>5

\* Every step keeps the end last.
LEMMA EndedNext ==
    ASSUME WireTypes, Inv, Connected, Conversations, \A c \in Clients : Ended(c), [SessNext]_sessVars
    PROVE  \A c \in Clients : Ended(c)'
<1>0. ASSUME NEW d \in Clients, Elems(down'[d]) \cap EndMsgs \subseteq Elems(down[d]) PROVE Ended(d)'
    BY <1>0, EndStays DEF Ended
<1>1. CASE UNCHANGED wire \/ Accepts
    BY <1>0, <1>1 DEF wire, Accepts
<1>2. ASSUME NEW c \in Clients, Serves(c), NEW d \in Clients PROVE Ended(d)'
    <2>1. CASE d = c
        BY <1>0, <1>2, <2>1, EndedServes DEF Ended
    <2>2. CASE d # c
        <3>1. down' = down \/ (\E s : down' = [down EXCEPT ![c] = s])
            BY <1>2 DEF Serves, GetsHello, GetsBadHello, GetsOldHello, GetsDisconn, GetsRequest,
                   GetsPass,
                GetsOther, Closes, PassesOn, PassEnds, Sends, Receives
        <3>2. down'[d] = down[d]
            BY <2>2, <3>1 DEF WireTypes
        <3> QED
            BY <1>0, <3>2
    <2> QED
        BY <2>1, <2>2
<1>3. ASSUME NEW c \in Clients, CliActs(c), NEW d \in Clients PROVE Ended(d)'
    <2>1. CASE d # c
        BY <1>0, <1>3, <2>1, ClientFrame
    <2>2. CASE d = c /\ (Comes(c) \/ Quits(c))
        <3>1. down'[c] = down[c] \/ down'[c] = <<>>
            BY <2>2 DEF Comes, Quits, EndsWith, CliEnds, WireTypes
        <3> QED
            BY <1>0, <2>2, <3>1, ElemsEmpty
    <2>3. CASE d = c /\ ~Comes(c) /\ ~Quits(c)
        BY <1>0, <1>3, <2>3, ClientElems DEF Conversations
    <2> QED
        BY <2>1, <2>2, <2>3
<1> QED
    BY <1>1, <1>2, <1>3, WireStep DEF Connected, WireTypes

\* EOF and the exit status come after all of the child's output, for any sizes
\* of the buffers and the pty and any number of clients.
THEOREM EndCorrect == SessSpec => []EndMeansDrained
<1> DEFINE AllEnded == \A c \in Clients : Ended(c)
<1>1. SessInit => AllEnded
    BY ElemsEmpty DEF SessInit, ServInit, Ended
<1>2. AllEnded /\ Inv /\ SessTypes /\ Conversations /\ [SessNext]_sessVars => AllEnded'
    BY EndedNext DEF SessTypes
<1>3. AllEnded /\ Inv /\ SessTypes => EndMeansDrained
    <2> SUFFICES ASSUME AllEnded, Inv, SessTypes, ~forced, NEW c \in Clients,
                        \E i \in DOMAIN down[c] : down[c][i] \in {"EOF", "ERR_EOF", "EXITED"}
                 PROVE  g.ntotal = produced /\ g.newcnt = 0
        BY DEF EndMeansDrained
    <2>1. ~ptm /\ g.newcnt = 0
        BY DEF Ended, Elems, EndMsgs
    <2>2. pend = 0 /\ produced = g.ntotal + pend
        BY <2>1 DEF SessTypes, Stream
    <2>3. g.ntotal \in Nat
        BY DEF Inv, TypeOK, Buf
    <2> QED
        BY <2>1, <2>2, <2>3
<1> QED
    BY <1>1, <1>2, <1>3, SessBufInv, SessTypesInv, ConversationsInv, PTL DEF SessSpec

-----------------------------------------------------------------------------
(* One answer for each request *)

\* No message of s is the answer, and the answer is the last message of s.
NoEnd(s) == \A m \in Elems(s) : ~Ends(m)
EndsLast(s) == \A i \in DOMAIN s : Ends(s[i]) => i = Len(s)

\* A socket without an answer may get one.
LEMMA EndSent ==
    ASSUME NEW s \in Seq(Messages), NoEnd(s), NEW a \in Messages
    PROVE  /\ EndsLast(s) /\ EndsLast(s \o <<a>>)
           /\ NoEnd(s \o <<a>>) <=> ~Ends(a)
<1>1. /\ Len(s \o <<a>>) = Len(s) + 1 /\ DOMAIN (s \o <<a>>) = 1 .. Len(s) + 1
      /\ Len(s) \in Nat /\ DOMAIN s = 1 .. Len(s)
      /\ \A i \in 1 .. Len(s) : (s \o <<a>>)[i] = s[i]
    OBVIOUS
<1>2. \A i \in 1 .. Len(s) : ~Ends(s[i])
    BY <1>1 DEF NoEnd, Elems
<1>3. \A i \in 1 .. Len(s) + 1 : i \in 1 .. Len(s) \/ i = Len(s) + 1
    BY <1>1
<1>4. Elems(s \o <<a>>) = Elems(s) \cup {a}
    BY TailSend
<1> QED
    BY <1>1, <1>2, <1>3, <1>4 DEF EndsLast, NoEnd

\* Reading keeps the answer last, and nothing comes after it.
LEMMA EndRead ==
    ASSUME NEW s \in Seq(Messages), s # <<>>
    PROVE  /\ NoEnd(s) <=> ~Ends(Head(s)) /\ NoEnd(Tail(s))
           /\ EndsLast(s) => EndsLast(Tail(s)) /\ (Ends(Head(s)) => Tail(s) = <<>>)
<1>1. /\ Len(s) \in Nat \ {0} /\ Head(s) = s[1] /\ DOMAIN s = 1 .. Len(s)
      /\ Tail(s) \in Seq(Messages) /\ Len(Tail(s)) = Len(s) - 1
      /\ DOMAIN Tail(s) = 1 .. Len(s) - 1
      /\ \A i \in 1 .. Len(s) - 1 : Tail(s)[i] = s[i + 1] /\ i + 1 \in 1 .. Len(s)
    OBVIOUS
<1>2. Elems(s) = {Head(s)} \cup Elems(Tail(s))
    BY ElemsHead
<1>3. EndsLast(s) => EndsLast(Tail(s))
    BY <1>1 DEF EndsLast
<1>4. ASSUME EndsLast(s), Ends(Head(s)) PROVE Tail(s) = <<>>
    <2>1. Len(s) = 1
        BY <1>1, <1>4 DEF EndsLast
    <2> QED
        BY <1>1, <2>1
<1> QED
    BY <1>2, <1>3, <1>4 DEF NoEnd

\* Nothing to read.
LEMMA EndEmpty == NoEnd(<<>>) /\ EndsLast(<<>>)
    BY ElemsEmpty DEF NoEnd, EndsLast

\* OUTPUT is not the answer.
LEMMA EndOutput ==
    ASSUME NEW s \in Seq(Messages), NoEnd(s)
    PROVE  s \o Output \in Seq(Messages) /\ NoEnd(s \o Output)
<1>1. s \o Output \in Seq(Messages) /\ Elems(s \o Output) = Elems(s) \cup Elems(Output)
    BY OutputMessages, ElemsConcat
<1>2. ~Ends("OUTPUT")
    BY DEF Ends
<1> QED
    BY <1>1, <1>2, OutputElems DEF NoEnd

\* The messages that are answers.
LEMMA EndKinds ==
    /\ ~Ends("HELLO") /\ ~Ends("DISCONN") /\ ~Ends("OUTPUT") /\ Ends("ERR_PROTO")
    /\ \A k : \A a \in Prompt(k) \cup Final(k) : Ends(a) /\ a \in Messages
<1>1. \A k : \A a \in Prompt(k) : Ends(a)
    BY DEF Prompt, Ends
<1>2. \A k : \A a \in Final(k) : Ends(a)
    BY DEF Final, Ends
<1> QED
    BY <1>1, <1>2, PromptMessages, FinalMessages DEF Ends

\* After the handshake there is no HELLO any more, and before the client has
\* its answer there is no DISCONN.
InLoop(c) ==
    /\ cst[c] \in {"loop", "disconn"} =>
          {"HELLO", "BADHELLO", "OLDHELLO"} \cap Elems(up[c]) = {} /\ "HELLO" \notin Elems(down[c])
    /\ cst[c] = "loop" => "DISCONN" \notin Elems(up[c]) \cup Elems(down[c])

\* A client that was answered has no other request, and is not being served.
Answered(c) ==
    cst[c] = "disconn" \/ ~NoEnd(down[c]) =>
       Elems(up[c]) \subseteq Quiet /\ (who = c => pass = "none")

\* Nothing is sent after the answer until the client has taken it.
LastAnswer(c) ==
    /\ EndsLast(down[c])
    /\ cst[c] = "disconn" => NoEnd(down[c])

Orderly(c) == InLoop(c) /\ Answered(c) /\ LastAnswer(c)

\* The three ways in which the server writes to a client.
Greets(c) ==
    /\ copen[c] /\ cst[c] = "hello" /\ down[c] = <<>> /\ UNCHANGED <<pass, waited>>
    /\ \/ GetsHello(c) /\ down'[c] = <<"HELLO">>
       \/ GetsBadHello(c) /\ down'[c] = <<"ERR_PROTO">>

SendsOutput(c) ==
    /\ copen[c] /\ cst[c] = "loop" /\ NoEnd(down[c]) /\ PassesOn(c)
    /\ down'[c] = down[c] \o <<"OUTPUT">>

Parts(c) ==
    /\ copen[c] /\ cst[c] = "disconn" /\ GetsDisconn(c)
    /\ down'[c] = down[c] \o <<"DISCONN">>

Replies(c) ==
    /\ copen[c] /\ cst[c] = "loop" /\ NoEnd(down[c]) /\ pass' = "none" /\ who' = c
    /\ Elems(up'[c]) \subseteq Quiet
    /\ \E s \in Seq(Messages), a \in Messages :
          NoEnd(s) /\ Elems(s) \subseteq Elems(down[c]) \cup {"OUTPUT"}
            /\ Ends(a) /\ down'[c] = s \o <<a>>
    /\ GetsRequest(c) \/ PassEnds(c)

\* The last message of a pass is the answer.
LEMMA EndsReply ==
    ASSUME WireTypes, NEW c \in Clients, PassEnds(c), copen[c], Talking(c), Orderly(c)
    PROVE  Replies(c)
<1>0. down[c] \in Seq(Messages) /\ cst[c] \in {"off", "hello", "loop", "disconn"}
    BY DEF WireTypes
<1>1. /\ copen[c] => cst[c] # "off"
      /\ Served(c) /\ Answered(c)
    BY DEF Talking, Gone, Orderly
<1>2. cst[c] = "loop" /\ NoEnd(down[c])
    BY <1>0, <1>1 DEF PassEnds, Served, Answered
<1>3. PICK a \in Final(pass) : down'[c] = down[c] \o (Output \o <<a>>)
    BY DEF PassEnds, Sends, WireTypes
<1>4. Ends(a) /\ a \in Messages
    BY EndKinds
<1>5. <<a>> \in Seq(Messages)
    BY <1>4
<1>6. down'[c] = (down[c] \o Output) \o <<a>>
    <2>1. \A r, s, t \in Seq(Messages) : (r \o s) \o t = r \o (s \o t)
        BY ConcatAssociative
    <2> QED
        BY <1>0, <1>3, <1>5, <2>1, OutputMessages
<1>7. down[c] \o Output \in Seq(Messages) /\ NoEnd(down[c] \o Output)
    BY <1>0, <1>2, EndOutput
<1>8. Elems(down[c] \o Output) \subseteq Elems(down[c]) \cup {"OUTPUT"}
    <2>1. Elems(down[c] \o Output) = Elems(down[c]) \cup Elems(Output)
        BY <1>0, OutputMessages, ElemsConcat
    <2> QED
        BY <2>1, OutputElems
<1>9. pass' = "none" /\ who' = c /\ up' = up /\ who = c /\ pass # "none"
    BY DEF PassEnds, StaysIfOpen
<1>10. Elems(up'[c]) \subseteq Quiet
    BY <1>1, <1>9 DEF Served
<1> QED
    BY <1>2, <1>4, <1>6, <1>7, <1>8, <1>9, <1>10 DEF Replies

\* They fit what the client is doing.
LEMMA Writes ==
    ASSUME WireTypes, NEW c \in Clients, Serves(c), Talking(c), Orderly(c)
    PROVE  down'[c] = down[c] \/ Greets(c) \/ SendsOutput(c) \/ Parts(c) \/ Replies(c)
<1>0. /\ up[c] \in Seq(Messages) /\ down[c] \in Seq(Messages)
      /\ cst[c] \in {"off", "hello", "loop", "disconn"}
    BY DEF WireTypes
<1>1. /\ copen[c] => cst[c] # "off"
      /\ Shaking(c) /\ OneRequest(c) /\ Served(c) /\ InLoop(c) /\ Answered(c) /\ LastAnswer(c)
    BY DEF Talking, Gone, Orderly
<1>2. Receives(c) => Head(up[c]) \in Elems(up[c]) /\ Elems(up'[c]) \subseteq Quiet
    BY <1>1, ReceivesQuiet
<1>3. Receives(c) /\ cst[c] = "hello" => Head(up[c]) \in {"HELLO", "BADHELLO", "OLDHELLO"} /\ down[c] = <<>>
    BY <1>1, ShakingHead DEF Receives
<1>4. <<>> \o <<"HELLO">> = <<"HELLO">> /\ <<>> \o <<"ERR_PROTO">> = <<"ERR_PROTO">>
    OBVIOUS
<1>5. CASE copen[c] /\ GetsHello(c) /\ down'[c] = down[c] \o <<"HELLO">>
    <2>1. cst[c] = "hello" /\ Receives(c)
        BY <1>0, <1>1, <1>2, <1>5 DEF GetsHello, InLoop
    <2> QED
        BY <1>3, <1>4, <1>5, <2>1 DEF Greets, GetsHello, Receives
<1>6. CASE copen[c] /\ GetsBadHello(c) /\ down'[c] = down[c] \o <<"ERR_PROTO">>
    <2>1. cst[c] = "hello" /\ Receives(c)
        BY <1>0, <1>1, <1>2, <1>6 DEF GetsBadHello, InLoop
    <2> QED
        BY <1>3, <1>4, <1>6, <2>1 DEF Greets, GetsBadHello, Receives
<1>7. CASE copen[c] /\ GetsDisconn(c) /\ down'[c] = down[c] \o <<"DISCONN">>
    <2>1. cst[c] # "hello" /\ cst[c] # "loop"
        BY <1>0, <1>1, <1>2, <1>3, <1>7 DEF GetsDisconn, InLoop
    <2> QED
        BY <1>0, <1>1, <1>7, <2>1 DEF Parts
<1>8. CASE /\ copen[c] /\ GetsRequest(c)
           /\ \E a \in Prompt(Head(up[c])) : down'[c] = down[c] \o <<a>>
    <2>0. Receives(c) /\ Head(up[c]) \in Prompts /\ Head(up[c]) \notin Quiet /\ who = c
        BY <1>8, QuietKinds DEF GetsRequest, Receives
    <2>1. cst[c] # "hello"
        BY <1>3, <2>0, QuietKinds
    <2>2. ~(cst[c] = "disconn") /\ NoEnd(down[c])
        BY <1>1, <1>2, <2>0 DEF Answered
    <2>3. pass = "none"
        BY <1>1, <1>2, <2>0 DEF Served
    <2>4. PICK a \in Prompt(Head(up[c])) : down'[c] = down[c] \o <<a>>
        BY <1>8
    <2>5. Ends(a) /\ a \in Messages
        BY EndKinds
    <2>6. pass' = "none" /\ who' = c
        BY <1>8, <2>3 DEF GetsRequest, StaysIfOpen
    <2> QED
        BY <1>0, <1>1, <1>2, <1>8, <2>0, <2>1, <2>2, <2>4, <2>5, <2>6 DEF Replies
<1>9. ASSUME who = c, pass # "none", copen[c] PROVE cst[c] = "loop" /\ NoEnd(down[c])
    BY <1>0, <1>1, <1>9 DEF Served, Answered
<1>10. CASE copen[c] /\ PassesOn(c) /\ down'[c] = down[c] \o <<"OUTPUT">>
    BY <1>9, <1>10 DEF PassesOn, SendsOutput
<1>11. CASE copen[c] /\ PassEnds(c)
    BY <1>11, EndsReply
<1> QED
    BY <1>5, <1>6, <1>7, <1>8, <1>10, <1>11, ServesElems

\* The server keeps every client in order.
LEMMA OrderlyServes ==
    ASSUME WireTypes, NEW c \in Clients, Serves(c), Talking(c), Orderly(c),
           NEW d \in Clients, Orderly(d)
    PROVE  Orderly(d)'
<1>0. UNCHANGED cst /\ who = c
    BY DEF Serves, GetsHello, GetsBadHello, GetsOldHello, GetsDisconn, GetsRequest, GetsPass,
           GetsOther,
           Receives, Closes, PassesOn, PassEnds, cliVars
<1>1. who' \in {c, NoClient} /\ NoClient \notin Clients
    BY <1>0, ServerAssumption DEF Serves, GetsHello, GetsBadHello, GetsOldHello, GetsDisconn,
           GetsRequest,
           GetsPass, GetsOther, Closes, PassesOn, PassEnds, StaysIfOpen
<1>2. up' = up \/ Receives(c)
    BY DEF Serves, GetsHello, GetsBadHello, GetsOldHello, GetsDisconn, GetsRequest, GetsPass,
           GetsOther,
           Closes, PassesOn, PassEnds, Receives
<1>3. down' = down \/ (\E s : down' = [down EXCEPT ![c] = s])
    BY DEF Serves, GetsHello, GetsBadHello, GetsOldHello, GetsDisconn, GetsRequest, GetsPass,
           GetsOther,
           Closes, PassesOn, PassEnds, Sends, Receives
<1>4. CASE d # c
    <2>1. up'[d] = up[d] /\ down'[d] = down[d] /\ who' # d
        BY <1>1, <1>2, <1>3, <1>4 DEF WireTypes, Receives
    <2> QED
        BY <1>0, <2>1 DEF Orderly, InLoop, Answered, LastAnswer
<1>5. CASE d = c
    <2>0. /\ down[c] \in Seq(Messages) /\ InLoop(c) /\ Answered(c) /\ LastAnswer(c)
          /\ Shaking(c) /\ OneRequest(c) /\ Served(c)
        BY DEF WireTypes, Orderly, Talking
    <2>1. Receives(c) => /\ Head(up[c]) \in Elems(up[c]) /\ Elems(up'[c]) \subseteq Elems(up[c])
                         /\ Elems(up'[c]) \subseteq Quiet
        <3>1. up[c] \in Seq(Messages) /\ (Receives(c) => up[c] # <<>> /\ up'[c] = Tail(up[c]))
            BY DEF WireTypes, Receives
        <3> QED
            BY <2>0, <3>1, ElemsHead, ReceivesQuiet
    <2>2. Elems(up'[c]) \subseteq Elems(up[c])
        BY <1>2, <2>1
    <2>3. CASE down'[c] = down[c]
        <3>1. InLoop(c)'
            BY <1>0, <2>0, <2>2, <2>3 DEF InLoop
        <3>2. LastAnswer(c)'
            BY <1>0, <2>0, <2>3 DEF LastAnswer
        <3>3. CASE cst[c] = "disconn" \/ ~NoEnd(down[c])
            <4>1. pass = "none" /\ Elems(up[c]) \subseteq Quiet
                BY <1>0, <2>0, <3>3 DEF Answered
            <4>2. ~GetsPass(c)
                BY <2>1, <4>1, QuietKinds DEF GetsPass
            <4>3. pass' = "none"
                BY <4>1, <4>2 DEF Serves, GetsHello, GetsBadHello, GetsOldHello, GetsDisconn,
                       GetsRequest,
                    GetsOther, Closes, PassesOn, PassEnds
            <4> QED
                BY <1>5, <2>2, <3>1, <3>2, <4>1, <4>3 DEF Orderly, Answered
        <3>4. CASE ~(cst[c] = "disconn" \/ ~NoEnd(down[c]))
            BY <1>0, <1>5, <2>3, <3>1, <3>2, <3>4 DEF Orderly, Answered
        <3> QED
            BY <3>3, <3>4
    <2>4. CASE Greets(c)
        <3>1. Elems(up'[c]) \subseteq Quiet
            BY <2>1, <2>4 DEF Greets, GetsHello, GetsBadHello
        <3>2. /\ EndsLast(<<"HELLO">>) /\ EndsLast(<<"ERR_PROTO">>) /\ NoEnd(<<"HELLO">>)
            BY ElemsOne, EndKinds DEF EndsLast, NoEnd
        <3>3. pass = "none"
            BY <1>0, <2>0, <2>4 DEF Greets, Served
        <3> QED
            BY <1>0, <1>5, <2>4, <3>1, <3>2, <3>3 DEF Greets, Orderly, InLoop, Answered, LastAnswer
    <2>5. CASE SendsOutput(c)
        <3>1. "OUTPUT" \in Messages
            BY DEF Messages
        <3>2. \A s \in Seq(Messages) :
                 /\ Elems(s \o <<"OUTPUT">>) = Elems(s) \cup {"OUTPUT"}
                 /\ NoEnd(s) => EndsLast(s \o <<"OUTPUT">>) /\ NoEnd(s \o <<"OUTPUT">>)
            BY <3>1, TailSend, EndSent, EndKinds
        <3>3. /\ Elems(down'[c]) = Elems(down[c]) \cup {"OUTPUT"}
              /\ EndsLast(down'[c]) /\ NoEnd(down'[c])
            BY <2>0, <2>5, <3>2 DEF SendsOutput
        <3> QED
            BY <1>0, <1>5, <2>0, <2>2, <2>5, <3>3
            DEF SendsOutput, Orderly, InLoop, Answered, LastAnswer
    <2>6. CASE Parts(c)
        <3>1. "DISCONN" \in Messages
            BY DEF Messages
        <3>2. \A s \in Seq(Messages) :
                 /\ Elems(s \o <<"DISCONN">>) = Elems(s) \cup {"DISCONN"}
                 /\ NoEnd(s) => EndsLast(s \o <<"DISCONN">>) /\ NoEnd(s \o <<"DISCONN">>)
            BY <3>1, TailSend, EndSent, EndKinds
        <3>3. /\ Elems(down'[c]) = Elems(down[c]) \cup {"DISCONN"}
              /\ EndsLast(down'[c]) /\ NoEnd(down'[c])
            BY <2>0, <2>6, <3>2 DEF Parts, LastAnswer
        <3>4. who' # c /\ cst[c] = "disconn"
            BY <1>1, <2>6 DEF Parts, GetsDisconn
        <3> QED
            BY <1>0, <1>5, <2>0, <2>2, <3>3, <3>4 DEF Orderly, InLoop, Answered, LastAnswer
    <2>7. CASE Replies(c)
        <3>1. PICK s \in Seq(Messages), a \in Messages :
                 /\ NoEnd(s) /\ Elems(s) \subseteq Elems(down[c]) \cup {"OUTPUT"}
                 /\ Ends(a) /\ down'[c] = s \o <<a>>
            BY <2>7 DEF Replies
        <3>2. Elems(down'[c]) = Elems(s) \cup {a} /\ EndsLast(down'[c])
            BY <3>1, TailSend, EndSent
        <3>3. a # "HELLO" /\ a # "DISCONN"
            BY <3>1, EndKinds
        <3> QED
            BY <1>0, <1>5, <2>0, <2>2, <2>7, <3>1, <3>2, <3>3
            DEF Replies, Orderly, InLoop, Answered, LastAnswer
    <2> QED
        BY <2>3, <2>4, <2>5, <2>6, <2>7, Writes
<1> QED
    BY <1>4, <1>5

\* A client that does not detach keeps the order, too.
LEMMA OrderlyClient ==
    ASSUME ~MayDetach, WireTypes, NEW c \in Clients, CliActs(c), Talking(c), Orderly(c),
           NEW d \in Clients, Orderly(d)
    PROVE  Orderly(d)'
<1>0. UNCHANGED <<who, pass>>
    BY ClientsOnly DEF vars
<1>1. CASE d # c
    BY <1>0, <1>1, ClientFrame DEF Orderly, InLoop, Answered, LastAnswer
<1>2. CASE d = c
    <2>0. /\ down[c] \in Seq(Messages) /\ up[c] \in Seq(Messages)
          /\ InLoop(c) /\ Answered(c) /\ LastAnswer(c) /\ Gone(c) /\ Shaking(c)
          /\ down[c] # <<>> => /\ Elems(Tail(down[c])) \subseteq Elems(down[c])
                               /\ Head(down[c]) \in Elems(down[c])
        BY ElemsHead DEF WireTypes, Orderly, Talking
    <2>1. CASE Comes(c)
        <3>1. cst'[c] = "hello" /\ down'[c] = <<>>
            BY <2>0, <2>1 DEF Comes, WireTypes, Gone
        <3> QED
            BY <1>2, <3>1, EndEmpty DEF Orderly, InLoop, Answered, LastAnswer
    <2>2. CASE Asks(c)
        <3>1. cst[c] = "hello" /\ cst'[c] = "loop" /\ down'[c] = Tail(down[c]) /\ down[c] # <<>>
            BY <2>2 DEF Asks, Reads, WireTypes
        <3>2. up[c] = <<>> /\ down'[c] = <<>>
            <4>1. down[c] \in {<<"HELLO">>, <<"ERR_PROTO">>}
                BY <2>0, <3>1 DEF Shaking
            <4>2. Tail(<<"HELLO">>) = <<>> /\ Tail(<<"ERR_PROTO">>) = <<>>
                OBVIOUS
            <4> QED
                BY <2>0, <3>1, <4>1, <4>2 DEF Shaking
        <3>3. Elems(up'[c]) \subseteq {cmd[c], "WINCH"}
            BY <2>2, <3>2, AskedElems
        <3>4. cmd[c] \notin {"HELLO", "BADHELLO", "OLDHELLO", "DISCONN"}
            BY CommandsAssumption DEF WireTypes
        <3> QED
            BY <1>2, <3>1, <3>2, <3>3, <3>4, EndEmpty, ElemsEmpty
            DEF Orderly, InLoop, Answered, LastAnswer
    <2>3. CASE TakesAnswer(c)
        <3>1. /\ cst[c] = "loop" /\ cst'[c] = "disconn" /\ down[c] # <<>>
              /\ down'[c] = Tail(down[c]) /\ Ends(Head(down[c]))
              /\ up'[c] = up[c] \o <<"DISCONN">>
            BY <2>3 DEF TakesAnswer, Reads, WireTypes, Ends
        <3>2. down'[c] = <<>> /\ ~NoEnd(down[c])
            BY <2>0, <3>1, EndRead DEF LastAnswer
        <3>3. "DISCONN" \in Messages
            BY DEF Messages
        <3>4. \A s \in Seq(Messages) : Elems(s \o <<"DISCONN">>) = Elems(s) \cup {"DISCONN"}
            BY <3>3, TailSend
        <3>5. Elems(up'[c]) = Elems(up[c]) \cup {"DISCONN"}
            BY <2>0, <3>1, <3>4
        <3>6. Elems(up'[c]) \subseteq Quiet /\ (who' = c => pass' = "none")
            BY <1>0, <2>0, <3>2, <3>5 DEF Answered, Quiet
        <3>7. {"HELLO", "BADHELLO", "OLDHELLO"} \cap Elems(up'[c]) = {}
            BY <2>0, <3>1, <3>5 DEF InLoop
        <3> QED
            BY <1>2, <3>1, <3>2, <3>6, <3>7, EndEmpty, ElemsEmpty
            DEF Orderly, InLoop, Answered, LastAnswer
    <2>4. CASE TakesOutput(c) \/ Skips(c)
        <3>1. /\ down[c] # <<>> /\ down'[c] = Tail(down[c]) /\ up'[c] = up[c] /\ cst'[c] = cst[c]
            BY <2>4 DEF TakesOutput, Skips, Reads, WireTypes
        <3>2. /\ EndsLast(down[c]) => EndsLast(down'[c])
              /\ NoEnd(down[c]) => NoEnd(down'[c])
            BY <2>0, <3>1, EndRead
        <3> QED
            BY <1>0, <1>2, <2>0, <3>1, <3>2 DEF Orderly, InLoop, Answered, LastAnswer
    <2>5. CASE Types(c)
        <3>1. /\ up'[c] = <<"INPUT">> /\ down'[c] = down[c] /\ cst'[c] = "loop" /\ cst[c] = "loop"
            BY <2>5 DEF Types, WireTypes
        <3>2. Elems(up'[c]) = {"INPUT"}
            BY <3>1, ElemsOne
        <3> QED
            BY <1>0, <1>2, <2>0, <3>1, <3>2 DEF Orderly, InLoop, Answered, LastAnswer, Quiet
    <2>6. CASE Quits(c)
        <3>1. cst'[c] = "off" /\ down'[c] = <<>>
            BY <2>6 DEF Quits, EndsWith, CliEnds, WireTypes
        <3> QED
            BY <1>2, <3>1, EndEmpty DEF Orderly, InLoop, Answered, LastAnswer
    <2> QED
        BY <2>1, <2>2, <2>3, <2>4, <2>5, <2>6, ClientStep DEF Detaches
<1> QED
    BY <1>1, <1>2

\* Every step keeps all clients in order.
LEMMA OrderlyNext ==
    ASSUME ~MayDetach, WireTypes, Connected, Conversations, \A c \in Clients : Orderly(c),
           [SessNext]_sessVars
    PROVE  \A c \in Clients : Orderly(c)'
<1>1. CASE UNCHANGED wire
    BY <1>1 DEF wire, cliVars, Orderly, InLoop, Answered, LastAnswer
<1>2. CASE Accepts
    BY <1>2 DEF Accepts, cliVars, Orderly, InLoop, Answered, LastAnswer
<1>3. ASSUME NEW c \in Clients, Serves(c), NEW d \in Clients PROVE Orderly(d)'
    BY <1>3, OrderlyServes DEF Conversations
<1>4. ASSUME NEW c \in Clients, CliActs(c), NEW d \in Clients PROVE Orderly(d)'
    BY <1>4, OrderlyClient DEF Conversations
<1> QED
    BY <1>1, <1>2, <1>3, <1>4, WireStep DEF Connected, WireTypes

Order == \A c \in Clients : Orderly(c)

\* The invariant of the order of the messages.
LEMMA OrderInv == ASSUME ~MayDetach PROVE SessSpec => []Order
<1>1. SessInit => Order
    BY EndEmpty, ElemsEmpty
    DEF SessInit, ServInit, Order, Orderly, InLoop, Answered, LastAnswer
<1>2. Order /\ SessTypes /\ Conversations /\ [SessNext]_sessVars => Order'
    BY OrderlyNext DEF SessTypes, Order
<1> QED
    BY <1>1, <1>2, SessTypesInv, ConversationsInv, PTL DEF SessSpec

\* Only requests that are passed are sent OUTPUT.
LEMMA OutputAnswers == \A k \in Commands \cup {"none"} : "OUTPUT" \in Answers(k) => k \in Passes
    BY CommandsAssumption DEF Answers, Passes

\* No client gets a message that has no place where it is.
LEMMA BugsNext ==
    ASSUME ~MayDetach, WireTypes, Connected, Conversations, Order, Own, NoClientBug,
           [SessNext]_sessVars
    PROVE  NoClientBug'
<1> USE DEF NoClientBug
<1>1. CASE UNCHANGED bugs
    BY <1>1
<1>2. ASSUME NEW c \in Clients, CliActs(c) PROVE UNCHANGED bugs
    <2>0. /\ down[c] \in Seq(Messages) /\ cmd[c] \in Commands \cup {"none"}
          /\ InLoop(c) /\ LastAnswer(c) /\ Shaking(c) /\ OwnAnswers(c)
          /\ down[c] # <<>> => Head(down[c]) \in Elems(down[c])
        BY ElemsHead DEF WireTypes, Order, Orderly, Conversations, Talking, Own
    <2>1. CASE Skips(c)
        <3>1. cst[c] = "disconn"
            <4>1. Head(<<"HELLO">>) = "HELLO" /\ Head(<<"ERR_PROTO">>) = "ERR_PROTO"
                OBVIOUS
            <4> QED
                BY <2>0, <2>1, <4>1 DEF Skips, Reads, Shaking
        <3>2. Head(down[c]) \in Elems(down[c]) /\ Head(down[c]) # "DISCONN"
            BY <2>0, <2>1, <3>1 DEF Skips, Reads
        <3>3. Head(down[c]) = "OUTPUT"
            BY <2>0, <3>1, <3>2 DEF InLoop, LastAnswer, NoEnd, Ends
        <3>4. cmd[c] \in Passes
            BY <2>0, <3>2, <3>3, OutputAnswers DEF OwnAnswers
        <3> QED
            BY <2>1, <3>1, <3>3, <3>4 DEF Skips
    <2>2. CASE Quits(c)
        BY <2>0, <2>2 DEF Quits, EndsWith, InLoop
    <2>3. CASE ~Skips(c) /\ ~Quits(c)
        BY <1>2, <2>3, ClientStep DEF Comes, Asks, TakesAnswer, TakesOutput, Types, Detaches
    <2> QED
        BY <2>1, <2>2, <2>3
<1>3. ASSUME NEW c \in Clients, Serves(c) PROVE UNCHANGED bugs
    BY <1>3 DEF Serves, GetsHello, GetsBadHello, GetsOldHello, GetsDisconn, GetsRequest,
           GetsPass, GetsOther,
           Receives, Closes, PassesOn, PassEnds, cliVars
<1> QED
    BY <1>1, <1>2, <1>3, WireStep DEF Connected, WireTypes, Accepts, wire, cliVars

\* Unless CTRL-] is pressed no client prints [BUG!?], whatever requests are
\* made and however many clients are killed.
THEOREM NoBugCorrect == ASSUME ~MayDetach PROVE SessSpec => []NoClientBug
<1>1. SessInit => NoClientBug
    BY DEF SessInit, NoClientBug
<1>2. NoClientBug /\ SessTypes /\ Conversations /\ Order /\ Own /\ [SessNext]_sessVars
         => NoClientBug'
    BY BugsNext DEF SessTypes
<1>3. SessSpec => []Order
    BY OrderInv
<1> QED
    BY <1>1, <1>2, <1>3, SessTypesInv, ConversationsInv, OwnInv, PTL DEF SessSpec

-----------------------------------------------------------------------------
(* The sessions implement the service *)

\* At most one message on its way to a client is the answer.
LEMMA OneEnd ==
    ASSUME NEW s \in Seq(Messages), EndsLast(s)
    PROVE  Cardinality({i \in DOMAIN s : Ends(s[i])}) = IF NoEnd(s) THEN 0 ELSE 1
<1> DEFINE E == {i \in DOMAIN s : Ends(s[i])}
<1>1. CASE NoEnd(s)
    <2>1. E = {}
        BY <1>1 DEF NoEnd, Elems
    <2> QED
        BY <1>1, <2>1, FS_EmptySet
<1>2. CASE ~NoEnd(s)
    <2>1. PICK i \in DOMAIN s : Ends(s[i])
        BY <1>2 DEF NoEnd, Elems
    <2>2. E = {i}
        BY <2>1 DEF EndsLast
    <2> QED
        BY <1>2, <2>2, FS_Singleton
<1> QED
    BY <1>1, <1>2

HasAnswer(c) == ~NoEnd(down[c]) \/ cst[c] = "disconn"

\* A client was told nothing or one answer, before and after each step.
LEMMA ToldOnce ==
    ASSUME WireTypes, WireTypes', NEW c \in Clients, Orderly(c), Orderly(c)'
    PROVE  /\ Told(c) = IF HasAnswer(c) THEN 1 ELSE 0
           /\ Told(c)' = IF HasAnswer(c)' THEN 1 ELSE 0
<1>1. Told(c) = IF HasAnswer(c) THEN 1 ELSE 0
    <2>1. Cardinality({i \in DOMAIN down[c] : Ends(down[c][i])}) = IF NoEnd(down[c]) THEN 0 ELSE 1
        BY OneEnd DEF WireTypes, Orderly, LastAnswer
    <2> QED
        BY <2>1 DEF Told, HasAnswer, Orderly, LastAnswer
<1>2. Told(c)' = IF HasAnswer(c)' THEN 1 ELSE 0
    <2>1. Cardinality({i \in DOMAIN down'[c] : Ends(down'[c][i])})
            = IF NoEnd(down'[c]) THEN 0 ELSE 1
        BY OneEnd DEF WireTypes, Orderly, LastAnswer
    <2> QED
        BY <2>1 DEF Told, HasAnswer, Orderly, LastAnswer
<1> QED
    BY <1>1, <1>2

\* Only ServTop leaves the loop.
LEMMA TopOnly ==
    ASSUME [SessNext]_sessVars, ph = "top", ph' = "exited"
    PROVE  ServTop /\ UNCHANGED cliVars
<1>1. CASE ServStep /\ UNCHANGED cliVars
    <2>1. ~(ServSelect \/ ServAccept \/ ServReadPtm \/ ServMark \/ ServDrop)
        BY DEF ServSelect, SelectReturns, ServAccept, serv_accept, NoAccept, ServReadPtm,
            ReadData, ReadEof, ReadNothing, ServMark, NonblockMark, ServDrop, DropOld
    <2>2. ~ServMsg
        BY MsgStep DEF serv_process_msg, MsgOther, MsgCloses, MsgClose, MsgSet, MsgInfo, MsgPass,
            Request
    <2>3. ~ServPass
        BY PassStep DEF serv_pass, NotPassing, PassSendFails, PassAborts, PassMatched, PassAtEof,
            PassGoesOn, Passing
    <2> QED
        BY <1>1, <2>1, <2>2, <2>3 DEF ServStep
<1>2. ASSUME NEW c \in Clients PROVE ~CliActs(c)
    BY ClientsOnly DEF vars
<1>3. ~(InstallHandler \/ serv_sigCHLD \/ ChildStep \/ Tick \/ UNCHANGED sessVars)
    BY DEF InstallHandler, serv_sigCHLD, ChildStep, Tick, sessVars, servVars, vars
<1> QED
    BY <1>1, <1>2, <1>3 DEF SessNext, Program, Environment, CliActs

\* The loop ends at its top only, as long as no assertion fails.
LEMMA DownStep ==
    ASSUME [SessNext]_sessVars, AssertHolds'
    PROVE  \/ ServDown' <=> ServDown
           \/ ph = "top" /\ ph' = "exited" /\ ~sock /\ UNCHANGED wire
<1>1. CASE ServTop /\ UNCHANGED cliVars
    BY <1>1 DEF ServTop, LoopTop, ExitLoop, ServDown, wire, connVars, wireVars
<1>2. [Next]_vars
    BY SessStep
<1>3. CASE ~(ServTop /\ UNCHANGED cliVars)
    <2>1. ph' = "exited" => ph = "exited" \/ ExitLoop
        BY <1>2 DEF Next, LoopTop, SelectReturns, serv_accept, NoAccept, ReadData, ReadEof,
            ReadNothing, NonblockMark, serv_process_msg, MsgOther, MsgCloses, MsgClose, MsgSet,
            MsgInfo, MsgPass, serv_pass, NotPassing, PassSendFails, PassAborts, PassMatched,
            PassAtEof, PassGoesOn, DropOld, vars
    <2>2. ph = "exited" \/ ph = "aborted" => ph' = ph
        BY <1>2 DEF Next, LoopTop, ExitLoop, SelectReturns, serv_accept, NoAccept, ReadData,
            ReadEof, ReadNothing, NonblockMark, serv_process_msg, MsgOther, MsgCloses, MsgClose,
            MsgSet, MsgInfo, MsgPass, Request, serv_pass, NotPassing, PassSendFails, PassAborts,
            PassMatched, PassAtEof, PassGoesOn, Passing, DropOld, vars
    <2>3. ~(ph = "top" /\ ph' = "exited")
        BY <1>3, TopOnly
    <2> QED
        BY <2>1, <2>2, <2>3 DEF ServDown, AssertHolds, ExitLoop
<1> QED
    BY <1>1, <1>3

\* The answers to the clients, as the service counts them.
Counts == [c \in Clients |-> Told(c)]

\* The exit status is only handed out with a pass that was asked for it.
LEMMA HandsOut ==
    ASSUME WireTypes, NEW c \in Clients, Serves(c), Talking(c), Asked(c)
    PROVE  /\ ~PassEnds(c) => waited' = waited
           /\ PassEnds(c) => \/ waited' = waited
                             \/ /\ ~waited /\ waited' = TRUE
                                /\ cmd[c] \in {"interact", "interact_re", "wait", "none"}
<1>1. ~PassEnds(c) => waited' = waited
    BY DEF Serves, GetsHello, GetsBadHello, GetsOldHello, GetsDisconn, GetsRequest, GetsPass,
           GetsOther,
           Receives, Closes, PassesOn
<1>2. ASSUME PassEnds(c)
      PROVE  \/ waited' = waited
             \/ /\ ~waited /\ waited' = TRUE
                /\ cmd[c] \in {"interact", "interact_re", "wait", "none"}
    <2>1. PICK a \in Final(pass) : IF a = "EXITED" THEN ~waited /\ waited' = TRUE ELSE UNCHANGED waited
        BY <1>2 DEF PassEnds
    <2>2. a = "EXITED" => pass \in {"interact", "interact_re", "wait"}
        BY DEF Final, expects_EXIT
    <2>3. copen[c] => pass = cmd[c]
        BY <1>2 DEF PassEnds, Asked
    <2>4. ~copen[c] => cmd[c] = "none"
        BY DEF Talking, Gone
    <2> QED
        BY <2>1, <2>2, <2>3, <2>4
<1> QED
    BY <1>1, <1>2

\* serv_process_msg() and serv_pass() reply, release the client, or do nothing
\* that the service knows of.
LEMMA ServesService ==
    ASSUME WireTypes, WireTypes', NEW c \in Clients, Serves(c), Conversations, Own, Order, Order',
           ServDown' = ServDown
    PROVE  [ToService!Reply(c) \/ ToService!Release(c)]_(ToService!serviceVars)
<1>0. /\ UNCHANGED <<cst, cmd>> /\ who = c /\ who' \in {c, NoClient} /\ NoClient \notin Clients
    BY ServerAssumption DEF Serves, GetsHello, GetsBadHello, GetsOldHello, GetsDisconn,
           GetsRequest, GetsPass,
           GetsOther, Receives, Closes, PassesOn, PassEnds, cliVars, StaysIfOpen
<1>1. Talking(c) /\ Asked(c) /\ Orderly(c)
    BY DEF Conversations, Own, Order
<1>2. ASSUME NEW d \in Clients, d # c PROVE Told(d)' = Told(d)
    <2>1. down' = down \/ (\E s : down' = [down EXCEPT ![c] = s])
        BY DEF Serves, GetsHello, GetsBadHello, GetsOldHello, GetsDisconn, GetsRequest, GetsPass,
               GetsOther,
           Closes, PassesOn, PassEnds, Sends, Receives
    <2>2. down'[d] = down[d]
        BY <1>2, <2>1 DEF WireTypes
    <2> QED
        BY <1>0, <2>2 DEF Told
<1>3. /\ Told(c) = IF HasAnswer(c) THEN 1 ELSE 0
      /\ Told(c)' = IF HasAnswer(c)' THEN 1 ELSE 0
    BY ToldOnce DEF Order
<1>4. /\ ~PassEnds(c) => waited' = waited
      /\ PassEnds(c) => \/ waited' = waited
                        \/ /\ ~waited /\ waited' = TRUE
                           /\ cmd[c] \in {"interact", "interact_re", "wait", "none"}
    BY <1>1, HandsOut
<1>5. ASSUME Told(c)' = Told(c) PROVE Counts' = Counts
    BY <1>2, <1>5 DEF Counts
<1>6. ASSUME Told(c)' = 1 PROVE Counts' = [Counts EXCEPT ![c] = 1]
    BY <1>2, <1>6 DEF Counts
<1>7. ASSUME Told(c)' = Told(c), who' = c, waited' = waited PROVE UNCHANGED ToService!serviceVars
    BY <1>0, <1>5, <1>7 DEF ToService!serviceVars, Counts
<1>8. ASSUME Told(c)' = Told(c), who' = NoClient,
             waited' = waited \/ (~waited /\ waited' = TRUE /\ cmd[c] = "none")
      PROVE  ToService!Release(c)
    BY <1>0, <1>5, <1>8 DEF ToService!Release, ToService!HandOut, Counts
<1>9. ASSUME Told(c) = 0, Told(c)' = 1, cmd[c] # "none",
             \/ waited' = waited
             \/ /\ ~waited /\ waited' = TRUE
                /\ cmd[c] \in {"interact", "interact_re", "wait", "none"}
      PROVE  ToService!Reply(c)
    <2>1. Counts[c] = 0
        BY <1>9 DEF Counts
    <2> QED
        BY <1>0, <1>6, <1>9, <2>1 DEF ToService!Reply, ToService!HandOut, Counts
<1>10. copen[c] => cmd[c] # "none"
    BY <1>1 DEF Talking, Gone
<1>11. CASE Replies(c)
    <2>1. Told(c) = 0
        BY <1>3, <1>11 DEF Replies, HasAnswer
    <2>2. PICK s \in Seq(Messages), a \in Messages : Ends(a) /\ NoEnd(s) /\ down'[c] = s \o <<a>>
        BY <1>11 DEF Replies
    <2>3. ~NoEnd(down'[c])
        BY <2>2, EndSent
    <2>4. Told(c)' = 1
        BY <1>3, <2>3 DEF HasAnswer
    <2> QED
        BY <1>4, <1>9, <1>10, <1>11, <2>1, <2>4 DEF Replies
<1>12. CASE ~Replies(c) /\ down'[c] = down[c]
    <2>1. Told(c)' = Told(c)
        BY <1>0, <1>3, <1>12 DEF HasAnswer
    <2>2. CASE PassEnds(c)
        <3>1. ~copen[c]
            BY <1>1, <1>12, <2>2, EndsReply
        <3>2. who' = NoClient /\ cmd[c] = "none"
            BY <1>1, <2>2, <3>1 DEF PassEnds, StaysIfOpen, Talking, Gone
        <3> QED
            BY <1>4, <1>8, <2>1, <2>2, <3>2
    <2>3. CASE ~PassEnds(c)
        BY <1>0, <1>4, <1>7, <1>8, <2>1, <2>3
    <2> QED
        BY <2>2, <2>3
<1>13. CASE Greets(c)
    <2>1. Told(c) = 0 /\ waited' = waited /\ copen[c]
        BY <1>3, <1>13, EndEmpty DEF Greets, HasAnswer
    <2>2. CASE GetsHello(c) /\ down'[c] = <<"HELLO">>
        <3>1. NoEnd(<<"HELLO">>)
            BY ElemsOne, EndKinds DEF NoEnd
        <3>2. Told(c)' = Told(c)
            BY <1>0, <1>3, <1>13, <2>1, <2>2, <3>1 DEF HasAnswer, Greets
        <3> QED
            BY <1>7, <2>1, <2>2, <3>2 DEF GetsHello, StaysIfOpen
    <2>3. CASE GetsBadHello(c) /\ down'[c] = <<"ERR_PROTO">>
        <3>1. ~NoEnd(<<"ERR_PROTO">>)
            BY ElemsOne, EndKinds DEF NoEnd
        <3>2. Told(c)' = 1
            BY <1>3, <2>3, <3>1 DEF HasAnswer
        <3> QED
            BY <1>9, <1>10, <2>1, <3>2
    <2> QED
        BY <1>13, <2>2, <2>3 DEF Greets
<1>14. CASE SendsOutput(c)
    <2>1. "OUTPUT" \in Messages /\ down[c] \in Seq(Messages)
        BY DEF Messages, WireTypes
    <2>2. \A s \in Seq(Messages) : NoEnd(s) => NoEnd(s \o <<"OUTPUT">>)
        BY <2>1, EndSent, EndKinds
    <2>3. NoEnd(down'[c])
        BY <1>14, <2>1, <2>2 DEF SendsOutput
    <2>4. Told(c)' = Told(c)
        BY <1>0, <1>3, <1>14, <2>3 DEF SendsOutput, HasAnswer
    <2> QED
        BY <1>7, <1>14, <2>4 DEF SendsOutput, PassesOn
<1>15. CASE Parts(c)
    <2>1. Told(c)' = Told(c)
        BY <1>0, <1>3, <1>15 DEF Parts, HasAnswer
    <2> QED
        BY <1>8, <1>15, <2>1 DEF Parts, GetsDisconn, Receives
<1> QED
    BY <1>1, <1>11, <1>12, <1>13, <1>14, <1>15, Writes

\* The clients come and leave.
LEMMA ClientService ==
    ASSUME ~MayDetach, WireTypes, WireTypes', NEW c \in Clients, CliActs(c), Conversations,
           Order, Order'
    PROVE  [ToService!Come(c) \/ ToService!Leave(c)]_(ToService!serviceVars)
<1>0. UNCHANGED <<who, waited, ph>>
    BY ClientsOnly DEF vars, procVars
<1>1. ServDown' = ServDown
    BY <1>0 DEF ServDown
<1>2. ASSUME NEW d \in Clients, d # c PROVE Told(d)' = Told(d)
    <2>1. down'[d] = down[d] /\ cst'[d] = cst[d]
        BY <1>2, ClientFrame
    <2> QED
        BY <2>1 DEF Told
<1>3. /\ Told(c) = IF HasAnswer(c) THEN 1 ELSE 0
      /\ Told(c)' = IF HasAnswer(c)' THEN 1 ELSE 0
    BY ToldOnce DEF Order
<1>4. ASSUME Told(c)' = Told(c) PROVE Counts' = Counts
    BY <1>2, <1>4 DEF Counts
<1>5. /\ down[c] \in Seq(Messages) /\ Gone(c) /\ Shaking(c) /\ LastAnswer(c)
    BY DEF WireTypes, Conversations, Talking, Order, Orderly
<1>6. CASE Comes(c)
    <2>1. Told(c) = 0 /\ Told(c)' = 0 /\ cmd[c] = "none" /\ ~ServDown
        BY <1>3, <1>5, <1>6, EndEmpty DEF Comes, Gone, HasAnswer, WireTypes
    <2>2. \E k \in Commands : cmd' = [cmd EXCEPT ![c] = k]
        BY <1>6 DEF Comes
    <2> QED
        BY <1>0, <1>1, <1>4, <2>1, <2>2 DEF ToService!Come, Counts
<1>7. CASE Quits(c)
    <2>1. Told(c)' = 0 /\ cmd[c] # "none" /\ cmd' = [cmd EXCEPT ![c] = "none"]
        BY <1>3, <1>5, <1>7, EndEmpty DEF Quits, EndsWith, CliEnds, Gone, HasAnswer, WireTypes
    <2>2. Counts' = [Counts EXCEPT ![c] = 0]
        BY <1>2, <2>1 DEF Counts
    <2> QED
        BY <1>0, <1>1, <2>1, <2>2 DEF ToService!Leave, Counts
<1>8. ASSUME ~Comes(c), ~Quits(c) PROVE UNCHANGED ToService!serviceVars
    <2>1. UNCHANGED cmd
        BY <1>8, ClientStep DEF Asks, TakesAnswer, TakesOutput, Skips, Types, Detaches, Reads
    <2>2. HasAnswer(c)' <=> HasAnswer(c)
        <3>1. CASE Asks(c)
            <4>1. /\ cst[c] = "hello" /\ cst'[c] = "loop" /\ down[c] # <<>> /\ Head(down[c]) = "HELLO"
                  /\ down'[c] = Tail(down[c])
                BY <3>1 DEF Asks, Reads, WireTypes
            <4>2. down[c] = <<"HELLO">>
                <5>1. Head(<<"ERR_PROTO">>) = "ERR_PROTO"
                    OBVIOUS
                <5> QED
                    BY <1>5, <4>1, <5>1 DEF Shaking
            <4>3. NoEnd(down[c]) /\ NoEnd(down'[c])
                <5>1. NoEnd(<<"HELLO">>) /\ Tail(<<"HELLO">>) = <<>>
                    BY ElemsOne, EndKinds DEF NoEnd
                <5> QED
                    BY <4>1, <4>2, <5>1, EndEmpty
            <4> QED
                BY <4>1, <4>3 DEF HasAnswer
        <3>2. CASE TakesAnswer(c)
            <4>1. /\ cst'[c] = "disconn" /\ down[c] # <<>> /\ Ends(Head(down[c]))
                BY <3>2 DEF TakesAnswer, Reads, WireTypes, Ends
            <4> QED
                BY <1>5, <4>1, EndRead DEF HasAnswer
        <3>3. CASE TakesOutput(c)
            <4>1. /\ cst'[c] = cst[c] /\ down[c] # <<>> /\ ~Ends(Head(down[c]))
                  /\ down'[c] = Tail(down[c])
                BY <3>3, EndKinds DEF TakesOutput, Reads, WireTypes
            <4> QED
                BY <1>5, <4>1, EndRead DEF HasAnswer
        <3>4. CASE Skips(c)
            <4>1. Head(<<"HELLO">>) = "HELLO" /\ Head(<<"ERR_PROTO">>) = "ERR_PROTO"
                OBVIOUS
            <4>2. cst[c] = "disconn" /\ cst'[c] = cst[c]
                BY <1>5, <3>4, <4>1 DEF Skips, Reads, Shaking
            <4> QED
                BY <4>2 DEF HasAnswer
        <3>5. CASE Types(c)
            BY <3>5 DEF Types, HasAnswer
        <3> QED
            BY <1>8, <3>1, <3>2, <3>3, <3>4, <3>5, ClientStep DEF Detaches
    <2>3. Told(c)' = Told(c)
        BY <1>3, <2>2
    <2> QED
        BY <1>0, <1>1, <1>4, <2>1, <2>3 DEF ToService!serviceVars, Counts
<1> QED
    BY <1>6, <1>7, <1>8

\* Every step of the sessions is one of the service, or hidden from it.
LEMMA ServiceStep ==
    ASSUME ~MayDetach, SessTypes, SessTypes', Conversations, Own, Order, Order', AssertHolds',
           [SessNext]_sessVars
    PROVE  [ToService!ServiceNext]_(ToService!serviceVars)
<1>0. WireTypes /\ WireTypes' /\ Connected /\ Watched
    BY DEF SessTypes
<1>1. CASE ph = "top" /\ ph' = "exited" /\ ~sock /\ UNCHANGED wire
    <2>1. UNCHANGED <<cmd, who, waited, down, cst>> /\ who = NoClient
        BY <1>0, <1>1 DEF wire, cliVars, Connected
    <2>2. Counts' = Counts
        BY <2>1 DEF Counts, Told
    <2>3. ~ServDown /\ ServDown' = TRUE
        BY <1>1 DEF ServDown
    <2>4. ToService!Stop
        BY <2>1, <2>2, <2>3 DEF ToService!Stop, Counts
    <2> QED
        BY <2>4 DEF ToService!ServiceNext
<1>2. CASE ServDown' <=> ServDown
    <2>0. ServDown' = ServDown
        BY <1>2 DEF ServDown
    <2>1. CASE UNCHANGED wire
        <3>1. UNCHANGED <<cmd, who, waited, down, cst>>
            BY <2>1 DEF wire, cliVars
        <3>2. Counts' = Counts
            BY <3>1 DEF Counts, Told
        <3> QED
            BY <2>0, <3>1, <3>2 DEF ToService!serviceVars, Counts
    <2>2. CASE Accepts
        <3>1. backlog # <<>> /\ UNCHANGED <<cmd, waited, down, cst>> /\ who = NoClient
            BY <1>0, <2>2 DEF Accepts, Watched, Connected, cliVars
        <3>2. who' \in Clients
            BY <1>0, <2>2, <3>1 DEF Accepts, WireTypes
        <3>3. Counts' = Counts
            BY <3>1 DEF Counts, Told
        <3>4. ~ServDown
            BY <2>2 DEF Accepts, ServDown
        <3>5. ToService!Serve(who')
            BY <2>0, <3>1, <3>3, <3>4 DEF ToService!Serve, Counts
        <3> QED
            BY <3>2, <3>5 DEF ToService!ServiceNext
    <2>3. ASSUME NEW c \in Clients, Serves(c)
          PROVE  [ToService!ServiceNext]_(ToService!serviceVars)
        BY <1>0, <2>0, <2>3, ServesService DEF ToService!ServiceNext
    <2>4. ASSUME NEW c \in Clients, CliActs(c)
          PROVE  [ToService!ServiceNext]_(ToService!serviceVars)
        BY <1>0, <2>4, ClientService DEF ToService!ServiceNext
    <2> QED
        BY <1>0, <2>1, <2>2, <2>3, <2>4, WireStep DEF Connected, WireTypes
<1> QED
    BY <1>1, <1>2, DownStep

\* Nobody was told anything yet.
LEMMA ServiceStart == SessInit => ToService!ServiceInit
<1> SUFFICES ASSUME SessInit PROVE ToService!ServiceInit
    OBVIOUS
<1>1. ASSUME NEW c \in Clients PROVE Told(c) = 0
    <2>1. down[c] = <<>> /\ cst[c] = "off"
        BY DEF SessInit, ServInit
    <2>2. <<>> \in Seq(Messages)
        OBVIOUS
    <2>3. Cardinality({i \in DOMAIN down[c] : Ends(down[c][i])}) = 0
        BY <2>1, <2>2, OneEnd, EndEmpty
    <2> QED
        BY <2>1, <2>3 DEF Told
<1>2. [c \in Clients |-> Told(c)] = [c \in Clients |-> 0]
    BY <1>1
<1>3. ServDown = FALSE
    BY DEF SessInit, ServInit, Init, ServDown
<1> QED
    BY <1>2, <1>3 DEF ToService!ServiceInit, SessInit, ServInit

\* As long as the assertion of buf_raw2expect() holds, the sessions implement
\* the service, for any number of clients and whatever they ask: one client is
\* served at a time, each request gets at most one answer, and it goes to the
\* client that asked, the exit status is handed out once, and the server stops
\* between clients.
THEOREM ServiceUnlessAborted ==
    ASSUME ~MayDetach PROVE SessSpec /\ []AssertHolds => ImplementsService
<1>1. SessSpec => []Order
    BY OrderInv
<1>2. SessTypes /\ SessTypes' /\ Conversations /\ Own /\ Order /\ Order' /\ AssertHolds'
         /\ [SessNext]_sessVars => [ToService!ServiceNext]_(ToService!serviceVars)
    BY ServiceStep
<1> QED
    BY <1>1, <1>2, ServiceStart, SessTypesInv, ConversationsInv, OwnInv, PTL
    DEF SessSpec, ImplementsService, ToService!ServiceSpec

\* Without `expect -eof', an expect without a pattern and -nonblock that assertion
\* never fails.
THEOREM ServiceCorrect ==
    ASSUME ~MayDetach, PassKinds \cap {"eof", "nopattern"} = {}, TRUE \notin NonblockModes
    PROVE  SessSpec => ImplementsService
<1>1. SessSpec => []AssertHolds
    BY SessionImplementsBuffers, AssertCorrect, PTL
<1>2. SessSpec /\ []AssertHolds => ImplementsService
    BY ServiceUnlessAborted
<1> QED
    BY <1>1, <1>2, PTL
=============================================================================
