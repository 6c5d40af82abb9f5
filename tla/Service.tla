------------------------------ MODULE Service ------------------------------
(***************************************************************************)
(* What a server promises to its clients, without buffers, sockets, pty    *)
(* and loop: it serves one client at a time, answers each request at most  *)
(* once and only while it serves that client, hands the exit status of the *)
(* child out once, and stops between two clients only.                     *)
(***************************************************************************)
EXTENDS Naturals

CONSTANTS
    Clients, NoClient,
    Requests,   \* what clients may want
    Waiters     \* the requests that may be answered with the exit status

VARIABLES
    request,    \* what each client wants, "none" when it is away
    replies,    \* how many answers that end its request it was given
    serving,    \* the client that is served
    collected,  \* the exit status was handed out
    stopped     \* the server is gone

serviceVars == <<request, replies, serving, collected, stopped>>

ServiceInit ==
    /\ request = [c \in Clients |-> "none"]
    /\ replies = [c \in Clients |-> 0]
    /\ serving = NoClient
    /\ collected = FALSE /\ stopped = FALSE

Come(c) ==
    /\ request[c] = "none" /\ ~stopped
    /\ \E k \in Requests : request' = [request EXCEPT ![c] = k]
    /\ UNCHANGED <<replies, serving, collected, stopped>>

\* A client ends by itself or is killed; the server may not know yet.
Leave(c) ==
    /\ request[c] # "none"
    /\ request' = [request EXCEPT ![c] = "none"]
    /\ replies' = [replies EXCEPT ![c] = 0]
    /\ UNCHANGED <<serving, collected, stopped>>

Serve(c) ==
    /\ serving = NoClient /\ ~stopped
    /\ serving' = c
    /\ UNCHANGED <<request, replies, collected, stopped>>

\* The exit status goes to the client that asked for it, once.
HandOut(c) ==
    \/ UNCHANGED collected
    \/ ~collected /\ collected' = TRUE /\ request[c] \in Waiters \cup {"none"}

\* The one answer; the server may close the connection with it.
Reply(c) ==
    /\ serving = c /\ request[c] # "none" /\ replies[c] = 0
    /\ replies' = [replies EXCEPT ![c] = 1]
    /\ serving' \in {c, NoClient}
    /\ HandOut(c)
    /\ UNCHANGED <<request, stopped>>

\* The end of a connection.  The answer to a client that was killed is lost.
Release(c) ==
    /\ serving = c
    /\ serving' = NoClient
    /\ HandOut(c) /\ (collected' # collected => request[c] = "none")
    /\ UNCHANGED <<request, replies, stopped>>

Stop ==
    /\ serving = NoClient /\ ~stopped
    /\ stopped' = TRUE
    /\ UNCHANGED <<request, replies, serving, collected>>

ServiceNext ==
    \/ Stop
    \/ \E c \in Clients : Come(c) \/ Leave(c) \/ Serve(c) \/ Reply(c) \/ Release(c)

ServiceSpec == ServiceInit /\ [][ServiceNext]_serviceVars

=============================================================================
