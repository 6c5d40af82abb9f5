------------------------------ MODULE SockPath ------------------------------
(***************************************************************************)
(* The servers that are spawned on one socket path (src/server.c,          *)
(* serv_main() and its end).  The path is the only name a client has for   *)
(* its server, so the file there must be the socket of the server that is  *)
(* running.                                                                *)
(***************************************************************************)
EXTENDS Naturals

CONSTANTS
    Servers,    \* the `sexpect spawn's
    NoFile,
    Serial      \* TRUE: a spawn starts after the one before it has returned

ASSUME SockPathAssumption == NoFile \notin Servers /\ Serial \in BOOLEAN

VARIABLES
    pc,         \* where each server is in serv_main()
    file        \* whose socket is at the path

spVars == <<pc, file>>

\* In serv_main() before daemonize(), where spawn returns to its caller.
Starting(s) == pc[s] \in {"check", "unlink", "bind", "realpath", "listen"}

\* connect() to its socket succeeds until the process is gone.
Listening(s) == pc[s] \in {"run", "leave"}

Goto(s, l) == pc' = [pc EXCEPT ![s] = l]

\* An earlier server that did not clean up may have left its file.
SpInit ==
    \E stale \in SUBSET Servers :
       /\ pc = [s \in Servers |-> IF s \in stale THEN "dead" ELSE "off"]
       /\ file \in stale \cup {NoFile}

SpSpawn(s) ==
    /\ pc[s] = "off" /\ (Serial => \A t \in Servers : ~Starting(t))
    /\ Goto(s, "check") /\ UNCHANGED file

\* Fault: the in-use check is left out.
CheckInUse_Not(s) ==
    /\ pc[s] = "check"
    /\ Goto(s, "unlink") /\ UNCHANGED file

\* sock_connect(): fatal("sockpath in use") when somebody answers.
CheckInUse(s) ==
    /\ pc[s] = "check"
    /\ Goto(s, IF file # NoFile /\ Listening(file) THEN "inuse" ELSE "unlink")
    /\ UNCHANGED file

\* Fault: bind() without unlink().
Unlink_Not(s) ==
    /\ pc[s] = "unlink"
    /\ Goto(s, "bind") /\ UNCHANGED file

Unlink(s) ==
    /\ pc[s] = "unlink"
    /\ file' = NoFile /\ Goto(s, "bind")

Bind(s) ==
    /\ pc[s] = "bind"
    /\ IF file = NoFile
       THEN file' = s /\ Goto(s, "realpath")
       ELSE Goto(s, "nobind") /\ UNCHANGED file

\* fatal_sys("realpath") when the file is gone again.
Realpath(s) ==
    /\ pc[s] = "realpath"
    /\ Goto(s, IF file = NoFile THEN "dead" ELSE "listen") /\ UNCHANGED file

Listen(s) ==
    /\ pc[s] = "listen"
    /\ Goto(s, "run") /\ UNCHANGED file

LoopEnds(s) ==
    /\ pc[s] = "run"
    /\ Goto(s, "leave") /\ UNCHANGED file

\* The last unlink() removes the path, whatever is there by now.
Leave(s) ==
    /\ pc[s] = "leave"
    /\ file' = NoFile /\ Goto(s, "dead")

\* Killed, or fatal(): the file stays.
SpCrash(s) ==
    /\ Starting(s) \/ Listening(s)
    /\ Goto(s, "dead") /\ UNCHANGED file

SpNext ==
    \E s \in Servers :
       \/ SpSpawn(s) \/ CheckInUse(s) \/ Unlink(s) \/ Bind(s) \/ Realpath(s)
       \/ Listen(s) \/ LoopEnds(s) \/ Leave(s) \/ SpCrash(s)

SpSpec == SpInit /\ [][SpNext]_spVars

-----------------------------------------------------------------------------
(* Properties *)

\* A running server can be reached: the file at the path is its socket.  Hence
\* there is only one, and neither a later spawn nor the end of an earlier
\* server takes its path away.
Reachable == \A s \in Servers : Listening(s) => file = s

\* "or bind() would fail: Address already in use (EADDRINUSE)": what a killed
\* server leaves behind never stops the next spawn.
BindSucceeds == \A s \in Servers : pc[s] # "nobind"

=============================================================================
