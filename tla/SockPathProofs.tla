--------------------------- MODULE SockPathProofs ---------------------------
(***************************************************************************)
(* For any number of servers that are spawned one after the other, however *)
(* they end, a running server keeps its path and bind() always succeeds.   *)
(***************************************************************************)
EXTENDS SockPath, TLAPS

Locations == {"off", "check", "inuse", "unlink", "bind", "nobind", "realpath",
              "listen", "run", "leave", "dead"}

SpTypeOK == pc \in [Servers -> Locations] /\ file \in Servers \cup {NoFile}

\* Past the in-use check: no other server runs.
Claiming(s) == pc[s] \in {"unlink", "bind", "realpath", "listen"}

\* What serv_main() knows of the path when it reaches each place, and that
\* spawns do not overlap.
SpInv ==
    /\ SpTypeOK
    /\ \A s, t \in Servers : Starting(s) /\ Starting(t) => s = t
    /\ \A s, t \in Servers : Claiming(s) => ~Listening(t)
    /\ \A s \in Servers : pc[s] = "bind" => file = NoFile
    /\ \A s \in Servers : pc[s] \in {"realpath", "listen"} => file = s
    /\ Reachable
    /\ BindSucceeds

\* The path may hold a stale file at first, but nobody has started.
LEMMA SpInitInv == SpInit => SpInv
<1> SUFFICES ASSUME SpInit PROVE SpInv
    OBVIOUS
<1>1. PICK stale \in SUBSET Servers :
         /\ pc = [s \in Servers |-> IF s \in stale THEN "dead" ELSE "off"]
         /\ file \in stale \cup {NoFile}
    BY DEF SpInit
<1>2. \A s \in Servers : pc[s] \in {"dead", "off"}
    BY <1>1
<1>3. SpTypeOK
    BY <1>1 DEF SpTypeOK, Locations
<1> QED
    BY <1>2, <1>3 DEF SpInv, Starting, Claiming, Listening, Reachable, BindSucceeds

\* Every step of serv_main() keeps the invariant when spawns are serial.
LEMMA SpNextInv == ASSUME Serial, SpInv, [SpNext]_spVars PROVE SpInv'
<1> USE SockPathAssumption
<1>1. CASE UNCHANGED spVars
    BY <1>1 DEF SpInv, SpTypeOK, Starting, Claiming, Listening, Reachable,
                BindSucceeds, spVars
<1>2. ASSUME NEW s \in Servers, SpSpawn(s) PROVE SpInv'
    BY <1>2 DEF SpInv, SpTypeOK, Starting, Claiming, Listening, Reachable,
                BindSucceeds, SpSpawn, Goto, Locations
<1>3. ASSUME NEW s \in Servers, CheckInUse(s) PROVE SpInv'
    BY <1>3 DEF SpInv, SpTypeOK, Starting, Claiming, Listening, Reachable,
                BindSucceeds, CheckInUse, Goto, Locations
<1>4. ASSUME NEW s \in Servers, Unlink(s) PROVE SpInv'
    BY <1>4 DEF SpInv, SpTypeOK, Starting, Claiming, Listening, Reachable,
                BindSucceeds, Unlink, Goto, Locations
<1>5. ASSUME NEW s \in Servers, Bind(s) PROVE SpInv'
    BY <1>5 DEF SpInv, SpTypeOK, Starting, Claiming, Listening, Reachable,
                BindSucceeds, Bind, Goto, Locations
<1>6. ASSUME NEW s \in Servers, Realpath(s) \/ Listen(s) PROVE SpInv'
    BY <1>6 DEF SpInv, SpTypeOK, Starting, Claiming, Listening, Reachable,
                BindSucceeds, Realpath, Listen, Goto, Locations
<1>7. ASSUME NEW s \in Servers, LoopEnds(s) \/ Leave(s) \/ SpCrash(s) PROVE SpInv'
    BY <1>7 DEF SpInv, SpTypeOK, Starting, Claiming, Listening, Reachable,
                BindSucceeds, LoopEnds, Leave, SpCrash, Goto, Locations
<1> QED
    BY <1>1, <1>2, <1>3, <1>4, <1>5, <1>6, <1>7 DEF SpNext

\* One spawn after the other: the socket file is always the running server's,
\* and the unlink() before bind() is all that a stale file needs.
THEOREM PathIsOurs ==
    ASSUME Serial PROVE SpSpec => [](Reachable /\ BindSucceeds)
<1>1. SpInit => SpInv
    BY SpInitInv
<1>2. SpInv /\ [SpNext]_spVars => SpInv'
    BY SpNextInv
<1>3. SpInv => Reachable /\ BindSucceeds
    BY DEF SpInv
<1> QED
    BY <1>1, <1>2, <1>3, PTL DEF SpSpec

\* What a killed server leaves in the path never makes the bind() of the next
\* one fail.
THEOREM BindCorrect == ASSUME Serial PROVE SpSpec => []BindSucceeds
BY PathIsOurs, PTL

=============================================================================
