----------------------------- MODULE MCSession -----------------------------
(* Instances of Session for TLC. *)
EXTENDS Session, TLC

CONSTANTS c1, c2

OneClient == {c1}
TwoClients == {c1, c2}
ClientSymmetry == Permutations(TwoClients)

AllPasses == {"expect", "eof", "nopattern", "interact", "interact_re", "wait"}

Off == -1
NoTimeout == {-1}

\* spawn without options, and with the options of each run.
Default == [autowait |-> FALSE, ttl |-> 0, idle |-> 0, timeout |-> -1]
DefaultOnly == {Default}
TimeoutDefault == {[Default EXCEPT !.timeout = 0]}
Timers == {Default, [Default EXCEPT !.idle = 1], [Default EXCEPT !.ttl = 1]}
Autowait == {[Default EXCEPT !.autowait = TRUE]}

\* The clocks a run watches; the others stand still.
NoClock == [spawn |-> 0, active |-> 0, exit |-> 0, pass |-> 0, free |-> 0]
PassClock == [NoClock EXCEPT !.pass = 2]
IdleClocks == [NoClock EXCEPT !.spawn = 2, !.active = 2, !.exit = 2, !.free = 2]

=============================================================================
