---------------------------- MODULE MCServBytes ----------------------------
(* Instances of ServBytes and Lookback for TLC. *)
EXTENDS Lookback

\* Every request a client can make.
AllPassKinds == {"expect", "eof", "nopattern", "interact", "interact_re", "wait"}

\* The child's output starts anywhere in this cycle: patterns with and without
\* a NUL or a NL in them, lines of no, one, two and three bytes, NULs at the
\* start and at the end of a line.
Cycle == <<"a", "b", "nl", "a", "a", "b", "nl", "nl", "a", "nul", "b", "nul", "nl", "b">>
CycleOutputs ==
    {[i \in 1 .. MaxTotal |-> Cycle[((i + k) % Len(Cycle)) + 1]] : k \in {0, 2, 5, 10}}

AB == <<"a", "b">>

=============================================================================
