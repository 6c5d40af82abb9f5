----------------------------- MODULE MCServBuf -----------------------------
(* Instances of ServBuf for TLC. *)
EXTENDS ServBuf

\* Every request a client can make.
AllPassKinds == {"expect", "eof", "nopattern", "interact", "interact_re", "wait"}

=============================================================================
