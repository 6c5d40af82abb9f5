------------------------------ MODULE MCRelay ------------------------------
(* An instance of Relay for TLC. *)
EXTENDS Relay

KeyDetach == <<1, DETACH>>
AB == <<97, 98>>

\* (b)::(1)<(0)>  and  a::-
TwoSubsts == << <<40, 98, 41, 58, 58, 40, 49, 41, 60, 40, 48, 41, 62>>, <<97, 58, 58, 45>> >>

\* ()::-
EmptySubst == << <<40, 41, 58, 58, 45>> >>

=============================================================================
