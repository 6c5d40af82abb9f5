-------------------------------- MODULE Loop --------------------------------
(***************************************************************************)
(* A loop over a string, as several functions of the client have it: a     *)
(* turn takes something off its front and may append to the result.  Rest  *)
(* and Out are functions on what is left: what a turn leaves, and what it  *)
(* appends.  Every turn takes something, so a string has no more turns     *)
(* than characters, and both are empty for the empty string.               *)
(***************************************************************************)
EXTENDS Integers, SequencesExt

Loop(Rest, Out, s) ==
    LET left[n \in 0 .. Len(s)] == IF n = 0 THEN s ELSE Rest[left[n - 1]]
    IN  FlattenSeq([n \in 1 .. Len(s) |-> Out[left[n - 1]]])

=============================================================================
