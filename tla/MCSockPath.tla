---------------------------- MODULE MCSockPath ----------------------------
(* Instances of SockPath for TLC. *)
EXTENDS SockPath

CONSTANTS s1, s2, s3, s4

FourServers == {s1, s2, s3, s4}

=============================================================================
