---------------------------- MODULE MCOrderNumber ---------------------------
(* A width that is no multiple of the modulus, as 2^32 is none of 10000.    *)

EXTENDS OrderNumber

MCPrefixes == [prefix \in {"sound", "too long"} |-> prefix = "sound"]

=============================================================================
