--------------------------- MODULE MCConnections ---------------------------
(* An instance of Connections for TLC. *)
EXTENDS Connections

CONSTANTS r1, r2, r3, h1, h2

MCHost(r) == IF r = r3 THEN h2 ELSE h1

=============================================================================
