--------------------------- MODULE MCConnections ---------------------------
(* Two nodes that know each other.                                          *)
EXTENDS Connections

Pair == {"x", "y"}
Each == [n \in Pair |-> Pair \ {n}]

=============================================================================
