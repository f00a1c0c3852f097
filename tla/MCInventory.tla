---------------------------- MODULE MCInventory ----------------------------
(* Three nodes, each connected to the others.  y makes a block, then z has *)
(* a second one or a transaction that refers to the first.                 *)
EXTENDS Inventory

MCNode == {"x", "y", "z"}
Ring == {{"x", "y"}, {"x", "z"}, {"y", "z"}}
MCPrev == [b1 |-> None, b2 |-> "b1", t |-> "b1"]
MCSource == [t |-> "z", b1 |-> "y", b2 |-> "z"]

=============================================================================
