----------------------------- MODULE MCPeerSync -----------------------------
(* x is connected to y and z.  Either x starts empty, y and z with two       *)
(* blocks, and y makes a third; or y and z start on two branches, and z must *)
(* leave its own for the longer one.                                         *)
EXTENDS PeerSync

MCNode == {"x", "y", "z"}
Star == {{"x", "y"}, {"x", "z"}}
Tree == {"a1", "a2", "a3", "b2"}
TreePrev == [a1 |-> "g", a2 |-> "a1", a3 |-> "a2", b2 |-> "a1"]
TreeMaker == [b \in Tree |-> "y"]
Line == [start |-> [x |-> "g", y |-> "a2", z |-> "a2"], drops |-> {{"x", "z"}}]
Slowly == [Line EXCEPT !.drops = {}]
Forked == [start |-> [x |-> "a2", y |-> "a3", z |-> "b2"], drops |-> {}]

LineOrForked == {Line, Forked}
JustForked == {Forked}
JustSlowly == {Slowly}
=============================================================================
