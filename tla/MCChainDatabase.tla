-------------------------- MODULE MCChainDatabase --------------------------
(***************************************************************************)
(* ChainDatabase on three block trees.  With two scheduled witnesses the   *)
(* irreversible block is the one both have confirmed.                      *)
(***************************************************************************)
EXTENDS ChainDatabase

TwoWitnesses == {"w1", "w2"}

\* Five transactions: t2 needs t1, t3 and t4 rule each other out, t4
\* expires early, t5 depends on nothing.
Transactions == {"t1", "t2", "t3", "t4", "t5"}
Expiry == [t1 |-> 9, t2 |-> 9, t3 |-> 9, t4 |-> 4, t5 |-> 9]
Needs == [t1 |-> {}, t2 |-> {"t1"}, t3 |-> {}, t4 |-> {}, t5 |-> {}]
RulesOut == [t1 |-> {}, t2 |-> {}, t3 |-> {"t4"}, t4 |-> {"t3"}, t5 |-> {}]

\* Branches after a2, and two after b3.  b4 is valid, d4 repeats the
\* transaction of b3; c3 is refused only after the irreversible block has
\* moved to a2; a5 is one block too far from the irreversible a1 when
\* _max_undo is 4.  a3 and a4 hold transactions that the branch of b3 leaves out.
ForkBlocks == {"a1", "a2", "a3", "a4", "a5", "b3", "b4", "b5", "c3", "c4", "d4"}
ForkPrev == [a1 |-> "genesis", a2 |-> "a1", a3 |-> "a2", a4 |-> "a3", a5 |-> "a4",
             b3 |-> "a2", b4 |-> "b3", b5 |-> "b4", c3 |-> "a2", c4 |-> "c3", d4 |-> "b3"]
ForkTxs == [a1 |-> <<>>, a2 |-> <<"t1">>, a3 |-> <<"t2">>, a4 |-> <<"t5">>, a5 |-> <<>>,
            b3 |-> <<"t4">>, b4 |-> <<>>, b5 |-> <<>>, c3 |-> <<>>, c4 |-> <<"t3">>,
            d4 |-> <<"t4">>]
ForkTime == [a1 |-> 1, a2 |-> 2, a3 |-> 3, a4 |-> 5, a5 |-> 6,
             b3 |-> 3, b4 |-> 4, b5 |-> 6, c3 |-> 4, c4 |-> 5, d4 |-> 4]
ForkProducer == [a1 |-> "w2", a2 |-> "w1", a3 |-> "w1", a4 |-> "w1", a5 |-> "w1",
                 b3 |-> "w2", b4 |-> "w2", b5 |-> "w2", c3 |-> "w2", c4 |-> "w1", d4 |-> "w1"]

\* Branches whose irreversible blocks conflict: a4 makes a3 irreversible and
\* c3 makes b2 irreversible, so the node meets longer branches that fork
\* below, and irreversible blocks inside a switch.
HardBlocks == {"a1", "a2", "a3", "a4", "b2", "b3", "b4", "c3"}
HardPrev == [a1 |-> "genesis", a2 |-> "a1", a3 |-> "a2", a4 |-> "a3",
             b2 |-> "a1", b3 |-> "b2", b4 |-> "b3", c3 |-> "b2"]
HardTxs == [a1 |-> <<>>, a2 |-> <<"t1">>, a3 |-> <<"t2">>, a4 |-> <<>>,
            b2 |-> <<"t3">>, b3 |-> <<"t1">>, b4 |-> <<>>, c3 |-> <<>>]
HardTime == [a1 |-> 1, a2 |-> 2, a3 |-> 4, a4 |-> 6, b2 |-> 3, b3 |-> 5, b4 |-> 7, c3 |-> 4]
HardProducer == [a1 |-> "w2", a2 |-> "w1", a3 |-> "w1", a4 |-> "w2",
                 b2 |-> "w1", b3 |-> "w1", b4 |-> "w2", c3 |-> "w2"]

\* An invalid d4 on the chain a1 a2 a3 a4, and b2 beside a2.
TipBlocks == {"a1", "a2", "a3", "a4", "b2", "d4"}
TipPrev == [a1 |-> "genesis", a2 |-> "a1", a3 |-> "a2", a4 |-> "a3", b2 |-> "a1", d4 |-> "a3"]
TipTxs == [b \in TipBlocks |-> <<>>]
TipTime == [a1 |-> 1, a2 |-> 2, a3 |-> 3, a4 |-> 4, b2 |-> 2, d4 |-> 5]
TipProducer == [a1 |-> "w2", a2 |-> "w1", a3 |-> "w1", a4 |-> "w2", b2 |-> "w2", d4 |-> "w2"]
=============================================================================
