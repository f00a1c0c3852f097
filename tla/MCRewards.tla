----------------------------- MODULE MCRewards -----------------------------
(* Two accounts post three comments, below each other or side by side, and  *)
(* vote for, against or no more.                                            *)
EXTENDS Rewards

Three == {"p", "q", "r"}
MCAuthor == [p |-> 1, q |-> 2, r |-> 1]
MCStake == [a \in Account |-> 20]
NoBeneficiary == [a \in Account |-> 0]
MCOptions == {[maxPayout |-> MaxPayout, votes |-> TRUE, curation |-> FALSE,
               beneficiaries |-> NoBeneficiary],
              [maxPayout |-> MaxPayout, votes |-> TRUE, curation |-> TRUE,
               beneficiaries |-> [a \in Account |-> IF a = 1 THEN 3 ELSE 0]]}
Voting == [comments |-> {"p", "q"}, parents |-> {Root}, percents |-> {8, 0, -8},
           options |-> MCOptions, maxOps |-> 5]
Talking == [comments |-> Three, parents |-> Three \cup {Root}, percents |-> {},
            options |-> {}, maxOps |-> 7]
MCWorlds == {Voting, Talking}
=============================================================================
