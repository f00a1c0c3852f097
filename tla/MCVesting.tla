----------------------------- MODULE MCVesting -----------------------------
(* Instances of Vesting for TLC.  Account 0 is "miners", 1 is "null".      *)
EXTENDS Vesting

Nobody == [a \in Account |-> 0]
First(n) == [a \in Account |-> IF a = Min(User) THEN n ELSE 0]
OneEach == [a \in Account |-> IF a \in User THEN 1 ELSE 0]
FirstOne == First(1)
Different == [a \in Account |-> IF a \in User THEN a - 1 ELSE 0]
FirstThree == First(3)

NothingMinted == {[content |-> 0, dev |-> 0, witness |-> 0]}
WitnessPaid == NothingMinted \cup {[content |-> 0, dev |-> 0, witness |-> 1]}
AllPaid == {[content |-> 1, dev |-> 1, witness |-> 1]}
=============================================================================
