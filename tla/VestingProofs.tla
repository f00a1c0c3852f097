--------------------------- MODULE VestingProofs ---------------------------
(***************************************************************************)
(* Proofs about Vesting, for any accounts, amounts, routes, prices and     *)
(* depths of proxies.  First the money: the supply is what accounts and    *)
(* funds hold, power-downs pay exactly what was asked for, and no          *)
(* operation lowers the worth of a share.  Then the votes: what an account *)
(* votes with is its own shares and those of the accounts whose chain of   *)
(* proxies leads to it, a witness has the votes of those who vote for it,  *)
(* and every share votes once.                                             *)
(*                                                                         *)
(* That the books balance is not inductive.  A price is the fund over the  *)
(* shares, so somebody must always keep shares when all power-downs have   *)
(* paid out (Kept); and the last instalment is a remainder of a division,  *)
(* which is what is left only if whole instalments came before it (Downs). *)
(* The first holds only where withdraw_vesting_evaluator refuses to power  *)
(* down everything, which it does by the rate of inflation: on the main    *)
(* net that is never 0, and the theorems have it as their hypothesis.      *)
(***************************************************************************)
EXTENDS Vesting, SumProofs

-----------------------------------------------------------------------------
(* Prices.                                                                 *)

\* An instalment is at least one share.
LEMMA AtLeastOne ==
  ASSUME NEW q \in Nat
  PROVE  Max({1, q}) \in Nat /\ Max({1, q}) # 0
<1> DEFINE S == {1, q}
<1>1. S = {1} \cup {q}
  OBVIOUS
<1>2. IsFiniteSet({1} \cup {q})
  BY FS_Singleton, FS_AddElement
<1>3. IsFiniteSet(S)
  BY <1>1, <1>2
<1>4. S \in SUBSET Nat /\ 1 \in S
  OBVIOUS
<1> HIDE DEF S
<1>5. S # {}
  BY <1>4
<1>6. Max(S) \in S /\ \A y \in S : y <= Max(S)
  BY <1>3, <1>4, <1>5, MaxOf
<1>7. Max(S) \in Nat /\ 1 <= Max(S)
  BY <1>4, <1>6
<1> QED BY <1>7 DEF S

\* What v of s shares are worth of a fund f: not more than the fund, not all
\* of it while shares are left, and these do not lose.
LEMMA Worth ==
  ASSUME NEW f \in Nat, NEW s \in Nat, s > 0, NEW v \in Nat, v <= s
  PROVE  /\ (v * f) \div s \in 0..f
         /\ v < s /\ f > 0 => (v * f) \div s < f
         /\ (f - (v * f) \div s) * s >= f * (s - v)
<1> DEFINE q == (v * f) \div s
<1>1. v * f \in Nat /\ s * f \in Nat
  BY Products
<1>2. q \in Nat /\ s * q <= v * f
  BY <1>1, Division
<1> HIDE DEF q
<1>3. v * f <= s * f /\ (v < s /\ f > 0 => v * f < s * f)
  BY ProductGrows
<1>4. q * s <= f * s /\ (v < s /\ f > 0 => q * s < f * s)
  BY <1>1, <1>2, <1>3
<1>5. q <= f /\ (v < s /\ f > 0 => q < f)
  BY <1>2, <1>4, ProductGrows
<1>6. (f - q) * s >= f * (s - v)
  BY <1>2
<1> QED BY <1>2, <1>5, <1>6 DEF q

-----------------------------------------------------------------------------
(* One account after the other.  InTurn takes an operator, which a lemma    *)
(* cannot be about; Turn names the three it is used with.                   *)

Turn(how, x, a, b, v) ==
    IF how = "vests" THEN PayVests(x, a, b, v)
    ELSE IF how = "wls" THEN PayWls(x, a, b, v)
    ELSE Withdraw(x, b)

\* g[U] is the database after the turns of the accounts in U.
Turns(g, S, how, d, a, v) ==
    g = [U \in SUBSET S |-> IF U = {} THEN d ELSE Turn(how, g[U \ {Max(U)}], a, Max(U), v)]

\* There is one: a smallest set without it would get it from the set without
\* the account whose turn is last.
LEMMA TurnsExist ==
  ASSUME NEW S \in SUBSET Account, NEW how, NEW d, NEW a, NEW v
  PROVE  \E g : Turns(g, S, how, d, a, v)
<1> USE DEF Turns
<1> DEFINE It(g, T) == [U \in SUBSET T |-> IF U = {} THEN d ELSE Turn(how, g[U \ {Max(U)}], a, Max(U), v)]
           F == {T \in SUBSET S : \A g : g # It(g, T)}
<1>0. S \in SUBSET Nat /\ IsFiniteSet(S)
  BY VestingAssumption, FS_Subset
<1>1. CASE F = {}
  <2>1. ~ \A g : g # It(g, S)
    BY <1>1, Zenon
  <2> QED BY <2>1, Zenon
<1>2. CASE F # {}
  <2>1. PICK T \in F : \A x \in T : T \ {x} \notin F
    <3>1. F \in SUBSET (SUBSET S)
      OBVIOUS
    <3> HIDE DEF F
    <3> QED BY <1>0, <1>2, <3>1, SmallestSubset
  <2>2. T \in SUBSET Nat /\ IsFiniteSet(T) /\ T \in SUBSET S
    BY <1>0, <2>1, FS_Subset
  <2>3. CASE T = {}
    <3> DEFINE g == [U \in SUBSET T |-> d]
    <3>1. g = It(g, T)
      BY <2>3
    <3> QED BY <2>1, <3>1
  <2>4. CASE T # {}
    <3> DEFINE m == Max(T)
               R == T \ {m}
    <3>1. m \in T /\ R \in SUBSET S /\ R \notin F
      BY <2>1, <2>2, <2>4, MaxOf
    <3>2. PICK h : h = It(h, R)
      BY <3>1
    <3> DEFINE g == [U \in SUBSET T |-> IF m \in U THEN Turn(how, h[U \ {m}], a, m, v) ELSE h[U]]
    <3>3. ASSUME NEW U \in SUBSET T
          PROVE  g[U] = IF U = {} THEN d ELSE Turn(how, g[U \ {Max(U)}], a, Max(U), v)
      <4>1. CASE m \in U
        <5>1. Max(U) = m
          BY <2>2, <4>1, MaxStays
        <5>2. U \ {m} \in SUBSET T /\ m \notin U \ {m} /\ U # {}
          BY <4>1
        <5>3. g[U \ {m}] = h[U \ {m}]
          BY <5>2
        <5> QED BY <4>1, <5>1, <5>2, <5>3
      <4>2. CASE m \notin U
        <5>1. U \in SUBSET R /\ U \ {Max(U)} \in SUBSET R /\ m \notin U \ {Max(U)}
          BY <4>2
        <5>2. g[U] = h[U] /\ g[U \ {Max(U)}] = h[U \ {Max(U)}]
          BY <4>2, <5>1
        <5>3. h[U] = IF U = {} THEN d ELSE Turn(how, h[U \ {Max(U)}], a, Max(U), v)
          BY <3>2, <5>1
        <5> QED BY <5>2, <5>3
      <4> QED BY <4>1, <4>2
    <3>4. g = [U \in SUBSET T |-> g[U]]
      OBVIOUS
    <3> HIDE DEF g, m
    <3>5. g = It(g, T)
      BY <3>3, <3>4
    <3> QED BY <2>1, <3>5
  <2> QED BY <2>3, <2>4
<1> QED BY <1>1, <1>2

\* The states of a database while destinations are given vests: after T is
\* after the others of T and then the last of them.
VestsStates(g, d, a, v) ==
    LET S == RoutesOf(d, a)
    IN /\ PayAllVests(d, a, v) = g[S] /\ g[{}] = d
       /\ \A T \in SUBSET S : T # {} => Max(T) \in T /\ g[T] = PayVests(g[T \ {Max(T)}], a, Max(T), v)

\* There are such states: those the fold of InTurn goes through.
LEMMA VestsTurns ==
  ASSUME NEW d, NEW a, NEW v
  PROVE  \E g : VestsStates(g, d, a, v)
<1> DEFINE S == RoutesOf(d, a)
           g == CHOOSE g : g = [U \in SUBSET S |-> IF U = {} THEN d ELSE PayVests(g[U \ {Max(U)}], a, Max(U), v)]
<1>0. S \in SUBSET Account
  BY DEF RoutesOf
<1>1. PICK h : Turns(h, S, "vests", d, a, v)
  BY <1>0, TurnsExist
<1>2. h = [U \in SUBSET S |-> IF U = {} THEN d ELSE PayVests(h[U \ {Max(U)}], a, Max(U), v)]
  BY <1>1 DEF Turns, Turn
<1>3. g = [U \in SUBSET S |-> IF U = {} THEN d ELSE PayVests(g[U \ {Max(U)}], a, Max(U), v)]
  BY <1>2, Zenon
<1>4. PayAllVests(d, a, v) = g[S]
  BY Zenon DEF PayAllVests, InTurn, MapThenFoldSet
<1> HIDE DEF g, S
<1>5. \A T \in SUBSET S : T # {} => Max(T) \in T
  BY <1>0, VestingAssumption, FS_Subset, MaxOf
<1>6. g[{}] = d /\ \A T \in SUBSET S : T # {} => g[T] = PayVests(g[T \ {Max(T)}], a, Max(T), v)
  BY <1>3
<1> QED BY <1>4, <1>5, <1>6 DEF S, VestsStates

\* The same, while destinations are given WLS.
WlsStates(g, d, a, v) ==
    LET S == RoutesOf(d, a)
    IN /\ PayAllWls(d, a, v) = g[S] /\ g[{}] = d
       /\ \A T \in SUBSET S : T # {} => Max(T) \in T /\ g[T] = PayWls(g[T \ {Max(T)}], a, Max(T), v)

\* There are such states.
LEMMA WlsTurns ==
  ASSUME NEW d, NEW a, NEW v
  PROVE  \E g : WlsStates(g, d, a, v)
<1> DEFINE S == RoutesOf(d, a)
           g == CHOOSE g : g = [U \in SUBSET S |-> IF U = {} THEN d ELSE PayWls(g[U \ {Max(U)}], a, Max(U), v)]
<1>0. S \in SUBSET Account
  BY DEF RoutesOf
<1>1. PICK h : Turns(h, S, "wls", d, a, v)
  BY <1>0, TurnsExist
<1>2. h = [U \in SUBSET S |-> IF U = {} THEN d ELSE PayWls(h[U \ {Max(U)}], a, Max(U), v)]
  BY <1>1 DEF Turns, Turn
<1>3. g = [U \in SUBSET S |-> IF U = {} THEN d ELSE PayWls(g[U \ {Max(U)}], a, Max(U), v)]
  BY <1>2, Zenon
<1>4. PayAllWls(d, a, v) = g[S]
  BY Zenon DEF PayAllWls, InTurn, MapThenFoldSet
<1> HIDE DEF g, S
<1>5. \A T \in SUBSET S : T # {} => Max(T) \in T
  BY <1>0, VestingAssumption, FS_Subset, MaxOf
<1>6. g[{}] = d /\ \A T \in SUBSET S : T # {} => g[T] = PayWls(g[T \ {Max(T)}], a, Max(T), v)
  BY <1>3
<1> QED BY <1>4, <1>5, <1>6 DEF S, WlsStates

\* The same, while the accounts that are due withdraw.
WithdrawStates(g, d) ==
    LET S == {a \in Account : d.next[a] = 0}
    IN /\ WithdrawDue(d) = g[S] /\ g[{}] = d
       /\ \A T \in SUBSET S : T # {} => Max(T) \in T /\ g[T] = Withdraw(g[T \ {Max(T)}], Max(T))

\* There are such states.
LEMMA WithdrawTurns ==
  ASSUME NEW d
  PROVE  \E g : WithdrawStates(g, d)
<1> DEFINE S == {a \in Account : d.next[a] = 0}
           g == CHOOSE g : g = [U \in SUBSET S |-> IF U = {} THEN d ELSE Withdraw(g[U \ {Max(U)}], Max(U))]
<1>0. S \in SUBSET Account
  OBVIOUS
<1>1. PICK h : Turns(h, S, "withdraw", d, 0, 0)
  BY <1>0, TurnsExist
<1>2. h = [U \in SUBSET S |-> IF U = {} THEN d ELSE Withdraw(h[U \ {Max(U)}], Max(U))]
  BY <1>1 DEF Turns, Turn
<1>3. g = [U \in SUBSET S |-> IF U = {} THEN d ELSE Withdraw(g[U \ {Max(U)}], Max(U))]
  BY <1>2, Zenon
<1>4. WithdrawDue(d) = g[S]
  BY Zenon DEF WithdrawDue, InTurn, MapThenFoldSet
<1> HIDE DEF g, S
<1>5. \A T \in SUBSET S : T # {} => Max(T) \in T
  BY <1>0, VestingAssumption, FS_Subset, MaxOf
<1>6. g[{}] = d /\ \A T \in SUBSET S : T # {} => g[T] = Withdraw(g[T \ {Max(T)}], Max(T))
  BY <1>3
<1> QED BY <1>4, <1>5, <1>6 DEF S, WithdrawStates

-----------------------------------------------------------------------------
(* Votes.                                                                  *)

SameRewards(x, d) ==
    /\ x.reward = d.reward /\ x.rewardVests = d.rewardVests /\ x.rewardSteem = d.rewardSteem
    /\ x.pendShares = d.pendShares /\ x.pendSteem = d.pendSteem
    /\ x.rewardFund = d.rewardFund /\ x.supply = d.supply

SameDowns(x, d) ==
    /\ x.rate = d.rate /\ x.toWithdraw = d.toWithdraw /\ x.withdrawn = d.withdrawn
    /\ x.next = d.next

SameFund(x, d) ==
    x.balance = d.balance /\ x.vests = d.vests /\ x.fund = d.fund /\ x.shares = d.shares

\* x is d but for votes, proxies, what is proxied, and an assertion that fails.
Recast(x, d) ==
    /\ x \in Db /\ (x.ok => d.ok)
    /\ SameRewards(x, d) /\ SameDowns(x, d) /\ SameFund(x, d) /\ x.routes = d.routes

\* adjust_witness_votes moves votes and no money.
LEMMA RecastVotes ==
  ASSUME NEW d \in Db, NEW b, NEW n \in Int
  PROVE  Recast(AdjustWitnessVotes(d, b, n), d)
<1> DEFINE for == {w \in Witness : <<b, w>> \in d.voted}
           q == [w \in Witness |-> IF w \in for THEN d.votes[w] + n ELSE d.votes[w]]
           c == \A w \in for : d.votes[w] + n =< d.shares
           k == d.ok /\ c
<1>1. d.votes \in [Witness -> Int] /\ d.ok \in BOOLEAN
  BY DEF Db
<1>2. q \in [Witness -> Int]
  <2> HIDE DEF for
  <2> QED BY <1>1
<1>3. k \in BOOLEAN /\ (k => d.ok)
  BY <1>1, Zenon
<1>4. AdjustWitnessVotes(d, b, n) = [d EXCEPT !.votes = q, !.ok = k]
  BY Zenon DEF AdjustWitnessVotes
<1> DEFINE x == [d EXCEPT !.votes = q, !.ok = k]
<1> HIDE DEF q, k
<1>5. x \in Db
  BY <1>2, <1>3 DEF Db
<1>6. x.ok = k
  BY DEF Db
<1>7. SameRewards(x, d) /\ SameDowns(x, d) /\ SameFund(x, d) /\ x.routes = d.routes
  BY DEF SameRewards, SameDowns, SameFund, Db
<1> HIDE DEF x
<1>8. x.ok => d.ok
  BY <1>3, <1>6, Zenon
<1> QED BY <1>4, <1>5, <1>7, <1>8, Zenon DEF Recast, x

\* Nor does booking what is proxied.
LEMMA RecastProxied ==
  ASSUME NEW d \in Db, NEW p \in ByDistance
  PROVE  Recast([d EXCEPT !.proxied = p], d)
BY DEF Recast, SameRewards, SameDowns, SameFund, Db

\* adjust_proxied_witness_votes moves votes and no money.
LEMMA AdjustOK ==
  ASSUME NEW d \in Db, NEW a, NEW delta \in [0..Depth -> Int]
  PROVE  Recast(AdjustProxied(d, a, delta), d)
<1> DEFINE up == ProxyChain(d, a)
           Gain(b, i) == SumFunctionOnSet([k \in 1..(i+1) |-> delta[i - k + 1]],
                                          {k \in 1..(i+1) : up[k] = b})
           p == [b \in Account |-> [i \in 0..(Depth-1) |-> d.proxied[b][i] + Gain(b, i)]]
           booked == [d EXCEPT !.proxied = p]
           root == {k \in 0..Depth : up[k] # Self /\ d.proxy[up[k]] = Self}
<1>0. Depth \in Nat
  BY VestingAssumption
<1>1. ASSUME NEW b \in Account, NEW i \in 0..(Depth-1) PROVE Gain(b, i) \in Int
  <2> DEFINE I == {k \in 1..(i+1) : up[k] = b}
             f == [k \in 1..(i+1) |-> delta[i - k + 1]]
  <2>1. i \in Nat /\ IsFiniteSet(1..(i+1))
    BY <1>0, FS_Interval
  <2>2. IsFiniteSet(I)
    BY <2>1, FS_Subset
  <2>3. ASSUME NEW k \in I PROVE f[k] \in Int
    <3>1. k \in 1..(i+1) /\ i - k + 1 \in 0..Depth
      BY <1>0, <2>1
    <3> QED BY <3>1
  <2> HIDE DEF I, f
  <2>4. SumFunctionOnSet(f, I) \in Int
    BY <2>2, <2>3, SumType
  <2> QED BY <2>4 DEF f, I
<1> HIDE DEF Gain
<1>2. p \in ByDistance
  <2>1. d.proxied \in ByDistance
    BY DEF Db
  <2>2. ASSUME NEW b \in Account
        PROVE  [i \in 0..(Depth-1) |-> d.proxied[b][i] + Gain(b, i)] \in [0..(Depth-1) -> Int]
    <3>1. ASSUME NEW i \in 0..(Depth-1) PROVE d.proxied[b][i] + Gain(b, i) \in Int
      <4>1. d.proxied[b][i] \in Int
        BY <2>1 DEF ByDistance
      <4>2. Gain(b, i) \in Int
        BY <1>1
      <4> QED BY <4>1, <4>2
    <3> QED BY <3>1
  <2> QED BY <2>2 DEF ByDistance
<1> HIDE DEF p
<1>3. Recast(booked, d)
  BY <1>2, RecastProxied
<1>4. CASE root = {}
  BY <1>3, <1>4 DEF AdjustProxied, Gain, p
<1>5. CASE root # {}
  <2> DEFINE r == Min(root)
             n == SumFunctionOnSet(delta, 0..(Depth-r))
  <2>1. r \in 0..Depth
    <3>1. root \in SUBSET Nat
      BY <1>0
    <3> HIDE DEF root
    <3>2. PICK x \in root : \A y \in root : x <= y
      BY <1>5, <3>1, LeastOf
    <3>3. Min(root) \in root
      BY <3>2 DEF Min
    <3> QED BY <3>3 DEF root
  <2> HIDE DEF r
  <2>2. n \in Int
    <3> DEFINE I == 0..(Depth-r)
    <3>1. Depth - r \in Int /\ \A k \in I : k \in 0..Depth
      BY <1>0, <2>1
    <3>2. IsFiniteSet(I)
      BY <3>1, FS_Interval
    <3> HIDE DEF I
    <3>3. \A k \in I : delta[k] \in Int
      BY <3>1
    <3>4. SumFunctionOnSet(delta, I) \in Int
      BY <3>2, <3>3, SumType
    <3> QED BY <3>4 DEF I
  <2> HIDE DEF n
  <2>3. Recast(AdjustWitnessVotes(booked, up[r], n), booked)
    BY <1>3, <2>2, RecastVotes DEF Recast
  <2>4. AdjustProxied(d, a, delta) = AdjustWitnessVotes(booked, up[r], n)
    BY <1>5 DEF AdjustProxied, Gain, p, r, n
  <2> QED BY <1>3, <2>3, <2>4 DEF Recast, SameRewards, SameDowns, SameFund
<1> QED BY <1>4, <1>5

\* So does its overload for a change of an account's own vests.
LEMMA OwnVotesOK ==
  ASSUME NEW d \in Db, NEW a, NEW n \in Int
  PROVE  Recast(AdjustOwnVotes(d, a, n), d)
<1>1. [i \in 0..Depth |-> IF i = 0 THEN n ELSE 0] \in [0..Depth -> Int]
  OBVIOUS
<1> QED BY <1>1, AdjustOK DEF AdjustOwnVotes

-----------------------------------------------------------------------------
(* Totals.                                                                 *)

\* The total of a column is a natural number that no one or two of its
\* entries exceed.
LEMMA TotalNat ==
  ASSUME NEW f \in Amount
  PROVE  /\ Total(f) \in Nat
         /\ \A a \in Account : f[a] <= Total(f)
         /\ \A a, b \in Account : a # b => f[a] + f[b] <= Total(f)
<1>1. IsFiniteSet(Account) /\ (\A x \in Account : f[x] \in Nat) /\ DOMAIN f = Account
  BY VestingAssumption DEF Amount
<1>2. Total(f) = SumFunctionOnSet(f, Account)
  BY <1>1, Zenon DEF Total, SumFunction
<1>3. Total(f) \in Nat /\ \A a \in Account : f[a] <= Total(f)
  BY <1>1, <1>2, SumNat
<1>4. ASSUME NEW a \in Account, NEW b \in Account, a # b
      PROVE  f[a] + f[b] <= Total(f)
  <2> DEFINE R == Account \ {a}
  <2>1. IsFiniteSet(R) /\ (\A x \in R : f[x] \in Nat) /\ b \in R
    BY <1>1, <1>4, FS_RemoveElement
  <2>2. SumFunctionOnSet(f, Account) = SumFunctionOnSet(f, R) + f[a]
    BY <1>1, SumAdd
  <2> HIDE DEF R
  <2>3. SumFunctionOnSet(f, R) \in Nat /\ f[b] <= SumFunctionOnSet(f, R)
    BY <2>1, SumNat
  <2> QED BY <1>1, <1>2, <2>2, <2>3
<1> QED BY <1>3, <1>4

\* Changing one entry changes the total by as much.
LEMMA TotalChanged ==
  ASSUME NEW f \in Amount, NEW a \in Account, NEW n \in Nat
  PROVE  /\ [f EXCEPT ![a] = n] \in Amount
         /\ Total([f EXCEPT ![a] = n]) = Total(f) - f[a] + n
<1> DEFINE h == [f EXCEPT ![a] = n]
<1>1. IsFiniteSet(Account) /\ (\A x \in Account : f[x] \in Nat) /\ DOMAIN f = Account
  BY VestingAssumption DEF Amount
<1>2. h \in Amount /\ h[a] = n /\ DOMAIN h = Account /\ \A x \in Account \ {a} : h[x] = f[x]
  BY <1>1 DEF Amount
<1>3. Total(f) = SumFunctionOnSet(f, Account)
  BY <1>1, Zenon DEF Total, SumFunction
<1>4. Total(h) = SumFunctionOnSet(h, Account)
  BY <1>2, Zenon DEF Total, SumFunction
<1> HIDE DEF h
<1>5. SumFunctionOnSet(h, Account) = SumFunctionOnSet(f, Account) - f[a] + h[a]
  BY <1>1, <1>2, SumChanged
<1>6. h \in Amount /\ Total(h) = Total(f) - f[a] + n
  BY <1>2, <1>3, <1>4, <1>5
<1> QED BY <1>6 DEF h

\* A credit, or a debit that is covered.
LEMMA Credited ==
  ASSUME NEW f \in Amount, NEW a \in Account, NEW n \in Int, f[a] + n >= 0
  PROVE  /\ Credit(f, a, n) \in Amount
         /\ Total(Credit(f, a, n)) = Total(f) + n
         /\ Credit(f, a, n)[a] = f[a] + n
         /\ \A c \in Account \ {a} : Credit(f, a, n)[c] = f[c]
<1>1. f[a] \in Nat /\ f[a] + n \in Nat
  BY DEF Amount
<1> DEFINE k == f[a] + n
<1>2. Credit(f, a, n) = [f EXCEPT ![a] = k]
  BY DEF Credit
<1>3. Credit(f, a, n) \in Amount /\ Total(Credit(f, a, n)) = Total(f) - f[a] + k
  <2>1. k \in Nat
    BY <1>1
  <2> HIDE DEF k
  <2> QED BY <1>2, <2>1, TotalChanged
<1>4. Total(f) \in Nat
  BY TotalNat
<1>5. Credit(f, a, n)[a] = f[a] + n /\ \A c \in Account \ {a} : Credit(f, a, n)[c] = f[c]
  BY <1>2 DEF Amount
<1> QED BY <1>1, <1>3, <1>4, <1>5
\* The power-down of c is as it was.
Still(x, d, c) ==
    /\ x.rate[c] = d.rate[c] /\ x.toWithdraw[c] = d.toWithdraw[c]
    /\ x.withdrawn[c] = d.withdrawn[c] /\ x.next[c] = d.next[c]

\* x is d with the power-down of a as given.
PowerDownIs(x, d, a, r, n, t, w) ==
    /\ x \in Db /\ x.ok = d.ok /\ SameRewards(x, d) /\ SameFund(x, d) /\ x.routes = d.routes
    /\ x.rate[a] = r /\ x.next[a] = n /\ x.toWithdraw[a] = t /\ x.withdrawn[a] = w
    /\ \A c \in Account \ {a} : Still(x, d, c)

\* SetPowerDown writes the four fields of one account.
LEMMA PowerDownSet ==
  ASSUME NEW d \in Db, NEW a \in Account, NEW r \in Nat, NEW n \in {Never} \cup 0..Week,
         NEW t \in Nat, NEW w \in Nat
  PROVE  PowerDownIs(SetPowerDown(d, a, r, n, t, w), d, a, r, n, t, w)
<1> DEFINE R == [d.rate EXCEPT ![a] = r]
           N == [d.next EXCEPT ![a] = n]
           T == [d.toWithdraw EXCEPT ![a] = t]
           W == [d.withdrawn EXCEPT ![a] = w]
           x == [d EXCEPT !.rate = R, !.next = N, !.toWithdraw = T, !.withdrawn = W]
<1>1. SetPowerDown(d, a, r, n, t, w) = x
  BY Zenon DEF SetPowerDown
<1>2. d.rate \in Amount /\ d.next \in Due
      /\ d.toWithdraw \in Amount /\ d.withdrawn \in Amount
  BY DEF Db
<1>3. R \in Amount /\ T \in Amount /\ W \in Amount /\ R[a] = r /\ T[a] = t /\ W[a] = w
      /\ \A c \in Account \ {a} : R[c] = d.rate[c] /\ T[c] = d.toWithdraw[c] /\ W[c] = d.withdrawn[c]
  BY <1>2 DEF Amount
<1>4. N \in Due /\ N[a] = n
      /\ \A c \in Account \ {a} : N[c] = d.next[c]
  BY <1>2 DEF Due
<1> HIDE DEF R, N, T, W
<1>5. x \in Db
  BY <1>3, <1>4 DEF Db
<1>6. x.rate = R /\ x.next = N /\ x.toWithdraw = T /\ x.withdrawn = W
      /\ x.ok = d.ok /\ SameRewards(x, d) /\ SameFund(x, d) /\ x.routes = d.routes
  BY DEF Db, SameRewards, SameFund
<1> HIDE DEF x
<1>7. \A c \in Account \ {a} : Still(x, d, c)
  BY <1>3, <1>4, <1>6 DEF Still
<1> QED BY <1>1, <1>3, <1>4, <1>5, <1>6, <1>7 DEF PowerDownIs
-----------------------------------------------------------------------------
(* Instalments that are vested again.                                      *)

\* What a destination gets in vests, and what it gets in WLS.
VestsPart(d, a, b, v) == IF d.routes[a][b].auto THEN Part(d.routes[a][b], v) ELSE 0
WlsPart(d, a, b, v) == IF d.routes[a][b].auto THEN 0 ELSE Part(d.routes[a][b], v)

\* The part of a destination is in vests or in WLS.
LEMMA PartNat ==
  ASSUME NEW d \in Db, NEW a \in Account, NEW b \in Account, NEW v \in Nat
  PROVE  /\ Part(d.routes[a][b], v) \in Nat
         /\ VestsPart(d, a, b, v) \in Nat /\ WlsPart(d, a, b, v) \in Nat
         /\ Part(d.routes[a][b], v) = VestsPart(d, a, b, v) + WlsPart(d, a, b, v)
<1> DEFINE r == d.routes[a][b]
<1>1. r \in Route /\ Hundred \in Nat /\ Hundred > 0
  <2>1. d.routes \in Routing
    BY DEF Db
  <2>2. d.routes[a] \in [Account -> Route]
    BY <2>1, Zenon DEF Routing
  <2>3. r \in Route
    BY <2>2, Zenon
  <2> QED BY <2>3, VestingAssumption
<1>2. r.percent \in Nat /\ r.auto \in BOOLEAN
  BY <1>1 DEF Route
<1> HIDE DEF r
<1>3. v * r.percent \in Nat
  BY <1>2, Products
<1>4. Part(r, v) \in Nat
  BY <1>1, <1>3, Division DEF Part
<1> QED BY <1>2, <1>4 DEF VestsPart, WlsPart, r

\* x is d with n more vests, given to any accounts, and without shares for
\* them yet.
Vested(x, d, n) ==
    /\ x \in Db /\ (x.ok => d.ok) /\ SameRewards(x, d) /\ SameDowns(x, d) /\ x.routes = d.routes
    /\ x.balance = d.balance /\ x.fund = d.fund /\ x.shares = d.shares
    /\ \A b \in Account : x.vests[b] >= d.vests[b]
    /\ Total(x.vests) = Total(d.vests) + n

\* One route that vests: its destination has its part more.
LEMMA PayVestsOK ==
  ASSUME NEW d \in Db, NEW n \in Nat, NEW x, Vested(x, d, n),
         NEW a \in Account, NEW b \in Account, NEW v \in Nat
  PROVE  Vested(PayVests(x, a, b, v), d, n + VestsPart(d, a, b, v))
<1> DEFINE part == Part(x.routes[a][b], v)
           f == Credit(x.vests, b, part)
           y == [x EXCEPT !.vests = f]
<1>1. x \in Db /\ x.routes = d.routes
  BY DEF Vested
<1>2. part \in Nat /\ part = Part(d.routes[a][b], v) /\ VestsPart(d, a, b, v) \in Nat
  BY <1>1, PartNat
<1>3. CASE ~x.routes[a][b].auto \/ part = 0
  <2>1. PayVests(x, a, b, v) = x
    BY <1>3 DEF PayVests
  <2>2. VestsPart(d, a, b, v) = 0
    BY <1>1, <1>3 DEF VestsPart
  <2>3. n + 0 = n
    OBVIOUS
  <2> QED BY <2>1, <2>2, <2>3
<1>4. CASE ~(~x.routes[a][b].auto \/ part = 0)
  <2>1. PayVests(x, a, b, v) = AdjustOwnVotes(y, b, part)
    BY <1>4 DEF PayVests
  <2>2. VestsPart(d, a, b, v) = part
    BY <1>1, <1>2, <1>4 DEF VestsPart
  <2> HIDE DEF part
  <2>3. x.vests \in Amount
    BY <1>1 DEF Db
  <2>5. x.vests[b] \in Nat /\ x.vests[b] + part >= 0 /\ part \in Int
    BY <1>2, <2>3 DEF Amount
  <2>6. f \in Amount /\ Total(f) = Total(x.vests) + part /\ f[b] = x.vests[b] + part
        /\ \A c \in Account \ {b} : f[c] = x.vests[c]
    BY <2>3, <2>5, Credited
  <2> HIDE DEF f
  <2>7. \A c \in Account : f[c] >= x.vests[c]
    BY <1>2, <2>3, <2>6 DEF Amount
  <2>8. y \in Db /\ y.vests = f /\ y.ok = x.ok /\ y.routes = x.routes /\ y.balance = x.balance
        /\ y.fund = x.fund /\ y.shares = x.shares
    BY <1>1, <2>6 DEF Db
  <2>9. SameRewards(y, x) /\ SameDowns(y, x)
    BY <1>1 DEF SameRewards, SameDowns, Db
  <2> HIDE DEF y
  <2> DEFINE z == AdjustOwnVotes(y, b, part)
  <2>10. Recast(z, y)
    BY <1>2, <2>8, OwnVotesOK
  <2> HIDE DEF z
  <2>11. z \in Db /\ (z.ok => d.ok)
    BY <2>8, <2>10, Zenon DEF Recast, Vested
  <2>12. SameRewards(z, d) /\ SameDowns(z, d) /\ z.routes = d.routes
         /\ z.balance = d.balance /\ z.fund = d.fund /\ z.shares = d.shares /\ z.vests = f
    BY <2>8, <2>9, <2>10 DEF Recast, Vested, SameRewards, SameDowns, SameFund
  <2>13. \A c \in Account : f[c] >= d.vests[c]
    <3>1. ASSUME NEW c \in Account PROVE f[c] >= d.vests[c]
      <4>1. f[c] \in Nat /\ x.vests[c] \in Nat /\ d.vests[c] \in Nat
        BY <2>3, <2>6 DEF Amount, Db
      <4> QED BY <2>7, <4>1 DEF Vested
    <3> QED BY <3>1
  <2>14. Total(f) = Total(d.vests) + (n + part)
    <3>1. Total(d.vests) \in Nat /\ Total(x.vests) = Total(d.vests) + n
      BY TotalNat DEF Vested, Db
    <3> QED BY <1>2, <2>5, <2>6, <3>1
  <2>15. Vested(z, d, n + part)
    BY <2>11, <2>12, <2>13, <2>14 DEF Vested
  <2> QED BY <2>1, <2>2, <2>15 DEF z
<1> QED BY <1>3, <1>4

\* After all routes that vest, the destinations have their parts.
LEMMA PayAllVestsOK ==
  ASSUME NEW d \in Db, NEW a \in Account, NEW v \in Nat, NEW f,
         \A b \in RoutesOf(d, a) : f[b] = VestsPart(d, a, b, v)
  PROVE  Vested(PayAllVests(d, a, v), d, SumFunctionOnSet(f, RoutesOf(d, a)))
<1> DEFINE S == RoutesOf(d, a)
<1>0. PICK g : VestsStates(g, d, a, v)
  BY VestsTurns
<1>1. /\ PayAllVests(d, a, v) = g[S] /\ g[{}] = d
      /\ \A T \in SUBSET S : T # {} => Max(T) \in T /\ g[T] = PayVests(g[T \ {Max(T)}], a, Max(T), v)
  BY <1>0 DEF VestsStates
<1>2. S \in SUBSET Account /\ IsFiniteSet(S)
  BY VestingAssumption, FS_Subset DEF RoutesOf
<1>3. \A b \in S : f[b] \in Nat
  BY <1>2, PartNat
<1> DEFINE F == {T \in SUBSET S : ~Vested(g[T], d, SumFunctionOnSet(f, T))}
<1>4. SUFFICES ASSUME F # {} PROVE FALSE
  BY <1>1
<1>5. F \in SUBSET (SUBSET S)
  OBVIOUS
<1> HIDE DEF S
<1>6. PICK T \in F : IsFiniteSet(T) /\ \A x \in T : T \ {x} \notin F
  <2> HIDE DEF F
  <2> QED BY <1>2, <1>4, <1>5, SmallestSubset
<1>7. CASE T = {}
  <2>1. Vested(d, d, 0)
    <3>1. Total(d.vests) \in Nat /\ d.vests \in [Account -> Nat]
      BY TotalNat DEF Db, Amount
    <3>2. \A b \in Account : d.vests[b] >= d.vests[b]
      BY <3>1
    <3> QED BY <3>1, <3>2 DEF Vested, SameRewards, SameDowns
  <2> QED BY <1>1, <1>6, <1>7, <2>1, SumEmpty
<1>8. CASE T # {}
  <2> DEFINE m == Max(T)
             R == T \ {m}
  <2>1. T \in SUBSET S /\ m \in T /\ g[T] = PayVests(g[R], a, m, v)
    BY <1>1, <1>6, <1>8
  <2>2. Vested(g[R], d, SumFunctionOnSet(f, R))
    BY <1>6, <2>1
  <2> HIDE DEF m
  <2>3. IsFiniteSet(R) /\ (\A x \in R : f[x] \in Nat) /\ (\A x \in T : f[x] \in Int) /\ m \in Account
    BY <1>2, <1>3, <1>6, <2>1, FS_RemoveElement
  <2>4. SumFunctionOnSet(f, R) \in Nat
    <3> HIDE DEF R
    <3> QED BY <2>3, SumNat
  <2>5. SumFunctionOnSet(f, T) = SumFunctionOnSet(f, R) + f[m]
    BY <1>6, <2>1, <2>3, SumAdd
  <2> HIDE DEF R
  <2>6. Vested(g[T], d, SumFunctionOnSet(f, R) + VestsPart(d, a, m, v))
    BY <2>1, <2>2, <2>3, <2>4, PayVestsOK
  <2>7. f[m] = VestsPart(d, a, m, v)
    BY <2>1 DEF S
  <2> QED BY <1>6, <2>5, <2>6, <2>7
<1> QED BY <1>7, <1>8
-----------------------------------------------------------------------------
(* Instalments that are paid in WLS.                                       *)

\* A share of x is worth as much as one of d, or more.
Ratio(x, d) == x.fund * d.shares >= d.fund * x.shares

\* Shares that do not lose in one step after the other do not lose.
LEMMA RatioTrans ==
  ASSUME NEW x, NEW y, NEW z,
         {x.fund, x.shares, y.fund, y.shares, z.fund, z.shares} \subseteq Nat,
         y.shares > 0, Ratio(x, y), Ratio(y, z)
  PROVE  Ratio(x, z)
<1> DEFINE xf == x.fund
           xs == x.shares
           yf == y.fund
           ys == y.shares
           zf == z.fund
           zs == z.shares
<1>1. xf \in Nat /\ xs \in Nat /\ yf \in Nat /\ ys \in Nat /\ zf \in Nat /\ zs \in Nat /\ ys > 0
      /\ yf * xs <= xf * ys /\ zf * ys <= yf * zs
  BY DEF Ratio
<1> HIDE DEF xf, xs, yf, ys, zf, zs
<1>2. yf * xs \in Nat /\ xf * ys \in Nat /\ zf * ys \in Nat /\ yf * zs \in Nat
      /\ zf * xs \in Nat /\ xf * zs \in Nat
  BY <1>1, Products
<1>3. (yf * xs) * zs <= (xf * ys) * zs
  BY <1>1, <1>2, ProductGrows
<1>4. (zf * ys) * xs <= (yf * zs) * xs
  BY <1>1, <1>2, ProductGrows
<1>5. (zf * xs) * ys <= (xf * zs) * ys
  <2>1. (yf * xs) * zs = (yf * zs) * xs /\ (zf * ys) * xs = (zf * xs) * ys
        /\ (xf * ys) * zs = (xf * zs) * ys
    BY <1>1
  <2>2. (zf * xs) * ys \in Nat /\ (xf * zs) * ys \in Nat /\ (yf * zs) * xs \in Nat
    BY <1>1, <1>2, Products
  <2> QED BY <1>3, <1>4, <2>1, <2>2
<1>6. zf * xs <= xf * zs
  BY <1>1, <1>2, <1>5, ProductGrows
<1> QED BY <1>1, <1>2, <1>6 DEF Ratio, xf, xs, zf, zs

\* x is d after n shares were turned into WLS, for any accounts.
PaidOut(x, d, n) ==
    /\ x \in Db /\ x.ok = d.ok /\ SameRewards(x, d) /\ SameDowns(x, d) /\ x.routes = d.routes
    /\ x.vests = d.vests
    /\ x.shares = d.shares - n /\ x.fund > 0
    /\ Total(x.balance) + x.fund = Total(d.balance) + d.fund
    /\ Ratio(x, d)

\* Some of the shares of x, not all of them, become WLS of b.
LEMMA PayOut ==
  ASSUME NEW d \in Db, NEW n \in Nat, NEW x, PaidOut(x, d, n),
         NEW b \in Account, NEW p \in Nat, n + p < d.shares
  PROVE  /\ ToWls(x, p) \in 0..x.fund
         /\ PaidOut([x EXCEPT !.balance = Credit(@, b, ToWls(x, p)),
                              !.fund = @ - ToWls(x, p), !.shares = @ - p], d, n + p)
<1> DEFINE wls == ToWls(x, p)
           f == Credit(x.balance, b, wls)
           y == [x EXCEPT !.balance = f, !.fund = @ - wls, !.shares = @ - p]
<1>1. x \in Db /\ x.balance \in Amount /\ x.fund \in Nat /\ x.shares \in Nat
      /\ d.fund \in Nat /\ d.shares \in Nat /\ d.balance \in Amount
  BY DEF PaidOut, Db
<1>2. x.shares = d.shares - n /\ x.fund > 0 /\ p < x.shares /\ x.shares > 0
  BY <1>1 DEF PaidOut
<1>3. wls = (p * x.fund) \div x.shares
  BY <1>1, <1>2 DEF ToWls, Unpriced
<1>4. wls \in Nat /\ wls < x.fund /\ (x.fund - wls) * x.shares >= x.fund * (x.shares - p)
  BY <1>1, <1>2, <1>3, Worth
<1> HIDE DEF wls
<1>5. x.balance[b] \in Nat /\ x.balance[b] + wls >= 0 /\ wls \in Int
  BY <1>1, <1>4 DEF Amount
<1>6. f \in Amount /\ Total(f) = Total(x.balance) + wls
  BY <1>1, <1>5, Credited
<1> HIDE DEF f
<1>8. x.fund - wls \in Nat /\ x.shares - p \in Nat
  BY <1>1, <1>2, <1>4
<1>9. y \in Db /\ y.balance = f /\ y.fund = x.fund - wls /\ y.shares = x.shares - p
      /\ y.ok = x.ok /\ y.vests = x.vests /\ y.routes = x.routes
  BY <1>1, <1>6, <1>8 DEF Db
<1>10. SameRewards(y, x) /\ SameDowns(y, x)
  BY <1>1 DEF SameRewards, SameDowns, Db
<1> HIDE DEF y
<1>11. Ratio(y, x)
  BY <1>4, <1>9 DEF Ratio
<1>12. Ratio(y, d)
  <2>1. Ratio(x, d)
    BY DEF PaidOut
  <2> QED BY <1>1, <1>2, <1>8, <1>9, <1>11, <2>1, RatioTrans
<1>13. SameRewards(y, d) /\ SameDowns(y, d) /\ y.ok = d.ok /\ y.vests = d.vests /\ y.routes = d.routes
  BY <1>9, <1>10 DEF PaidOut, SameRewards, SameDowns
<1>14. y.shares = d.shares - (n + p) /\ y.fund > 0
  BY <1>1, <1>2, <1>4, <1>9
<1>15. Total(y.balance) + y.fund = Total(d.balance) + d.fund
  <2>1. Total(x.balance) \in Nat /\ Total(x.balance) + x.fund = Total(d.balance) + d.fund
    BY <1>1, TotalNat DEF PaidOut
  <2> QED BY <1>1, <1>4, <1>5, <1>6, <1>9, <2>1
<1>16. PaidOut(y, d, n + p)
  BY <1>9, <1>12, <1>13, <1>14, <1>15 DEF PaidOut
<1> QED BY <1>1, <1>4, <1>16 DEF wls, y, f

\* One route that does not vest: its part of the shares is turned into WLS.
LEMMA PayWlsOK ==
  ASSUME NEW d \in Db, NEW n \in Nat, NEW x, PaidOut(x, d, n),
         NEW a \in Account, NEW b \in Account, NEW v \in Nat,
         n + WlsPart(d, a, b, v) < d.shares
  PROVE  PaidOut(PayWls(x, a, b, v), d, n + WlsPart(d, a, b, v))
<1> DEFINE part == Part(x.routes[a][b], v)
<1>1. x \in Db /\ x.routes = d.routes
  BY DEF PaidOut
<1>2. part \in Nat
  BY <1>1, PartNat
<1>3. CASE x.routes[a][b].auto
  <2>1. PayWls(x, a, b, v) = x
    BY <1>3 DEF PayWls
  <2>2. WlsPart(d, a, b, v) = 0
    BY <1>1, <1>3 DEF WlsPart
  <2>3. n + 0 = n
    OBVIOUS
  <2> QED BY <2>1, <2>2, <2>3
<1>4. CASE ~x.routes[a][b].auto
  <2> DEFINE y == [x EXCEPT !.balance = Credit(@, b, ToWls(x, part)),
                            !.fund = @ - ToWls(x, part), !.shares = @ - part]
  <2>1. PayWls(x, a, b, v) = y
    BY <1>4, Zenon DEF PayWls
  <2>2. WlsPart(d, a, b, v) = part
    BY <1>1, <1>4 DEF WlsPart
  <2> HIDE DEF part
  <2>3. PaidOut(y, d, n + part)
    BY <1>2, <2>2, PayOut
  <2> HIDE DEF y
  <2> QED BY <2>1, <2>2, <2>3
<1> QED BY <1>3, <1>4

\* After all routes that do not, the destinations have their parts in WLS, if
\* the parts are not all the shares there are.
LEMMA PayAllWlsOK ==
  ASSUME NEW d \in Db, NEW a \in Account, NEW v \in Nat, NEW f,
         \A b \in RoutesOf(d, a) : f[b] = WlsPart(d, a, b, v),
         d.fund > 0, SumFunctionOnSet(f, RoutesOf(d, a)) < d.shares
  PROVE  PaidOut(PayAllWls(d, a, v), d, SumFunctionOnSet(f, RoutesOf(d, a)))
<1> DEFINE S == RoutesOf(d, a)
<1>0. PICK g : WlsStates(g, d, a, v)
  BY WlsTurns
<1>1. /\ PayAllWls(d, a, v) = g[S] /\ g[{}] = d
      /\ \A T \in SUBSET S : T # {} => Max(T) \in T /\ g[T] = PayWls(g[T \ {Max(T)}], a, Max(T), v)
  BY <1>0 DEF WlsStates
<1>2. S \in SUBSET Account /\ IsFiniteSet(S)
  BY VestingAssumption, FS_Subset DEF RoutesOf
<1>3. \A b \in S : f[b] \in Nat
  BY <1>2, PartNat
<1> DEFINE F == {T \in SUBSET S : ~PaidOut(g[T], d, SumFunctionOnSet(f, T))}
<1>4. SUFFICES ASSUME F # {} PROVE FALSE
  BY <1>1
<1>5. F \in SUBSET (SUBSET S) /\ SumFunctionOnSet(f, S) < d.shares
  OBVIOUS
<1> HIDE DEF S
<1>6. PICK T \in F : IsFiniteSet(T) /\ \A x \in T : T \ {x} \notin F
  <2> HIDE DEF F
  <2> QED BY <1>2, <1>4, <1>5, SmallestSubset
<1>7. CASE T = {}
  <2>1. PaidOut(d, d, 0)
    <3>1. d.fund \in Nat /\ d.shares \in Nat /\ Ratio(d, d)
      BY DEF Db, Ratio
    <3> QED BY <3>1 DEF PaidOut, SameRewards, SameDowns
  <2> QED BY <1>1, <1>6, <1>7, <2>1, SumEmpty
<1>8. CASE T # {}
  <2> DEFINE m == Max(T)
             R == T \ {m}
  <2>1. T \in SUBSET S /\ m \in T /\ g[T] = PayWls(g[R], a, m, v)
    BY <1>1, <1>6, <1>8
  <2>2. PaidOut(g[R], d, SumFunctionOnSet(f, R))
    BY <1>6, <2>1
  <2> HIDE DEF m
  <2>3. IsFiniteSet(R) /\ (\A x \in R : f[x] \in Nat) /\ (\A x \in T : f[x] \in Nat) /\ m \in Account
    BY <1>2, <1>3, <1>6, <2>1, FS_RemoveElement
  <2>4. SumFunctionOnSet(f, R) \in Nat
    <3> HIDE DEF R
    <3> QED BY <2>3, SumNat
  <2>5. SumFunctionOnSet(f, T) = SumFunctionOnSet(f, R) + f[m]
    BY <1>6, <2>1, <2>3, SumAdd
  <2> HIDE DEF R
  <2>6. f[m] = WlsPart(d, a, m, v)
    BY <2>1 DEF S
  <2>7. SumFunctionOnSet(f, T) <= SumFunctionOnSet(f, S)
    BY <1>2, <1>3, <2>1, SumSubset
  <2>8. SumFunctionOnSet(f, S) \in Nat /\ f[m] \in Nat /\ d.shares \in Nat
    BY <1>2, <1>3, <2>1, <2>3, SumNat DEF Db
  <2>9. SumFunctionOnSet(f, R) + WlsPart(d, a, m, v) < d.shares
    BY <1>5, <2>4, <2>5, <2>6, <2>7, <2>8
  <2>10. PaidOut(g[T], d, SumFunctionOnSet(f, R) + WlsPart(d, a, m, v))
    BY <2>1, <2>2, <2>3, <2>4, <2>9, PayWlsOK
  <2> QED BY <1>6, <2>5, <2>6, <2>10
<1> QED BY <1>7, <1>8
-----------------------------------------------------------------------------
(* The invariant.                                                          *)

\* What a power-down has still to pay.
Left(d, a) == IF d.rate[a] = 0 THEN 0 ELSE d.toWithdraw[a] - d.withdrawn[a]

Books(d) ==
    /\ d.supply = Total(d.balance) + Total(d.reward) + d.fund + d.pendSteem + d.rewardFund
    /\ d.shares = Total(d.vests)
    /\ d.pendShares = Total(d.rewardVests) /\ d.pendSteem = Total(d.rewardSteem)

\* What a running power-down has still to pay is there, and it has paid whole
\* instalments so far, so the remainder of the division is the last one.
Down(d, a) ==
    /\ a \in User /\ d.withdrawn[a] < d.toWithdraw[a] /\ Left(d, a) =< d.vests[a]
    /\ \E k \in Nat : d.withdrawn[a] = k * d.rate[a]

Downs(d) ==
    \A a \in Account : /\ d.rate[a] = 0 <=> d.next[a] = Never
                       /\ d.rate[a] # 0 => Down(d, a)

\* Somebody keeps shares whatever the power-downs pay, so there is a price.
Kept(d) == d.fund > 0 /\ \E h \in Account \ {Null} : d.vests[h] > Left(d, h)

Good(d) == d \in Db /\ Books(d) /\ Downs(d) /\ Kept(d)

\* What is left of a power-down is not negative and is there.
LEMMA LeftNat ==
  ASSUME NEW d \in Db, Downs(d), NEW a \in Account
  PROVE  Left(d, a) \in Nat /\ Left(d, a) <= d.vests[a]
<1>1. d.rate[a] \in Nat /\ d.toWithdraw[a] \in Nat /\ d.withdrawn[a] \in Nat /\ d.vests[a] \in Nat
  BY DEF Db, Amount
<1> QED BY <1>1 DEF Downs, Down, Left

\* So nobody's power-down, and not null, holds all the shares.
LEMMA NotAllShares ==
  ASSUME NEW d, Good(d), NEW a \in Account
  PROVE  /\ Left(d, a) < d.shares /\ d.shares > 0
         /\ a = Null => d.vests[a] < d.shares
<1>1. d \in Db /\ d.vests \in Amount /\ d.shares = Total(d.vests) /\ Downs(d)
  BY DEF Good, Books, Db
<1>2. PICK h \in Account \ {Null} : d.vests[h] > Left(d, h)
  BY DEF Good, Kept
<1>3. d.vests[h] \in Nat /\ d.vests[a] \in Nat /\ d.shares \in Nat
  BY <1>1 DEF Amount, Db
<1>4. Left(d, a) \in Nat /\ Left(d, h) \in Nat /\ Left(d, a) <= d.vests[a]
  BY <1>1, LeftNat
<1>5. d.vests[h] <= d.shares /\ d.vests[a] <= d.shares /\ (a # h => d.vests[a] + d.vests[h] <= d.shares)
  BY <1>1, TotalNat
<1> QED BY <1>2, <1>3, <1>4, <1>5

-----------------------------------------------------------------------------
(* One account's instalment.                                               *)

\* The remainder of whole instalments and a smaller rest is the rest.
LEMMA RestIsRemainder ==
  ASSUME NEW k \in Nat, NEW r \in Nat, NEW l \in Nat, l < r
  PROVE  (k * r + l) % r = l
<1> DEFINE x == k * r + l
           q == x \div r
           m == x % r
<1>1. k * r \in Nat
  BY Products
<1>2. x \in Nat
  BY <1>1
<1>3. q \in Nat /\ m \in 0..(r-1) /\ x = r * q + m
  <2> HIDE DEF x
  <2> QED BY <1>2
<1> HIDE DEF q, m
<1>4. q <= k
  <2>1. CASE q >= k + 1
    <3>1. (k + 1) * r <= q * r
      BY <1>3, <2>1, ProductGrows
    <3>2. (k + 1) * r = k * r + r /\ q * r = r * q
      BY <1>3
    <3> QED BY <1>1, <1>3, <3>1, <3>2
  <2> QED BY <1>3, <2>1
<1>5. q >= k
  <2>1. CASE q + 1 <= k
    <3>1. (q + 1) * r <= k * r
      BY <1>3, <2>1, ProductGrows
    <3>2. (q + 1) * r = r * q + r
      BY <1>3
    <3> QED BY <1>1, <1>3, <3>1, <3>2
  <2> QED BY <1>3, <2>1
<1>6. q = k
  BY <1>3, <1>4, <1>5
<1>7. r * q = k * r
  BY <1>6
<1>8. m = l
  BY <1>1, <1>3, <1>7
<1> QED BY <1>8 DEF m

\* An instalment is the rate, or all that is left when that is not more.
LEMMA InstalmentOK ==
  ASSUME NEW d \in Db, Downs(d), NEW a \in Account, d.rate[a] # 0
  PROVE  /\ Instalment(d, a) \in 1..d.rate[a]
         /\ Instalment(d, a) <= Left(d, a)
         /\ Instalment(d, a) = d.rate[a] \/ Instalment(d, a) = Left(d, a)
<1> DEFINE r == d.rate[a]
           t == d.toWithdraw[a]
           w == d.withdrawn[a]
           s == d.vests[a]
           l == t - w
           due == IF l < r THEN t % r ELSE r
<1>1. r \in Nat /\ r > 0 /\ t \in Nat /\ w \in Nat /\ s \in Nat
  BY DEF Db, Amount
<1>2. Down(d, a)
  BY DEF Downs
<1>3. w < t /\ Left(d, a) = l /\ l <= s
  BY <1>2 DEF Down, Left
<1>4. PICK k \in Nat : w = k * r
  BY <1>2 DEF Down
<1>5. Instalment(d, a) = Min({s, due})
  BY Zenon DEF Instalment
<1> HIDE DEF r, t, w, s
<1>6. l < r => t % r = l
  <2>1. l \in Nat /\ t = k * r + l
    BY <1>1, <1>3, <1>4
  <2> HIDE DEF l
  <2> QED BY <1>1, <2>1, RestIsRemainder
<1>7. due \in Nat /\ due >= 1 /\ due <= r /\ due <= l /\ (due = r \/ due = l)
  BY <1>1, <1>3, <1>6
<1>8. due <= s
  BY <1>1, <1>3, <1>7
<1> HIDE DEF due
<1>9. Min({s, due}) = due
  <2>1. due \in {s, due} /\ \A y \in {s, due} : due <= y
    BY <1>7, <1>8
  <2>2. \A x \in {s, due} : (\A y \in {s, due} : x <= y) => x = due
    BY <1>1, <1>7, <1>8
  <2> QED BY <2>1, <2>2 DEF Min
<1> QED BY <1>1, <1>3, <1>5, <1>7, <1>9 DEF r

\* The power-down of a has paid an instalment, and when it ends all there was.
Paid(x, d, a) ==
    /\ x.next[a] # 0 /\ x.toWithdraw[a] = d.toWithdraw[a]
    /\ x.withdrawn[a] - d.withdrawn[a] \in 1..d.rate[a]
    /\ x.withdrawn[a] <= d.toWithdraw[a]
    /\ x.rate[a] = 0 => x.withdrawn[a] = d.toWithdraw[a]

\* The parts of the destinations are those in vests and those in WLS.
LEMMA PartsSplit ==
  ASSUME NEW d \in Db, NEW a \in Account, NEW v \in Nat
  PROVE  \E n, m \in Nat :
           /\ PartsOf(d, a, v) = n + m
           /\ Vested(PayAllVests(d, a, v), d, n)
           /\ \A e \in Db : e.routes = d.routes /\ e.fund > 0 /\ m < e.shares
                 => PaidOut(PayAllWls(e, a, v), e, m)
<1> DEFINE S == RoutesOf(d, a)
           f == [b \in S |-> VestsPart(d, a, b, v)]
           g == [b \in S |-> WlsPart(d, a, b, v)]
           h == [b \in S |-> Part(d.routes[a][b], v)]
           n == SumFunctionOnSet(f, S)
           m == SumFunctionOnSet(g, S)
<1>1. S \in SUBSET Account /\ IsFiniteSet(S)
  BY VestingAssumption, FS_Subset DEF RoutesOf
<1>2. \A b \in S : f[b] \in Nat /\ g[b] \in Nat /\ h[b] = f[b] + g[b]
                   /\ f[b] = VestsPart(d, a, b, v) /\ g[b] = WlsPart(d, a, b, v)
  BY <1>1, PartNat
<1>3. PartsOf(d, a, v) = SumFunctionOnSet(h, S)
  BY Zenon DEF PartsOf, SumFunction
<1> HIDE DEF f, g, h
<1>4. n \in Nat /\ m \in Nat
  <2> HIDE DEF S
  <2> QED BY <1>1, <1>2, SumNat
<1>5. SumFunctionOnSet(h, S) = n + m
  <2> HIDE DEF S
  <2> QED BY <1>1, <1>2, SumPlus
<1>6. Vested(PayAllVests(d, a, v), d, n)
  BY <1>2, PayAllVestsOK
<1>7. ASSUME NEW e \in Db, e.routes = d.routes, e.fund > 0, m < e.shares
      PROVE  PaidOut(PayAllWls(e, a, v), e, m)
  <2>1. S = RoutesOf(e, a) /\ \A b \in S : g[b] = WlsPart(e, a, b, v)
    BY <1>2, <1>7 DEF RoutesOf, WlsPart
  <2>2. SumFunctionOnSet(g, RoutesOf(e, a)) = m
    BY <2>1
  <2> HIDE DEF m, S
  <2> QED BY <1>7, <2>1, <2>2, PayAllWlsOK
<1> HIDE DEF n, m
<1> QED BY <1>3, <1>4, <1>5, <1>6, <1>7

\* What an instalment leaves behind.
Withdrawn(x, d, a) ==
    /\ Good(x) /\ Ratio(x, d) /\ x.pendShares = d.pendShares
    /\ \A c \in Account \ {a} : Still(x, d, c)
    /\ x.ok => d.ok /\ Paid(x, d, a)

\* One turn of the loop in process_vesting_withdrawals.
LEMMA WithdrawOK ==
  ASSUME NEW d, Good(d), NEW a \in Account, d.next[a] = 0
  PROVE  Withdrawn(Withdraw(d, a), d, a)
<1> DEFINE v == Instalment(d, a)
           rest == v - PartsOf(d, a, v)
           s == Left(d, a)
<1>1. d \in Db /\ Downs(d) /\ Books(d) /\ d.fund > 0 /\ d.rate[a] # 0 /\ Down(d, a)
  BY DEF Good, Downs, Kept, Never
<1>2. v \in 1..d.rate[a] /\ v <= s /\ (v = d.rate[a] \/ v = s)
  BY <1>1, InstalmentOK
<1>3. d.rate[a] \in Nat /\ d.toWithdraw[a] \in Nat /\ d.withdrawn[a] \in Nat /\ d.vests[a] \in Nat
      /\ d.shares \in Nat /\ d.fund \in Nat
  BY <1>1 DEF Db, Amount
<1>4. s = d.toWithdraw[a] - d.withdrawn[a] /\ s <= d.vests[a] /\ s < d.shares
  BY <1>1, NotAllShares DEF Left, Down
<1>5. v \in Nat /\ v >= 1 /\ v <= d.vests[a] /\ v < d.shares
  BY <1>2, <1>3, <1>4
<1>6. Withdraw(d, a) = IF rest < 0 THEN [d EXCEPT !.ok = FALSE]
                       ELSE PayRest(PayAllWls(PayAllVests(d, a, v), a, v), a, v, rest)
  BY Zenon DEF Withdraw
<1> HIDE DEF v, s
<1>7. CASE rest < 0
  <2> DEFINE x == [d EXCEPT !.ok = FALSE]
  <2>1. x \in Db /\ ~x.ok /\ SameDowns(x, d) /\ SameFund(x, d) /\ SameRewards(x, d)
    <3>1. x \in Db
      BY <1>1 DEF Db
    <3>2. SameDowns(x, d) /\ SameFund(x, d) /\ SameRewards(x, d)
      BY <1>1 DEF Db, SameDowns, SameFund, SameRewards
    <3>3. ~x.ok
      BY <1>1 DEF Db
    <3> QED BY <3>1, <3>2, <3>3
  <2> HIDE DEF x
  <2>2. Good(x)
    <3>1. \A c \in Account : Left(x, c) = Left(d, c)
      BY <2>1 DEF Left, SameDowns
    <3>2. Books(x)
      BY <1>1, <2>1 DEF Books, SameFund, SameRewards
    <3>3. Downs(x)
      BY <1>1, <2>1, <3>1 DEF Downs, Down, SameDowns, SameFund
    <3>4. Kept(x)
      BY <2>1, <3>1 DEF Good, Kept, SameFund
    <3> QED BY <2>1, <3>2, <3>3, <3>4 DEF Good
  <2>3. Ratio(x, d)
    BY <1>3, <2>1 DEF Ratio, SameFund
  <2>4. \A c \in Account : Still(x, d, c)
    BY <2>1 DEF Still, SameDowns
  <2>5. Withdrawn(x, d, a)
    BY <2>1, <2>2, <2>3, <2>4 DEF Withdrawn, SameRewards
  <2> QED BY <1>6, <1>7, <2>5 DEF x
<1>8. CASE ~(rest < 0)
  <2>1. PICK n, m \in Nat :
           /\ PartsOf(d, a, v) = n + m
           /\ Vested(PayAllVests(d, a, v), d, n)
           /\ \A e \in Db : e.routes = d.routes /\ e.fund > 0 /\ m < e.shares
                 => PaidOut(PayAllWls(e, a, v), e, m)
    BY <1>1, <1>5, PartsSplit
  <2>2. rest = v - (n + m)
    BY <2>1
  <2> HIDE DEF rest
  <2>3. rest \in Nat /\ m + rest < d.shares /\ m < d.shares
    BY <1>3, <1>5, <1>8, <2>2
  <2> DEFINE d1 == PayAllVests(d, a, v)
             d2 == PayAllWls(d1, a, v)
  <2>4. Vested(d1, d, n)
    BY <2>1
  <2>5. PaidOut(d2, d1, m)
    <3>1. d1 \in Db /\ d1.routes = d.routes /\ d1.fund > 0 /\ m < d1.shares
      BY <1>1, <2>3, <2>4 DEF Vested
    <3> QED BY <2>1, <3>1
  <2>6. Withdraw(d, a) = PayRest(d2, a, v, rest)
    BY <1>6, <1>8
  <2> HIDE DEF d1, d2
  <2>7. d1 \in Db /\ d1.shares = d.shares /\ d1.fund = d.fund
    BY <2>4 DEF Vested
  <2> DEFINE wls == ToWls(d2, rest)
             z == [d2 EXCEPT !.balance = Credit(@, a, wls), !.fund = @ - wls, !.shares = @ - rest]
  <2>8. PaidOut(z, d1, m + rest)
    BY <2>3, <2>5, <2>7, PayOut
  <2> DEFINE paid == d2.withdrawn[a] + v
             done == paid >= d2.toWithdraw[a] \/ d2.vests[a] = v
             V == Credit(d2.vests, a, -v)
             y == [d2 EXCEPT !.balance = Credit(@, a, wls), !.vests = V,
                             !.fund = @ - wls, !.shares = @ - rest]
             rate == IF done THEN 0 ELSE d2.rate[a]
             next == IF done THEN Never ELSE d2.next[a] + Week
             u == SetPowerDown(y, a, rate, next, d2.toWithdraw[a], paid)
             x == AdjustOwnVotes(u, a, -v)
  <2>9. Withdraw(d, a) = x
    BY <2>6, Zenon DEF PayRest
  <2>10. d2 \in Db /\ d2.vests = d1.vests /\ SameDowns(d2, d1)
    BY <2>5 DEF PaidOut
  <2> HIDE DEF wls, V
  <2>11. y = [z EXCEPT !.vests = V]
    BY <2>10 DEF Db
  <2>12. z.vests = d1.vests /\ SameDowns(z, d1) /\ SameRewards(z, d1) /\ z \in Db /\ z.ok = d1.ok
    BY <2>5, <2>8 DEF PaidOut
  <2> HIDE DEF z, y, x, u
  <2>13. SameDowns(z, d) /\ SameDowns(d2, d) /\ SameRewards(z, d) /\ (z.ok => d.ok)
    BY <2>4, <2>10, <2>12 DEF Vested, SameDowns, SameRewards
  <2>14. d2.vests \in Amount /\ d2.vests[a] \in Nat
    BY <2>10 DEF Db, Amount
  <2>15. d2.vests[a] >= d.vests[a] /\ d2.vests[a] >= v
    BY <1>3, <1>5, <2>4, <2>10, <2>14 DEF Vested
  <2>16. paid = d.withdrawn[a] + v /\ (done <=> v = s) /\ rate = (IF done THEN 0 ELSE d.rate[a])
         /\ next = IF done THEN Never ELSE Week
    <3>1. d2.withdrawn[a] = d.withdrawn[a] /\ d2.toWithdraw[a] = d.toWithdraw[a]
          /\ d2.rate[a] = d.rate[a] /\ d2.next[a] = 0
      BY <2>13 DEF SameDowns
    <3>2. Week \in Nat /\ 0 + Week = Week
      BY VestingAssumption
    <3> QED BY <1>2, <1>3, <1>4, <1>5, <2>14, <2>15, <3>1, <3>2
  <2>17. V \in Amount /\ Total(V) = Total(d1.vests) - v /\ V[a] = d1.vests[a] - v
         /\ \A c \in Account \ {a} : V[c] = d1.vests[c]
    <3>1. d2.vests[a] + (-v) >= 0 /\ -v \in Int
      BY <1>5, <2>14, <2>15
    <3>2. V \in Amount /\ Total(V) = Total(d2.vests) + (-v) /\ V[a] = d2.vests[a] + (-v)
          /\ \A c \in Account \ {a} : V[c] = d2.vests[c]
      BY <2>14, <3>1, Credited DEF V
    <3>3. Total(d2.vests) \in Nat
      BY <2>14, TotalNat
    <3> QED BY <1>5, <2>10, <2>14, <3>2, <3>3
  <2>18. paid \in Nat /\ rate \in Nat /\ next \in {Never} \cup 0..Week /\ d2.toWithdraw[a] = d.toWithdraw[a]
    <3>1. Week \in Nat
      BY VestingAssumption
    <3> HIDE DEF paid, done, rate, next
    <3> QED BY <1>3, <1>5, <2>13, <2>16, <3>1 DEF SameDowns
  <2> HIDE DEF paid, done, rate, next
  <2>19. y \in Db
    <3>1. z \in Db /\ V \in Amount
      BY <2>12, <2>17
    <3>2. [z EXCEPT !.vests = V] \in Db
      BY <3>1 DEF Db
    <3> QED BY <2>11, <3>2
  <2>20. y.vests = V /\ y.fund = z.fund /\ y.shares = z.shares /\ y.balance = z.balance
         /\ y.ok = z.ok /\ SameDowns(y, z) /\ SameRewards(y, z)
    BY <2>11, <2>12 DEF Db, SameRewards, SameDowns
  <2>21. PowerDownIs(u, y, a, rate, next, d.toWithdraw[a], paid)
    BY <1>3, <2>18, <2>19, PowerDownSet DEF u
  <2>22. Recast(x, u)
    <3>1. -v \in Int
      BY <1>5
    <3> QED BY <2>21, <3>1, OwnVotesOK DEF x, PowerDownIs
  <2>23. x \in Db /\ x.vests = V /\ x.fund = z.fund
         /\ x.shares = z.shares /\ x.balance = z.balance
         /\ SameRewards(x, d)
    BY <2>13, <2>20, <2>21, <2>22 DEF Recast, SameFund, SameRewards, PowerDownIs
  <2>24. x.rate[a] = rate /\ x.next[a] = next /\ x.toWithdraw[a] = d.toWithdraw[a] /\ x.withdrawn[a] = paid
         /\ \A c \in Account \ {a} : Still(x, d, c)
    BY <2>13, <2>20, <2>21, <2>22 DEF Recast, SameDowns, Still, PowerDownIs
  <2>25. x.ok => d.ok
    BY <2>13, <2>20, <2>21, <2>22, Zenon DEF Recast, PowerDownIs
  <2>26. Books(x)
    <3>1. z.shares = d.shares - (m + rest) /\ Total(d1.vests) = Total(d.vests) + n
          /\ Total(z.balance) + z.fund = Total(d.balance) + d.fund
      BY <2>4, <2>7, <2>8, <2>12 DEF PaidOut, Vested
    <3>2. /\ Total(d.vests) \in Nat /\ Total(z.balance) \in Nat /\ z.fund \in Nat
          /\ Total(d.balance) \in Nat /\ Total(d.reward) \in Nat
          /\ d.pendSteem \in Nat /\ d.rewardFund \in Nat
      BY <1>1, <2>12, TotalNat DEF Db
    <3>3. x.shares = Total(x.vests)
      BY <1>1, <1>3, <1>5, <2>2, <2>3, <2>17, <2>23, <3>1, <3>2 DEF Books
    <3>4. x.supply = Total(x.balance) + Total(x.reward) + x.fund + x.pendSteem + x.rewardFund
      <4>1. x.supply = d.supply /\ x.reward = d.reward /\ x.pendSteem = d.pendSteem /\ x.rewardFund = d.rewardFund
            /\ d.supply = Total(d.balance) + Total(d.reward) + d.fund + d.pendSteem + d.rewardFund
        BY <1>1, <2>23 DEF Books, SameRewards
      <4> QED BY <1>3, <2>23, <3>1, <3>2, <4>1
    <3> QED BY <1>1, <2>23, <3>3, <3>4 DEF Books, SameRewards
  <2>27. ASSUME NEW c \in Account \ {a}
         PROVE  Still(x, d, c) /\ Left(x, c) = Left(d, c) /\ x.vests[c] >= d.vests[c]
    BY <2>4, <2>17, <2>24, <2>23 DEF Still, Left, Vested
  <2>28. x.vests[a] >= d.vests[a] - v /\ x.vests[a] \in Nat
    BY <1>3, <1>5, <2>10, <2>14, <2>15, <2>17, <2>23
  <2>29. Left(x, a) = s - v
    BY <1>1, <1>2, <1>3, <1>4, <1>5, <2>16, <2>24 DEF Left
  <2>30. Downs(x)
    <3>1. ASSUME NEW c \in Account
          PROVE  (x.rate[c] = 0 <=> x.next[c] = Never) /\ (x.rate[c] # 0 => Down(x, c))
      <4>1. CASE c # a
        <5>1. (d.rate[c] = 0 <=> d.next[c] = Never) /\ (d.rate[c] # 0 => Down(d, c))
          BY <1>1 DEF Downs
        <5>2. x.vests[c] \in Nat /\ d.vests[c] \in Nat /\ Left(d, c) \in Nat /\ Left(d, c) <= d.vests[c]
          BY <1>1, <2>23, LeftNat DEF Db, Amount
        <5> QED BY <2>23, <2>27, <4>1, <5>1, <5>2 DEF Down, Still
      <4>2. CASE c = a /\ done
        BY <2>16, <2>24, <2>23, <4>2
      <4>3. CASE c = a /\ ~done
        <5>1. x.rate[a] = d.rate[a] /\ x.next[a] = Week /\ Week # Never
          BY <2>16, <2>24, <2>23, <4>3, VestingAssumption DEF Never
        <5>2. v = d.rate[a] /\ v < s
          BY <1>2, <1>3, <1>4, <1>5, <2>16, <4>3
        <5>3. PICK k \in Nat : d.withdrawn[a] = k * d.rate[a]
          BY <1>1 DEF Down
        <5>4. k + 1 \in Nat /\ (k + 1) * d.rate[a] = k * d.rate[a] + d.rate[a]
          BY <1>3
        <5>5. \E i \in Nat : x.withdrawn[a] = i * x.rate[a]
          BY <2>16, <2>24, <2>23, <5>1, <5>2, <5>3, <5>4
        <5>6. x.withdrawn[a] < x.toWithdraw[a]
          BY <1>3, <1>4, <1>5, <2>16, <2>24, <2>23, <5>2
        <5>7. Left(x, a) <= x.vests[a]
          BY <1>3, <1>4, <1>5, <2>28, <2>29
        <5> QED BY <1>1, <4>3, <5>1, <5>5, <5>6, <5>7 DEF Down
      <4> QED BY <4>1, <4>2, <4>3
    <3> QED BY <3>1 DEF Downs
  <2>31. Kept(x)
    <3>1. PICK h \in Account \ {Null} : d.vests[h] > Left(d, h)
      BY DEF Good, Kept
    <3>2. x.fund > 0
      BY <2>8, <2>23 DEF PaidOut
    <3>3. x.vests[h] > Left(x, h)
      <4>1. CASE h = a
        BY <1>3, <1>4, <1>5, <2>28, <2>29, <3>1, <4>1 DEF s
      <4>2. CASE h # a
        <5>1. x.vests[h] \in Nat /\ d.vests[h] \in Nat /\ Left(d, h) \in Nat
          BY <1>1, <2>23, LeftNat DEF Db, Amount
        <5> QED BY <2>27, <3>1, <4>2, <5>1
      <4> QED BY <4>1, <4>2
    <3> QED BY <3>1, <3>2, <3>3 DEF Kept
  <2>32. Ratio(x, d)
    BY <2>7, <2>8, <2>23 DEF PaidOut, Ratio
  <2>33. Paid(x, d, a)
    <3>1. x.next[a] # 0
      BY <2>16, <2>24, <2>23, VestingAssumption DEF Never
    <3>2. x.withdrawn[a] = d.withdrawn[a] + v /\ (x.rate[a] = 0 => v = s)
      BY <1>1, <2>16, <2>24, <2>23
    <3> QED BY <1>2, <1>3, <1>4, <1>5, <2>24, <3>1, <3>2 DEF Paid
  <2>34. Withdrawn(x, d, a)
    BY <2>23, <2>25, <2>26, <2>27, <2>30, <2>31, <2>32, <2>33 DEF Withdrawn, Good, SameRewards
  <2> QED BY <2>9, <2>34
<1> QED BY <1>7, <1>8

-----------------------------------------------------------------------------
(* All the instalments of a block.                                         *)

\* The accounts of T have had their turn.
Processed(x, d, T) ==
    /\ Good(x) /\ Ratio(x, d) /\ x.pendShares = d.pendShares
    /\ \A c \in Account \ T : Still(x, d, c)
    /\ x.ok => d.ok /\ \A c \in T : Paid(x, d, c)

\* There are always shares and a fund, hence a price.
LEMMA RatioNat ==
  ASSUME NEW d, Good(d)
  PROVE  d.fund \in Nat /\ d.shares \in Nat /\ d.shares > 0 /\ Ratio(d, d)
<1>1. d.fund \in Nat /\ d.shares \in Nat
  BY DEF Good, Db
<1>2. d.shares > 0
  BY VestingAssumption, NotAllShares
<1> QED BY <1>1, <1>2 DEF Ratio

\* The whole loop of process_vesting_withdrawals.
LEMMA WithdrawDueOK ==
  ASSUME NEW d, Good(d)
  PROVE  Processed(WithdrawDue(d), d, {a \in Account : d.next[a] = 0})
<1> DEFINE S == {a \in Account : d.next[a] = 0}
<1>0. PICK g : WithdrawStates(g, d)
  BY WithdrawTurns
<1>1. /\ WithdrawDue(d) = g[S] /\ g[{}] = d
      /\ \A T \in SUBSET S : T # {} => Max(T) \in T /\ g[T] = Withdraw(g[T \ {Max(T)}], Max(T))
  BY <1>0 DEF WithdrawStates
<1>2. S \in SUBSET Account /\ IsFiniteSet(S)
  BY VestingAssumption, FS_Subset
<1> DEFINE F == {T \in SUBSET S : ~Processed(g[T], d, T)}
<1>4. SUFFICES ASSUME F # {} PROVE FALSE
  BY <1>1
<1>5. F \in SUBSET (SUBSET S) /\ \A c \in S : d.next[c] = 0
  OBVIOUS
<1> HIDE DEF S
<1>6. PICK T \in F : IsFiniteSet(T) /\ \A x \in T : T \ {x} \notin F
  <2> HIDE DEF F
  <2> QED BY <1>2, <1>4, <1>5, SmallestSubset
<1>7. CASE T = {}
  <2>1. Processed(d, d, {})
    BY RatioNat DEF Processed, Still
  <2> QED BY <1>1, <1>6, <1>7, <2>1
<1>8. CASE T # {}
  <2> DEFINE m == Max(T)
             R == T \ {m}
             e == g[R]
             x == g[T]
  <2>1. T \in SUBSET S /\ m \in T /\ x = Withdraw(e, m) /\ m \in Account \ R
    BY <1>1, <1>2, <1>6, <1>8
  <2>2. Processed(e, d, R)
    BY <1>6, <2>1
  <2> HIDE DEF m, e, x
  <2>3. Good(e) /\ Ratio(e, d) /\ e.pendShares = d.pendShares /\ Still(e, d, m) /\ e.next[m] = 0
    BY <1>5, <2>1, <2>2 DEF Processed, Still
  <2>4. Withdrawn(x, e, m)
    BY <2>1, <2>3, WithdrawOK
  <2>5. Good(x) /\ Ratio(x, e) /\ x.pendShares = d.pendShares
    BY <2>3, <2>4 DEF Withdrawn
  <2>6. Ratio(x, d)
    <3>1. {x.fund, x.shares, e.fund, e.shares, d.fund, d.shares} \subseteq Nat /\ e.shares > 0
      BY <2>3, <2>5, RatioNat
    <3> QED BY <2>3, <2>5, <3>1, RatioTrans
  <2>7. \A c \in Account \ T : Still(x, d, c)
    BY <2>1, <2>2, <2>4 DEF Processed, Withdrawn, Still
  <2>8. ASSUME x.ok PROVE d.ok /\ \A c \in T : Paid(x, d, c)
    <3>1. e.ok /\ Paid(x, e, m)
      BY <2>4, <2>8 DEF Withdrawn
    <3>2. d.ok /\ \A c \in R : Paid(e, d, c)
      BY <2>2, <3>1 DEF Processed
    <3>3. Paid(x, d, m)
      BY <2>3, <3>1 DEF Paid, Still
    <3>4. \A c \in R : Paid(x, d, c)
      <4>1. \A c \in R : Still(x, e, c)
        BY <1>2, <2>1, <2>4 DEF Withdrawn
      <4> QED BY <3>2, <4>1 DEF Paid, Still
    <3> QED BY <3>2, <3>3, <3>4
  <2>9. Processed(x, d, T)
    BY <2>5, <2>6, <2>7, <2>8 DEF Processed
  <2> QED BY <1>6, <2>9 DEF x
<1> QED BY <1>7, <1>8

\* An operation that leaves power-downs alone and takes no vests, but those of
\* null, keeps the invariant if the books are right.
LEMMA GoodStays ==
  ASSUME NEW d, Good(d), NEW x \in Db, Books(x), SameDowns(x, d), x.fund > 0,
         \A c \in Account \ {Null} : x.vests[c] >= d.vests[c]
  PROVE  Good(x)
<1>1. d \in Db /\ Downs(d)
  BY DEF Good
<1>2. \A c \in Account : Left(x, c) = Left(d, c)
  BY DEF Left, SameDowns
<1>3. \A c \in Account : /\ Left(d, c) \in Nat /\ Left(d, c) <= d.vests[c]
                         /\ x.vests[c] \in Nat /\ d.vests[c] \in Nat
  BY <1>1, LeftNat DEF Db, Amount
<1>4. Downs(x)
  <2>1. ASSUME NEW c \in Account
        PROVE  (x.rate[c] = 0 <=> x.next[c] = Never) /\ (x.rate[c] # 0 => Down(x, c))
    <3>1. (d.rate[c] = 0 <=> d.next[c] = Never) /\ (d.rate[c] # 0 => Down(d, c))
      BY <1>1 DEF Downs
    <3>2. x.rate[c] # 0 => c # Null
      BY <3>1, VestingAssumption DEF Down, SameDowns
    <3>3. x.rate[c] # 0 => Left(x, c) <= x.vests[c]
      BY <1>2, <1>3, <3>2
    <3> QED BY <3>1, <3>3 DEF Down, SameDowns
  <2> QED BY <2>1 DEF Downs
<1>5. Kept(x)
  <2>1. PICK h \in Account \ {Null} : d.vests[h] > Left(d, h)
    BY DEF Good, Kept
  <2>2. x.vests[h] > Left(x, h)
    BY <1>2, <1>3, <2>1
  <2> QED BY <2>1, <2>2 DEF Kept
<1> QED BY <1>4, <1>5 DEF Good

\* What a block does to the power-down of c.
Progress(x, d, c) ==
    x.next[c] # 0 /\ (x.withdrawn[c] = d.withdrawn[c] \/ Paid(x, d, c))

Advanced(x, d) ==
    /\ Good(x) /\ Ratio(x, d) /\ x.pendShares = d.pendShares
    /\ x.ok => \A c \in Account : Progress(x, d, c)

\* process_vesting_withdrawals, one block later than the last time.
LEMMA ProcessWithdrawalsOK ==
  ASSUME NEW d, Good(d)
  PROVE  Advanced(ProcessWithdrawals(d), d)
<1> DEFINE n == [a \in Account |-> IF d.next[a] > 0 THEN d.next[a] - 1 ELSE d.next[a]]
           e == [d EXCEPT !.next = n]
           x == WithdrawDue(e)
           S == {a \in Account : e.next[a] = 0}
<1>1. d \in Db /\ d.next \in Due /\ Week \in Nat
  BY VestingAssumption DEF Good, Db
<1>2. n \in Due /\ \A c \in Account : n[c] = Never <=> d.next[c] = Never
  BY <1>1 DEF Never, Due
<1> HIDE DEF n
<1>3. e \in Db /\ e.next = n
  BY <1>1, <1>2 DEF Db
<1>4. SameRewards(e, d) /\ SameFund(e, d) /\ e.rate = d.rate /\ e.toWithdraw = d.toWithdraw
      /\ e.withdrawn = d.withdrawn
  BY <1>1 DEF Db, SameRewards, SameFund
<1>5. ProcessWithdrawals(d) = x
  BY Zenon DEF ProcessWithdrawals, n
<1> HIDE DEF e, x
<1>6. Good(e)
  <2>1. \A c \in Account : Left(e, c) = Left(d, c)
    BY <1>4 DEF Left
  <2>2. Books(e)
    BY <1>4 DEF Good, Books, SameRewards, SameFund
  <2>3. Downs(e)
    BY <1>2, <1>3, <1>4, <2>1 DEF Good, Downs, Down, SameFund
  <2>4. Kept(e)
    BY <1>4, <2>1 DEF Good, Kept, SameFund
  <2> QED BY <1>3, <2>2, <2>3, <2>4 DEF Good
<1>7. Processed(x, e, S)
  BY <1>6, WithdrawDueOK DEF x
<1>8. Good(x) /\ Ratio(x, d) /\ x.pendShares = d.pendShares
  BY <1>4, <1>7 DEF Processed, Ratio, SameFund, SameRewards
<1>9. ASSUME x.ok, NEW c \in Account PROVE Progress(x, d, c)
  <2>1. CASE c \in S
    <3>1. Paid(x, e, c)
      BY <1>7, <1>9, <2>1 DEF Processed
    <3> QED BY <1>4, <3>1 DEF Paid, Progress
  <2>2. CASE c \notin S
    <3>1. Still(x, e, c) /\ e.next[c] # 0
      BY <1>7, <2>2 DEF Processed
    <3> QED BY <1>4, <3>1 DEF Still, Progress
  <2> QED BY <2>1, <2>2
<1> QED BY <1>5, <1>8, <1>9 DEF Advanced

-----------------------------------------------------------------------------
(* Deposits, and what is minted.                                           *)

\* x is d with n more WLS in the fund and the shares they buy.
Invested(x, d, n) ==
    /\ x \in Db /\ SameRewards(x, d) /\ SameDowns(x, d) /\ x.balance = d.balance
    /\ x.fund = d.fund + n /\ Ratio(x, d)
    /\ \A c \in Account : x.vests[c] >= d.vests[c]
    /\ d.shares = Total(d.vests) => x.shares = Total(x.vests)

\* create_vesting: the buyer gets no more shares than the WLS are worth.
LEMMA CreateVestingOK ==
  ASSUME NEW d \in Db, d.fund > 0, d.shares > 0, NEW to \in Account, NEW n \in Nat
  PROVE  Invested(CreateVesting(d, to, n), d, n)
<1> DEFINE v == ToVests(d, n)
           f == Credit(d.vests, to, v)
           y == [d EXCEPT !.vests = f, !.fund = @ + n, !.shares = @ + v]
           x == AdjustOwnVotes(y, to, v)
<1>1. d.fund \in Nat /\ d.shares \in Nat /\ d.vests \in Amount /\ d.vests[to] \in Nat
  BY DEF Db, Amount
<1>2. v = (n * d.shares) \div d.fund
  BY <1>1 DEF ToVests, Unpriced
<1>3. n * d.shares \in Nat
  BY <1>1, Products
<1>4. v \in Nat /\ d.fund * v <= n * d.shares
  BY <1>1, <1>2, <1>3, Division
<1>5. CreateVesting(d, to, n) = x
  BY Zenon DEF CreateVesting
<1> HIDE DEF v
<1>6. d.vests[to] + v >= 0 /\ v \in Int
  BY <1>1, <1>4
<1>7. f \in Amount /\ Total(f) = Total(d.vests) + v /\ f[to] = d.vests[to] + v
      /\ \A c \in Account \ {to} : f[c] = d.vests[c]
  BY <1>1, <1>6, Credited
<1> HIDE DEF f
<1>8. \A c \in Account : f[c] >= d.vests[c]
  BY <1>1, <1>4, <1>7 DEF Amount
<1>9. d.fund + n \in Nat /\ d.shares + v \in Nat
  BY <1>1, <1>4
<1>10. y \in Db /\ y.vests = f /\ y.fund = d.fund + n /\ y.shares = d.shares + v
       /\ y.balance = d.balance /\ SameRewards(y, d) /\ SameDowns(y, d)
  BY <1>7, <1>9 DEF Db, SameRewards, SameDowns
<1> HIDE DEF y
<1>11. Recast(x, y)
  BY <1>6, <1>10, OwnVotesOK
<1> HIDE DEF x
<1>12. x \in Db /\ x.vests = f /\ x.fund = d.fund + n /\ x.shares = d.shares + v
       /\ x.balance = d.balance /\ SameRewards(x, d) /\ SameDowns(x, d)
  BY <1>10, <1>11 DEF Recast, SameFund, SameRewards, SameDowns
<1>13. Ratio(x, d)
  <2>1. d.fund * d.shares \in Nat /\ d.fund * v \in Nat
    BY <1>1, <1>4, Products
  <2>2. (d.fund + n) * d.shares = d.fund * d.shares + n * d.shares
        /\ d.fund * (d.shares + v) = d.fund * d.shares + d.fund * v
    BY <1>1, <1>4
  <2> QED BY <1>3, <1>4, <1>12, <2>1, <2>2 DEF Ratio
<1> QED BY <1>5, <1>7, <1>8, <1>12, <1>13 DEF Invested

\* What the end of a block does to the power-downs before instalments: nothing.
Better(x, d) == Good(x) /\ Ratio(x, d) /\ SameDowns(x, d)

\* The supply less what is burnt is the rest of what makes it up.
LEMMA Burning ==
  ASSUME NEW b \in Int, NEW r \in Int, NEW f \in Int, NEW p \in Int, NEW c \in Int,
         NEW b0 \in Int, NEW r0 \in Int, NEW f0 \in Int, NEW p0 \in Int
  PROVE  (b + r + f + p + c) - (b0 + f0 + r0 + p0) = (b - b0) + (r - r0) + (f - f0) + (p - p0) + c
OBVIOUS

\* clear_null_account_balance: null never holds all shares, and the others do not
\* lose.
LEMMA ClearNullOK ==
  ASSUME NEW d, Good(d)
  PROVE  Better(ClearNull(d), d)
<1> DEFINE Cleared(f) == [f EXCEPT ![Null] = 0]
           s == d.vests[Null]
           wls == ToWls(d, s)
           b == Cleared(d.balance)
           v == Cleared(d.vests)
           r == Cleared(d.reward)
           rv == Cleared(d.rewardVests)
           p == IF d.rewardVests[Null] > 0 THEN d.rewardSteem[Null] ELSE 0
           rs == Credit(d.rewardSteem, Null, -p)
           burnt == d.balance[Null] + wls + d.reward[Null] + p
           x == [d EXCEPT !.balance = b, !.vests = v, !.reward = r,
                          !.rewardVests = rv, !.rewardSteem = rs,
                          !.shares = @ - s, !.fund = @ - wls,
                          !.pendShares = @ - d.rewardVests[Null],
                          !.pendSteem = @ - p,
                          !.supply = @ - burnt]
<1>1. ClearNull(d) = x
  BY Zenon DEF ClearNull
<1>2. d \in Db /\ Books(d) /\ d.fund > 0 /\ Null \in Account
  BY VestingAssumption DEF Good, Kept
<1>3. /\ d.balance \in Amount /\ d.vests \in Amount /\ d.reward \in Amount
      /\ d.rewardVests \in Amount /\ d.rewardSteem \in Amount
      /\ d.fund \in Nat /\ d.shares \in Nat /\ d.pendShares \in Nat /\ d.pendSteem \in Nat
      /\ d.rewardFund \in Nat /\ d.supply \in Nat
  BY <1>2 DEF Db
<1>4. s \in Nat /\ s < d.shares /\ d.shares > 0
  BY <1>2, <1>3, NotAllShares DEF Amount
<1>5. wls = (s * d.fund) \div d.shares
  BY <1>2, <1>3, <1>4 DEF ToWls, Unpriced
<1>6. wls \in Nat /\ wls < d.fund /\ (d.fund - wls) * d.shares >= d.fund * (d.shares - s)
  BY <1>2, <1>3, <1>4, <1>5, Worth
<1> HIDE DEF wls
<1>7. ASSUME NEW f \in Amount
      PROVE  /\ Cleared(f) \in Amount /\ Total(Cleared(f)) = Total(f) - f[Null]
             /\ Total(f) \in Nat /\ f[Null] \in Nat /\ f[Null] <= Total(f)
  <2>1. Cleared(f) \in Amount /\ Total(Cleared(f)) = Total(f) - f[Null] + 0
    BY <1>2, TotalChanged
  <2>2. Total(f) \in Nat /\ f[Null] \in Nat /\ f[Null] <= Total(f)
    BY <1>2, TotalNat DEF Amount
  <2> QED BY <2>1, <2>2
<1>8. \A c \in Account \ {Null} : v[c] >= d.vests[c]
  BY <1>3 DEF Amount
<1>9. b \in Amount /\ Total(b) = Total(d.balance) - d.balance[Null]
      /\ Total(d.balance) \in Nat /\ d.balance[Null] \in Nat /\ d.balance[Null] <= Total(d.balance)
  BY <1>3, <1>7
<1>10. v \in Amount /\ Total(v) = Total(d.vests) - s
  BY <1>3, <1>7
<1>11. r \in Amount /\ Total(r) = Total(d.reward) - d.reward[Null]
      /\ Total(d.reward) \in Nat /\ d.reward[Null] \in Nat /\ d.reward[Null] <= Total(d.reward)
  BY <1>3, <1>7
<1>12. rv \in Amount /\ Total(rv) = Total(d.rewardVests) - d.rewardVests[Null]
      /\ d.rewardVests[Null] \in Nat /\ d.rewardVests[Null] <= Total(d.rewardVests)
  BY <1>3, <1>7
<1>13. rs \in Amount /\ Total(rs) = Total(d.rewardSteem) - p
      /\ p \in Nat /\ p <= Total(d.rewardSteem)
  <2>1. d.rewardSteem[Null] \in Nat /\ d.rewardSteem[Null] <= Total(d.rewardSteem)
        /\ Total(d.rewardSteem) \in Nat
    BY <1>3, <1>7
  <2>2. p \in Nat /\ p <= d.rewardSteem[Null]
    BY <2>1
  <2> HIDE DEF p
  <2>3. -p \in Int /\ d.rewardSteem[Null] + (-p) >= 0
    BY <2>1, <2>2
  <2>4. rs \in Amount /\ Total(rs) = Total(d.rewardSteem) + (-p)
    BY <1>2, <1>3, <2>3, Credited
  <2> HIDE DEF rs
  <2> QED BY <2>1, <2>2, <2>4
<1> HIDE DEF p, b, v, r, rv, rs, s
<1>14. d.pendShares - d.rewardVests[Null] \in Nat /\ d.pendSteem - p \in Nat
       /\ d.fund - wls \in Nat /\ d.shares - s \in Nat
  BY <1>2, <1>3, <1>4, <1>6, <1>12, <1>13 DEF Books
<1>15. burnt \in Nat /\ d.supply - burnt \in Nat
       /\ d.supply - burnt = Total(b) + Total(r) + (d.fund - wls) + (d.pendSteem - p) + d.rewardFund
  <2>1. d.supply = Total(d.balance) + Total(d.reward) + d.fund + d.pendSteem + d.rewardFund
    BY <1>2 DEF Books
  <2>2. burnt \in Nat
    BY <1>6, <1>9, <1>11, <1>13
  <2>3. d.supply - burnt = (Total(d.balance) - d.balance[Null]) + (Total(d.reward) - d.reward[Null])
                           + (d.fund - wls) + (d.pendSteem - p) + d.rewardFund
    <3>1. {Total(d.balance), Total(d.reward), d.fund, d.pendSteem, d.rewardFund,
           d.balance[Null], d.reward[Null], wls, p} \subseteq Int
      BY <1>3, <1>6, <1>9, <1>11, <1>13
    <3> QED BY <2>1, <3>1, Burning
  <2>4. d.supply - burnt = Total(b) + Total(r) + (d.fund - wls) + (d.pendSteem - p)
                           + d.rewardFund
    BY <1>9, <1>11, <2>3
  <2>5. Total(b) \in Nat /\ Total(r) \in Nat
    BY <1>9, <1>11, TotalNat
  <2> HIDE DEF burnt
  <2> QED BY <1>3, <1>14, <2>2, <2>4, <2>5
<1> HIDE DEF burnt
<1>16. x \in Db
  BY <1>2, <1>9, <1>10, <1>11, <1>12, <1>13, <1>14, <1>15 DEF Db
<1>17. /\ x.balance = b /\ x.vests = v /\ x.reward = r /\ x.rewardVests = rv /\ x.rewardSteem = rs
       /\ x.shares = d.shares - s /\ x.fund = d.fund - wls
       /\ x.pendShares = d.pendShares - d.rewardVests[Null]
       /\ x.pendSteem = d.pendSteem - p
       /\ x.supply = d.supply - burnt /\ x.rewardFund = d.rewardFund /\ SameDowns(x, d)
  BY <1>2 DEF Db, SameDowns
<1> HIDE DEF x
<1>18. Books(x)
  BY <1>2, <1>10, <1>12, <1>13, <1>15, <1>17 DEF Books
<1>19. x.fund > 0 /\ Ratio(x, d)
  BY <1>3, <1>6, <1>17 DEF Ratio
<1>20. Good(x)
  BY <1>8, <1>16, <1>17, <1>18, <1>19, GoodStays
<1> QED BY <1>1, <1>17, <1>19, <1>20 DEF Better

\* process_funds: what is minted is booked, and vested at the price.
LEMMA ProcessFundsOK ==
  ASSUME NEW d, Good(d), NEW w \in Account, NEW m \in Minted
  PROVE  Better(ProcessFunds(d, w, m), d)
<1> DEFINE e == [d EXCEPT !.supply = @ + m.content + m.dev + m.witness,
                          !.rewardFund = @ + m.content]
           y == CreateVesting(e, w, m.witness)
           f == Credit(y.balance, DevFund, m.dev)
           x == [y EXCEPT !.balance = f]
<1>1. ProcessFunds(d, w, m) = x
  BY Zenon DEF ProcessFunds
<1>2. m.content \in Nat /\ m.dev \in Nat /\ m.witness \in Nat /\ DevFund \in Account
  BY VestingAssumption
<1>3. d \in Db /\ Books(d) /\ d.fund > 0 /\ d.shares > 0
  BY RatioNat DEF Good, Kept
<1>4. d.supply \in Nat /\ d.rewardFund \in Nat /\ d.balance \in Amount
      /\ d.fund \in Nat /\ d.pendSteem \in Nat /\ Total(d.balance) \in Nat /\ Total(d.reward) \in Nat
  BY <1>3, TotalNat DEF Db
<1>5. d.supply + m.content + m.dev + m.witness \in Nat /\ d.rewardFund + m.content \in Nat
  BY <1>2, <1>4
<1>6. e \in Db /\ SameFund(e, d) /\ SameDowns(e, d)
  BY <1>3, <1>5 DEF Db, SameFund, SameDowns
<1>7. /\ e.supply = d.supply + m.content + m.dev + m.witness
      /\ e.rewardFund = d.rewardFund + m.content
      /\ e.reward = d.reward /\ e.rewardVests = d.rewardVests /\ e.rewardSteem = d.rewardSteem
      /\ e.pendShares = d.pendShares /\ e.pendSteem = d.pendSteem
  BY <1>3 DEF Db
<1> HIDE DEF e
<1>8. Invested(y, e, m.witness)
  BY <1>2, <1>3, <1>6, CreateVestingOK DEF SameFund
<1> HIDE DEF y
<1>9. y \in Db /\ y.balance = d.balance /\ y.fund = d.fund + m.witness /\ y.shares = Total(y.vests)
      /\ SameDowns(y, d) /\ SameRewards(y, e) /\ Ratio(y, d)
      /\ \A c \in Account : y.vests[c] >= d.vests[c]
  BY <1>3, <1>6, <1>8 DEF Invested, SameFund, SameDowns, Books, Ratio
<1>10. d.balance[DevFund] \in Nat /\ d.balance[DevFund] + m.dev >= 0 /\ m.dev \in Int
  BY <1>2, <1>4 DEF Amount
<1>11. f \in Amount /\ Total(f) = Total(d.balance) + m.dev
  BY <1>2, <1>4, <1>9, <1>10, Credited
<1> HIDE DEF f
<1>12. x \in Db /\ x.balance = f /\ x.vests = y.vests /\ x.fund = y.fund /\ x.shares = y.shares
       /\ SameDowns(x, y) /\ SameRewards(x, y)
  BY <1>9, <1>11 DEF Db, SameDowns, SameRewards
<1> HIDE DEF x
<1>13. SameDowns(x, d) /\ SameRewards(x, e)
  BY <1>9, <1>12 DEF SameDowns, SameRewards
<1>14. Books(x)
  <2>1. x.supply = d.supply + m.content + m.dev + m.witness /\ x.rewardFund = d.rewardFund + m.content
        /\ x.reward = d.reward /\ x.pendSteem = d.pendSteem
    BY <1>7, <1>13 DEF SameRewards
  <2>2. d.supply = Total(d.balance) + Total(d.reward) + d.fund + d.pendSteem + d.rewardFund
    BY <1>3 DEF Books
  <2>3. x.supply = Total(x.balance) + Total(x.reward) + x.fund + x.pendSteem + x.rewardFund
    BY <1>2, <1>4, <1>9, <1>11, <1>12, <2>1, <2>2
  <2> QED BY <1>3, <1>7, <1>9, <1>12, <1>13, <2>3 DEF Books, SameRewards
<1>15. x.fund > 0 /\ Ratio(x, d)
  BY <1>2, <1>3, <1>4, <1>9, <1>12 DEF Ratio
<1>16. Good(x)
  BY <1>9, <1>12, <1>13, <1>14, <1>15, GoodStays
<1> QED BY <1>1, <1>13, <1>15, <1>16 DEF Better

\* The end of a block, which is applied if x.ok.
LEMMA BlockOK ==
  ASSUME NEW d, Good(d), NEW w \in Account, NEW m \in Minted
  PROVE  LET x == ProcessWithdrawals(ProcessFunds(ClearNull(d), w, m)) IN
         /\ Good(x) /\ Ratio(x, d)
         /\ x.ok => \A c \in Account : Progress(x, d, c)
<1> DEFINE e1 == ClearNull(d)
           e2 == ProcessFunds(e1, w, m)
           x == ProcessWithdrawals(e2)
<1>1. Better(e1, d)
  BY ClearNullOK
<1>2. Better(e2, e1)
  <2> HIDE DEF e1
  <2> QED BY <1>1, ProcessFundsOK DEF Better
<1>3. Advanced(x, e2)
  <2> HIDE DEF e2
  <2> QED BY <1>2, ProcessWithdrawalsOK DEF Better
<1> HIDE DEF e1, e2, x
<1>4. {x.fund, x.shares, e1.fund, e1.shares, e2.fund, e2.shares, d.fund, d.shares} \subseteq Nat
      /\ e1.shares > 0 /\ e2.shares > 0
  BY <1>1, <1>2, <1>3, RatioNat DEF Better, Advanced
<1>5. Ratio(e2, d)
  BY <1>1, <1>2, <1>4, RatioTrans DEF Better
<1>6. Ratio(x, d)
  BY <1>3, <1>4, <1>5, RatioTrans DEF Advanced
<1>7. SameDowns(e2, d)
  BY <1>1, <1>2 DEF Better, SameDowns
<1>8. ASSUME x.ok, NEW c \in Account PROVE Progress(x, d, c)
  <2>1. Progress(x, e2, c)
    BY <1>3, <1>8 DEF Advanced
  <2> QED BY <1>7, <2>1 DEF Progress, Paid, SameDowns
<1>9. Good(x)
  BY <1>3 DEF Advanced
<1> QED BY <1>6, <1>8, <1>9 DEF x, e2, e1

-----------------------------------------------------------------------------
(* The operations.                                                         *)

\* Moving votes keeps the books.
LEMMA RecastBetter ==
  ASSUME NEW d, Good(d), NEW x, Recast(x, d)
  PROVE  Better(x, d)
<1>1. x \in Db /\ SameRewards(x, d) /\ SameDowns(x, d) /\ SameFund(x, d)
  BY DEF Recast
<1>2. Books(x) /\ x.fund > 0
  BY <1>1 DEF Good, Kept, Books, SameRewards, SameFund
<1>3. \A c \in Account : x.vests[c] >= d.vests[c]
  BY <1>1 DEF SameFund, Db, Amount
<1>4. Ratio(x, d)
  BY <1>1, RatioNat DEF Ratio, SameFund
<1>5. Good(x)
  BY <1>1, <1>2, <1>3, GoodStays
<1> QED BY <1>1, <1>4, <1>5 DEF Better

\* Moving votes twice is moving votes.
LEMMA RecastTrans ==
  ASSUME NEW x, NEW y, NEW z, Recast(x, y), Recast(y, z)
  PROVE  Recast(x, z)
BY Zenon DEF Recast, SameRewards, SameDowns, SameFund

\* transfer_evaluator, to oneself too.
LEMMA TransferOK ==
  ASSUME NEW d, Good(d), NEW a \in Account, NEW b \in Account, NEW n \in Nat, d.balance[a] >= n
  PROVE  Better([d EXCEPT !.balance = Credit(Credit(@, a, -n), b, n)], d)
<1> DEFINE e == Credit(d.balance, a, -n)
           f == Credit(e, b, n)
           x == [d EXCEPT !.balance = f]
<1>1. d \in Db /\ d.balance \in Amount /\ d.balance[a] \in Nat /\ Total(d.balance) \in Nat
  BY TotalNat DEF Good, Db, Amount
<1>2. d.balance[a] + (-n) >= 0 /\ -n \in Int
  BY <1>1
<1>3. e \in Amount /\ Total(e) = Total(d.balance) + (-n)
  BY <1>1, <1>2, Credited
<1> HIDE DEF e
<1>4. e[b] + n >= 0 /\ n \in Int
  BY <1>3 DEF Amount
<1>5. f \in Amount /\ Total(f) = Total(e) + n
  BY <1>3, <1>4, Credited
<1>6. Total(f) = Total(d.balance)
  BY <1>1, <1>3, <1>5
<1> HIDE DEF f
<1>7. x \in Db /\ x.balance = f /\ SameRewards(x, d) /\ SameDowns(x, d)
      /\ x.vests = d.vests /\ x.fund = d.fund /\ x.shares = d.shares
  BY <1>1, <1>5 DEF Db, SameRewards, SameDowns
<1> HIDE DEF x
<1>8. Books(x) /\ x.fund > 0
  BY <1>6, <1>7 DEF Good, Kept, Books, SameRewards
<1>9. \A c \in Account : x.vests[c] >= d.vests[c]
  BY <1>1, <1>7 DEF Db, Amount
<1>10. Ratio(x, d)
  BY <1>7, RatioNat DEF Ratio
<1>11. Good(x)
  BY <1>7, <1>8, <1>9, GoodStays
<1> QED BY <1>7, <1>10, <1>11 DEF Better, x, f, e

\* transfer_to_vesting_evaluator.
LEMMA TransferToVestingOK ==
  ASSUME NEW d, Good(d), NEW a \in Account, NEW b \in Account, NEW n \in Nat, d.balance[a] >= n
  PROVE  Better(CreateVesting([d EXCEPT !.balance = Credit(@, a, -n)], b, n), d)
<1> DEFINE f == Credit(d.balance, a, -n)
           e == [d EXCEPT !.balance = f]
           x == CreateVesting(e, b, n)
<1>1. d \in Db /\ Books(d) /\ d.balance \in Amount /\ d.balance[a] \in Nat /\ Total(d.balance) \in Nat
      /\ Total(d.reward) \in Nat /\ d.fund \in Nat /\ d.pendSteem \in Nat /\ d.rewardFund \in Nat
      /\ d.fund > 0 /\ d.shares > 0
  BY TotalNat, RatioNat DEF Good, Kept, Db, Amount
<1>2. d.balance[a] + (-n) >= 0 /\ -n \in Int
  BY <1>1
<1>3. f \in Amount /\ Total(f) = Total(d.balance) + (-n)
  BY <1>1, <1>2, Credited
<1> HIDE DEF f
<1>4. e \in Db /\ e.balance = f /\ SameRewards(e, d) /\ SameDowns(e, d)
      /\ e.vests = d.vests /\ e.fund = d.fund /\ e.shares = d.shares
  BY <1>1, <1>3 DEF Db, SameRewards, SameDowns
<1> HIDE DEF e
<1>5. Invested(x, e, n)
  BY <1>1, <1>4, CreateVestingOK
<1> HIDE DEF x
<1>6. x \in Db /\ x.balance = f /\ x.fund = d.fund + n /\ x.shares = Total(x.vests)
      /\ SameRewards(x, d) /\ SameDowns(x, d) /\ Ratio(x, d)
      /\ \A c \in Account : x.vests[c] >= d.vests[c]
  BY <1>1, <1>4, <1>5 DEF Invested, SameRewards, SameDowns, Ratio, Books
<1>7. Books(x)
  <2>1. x.supply = d.supply /\ x.reward = d.reward /\ x.pendSteem = d.pendSteem /\ x.rewardFund = d.rewardFund
        /\ d.supply = Total(d.balance) + Total(d.reward) + d.fund + d.pendSteem + d.rewardFund
    BY <1>1, <1>6 DEF Books, SameRewards
  <2>2. x.supply = Total(x.balance) + Total(x.reward) + x.fund + x.pendSteem + x.rewardFund
    BY <1>1, <1>3, <1>6, <2>1
  <2> QED BY <1>1, <1>6, <2>2 DEF Books, SameRewards
<1>8. x.fund > 0
  BY <1>1, <1>6
<1>9. Good(x)
  BY <1>6, <1>7, <1>8, GoodStays
<1> QED BY <1>6, <1>9 DEF Better, x, e, f

\* set_withdraw_vesting_route_evaluator moves no money.
LEMMA RouteOK ==
  ASSUME NEW d, Good(d), NEW a \in Account, NEW b \in Account, NEW p \in 0..Hundred,
         NEW auto \in BOOLEAN
  PROVE  Better([d EXCEPT !.routes[a][b] = [percent |-> p, auto |-> p # 0 /\ auto]], d)
<1> DEFINE k == p # 0 /\ auto
           r == [percent |-> p, auto |-> k]
           t == [d.routes EXCEPT ![a] = [d.routes[a] EXCEPT ![b] = r]]
           x == [d EXCEPT !.routes = t]
<1>1. k \in BOOLEAN
  BY Zenon
<1> HIDE DEF k
<1>2. r \in Route
  BY <1>1 DEF Route
<1> HIDE DEF r
<1>3. d \in Db /\ d.routes \in Routing
  BY DEF Good, Db
<1>4. t \in Routing
  BY <1>2, <1>3 DEF Routing
<1>5. x = [d EXCEPT !.routes[a][b] = r]
  BY <1>3
<1> HIDE DEF t
<1>6. x \in Db /\ SameRewards(x, d) /\ SameDowns(x, d) /\ SameFund(x, d)
  BY <1>3, <1>4 DEF Db, SameRewards, SameDowns, SameFund
<1> HIDE DEF x
<1>7. Books(x) /\ x.fund > 0
  BY <1>6 DEF Good, Kept, Books, SameRewards, SameFund
<1>8. \A c \in Account : x.vests[c] >= d.vests[c]
  BY <1>3, <1>6 DEF SameFund, Db, Amount
<1>9. Ratio(x, d)
  BY <1>6, RatioNat DEF Ratio, SameFund
<1>10. Good(x)
  BY <1>6, <1>7, <1>8, GoodStays
<1>11. Better(x, d)
  BY <1>6, <1>9, <1>10 DEF Better
<1> QED BY <1>5, <1>11 DEF r, k

\* witness_vote_weight is a number.
LEMMA WeightInt ==
  ASSUME NEW d \in Db, NEW a \in Account
  PROVE  Weight(d, a) \in Int
<1> DEFINE f == d.proxied[a]
           I == 0..(Depth-1)
<1>1. d.proxied \in [Account -> [I -> Int]] /\ d.vests[a] \in Int
  BY DEF Db, Amount, ByDistance
<1>2. f \in [I -> Int]
  BY <1>1
<1>3. IsFiniteSet(I) /\ DOMAIN f = I /\ \A i \in I : f[i] \in Int
  <2>1. Depth - 1 \in Int
    BY VestingAssumption
  <2>2. IsFiniteSet(I)
    BY <2>1, FS_Interval
  <2> HIDE DEF f, I
  <2> QED BY <1>2, <2>2
<1> HIDE DEF f, I
<1>4. SumFunctionOnSet(f, I) \in Int
  BY <1>3, SumType
<1>5. SumFunction(f) = SumFunctionOnSet(f, I)
  BY <1>3, Zenon DEF SumFunction
<1> QED BY <1>1, <1>4, <1>5 DEF Weight, f

\* A witness is voted for, or no longer.
LEMMA VoteOK ==
  ASSUME NEW d, Good(d), NEW a \in Account, NEW w \in Witness,
         NEW s \in SUBSET (Account \X Witness), NEW n \in Int, NEW k \in Int
  PROVE  Better([d EXCEPT !.voted = s, !.votedFor[a] = n, !.votes[w] = k], d)
<1> DEFINE f == [d.votedFor EXCEPT ![a] = n]
           g == [d.votes EXCEPT ![w] = k]
           x == [d EXCEPT !.voted = s, !.votedFor = f, !.votes = g]
<1>1. d \in Db /\ d.votedFor \in [Account -> Int] /\ d.votes \in [Witness -> Int]
  BY DEF Good, Db
<1>2. f \in [Account -> Int] /\ g \in [Witness -> Int]
  BY <1>1
<1>3. x = [d EXCEPT !.voted = s, !.votedFor[a] = n, !.votes[w] = k]
  BY <1>1 DEF Db
<1> HIDE DEF f, g
<1>4. x \in Db
  BY <1>1, <1>2 DEF Db
<1>5. x.ok = d.ok
  BY <1>1 DEF Db
<1>6. SameRewards(x, d) /\ SameDowns(x, d) /\ SameFund(x, d) /\ x.routes = d.routes
  BY <1>1 DEF Db, SameRewards, SameDowns, SameFund
<1> HIDE DEF x
<1>7. Recast(x, d)
  BY <1>4, <1>5, <1>6 DEF Recast
<1>8. Better(x, d)
  BY <1>7, RecastBetter
<1> QED BY <1>3, <1>8

\* A proxy changes, and with it who votes with what.
LEMMA SetProxyOK ==
  ASSUME NEW d \in Db, NEW a \in Account, NEW p \in Account \cup {Self}
  PROVE  /\ Recast([d EXCEPT !.proxy[a] = p], d)
         /\ Recast([ClearWitnessVotes(d, a) EXCEPT !.proxy[a] = p], d)
<1> DEFINE q == [d.proxy EXCEPT ![a] = p]
           f == [d.votedFor EXCEPT ![a] = 0]
           s == {v \in d.voted : v[1] # a}
           x == [d EXCEPT !.proxy = q]
           y == [d EXCEPT !.voted = s, !.votedFor = f]
           z == [y EXCEPT !.proxy = q]
<1>1. d.proxy \in [Account -> Account \cup {Self}] /\ d.votedFor \in [Account -> Int]
      /\ d.voted \in SUBSET (Account \X Witness)
  BY DEF Db
<1>2. q \in [Account -> Account \cup {Self}] /\ f \in [Account -> Int]
      /\ s \in SUBSET (Account \X Witness)
  BY <1>1
<1>3. x = [d EXCEPT !.proxy[a] = p] /\ y = ClearWitnessVotes(d, a)
  BY DEF Db, ClearWitnessVotes
<1>4. z = [y EXCEPT !.proxy[a] = p]
  BY DEF Db
<1> HIDE DEF q, f, s
<1>5. x \in Db /\ x.ok = d.ok /\ SameRewards(x, d) /\ SameDowns(x, d) /\ SameFund(x, d)
      /\ x.routes = d.routes
  BY <1>2 DEF Db, SameRewards, SameDowns, SameFund
<1>6. z \in Db /\ z.ok = d.ok /\ SameRewards(z, d) /\ SameDowns(z, d) /\ SameFund(z, d)
      /\ z.routes = d.routes
  BY <1>2 DEF Db, SameRewards, SameDowns, SameFund
<1> HIDE DEF x, y, z
<1>7. Recast(x, d) /\ Recast(z, d)
  BY <1>5, <1>6 DEF Recast
<1> QED BY <1>3, <1>4, <1>7

\* So is everything an account votes with.
LEMMA AllVotesInt ==
  ASSUME NEW d \in Db, NEW a \in Account
  PROVE  AllVotes(d, a) \in [0..Depth -> Int] /\ Negated(AllVotes(d, a)) \in [0..Depth -> Int]
<1>1. d.vests[a] \in Int /\ d.proxied \in ByDistance /\ Depth \in Nat
  BY VestingAssumption DEF Db, Amount
<1>2. d.proxied[a] \in [0..(Depth-1) -> Int]
  BY <1>1 DEF ByDistance
<1>3. ASSUME NEW i \in 0..Depth
      PROVE  (IF i = 0 THEN d.vests[a] ELSE d.proxied[a][i-1]) \in Int
  BY <1>1, <1>2
<1>4. AllVotes(d, a) \in [0..Depth -> Int]
  BY <1>3 DEF AllVotes
<1>5. Negated(AllVotes(d, a)) \in [0..Depth -> Int]
  <2> HIDE DEF AllVotes
  <2> QED BY <1>4 DEF Negated
<1> QED BY <1>4, <1>5

\* Either way a change of proxy goes: the votes leave, the proxy changes, the
\* votes arrive.
LEMMA ProxyOK ==
  ASSUME NEW d, Good(d), NEW a \in Account, NEW p \in Account \cup {Self}
  PROVE  LET delta == AllVotes(d, a)
             taken == AdjustProxied(d, a, Negated(delta))
             moved == [ClearWitnessVotes(taken, a) EXCEPT !.proxy[a] = p]
         IN /\ Better([taken EXCEPT !.proxy[a] = p], d)
            /\ Better(AdjustProxied(moved, a, delta), d)
<1> DEFINE delta == AllVotes(d, a)
           taken == AdjustProxied(d, a, Negated(delta))
           moved == [ClearWitnessVotes(taken, a) EXCEPT !.proxy[a] = p]
           x == [taken EXCEPT !.proxy[a] = p]
           y == AdjustProxied(moved, a, delta)
<1>1. d \in Db
  BY DEF Good
<1>2. delta \in [0..Depth -> Int] /\ Negated(delta) \in [0..Depth -> Int]
  BY <1>1, AllVotesInt
<1> HIDE DEF delta
<1>3. Recast(taken, d)
  BY <1>1, <1>2, AdjustOK
<1> HIDE DEF taken
<1>4. taken \in Db
  BY <1>3 DEF Recast
<1>5. Recast(x, taken) /\ Recast(moved, taken)
  BY <1>4, SetProxyOK
<1> HIDE DEF moved
<1>6. moved \in Db
  BY <1>5 DEF Recast
<1>7. Recast(y, moved)
  BY <1>2, <1>6, AdjustOK
<1> HIDE DEF x, y
<1>8. Recast(x, d) /\ Recast(moved, d)
  BY <1>3, <1>5, RecastTrans
<1>9. Recast(y, d)
  BY <1>7, <1>8, RecastTrans
<1>10. Better(x, d) /\ Better(y, d)
  BY <1>8, <1>9, RecastBetter
<1> QED BY <1>10 DEF x, y, moved, taken, delta

\* A power-down is started, or stopped: what it has to pay is there, and
\* somebody, the account itself if it starts one, keeps more than that.
LEMMA SetPowerDownOK ==
  ASSUME NEW d, Good(d), NEW a \in User, NEW r \in Nat, NEW n \in {Never} \cup 0..Week, NEW t \in Nat,
         r = 0 <=> n = Never,
         r # 0 => t > 0 /\ t < d.vests[a]
  PROVE  Good(SetPowerDown(d, a, r, n, t, 0))
<1> DEFINE x == SetPowerDown(d, a, r, n, t, 0)
<1>1. d \in Db /\ Downs(d) /\ Books(d) /\ a \in Account /\ a # Null
  BY VestingAssumption DEF Good
<1>2. PowerDownIs(x, d, a, r, n, t, 0)
  BY <1>1, PowerDownSet
<1> HIDE DEF x
<1>3. x \in Db /\ SameRewards(x, d) /\ SameFund(x, d) /\ x.rate[a] = r /\ x.next[a] = n
      /\ x.toWithdraw[a] = t /\ x.withdrawn[a] = 0
  BY <1>2 DEF PowerDownIs
<1>4. Books(x)
  BY <1>1, <1>3 DEF Books, SameRewards, SameFund
<1>5. \A c \in Account \ {a} : Still(x, d, c) /\ Left(x, c) = Left(d, c)
  BY <1>2 DEF PowerDownIs, Still, Left
<1>6. Left(x, a) = (IF r = 0 THEN 0 ELSE t) /\ d.vests[a] \in Nat
  BY <1>1, <1>3 DEF Left, Db, Amount
<1>7. Downs(x)
  <2>1. ASSUME NEW c \in Account
        PROVE  (x.rate[c] = 0 <=> x.next[c] = Never) /\ (x.rate[c] # 0 => Down(x, c))
    <3>1. CASE c # a
      BY <1>1, <1>3, <1>5, <3>1 DEF Downs, Down, Still, SameFund
    <3>2. CASE c = a
      <4>1. 0 = 0 * r
        OBVIOUS
      <4>2. r # 0 => Down(x, a)
        BY <1>3, <1>6, <4>1 DEF Down, SameFund
      <4> QED BY <1>3, <3>2, <4>2
    <3> QED BY <3>1, <3>2
  <2> QED BY <2>1 DEF Downs
<1>8. Kept(x)
  <2>1. PICK h \in Account \ {Null} : d.vests[h] > Left(d, h)
    BY DEF Good, Kept
  <2>2. x.fund > 0
    BY <1>3 DEF Good, Kept, SameFund
  <2>3. Left(d, a) \in Nat
    BY <1>1, LeftNat
  <2>4. CASE r # 0 \/ h = a
    <3>1. x.vests[a] > Left(x, a)
      BY <1>3, <1>6, <2>1, <2>3, <2>4 DEF SameFund
    <3> QED BY <1>1, <2>2, <3>1 DEF Kept
  <2>5. CASE r = 0 /\ h # a
    <3>1. x.vests[h] > Left(x, h)
      BY <1>3, <1>5, <2>1, <2>5 DEF SameFund
    <3> QED BY <2>1, <2>2, <3>1 DEF Kept
  <2> QED BY <2>4, <2>5
<1> QED BY <1>3, <1>4, <1>7, <1>8 DEF Good, x

\* The limit of withdraw_vesting_evaluator leaves something.
LEMMA LimitKeeps ==
  ASSUME NEW s \in Nat, s > 0, Inflation > 0
  PROVE  (s * (Hundred - Inflation)) \div Hundred < s
<1> DEFINE h == Hundred
           i == Hundred - Inflation
           q == (s * i) \div h
<1>1. h \in Nat /\ h > 0 /\ i \in Nat /\ i < h
  BY VestingAssumption
<1> HIDE DEF h, i
<1>2. s * i \in Nat
  BY <1>1, Products
<1>3. q \in Nat /\ h * q <= s * i
  BY <1>1, <1>2, Division
<1> HIDE DEF q
<1>4. i * s < h * s
  BY <1>1, ProductGrows
<1>5. q * h < s * h
  BY <1>1, <1>2, <1>3, <1>4
<1>6. q < s
  BY <1>1, <1>3, <1>5, ProductGrows
<1> QED BY <1>6 DEF q, h, i

\* ClaimRewardBalance of n WLS and of v vests that come with some more.
Claimed(d, a, n, v, wls) ==
    AdjustOwnVotes(
       [d EXCEPT !.reward = Credit(@, a, -n), !.balance = Credit(@, a, n),
                 !.vests = Credit(@, a, v), !.rewardVests = Credit(@, a, -v),
                 !.rewardSteem = Credit(@, a, -wls), !.shares = @ + v, !.fund = @ + wls,
                 !.pendShares = @ - v, !.pendSteem = @ - wls], a, v)

\* A claim moves rewards, and may add WLS to the fund for the vests it makes.
LEMMA ClaimOK ==
  ASSUME NEW d, Good(d), NEW a \in Account, NEW n \in Nat, NEW v \in Nat, NEW wls,
         n <= d.reward[a], v <= d.rewardVests[a],
         wls = (IF v = d.rewardVests[a] THEN d.rewardSteem[a]
                ELSE (v * d.rewardSteem[a]) \div d.rewardVests[a])
  PROVE  LET x == Claimed(d, a, n, v, wls)
         IN Good(x) /\ SameDowns(x, d) /\ (x.pendShares = d.pendShares => Ratio(x, d))
<1> DEFINE r == Credit(d.reward, a, -n)
           b == Credit(d.balance, a, n)
           s == Credit(d.vests, a, v)
           rv == Credit(d.rewardVests, a, -v)
           rs == Credit(d.rewardSteem, a, -wls)
           y == [d EXCEPT !.reward = r, !.balance = b, !.vests = s, !.rewardVests = rv,
                          !.rewardSteem = rs, !.shares = @ + v, !.fund = @ + wls,
                          !.pendShares = @ - v, !.pendSteem = @ - wls]
           x == AdjustOwnVotes(y, a, v)
<1>1. d \in Db /\ Books(d) /\ d.fund > 0
  BY DEF Good, Kept
<1>2. /\ d.balance \in Amount /\ d.vests \in Amount /\ d.reward \in Amount
      /\ d.rewardVests \in Amount /\ d.rewardSteem \in Amount
      /\ d.fund \in Nat /\ d.shares \in Nat /\ d.pendShares \in Nat /\ d.pendSteem \in Nat
      /\ d.rewardFund \in Nat
  BY <1>1 DEF Db
<1>3. /\ d.balance[a] \in Nat /\ d.vests[a] \in Nat /\ d.reward[a] \in Nat
      /\ d.rewardVests[a] \in Nat /\ d.rewardSteem[a] \in Nat
  BY <1>2 DEF Amount
<1>4. wls \in Nat /\ wls <= d.rewardSteem[a]
  <2>1. CASE v = d.rewardVests[a]
    BY <1>3, <2>1
  <2>2. CASE v # d.rewardVests[a]
    <3>1. d.rewardVests[a] > 0 /\ wls = (v * d.rewardSteem[a]) \div d.rewardVests[a]
      BY <1>3, <2>2
    <3>2. (v * d.rewardSteem[a]) \div d.rewardVests[a] \in 0..d.rewardSteem[a]
      BY <1>3, <3>1, Worth
    <3> QED BY <1>3, <3>1, <3>2
  <2> QED BY <2>1, <2>2
<1>5. /\ Total(d.balance) \in Nat /\ Total(d.vests) \in Nat /\ Total(d.reward) \in Nat
      /\ Total(d.rewardVests) \in Nat /\ Total(d.rewardSteem) \in Nat
      /\ d.rewardVests[a] <= d.pendShares /\ d.rewardSteem[a] <= d.pendSteem
  BY <1>1, <1>2, TotalNat DEF Books
<1>6. -n \in Int /\ -v \in Int /\ -wls \in Int /\ d.reward[a] + (-n) >= 0
      /\ d.rewardVests[a] + (-v) >= 0 /\ d.rewardSteem[a] + (-wls) >= 0
      /\ d.balance[a] + n >= 0 /\ d.vests[a] + v >= 0
  BY <1>3, <1>4
<1>7. r \in Amount /\ Total(r) = Total(d.reward) + (-n)
  BY <1>2, <1>6, Credited
<1>8. b \in Amount /\ Total(b) = Total(d.balance) + n
  BY <1>2, <1>6, Credited
<1>9. s \in Amount /\ Total(s) = Total(d.vests) + v /\ s[a] = d.vests[a] + v
      /\ \A c \in Account \ {a} : s[c] = d.vests[c]
  BY <1>2, <1>6, Credited
<1>10. rv \in Amount /\ Total(rv) = Total(d.rewardVests) + (-v)
  BY <1>2, <1>6, Credited
<1>11. rs \in Amount /\ Total(rs) = Total(d.rewardSteem) + (-wls)
  BY <1>2, <1>6, Credited
<1>12. d.shares + v \in Nat /\ d.fund + wls \in Nat /\ d.pendShares - v \in Nat /\ d.pendSteem - wls \in Nat
  BY <1>2, <1>3, <1>4, <1>5
<1> HIDE DEF r, b, s, rv, rs
<1>13. y \in Db
  <2>1. r \in Amount /\ b \in Amount /\ s \in Amount /\ rv \in Amount /\ rs \in Amount
    BY <1>7, <1>8, <1>9, <1>10, <1>11
  <2> DEFINE e == [d EXCEPT !.reward = r, !.balance = b, !.vests = s, !.rewardVests = rv,
                            !.rewardSteem = rs]
  <2>2. e \in Db
    BY <1>1, <2>1 DEF Db
  <2>3. y = [e EXCEPT !.shares = d.shares + v, !.fund = d.fund + wls,
                      !.pendShares = d.pendShares - v, !.pendSteem = d.pendSteem - wls]
    BY <1>1 DEF Db
  <2> HIDE DEF e, y
  <2>4. ASSUME NEW i \in Nat, NEW j \in Nat, NEW k \in Nat, NEW l \in Nat
        PROVE  [e EXCEPT !.shares = i, !.fund = j, !.pendShares = k, !.pendSteem = l] \in Db
    BY <2>2 DEF Db
  <2> QED BY <1>12, <2>3, <2>4
<1>14. /\ y.reward = r /\ y.balance = b /\ y.vests = s /\ y.rewardVests = rv /\ y.rewardSteem = rs
       /\ y.shares = d.shares + v /\ y.fund = d.fund + wls /\ y.pendShares = d.pendShares - v
       /\ y.pendSteem = d.pendSteem - wls /\ y.rewardFund = d.rewardFund /\ y.supply = d.supply
       /\ SameDowns(y, d)
  BY <1>1 DEF Db, SameDowns
<1> HIDE DEF y
<1>15. Recast(x, y)
  BY <1>13, OwnVotesOK
<1> HIDE DEF x
<1>16. /\ x.reward = r /\ x.balance = b /\ x.vests = s /\ x.rewardVests = rv /\ x.rewardSteem = rs
       /\ x.shares = d.shares + v /\ x.fund = d.fund + wls /\ x.pendShares = d.pendShares - v
       /\ x.pendSteem = d.pendSteem - wls /\ x.rewardFund = d.rewardFund /\ x.supply = d.supply
       /\ SameDowns(x, d) /\ x \in Db
  BY <1>14, <1>15 DEF Recast, SameRewards, SameFund, SameDowns
<1>17. Books(x)
  <2>1. /\ d.supply = Total(d.balance) + Total(d.reward) + d.fund + d.pendSteem + d.rewardFund
        /\ d.shares = Total(d.vests)
        /\ d.pendShares = Total(d.rewardVests) /\ d.pendSteem = Total(d.rewardSteem)
    BY <1>1 DEF Books
  <2>2. x.supply = Total(x.balance) + Total(x.reward) + x.fund + x.pendSteem + x.rewardFund
    BY <1>2, <1>4, <1>5, <1>7, <1>8, <1>16, <2>1
  <2>3. x.shares = Total(x.vests) /\ x.pendShares = Total(x.rewardVests) /\ x.pendSteem = Total(x.rewardSteem)
    BY <1>4, <1>5, <1>9, <1>10, <1>11, <1>16, <2>1
  <2> QED BY <2>2, <2>3 DEF Books
<1>18. x.fund > 0 /\ \A c \in Account : x.vests[c] >= d.vests[c]
  BY <1>1, <1>2, <1>4, <1>9, <1>16 DEF Amount
<1>19. Good(x)
  BY <1>16, <1>17, <1>18, GoodStays
<1>20. ASSUME x.pendShares = d.pendShares PROVE Ratio(x, d)
  <2>1. x.shares = d.shares /\ d.fund <= d.fund + wls
    BY <1>2, <1>4, <1>16, <1>20
  <2>2. d.fund * d.shares <= (d.fund + wls) * d.shares
    BY <1>2, <1>12, <2>1, ProductGrows
  <2> QED BY <1>2, <1>12, <1>16, <2>1, <2>2 DEF Ratio
<1>21. Claimed(d, a, n, v, wls) = x
  BY Zenon DEF Claimed, x, y, r, b, s, rv, rs
<1> QED BY <1>16, <1>19, <1>20, <1>21

-----------------------------------------------------------------------------
(* The theorems.                                                           *)

\* The inductive invariant.
IInv == TypeOK /\ Good(db)

PowerStep(x, d) ==
    \A a \in Account :
       d.rate[a] # 0 /\ x.withdrawn[a] # d.withdrawn[a] /\ x.withdrawn[a] # 0 =>
          /\ x.withdrawn[a] - d.withdrawn[a] \in 1..d.rate[a]
          /\ x.withdrawn[a] =< d.toWithdraw[a]
          /\ x.rate[a] = 0 => x.withdrawn[a] = d.toWithdraw[a] \/ x.vests[a] = 0

ShareStep(x, d) ==
    x.pendShares = d.pendShares /\ d.shares > 0 /\ x.shares > 0 =>
       x.fund * d.shares >= d.fund * x.shares

\* x may follow d.
Lawful(x, d) ==
    /\ Good(x) /\ x.ok /\ \A c \in Account : x.next[c] # 0
    /\ PowerStep(x, d) /\ ShareStep(x, d)

\* An operation that leaves power-downs alone.
LEMMA SameDownsLawful ==
  ASSUME IInv, NEW x, Good(x), x.ok, SameDowns(x, db),
         x.pendShares = db.pendShares => Ratio(x, db)
  PROVE  Lawful(x, db)
BY DEF Lawful, IInv, TypeOK, SameDowns, PowerStep, ShareStep, Ratio

\* One that does not lower the price either.
LEMMA BetterLawful ==
  ASSUME IInv, NEW x, Better(x, db), x.ok
  PROVE  Lawful(x, db)
BY SameDownsLawful DEF Better

\* One that starts or stops one sets what is withdrawn to 0.
LEMMA PowerDownLawful ==
  ASSUME IInv, NEW a \in User, NEW r \in Nat, NEW n \in {Never} \cup 1..Week, NEW t \in Nat,
         r = 0 <=> n = Never, r # 0 => t > 0 /\ t < db.vests[a]
  PROVE  Lawful(SetPowerDown(db, a, r, n, t, 0), db)
<1> DEFINE x == SetPowerDown(db, a, r, n, t, 0)
<1>1. Good(db) /\ db \in Db /\ a \in Account /\ db.ok /\ n \in {Never} \cup 0..Week /\ n # 0
  BY VestingAssumption DEF IInv, TypeOK, Never
<1>2. Good(x)
  BY <1>1, SetPowerDownOK
<1>3. PowerDownIs(x, db, a, r, n, t, 0)
  BY <1>1, PowerDownSet
<1> HIDE DEF x
<1>4. x.ok
  BY <1>1, <1>3 DEF PowerDownIs
<1>5. \A c \in Account : x.next[c] # 0
  BY <1>1, <1>3 DEF PowerDownIs, Still, IInv, TypeOK
<1>6. PowerStep(x, db)
  BY <1>3 DEF PowerDownIs, Still, PowerStep
<1>7. ShareStep(x, db)
  BY <1>1, <1>3, RatioNat DEF PowerDownIs, SameFund, ShareStep, Ratio
<1> QED BY <1>2, <1>4, <1>5, <1>6, <1>7 DEF Lawful, x

\* The invariant holds at the start.
LEMMA InitInv ==
  Init => IInv
<1> SUFFICES ASSUME Init PROVE IInv
  OBVIOUS
<1> DEFINE P == [a \in Account |-> Self]
           Q == [a \in Account |-> [i \in 0..(Depth-1) |-> 0]]
           O == [w \in Witness |-> 0]
           N == [a \in Account |-> Never]
           R == [a \in Account |-> [b \in Account |-> NoRoute]]
           V == Bought(StartVested)
           W == Bought(StartReward)
<1>1. StartBalance \in Amount /\ StartVested \in Amount /\ StartReward \in Amount /\ Zero \in Amount
  BY StartAssumption DEF Amount, Zero
<1>2. V \in Amount /\ W \in Amount
  <2>1. VestsPerWls \in Nat
    BY VestingAssumption
  <2>2. ASSUME NEW f \in Amount PROVE Bought(f) \in Amount
    BY <2>1, <2>2, Products DEF Amount, Bought
  <2> QED BY <1>1, <2>2
<1>3. P \in [Account -> Account \cup {Self}] /\ Q \in ByDistance
      /\ O \in [Witness -> Int] /\ Zero \in [Account -> Int]
  BY DEF Zero, ByDistance
<1>4. N \in Due
  BY DEF Due
<1>5. R \in Routing
  BY VestingAssumption DEF NoRoute, Route, Routing
<1>6. /\ Total(StartBalance) \in Nat /\ Total(StartVested) \in Nat /\ Total(StartReward) \in Nat
      /\ Total(V) \in Nat /\ Total(W) \in Nat
  BY <1>1, <1>2, TotalNat
<1>7. /\ db.balance = StartBalance /\ db.vests = V /\ db.reward = StartReward /\ db.rewardVests = W
      /\ db.rewardSteem = StartReward /\ db.rate = Zero /\ db.toWithdraw = Zero /\ db.withdrawn = Zero
      /\ db.next = N /\ db.fund = Total(StartVested) /\ db.shares = Total(V)
      /\ db.pendShares = Total(W) /\ db.pendSteem = Total(StartReward) /\ db.rewardFund = 0
      /\ db.supply = Total(StartBalance) + Total(StartVested) + 2 * Total(StartReward)
      /\ db.ok = TRUE /\ failed = FALSE
  BY DEF Init
<1>8. db \in Db
  <2> DEFINE S == Total(StartBalance) + Total(StartVested) + 2 * Total(StartReward)
  <2>1. S \in Nat
    BY <1>6
  <2>2. db = [balance |-> StartBalance, vests |-> V,
             reward |-> StartReward, rewardVests |-> W, rewardSteem |-> StartReward,
             proxy |-> P, proxied |-> Q, voted |-> {}, votedFor |-> Zero, votes |-> O,
             rate |-> Zero, toWithdraw |-> Zero, withdrawn |-> Zero, next |-> N, routes |-> R,
             fund |-> Total(StartVested), shares |-> Total(V),
             pendShares |-> Total(W), pendSteem |-> Total(StartReward),
             rewardFund |-> 0, supply |-> S, ok |-> TRUE]
    BY Zenon DEF Init
  <2> HIDE DEF P, Q, O, N, R, V, W, S
  <2> QED BY <1>1, <1>2, <1>3, <1>4, <1>5, <1>6, <2>1, <2>2 DEF Db
<1>9. \A a \in Account : N[a] = Never /\ Zero[a] = 0
  BY DEF Zero
<1>10. PICK h \in Account \ {Null} : StartVested[h] > 0
  BY StartAssumption
<1>11. V[h] > 0 /\ Total(StartVested) > 0
  <2>1. StartVested[h] \in Nat /\ VestsPerWls \in Nat /\ VestsPerWls > 0
        /\ StartVested[h] <= Total(StartVested)
    BY <1>1, TotalNat, VestingAssumption DEF Amount
  <2>2. V[h] = StartVested[h] * VestsPerWls
    BY DEF Bought
  <2>3. 0 * VestsPerWls < StartVested[h] * VestsPerWls
    BY <1>10, <2>1, ProductGrows
  <2> QED BY <1>6, <1>10, <2>1, <2>2, <2>3
<1> HIDE DEF N, V, W
<1>12. Books(db)
  BY <1>6, <1>7 DEF Books
<1>13. Downs(db) /\ \A c \in Account : Left(db, c) = 0
  BY <1>7, <1>9 DEF Downs, Left
<1>14. Kept(db)
  BY <1>7, <1>10, <1>11, <1>13 DEF Kept
<1>15. TypeOK
  <2>1. \A c \in Account : db.next[c] # 0
    BY <1>7, <1>9 DEF Never
  <2>2. db.ok /\ failed \in BOOLEAN
    BY <1>7, Zenon
  <2> QED BY <1>8, <2>1, <2>2, Zenon DEF TypeOK
<1> QED BY <1>8, <1>12, <1>13, <1>14, <1>15 DEF IInv, Good

\* Every step of an operation or a block is lawful, and a block that fails
\* changes nothing.
LEMMA NextLawful ==
  ASSUME Inflation > 0, IInv, Next
  PROVE  failed' \in BOOLEAN /\ (Lawful(db', db) \/ db' = db)
<1> USE VestingAssumption, InputAssumption
<1>0. Good(db) /\ db \in Db /\ failed \in BOOLEAN
  BY DEF IInv, TypeOK
<1>1. ASSUME NEW a \in User, NEW b \in Account, NEW n \in Amounts, Transfer(a, b, n)
      PROVE  Lawful(db', db) /\ failed' \in BOOLEAN
  <2> DEFINE x == [db EXCEPT !.balance = Credit(Credit(@, a, -n), b, n)]
  <2>1. Better(x, db)
    BY <1>0, <1>1, TransferOK DEF Transfer
  <2>2. x.ok /\ db' = x /\ failed' = failed
    BY <1>1 DEF Transfer, Apply
  <2> HIDE DEF x
  <2> QED BY <1>0, <2>1, <2>2, BetterLawful
<1>2. ASSUME NEW a \in User, NEW b \in Account, NEW n \in Amounts, TransferToVesting(a, b, n)
      PROVE  Lawful(db', db) /\ failed' \in BOOLEAN
  <2> DEFINE x == CreateVesting([db EXCEPT !.balance = Credit(@, a, -n)], b, n)
  <2>1. Better(x, db)
    BY <1>0, <1>2, TransferToVestingOK DEF TransferToVesting
  <2>2. x.ok /\ db' = x /\ failed' = failed
    BY <1>2 DEF TransferToVesting, Apply
  <2> HIDE DEF x
  <2> QED BY <1>0, <2>1, <2>2, BetterLawful
<1>3. ASSUME NEW a \in User, StopWithdraw(a)
      PROVE  Lawful(db', db) /\ failed' \in BOOLEAN
  <2> DEFINE x == SetPowerDown(db, a, 0, Never, 0, 0)
  <2>1. Lawful(x, db)
    BY PowerDownLawful
  <2>2. db' = x /\ failed' = failed
    BY <1>3 DEF StopWithdraw, Apply
  <2> HIDE DEF x
  <2> QED BY <1>0, <2>1, <2>2
<1>4. ASSUME NEW a \in User, NEW v \in Vests, WithdrawVesting(a, v)
      PROVE  Lawful(db', db) /\ failed' \in BOOLEAN
  <2> DEFINE q == v \div Intervals
             r == Max({1, q})
             x == SetPowerDown(db, a, r, Week, v, 0)
  <2>1. db' = x /\ failed' = failed
    BY <1>4 DEF WithdrawVesting, Apply
  <2>2. r \in Nat /\ r # 0
    <3>1. v \in Nat /\ Intervals \in Nat /\ Intervals > 0
      OBVIOUS
    <3>2. q \in Nat
      BY <3>1, Division
    <3> HIDE DEF q
    <3> QED BY <3>2, AtLeastOne
  <2> HIDE DEF r
  <2>3. v \in Nat /\ v > 0 /\ v < db.vests[a]
    <3> DEFINE lim == (db.vests[a] * (Hundred - Inflation)) \div Hundred
    <3>1. v \in Nat /\ v > 0 /\ db.vests[a] \in Nat /\ v <= db.vests[a] /\ v <= lim
      BY <1>0, <1>4 DEF WithdrawVesting, Db, Amount
    <3>2. lim < db.vests[a]
      BY <3>1, LimitKeeps
    <3>3. lim \in Int
      <4>1. db.vests[a] * (Hundred - Inflation) \in Nat
        BY <3>1, Products
      <4> QED BY <4>1, Division
    <3> HIDE DEF lim
    <3> QED BY <3>1, <3>2, <3>3
  <2>4. Week \in {Never} \cup 1..Week /\ Week # Never
    BY DEF Never
  <2>5. Lawful(x, db)
    BY <2>2, <2>3, <2>4, PowerDownLawful
  <2> HIDE DEF x
  <2> QED BY <1>0, <2>1, <2>5
<1>5. ASSUME NEW a \in User, NEW b \in RouteTo, NEW p \in Percents, NEW auto \in BOOLEAN,
             SetWithdrawVestingRoute(a, b, p, auto)
      PROVE  Lawful(db', db) /\ failed' \in BOOLEAN
  <2> DEFINE x == [db EXCEPT !.routes[a][b] = [percent |-> p, auto |-> p # 0 /\ auto]]
  <2>1. Better(x, db)
    BY <1>0, RouteOK
  <2>2. x.ok /\ db' = x /\ failed' = failed
    BY <1>5, Zenon DEF SetWithdrawVestingRoute, Apply
  <2> HIDE DEF x
  <2> QED BY <1>0, <2>1, <2>2, BetterLawful
<1>6. ASSUME NEW a \in User, NEW p \in Proxies \cup {Self}, AccountWitnessProxy(a, p)
      PROVE  Lawful(db', db) /\ failed' \in BOOLEAN
  <2> DEFINE delta == AllVotes(db, a)
             taken == AdjustProxied(db, a, Negated(delta))
             moved == [ClearWitnessVotes(taken, a) EXCEPT !.proxy[a] = p]
             x == [taken EXCEPT !.proxy[a] = p]
             y == AdjustProxied(moved, a, delta)
  <2>1. Better(x, db) /\ Better(y, db)
    BY <1>0, ProxyOK
  <2>2. failed' = failed /\ ((x.ok /\ db' = x) \/ (y.ok /\ db' = y))
    <3>1. CASE p = Self
      <4> DEFINE z == [taken EXCEPT !.proxy[a] = Self]
      <4>1. failed' = failed /\ z.ok /\ db' = z
        BY <1>6, <3>1, Zenon DEF AccountWitnessProxy, Apply
      <4>2. z = x
        <5> HIDE DEF taken
        <5> QED BY <3>1, Zenon
      <4> HIDE DEF x, y, z
      <4> QED BY <4>1, <4>2, Zenon
    <3>2. CASE p # Self
      BY <1>6, <3>2, Zenon DEF AccountWitnessProxy, Apply
    <3> QED BY <3>1, <3>2
  <2> HIDE DEF x, y
  <2> QED BY <1>0, <2>1, <2>2, BetterLawful
<1>7. ASSUME NEW a \in User, NEW w \in Witness, AccountWitnessVote(a, w)
      PROVE  Lawful(db', db) /\ failed' \in BOOLEAN
  <2> DEFINE s == db.voted \cup {<<a, w>>}
             n == db.votedFor[a] + 1
             k == db.votes[w] + Weight(db, a)
             x == [db EXCEPT !.voted = s, !.votedFor[a] = n, !.votes[w] = k]
  <2>1. s \in SUBSET (Account \X Witness) /\ n \in Int /\ k \in Int
    <3>1. db.voted \in SUBSET (Account \X Witness) /\ db.votedFor \in [Account -> Int]
          /\ db.votes \in [Witness -> Int] /\ a \in Account
      BY <1>0 DEF Db
    <3>2. Weight(db, a) \in Int /\ db.votedFor[a] \in Int /\ db.votes[w] \in Int
      BY <1>0, <3>1, WeightInt
    <3> QED BY <3>1, <3>2
  <2>2. x.ok /\ db' = x /\ failed' = failed
    BY <1>7, Zenon DEF AccountWitnessVote, Apply
  <2> HIDE DEF s, n, k
  <2>3. Better(x, db)
    BY <1>0, <2>1, VoteOK
  <2> HIDE DEF x
  <2> QED BY <1>0, <2>2, <2>3, BetterLawful
<1>8. ASSUME NEW a \in User, NEW w \in Witness, AccountWitnessUnvote(a, w)
      PROVE  Lawful(db', db) /\ failed' \in BOOLEAN
  <2> DEFINE s == db.voted \ {<<a, w>>}
             n == db.votedFor[a] - 1
             k == db.votes[w] - Weight(db, a)
             x == [db EXCEPT !.voted = s, !.votedFor[a] = n, !.votes[w] = k]
  <2>1. s \in SUBSET (Account \X Witness) /\ n \in Int /\ k \in Int
    <3>1. db.voted \in SUBSET (Account \X Witness) /\ db.votedFor \in [Account -> Int]
          /\ db.votes \in [Witness -> Int] /\ a \in Account
      BY <1>0 DEF Db
    <3>2. Weight(db, a) \in Int /\ db.votedFor[a] \in Int /\ db.votes[w] \in Int
      BY <1>0, <3>1, WeightInt
    <3> QED BY <3>1, <3>2
  <2>2. x.ok /\ db' = x /\ failed' = failed
    BY <1>8, Zenon DEF AccountWitnessUnvote, Apply
  <2> HIDE DEF s, n, k
  <2>3. Better(x, db)
    BY <1>0, <2>1, VoteOK
  <2> HIDE DEF x
  <2> QED BY <1>0, <2>2, <2>3, BetterLawful
<1>9. ASSUME NEW a \in User, NEW n \in Claims \cup {0}, NEW v \in Claims \cup {0},
             ClaimRewardBalance(a, n, v)
      PROVE  Lawful(db', db) /\ failed' \in BOOLEAN
  <2> DEFINE wls == IF v = db.rewardVests[a] THEN db.rewardSteem[a]
                    ELSE (v * db.rewardSteem[a]) \div db.rewardVests[a]
             x == Claimed(db, a, n, v, wls)
  <2>1. n \in Nat /\ v \in Nat /\ a \in Account
    OBVIOUS
  <2>2. n <= db.reward[a] /\ v <= db.rewardVests[a]
    BY <1>9 DEF ClaimRewardBalance
  <2>3. x.ok /\ db' = x /\ failed' = failed
    BY <1>9, Zenon DEF ClaimRewardBalance, Apply, Claimed
  <2>4. Good(x) /\ SameDowns(x, db) /\ (x.pendShares = db.pendShares => Ratio(x, db))
    BY <1>0, <2>1, <2>2, ClaimOK
  <2> HIDE DEF x, wls
  <2> QED BY <1>0, <2>3, <2>4, SameDownsLawful
<1>10. ASSUME NEW w \in Witness, NEW m \in Minted, Block(w, m)
       PROVE  failed' \in BOOLEAN /\ (Lawful(db', db) \/ db' = db)
  <2> DEFINE x == ProcessWithdrawals(ProcessFunds(ClearNull(db), w, m))
  <2>1. Good(x) /\ Ratio(x, db) /\ (x.ok => \A c \in Account : Progress(x, db, c))
    BY <1>0, BlockOK
  <2>2. failed' = ~x.ok /\ db' = IF x.ok THEN x ELSE db
    BY <1>10, Zenon DEF Block
  <2> HIDE DEF x
  <2>3. failed' \in BOOLEAN
    BY <2>2, Zenon
  <2>4. ASSUME x.ok PROVE Lawful(x, db)
    <3>1. \A c \in Account : Progress(x, db, c)
      BY <2>1, <2>4
    <3>2. PowerStep(x, db)
      BY <3>1 DEF PowerStep, Progress, Paid
    <3>3. ShareStep(x, db)
      BY <2>1 DEF ShareStep, Ratio
    <3> QED BY <2>1, <2>4, <3>1, <3>2, <3>3 DEF Lawful, Progress
  <2> QED BY <2>2, <2>3, <2>4
<1> QED BY <1>1, <1>2, <1>3, <1>4, <1>5, <1>6, <1>7, <1>8, <1>9, <1>10 DEF Next

\* Every step keeps the invariant.
LEMMA StepInv ==
  ASSUME Inflation > 0, IInv, [Next]_vars
  PROVE  IInv'
<1>1. CASE Next
  <2>1. failed' \in BOOLEAN /\ (Lawful(db', db) \/ db' = db)
    BY <1>1, NextLawful
  <2> QED BY <2>1 DEF Lawful, IInv, TypeOK, Good
<1>2. CASE UNCHANGED vars
  BY <1>2 DEF vars, IInv, TypeOK
<1> QED BY <1>1, <1>2

\* So it always holds.
LEMMA Invariant ==
  ASSUME Inflation > 0
  PROVE  Spec => []IInv
<1> QED BY InitInv, StepInv, PTL DEF Spec

\* validate_invariants, for any accounts, amounts, routes and prices: if the
\* chain limits power-downs by its inflation, as on the main net, then neither
\* WLS nor shares are made or lost, and no amount gets negative.
THEOREM SupplyIsAccounted ==
  ASSUME Inflation > 0
  PROVE  Spec => []SupplyAccounted
<1>1. IInv => SupplyAccounted
  BY DEF IInv, Good, Books, SupplyAccounted
<1> QED BY <1>1, Invariant, PTL

\* A power-down pays its instalments, the last one what is left: not more than
\* was asked for, and all of it when it ends in a block.
THEOREM PowerDownIsExact ==
  ASSUME Inflation > 0
  PROVE  Spec => PowerDownExact
<1> DEFINE A == \A a \in Account :
           db.rate[a] # 0 /\ db'.withdrawn[a] # db.withdrawn[a] /\ db'.withdrawn[a] # 0 =>
              /\ db'.withdrawn[a] - db.withdrawn[a] \in 1..db.rate[a]
              /\ db'.withdrawn[a] =< db.toWithdraw[a]
              /\ db'.rate[a] = 0 =>
                    db'.withdrawn[a] = db.toWithdraw[a] \/ db'.vests[a] = 0
<1>1. IInv /\ [Next]_vars => [A]_vars
  BY NextLawful DEF Lawful, PowerStep, vars
<1> QED BY <1>1, Invariant, PTL DEF Spec, PowerDownExact

\* Deposits, withdrawals, routes and what a block mints and burns never lower
\* what a share is worth.
THEOREM ShareKeepsItsValue ==
  ASSUME Inflation > 0
  PROVE  Spec => ShareKeepsValue
<1> DEFINE A == db'.pendShares = db.pendShares /\ db.shares > 0 /\ db'.shares > 0
                => db'.fund * db.shares >= db.fund * db'.shares
<1>1. IInv /\ [Next]_vars => [A]_vars
  <2> SUFFICES ASSUME IInv, [Next]_vars PROVE [A]_vars
    OBVIOUS
  <2>1. CASE Next
    <3>1. Lawful(db', db) \/ db' = db
      BY <2>1, NextLawful
    <3>2. Lawful(db', db) => A
      BY DEF Lawful, ShareStep
    <3>3. db' = db => A
      BY RatioNat DEF IInv, Ratio
    <3> QED BY <3>1, <3>2, <3>3
  <2> QED BY <2>1
<1> QED BY <1>1, Invariant, PTL DEF Spec, ShareKeepsValue

-----------------------------------------------------------------------------
(* Chains of proxies.                                                      *)

Proxying == [Account -> Account \cup {Self}]

\* up follows the proxies p from a, n times.
Chain(up, p, a, n) ==
    up = [k \in 0..n |-> IF k = 0 THEN a ELSE IF up[k-1] = Self THEN Self ELSE p[up[k-1]]]

\* The walk is well defined.
LEMMA ChainExists ==
  ASSUME NEW p, NEW a, NEW n \in Nat
  PROVE  \E up : Chain(up, p, a, n)
<1> DEFINE Next1(x) == IF x = Self THEN Self ELSE p[x]
           F == {k \in Nat : \A up : ~Chain(up, p, a, k)}
<1>1. F = {}
  <2> SUFFICES ASSUME F # {} PROVE FALSE
    OBVIOUS
  <2>1. PICK k \in F : \A j \in F : k <= j
    <3>1. F \in SUBSET Nat
      OBVIOUS
    <3> HIDE DEF F
    <3> QED BY <3>1, LeastOf
  <2>2. k \in Nat /\ \A up : ~Chain(up, p, a, k)
    OBVIOUS
  <2>3. CASE k = 0
    <3> DEFINE g == [i \in 0..k |-> a]
    <3>1. \A i \in 0..k : i = 0
      BY <2>3
    <3>2. g = [i \in 0..k |-> IF i = 0 THEN a ELSE IF g[i-1] = Self THEN Self ELSE p[g[i-1]]]
      BY <3>1
    <3>3. Chain(g, p, a, k)
      BY <3>2 DEF Chain
    <3> QED BY <2>2, <3>3
  <2>4. CASE k # 0
    <3>1. k - 1 \in Nat /\ ~(k <= k - 1)
      BY <2>2, <2>4
    <3>2. PICK f : Chain(f, p, a, k - 1)
      BY <2>1, <3>1
    <3> DEFINE g == [i \in 0..k |-> IF i = k THEN Next1(f[k - 1]) ELSE f[i]]
    <3>3. \A i \in 0..(k - 1) : f[i] = IF i = 0 THEN a ELSE Next1(f[i - 1])
      BY <3>2 DEF Chain
    <3>4. ASSUME NEW i \in 0..k
          PROVE  g[i] = IF i = 0 THEN a ELSE Next1(g[i - 1])
      <4> HIDE DEF Next1
      <4>1. CASE i = k
        <5>1. i # 0 /\ i - 1 \in 0..k /\ i - 1 # k
          BY <2>2, <2>4, <4>1
        <5>2. g[i] = Next1(f[k - 1]) /\ g[i - 1] = f[k - 1]
          BY <4>1, <5>1
        <5> QED BY <5>1, <5>2
      <4>2. CASE i # k
        <5>1. i \in 0..(k - 1) /\ g[i] = f[i]
          BY <2>2, <4>2
        <5>2. i # 0 => i - 1 \in 0..k /\ i - 1 # k
          BY <2>2, <4>2
        <5>3. i # 0 => g[i - 1] = f[i - 1]
          BY <5>2
        <5> QED BY <3>3, <5>1, <5>3
      <4> QED BY <4>1, <4>2
    <3>5. g = [i \in 0..k |-> g[i]]
      OBVIOUS
    <3> HIDE DEF g
    <3>6. g = [i \in 0..k |-> IF i = 0 THEN a ELSE IF g[i-1] = Self THEN Self ELSE p[g[i-1]]]
      BY <3>4, <3>5
    <3>7. Chain(g, p, a, k)
      BY <3>6 DEF Chain
    <3> QED BY <2>2, <3>7
  <2> QED BY <2>3, <2>4
<1> QED BY <1>1

\* A chain starts with the account, and each next one is the proxy of the last.
LEMMA ChainSteps ==
  ASSUME NEW p \in Proxying, NEW a \in Account, NEW n \in Nat, NEW up, Chain(up, p, a, n)
  PROVE  /\ up[0] = a
         /\ \A k \in 0..n : up[k] \in Account \cup {Self}
         /\ \A j, k \in 0..n : k = j + 1 => up[k] = IF up[j] = Self THEN Self ELSE p[up[j]]
<1>1. \A k \in 0..n : up[k] = IF k = 0 THEN a ELSE IF up[k-1] = Self THEN Self ELSE p[up[k-1]]
  BY DEF Chain
<1>2. up[0] = a
  BY <1>1
<1>3. ASSUME NEW j \in 0..n, NEW k \in 0..n, k = j + 1
      PROVE  up[k] = IF up[j] = Self THEN Self ELSE p[up[j]]
  <2>1. k - 1 = j /\ k # 0
    BY <1>3
  <2> QED BY <1>1, <2>1
<1> DEFINE F == {k \in 0..n : up[k] \notin Account \cup {Self}}
<1>4. F = {}
  <2> SUFFICES ASSUME F # {} PROVE FALSE
    OBVIOUS
  <2>1. PICK k \in F : \A j \in F : k <= j
    <3>1. F \in SUBSET Nat
      OBVIOUS
    <3> HIDE DEF F
    <3> QED BY <3>1, LeastOf
  <2>2. k \in 0..n /\ up[k] \notin Account \cup {Self} /\ k # 0
    BY <1>2
  <2>3. k - 1 \in 0..n /\ k = (k - 1) + 1 /\ ~(k <= k - 1)
    BY <2>2
  <2>4. up[k - 1] \in Account \cup {Self}
    BY <2>1, <2>3
  <2>5. up[k] = IF up[k - 1] = Self THEN Self ELSE p[up[k - 1]]
    BY <1>3, <2>2, <2>3
  <2> QED BY <2>2, <2>4, <2>5 DEF Proxying
<1> QED BY <1>2, <1>3, <1>4

\* No account reaches itself: every set of accounts has one whose proxy is not
\* in it.
Ends(p) == \A S \in SUBSET Account : S # {} => \E s \in S : p[s] \notin S

\* Self stands for no account.
LEMMA SelfNoAccount == Self \notin Account
BY VestingAssumption DEF Self

\* A chain never comes back to an account.
LEMMA NoReturn ==
  ASSUME NEW p \in Proxying, Ends(p), NEW a \in Account, NEW n \in Nat,
         NEW up, Chain(up, p, a, n),
         NEW i \in 0..n, NEW j \in 0..n, i # j, up[i] = up[j]
  PROVE  up[i] = Self
<1> SUFFICES ASSUME NEW x \in 0..n, NEW y \in 0..n, x < y, up[x] = up[y], up[x] # Self
             PROVE  FALSE
  <2>1. i < j \/ j < i
    OBVIOUS
  <2> QED BY <2>1
<1>1. /\ \A k \in 0..n : up[k] \in Account \cup {Self}
      /\ \A h, k \in 0..n : k = h + 1 => up[k] = IF up[h] = Self THEN Self ELSE p[up[h]]
  BY ChainSteps
<1> DEFINE F == {k \in x..y : up[k] = Self}
<1>2. F = {}
  <2> SUFFICES ASSUME F # {} PROVE FALSE
    OBVIOUS
  <2>1. \A k \in x..y : up[k] = Self => \A m \in k..y : up[m] = Self
    <3> TAKE k \in x..y
    <3> SUFFICES ASSUME up[k] = Self PROVE \A m \in k..y : up[m] = Self
      OBVIOUS
    <3> DEFINE G == {m \in k..y : up[m] # Self}
    <3>1. G = {}
      <4> SUFFICES ASSUME G # {} PROVE FALSE
        OBVIOUS
      <4>1. PICK m \in G : \A h \in G : m <= h
        <5>1. G \in SUBSET Nat
          OBVIOUS
        <5> HIDE DEF G
        <5> QED BY <5>1, LeastOf
      <4>2. m \in k..y /\ up[m] # Self /\ m # k
        OBVIOUS
      <4>3. m - 1 \in k..y /\ m - 1 \in 0..n /\ m \in 0..n /\ m = (m - 1) + 1 /\ ~(m <= m - 1)
        BY <4>2
      <4>4. up[m - 1] = Self
        BY <4>1, <4>3
      <4> QED BY <1>1, <4>2, <4>3, <4>4
    <3> QED BY <3>1
  <2>2. PICK k \in x..y : up[k] = Self
    OBVIOUS
  <2>3. y \in k..y
    BY <2>2
  <2> QED BY <2>1, <2>2, <2>3
<1> DEFINE S == {up[k] : k \in x..(y - 1)}
<1>3. S \in SUBSET Account /\ S # {}
  <2>1. x \in x..(y - 1)
    OBVIOUS
  <2>2. \A k \in x..(y - 1) : up[k] \in Account
    BY <1>1, <1>2
  <2> QED BY <2>1, <2>2
<1>4. ASSUME NEW s \in S PROVE p[s] \in S
  <2>1. PICK k \in x..(y - 1) : s = up[k]
    OBVIOUS
  <2>2. k \in 0..n /\ k + 1 \in 0..n /\ k \in x..y
    OBVIOUS
  <2>3. up[k + 1] = p[s]
    BY <1>1, <1>2, <2>1, <2>2
  <2>4. CASE k = y - 1
    <3>1. up[k + 1] = up[x] /\ x \in x..(y - 1)
      BY <2>2, <2>4
    <3> QED BY <2>3, <3>1
  <2>5. CASE k # y - 1
    <3>1. k + 1 \in x..(y - 1)
      BY <2>1, <2>5
    <3> QED BY <2>3, <3>1
  <2> QED BY <2>4, <2>5
<1> HIDE DEF S
<1> QED BY <1>3, <1>4 DEF Ends
\* The chain of an account c, which only the proxies p matter for.
Up(p, c) == ProxyChain([proxy |-> p], c)

\* The chain of the code is the one of its proxies alone.
LEMMA UpIsChain ==
  ASSUME NEW d, NEW c
  PROVE  ProxyChain(d, c) = Up(d.proxy, c) /\ Chain(Up(d.proxy, c), d.proxy, c, Depth)
<1> DEFINE x == [proxy |-> d.proxy]
           up == CHOOSE up : Chain(up, d.proxy, c, Depth)
<1>1. x.proxy = d.proxy
  OBVIOUS
<1>2. ProxyChain(x, c) = up /\ ProxyChain(d, c) = up
  <2>1. ProxyChain(d, c) = up
    BY Zenon DEF ProxyChain, Chain
  <2> HIDE DEF x
  <2>2. ProxyChain(x, c) = CHOOSE u : Chain(u, x.proxy, c, Depth)
    BY Zenon DEF ProxyChain, Chain
  <2> QED BY <1>1, <2>1, <2>2
<1>3. Depth \in Nat
  BY VestingAssumption
<1>4. Chain(up, d.proxy, c, Depth)
  BY <1>3, ChainExists
<1> QED BY <1>2, <1>4 DEF Up

\* It is a chain.
LEMMA UpChain ==
  ASSUME NEW p, NEW c
  PROVE  Chain(Up(p, c), p, c, Depth)
<1> DEFINE d == [proxy |-> p]
<1>1. d.proxy = p
  OBVIOUS
<1> HIDE DEF d
<1> QED BY <1>1, UpIsChain

\* Where a chain starts, and each of its steps.
LEMMA UpSteps ==
  ASSUME NEW p \in Proxying, NEW c \in Account
  PROVE  /\ Up(p, c)[0] = c
         /\ \A k \in 0..Depth : Up(p, c)[k] \in Account \cup {Self}
         /\ \A j, k \in 0..Depth :
               k = j + 1 => Up(p, c)[k] = IF Up(p, c)[j] = Self THEN Self ELSE p[Up(p, c)[j]]
<1>1. Depth \in Nat
  BY VestingAssumption
<1> DEFINE up == Up(p, c)
<1>2. Chain(up, p, c, Depth)
  BY UpChain
<1> HIDE DEF up
<1>3. /\ up[0] = c
      /\ \A k \in 0..Depth : up[k] \in Account \cup {Self}
      /\ \A j, k \in 0..Depth : k = j + 1 => up[k] = IF up[j] = Self THEN Self ELSE p[up[j]]
  BY <1>1, <1>2, ChainSteps
<1> QED BY <1>3 DEF up

\* The same, by one name.
Walk(up, p, c) ==
    /\ up[0] = c /\ \A k \in 0..Depth : up[k] \in Account \cup {Self}
    /\ \A j, k \in 0..Depth : k = j + 1 => up[k] = IF up[j] = Self THEN Self ELSE p[up[j]]

LEMMA UpWalk ==
  ASSUME NEW p \in Proxying, NEW c \in Account
  PROVE  Walk(Up(p, c), p, c)
BY UpSteps DEF Walk

\* From where two chains meet they are the same.
LEMMA UpMeets ==
  ASSUME NEW p \in Proxying, NEW c \in Account, NEW e \in Account,
         NEW i \in 0..Depth, NEW j \in 0..Depth, Up(p, c)[i] = Up(p, e)[j],
         NEW n \in Nat, i + n <= Depth, j + n <= Depth
  PROVE  Up(p, c)[i + n] = Up(p, e)[j + n]
<1> DEFINE up == Up(p, c)
           uq == Up(p, e)
           F == {m \in 0..n : up[i + m] # uq[j + m]}
<1>0. Depth \in Nat
  BY VestingAssumption
<1>1. /\ \A h, k \in 0..Depth : k = h + 1 => up[k] = IF up[h] = Self THEN Self ELSE p[up[h]]
      /\ \A h, k \in 0..Depth : k = h + 1 => uq[k] = IF uq[h] = Self THEN Self ELSE p[uq[h]]
      /\ up[i] = uq[j]
  <2>1. Walk(up, p, c) /\ Walk(uq, p, e) /\ up[i] = uq[j]
    BY UpWalk
  <2> HIDE DEF up, uq
  <2> QED BY <2>1 DEF Walk
<1> HIDE DEF up, uq
<1>2. F = {}
  <2> SUFFICES ASSUME F # {} PROVE FALSE
    OBVIOUS
  <2>1. PICK m \in F : \A h \in F : m <= h
    <3>1. F \in SUBSET Nat
      OBVIOUS
    <3> HIDE DEF F
    <3> QED BY <3>1, LeastOf
  <2>2. m \in 0..n /\ up[i + m] # uq[j + m]
    OBVIOUS
  <2>3. m # 0
    BY <1>1, <2>2
  <2>4. m - 1 \in 0..n /\ ~(m <= m - 1)
    BY <2>2, <2>3
  <2>5. up[i + (m - 1)] = uq[j + (m - 1)]
    BY <2>1, <2>4
  <2> DEFINE x == i + (m - 1)
             y == j + (m - 1)
  <2>6. x \in 0..Depth /\ i + m \in 0..Depth /\ i + m = x + 1
        /\ y \in 0..Depth /\ j + m \in 0..Depth /\ j + m = y + 1
    BY <1>0, <2>2, <2>4
  <2> HIDE DEF x, y
  <2>7. up[x] = uq[y]
    BY <2>5 DEF x, y
  <2>8. /\ up[i + m] = IF up[x] = Self THEN Self ELSE p[up[x]]
        /\ uq[j + m] = IF uq[y] = Self THEN Self ELSE p[uq[y]]
    BY <1>1, <2>6
  <2> QED BY <2>2, <2>7, <2>8
<1>3. n \in 0..n
  OBVIOUS
<1>4. up[i + n] = uq[j + n]
  BY <1>2, <1>3
<1> QED BY <1>4 DEF up, uq

\* A chain that has ended stays so.
LEMMA UpEnded ==
  ASSUME NEW p \in Proxying, NEW c \in Account,
         NEW i \in 0..Depth, Up(p, c)[i] = Self, NEW j \in i..Depth
  PROVE  Up(p, c)[j] = Self
<1> DEFINE up == Up(p, c)
           F == {m \in i..j : up[m] # Self}
<1>0. Depth \in Nat
  BY VestingAssumption
<1>1. /\ \A h, k \in 0..Depth : k = h + 1 => up[k] = IF up[h] = Self THEN Self ELSE p[up[h]]
      /\ up[i] = Self
  BY UpSteps
<1> HIDE DEF up
<1>2. F = {}
  <2> SUFFICES ASSUME F # {} PROVE FALSE
    OBVIOUS
  <2>1. PICK m \in F : \A h \in F : m <= h
    <3>1. F \in SUBSET Nat
      BY <1>0
    <3> HIDE DEF F
    <3> QED BY <3>1, LeastOf
  <2>2. m \in i..j /\ up[m] # Self /\ m # i
    BY <1>1
  <2>3. m - 1 \in i..j /\ m - 1 \in 0..Depth /\ m \in 0..Depth /\ m = (m - 1) + 1 /\ ~(m <= m - 1)
    BY <1>0, <2>2
  <2>4. up[m - 1] = Self
    BY <2>1, <2>3
  <2> QED BY <1>1, <2>2, <2>3, <2>4
<1>3. j \in i..j
  OBVIOUS
<1>4. up[j] = Self
  BY <1>2, <1>3
<1> QED BY <1>4 DEF up

\* No account is met twice.
LEMMA UpOnce ==
  ASSUME NEW p \in Proxying, Ends(p), NEW c \in Account,
         NEW i \in 0..Depth, NEW j \in 0..Depth, Up(p, c)[i] = Up(p, c)[j], Up(p, c)[i] # Self
  PROVE  i = j
<1>1. Depth \in Nat
  BY VestingAssumption
<1> DEFINE up == Up(p, c)
<1>2. Chain(up, p, c, Depth) /\ up[i] = up[j] /\ up[i] # Self
  BY UpChain
<1> HIDE DEF up
<1> QED BY <1>1, <1>2, NoReturn

\* The proxies when a gives its own up.
Alone(p, a) == [p EXCEPT ![a] = Self]

\* When a votes for itself, the chains to a stay and those beyond it end there.
LEMMA UpCut ==
  ASSUME NEW p \in Proxying, NEW a \in Account, NEW c \in Account, NEW n \in 0..Depth
  PROVE  \/ /\ \E j \in 0..(n - 1) : Up(p, c)[j] = a
            /\ Up(Alone(p, a), c)[n] = Self
         \/ /\ \A j \in 0..(n - 1) : Up(p, c)[j] # a
            /\ Up(Alone(p, a), c)[n] = Up(p, c)[n]
<1> DEFINE q == Alone(p, a)
           up == Up(p, c)
           uq == Up(q, c)
           P(k) == \/ (\E j \in 0..(k - 1) : up[j] = a) /\ uq[k] = Self
                   \/ (\A j \in 0..(k - 1) : up[j] # a) /\ uq[k] = up[k]
           F == {k \in 0..n : ~P(k)}
<1>0. Depth \in Nat
  BY VestingAssumption
<1>1. q \in Proxying /\ q[a] = Self /\ \A b \in Account \ {a} : q[b] = p[b]
  BY DEF Proxying, Alone
<1> HIDE DEF q
<1>2. /\ \A h, k \in 0..Depth : k = h + 1 => up[k] = IF up[h] = Self THEN Self ELSE p[up[h]]
      /\ up[0] = c /\ \A k \in 0..Depth : up[k] \in Account \cup {Self}
  BY UpSteps
<1>3. /\ \A h, k \in 0..Depth : k = h + 1 => uq[k] = IF uq[h] = Self THEN Self ELSE q[uq[h]]
      /\ uq[0] = c
  BY <1>1, UpSteps
<1> HIDE DEF up, uq
<1>4. F = {}
  <2> SUFFICES ASSUME F # {} PROVE FALSE
    OBVIOUS
  <2>1. PICK k \in F : \A h \in F : k <= h
    <3>1. F \in SUBSET Nat
      OBVIOUS
    <3> HIDE DEF F
    <3> QED BY <3>1, LeastOf
  <2>2. k \in 0..n /\ ~P(k)
    OBVIOUS
  <2>3. k # 0
    BY <1>2, <1>3, <2>2
  <2> DEFINE m == k - 1
  <2>4. m \in 0..n /\ ~(k <= m) /\ m \in 0..Depth /\ k \in 0..Depth /\ k = m + 1
        /\ \A j : j \in 0..(k - 1) <=> j \in 0..(m - 1) \/ j = m
    BY <1>0, <2>2, <2>3
  <2> HIDE DEF m
  <2>5. P(m)
    <3> HIDE DEF P
    <3>1. m \notin F
      BY <2>1, <2>4
    <3> QED BY <2>4, <3>1
  <2>6. /\ up[k] = IF up[m] = Self THEN Self ELSE p[up[m]]
        /\ uq[k] = IF uq[m] = Self THEN Self ELSE q[uq[m]]
    BY <1>2, <1>3, <2>4
  <2>7. CASE \E j \in 0..(m - 1) : up[j] = a
    <3>1. uq[m] = Self
      BY <2>5, <2>7
    <3>2. uq[k] = Self /\ \E j \in 0..(k - 1) : up[j] = a
      BY <2>4, <2>6, <2>7, <3>1
    <3> QED BY <2>2, <3>2
  <2>8. CASE \A j \in 0..(m - 1) : up[j] # a
    <3>1. uq[m] = up[m]
      BY <2>5, <2>8
    <3>2. CASE up[m] = a
      <4>1. uq[k] = Self /\ \E j \in 0..(k - 1) : up[j] = a
        BY <1>1, <2>4, <2>6, <3>1, <3>2
      <4> QED BY <2>2, <4>1
    <3>3. CASE up[m] # a
      <4>1. \A j \in 0..(k - 1) : up[j] # a
        BY <2>4, <2>8, <3>3
      <4>2. uq[k] = up[k]
        BY <1>1, <1>2, <2>4, <2>6, <3>1, <3>3
      <4> QED BY <2>2, <4>1, <4>2
    <3> QED BY <3>2, <3>3
  <2> QED BY <2>7, <2>8
<1>5. P(n)
  <2> HIDE DEF P
  <2>1. n \in 0..n
    OBVIOUS
  <2> QED BY <1>4, <2>1
<1> QED BY <1>5 DEF up, uq, q
\* Cut at a, a chain that met a has ended, and any other goes on as before.
LEMMA UpCutAfter ==
  ASSUME NEW p \in Proxying, NEW a \in Account, NEW i \in 0..(Depth - 1)
  PROVE  \A c \in Account :
            \/ /\ \E j \in 0..i : Up(p, c)[j] = a
               /\ Up(Alone(p, a), c)[i + 1] = Self
            \/ /\ \A j \in 0..i : Up(p, c)[j] # a
               /\ Up(Alone(p, a), c)[i + 1] = Up(p, c)[i + 1]
<1> TAKE c \in Account
<1>1. PICK n \in 0..Depth : n = i + 1 /\ n - 1 = i
  BY VestingAssumption
<1> DEFINE q == Alone(p, a)
<1>2. \/ (\E j \in 0..(n - 1) : Up(p, c)[j] = a) /\ Up(q, c)[n] = Self
      \/ (\A j \in 0..(n - 1) : Up(p, c)[j] # a) /\ Up(q, c)[n] = Up(p, c)[n]
  BY UpCut
<1> HIDE DEF q
<1>3. n - 1 = i /\ n = i + 1
  BY <1>1
<1>4. \/ (\E j \in 0..i : Up(p, c)[j] = a) /\ Up(q, c)[i + 1] = Self
      \/ (\A j \in 0..i : Up(p, c)[j] # a) /\ Up(q, c)[i + 1] = Up(p, c)[i + 1]
  BY <1>2, <1>3
<1> QED BY <1>4 DEF q

-----------------------------------------------------------------------------
(* What follows an account.                                                *)

\* The accounts whose chain is at b after i proxies, and what they have.
Below(p, b, i) == {c \in Account : Up(p, c)[i] = b}

Support(v, p, b, i) == SumFunctionOnSet(v, Below(p, b, i))

\* What adjust_proxied_witness_votes books to b at the distance i.
Gain(up, delta, b, i) ==
    SumFunctionOnSet([k \in 1..(i+1) |-> delta[i - k + 1]], {k \in 1..(i+1) : up[k] = b})

\* Support is an amount.
LEMMA SupportInt ==
  ASSUME NEW v, \A c \in Account : v[c] \in Int, NEW p, NEW b, NEW i
  PROVE  IsFiniteSet(Below(p, b, i)) /\ Support(v, p, b, i) \in Int
<1>1. Below(p, b, i) \in SUBSET Account
  BY DEF Below
<1>2. IsFiniteSet(Below(p, b, i)) /\ \A c \in Below(p, b, i) : v[c] \in Int
  BY <1>1, VestingAssumption, FS_Subset
<1> QED BY <1>2, SumType DEF Support

\* An account is above a at one place at most, and gets what belongs there.
LEMMA GainOf ==
  ASSUME NEW p \in Proxying, Ends(p), NEW a \in Account, NEW delta \in [0..Depth -> Int],
         NEW b \in Account, NEW i \in 0..(Depth - 1)
  PROVE  /\ \A k \in 1..(i+1) :
               Up(p, a)[k] = b => Gain(Up(p, a), delta, b, i) = delta[i - k + 1]
         /\ (\A k \in 1..(i+1) : Up(p, a)[k] # b) => Gain(Up(p, a), delta, b, i) = 0
<1> DEFINE up == Up(p, a)
           K == {k \in 1..(i+1) : up[k] = b}
           f == [k \in 1..(i+1) |-> delta[i - k + 1]]
<1>0. Depth \in Nat
  BY VestingAssumption
<1>1. ASSUME NEW k \in 1..(i+1), up[k] = b
      PROVE  Gain(up, delta, b, i) = delta[i - k + 1]
  <2>1. \A m \in K : m = k
    <3> TAKE m \in K
    <3>1. m \in 0..Depth /\ k \in 0..Depth /\ up[m] = up[k] /\ up[m] # Self
      BY <1>0, <1>1, SelfNoAccount
    <3> QED BY <3>1, UpOnce
  <2>2. K = {k}
    BY <1>1, <2>1
  <2>3. i - k + 1 \in 0..Depth
    BY <1>0, <1>1
  <2>4. f[k] = delta[i - k + 1] /\ f[k] \in Int
    BY <1>1, <2>3
  <2>5. IsFiniteSet({k}) /\ k \in {k} /\ \A x \in {k} \ {k} : f[x] = 0
    BY FS_Singleton
  <2> HIDE DEF f, K
  <2>6. SumFunctionOnSet(f, {k}) = f[k]
    BY <2>4, <2>5, SumSingle
  <2>7. Gain(up, delta, b, i) = SumFunctionOnSet(f, K)
    BY DEF Gain, f, K
  <2> QED BY <2>2, <2>4, <2>6, <2>7
<1>2. ASSUME \A k \in 1..(i+1) : up[k] # b
      PROVE  Gain(up, delta, b, i) = 0
  <2>1. K = {}
    BY <1>2
  <2>2. Gain(up, delta, b, i) = SumFunctionOnSet(f, K)
    BY DEF Gain
  <2> HIDE DEF f, K
  <2> QED BY <2>1, <2>2, SumEmpty
<1> QED BY <1>1, <1>2

\* And so is what is gained.
LEMMA GainInt ==
  ASSUME NEW p \in Proxying, Ends(p), NEW a \in Account, NEW delta \in [0..Depth -> Int],
         NEW b \in Account, NEW i \in 0..(Depth - 1)
  PROVE  Gain(Up(p, a), delta, b, i) \in Int
<1> DEFINE up == Up(p, a)
<1>0. Depth \in Nat
  BY VestingAssumption
<1>1. CASE \E k \in 1..(i+1) : up[k] = b
  <2>1. PICK k \in 1..(i+1) : up[k] = b
    BY <1>1
  <2>2. Gain(up, delta, b, i) = delta[i - k + 1]
    BY <2>1, GainOf
  <2>3. i - k + 1 \in 0..Depth
    BY <1>0, <2>1
  <2> QED BY <2>2, <2>3
<1>2. CASE \A k \in 1..(i+1) : up[k] # b
  <2>1. Gain(up, delta, b, i) = 0
    BY <1>2, GainOf
  <2> QED BY <2>1
<1> QED BY <1>1, <1>2

\* What follows an account does not depend on its own proxy.
LEMMA BelowStays ==
  ASSUME NEW p \in Proxying, Ends(p), NEW a \in Account, NEW j \in 0..Depth
  PROVE  Below(Alone(p, a), a, j) = Below(p, a, j)
<1> DEFINE q == Alone(p, a)
<1>0. Depth \in Nat
  BY VestingAssumption
<1>1. ASSUME NEW c \in Account
      PROVE  Up(q, c)[j] = a <=> Up(p, c)[j] = a
  <2>1. \/ (\E m \in 0..(j - 1) : Up(p, c)[m] = a) /\ Up(q, c)[j] = Self
        \/ (\A m \in 0..(j - 1) : Up(p, c)[m] # a) /\ Up(q, c)[j] = Up(p, c)[j]
    BY UpCut
  <2>2. ASSUME NEW m \in 0..(j - 1), Up(p, c)[m] = a, Up(p, c)[j] = a
        PROVE  FALSE
    <3>1. m \in 0..Depth /\ m # j /\ Up(p, c)[m] # Self
      BY <1>0, <2>2, SelfNoAccount
    <3> QED BY <2>2, <3>1, UpOnce
  <2> HIDE DEF q
  <2> QED BY <2>1, <2>2, SelfNoAccount
<1> HIDE DEF q
<1>2. Below(q, a, j) = Below(p, a, j)
  BY <1>1 DEF Below
<1> QED BY <1>2 DEF q

\* What follows b over a, at the distance of a from b, is what a votes with:
\* without the proxy of a it is missing.
LEMMA SupportCut ==
  ASSUME NEW p \in Proxying, Ends(p), NEW a \in Account,
         NEW v, \A c \in Account : v[c] \in Int,
         NEW delta \in [0..Depth -> Int], \A j \in 0..Depth : delta[j] = Support(v, p, a, j),
         NEW b \in Account, NEW i \in 0..(Depth - 1)
  PROVE  Support(v, p, b, i + 1) =
            Support(v, Alone(p, a), b, i + 1) + Gain(Up(p, a), delta, b, i)
<1> DEFINE q == Alone(p, a)
           up == Up(p, a)
<1>0. Depth \in Nat /\ i + 1 \in 0..Depth
  BY VestingAssumption
<1> HIDE DEF q
<1>3. \A c \in Account :
         \/ (\E m \in 0..i : Up(p, c)[m] = a) /\ Up(q, c)[i + 1] = Self
         \/ (\A m \in 0..i : Up(p, c)[m] # a) /\ Up(q, c)[i + 1] = Up(p, c)[i + 1]
  BY UpCutAfter DEF q
<1>4. up[0] = a /\ 0 \in 0..Depth
  BY <1>0, UpSteps
<1>5. ASSUME NEW c \in Account, NEW m \in 0..i, Up(p, c)[m] = a
      PROVE  Up(p, c)[i + 1] = up[(i + 1) - m] /\ (i + 1) - m \in 1..(i + 1)
  <2> DEFINE n == (i + 1) - m
  <2>1. n \in Nat /\ m \in 0..Depth /\ m + n = i + 1 /\ 0 + n = n /\ m + n <= Depth /\ 0 + n <= Depth
        /\ n \in 1..(i + 1)
    BY <1>0
  <2>2. Up(p, c)[m] = Up(p, a)[0]
    BY <1>4, <1>5
  <2> HIDE DEF n
  <2>3. Up(p, c)[m + n] = Up(p, a)[0 + n]
    BY <1>4, <2>1, <2>2, UpMeets
  <2> QED BY <2>1, <2>3 DEF n
<1>6. b # Self
  BY SelfNoAccount
<1>7. CASE \E k \in 1..(i+1) : up[k] = b
  <2>1. PICK k \in 1..(i+1) : up[k] = b
    BY <1>7
  <2> DEFINE j == i - k + 1
  <2>2. j \in 0..i /\ j \in 0..Depth /\ k \in 0..Depth /\ (i + 1) - j = k
    BY <1>0, <2>1
  <2>3. Gain(up, delta, b, i) = Support(v, p, a, j)
    <3>1. Gain(up, delta, b, i) = delta[j]
      BY <2>1, GainOf, ZenonT(30)
    <3>2. delta[j] = Support(v, p, a, j)
      BY <2>2
    <3> QED BY <3>1, <3>2
  <2> HIDE DEF j
  <2> DEFINE B == Below(q, b, i + 1)
             A == Below(p, a, j)
  <2>4. ASSUME NEW c \in Account, Up(p, c)[i + 1] = b, Up(q, c)[i + 1] # b
        PROVE  Up(p, c)[j] = a
    <3>1. PICK m \in 0..i : Up(p, c)[m] = a
      BY <1>3, <2>4
    <3>2. up[(i + 1) - m] = b /\ (i + 1) - m \in 1..(i + 1)
      BY <1>5, <2>4, <3>1
    <3>3. (i + 1) - m \in 0..Depth /\ up[(i + 1) - m] = up[k] /\ up[(i + 1) - m] # Self
      BY <1>0, <1>6, <2>1, <3>2
    <3>4. (i + 1) - m = k
      BY <2>2, <3>3, UpOnce
    <3>5. m = j
      BY <2>2, <3>4
    <3> QED BY <3>1, <3>5
  <2>5. Below(p, b, i + 1) = B \cup A
    <3>1. ASSUME NEW c \in Account
          PROVE  Up(p, c)[i + 1] = b <=> Up(q, c)[i + 1] = b \/ Up(p, c)[j] = a
      <4>1. Up(q, c)[i + 1] = b => Up(p, c)[i + 1] = b
        BY <1>3, <1>6
      <4>2. Up(p, c)[j] = a => Up(p, c)[i + 1] = b
        BY <1>5, <2>1, <2>2
      <4> QED BY <2>4, <4>1, <4>2
    <3> QED BY <3>1 DEF Below
  <2>6. B \cap A = {}
    BY <1>3, <1>6, <2>2 DEF Below
  <2>7. IsFiniteSet(A) /\ IsFiniteSet(B) /\ \A c \in B \cup A : v[c] \in Int
    <3>1. \A c \in B \cup A : c \in Account
      BY DEF Below
    <3> QED BY <3>1, SupportInt
  <2>8. Support(v, p, a, j) = SumFunctionOnSet(v, A) /\ Support(v, q, b, i + 1) = SumFunctionOnSet(v, B)
    BY DEF Support
  <2> HIDE DEF A, B
  <2>9. SumFunctionOnSet(v, B \cup A) = SumFunctionOnSet(v, B) + SumFunctionOnSet(v, A)
    BY <2>6, <2>7, SumUnion
  <2>10. Support(v, p, b, i + 1) = Support(v, q, b, i + 1) + Gain(up, delta, b, i)
    BY <2>3, <2>5, <2>8, <2>9 DEF Support
  <2> QED BY <2>10 DEF q
<1>8. CASE \A k \in 1..(i+1) : up[k] # b
  <2>1. Gain(up, delta, b, i) = 0
    BY <1>8, GainOf
  <2>2. ASSUME NEW c \in Account
        PROVE  Up(p, c)[i + 1] = b <=> Up(q, c)[i + 1] = b
    BY <1>3, <1>5, <1>6, <1>8
  <2>3. Below(p, b, i + 1) = Below(q, b, i + 1)
    BY <2>2 DEF Below
  <2>4. Support(v, p, b, i + 1) = Support(v, q, b, i + 1)
    BY <2>3 DEF Support
  <2>5. Support(v, q, b, i + 1) \in Int
    BY SupportInt
  <2>6. Support(v, p, b, i + 1) = Support(v, q, b, i + 1) + Gain(up, delta, b, i)
    BY <2>1, <2>4, <2>5
  <2> QED BY <2>6 DEF q
<1> QED BY <1>7, <1>8

\* h is v with n more for a.
Raised(h, v, a, n) ==
    /\ \A c \in Account : v[c] \in Int
    /\ n \in Int /\ h[a] = v[a] + n /\ \A c \in Account \ {a} : h[c] = v[c]

\* Vests of an account count where its chain is.
LEMMA SupportAdded ==
  ASSUME NEW p, NEW v, NEW a \in Account, NEW n \in Int, NEW h, Raised(h, v, a, n),
         NEW b, NEW i
  PROVE  /\ Up(p, a)[i] = b => Support(h, p, b, i) = Support(v, p, b, i) + n
         /\ Up(p, a)[i] # b => Support(h, p, b, i) = Support(v, p, b, i)
<1>0. (\A c \in Account : v[c] \in Int) /\ n \in Int /\ h[a] = v[a] + n /\ \A c \in Account \ {a} : h[c] = v[c]
  BY DEF Raised
<1> DEFINE B == Below(p, b, i)
<1>1. IsFiniteSet(B) /\ SumFunctionOnSet(v, B) \in Int
  BY <1>0, SupportInt DEF Support
<1>2. B \in SUBSET Account /\ (a \in B <=> Up(p, a)[i] = b)
  BY DEF Below
<1>3. Support(h, p, b, i) = SumFunctionOnSet(h, B) /\ Support(v, p, b, i) = SumFunctionOnSet(v, B)
  BY DEF Support
<1> HIDE DEF B
<1>4. (\A c \in B : v[c] \in Int) /\ h[a] \in Int /\ v[a] \in Int /\ \A c \in B \ {a} : h[c] = v[c]
  BY <1>0, <1>2
<1>5. CASE a \in B
  <2>1. SumFunctionOnSet(h, B) = SumFunctionOnSet(v, B) - v[a] + h[a]
    BY <1>1, <1>4, <1>5, SumChanged
  <2> DEFINE s == SumFunctionOnSet(v, B)
  <2>2. s \in Int /\ SumFunctionOnSet(h, B) = s - v[a] + h[a]
    BY <1>1, <2>1
  <2> HIDE DEF s
  <2>3. SumFunctionOnSet(h, B) = s + n
    BY <1>0, <1>4, <2>2
  <2> QED BY <1>2, <1>3, <1>5, <2>3 DEF s
<1>6. CASE a \notin B
  <2>1. \A c \in B : h[c] = v[c]
    BY <1>4, <1>6
  <2>2. SumFunctionOnSet(h, B) = SumFunctionOnSet(v, B)
    BY <1>1, <1>4, <2>1, SumSame
  <2> QED BY <1>1, <1>2, <1>3, <1>6, <2>2
<1> QED BY <1>5, <1>6
-----------------------------------------------------------------------------
(* What adjust_proxied_witness_votes changes.                              *)

\* The parts of the database that votes are about, as far as steps read them.
Columns == {"vests", "proxy", "proxied", "voted", "votedFor", "votes",
            "routes", "rate", "next", "toWithdraw", "withdrawn", "shares", "fund", "balance", "ok"}

VoteTypes(d) ==
    /\ Columns \subseteq DOMAIN d
    /\ d.vests \in [Account -> Int] /\ d.proxy \in Proxying /\ d.proxied \in ByDistance
    /\ d.voted \in SUBSET (Account \X Witness) /\ d.votes \in [Witness -> Int]
    /\ d.votedFor \in [Account -> Int]

\* x is d but for what is proxied and the votes of witnesses.
Rebooked(x, d) ==
    /\ DOMAIN x = DOMAIN d
    /\ x.vests = d.vests /\ x.proxy = d.proxy /\ x.voted = d.voted /\ x.votedFor = d.votedFor
    /\ x.routes = d.routes /\ x.next = d.next

\* Where a chain ends.
Rooted(p, a, r) == Up(p, a)[r] # Self /\ p[Up(p, a)[r]] = Self

\* A chain has one root.
LEMMA RootOnce ==
  ASSUME NEW p \in Proxying, NEW a \in Account, NEW r \in 0..Depth, NEW s \in 0..Depth,
         Rooted(p, a, r), Rooted(p, a, s)
  PROVE  r = s
<1>0. Depth \in Nat
  BY VestingAssumption
<1>1. ASSUME NEW i \in 0..Depth, NEW j \in 0..Depth, i < j, Rooted(p, a, i), Rooted(p, a, j)
      PROVE  FALSE
  <2> DEFINE up == Up(p, a)
             k == i + 1
  <2>1. k \in 0..Depth /\ k = i + 1 /\ j \in k..Depth
    BY <1>0, <1>1
  <2>2. up[i] # Self /\ p[up[i]] = Self /\ up[j] # Self
    BY <1>1 DEF Rooted
  <2> HIDE DEF k
  <2>3. up[k] = Self
    BY <2>1, <2>2, UpSteps
  <2>4. up[j] = Self
    BY <2>1, <2>3, UpEnded
  <2> QED BY <2>2, <2>4
<1> QED BY <1>0, <1>1

\* What the account a chain ends in casts.
Cast(x, d, a, delta) ==
    /\ \A r \in 0..Depth : Rooted(d.proxy, a, r) =>
          x.votes = [w \in Witness |->
                        IF <<Up(d.proxy, a)[r], w>> \in d.voted
                        THEN d.votes[w] + SumFunctionOnSet(delta, 0..(Depth - r))
                        ELSE d.votes[w]]
    /\ (\A r \in 0..Depth : ~Rooted(d.proxy, a, r)) => x.votes = d.votes

Booked(d, a, delta) ==
    [b \in Account |-> [i \in 0..(Depth - 1) |->
        d.proxied[b][i] + Gain(Up(d.proxy, a), delta, b, i)]]

\* adjust_proxied_witness_votes books each level once, and casts the rest at the root.
LEMMA Adjusted ==
  ASSUME NEW d, VoteTypes(d), NEW a \in Account, NEW delta \in [0..Depth -> Int]
  PROVE  /\ Rebooked(AdjustProxied(d, a, delta), d)
         /\ AdjustProxied(d, a, delta).proxied = Booked(d, a, delta)
         /\ Cast(AdjustProxied(d, a, delta), d, a, delta)
<1> DEFINE p == d.proxy
           up == Up(p, a)
           booked == [d EXCEPT !.proxied = Booked(d, a, delta)]
           root == {k \in 0..Depth : up[k] # Self /\ p[up[k]] = Self}
           x == AdjustProxied(d, a, delta)
<1>0. Depth \in Nat /\ p \in Proxying /\ Columns \subseteq DOMAIN d
  BY VestingAssumption DEF VoteTypes
<1>1. ProxyChain(d, a) = up
  BY UpIsChain
<1>2. x = IF root = {} THEN booked
          ELSE AdjustWitnessVotes(booked, up[Min(root)], SumFunctionOnSet(delta, 0..(Depth - Min(root))))
  BY <1>1, Zenon DEF AdjustProxied, Booked, Gain
<1>3. \A r \in 0..Depth : r \in root <=> Rooted(p, a, r)
  BY DEF Rooted
<1>4. root \in SUBSET (0..Depth)
  OBVIOUS
<1> HIDE DEF x, root
<1> DEFINE B == Booked(d, a, delta)
<1>5. Rebooked(booked, d) /\ booked.proxied = B /\ booked.votes = d.votes
  <2>1. /\ DOMAIN booked = DOMAIN d /\ booked.votes = d.votes /\ booked.proxied = B
        /\ booked.vests = d.vests /\ booked.proxy = d.proxy /\ booked.voted = d.voted
        /\ booked.votedFor = d.votedFor /\ booked.routes = d.routes /\ booked.next = d.next
    BY <1>0 DEF Columns
  <2> HIDE DEF B, booked
  <2> QED BY <2>1 DEF Rebooked
<1>6. CASE root = {}
  <2>1. x = booked /\ \A r \in 0..Depth : ~Rooted(p, a, r)
    BY <1>2, <1>3, <1>6
  <2>2. Cast(booked, d, a, delta)
    BY <1>5, <2>1 DEF Cast
  <2> QED BY <1>5, <2>1, <2>2 DEF x
<1>7. CASE root # {}
  <2> DEFINE r == Min(root)
  <2>1. r \in root /\ r \in 0..Depth
    <3>1. root \in SUBSET Nat
      BY <1>0, <1>4
    <3>2. Min(root) \in root
      BY <1>7, <3>1, MinOf
    <3> QED BY <1>4, <3>2
  <2> DEFINE n == SumFunctionOnSet(delta, 0..(Depth - r))
             b == up[r]
             votes == [w \in Witness |-> IF <<b, w>> \in d.voted THEN d.votes[w] + n ELSE d.votes[w]]
             k == booked.ok /\ \A w \in {w \in Witness : <<b, w>> \in booked.voted} : booked.votes[w] + n =< booked.shares
             y == [booked EXCEPT !.votes = votes, !.ok = k]
  <2>2. x = AdjustWitnessVotes(booked, b, n)
    BY <1>2, <1>7
  <2> HIDE DEF r, n
  <2>3. AdjustWitnessVotes(booked, b, n) = y
    <3>1. booked.voted = d.voted /\ booked.votes = d.votes
      BY <1>5 DEF Rebooked
    <3>2. [w \in Witness |-> IF w \in {u \in Witness : <<b, u>> \in booked.voted}
                             THEN booked.votes[w] + n ELSE booked.votes[w]] = votes
      BY <3>1
    <3> HIDE DEF booked, votes, b
    <3> QED BY <3>2 DEF AdjustWitnessVotes
  <2> HIDE DEF b
  <2>4. Rebooked(y, d) /\ y.proxied = B /\ y.votes = votes
    <3>1. DOMAIN booked = DOMAIN d
      BY <1>5 DEF Rebooked
    <3> HIDE DEF booked, votes, k, B
    <3>2. /\ DOMAIN y = DOMAIN booked /\ y.votes = votes /\ y.proxied = booked.proxied
          /\ y.vests = booked.vests /\ y.proxy = booked.proxy /\ y.voted = booked.voted
          /\ y.votedFor = booked.votedFor /\ y.routes = booked.routes /\ y.next = booked.next
      BY <1>0, <3>1 DEF Columns
    <3> HIDE DEF y
    <3> QED BY <1>5, <3>2 DEF Rebooked
  <2> HIDE DEF y, booked
  <2>5. Cast(x, d, a, delta)
    <3>1. Rooted(p, a, r)
      BY <1>3, <2>1
    <3>2. ASSUME NEW s \in 0..Depth, Rooted(p, a, s)
          PROVE  s = r
      BY <1>0, <2>1, <3>1, <3>2, RootOnce
    <3>3. x.votes = votes
      BY <2>2, <2>3, <2>4
    <3>4. ASSUME NEW s \in 0..Depth, Rooted(p, a, s)
          PROVE  x.votes = [w \in Witness |-> IF <<up[s], w>> \in d.voted
                                THEN d.votes[w] + SumFunctionOnSet(delta, 0..(Depth - s))
                                ELSE d.votes[w]]
      <4>1. s = r
        BY <3>2, <3>4
      <4> QED BY <3>3, <4>1 DEF n, b
    <3>5. ~ \A s \in 0..Depth : ~Rooted(p, a, s)
      BY <2>1, <3>1
    <3> HIDE DEF x
    <3> QED BY <3>4, <3>5 DEF Cast
  <2> QED BY <2>2, <2>3, <2>4, <2>5 DEF x
<1> QED BY <1>6, <1>7
\* The types of what is booked.
LEMMA BookedType ==
  ASSUME NEW d, VoteTypes(d), Ends(d.proxy), NEW a \in Account, NEW delta \in [0..Depth -> Int]
  PROVE  /\ Booked(d, a, delta) \in ByDistance
         /\ \A b \in Account, i \in 0..(Depth - 1) :
               Booked(d, a, delta)[b][i] = d.proxied[b][i] + Gain(Up(d.proxy, a), delta, b, i)
<1>1. d.proxy \in Proxying /\ d.proxied \in ByDistance
  BY DEF VoteTypes
<1>2. ASSUME NEW b \in Account, NEW i \in 0..(Depth - 1)
      PROVE  d.proxied[b][i] + Gain(Up(d.proxy, a), delta, b, i) \in Int
  <2>1. Gain(Up(d.proxy, a), delta, b, i) \in Int
    BY <1>1, GainInt
  <2>2. d.proxied[b][i] \in Int
    BY <1>1 DEF ByDistance
  <2> QED BY <2>1, <2>2
<1>3. Booked(d, a, delta) \in ByDistance
  BY <1>2 DEF Booked, ByDistance
<1> QED BY <1>3 DEF Booked

\* Sums of any part of the levels are amounts.
LEMMA SumInDepth ==
  ASSUME NEW f \in [0..(Depth - 1) -> Int]
  PROVE  /\ SumFunction(f) = SumFunctionOnSet(f, 0..(Depth - 1)) /\ SumFunction(f) \in Int
         /\ IsFiniteSet(0..(Depth - 1))
<1>1. Depth \in Nat
  BY VestingAssumption
<1> DEFINE I == 0..(Depth - 1)
<1>2. IsFiniteSet(I)
  BY <1>1, FS_Interval
<1>3. DOMAIN f = I /\ \A i \in I : f[i] \in Int
  OBVIOUS
<1> HIDE DEF I
<1>4. SumFunction(f) = SumFunctionOnSet(f, I)
  BY <1>3, Zenon DEF SumFunction
<1>5. SumFunctionOnSet(f, I) \in Int
  BY <1>2, <1>3, SumType
<1> QED BY <1>2, <1>4, <1>5 DEF I

\* All that is booked to an account r proxies above a is what a's change has
\* at the distances that reach it.
LEMMA BookedSum ==
  ASSUME NEW d, VoteTypes(d), Ends(d.proxy), NEW a \in Account, NEW delta \in [0..Depth -> Int],
         NEW b \in Account
  PROVE  LET f == d.proxied[b]
             h == Booked(d, a, delta)[b]
         IN /\ \A r \in 1..Depth : Up(d.proxy, a)[r] = b =>
                  SumFunction(h) = SumFunction(f) + SumFunctionOnSet(delta, 0..(Depth - r))
            /\ (\A r \in 1..Depth : Up(d.proxy, a)[r] # b) => SumFunction(h) = SumFunction(f)
<1> DEFINE p == d.proxy
           up == Up(p, a)
           f == d.proxied[b]
           h == Booked(d, a, delta)[b]
           g == [i \in 0..(Depth - 1) |-> Gain(up, delta, b, i)]
           I == 0..(Depth - 1)
<1>0. Depth \in Nat /\ p \in Proxying
  BY VestingAssumption DEF VoteTypes
<1>1. f \in [I -> Int] /\ h \in [I -> Int]
  <2>1. d.proxied \in ByDistance /\ Booked(d, a, delta) \in ByDistance
    BY BookedType DEF VoteTypes
  <2> QED BY <2>1 DEF ByDistance
<1>2. g \in [I -> Int]
  BY <1>0, GainInt
<1>3. \A i \in I : h[i] = f[i] + g[i]
  BY BookedType
<1>4. \A i \in I : g[i] = Gain(up, delta, b, i)
  OBVIOUS
<1> HIDE DEF f, h, g
<1>5. /\ SumFunction(f) = SumFunctionOnSet(f, I) /\ SumFunction(f) \in Int
      /\ SumFunction(h) = SumFunctionOnSet(h, I) /\ IsFiniteSet(I)
  BY <1>1, SumInDepth
<1>6. SumFunctionOnSet(h, I) = SumFunctionOnSet(f, I) + SumFunctionOnSet(g, I)
  <2> HIDE DEF I
  <2>1. (\A i \in I : f[i] \in Int) /\ \A i \in I : g[i] \in Int
    BY <1>1, <1>2
  <2> QED BY <1>3, <1>5, <2>1, SumPlus
<1>7. ASSUME NEW r \in 1..Depth, up[r] = b
      PROVE  SumFunctionOnSet(g, I) = SumFunctionOnSet(delta, 0..(Depth - r))
  <2> DEFINE s == r - 1
             n == Depth - r
             A == 0..(s - 1)
             B == s..(s + n)
  <2>1. s \in Nat /\ n \in Nat /\ s + n = Depth - 1
    BY <1>0, <1>7
  <2>2. I = A \cup B /\ A \cap B = {}
    BY <1>0, <2>1
  <2>3. IsFiniteSet(A) /\ IsFiniteSet(B)
    BY <2>1, FS_Interval
  <2>4. \A i \in A : g[i] = 0
    <3> TAKE i \in A
    <3>1. i \in I /\ i + 1 < r /\ i \in Int
      BY <1>0, <2>1, <1>7
    <3>2. ASSUME NEW k \in 1..(i + 1), up[k] = b
          PROVE  FALSE
      <4>1. k \in 0..Depth /\ r \in 0..Depth /\ k # r
        BY <1>0, <1>7, <3>1
      <4>2. up[k] # Self /\ up[k] = up[r]
        BY <1>7, <3>2, SelfNoAccount
      <4> QED BY <1>0, <4>1, <4>2, UpOnce
    <3>3. Gain(up, delta, b, i) = 0
      BY <1>0, <3>1, <3>2, GainOf, ZenonT(30)
    <3> QED BY <1>4, <3>1, <3>3
  <2>5. ASSUME NEW j \in 0..n
        PROVE  g[s + j] = delta[j] /\ delta[j] \in Int
    <3> DEFINE i == s + j
    <3>1. i \in I /\ r \in 1..(i + 1) /\ i - r + 1 = j /\ j \in 0..Depth
      BY <1>0, <1>7, <2>1
    <3> HIDE DEF i
    <3>2. Gain(up, delta, b, i) = delta[i - r + 1]
      BY <1>0, <1>7, <3>1, GainOf
    <3> QED BY <1>4, <3>1, <3>2 DEF i
  <2> HIDE DEF s, n
  <2>6. SumFunctionOnSet(g, B) = SumFunctionOnSet(delta, 0..n)
    <3>1. \A j \in 0..n : delta[j] \in Int
      BY <2>5
    <3>2. \A j \in 0..n : g[s + j] = delta[j]
      BY <2>5
    <3>3. SumFunctionOnSet(g, s..(s + n)) = SumFunctionOnSet(delta, 0..n)
      <4>1. s \in Nat /\ n \in Nat
        BY <2>1
      <4> QED BY <3>1, <3>2, <4>1, SumShift, ZenonT(60)
    <3> QED BY <3>3
  <2>7. \A i \in A \cup B : g[i] \in Int
    BY <1>2, <2>2
  <2> DEFINE G(T) == SumFunctionOnSet(g, T)
  <2>8. G(A) = 0
    <3> HIDE DEF A
    <3> QED BY <2>3, <2>4, SumZero
  <2>9. G(A \cup B) = G(A) + G(B) /\ G(B) \in Int
    <3> HIDE DEF A, B
    <3>1. \A i \in B : g[i] \in Int
      BY <2>7
    <3> QED BY <2>2, <2>3, <2>7, <3>1, SumUnion, SumType
  <2>10. G(I) = G(B)
    <3> HIDE DEF G, A, B, I
    <3>1. G(I) = 0 + G(B)
      BY <2>2, <2>8, <2>9
    <3> QED BY <2>9, <3>1
  <2>11. G(B) = SumFunctionOnSet(delta, 0..(Depth - r))
    BY <2>6 DEF n
  <2> QED BY <2>10, <2>11
<1>8. ASSUME \A r \in 1..Depth : up[r] # b
      PROVE  SumFunctionOnSet(g, I) = 0
  <2>1. \A i \in I : g[i] = 0
    <3> TAKE i \in I
    <3>1. \A k \in 1..(i + 1) : up[k] # b
      BY <1>0, <1>8
    <3>2. Gain(up, delta, b, i) = 0
      BY <1>0, <3>1, GainOf
    <3> QED BY <1>4, <3>2
  <2> HIDE DEF I
  <2> QED BY <1>5, <2>1, SumZero
<1>9. ASSUME NEW r \in 1..Depth, up[r] = b
      PROVE  SumFunction(h) = SumFunction(f) + SumFunctionOnSet(delta, 0..(Depth - r))
  BY <1>5, <1>6, <1>7, <1>9
<1>10. ASSUME \A r \in 1..Depth : up[r] # b
       PROVE  SumFunction(h) = SumFunction(f)
  BY <1>5, <1>6, <1>8, <1>10
<1> QED BY <1>9, <1>10 DEF f, h
\* What an account votes with is its weight.
LEMMA AllVotesSum ==
  ASSUME NEW d, VoteTypes(d), NEW a \in Account
  PROVE  /\ AllVotes(d, a) \in [0..Depth -> Int]
         /\ SumFunctionOnSet(AllVotes(d, a), 0..Depth) = Weight(d, a)
         /\ Weight(d, a) \in Int
<1> DEFINE f == d.proxied[a]
           all == AllVotes(d, a)
<1>0. Depth \in Nat /\ Depth # 0
  BY VestingAssumption
<1>1. d.vests[a] \in Int /\ f \in [0..(Depth - 1) -> Int]
  <2>1. d.vests \in [Account -> Int] /\ d.proxied \in ByDistance
    BY DEF VoteTypes
  <2> QED BY <2>1 DEF ByDistance
<1>2. SumFunction(f) = SumFunctionOnSet(f, 0..(Depth - 1)) /\ SumFunction(f) \in Int
  <2> HIDE DEF f
  <2> QED BY <1>1, SumInDepth
<1>3. all \in [0..Depth -> Int]
  <2>1. ASSUME NEW i \in 0..Depth, i # 0
        PROVE  d.proxied[a][i-1] \in Int
    <3>1. i - 1 \in 0..(Depth - 1)
      BY <1>0, <2>1
    <3> QED BY <1>1, <3>1
  <2> QED BY <1>1, <2>1 DEF AllVotes
<1>4. all[0] = d.vests[a] /\ \A i \in 1..Depth : all[i] = f[i - 1]
  BY <1>0 DEF AllVotes
<1>5. Weight(d, a) = d.vests[a] + SumFunction(f)
  BY DEF Weight
<1> HIDE DEF all, f
<1> DEFINE I == 1..Depth
           n == Depth - 1
           s == 1
<1>6. n \in Nat /\ s \in Nat /\ s..(s + n) = I
  BY <1>0
<1>7. SumFunctionOnSet(all, I) = SumFunctionOnSet(f, 0..n)
  <2>1. \A j \in 0..n : f[j] \in Int
    BY <1>1
  <2>2. \A j \in 0..n : all[s + j] = f[j]
    <3> TAKE j \in 0..n
    <3>1. s + j \in 1..Depth /\ (s + j) - 1 = j
      BY <1>0
    <3> QED BY <1>4, <3>1
  <2>3. SumFunctionOnSet(all, s..(s + n)) = SumFunctionOnSet(f, 0..n)
    <3> HIDE DEF s, n
    <3>1. s \in Nat /\ n \in Nat
      BY <1>6
    <3> QED BY <2>1, <2>2, <3>1, SumShift, ZenonT(20)
  <2> QED BY <1>6, <2>3
<1>8. SumFunctionOnSet(all, 0..Depth) = SumFunctionOnSet(all, I) + all[0]
  <2> DEFINE J == 0..Depth
  <2>1. IsFiniteSet(J) /\ 0 \in J /\ J \ {0} = I
    BY <1>0, FS_Interval
  <2>2. \A i \in J : all[i] \in Int
    BY <1>3
  <2> HIDE DEF J, I
  <2>3. SumFunctionOnSet(all, J) = SumFunctionOnSet(all, J \ {0}) + all[0]
    BY <2>1, <2>2, SumAdd
  <2> QED BY <2>1, <2>3 DEF J
<1>9. SumFunctionOnSet(all, 0..Depth) = d.vests[a] + SumFunction(f)
  BY <1>1, <1>2, <1>4, <1>7, <1>8
<1>10. Weight(d, a) \in Int
  BY <1>1, <1>2, <1>5
<1> QED BY <1>3, <1>5, <1>9, <1>10 DEF all, f

\* A change taken off instead of added.
LEMMA NegatedSum ==
  ASSUME NEW delta \in [0..Depth -> Int], NEW n \in 0..Depth
  PROVE  /\ Negated(delta) \in [0..Depth -> Int]
         /\ SumFunctionOnSet(delta, 0..n) \in Int
         /\ SumFunctionOnSet(Negated(delta), 0..n) = -SumFunctionOnSet(delta, 0..n)
<1> DEFINE I == 0..n
           e == Negated(delta)
           z == [i \in 0..Depth |-> 0]
<1>0. Depth \in Nat
  BY VestingAssumption
<1>1. e \in [0..Depth -> Int] /\ \A i \in 0..Depth : e[i] = -delta[i]
  BY DEF Negated
<1>2. IsFiniteSet(I) /\ \A i \in I : i \in 0..Depth
  BY <1>0, FS_Interval, SMTT(30)
<1>3. \A i \in I : z[i] = 0
  BY <1>2
<1> HIDE DEF I, e, z
<1>4. (\A i \in I : delta[i] \in Int) /\ (\A i \in I : e[i] \in Int) /\ \A i \in I : z[i] = delta[i] + e[i]
  BY <1>1, <1>2, <1>3
<1>5. SumFunctionOnSet(z, I) = SumFunctionOnSet(delta, I) + SumFunctionOnSet(e, I)
  BY <1>2, <1>4, SumPlus
<1>6. SumFunctionOnSet(z, I) = 0
  BY <1>2, <1>3, SumZero
<1>7. SumFunctionOnSet(delta, I) \in Int /\ SumFunctionOnSet(e, I) \in Int
  BY <1>2, <1>4, SumType
<1>8. SumFunctionOnSet(e, I) = -SumFunctionOnSet(delta, I)
  BY <1>5, <1>6, <1>7
<1> QED BY <1>1, <1>7, <1>8 DEF I, e

\* Taking away undoes giving.
LEMMA GainNegated ==
  ASSUME NEW p \in Proxying, Ends(p), NEW a \in Account, NEW delta \in [0..Depth -> Int],
         NEW e \in [0..Depth -> Int], \A j \in 0..Depth : e[j] = -delta[j],
         NEW b \in Account, NEW i \in 0..(Depth - 1)
  PROVE  Gain(Up(p, a), e, b, i) + Gain(Up(p, a), delta, b, i) = 0
<1> DEFINE up == Up(p, a)
<1>0. Depth \in Nat
  BY VestingAssumption
<1>2. CASE \E k \in 1..(i+1) : up[k] = b
  <2>1. PICK k \in 1..(i+1) : up[k] = b
    BY <1>2
  <2>2. i - k + 1 \in 0..Depth
    BY <1>0, <2>1
  <2>3. Gain(up, delta, b, i) = delta[i - k + 1]
    BY <2>1, GainOf, ZenonT(30)
  <2>4. Gain(up, e, b, i) = e[i - k + 1]
    BY <2>1, GainOf, ZenonT(30)
  <2> QED BY <2>2, <2>3, <2>4
<1>3. CASE \A k \in 1..(i+1) : up[k] # b
  <2>1. Gain(up, delta, b, i) = 0
    BY <1>3, GainOf
  <2>2. Gain(up, e, b, i) = 0
    BY <1>3, GainOf
  <2> QED BY <2>1, <2>2
<1> QED BY <1>2, <1>3

-----------------------------------------------------------------------------
(* Who votes for a witness.                                                *)

Voters(d, w) == {b \in Account : <<b, w>> \in d.voted}

\* Votes are the weights W of the voters, who have no proxies.
Backing(d, W) ==
    /\ \A w \in Witness : d.votes[w] = SumFunctionOnSet(W, Voters(d, w))
    /\ \A v \in d.voted : d.proxy[v[1]] = Self

\* V is W with what delta adds to the end of a's chain.
Weighed(V, W, p, a, delta) ==
    /\ W \in [Account -> Int] /\ V \in [Account -> Int]
    /\ \A b \in Account : p[b] = Self =>
          /\ \A r \in 0..Depth :
                Up(p, a)[r] = b => V[b] = W[b] + SumFunctionOnSet(delta, 0..(Depth - r))
          /\ (\A r \in 0..Depth : Up(p, a)[r] # b) => V[b] = W[b]

\* What the end of a chain casts is what its weight grows by.
LEMMA CastRight ==
  ASSUME NEW d, VoteTypes(d), NEW a \in Account, NEW delta \in [0..Depth -> Int],
         NEW x, Rebooked(x, d), Cast(x, d, a, delta),
         NEW W, Backing(d, W), NEW V, Weighed(V, W, d.proxy, a, delta)
  PROVE  Backing(x, V)
<1> DEFINE p == d.proxy
           up == Up(p, a)
<1>0. Depth \in Nat /\ p \in Proxying
  BY VestingAssumption DEF VoteTypes
<1>8. W \in [Account -> Int] /\ V \in [Account -> Int]
  BY DEF Weighed
<1>9. \A b \in Account : p[b] = Self =>
          /\ \A r \in 0..Depth : up[r] = b => V[b] = W[b] + SumFunctionOnSet(delta, 0..(Depth - r))
          /\ (\A r \in 0..Depth : up[r] # b) => V[b] = W[b]
  BY DEF Weighed
<1>1. ASSUME NEW w \in Witness
      PROVE  x.votes[w] = SumFunctionOnSet(V, Voters(x, w))
  <2> DEFINE S == Voters(d, w)
  <2>1. Voters(x, w) = S
    BY DEF Voters, Rebooked
  <2>2. S \in SUBSET Account /\ IsFiniteSet(S)
    BY VestingAssumption, FS_Subset DEF Voters
  <2>3. \A c \in S : p[c] = Self
    BY DEF Voters, Backing
  <2>4. d.votes[w] = SumFunctionOnSet(W, S)
    BY DEF Backing
  <2>5. \A b \in Account : b \in S <=> <<b, w>> \in d.voted
    BY DEF Voters
  <2> HIDE DEF S
  <2>6. (\A c \in S : W[c] \in Int) /\ (\A c \in S : V[c] \in Int) /\ SumFunctionOnSet(W, S) \in Int
    <3>1. (\A c \in S : W[c] \in Int) /\ (\A c \in S : V[c] \in Int)
      BY <1>8, <2>2
    <3> QED BY <2>2, <3>1, SumType
  <2>7. ASSUME NEW r \in 0..Depth, NEW c \in S, up[r] = c
        PROVE  Rooted(p, a, r)
    BY <2>2, <2>3, <2>7, SelfNoAccount DEF Rooted
  <2>8. CASE \E r \in 0..Depth : Rooted(p, a, r)
    <3>1. PICK r \in 0..Depth : Rooted(p, a, r)
      BY <2>8
    <3> DEFINE b == up[r]
               n == SumFunctionOnSet(delta, 0..(Depth - r))
    <3>2. b \in Account /\ p[b] = Self
      BY <1>0, <3>1, UpSteps DEF Rooted
    <3>3. x.votes[w] = IF b \in S THEN d.votes[w] + n ELSE d.votes[w]
      <4>1. x.votes = [u \in Witness |-> IF <<b, u>> \in d.voted THEN d.votes[u] + n ELSE d.votes[u]]
        BY <3>1 DEF Cast
      <4> HIDE DEF b, n
      <4> QED BY <2>5, <3>2, <4>1
    <3>4. V[b] = W[b] + n
      BY <1>9, <3>2
    <3>5. ASSUME NEW c \in S, c # b
          PROVE  V[c] = W[c]
      <4>1. ASSUME NEW k \in 0..Depth, up[k] = c
            PROVE  FALSE
        <5>1. Rooted(p, a, k)
          BY <2>7, <4>1
        <5>2. k = r
          BY <1>0, <3>1, <5>1, RootOnce
        <5> QED BY <3>5, <4>1, <5>2
      <4> QED BY <1>9, <2>2, <2>3, <4>1
    <3> HIDE DEF b, n
    <3>6. CASE b \in S
      <4>1. V[b] \in Int /\ W[b] \in Int
        BY <2>6, <3>6
      <4>2. \A c \in S \ {b} : V[c] = W[c]
        BY <3>5
      <4>3. SumFunctionOnSet(V, S) = SumFunctionOnSet(W, S) - W[b] + V[b]
        <5>1. IsFiniteSet(S) /\ \A c \in S : W[c] \in Int
          BY <2>2, <2>6
        <5>2. V[b] \in Int
          BY <4>1
        <5> QED BY <3>6, <4>2, <5>1, <5>2, SumChanged
      <4>4. n \in Int
        <5>1. 0..(Depth - r) \in SUBSET (0..Depth) /\ IsFiniteSet(0..Depth)
          BY <1>0, FS_Interval
        <5> DEFINE J == 0..(Depth - r)
        <5>2. IsFiniteSet(J) /\ \A j \in J : delta[j] \in Int
          BY <5>1, FS_Subset
        <5> HIDE DEF J
        <5>3. SumFunctionOnSet(delta, J) \in Int
          BY <5>2, SumType
        <5> QED BY <5>3 DEF n, J
      <4>5. SumFunctionOnSet(V, S) = SumFunctionOnSet(W, S) + n
        <5> DEFINE t == SumFunctionOnSet(W, S)
        <5>1. t \in Int /\ SumFunctionOnSet(V, S) = t - W[b] + V[b]
          BY <2>6, <4>3
        <5> HIDE DEF t
        <5>2. SumFunctionOnSet(V, S) = t + n
          BY <3>4, <4>1, <4>4, <5>1
        <5> QED BY <5>2 DEF t
      <4> QED BY <2>1, <2>4, <3>3, <3>6, <4>5
    <3>7. CASE b \notin S
      <4>1. \A c \in S : V[c] = W[c]
        BY <3>5, <3>7
      <4>2. SumFunctionOnSet(V, S) = SumFunctionOnSet(W, S)
        BY <2>2, <2>6, <4>1, SumSame
      <4> QED BY <2>1, <2>4, <3>3, <3>7, <4>2
    <3> QED BY <3>6, <3>7
  <2>9. CASE \A r \in 0..Depth : ~Rooted(p, a, r)
    <3>1. x.votes = d.votes
      BY <2>9 DEF Cast
    <3>2. ASSUME NEW c \in S
          PROVE  V[c] = W[c]
      <4>1. \A k \in 0..Depth : up[k] # c
        BY <2>7, <2>9
      <4> QED BY <1>9, <2>2, <2>3, <4>1
    <3>3. SumFunctionOnSet(V, S) = SumFunctionOnSet(W, S)
      BY <2>2, <2>6, <3>2, SumSame
    <3> QED BY <2>1, <2>4, <3>1, <3>3
  <2> QED BY <2>8, <2>9
<1>2. \A v \in x.voted : x.proxy[v[1]] = Self
  BY DEF Backing, Rebooked
<1> QED BY <1>1, <1>2 DEF Backing
-----------------------------------------------------------------------------
(* The invariant of the votes.                                             *)

\* What each account votes with.
Weights(d) == [b \in Account |-> Weight(d, b)]

\* What is proxied to each account is what follows it there.
Following(d) ==
    \A b \in Account, i \in 0..(Depth - 1) :
       d.proxied[b][i] = Support(d.vests, d.proxy, b, i + 1)

\* The number of votes of each account.
Counted(d) == \A a \in Account : d.votedFor[a] = Cardinality({v \in d.voted : v[1] = a})

\* null signs nothing: it has no proxy and votes for nobody.
Silent(d) == d.proxy[Null] = Self /\ \A w \in Witness : <<Null, w>> \notin d.voted

\* With the types, and no loop of proxies.
VotesRight(d) ==
    /\ VoteTypes(d) /\ Ends(d.proxy) /\ Following(d)
    /\ Backing(d, Weights(d)) /\ Counted(d) /\ Silent(d)

\* y is d but for money.
SameVotes(y, d) ==
    /\ DOMAIN y = DOMAIN d
    /\ y.proxy = d.proxy /\ y.proxied = d.proxied /\ y.voted = d.voted
    /\ y.votedFor = d.votedFor /\ y.votes = d.votes

\* Sums of the first levels are amounts.
LEMMA SumIntTo ==
  ASSUME NEW delta \in [0..Depth -> Int], NEW r \in 0..Depth
  PROVE  SumFunctionOnSet(delta, 0..(Depth - r)) \in Int
<1>1. Depth \in Nat
  BY VestingAssumption
<1> DEFINE J == 0..(Depth - r)
<1>2. J \in SUBSET (0..Depth)
  BY <1>1
<1>3. IsFiniteSet(J)
  BY <1>1, FS_Interval
<1>4. \A j \in J : delta[j] \in Int
  BY <1>2
<1> HIDE DEF J
<1>5. SumFunctionOnSet(delta, J) \in Int
  BY <1>3, <1>4, SumType
<1> QED BY <1>5 DEF J

\* Adjusting keeps the types.
LEMMA AdjustedTypes ==
  ASSUME NEW d, VoteTypes(d), Ends(d.proxy), NEW a \in Account, NEW delta \in [0..Depth -> Int]
  PROVE  VoteTypes(AdjustProxied(d, a, delta))
<1> DEFINE x == AdjustProxied(d, a, delta)
<1>1. Rebooked(x, d) /\ x.proxied = Booked(d, a, delta) /\ Cast(x, d, a, delta)
  BY Adjusted
<1> HIDE DEF x
<1>2. x.proxied \in ByDistance
  BY <1>1, BookedType
<1>3. x.votes \in [Witness -> Int]
  <2>1. CASE \E r \in 0..Depth : Rooted(d.proxy, a, r)
    <3>1. PICK r \in 0..Depth : Rooted(d.proxy, a, r)
      BY <2>1
    <3> DEFINE n == SumFunctionOnSet(delta, 0..(Depth - r))
    <3>2. n \in Int
      BY SumIntTo
    <3>3. x.votes = [w \in Witness |-> IF <<Up(d.proxy, a)[r], w>> \in d.voted
                                       THEN d.votes[w] + n ELSE d.votes[w]]
      BY <1>1, <3>1 DEF Cast
    <3> HIDE DEF n
    <3>4. d.votes \in [Witness -> Int]
      BY DEF VoteTypes
    <3> QED BY <3>2, <3>3, <3>4
  <2>2. CASE \A r \in 0..Depth : ~Rooted(d.proxy, a, r)
    BY <1>1, <2>2 DEF Cast, VoteTypes
  <2> QED BY <2>1, <2>2
<1>4. VoteTypes(x)
  BY <1>1, <1>2, <1>3 DEF VoteTypes, Rebooked
<1> QED BY <1>4 DEF x

\* A change of an account's own vests, with the call that follows it, keeps
\* the votes right.
LEMMA OwnVotesRight ==
  ASSUME NEW d, VotesRight(d), NEW a \in Account, NEW n \in Int,
         NEW y, SameVotes(y, d), y.vests = Credit(d.vests, a, n)
  PROVE  VotesRight(AdjustOwnVotes(y, a, n)) /\ Rebooked(AdjustOwnVotes(y, a, n), y)
<1> DEFINE p == d.proxy
           up == Up(p, a)
           x == AdjustOwnVotes(y, a, n)
<1>0. Depth \in Nat /\ Depth # 0 /\ 0 \in 0..Depth
  BY VestingAssumption
<1>1. VoteTypes(d) /\ Ends(p) /\ Following(d) /\ Backing(d, Weights(d)) /\ Counted(d) /\ Silent(d)
  BY DEF VotesRight
<1>2. p \in Proxying /\ d.vests \in [Account -> Int]
  BY <1>1 DEF VoteTypes
<1>3. y.vests \in [Account -> Int] /\ y.vests[a] = d.vests[a] + n /\ \A c \in Account \ {a} : y.vests[c] = d.vests[c]
  BY <1>2 DEF Credit
<1>4. VoteTypes(y) /\ y.proxy = p /\ y.proxied = d.proxied
  BY <1>1, <1>3 DEF SameVotes, VoteTypes
<1>5. PICK delta \in [0..Depth -> Int] : delta[0] = n /\ (\A i \in 1..Depth : delta[i] = 0) /\ x = AdjustProxied(y, a, delta)
  <2> DEFINE e == [i \in 0..Depth |-> IF i = 0 THEN n ELSE 0]
  <2>1. e \in [0..Depth -> Int] /\ e[0] = n /\ \A i \in 1..Depth : e[i] = 0
    BY <1>0
  <2>2. x = AdjustProxied(y, a, e)
    BY DEF AdjustOwnVotes
  <2> QED BY <2>1, <2>2
<1>6. x = AdjustProxied(y, a, delta)
  BY <1>5
<1> HIDE DEF x
<1>7. Rebooked(x, y) /\ x.proxied = Booked(y, a, delta) /\ Cast(x, y, a, delta) /\ VoteTypes(x)
  BY <1>1, <1>4, <1>5, <1>6, Adjusted, AdjustedTypes
<1>8. x.vests = y.vests /\ x.proxy = p /\ x.voted = d.voted /\ x.votedFor = d.votedFor
  BY <1>4, <1>7 DEF Rebooked, SameVotes
<1>9. \A k \in 0..Depth : up[0] = a /\ (up[k] = a => k = 0)
  <2> TAKE k \in 0..Depth
  <2>1. up[0] = a
    BY <1>2, UpSteps
  <2>2. ASSUME up[k] = a PROVE k = 0
    <3>1. up[k] = up[0] /\ up[k] # Self
      BY <2>1, <2>2, SelfNoAccount
    <3> QED BY <1>0, <1>1, <1>2, <3>1, UpOnce
  <2> QED BY <2>1, <2>2
<1>10. Following(x)
  <2>1. ASSUME NEW b \in Account, NEW i \in 0..(Depth - 1)
        PROVE  x.proxied[b][i] = Support(x.vests, x.proxy, b, i + 1)
    <3>1. x.proxied[b][i] = d.proxied[b][i] + Gain(up, delta, b, i)
      BY <1>1, <1>4, <1>5, <1>7, BookedType
    <3>2. d.proxied[b][i] = Support(d.vests, p, b, i + 1)
      BY <1>1 DEF Following
    <3>3. Support(y.vests, p, b, i + 1) = Support(d.vests, p, b, i + 1) + (IF up[i + 1] = b THEN n ELSE 0)
      <4>1. \A c \in Account : d.vests[c] \in Int
        BY <1>2
      <4>2. Raised(y.vests, d.vests, a, n)
        BY <1>3, <4>1 DEF Raised
      <4>3. Support(d.vests, p, b, i + 1) \in Int
        BY <4>1, SupportInt
      <4>4. CASE up[i + 1] = b
        <5>1. Support(y.vests, p, b, i + 1) = Support(d.vests, p, b, i + 1) + n
          BY <4>2, <4>4, SupportAdded
        <5> QED BY <4>4, <5>1
      <4>5. CASE up[i + 1] # b
        <5>1. Support(y.vests, p, b, i + 1) = Support(d.vests, p, b, i + 1)
          BY <4>2, <4>5, SupportAdded
        <5> QED BY <4>3, <4>5, <5>1
      <4> QED BY <4>4, <4>5
    <3>4. Gain(up, delta, b, i) = IF up[i + 1] = b THEN n ELSE 0
      <4>1. CASE \E k \in 1..(i + 1) : up[k] = b
        <5>1. PICK k \in 1..(i + 1) : up[k] = b
          BY <4>1
        <5>2. Gain(up, delta, b, i) = delta[i - k + 1]
          <6>1. p \in Proxying /\ Ends(p)
            BY <1>1, <1>2
          <6> HIDE DEF p
          <6> QED BY <5>1, <6>1, GainOf
        <5>3. CASE k = i + 1
          <6>1. i - k + 1 = 0
            BY <1>0, <5>3
          <6> QED BY <1>5, <5>1, <5>2, <5>3, <6>1
        <5>4. CASE k # i + 1
          <6>1. i - k + 1 \in 1..Depth /\ k \in 0..Depth /\ i + 1 \in 0..Depth
            BY <1>0, <5>1, <5>4
          <6>2. up[i + 1] # b
            <7> SUFFICES ASSUME up[i + 1] = b PROVE FALSE
              OBVIOUS
            <7>1. up[k] = up[i + 1] /\ up[k] # Self
              BY <5>1, SelfNoAccount
            <7> QED BY <1>1, <1>2, <5>4, <6>1, <7>1, UpOnce
          <6> QED BY <1>5, <5>2, <6>1, <6>2
        <5> QED BY <5>3, <5>4
      <4>2. CASE \A k \in 1..(i + 1) : up[k] # b
        <5>1. Gain(up, delta, b, i) = 0
          BY <1>1, <1>2, <1>5, <4>2, GainOf
        <5>2. i + 1 \in 1..(i + 1)
          BY <1>0
        <5> QED BY <4>2, <5>1, <5>2
      <4> QED BY <4>1, <4>2
    <3> QED BY <1>8, <3>1, <3>2, <3>3, <3>4
  <2> QED BY <2>1 DEF Following
<1>11. Backing(x, Weights(x))
  <2> DEFINE W == Weights(d)
             V == Weights(x)
  <2>1. W \in [Account -> Int] /\ V \in [Account -> Int]
    BY <1>1, <1>7, AllVotesSum DEF Weights
  <2>2. \A b \in Account : W[b] = d.vests[b] + SumFunction(d.proxied[b])
                           /\ V[b] = x.vests[b] + SumFunction(x.proxied[b])
    BY DEF Weights, Weight
  <2>3. Backing(y, W)
    <3>1. \A w \in Witness : Voters(y, w) = Voters(d, w)
      BY DEF SameVotes, Voters
    <3> QED BY <1>1, <3>1 DEF Backing, SameVotes
  <2> HIDE DEF W, V
  <2>4. ASSUME NEW r \in 0..Depth
        PROVE  SumFunctionOnSet(delta, 0..(Depth - r)) = n
    <3> DEFINE J == 0..(Depth - r)
    <3>1. 0 \in J /\ IsFiniteSet(J)
      BY <1>0, FS_Interval
    <3>2. \A j \in J \ {0} : j \in 1..Depth
      BY <1>0
    <3> HIDE DEF J
    <3>3. \A j \in J \ {0} : delta[j] = 0
      BY <1>5, <3>2
    <3>4. SumFunctionOnSet(delta, J) = delta[0]
      <4>1. delta[0] \in Int
        BY <1>5
      <4> QED BY <3>1, <3>3, <4>1, SumSingle, ZenonT(30)
    <3> QED BY <1>5, <3>4 DEF J
  <2>5. ASSUME NEW b \in Account
        PROVE  /\ \A r \in 0..Depth :
                    up[r] = b => V[b] = W[b] + SumFunctionOnSet(delta, 0..(Depth - r))
               /\ (\A r \in 0..Depth : up[r] # b) => V[b] = W[b]
    <3> DEFINE f == d.proxied[b]
               h == Booked(y, a, delta)[b]
    <3>1. /\ \A r \in 1..Depth : up[r] = b =>
                SumFunction(h) = SumFunction(f) + SumFunctionOnSet(delta, 0..(Depth - r))
          /\ (\A r \in 1..Depth : up[r] # b) => SumFunction(h) = SumFunction(f)
      BY <1>1, <1>4, <1>5, BookedSum
    <3>2. SumFunction(f) \in Int /\ d.vests[b] \in Int
      <4>1. d.proxied \in ByDistance
        BY <1>1 DEF VoteTypes
      <4>2. f \in [0..(Depth - 1) -> Int]
        BY <4>1 DEF ByDistance
      <4> HIDE DEF f
      <4> QED BY <1>2, <4>2, SumInDepth
    <3>3. W[b] = d.vests[b] + SumFunction(f) /\ V[b] = x.vests[b] + SumFunction(h)
      BY <1>7, <2>2
    <3> HIDE DEF f, h
    <3>4. ASSUME NEW r \in 0..Depth, up[r] = b
          PROVE  V[b] = W[b] + SumFunctionOnSet(delta, 0..(Depth - r))
      <4>1. CASE r = 0
        <5>1. b = a /\ \A s \in 1..Depth : up[s] # b
          BY <1>0, <1>9, <3>4, <4>1
        <5>2. SumFunction(h) = SumFunction(f) /\ x.vests[b] = d.vests[b] + n
          BY <1>3, <1>8, <3>1, <5>1
        <5> QED BY <2>4, <3>2, <3>3, <5>2
      <4>2. CASE r # 0
        <5>1. r \in 1..Depth /\ b # a
          BY <1>0, <1>9, <3>4, <4>2
        <5>2. SumFunction(h) = SumFunction(f) + SumFunctionOnSet(delta, 0..(Depth - r)) /\ x.vests[b] = d.vests[b]
          BY <1>3, <1>8, <3>1, <3>4, <5>1
        <5> QED BY <2>4, <3>2, <3>3, <5>2
      <4> QED BY <4>1, <4>2
    <3>5. ASSUME \A r \in 0..Depth : up[r] # b
          PROVE  V[b] = W[b]
      <4>1. b # a /\ \A r \in 1..Depth : up[r] # b
        BY <1>0, <1>9, <3>5
      <4> QED BY <1>3, <1>8, <3>1, <3>3, <4>1
    <3> QED BY <3>4, <3>5
  <2>6. Backing(x, V)
    <3>1. y.proxy = p
      BY <1>4
    <3>2. Weighed(V, W, y.proxy, a, delta)
      BY <2>1, <2>5, <3>1 DEF Weighed
    <3>3. VoteTypes(y)
      BY <1>4
    <3>4. Rebooked(x, y)
      BY <1>7
    <3>5. Cast(x, y, a, delta)
      BY <1>7
    <3> QED BY <2>3, <3>2, <3>3, <3>4, <3>5, CastRight
  <2> QED BY <2>6 DEF V
<1>12. Counted(x) /\ Silent(x)
  BY <1>1, <1>8 DEF Counted, Silent
<1>13. VotesRight(x)
  BY <1>1, <1>7, <1>8, <1>10, <1>11, <1>12 DEF VotesRight
<1> QED BY <1>7, <1>13 DEF x
-----------------------------------------------------------------------------
(* A change of proxy.                                                      *)

\* Giving a proxy up closes no loop.
LEMMA EndsAlone ==
  ASSUME NEW p \in Proxying, Ends(p), NEW a \in Account
  PROVE  Alone(p, a) \in Proxying /\ Ends(Alone(p, a))
<1>1. Alone(p, a) \in Proxying /\ Alone(p, a)[a] = Self /\ \A c \in Account \ {a} : Alone(p, a)[c] = p[c]
  BY DEF Alone, Proxying
<1>2. ASSUME NEW S \in SUBSET Account, S # {}
      PROVE  \E s \in S : Alone(p, a)[s] \notin S
  <2>1. CASE a \in S
    BY <1>1, <2>1, SelfNoAccount
  <2>2. CASE a \notin S
    <3>1. PICK s \in S : p[s] \notin S
      BY <1>2 DEF Ends
    <3>2. Alone(p, a)[s] = p[s]
      BY <1>1, <2>2, <3>1
    <3> QED BY <3>1, <3>2
  <2> QED BY <2>1, <2>2
<1> QED BY <1>1, <1>2 DEF Ends

\* Account a with q as its proxy.
Linked(p, a, q) == [p EXCEPT ![a] = q]

\* Setting a proxy changes one account.
LEMMA LinkedAlone ==
  ASSUME NEW p \in Proxying, NEW a \in Account, NEW q \in Account
  PROVE  /\ Linked(p, a, q) \in Proxying /\ Linked(p, a, q)[a] = q
         /\ \A c \in Account \ {a} : Linked(p, a, q)[c] = p[c]
         /\ Alone(Linked(p, a, q), a) = Alone(p, a)
BY DEF Linked, Alone, Proxying

\* The walk of account_witness_proxy_evaluator lets no loop be closed.
LEMMA EndsLinked ==
  ASSUME NEW d, d.proxy \in Proxying, Ends(d.proxy), NEW a \in Account, NEW q \in Account,
         q # a, ProxyAllowed(d, a, q)
  PROVE  Ends(Linked(d.proxy, a, q))
<1> DEFINE p == d.proxy
           l == Linked(p, a, q)
           up == Up(p, q)
<1>0. Depth \in Nat /\ Depth # 0
  BY VestingAssumption
<1>1. ProxyChain(d, q) = up
  BY UpIsChain
<1>2. PICK m \in 0..Depth : up[m] # Self /\ p[up[m]] = Self /\ \A j \in 0..m : up[j] # a
  <2>1. up[0] = q
    BY UpSteps
  <2>2. CASE p[q] = Self
    <3>1. 0 \in 0..Depth /\ \A j \in 0..0 : j = 0
      BY <1>0
    <3>2. q # Self
      BY SelfNoAccount
    <3> QED BY <2>1, <2>2, <3>1, <3>2
  <2>3. CASE p[q] # Self
    <3>1. PICK m \in 1..(Depth - 2) : up[m] # Self /\ p[up[m]] = Self /\ \A j \in 1..m : up[j] # a
      BY <1>1, <2>3 DEF ProxyAllowed
    <3>2. m \in 0..Depth /\ \A j \in 0..m : j = 0 \/ j \in 1..m
      BY <1>0
    <3> QED BY <2>1, <3>1, <3>2
  <2> QED BY <2>2, <2>3
<1>3. l[a] = q /\ \A c \in Account \ {a} : l[c] = p[c]
  BY LinkedAlone, ZenonT(30)
<1>4. /\ up[0] = q /\ \A k \in 0..Depth : up[k] \in Account \cup {Self}
      /\ \A j, k \in 0..Depth : k = j + 1 => up[k] = IF up[j] = Self THEN Self ELSE p[up[j]]
  <2>1. Walk(up, p, q)
    BY UpWalk
  <2> HIDE DEF p, l, up
  <2> QED BY <2>1 DEF Walk
<1> HIDE DEF l, up
<1>5. ASSUME NEW S \in SUBSET Account, S # {}
      PROVE  \E s \in S : l[s] \notin S
  <2>1. CASE a \notin S
    <3>1. PICK s \in S : p[s] \notin S
      BY <1>5 DEF Ends
    <3>2. l[s] = p[s]
      BY <1>3, <2>1, <3>1
    <3> QED BY <3>1, <3>2
  <2>2. CASE a \in S
    <3> SUFFICES ASSUME \A s \in S : l[s] \in S PROVE FALSE
      OBVIOUS
    <3> DEFINE F == {j \in 0..m : up[j] \notin S}
    <3>1. F = {}
      <4> SUFFICES ASSUME F # {} PROVE FALSE
        OBVIOUS
      <4>1. PICK k \in F : \A j \in F : k <= j
        <5>1. F \in SUBSET Nat
          OBVIOUS
        <5> HIDE DEF F
        <5> QED BY <5>1, LeastOf
      <4>2. k # 0
        BY <1>3, <1>4, <2>2, <4>1
      <4>3. k - 1 \in 0..m /\ k - 1 \in 0..Depth /\ k \in 0..Depth /\ k = (k - 1) + 1 /\ ~(k <= k - 1)
        BY <1>0, <4>1, <4>2
      <4>4. up[k - 1] \in S
        BY <4>1, <4>3
      <4>5. up[k] = p[up[k - 1]]
        BY <1>4, <4>3, <4>4, SelfNoAccount
      <4>6. up[k - 1] # a
        BY <1>2, <4>3
      <4>7. l[up[k - 1]] = p[up[k - 1]]
        BY <1>3, <4>4, <4>6
      <4> QED BY <4>1, <4>4, <4>5, <4>7
    <3>2. m \in 0..m
      BY <1>0, <1>2
    <3>3. up[m] \in S /\ up[m] # a
      BY <1>2, <3>1, <3>2
    <3>4. l[up[m]] = Self
      BY <1>2, <1>3, <3>3
    <3> QED BY <3>3, <3>4, SelfNoAccount
  <2> QED BY <2>1, <2>2
<1> QED BY <1>5 DEF Ends, l

\* What an account votes with is what follows it, by distance.
LEMMA AllVotesFollow ==
  ASSUME NEW d, VotesRight(d), NEW a \in Account
  PROVE  /\ AllVotes(d, a) \in [0..Depth -> Int]
         /\ \A j \in 0..Depth : AllVotes(d, a)[j] = Support(d.vests, d.proxy, a, j)
<1> DEFINE p == d.proxy
<1>0. Depth \in Nat /\ Depth # 0
  BY VestingAssumption
<1>1. VoteTypes(d) /\ Following(d) /\ p \in Proxying /\ d.vests \in [Account -> Int]
  BY DEF VotesRight, VoteTypes
<1>2. ASSUME NEW j \in 0..Depth
      PROVE  AllVotes(d, a)[j] = Support(d.vests, p, a, j)
  <2>1. CASE j = 0
    <3>1. \A c \in Account : Up(p, c)[0] = c
      BY <1>1, UpSteps
    <3>2. Below(p, a, j) = {a}
      BY <2>1, <3>1 DEF Below
    <3> DEFINE S == {a}
    <3>3. IsFiniteSet(S) /\ a \in S /\ \A x \in S \ {a} : d.vests[x] = 0
      BY FS_Singleton
    <3>4. d.vests[a] \in Int
      BY <1>1
    <3> HIDE DEF S
    <3>5. SumFunctionOnSet(d.vests, S) = d.vests[a]
      BY <3>3, <3>4, SumSingle
    <3> QED BY <2>1, <3>2, <3>5 DEF Support, AllVotes, S
  <2>2. CASE j # 0
    <3>1. j - 1 \in 0..(Depth - 1) /\ (j - 1) + 1 = j
      BY <1>0, <2>2
    <3>2. AllVotes(d, a)[j] = d.proxied[a][j - 1]
      BY <2>2 DEF AllVotes
    <3>3. d.proxied[a][j - 1] = Support(d.vests, p, a, (j - 1) + 1)
      BY <1>1, <3>1 DEF Following
    <3> QED BY <3>1, <3>2, <3>3
  <2> QED BY <2>1, <2>2
<1> QED BY <1>1, <1>2, AllVotesSum
\* What is proxied when a's votes have been taken: what there is without the
\* proxy of a.
Apart(t, v, p, a) ==
    \A b \in Account, i \in 0..(Depth - 1) : t.proxied[b][i] = Support(v, Alone(p, a), b, i + 1)

\* The weights without a's.
Rest(t, a) == [b \in Account |-> IF b = a THEN 0 ELSE Weight(t, b)]

\* What depends on a is what comes over its chain.
LEMMA ApartGains ==
  ASSUME NEW p \in Proxying, Ends(p), NEW a \in Account, NEW v \in [Account -> Int],
         NEW delta \in [0..Depth -> Int], \A j \in 0..Depth : delta[j] = Support(v, p, a, j),
         NEW b \in Account, NEW i \in 0..(Depth - 1)
  PROVE  Support(v, p, b, i + 1) = Support(v, Alone(p, a), b, i + 1) + Gain(Up(p, a), delta, b, i)
<1>1. \A c \in Account : v[c] \in Int
  OBVIOUS
<1> QED BY <1>1, SupportCut, ZenonT(60)

\* Its votes taken from all they are cast for, an account votes with nothing.
LEMMA TakenRight ==
  ASSUME NEW d, VotesRight(d), NEW a \in Account,
         NEW t, t = AdjustProxied(d, a, Negated(AllVotes(d, a)))
  PROVE  /\ VoteTypes(t) /\ Rebooked(t, d)
         /\ Apart(t, d.vests, d.proxy, a) /\ Backing(t, Rest(t, a))
<1>0. Depth \in Nat /\ Depth # 0
  BY VestingAssumption
<1> DEFINE p == d.proxy
           up == Up(p, a)
<1>1. VoteTypes(d) /\ Ends(p) /\ Following(d) /\ Backing(d, Weights(d)) /\ p \in Proxying
  BY DEF VotesRight, VoteTypes
<1>2. PICK delta \in [0..Depth -> Int] :
         delta = AllVotes(d, a) /\ \A j \in 0..Depth : delta[j] = Support(d.vests, p, a, j)
  BY AllVotesFollow
<1>3. SumFunctionOnSet(delta, 0..Depth) = Weight(d, a) /\ Weight(d, a) \in Int
  BY <1>1, <1>2, AllVotesSum
<1>4. PICK e \in [0..Depth -> Int] : e = Negated(delta)
  <2>1. 0 \in 0..Depth
    BY <1>0
  <2> QED BY <2>1, NegatedSum
<1>5. \A j \in 0..Depth : e[j] = -delta[j]
  BY <1>4 DEF Negated
<1>6. t = AdjustProxied(d, a, e)
  BY <1>2, <1>4
<1>7. Rebooked(t, d) /\ t.proxied = Booked(d, a, e) /\ Cast(t, d, a, e) /\ VoteTypes(t)
  BY <1>1, <1>6, Adjusted, AdjustedTypes
<1>8. Apart(t, d.vests, p, a)
  <2>1. ASSUME NEW b \in Account, NEW i \in 0..(Depth - 1)
        PROVE  t.proxied[b][i] = Support(d.vests, Alone(p, a), b, i + 1)
    <3> DEFINE x == Support(d.vests, p, b, i + 1)
               y == Support(d.vests, Alone(p, a), b, i + 1)
               g == Gain(up, delta, b, i)
               h == Gain(up, e, b, i)
    <3>1. t.proxied[b][i] = d.proxied[b][i] + h
      BY <1>1, <1>7, BookedType
    <3>2. d.proxied[b][i] = x
      BY <1>1 DEF Following
    <3>3. d.vests \in [Account -> Int]
      BY <1>1 DEF VoteTypes
    <3>4. x = y + g
      <4>1. p \in Proxying /\ Ends(p)
        BY <1>1
      <4>2. \A j \in 0..Depth : delta[j] = Support(d.vests, p, a, j)
        BY <1>2
      <4> HIDE DEF p
      <4> QED BY <3>3, <4>1, <4>2, ApartGains, ZenonT(30)
    <3>5. h + g = 0
      BY <1>1, <1>5, GainNegated
    <3>6. g \in Int /\ h \in Int
      BY <1>1, GainInt
    <3>7. y \in Int
      <4>1. \A c \in Account : d.vests[c] \in Int
        BY <3>3
      <4> QED BY <4>1, SupportInt
    <3> HIDE DEF x, y, g, h
    <3> QED BY <3>1, <3>2, <3>4, <3>5, <3>6, <3>7 DEF y
  <2> QED BY <2>1 DEF Apart
<1>9. Backing(t, Rest(t, a))
  <2> DEFINE W == Weights(d)
             V == Rest(t, a)
  <2>1. W \in [Account -> Int] /\ \A b \in Account : W[b] = Weight(d, b)
    BY <1>1, AllVotesSum DEF Weights
  <2>2. V \in [Account -> Int] /\ V[a] = 0 /\ \A b \in Account \ {a} : V[b] = Weight(t, b)
    BY <1>7, AllVotesSum DEF Rest
  <2>3. \A b \in Account : W[b] = d.vests[b] + SumFunction(d.proxied[b])
    BY <2>1 DEF Weight
  <2>4. \A b \in Account \ {a} : V[b] = d.vests[b] + SumFunction(Booked(d, a, e)[b])
    BY <1>7, <2>2 DEF Weight, Rebooked
  <2> HIDE DEF W, V
  <2>5. ASSUME NEW b \in Account, p[b] = Self
        PROVE  /\ \A r \in 0..Depth : up[r] = b => V[b] = W[b] + SumFunctionOnSet(e, 0..(Depth - r))
               /\ (\A r \in 0..Depth : up[r] # b) => V[b] = W[b]
    <3>1. up[0] = a /\ 0 \in 0..Depth
      BY <1>0, <1>1, UpSteps
    <3>2. CASE b = a
      <4>1. \A r \in 0..Depth : up[r] = b => r = 0
        <5> SUFFICES ASSUME NEW r \in 0..Depth, up[r] = b PROVE r = 0
          OBVIOUS
        <5>1. up[r] = up[0] /\ up[r] # Self
          BY <3>1, <3>2, SelfNoAccount
        <5> QED BY <1>1, <3>1, <5>1, UpOnce
      <4>2. SumFunctionOnSet(e, 0..Depth) = -Weight(d, a)
        <5>1. Depth \in 0..Depth
          BY <1>0
        <5>2. SumFunctionOnSet(e, 0..Depth) = -SumFunctionOnSet(delta, 0..Depth)
          BY <1>4, <5>1, NegatedSum
        <5> QED BY <1>3, <5>2
      <4>3. V[b] = 0 /\ W[b] = Weight(d, a)
        BY <2>1, <2>2, <3>2
      <4>4. V[b] = W[b] + SumFunctionOnSet(e, 0..Depth)
        <5> DEFINE n == Weight(d, a)
        <5>1. n \in Int /\ SumFunctionOnSet(e, 0..Depth) = -n /\ V[b] = 0 /\ W[b] = n
          BY <1>3, <4>2, <4>3
        <5> HIDE DEF n
        <5> QED BY <5>1
      <4>5. Depth - 0 = Depth
        BY <1>0
      <4> QED BY <3>1, <3>2, <4>1, <4>4, <4>5
    <3>3. CASE b # a
      <4> DEFINE f == d.proxied[b]
                 h == Booked(d, a, e)[b]
      <4>1. /\ \A r \in 1..Depth : up[r] = b =>
                  SumFunction(h) = SumFunction(f) + SumFunctionOnSet(e, 0..(Depth - r))
            /\ (\A r \in 1..Depth : up[r] # b) => SumFunction(h) = SumFunction(f)
        BY <1>1, BookedSum
      <4>2. W[b] = d.vests[b] + SumFunction(f) /\ V[b] = d.vests[b] + SumFunction(h)
        BY <2>3, <2>4, <3>3
      <4>3. SumFunction(f) \in Int /\ d.vests[b] \in Int
        <5>1. d.proxied \in ByDistance /\ d.vests \in [Account -> Int]
          BY <1>1 DEF VoteTypes
        <5>2. f \in [0..(Depth - 1) -> Int]
          BY <5>1 DEF ByDistance
        <5> HIDE DEF f
        <5> QED BY <5>1, <5>2, SumInDepth
      <4> HIDE DEF f, h
      <4>4. ASSUME NEW r \in 0..Depth, up[r] = b
            PROVE  V[b] = W[b] + SumFunctionOnSet(e, 0..(Depth - r))
        <5>1. r \in 1..Depth
          BY <1>0, <3>1, <3>3, <4>4
        <5>2. SumFunctionOnSet(e, 0..(Depth - r)) \in Int
          BY SumIntTo
        <5>3. SumFunction(h) = SumFunction(f) + SumFunctionOnSet(e, 0..(Depth - r))
          BY <4>1, <4>4, <5>1
        <5> QED BY <4>2, <4>3, <5>2, <5>3
      <4>5. ASSUME \A r \in 0..Depth : up[r] # b
            PROVE  V[b] = W[b]
        <5>1. \A r \in 1..Depth : up[r] # b
          BY <1>0, <4>5
        <5> QED BY <4>1, <4>2, <5>1
      <4> QED BY <4>4, <4>5
    <3> QED BY <3>2, <3>3
  <2>6. Weighed(V, W, d.proxy, a, e)
    BY <2>1, <2>2, <2>5 DEF Weighed
  <2>7. Backing(d, W)
    BY <1>1 DEF W
  <2>8. Backing(t, V)
    BY <1>1, <1>7, <2>6, <2>7, CastRight
  <2> QED BY <2>8 DEF V
<1> QED BY <1>7, <1>8, <1>9
\* Only some columns: x is t but for the proxies.
Reproxied(x, t, p) ==
    /\ DOMAIN x = DOMAIN t
    /\ x.vests = t.vests /\ x.proxied = t.proxied /\ x.votes = t.votes
    /\ x.routes = t.routes /\ x.next = t.next
    /\ x.proxy = p

\* The voters are finitely many accounts.
LEMMA VotersFinite ==
  ASSUME NEW d, NEW w
  PROVE  Voters(d, w) \in SUBSET Account /\ IsFiniteSet(Voters(d, w))
BY VestingAssumption, FS_Subset DEF Voters

\* account_witness_proxy to nobody.
LEMMA ProxyOffRight ==
  ASSUME NEW d, VotesRight(d), NEW a \in Account, a # Null, d.proxy[a] # Self,
         NEW t, t = AdjustProxied(d, a, Negated(AllVotes(d, a))),
         NEW x, x = [t EXCEPT !.proxy[a] = Self]
  PROVE  VotesRight(x)
<1> DEFINE p == d.proxy
           q == Alone(p, a)
<1>1. VoteTypes(d) /\ Ends(p) /\ Counted(d) /\ Silent(d) /\ Backing(d, Weights(d)) /\ p \in Proxying
  BY DEF VotesRight, VoteTypes
<1>2. VoteTypes(t) /\ Rebooked(t, d) /\ Apart(t, d.vests, p, a) /\ Backing(t, Rest(t, a))
  BY TakenRight
<1>3. Reproxied(x, t, q) /\ x.voted = t.voted /\ x.votedFor = t.votedFor
  <2>1. Columns \subseteq DOMAIN t
    BY <1>2 DEF VoteTypes
  <2>2. "proxy" \in DOMAIN t
    BY <2>1 DEF Columns
  <2>3. DOMAIN x = DOMAIN t /\ x.proxy = [t.proxy EXCEPT ![a] = Self]
    BY <2>2
  <2>4. t.proxy = p
    BY <1>2 DEF Rebooked
  <2> QED BY <2>1, <2>3, <2>4 DEF Columns, Reproxied, Alone
<1>4. q \in Proxying /\ Ends(q) /\ q[a] = Self /\ \A c \in Account \ {a} : q[c] = p[c]
  BY <1>1, EndsAlone DEF Alone, Proxying
<1>5. VoteTypes(x)
  BY <1>2, <1>3, <1>4 DEF VoteTypes, Reproxied
<1>6. Following(x)
  BY <1>2, <1>3 DEF Following, Apart, Reproxied, Rebooked
<1>7. \A v \in d.voted : p[v[1]] = Self /\ v[1] \in Account /\ v[1] # a
  BY <1>1 DEF Backing, VoteTypes
<1>8. Backing(x, Weights(x))
  <2> DEFINE W == Rest(t, a)
             V == [Weights(x) EXCEPT ![a] = 0]
  <2>1. \A b \in Account : Weight(x, b) = Weight(t, b) /\ Weight(t, b) \in Int
    BY <1>2, <1>3, AllVotesSum DEF Weight, Reproxied
  <2>2. W \in [Account -> Int] /\ \A b \in Account \ {a} : Weights(x)[b] = W[b]
    BY <2>1 DEF Rest, Weights
  <2> HIDE DEF W
  <2>3. ASSUME NEW w \in Witness
        PROVE  x.votes[w] = SumFunctionOnSet(Weights(x), Voters(x, w))
    <3> DEFINE S == Voters(t, w)
    <3>1. Voters(x, w) = S /\ x.votes = t.votes
      BY <1>3 DEF Voters, Reproxied
    <3>2. S \in SUBSET Account /\ IsFiniteSet(S)
      BY VotersFinite
    <3>3. a \notin S
      BY <1>2, <1>7 DEF Voters, Rebooked
    <3>4. t.votes[w] = SumFunctionOnSet(W, S)
      BY <1>2 DEF Backing, W
    <3> HIDE DEF S
    <3>5. (\A c \in S : W[c] \in Int) /\ \A c \in S : Weights(x)[c] = W[c]
      BY <2>2, <3>2, <3>3
    <3>6. SumFunctionOnSet(Weights(x), S) = SumFunctionOnSet(W, S)
      BY <3>2, <3>5, SumSame
    <3> QED BY <3>1, <3>4, <3>6
  <2>4. ASSUME NEW v \in x.voted
        PROVE  x.proxy[v[1]] = Self
    <3>1. v \in d.voted
      BY <1>2, <1>3 DEF Rebooked
    <3>2. x.proxy = q
      BY <1>3 DEF Reproxied
    <3> QED BY <1>4, <1>7, <3>1, <3>2
  <2> QED BY <2>3, <2>4 DEF Backing
<1>9. Counted(x) /\ Silent(x)
  <2>1. Null \in Account
    BY VestingAssumption
  <2>2. x.voted = d.voted /\ x.votedFor = d.votedFor /\ x.proxy[Null] = p[Null]
    BY <1>2, <1>3, <1>4, <2>1 DEF Rebooked, Reproxied
  <2> QED BY <1>1, <2>2 DEF Counted, Silent
<1>10. Ends(x.proxy)
  BY <1>3, <1>4 DEF Reproxied
<1> QED BY <1>5, <1>6, <1>8, <1>9, <1>10 DEF VotesRight
Moved(t, a, q) == [ClearWitnessVotes(t, a) EXCEPT !.proxy[a] = q]

\* The votes move with the proxy: what they were taken from has lost them, and
\* a itself votes no more.
LEMMA MovedRight ==
  ASSUME NEW d, VotesRight(d), NEW a \in Account, a # Null, NEW q \in Account,
         NEW t, t = AdjustProxied(d, a, Negated(AllVotes(d, a))),
         NEW m, m = Moved(t, a, q)
  PROVE  /\ VoteTypes(m) /\ m.vests = d.vests /\ m.proxy = Linked(d.proxy, a, q)
         /\ Apart(m, d.vests, d.proxy, a) /\ Backing(m, Rest(m, a)) /\ Counted(m) /\ Silent(m)
         /\ m.routes = d.routes /\ m.next = d.next /\ DOMAIN m = DOMAIN d
<1> DEFINE p == d.proxy
           l == Linked(p, a, q)
<1>1. VoteTypes(d) /\ Counted(d) /\ Silent(d) /\ Backing(d, Weights(d)) /\ p \in Proxying
  BY DEF VotesRight, VoteTypes
<1>2. VoteTypes(t) /\ Rebooked(t, d) /\ Apart(t, d.vests, p, a) /\ Backing(t, Rest(t, a))
  BY TakenRight
<1>3. /\ Reproxied(m, t, l)
      /\ m.voted = {v \in d.voted : v[1] # a} /\ m.votedFor = [d.votedFor EXCEPT ![a] = 0]
  <2> DEFINE c == ClearWitnessVotes(t, a)
  <2>1. Columns \subseteq DOMAIN t
    BY <1>2 DEF VoteTypes
  <2>2. DOMAIN c = DOMAIN t /\ c.voted = {v \in t.voted : v[1] # a} /\ c.votedFor = [t.votedFor EXCEPT ![a] = 0]
        /\ c.vests = t.vests /\ c.proxied = t.proxied /\ c.votes = t.votes
        /\ c.routes = t.routes /\ c.next = t.next /\ c.proxy = t.proxy
    BY <2>1 DEF Columns, ClearWitnessVotes
  <2> HIDE DEF c
  <2>3. DOMAIN m = DOMAIN c /\ m.proxy = [c.proxy EXCEPT ![a] = q]
        /\ m.voted = c.voted /\ m.votedFor = c.votedFor
        /\ m.vests = c.vests /\ m.proxied = c.proxied /\ m.votes = c.votes
        /\ m.routes = c.routes /\ m.next = c.next
    BY <2>1, <2>2 DEF Columns, c, Moved
  <2> QED BY <1>2, <2>2, <2>3 DEF Reproxied, Rebooked, Linked
<1>4. l \in Proxying /\ l[a] = q /\ \A c \in Account \ {a} : l[c] = p[c]
  BY <1>1, LinkedAlone, ZenonT(40)
<1>5. VoteTypes(m)
  BY <1>1, <1>2, <1>3, <1>4 DEF VoteTypes, Reproxied, Rebooked
<1>6. Apart(m, d.vests, p, a)
  BY <1>2, <1>3 DEF Apart, Reproxied
<1>7. \A v \in d.voted : p[v[1]] = Self /\ v[1] \in Account
  BY <1>1 DEF Backing, VoteTypes
<1>8. Backing(m, Rest(m, a))
  <2> DEFINE V == Rest(m, a)
  <2>1. V = Rest(t, a)
    BY <1>3 DEF Rest, Weight, Reproxied
  <2>2. V \in [Account -> Int] /\ V[a] = 0
    BY <1>5, AllVotesSum DEF Rest
  <2> HIDE DEF V
  <2>3. ASSUME NEW w \in Witness
        PROVE  m.votes[w] = SumFunctionOnSet(V, Voters(m, w))
    <3> DEFINE S == Voters(t, w)
               T == Voters(m, w)
    <3>1. S \in SUBSET Account /\ IsFiniteSet(S)
      BY VotersFinite
    <3>2. T = S \ {a}
      BY <1>2, <1>3 DEF Voters, Rebooked
    <3>3. t.votes[w] = SumFunctionOnSet(V, S) /\ m.votes = t.votes
      BY <1>2, <1>3, <2>1 DEF Backing, Reproxied
    <3> HIDE DEF S, T
    <3>4. \A c \in S : V[c] \in Int
      BY <2>2, <3>1
    <3>5. SumFunctionOnSet(V, S) = SumFunctionOnSet(V, T)
      <4>1. CASE a \in S
        <5>1. SumFunctionOnSet(V, S) = SumFunctionOnSet(V, S \ {a}) + V[a]
          BY <3>1, <3>4, <4>1, SumAdd
        <5>2. SumFunctionOnSet(V, T) \in Int
          <6>1. IsFiniteSet(T) /\ \A c \in T : V[c] \in Int
            BY <3>1, <3>2, <3>4, FS_Subset
          <6> QED BY <6>1, SumType
        <5> QED BY <2>2, <3>2, <5>1, <5>2
      <4>2. CASE a \notin S
        <5>1. T = S
          BY <3>2, <4>2
        <5> QED BY <5>1
      <4> QED BY <4>1, <4>2
    <3> QED BY <3>3, <3>5 DEF T
  <2>4. ASSUME NEW v \in m.voted
        PROVE  m.proxy[v[1]] = Self
    <3>1. v \in d.voted /\ v[1] # a /\ m.proxy = l
      BY <1>3 DEF Reproxied
    <3> QED BY <1>4, <1>7, <3>1
  <2> QED BY <2>3, <2>4 DEF Backing, V
<1>9. Counted(m)
  <2>1. ASSUME NEW b \in Account
        PROVE  m.votedFor[b] = Cardinality({v \in m.voted : v[1] = b})
    <3>1. d.votedFor \in [Account -> Int]
      BY <1>1 DEF VoteTypes
    <3>2. CASE b = a
      <4>1. {v \in m.voted : v[1] = b} = {}
        BY <1>3, <3>2
      <4>2. m.votedFor[b] = 0
        BY <1>3, <3>1, <3>2
      <4> QED BY <4>1, <4>2, FS_EmptySet
    <3>3. CASE b # a
      <4>1. {v \in m.voted : v[1] = b} = {v \in d.voted : v[1] = b}
        BY <1>3, <3>3
      <4>2. m.votedFor[b] = d.votedFor[b]
        BY <1>3, <3>1, <3>3
      <4> QED BY <1>1, <4>1, <4>2 DEF Counted
    <3> QED BY <3>2, <3>3
  <2> QED BY <2>1 DEF Counted
<1>10. Silent(m)
  <2>1. Null \in Account
    BY VestingAssumption
  <2>2. m.proxy[Null] = p[Null] /\ \A v \in m.voted : v \in d.voted
    BY <1>3, <1>4, <2>1 DEF Reproxied
  <2> QED BY <1>1, <2>2 DEF Silent
<1> QED BY <1>2, <1>3, <1>5, <1>6, <1>8, <1>9, <1>10 DEF Reproxied, Rebooked

\* account_witness_proxy to an account that the walk allows.
LEMMA ProxyToRight ==
  ASSUME NEW d, VotesRight(d), NEW a \in Account, a # Null, NEW q \in Account, q # a,
         NEW t, t = AdjustProxied(d, a, Negated(AllVotes(d, a))), ProxyAllowed(t, a, q),
         NEW m, m = Moved(t, a, q)
  PROVE  VotesRight(AdjustProxied(m, a, AllVotes(d, a)))
<1>0. Depth \in Nat /\ Depth # 0
  BY VestingAssumption
<1>1. Ends(d.proxy) /\ d.proxy \in Proxying /\ d.vests \in [Account -> Int] /\ VoteTypes(d)
  BY DEF VotesRight, VoteTypes
<1>2. PICK l : l = Linked(d.proxy, a, q)
  OBVIOUS
<1>3. Ends(l)
  <2>1. Rebooked(t, d) /\ t.proxy = d.proxy
    BY TakenRight DEF Rebooked
  <2>2. t.proxy \in Proxying /\ Ends(t.proxy)
    BY <1>1, <2>1
  <2>3. Ends(Linked(t.proxy, a, q))
    BY <2>2, EndsLinked
  <2> QED BY <1>2, <2>1, <2>3
<1>4. l \in Proxying /\ l[a] = q /\ Alone(l, a) = Alone(d.proxy, a)
  BY <1>1, <1>2, LinkedAlone
<1>5. /\ VoteTypes(m) /\ m.vests = d.vests /\ m.proxy = l /\ Apart(m, d.vests, d.proxy, a)
      /\ Backing(m, Rest(m, a)) /\ Counted(m) /\ Silent(m)
  <2>1. m.proxy = Linked(d.proxy, a, q)
    BY MovedRight
  <2>2. VoteTypes(m) /\ m.vests = d.vests /\ Apart(m, d.vests, d.proxy, a)
    BY MovedRight
  <2>3. Backing(m, Rest(m, a)) /\ Counted(m) /\ Silent(m)
    BY MovedRight
  <2> QED BY <1>2, <2>1, <2>2, <2>3
<1>6. PICK delta \in [0..Depth -> Int] :
         delta = AllVotes(d, a) /\ \A j \in 0..Depth : delta[j] = Support(d.vests, d.proxy, a, j)
  BY AllVotesFollow
<1>7. \A j \in 0..Depth : delta[j] = Support(d.vests, l, a, j)
  <2> TAKE j \in 0..Depth
  <2>1. Below(Alone(d.proxy, a), a, j) = Below(d.proxy, a, j)
    BY <1>1, BelowStays
  <2>2. Below(Alone(l, a), a, j) = Below(l, a, j)
    BY <1>3, <1>4, BelowStays
  <2>3. Below(l, a, j) = Below(d.proxy, a, j)
    BY <1>4, <2>1, <2>2
  <2> QED BY <1>6, <2>3 DEF Support
<1>8. PICK x : x = AdjustProxied(m, a, delta)
  OBVIOUS
<1>9. Rebooked(x, m) /\ x.proxied = Booked(m, a, delta) /\ Cast(x, m, a, delta) /\ VoteTypes(x)
  BY <1>3, <1>5, <1>8, Adjusted, AdjustedTypes
<1>10. Following(x)
  <2>1. ASSUME NEW b \in Account, NEW i \in 0..(Depth - 1)
        PROVE  x.proxied[b][i] = Support(x.vests, x.proxy, b, i + 1)
    <3>1. x.proxied[b][i] = m.proxied[b][i] + Gain(Up(l, a), delta, b, i)
      <4>1. VoteTypes(m) /\ Ends(m.proxy)
        BY <1>3, <1>5
      <4>2. Booked(m, a, delta)[b][i] = m.proxied[b][i] + Gain(Up(m.proxy, a), delta, b, i)
        BY <4>1, BookedType
      <4> QED BY <1>5, <1>9, <4>2
    <3>2. m.proxied[b][i] = Support(d.vests, Alone(d.proxy, a), b, i + 1)
      BY <1>5 DEF Apart
    <3>3. Support(d.vests, l, b, i + 1) = Support(d.vests, Alone(l, a), b, i + 1) + Gain(Up(l, a), delta, b, i)
      <4>1. d.vests \in [Account -> Int]
        BY <1>1
      <4>2. l \in Proxying
        BY <1>4
      <4> QED BY <1>3, <1>7, <4>1, <4>2, ApartGains, ZenonT(30)
    <3>4. x.vests = d.vests /\ x.proxy = l
      BY <1>5, <1>9 DEF Rebooked
    <3> QED BY <1>4, <3>1, <3>2, <3>3, <3>4
  <2> QED BY <2>1 DEF Following
<1>11. Backing(x, Weights(x))
  <2> DEFINE W == Rest(m, a)
             V == Weights(x)
             up == Up(l, a)
  <2>1. W \in [Account -> Int] /\ \A b \in Account \ {a} : W[b] = Weight(m, b)
    BY <1>5, AllVotesSum DEF Rest
  <2>2. V \in [Account -> Int] /\ \A b \in Account : V[b] = Weight(x, b)
    BY <1>9, AllVotesSum DEF Weights
  <2>3. \A b \in Account \ {a} : W[b] = m.vests[b] + SumFunction(m.proxied[b])
    BY <2>1 DEF Weight
  <2>4. \A b \in Account : V[b] = m.vests[b] + SumFunction(Booked(m, a, delta)[b])
    BY <1>9, <2>2 DEF Weight, Rebooked
  <2> HIDE DEF W, V
  <2>5. ASSUME NEW b \in Account, l[b] = Self
        PROVE  /\ \A r \in 0..Depth : up[r] = b => V[b] = W[b] + SumFunctionOnSet(delta, 0..(Depth - r))
               /\ (\A r \in 0..Depth : up[r] # b) => V[b] = W[b]
    <3>1. up[0] = a /\ 0 \in 0..Depth /\ b # a
      BY <1>0, <1>4, <2>5, UpSteps, SelfNoAccount
    <3> DEFINE f == m.proxied[b]
               h == Booked(m, a, delta)[b]
    <3>2. /\ \A r \in 1..Depth : up[r] = b =>
                SumFunction(h) = SumFunction(f) + SumFunctionOnSet(delta, 0..(Depth - r))
          /\ (\A r \in 1..Depth : up[r] # b) => SumFunction(h) = SumFunction(f)
      <4>1. VoteTypes(m) /\ Ends(m.proxy) /\ up = Up(m.proxy, a)
        BY <1>3, <1>5
      <4> HIDE DEF up
      <4>2. /\ \A r \in 1..Depth : Up(m.proxy, a)[r] = b =>
                  SumFunction(h) = SumFunction(f) + SumFunctionOnSet(delta, 0..(Depth - r))
            /\ (\A r \in 1..Depth : Up(m.proxy, a)[r] # b) => SumFunction(h) = SumFunction(f)
        BY <4>1, BookedSum
      <4> QED BY <4>1, <4>2
    <3>3. W[b] = m.vests[b] + SumFunction(f) /\ V[b] = m.vests[b] + SumFunction(h)
      BY <2>3, <2>4, <3>1
    <3>4. SumFunction(f) \in Int /\ m.vests[b] \in Int
      <4>1. m.proxied \in ByDistance /\ m.vests \in [Account -> Int]
        BY <1>5 DEF VoteTypes
      <4>2. f \in [0..(Depth - 1) -> Int]
        BY <4>1 DEF ByDistance
      <4> HIDE DEF f
      <4> QED BY <4>1, <4>2, SumInDepth
    <3> HIDE DEF f, h
    <3>5. ASSUME NEW r \in 0..Depth, up[r] = b
          PROVE  V[b] = W[b] + SumFunctionOnSet(delta, 0..(Depth - r))
      <4>1. r \in 1..Depth
        BY <1>0, <3>1, <3>5
      <4>2. SumFunctionOnSet(delta, 0..(Depth - r)) \in Int
        BY SumIntTo
      <4>3. SumFunction(h) = SumFunction(f) + SumFunctionOnSet(delta, 0..(Depth - r))
        BY <3>2, <3>5, <4>1
      <4> QED BY <3>3, <3>4, <4>2, <4>3
    <3>6. ASSUME \A r \in 0..Depth : up[r] # b
          PROVE  V[b] = W[b]
      <4>1. \A r \in 1..Depth : up[r] # b
        BY <1>0, <3>6
      <4> QED BY <3>2, <3>3, <4>1
    <3> QED BY <3>5, <3>6
  <2>6. Weighed(V, W, m.proxy, a, delta)
    BY <1>5, <2>1, <2>2, <2>5 DEF Weighed
  <2>7. Backing(m, W)
    BY <1>5 DEF W
  <2>8. Backing(x, V)
    BY <1>5, <1>9, <2>6, <2>7, CastRight
  <2> QED BY <2>8 DEF V
<1>12. Counted(x) /\ Silent(x) /\ Ends(x.proxy)
  BY <1>3, <1>5, <1>9 DEF Counted, Silent, Rebooked
<1> QED BY <1>6, <1>8, <1>9, <1>10, <1>11, <1>12 DEF VotesRight
-----------------------------------------------------------------------------
(* Votes for witnesses.                                                    *)

\* An account votes for finitely many witnesses.
LEMMA BallotsFinite ==
  ASSUME NEW d, VoteTypes(d), NEW a
  PROVE  IsFiniteSet({v \in d.voted : v[1] = a}) /\ Cardinality({v \in d.voted : v[1] = a}) \in Nat
<1>1. IsFiniteSet(Account) /\ IsFiniteSet(Witness)
  BY VestingAssumption, FS_Subset
<1>2. IsFiniteSet(Account \X Witness)
  BY <1>1, FS_Product
<1>3. {v \in d.voted : v[1] = a} \in SUBSET (Account \X Witness)
  BY DEF VoteTypes
<1>4. IsFiniteSet({v \in d.voted : v[1] = a})
  BY <1>2, <1>3, FS_Subset
<1> QED BY <1>4, FS_CardinalityType

\* x is d but for the ballots, n of a, and the votes k of w.
Balloted(x, d, s, a, n, w, k) ==
    /\ DOMAIN x = DOMAIN d
    /\ x.vests = d.vests /\ x.proxy = d.proxy /\ x.proxied = d.proxied
    /\ x.voted = s /\ x.votedFor = [d.votedFor EXCEPT ![a] = n]
    /\ x.votes = [d.votes EXCEPT ![w] = k]

\* A vote more, or less, with the weight of the voter.
LEMMA BallotRight ==
  ASSUME NEW d, VotesRight(d), NEW a \in Account, a # Null, d.proxy[a] = Self,
         NEW w \in Witness, NEW s \in SUBSET (Account \X Witness), NEW n \in Int, NEW k \in Int,
         NEW x, Balloted(x, d, s, a, n, w, k),
         \/ s = d.voted \cup {<<a, w>>} /\ <<a, w>> \notin d.voted
            /\ n = d.votedFor[a] + 1 /\ k = d.votes[w] + Weight(d, a)
         \/ s = d.voted \ {<<a, w>>} /\ <<a, w>> \in d.voted
            /\ n = d.votedFor[a] - 1 /\ k = d.votes[w] - Weight(d, a)
  PROVE  VotesRight(x)
<1>1. VoteTypes(d) /\ Ends(d.proxy) /\ Following(d) /\ Counted(d) /\ Silent(d) /\ Backing(d, Weights(d))
  BY DEF VotesRight
<1>2. d.votes \in [Witness -> Int] /\ d.votedFor \in [Account -> Int] /\ d.voted \in SUBSET (Account \X Witness)
  BY <1>1 DEF VoteTypes
<1>3. VoteTypes(x)
  BY <1>1, <1>2 DEF VoteTypes, Balloted
<1>4. Following(x) /\ Ends(x.proxy)
  BY <1>1 DEF Following, Balloted
<1>5. \A v \in s : v \in d.voted \/ v = <<a, w>>
  OBVIOUS
<1>6. Silent(x)
  <2>1. \A u \in Witness : <<Null, u>> \notin s
    BY <1>1, <1>5 DEF Silent
  <2> QED BY <1>1, <2>1 DEF Silent, Balloted
<1>7. Backing(x, Weights(x))
  <2> DEFINE W == Weights(d)
  <2>1. Weights(x) = W
    BY DEF Weights, Weight, Balloted
  <2>2. W \in [Account -> Int] /\ W[a] = Weight(d, a)
    BY <1>1, AllVotesSum DEF Weights
  <2>3. \A u \in Witness : d.votes[u] = SumFunctionOnSet(W, Voters(d, u))
    BY <1>1 DEF Backing
  <2> HIDE DEF W
  <2>4. ASSUME NEW u \in Witness
        PROVE  x.votes[u] = SumFunctionOnSet(W, Voters(x, u))
    <3> DEFINE S == Voters(d, u)
               T == Voters(x, u)
    <3>1. S \in SUBSET Account /\ IsFiniteSet(S) /\ T \in SUBSET Account /\ IsFiniteSet(T)
      BY VotersFinite
    <3>2. \A b \in Account : (b \in S <=> <<b, u>> \in d.voted) /\ (b \in T <=> <<b, u>> \in s)
      BY DEF Voters, Balloted
    <3>3. d.votes[u] = SumFunctionOnSet(W, S)
      BY <2>3
    <3>4. x.votes[u] = IF u = w THEN k ELSE d.votes[u]
      BY <1>2 DEF Balloted
    <3> HIDE DEF S, T
    <3>5. (\A c \in S : W[c] \in Int) /\ \A c \in T : W[c] \in Int
      BY <2>2, <3>1
    <3>6. CASE u # w
      <4>1. \A b \in Account : <<b, u>> \in d.voted <=> <<b, u>> \in s
        BY <3>6
      <4>2. T = S
        BY <3>1, <3>2, <4>1
      <4> QED BY <3>3, <3>4, <3>6, <4>2 DEF T
    <3>7. CASE u = w
      <4>1. CASE /\ s = d.voted \cup {<<a, w>>} /\ <<a, w>> \notin d.voted
                 /\ k = d.votes[w] + Weight(d, a)
        <5>1. a \in T /\ S = T \ {a}
          BY <3>1, <3>2, <3>7, <4>1
        <5>2. SumFunctionOnSet(W, T) = SumFunctionOnSet(W, T \ {a}) + W[a]
          BY <3>1, <3>5, <5>1, SumAdd
        <5>3. x.votes[u] = SumFunctionOnSet(W, T)
          BY <2>2, <3>3, <3>4, <3>7, <4>1, <5>1, <5>2
        <5> QED BY <5>3 DEF T
      <4>2. CASE /\ s = d.voted \ {<<a, w>>} /\ <<a, w>> \in d.voted
                 /\ k = d.votes[w] - Weight(d, a)
        <5>1. a \in S /\ T = S \ {a}
          BY <3>1, <3>2, <3>7, <4>2
        <5>2. SumFunctionOnSet(W, S) = SumFunctionOnSet(W, S \ {a}) + W[a]
          BY <3>1, <3>5, <5>1, SumAdd
        <5>3. SumFunctionOnSet(W, T) \in Int /\ SumFunctionOnSet(W, S) \in Int
          BY <3>1, <3>5, SumType
        <5> DEFINE t == SumFunctionOnSet(W, T)
                   g == Weight(d, a)
        <5>4. x.votes[u] = d.votes[u] - g
          BY <3>4, <3>7, <4>2
        <5>5. d.votes[u] = t + g /\ t \in Int /\ g \in Int
          BY <2>2, <3>3, <5>1, <5>2, <5>3
        <5> HIDE DEF t, g
        <5>6. x.votes[u] = t
          BY <5>4, <5>5
        <5> QED BY <5>6 DEF t, T
      <4> QED BY <4>1, <4>2
    <3> QED BY <3>6, <3>7
  <2>5. ASSUME NEW v \in x.voted
        PROVE  x.proxy[v[1]] = Self
    <3>1. v \in d.voted \/ v = <<a, w>>
      BY <1>5 DEF Balloted
    <3> QED BY <1>1, <3>1 DEF Backing, Balloted
  <2> QED BY <2>1, <2>4, <2>5 DEF Backing
<1>8. Counted(x)
  <2>1. ASSUME NEW b \in Account
        PROVE  x.votedFor[b] = Cardinality({v \in s : v[1] = b})
    <3> DEFINE B == {v \in d.voted : v[1] = b}
               C == {v \in s : v[1] = b}
    <3>1. IsFiniteSet(B) /\ Cardinality(B) \in Nat
      BY <1>1, BallotsFinite
    <3>2. d.votedFor[b] = Cardinality(B)
      BY <1>1 DEF Counted
    <3>3. CASE b # a
      <4>1. C = B
        BY <3>3
      <4>2. x.votedFor[b] = d.votedFor[b]
        BY <1>2, <3>3 DEF Balloted
      <4> QED BY <3>2, <4>1, <4>2
    <3>4. CASE b = a
      <4>1. x.votedFor[b] = n
        BY <1>2, <3>4 DEF Balloted
      <4>2. CASE s = d.voted \cup {<<a, w>>} /\ <<a, w>> \notin d.voted /\ n = d.votedFor[a] + 1
        <5>1. C = B \cup {<<a, w>>} /\ <<a, w>> \notin B
          BY <3>4, <4>2
        <5> HIDE DEF B, C
        <5>2. Cardinality(C) = Cardinality(B) + 1
          BY <3>1, <5>1, FS_AddElement
        <5> QED BY <3>2, <3>4, <4>1, <4>2, <5>2 DEF C
      <4>3. CASE s = d.voted \ {<<a, w>>} /\ <<a, w>> \in d.voted /\ n = d.votedFor[a] - 1
        <5>1. C = B \ {<<a, w>>} /\ <<a, w>> \in B
          BY <3>4, <4>3
        <5> HIDE DEF B, C
        <5>2. Cardinality(C) = Cardinality(B) - 1
          BY <3>1, <5>1, FS_RemoveElement
        <5> QED BY <3>2, <3>4, <4>1, <4>3, <5>2 DEF C
      <4> QED BY <4>2, <4>3
    <3> QED BY <3>3, <3>4
  <2> QED BY <2>1 DEF Counted, Balloted
<1> QED BY <1>3, <1>4, <1>6, <1>7, <1>8 DEF VotesRight

\* What only money is about leaves the votes right.
LEMMA MoneyRight ==
  ASSUME NEW d, VotesRight(d), NEW y, SameVotes(y, d), y.vests = d.vests
  PROVE  VotesRight(y)
<1>1. VoteTypes(y) /\ Following(y) /\ Counted(y) /\ Silent(y) /\ Ends(y.proxy)
  BY DEF VotesRight, SameVotes, VoteTypes, Following, Counted, Silent
<1>2. Weights(y) = Weights(d)
  BY DEF Weights, Weight, SameVotes
<1>3. Backing(y, Weights(y))
  BY <1>2 DEF VotesRight, Backing, Voters, SameVotes
<1> QED BY <1>1, <1>3 DEF VotesRight
-----------------------------------------------------------------------------
(* Deposits and blocks.                                                    *)

\* null has no proxy and votes for nobody, so what it holds is nobody's vote.
LEMMA NullRight ==
  ASSUME NEW d, VotesRight(d), NEW y, SameVotes(y, d), y.vests \in [Account -> Int],
         \A c \in Account \ {Null} : y.vests[c] = d.vests[c]
  PROVE  VotesRight(y)
<1> DEFINE p == d.proxy
<1>0. Depth \in Nat /\ Depth # 0 /\ Null \in Account
  BY VestingAssumption
<1>1. VoteTypes(d) /\ Ends(p) /\ Following(d) /\ Counted(d) /\ Silent(d) /\ Backing(d, Weights(d)) /\ p \in Proxying
  BY DEF VotesRight, VoteTypes
<1>2. VoteTypes(y) /\ Counted(y) /\ Silent(y) /\ Ends(y.proxy)
  BY <1>1 DEF SameVotes, VoteTypes, Counted, Silent
<1>3. ASSUME NEW b \in Account, NEW i \in 0..(Depth - 1)
      PROVE  y.proxied[b][i] = Support(y.vests, y.proxy, b, i + 1)
  <2> DEFINE S == Below(p, b, i + 1)
             up == Up(p, Null)
  <2>1. up[i + 1] = Self
    <3>1. up[0] = Null /\ 1 \in 0..Depth /\ 0 \in 0..Depth /\ 1 = 0 + 1 /\ p[Null] = Self
      BY <1>0, <1>1, UpSteps DEF Silent
    <3>2. up[1] = Self
      BY <1>0, <1>1, <3>1, UpSteps, SelfNoAccount
    <3>3. i + 1 \in 1..Depth
      BY <1>0
    <3> QED BY <1>0, <1>1, <3>1, <3>2, <3>3, UpEnded
  <2>2. S \in SUBSET Account /\ Null \notin S
    BY <2>1, SelfNoAccount DEF Below
  <2>3. IsFiniteSet(S)
    BY <2>2, VestingAssumption, FS_Subset
  <2>4. d.proxied[b][i] = SumFunctionOnSet(d.vests, S)
    BY <1>1 DEF Following, Support
  <2>5. d.vests \in [Account -> Int]
    BY <1>1 DEF VoteTypes
  <2> HIDE DEF S
  <2>6. (\A c \in S : d.vests[c] \in Int) /\ \A c \in S : y.vests[c] = d.vests[c]
    BY <2>2, <2>5
  <2>7. SumFunctionOnSet(y.vests, S) = SumFunctionOnSet(d.vests, S)
    BY <2>3, <2>6, SumSame
  <2>8. y.proxied = d.proxied /\ y.proxy = p
    BY DEF SameVotes
  <2> QED BY <2>4, <2>7, <2>8 DEF Support, S
<1>4. Backing(y, Weights(y))
  <2> DEFINE W == Weights(d)
             V == Weights(y)
  <2>1. W \in [Account -> Int] /\ \A b \in Account : W[b] = Weight(d, b)
    BY <1>1, AllVotesSum DEF Weights
  <2>2. \A b \in Account \ {Null} : V[b] = W[b]
    BY DEF Weights, Weight, SameVotes
  <2>3. \A w \in Witness : d.votes[w] = SumFunctionOnSet(W, Voters(d, w))
    BY <1>1 DEF Backing
  <2> HIDE DEF W, V
  <2>4. ASSUME NEW w \in Witness
        PROVE  y.votes[w] = SumFunctionOnSet(V, Voters(y, w))
    <3> DEFINE S == Voters(d, w)
    <3>1. Voters(y, w) = S /\ y.votes = d.votes
      BY DEF Voters, SameVotes
    <3>2. S \in SUBSET Account /\ IsFiniteSet(S)
      BY VotersFinite
    <3>3. Null \notin S
      BY <1>1 DEF Silent, Voters
    <3> HIDE DEF S
    <3>4. (\A c \in S : W[c] \in Int) /\ \A c \in S : V[c] = W[c]
      BY <2>1, <2>2, <3>2, <3>3
    <3>5. SumFunctionOnSet(V, S) = SumFunctionOnSet(W, S)
      BY <3>2, <3>4, SumSame
    <3> QED BY <2>3, <3>1, <3>5 DEF S
  <2>5. \A v \in y.voted : y.proxy[v[1]] = Self
    BY <1>1 DEF Backing, SameVotes
  <2> QED BY <2>4, <2>5 DEF Backing, V
<1> QED BY <1>2, <1>3, <1>4 DEF VotesRight, Following

\* y is a database that differs from d in the columns of votes by n vests more
\* of a, then x has them voted with.
Deposited(x, d, a, n) ==
    \E y : SameVotes(y, d) /\ y.vests = Credit(d.vests, a, n) /\ y.routes = d.routes
           /\ x = AdjustOwnVotes(y, a, n)

\* A deposit keeps the votes right,
LEMMA DepositedRight ==
  ASSUME NEW d, VotesRight(d), NEW a \in Account, NEW n \in Int, NEW x, Deposited(x, d, a, n)
  PROVE  VotesRight(x) /\ x.routes = d.routes
<1>1. PICK y : SameVotes(y, d) /\ y.vests = Credit(d.vests, a, n) /\ y.routes = d.routes
               /\ x = AdjustOwnVotes(y, a, n)
  BY DEF Deposited
<1>2. SameVotes(y, d)
  BY <1>1
<1>3. y.vests = Credit(d.vests, a, n)
  BY <1>1
<1>4. VotesRight(AdjustOwnVotes(y, a, n)) /\ Rebooked(AdjustOwnVotes(y, a, n), y)
  BY <1>2, <1>3, OwnVotesRight
<1> QED BY <1>1, <1>4 DEF Rebooked

\* and so does create_vesting,
LEMMA CreateVestingRight ==
  ASSUME NEW d, VotesRight(d), NEW a \in Account, NEW n, ToVests(d, n) \in Int
  PROVE  VotesRight(CreateVesting(d, a, n)) /\ CreateVesting(d, a, n).routes = d.routes
<1> DEFINE v == ToVests(d, n)
           y == [d EXCEPT !.vests = Credit(@, a, v), !.fund = @ + n, !.shares = @ + v]
<1>1. Columns \subseteq DOMAIN d
  BY DEF VotesRight, VoteTypes
<1>2. CreateVesting(d, a, n) = AdjustOwnVotes(y, a, v)
  BY Zenon DEF CreateVesting
<1>3. SameVotes(y, d) /\ y.vests = Credit(d.vests, a, v) /\ y.routes = d.routes
  BY <1>1 DEF SameVotes, Columns
<1> HIDE DEF v, y
<1>4. Deposited(CreateVesting(d, a, n), d, a, v)
  BY <1>2, <1>3 DEF Deposited
<1>5. v \in Int
  BY DEF v
<1> QED BY <1>4, <1>5, DepositedRight

\* the routed part of an instalment that stays shares,
LEMMA PayVestsRight ==
  ASSUME NEW d, VotesRight(d), NEW a \in Account, NEW b \in Account, NEW v,
         Part(d.routes[a][b], v) \in Int
  PROVE  VotesRight(PayVests(d, a, b, v)) /\ PayVests(d, a, b, v).routes = d.routes
<1> DEFINE n == Part(d.routes[a][b], v)
           y == [d EXCEPT !.vests = Credit(@, b, n)]
           x == PayVests(d, a, b, v)
<1>1. Columns \subseteq DOMAIN d
  BY DEF VotesRight, VoteTypes
<1>2. x = d \/ x = AdjustOwnVotes(y, b, n)
  BY DEF PayVests
<1>3. SameVotes(y, d) /\ y.vests = Credit(d.vests, b, n) /\ y.routes = d.routes
  BY <1>1 DEF SameVotes, Columns
<1> HIDE DEF n, y, x
<1>4. x = d \/ Deposited(x, d, b, n)
  BY <1>2, <1>3 DEF Deposited
<1>5. n \in Int
  BY DEF n
<1>6. VotesRight(x) /\ x.routes = d.routes
  BY <1>4, <1>5, DepositedRight
<1> QED BY <1>6 DEF x

\* the part that is paid out in WLS
LEMMA PayWlsRight ==
  ASSUME NEW d, VotesRight(d), NEW a, NEW b, NEW v
  PROVE  VotesRight(PayWls(d, a, b, v)) /\ PayWls(d, a, b, v).routes = d.routes
<1> DEFINE x == PayWls(d, a, b, v)
<1>1. Columns \subseteq DOMAIN d
  BY DEF VotesRight, VoteTypes
<1>2. SameVotes(x, d) /\ x.vests = d.vests /\ x.routes = d.routes
  BY <1>1 DEF PayWls, SameVotes, Columns
<1> HIDE DEF x
<1>3. VotesRight(x)
  BY <1>2, MoneyRight
<1> QED BY <1>2, <1>3 DEF x

\* and what no route takes.
LEMMA PayRestRight ==
  ASSUME NEW d, VotesRight(d), NEW a \in Account, NEW v \in Int, NEW rest
  PROVE  VotesRight(PayRest(d, a, v, rest))
<1> DEFINE wls == ToWls(d, rest)
           paid == d.withdrawn[a] + v
           done == paid >= d.toWithdraw[a] \/ d.vests[a] = v
           z == [d EXCEPT !.balance = Credit(@, a, wls), !.vests = Credit(@, a, -v),
                          !.fund = @ - wls, !.shares = @ - rest]
           rate == IF done THEN 0 ELSE d.rate[a]
           next == IF done THEN Never ELSE d.next[a] + Week
           y == SetPowerDown(z, a, rate, next, d.toWithdraw[a], paid)
<1>1. Columns \subseteq DOMAIN d
  BY DEF VotesRight, VoteTypes
<1>2. PayRest(d, a, v, rest) = AdjustOwnVotes(y, a, -v)
  BY Zenon DEF PayRest
<1>3. SameVotes(z, d) /\ z.vests = Credit(d.vests, a, -v) /\ z.routes = d.routes
  BY <1>1 DEF SameVotes, Columns
<1> HIDE DEF z, rate, next, paid
<1>4. SameVotes(y, d) /\ y.vests = z.vests /\ y.routes = z.routes
  BY <1>1, <1>3 DEF SameVotes, Columns, SetPowerDown
<1> DEFINE m == -v
<1>5. m \in Int
  OBVIOUS
<1> HIDE DEF y
<1>6. Deposited(PayRest(d, a, v, rest), d, a, m)
  BY <1>2, <1>3, <1>4 DEF Deposited
<1> HIDE DEF m
<1> QED BY <1>5, <1>6, DepositedRight
\* The routes that vest, one after the other.
LEMMA PayAllVestsRight ==
  ASSUME NEW d \in Db, VotesRight(d), NEW a \in Account, NEW v \in Nat
  PROVE  VotesRight(PayAllVests(d, a, v)) /\ PayAllVests(d, a, v).routes = d.routes
<1> DEFINE S == RoutesOf(d, a)
<1>0. PICK g : VestsStates(g, d, a, v)
  BY VestsTurns
<1>1. /\ PayAllVests(d, a, v) = g[S] /\ g[{}] = d
      /\ \A T \in SUBSET S : T # {} => Max(T) \in T /\ g[T] = PayVests(g[T \ {Max(T)}], a, Max(T), v)
  BY <1>0 DEF VestsStates
<1>2. S \in SUBSET Account /\ IsFiniteSet(S)
  BY VestingAssumption, FS_Subset DEF RoutesOf
<1> HIDE DEF S
<1> DEFINE F == {T \in SUBSET S : ~(VotesRight(g[T]) /\ g[T].routes = d.routes)}
<1>3. SUFFICES ASSUME F # {} PROVE FALSE
  BY <1>1
<1>4. PICK T \in F : IsFiniteSet(T) /\ \A x \in T : T \ {x} \notin F
  <2>1. F \in SUBSET (SUBSET S)
    OBVIOUS
  <2> HIDE DEF F
  <2> QED BY <1>2, <1>3, <2>1, SmallestSubset
<1>5. T # {}
  BY <1>1, <1>4
<1> DEFINE m == Max(T)
           e == g[T \ {m}]
           x == g[T]
<1>6. T \in SUBSET S /\ m \in T /\ x = PayVests(e, a, m, v) /\ m \in Account
  BY <1>1, <1>2, <1>4, <1>5
<1>7. VotesRight(e) /\ e.routes = d.routes
  BY <1>4, <1>6
<1> HIDE DEF m, e, x
<1>8. Part(e.routes[a][m], v) \in Int
  <2>1. m \in Account
    BY <1>6
  <2>2. Part(d.routes[a][m], v) \in Nat
    BY <2>1, PartNat
  <2>3. e.routes[a][m] = d.routes[a][m]
    BY <1>7
  <2>4. Part(e.routes[a][m], v) = Part(d.routes[a][m], v)
    BY <2>3
  <2> QED BY <2>2, <2>4
<1>9. VotesRight(x) /\ x.routes = e.routes
  BY <1>6, <1>7, <1>8, PayVestsRight
<1> QED BY <1>4, <1>7, <1>9 DEF x

\* The routes that do not.
LEMMA PayAllWlsRight ==
  ASSUME NEW d, VotesRight(d), NEW a, NEW v
  PROVE  VotesRight(PayAllWls(d, a, v))
<1> DEFINE S == RoutesOf(d, a)
<1>0. PICK g : WlsStates(g, d, a, v)
  BY WlsTurns
<1>1. /\ PayAllWls(d, a, v) = g[S] /\ g[{}] = d
      /\ \A T \in SUBSET S : T # {} => Max(T) \in T /\ g[T] = PayWls(g[T \ {Max(T)}], a, Max(T), v)
  BY <1>0 DEF WlsStates
<1>2. S \in SUBSET Account /\ IsFiniteSet(S)
  BY VestingAssumption, FS_Subset DEF RoutesOf
<1> HIDE DEF S
<1> DEFINE F == {T \in SUBSET S : ~VotesRight(g[T])}
<1>3. SUFFICES ASSUME F # {} PROVE FALSE
  BY <1>1
<1>4. PICK T \in F : IsFiniteSet(T) /\ \A x \in T : T \ {x} \notin F
  <2>1. F \in SUBSET (SUBSET S)
    OBVIOUS
  <2> HIDE DEF F
  <2> QED BY <1>2, <1>3, <2>1, SmallestSubset
<1>5. T # {}
  BY <1>1, <1>4
<1> DEFINE m == Max(T)
           e == g[T \ {m}]
           x == g[T]
<1>6. T \in SUBSET S /\ m \in T /\ x = PayWls(e, a, m, v)
  BY <1>1, <1>2, <1>4, <1>5
<1>7. VotesRight(e)
  BY <1>4, <1>6
<1> HIDE DEF m, e, x
<1>8. VotesRight(x)
  BY <1>6, <1>7, PayWlsRight
<1> QED BY <1>4, <1>8 DEF x

\* One account's instalment.
LEMMA WithdrawRight ==
  ASSUME NEW d, Good(d), VotesRight(d), NEW a \in Account, d.next[a] = 0
  PROVE  VotesRight(Withdraw(d, a))
<1> DEFINE v == Instalment(d, a)
           rest == v - PartsOf(d, a, v)
           y == PayAllVests(d, a, v)
           z == PayAllWls(y, a, v)
<1>1. d \in Db /\ Downs(d)
  BY DEF Good
<1>2. v \in Nat
  <2>1. d.rate[a] # 0
    BY <1>1 DEF Downs, Never
  <2>2. d.rate[a] \in Nat
    BY <1>1 DEF Db, Amount
  <2>3. v \in 1..d.rate[a]
    BY <1>1, <2>1, InstalmentOK
  <2> HIDE DEF v
  <2> QED BY <2>2, <2>3
<1>3. CASE rest < 0
  <2> DEFINE x == [d EXCEPT !.ok = FALSE]
  <2>1. Withdraw(d, a) = x
    BY <1>3, Zenon DEF Withdraw
  <2>2. Columns \subseteq DOMAIN d
    BY DEF VotesRight, VoteTypes
  <2>3. SameVotes(x, d) /\ x.vests = d.vests
    BY <2>2 DEF SameVotes, Columns
  <2> HIDE DEF x
  <2> QED BY <2>1, <2>3, MoneyRight
<1>4. CASE ~(rest < 0)
  <2>1. Withdraw(d, a) = PayRest(z, a, v, rest)
    BY <1>4, Zenon DEF Withdraw
  <2> HIDE DEF v, rest
  <2>2. VotesRight(y)
    BY <1>1, <1>2, PayAllVestsRight
  <2> HIDE DEF y
  <2>3. VotesRight(z)
    BY <2>2, PayAllWlsRight
  <2> HIDE DEF z
  <2>4. v \in Int
    BY <1>2
  <2>5. VotesRight(PayRest(z, a, v, rest))
    BY <2>3, <2>4, PayRestRight
  <2> QED BY <2>1, <2>5
<1> QED BY <1>3, <1>4

\* All of process_vesting_withdrawals.
LEMMA WithdrawDueRight ==
  ASSUME NEW d, Good(d), VotesRight(d)
  PROVE  VotesRight(WithdrawDue(d))
<1> DEFINE S == {a \in Account : d.next[a] = 0}
           Fine(x, T) == Good(x) /\ VotesRight(x) /\ \A c \in Account \ T : x.next[c] = d.next[c]
<1>0. PICK g : WithdrawStates(g, d)
  BY WithdrawTurns
<1>1. /\ WithdrawDue(d) = g[S] /\ g[{}] = d
      /\ \A T \in SUBSET S : T # {} => Max(T) \in T /\ g[T] = Withdraw(g[T \ {Max(T)}], Max(T))
  BY <1>0 DEF WithdrawStates
<1>2. S \in SUBSET Account /\ IsFiniteSet(S) /\ \A c \in S : d.next[c] = 0
  BY VestingAssumption, FS_Subset
<1> HIDE DEF S
<1> DEFINE F == {T \in SUBSET S : ~Fine(g[T], T)}
<1>3. SUFFICES ASSUME F # {} PROVE FALSE
  BY <1>1
<1>4. PICK T \in F : IsFiniteSet(T) /\ \A x \in T : T \ {x} \notin F
  <2>1. F \in SUBSET (SUBSET S)
    OBVIOUS
  <2> HIDE DEF F
  <2> QED BY <1>2, <1>3, <2>1, SmallestSubset
<1>5. T # {}
  BY <1>1, <1>4
<1> DEFINE m == Max(T)
           R == T \ {m}
           e == g[R]
           x == g[T]
<1>6. T \in SUBSET S /\ m \in T /\ x = Withdraw(e, m) /\ m \in Account \ R /\ d.next[m] = 0
  BY <1>1, <1>2, <1>4, <1>5
<1>7. Fine(e, R)
  BY <1>4, <1>6
<1> HIDE DEF m, e, x
<1>8. Good(e) /\ VotesRight(e) /\ e.next[m] = 0
  BY <1>6, <1>7
<1>9. VotesRight(x)
  BY <1>6, <1>8, WithdrawRight
<1>10. Withdrawn(x, e, m)
  BY <1>6, <1>8, WithdrawOK
<1>11. Good(x) /\ \A c \in Account \ T : x.next[c] = d.next[c]
  <2>1. Good(x) /\ \A c \in Account \ {m} : x.next[c] = e.next[c]
    BY <1>10 DEF Withdrawn, Still
  <2> QED BY <1>6, <1>7, <2>1
<1> QED BY <1>4, <1>9, <1>11 DEF x

\* A block later.
Later(d) == [d EXCEPT !.next = [a \in Account |-> IF d.next[a] > 0 THEN d.next[a] - 1 ELSE d.next[a]]]

\* Counting down to the next instalments moves no money.
LEMMA LaterGood ==
  ASSUME NEW d, Good(d)
  PROVE  Good(Later(d))
<1> DEFINE n == [a \in Account |-> IF d.next[a] > 0 THEN d.next[a] - 1 ELSE d.next[a]]
           e == [d EXCEPT !.next = n]
<1>1. d \in Db /\ d.next \in Due /\ Week \in Nat
  BY VestingAssumption DEF Good, Db
<1>2. n \in Due /\ \A c \in Account : n[c] = Never <=> d.next[c] = Never
  BY <1>1 DEF Never, Due
<1>3. Later(d) = e
  BY DEF Later
<1> HIDE DEF n
<1>4. e \in Db /\ e.next = n
  BY <1>1, <1>2 DEF Db
<1>5. SameRewards(e, d) /\ SameFund(e, d) /\ e.rate = d.rate /\ e.toWithdraw = d.toWithdraw
      /\ e.withdrawn = d.withdrawn
  BY <1>1 DEF Db, SameRewards, SameFund
<1> HIDE DEF e
<1>6. \A c \in Account : Left(e, c) = Left(d, c)
  BY <1>5 DEF Left
<1>7. Books(e)
  BY <1>5 DEF Good, Books, SameRewards, SameFund
<1>8. Downs(e)
  BY <1>2, <1>4, <1>5, <1>6 DEF Good, Downs, Down, SameFund
<1>9. Kept(e)
  BY <1>5, <1>6 DEF Good, Kept, SameFund
<1> QED BY <1>3, <1>4, <1>7, <1>8, <1>9 DEF Good

\* All instalments of a block.
LEMMA ProcessWithdrawalsRight ==
  ASSUME NEW d, Good(d), VotesRight(d)
  PROVE  VotesRight(ProcessWithdrawals(d))
<1>1. ProcessWithdrawals(d) = WithdrawDue(Later(d))
  BY Zenon DEF ProcessWithdrawals, Later
<1>2. Columns \subseteq DOMAIN d
  BY DEF VotesRight, VoteTypes
<1>3. SameVotes(Later(d), d) /\ Later(d).vests = d.vests
  BY <1>2 DEF SameVotes, Columns, Later
<1>4. VotesRight(Later(d))
  BY <1>3, MoneyRight
<1> QED BY <1>1, <1>4, LaterGood, WithdrawDueRight

\* The shares of null are burnt; it votes for nobody.
LEMMA ClearNullRight ==
  ASSUME NEW d, Good(d), VotesRight(d)
  PROVE  VotesRight(ClearNull(d))
<1> DEFINE x == ClearNull(d)
<1>1. Columns \subseteq DOMAIN d /\ d.vests \in [Account -> Int] /\ Null \in Account
  BY VestingAssumption DEF VotesRight, VoteTypes
<1>2. DOMAIN x = DOMAIN d
  BY DEF ClearNull
<1>3. x.proxy = d.proxy /\ x.proxied = d.proxied /\ x.voted = d.voted
      /\ x.votedFor = d.votedFor /\ x.votes = d.votes
  BY <1>1 DEF ClearNull, Columns
<1>4. x.vests = [d.vests EXCEPT ![Null] = 0]
  BY <1>1 DEF ClearNull, Columns
<1> HIDE DEF x
<1>5. SameVotes(x, d)
  BY <1>2, <1>3 DEF SameVotes
<1>6. x.vests \in [Account -> Int] /\ \A c \in Account \ {Null} : x.vests[c] = d.vests[c]
  BY <1>1, <1>4
<1>7. VotesRight(x)
  BY <1>5, <1>6, NullRight
<1> QED BY <1>7 DEF x

\* What a deposit buys is a natural number.
LEMMA ToVestsNat ==
  ASSUME NEW d, d.fund \in Nat, d.shares \in Nat, NEW n \in Nat
  PROVE  ToVests(d, n) \in Int
<1>1. VestsPerWls \in Nat
  BY VestingAssumption
<1>2. n * VestsPerWls \in Nat /\ n * d.shares \in Nat
  BY <1>1, Products
<1>3. CASE Unpriced(d)
  BY <1>2, <1>3 DEF ToVests
<1>4. CASE ~Unpriced(d)
  <2>1. d.fund > 0
    BY <1>4 DEF Unpriced
  <2>2. (n * d.shares) \div d.fund \in Nat
    BY <1>2, <2>1, Division
  <2> QED BY <1>4, <2>2 DEF ToVests
<1> QED BY <1>3, <1>4

\* What a block mints.
LEMMA ProcessFundsRight ==
  ASSUME NEW d, Good(d), VotesRight(d), NEW w \in Account, NEW m \in Minted
  PROVE  VotesRight(ProcessFunds(d, w, m))
<1> DEFINE e == [d EXCEPT !.supply = @ + m.content + m.dev + m.witness,
                          !.rewardFund = @ + m.content]
           y == CreateVesting(e, w, m.witness)
           x == [y EXCEPT !.balance = Credit(@, DevFund, m.dev)]
<1>1. ProcessFunds(d, w, m) = x
  BY Zenon DEF ProcessFunds
<1>2. m.witness \in Nat
  BY VestingAssumption
<1>3. Columns \subseteq DOMAIN d
  BY DEF VotesRight, VoteTypes
<1>4. SameVotes(e, d) /\ e.vests = d.vests /\ e.fund = d.fund /\ e.shares = d.shares
  BY <1>3 DEF SameVotes, Columns
<1> HIDE DEF e
<1>5. VotesRight(e)
  BY <1>4, MoneyRight
<1>6. ToVests(e, m.witness) \in Int
  <2>1. e.fund \in Nat /\ e.shares \in Nat
    BY <1>4 DEF Good, Db
  <2> QED BY <1>2, <2>1, ToVestsNat
<1>7. VotesRight(y)
  BY <1>5, <1>6, CreateVestingRight
<1>8. Columns \subseteq DOMAIN y
  BY <1>7 DEF VotesRight, VoteTypes
<1> HIDE DEF y
<1>9. SameVotes(x, y) /\ x.vests = y.vests
  BY <1>8 DEF SameVotes, Columns
<1> HIDE DEF x
<1> QED BY <1>1, <1>7, <1>9, MoneyRight

\* The end of a block.
LEMMA BlockRight ==
  ASSUME NEW d, Good(d), VotesRight(d), NEW w \in Account, NEW m \in Minted
  PROVE  VotesRight(ProcessWithdrawals(ProcessFunds(ClearNull(d), w, m)))
<1> DEFINE e1 == ClearNull(d)
           e2 == ProcessFunds(e1, w, m)
<1>1. Good(e1) /\ VotesRight(e1)
  BY ClearNullOK, ClearNullRight DEF Better
<1> HIDE DEF e1
<1>2. Good(e2) /\ VotesRight(e2)
  BY <1>1, ProcessFundsOK, ProcessFundsRight DEF Better
<1> HIDE DEF e2
<1>3. VotesRight(ProcessWithdrawals(e2))
  BY <1>2, ProcessWithdrawalsRight
<1> QED BY <1>3 DEF e1, e2
-----------------------------------------------------------------------------
(* The invariant.                                                          *)

\* The votes rest on the money: what is paid or burnt must be there.
VInv == IInv /\ VotesRight(db)

\* At first nobody has a proxy and nobody votes.
LEMMA InitVotes ==
  ASSUME Init
  PROVE  VotesRight(db)
<1>0. Depth \in Nat /\ Depth # 0 /\ Null \in Account
  BY VestingAssumption
<1>1. IInv
  BY InitInv
<1>2. db \in Db
  BY <1>1 DEF IInv, Good
<1>3. /\ db.proxy = [a \in Account |-> Self]
      /\ db.proxied = [a \in Account |-> [i \in 0..(Depth-1) |-> 0]]
      /\ db.voted = {} /\ db.votedFor = [a \in Account |-> 0] /\ db.votes = [w \in Witness |-> 0]
  BY DEF Init, Zero
<1>4. VoteTypes(db)
  <2>1. Columns \subseteq DOMAIN db
    BY <1>2 DEF Db, Columns
  <2>2. db.vests \in [Account -> Int] /\ db.proxied \in ByDistance
    BY <1>2 DEF Db, Amount
  <2> QED BY <1>3, <2>1, <2>2 DEF VoteTypes, Proxying
<1>5. Ends(db.proxy)
  <2>1. ASSUME NEW S \in SUBSET Account, S # {}
        PROVE  \E s \in S : db.proxy[s] \notin S
    <3>1. PICK s \in S : TRUE
      BY <2>1
    <3> QED BY <1>3, SelfNoAccount
  <2> QED BY <2>1 DEF Ends
<1>6. Following(db)
  <2>1. ASSUME NEW b \in Account, NEW i \in 0..(Depth - 1)
        PROVE  db.proxied[b][i] = Support(db.vests, db.proxy, b, i + 1)
    <3>1. db.proxy \in Proxying
      BY <1>4 DEF VoteTypes
    <3>2. \A c \in Account : Up(db.proxy, c)[i + 1] = Self
      <4> TAKE c \in Account
      <4>1. 1 \in 0..Depth /\ 0 \in 0..Depth /\ 1 = 0 + 1 /\ i + 1 \in 1..Depth
        BY <1>0
      <4>2. Up(db.proxy, c)[0] = c /\ db.proxy[c] = Self
        BY <1>3, <3>1, UpSteps
      <4>3. Up(db.proxy, c)[1] = Self
        BY <3>1, <4>1, <4>2, UpSteps, SelfNoAccount
      <4> QED BY <3>1, <4>1, <4>3, UpEnded
    <3>3. Below(db.proxy, b, i + 1) = {}
      BY <3>2, SelfNoAccount DEF Below
    <3>4. db.proxied[b][i] = 0
      BY <1>3
    <3> QED BY <3>3, <3>4, SumEmpty DEF Support
  <2> QED BY <2>1 DEF Following
<1>7. Backing(db, Weights(db))
  <2>1. \A w \in Witness : Voters(db, w) = {}
    BY <1>3 DEF Voters
  <2> QED BY <1>3, <2>1, SumEmpty DEF Backing
<1>8. Counted(db)
  <2>1. \A a \in Account : {v \in db.voted : v[1] = a} = {}
    BY <1>3
  <2> QED BY <1>3, <2>1, FS_EmptySet DEF Counted
<1>9. Silent(db)
  BY <1>0, <1>3 DEF Silent
<1> QED BY <1>4, <1>5, <1>6, <1>7, <1>8, <1>9 DEF VotesRight

\* Every operation and every block keeps the votes right.
LEMMA StepVotes ==
  ASSUME VInv, Next
  PROVE  VotesRight(db')
<1>0. Good(db) /\ VotesRight(db) /\ db \in Db /\ Columns \subseteq DOMAIN db
  BY DEF VInv, IInv, Good, VotesRight, VoteTypes
<1>11. User \in SUBSET Account /\ Witness \in SUBSET Account /\ Null \notin User
  BY VestingAssumption
<1>1. ASSUME NEW a \in User, NEW b \in Account, NEW n \in Amounts, Transfer(a, b, n)
      PROVE  VotesRight(db')
  <2> DEFINE x == [db EXCEPT !.balance = Credit(Credit(@, a, -n), b, n)]
  <2>1. db' = x
    BY <1>1, Zenon DEF Transfer, Apply
  <2>2. SameVotes(x, db) /\ x.vests = db.vests
    BY <1>0 DEF SameVotes, Columns
  <2> HIDE DEF x
  <2>3. VotesRight(x)
    BY <1>0, <2>2, MoneyRight
  <2> QED BY <2>1, <2>3
<1>2. ASSUME NEW a \in User, NEW b \in Account, NEW n \in Amounts, TransferToVesting(a, b, n)
      PROVE  VotesRight(db')
  <2> DEFINE y == [db EXCEPT !.balance = Credit(@, a, -n)]
  <2>1. db' = CreateVesting(y, b, n)
    BY <1>2, Zenon DEF TransferToVesting, Apply
  <2>2. SameVotes(y, db) /\ y.vests = db.vests /\ y.fund = db.fund /\ y.shares = db.shares
    BY <1>0 DEF SameVotes, Columns
  <2> HIDE DEF y
  <2>3. VotesRight(y)
    BY <1>0, <2>2, MoneyRight
  <2>4. ToVests(y, n) \in Int
    <3>1. y.fund \in Nat /\ y.shares \in Nat
      BY <1>0, <2>2 DEF Db
    <3>2. n \in Nat
      BY InputAssumption
    <3> QED BY <3>1, <3>2, ToVestsNat
  <2>5. VotesRight(CreateVesting(y, b, n))
    BY <2>3, <2>4, CreateVestingRight
  <2> QED BY <2>1, <2>5
<1>3. ASSUME NEW a \in Account, NEW r, NEW n, NEW t, db' = SetPowerDown(db, a, r, n, t, 0)
      PROVE  VotesRight(db')
  <2> DEFINE x == SetPowerDown(db, a, r, n, t, 0)
  <2>1. SameVotes(x, db) /\ x.vests = db.vests
    BY <1>0 DEF SameVotes, Columns, SetPowerDown
  <2> HIDE DEF x
  <2>2. VotesRight(x)
    BY <1>0, <2>1, MoneyRight
  <2> QED BY <1>3, <2>2 DEF x
<1>4. ASSUME NEW a \in User, StopWithdraw(a) PROVE VotesRight(db')
  <2>1. db' = SetPowerDown(db, a, 0, Never, 0, 0)
    BY <1>4 DEF StopWithdraw, Apply
  <2> QED BY <1>11, <1>3, <2>1
<1>5. ASSUME NEW a \in User, NEW v \in Vests, WithdrawVesting(a, v) PROVE VotesRight(db')
  <2>1. db' = SetPowerDown(db, a, Max({1, v \div Intervals}), Week, v, 0)
    BY <1>5 DEF WithdrawVesting, Apply
  <2> QED BY <1>11, <1>3, <2>1
<1>6. ASSUME NEW a \in User, NEW b \in RouteTo, NEW p \in Percents, NEW auto \in BOOLEAN,
             SetWithdrawVestingRoute(a, b, p, auto)
      PROVE  VotesRight(db')
  <2> DEFINE x == [db EXCEPT !.routes[a][b] = [percent |-> p, auto |-> p # 0 /\ auto]]
  <2>1. db' = x
    BY <1>6, Zenon DEF SetWithdrawVestingRoute, Apply
  <2>2. SameVotes(x, db) /\ x.vests = db.vests
    BY <1>0 DEF SameVotes, Columns
  <2> HIDE DEF x
  <2>3. VotesRight(x)
    BY <1>0, <2>2, MoneyRight
  <2> QED BY <2>1, <2>3
<1>7. ASSUME NEW a \in User, NEW p \in Proxies \cup {Self}, AccountWitnessProxy(a, p)
      PROVE  VotesRight(db')
  <2> DEFINE delta == AllVotes(db, a)
             t == AdjustProxied(db, a, Negated(delta))
  <2>1. a \in Account /\ a # Null
    BY <1>11
  <2>2. CASE p = Self
    <3> DEFINE x == [t EXCEPT !.proxy[a] = Self]
    <3>1. db.proxy[a] # Self /\ db' = x
      BY <1>7, <2>2, Zenon DEF AccountWitnessProxy, Apply
    <3>2. VotesRight(x)
      <4> HIDE DEF t
      <4>1. t = AdjustProxied(db, a, Negated(AllVotes(db, a)))
        BY DEF t
      <4> QED BY <1>0, <2>1, <3>1, <4>1, ProxyOffRight
    <3> QED BY <3>1, <3>2
  <2>3. CASE p # Self
    <3> DEFINE m == Moved(t, a, p)
    <3>1. p # a /\ ProxyAllowed(t, a, p) /\ db' = AdjustProxied(m, a, delta)
      BY <1>7, <2>3, Zenon DEF AccountWitnessProxy, Apply, Moved
    <3>2. p \in Account
      BY <2>3, InputAssumption
    <3>3. t = AdjustProxied(db, a, Negated(AllVotes(db, a)))
      BY DEF t
    <3> HIDE DEF t
    <3>4. m = Moved(t, a, p)
      OBVIOUS
    <3> HIDE DEF m
    <3>5. VotesRight(AdjustProxied(m, a, AllVotes(db, a)))
      BY <1>0, <2>1, <3>1, <3>2, <3>3, <3>4, ProxyToRight
    <3> QED BY <3>1, <3>5
  <2> QED BY <2>2, <2>3
<1>8. ASSUME NEW a \in User, NEW w \in Witness,
             AccountWitnessVote(a, w) \/ AccountWitnessUnvote(a, w)
      PROVE  VotesRight(db')
  <2>1. a \in Account /\ a # Null
    BY <1>11
  <2>2. Weight(db, a) \in Int /\ db.votes[w] \in Int /\ db.votedFor[a] \in Int
        /\ db.voted \in SUBSET (Account \X Witness)
    BY <1>0, <2>1, WeightInt DEF Db
  <2>3. CASE AccountWitnessVote(a, w)
    <3> DEFINE s == db.voted \cup {<<a, w>>}
               n == db.votedFor[a] + 1
               k == db.votes[w] + Weight(db, a)
               x == [db EXCEPT !.voted = s, !.votedFor[a] = n, !.votes[w] = k]
    <3>1. db.proxy[a] = Self /\ <<a, w>> \notin db.voted
      BY <2>3 DEF AccountWitnessVote
    <3>2. db' = x
      BY <2>3, Zenon DEF AccountWitnessVote, Apply
    <3>3. s \in SUBSET (Account \X Witness) /\ n \in Int /\ k \in Int
      BY <2>1, <2>2
    <3>4. s = db.voted \cup {<<a, w>>} /\ n = db.votedFor[a] + 1 /\ k = db.votes[w] + Weight(db, a)
      OBVIOUS
    <3> HIDE DEF s, n, k
    <3>5. Balloted(x, db, s, a, n, w, k)
      BY <1>0 DEF Balloted, Columns
    <3> HIDE DEF x
    <3>6. VotesRight(x)
      BY <1>0, <2>1, <3>1, <3>3, <3>4, <3>5, BallotRight
    <3> QED BY <3>2, <3>6
  <2>4. CASE AccountWitnessUnvote(a, w)
    <3> DEFINE s == db.voted \ {<<a, w>>}
               n == db.votedFor[a] - 1
               k == db.votes[w] - Weight(db, a)
               x == [db EXCEPT !.voted = s, !.votedFor[a] = n, !.votes[w] = k]
    <3>1. db.proxy[a] = Self /\ <<a, w>> \in db.voted
      BY <2>4 DEF AccountWitnessUnvote
    <3>2. db' = x
      BY <2>4, Zenon DEF AccountWitnessUnvote, Apply
    <3>3. s \in SUBSET (Account \X Witness) /\ n \in Int /\ k \in Int
      BY <2>1, <2>2
    <3>4. s = db.voted \ {<<a, w>>} /\ n = db.votedFor[a] - 1 /\ k = db.votes[w] - Weight(db, a)
      OBVIOUS
    <3> HIDE DEF s, n, k
    <3>5. Balloted(x, db, s, a, n, w, k)
      BY <1>0 DEF Balloted, Columns
    <3> HIDE DEF x
    <3>6. VotesRight(x)
      BY <1>0, <2>1, <3>1, <3>3, <3>4, <3>5, BallotRight
    <3> QED BY <3>2, <3>6
  <2> QED BY <1>8, <2>3, <2>4
<1>9. ASSUME NEW a \in User, NEW n \in Claims \cup {0}, NEW v \in Claims \cup {0},
             ClaimRewardBalance(a, n, v)
      PROVE  VotesRight(db')
  <2> DEFINE wls == IF v = db.rewardVests[a] THEN db.rewardSteem[a]
                    ELSE (v * db.rewardSteem[a]) \div db.rewardVests[a]
             y == [db EXCEPT !.reward = Credit(@, a, -n), !.balance = Credit(@, a, n),
                        !.vests = Credit(@, a, v), !.rewardVests = Credit(@, a, -v),
                        !.rewardSteem = Credit(@, a, -wls), !.shares = @ + v, !.fund = @ + wls,
                        !.pendShares = @ - v, !.pendSteem = @ - wls]
  <2>1. db' = AdjustOwnVotes(y, a, v)
    BY <1>9, Zenon DEF ClaimRewardBalance, Apply
  <2> HIDE DEF wls
  <2>2. DOMAIN y = DOMAIN db
    OBVIOUS
  <2>3. y.proxy = db.proxy /\ y.proxied = db.proxied /\ y.voted = db.voted
        /\ y.votedFor = db.votedFor /\ y.votes = db.votes /\ y.routes = db.routes
    BY <1>0 DEF Columns
  <2>4. y.vests = Credit(db.vests, a, v)
    BY <1>0 DEF Columns
  <2> HIDE DEF y
  <2>5. Deposited(db', db, a, v)
    BY <2>1, <2>2, <2>3, <2>4 DEF Deposited, SameVotes
  <2>6. v \in Int /\ a \in Account
    BY <1>11, InputAssumption
  <2> QED BY <1>0, <2>5, <2>6, DepositedRight
<1>10. ASSUME NEW w \in Witness, NEW m \in Minted, Block(w, m)
       PROVE  VotesRight(db')
  <2> DEFINE x == ProcessWithdrawals(ProcessFunds(ClearNull(db), w, m))
  <2>1. db' = IF x.ok THEN x ELSE db
    BY <1>10, Zenon DEF Block
  <2>2. w \in Account
    BY <1>11
  <2>3. VotesRight(x)
    BY <1>0, <2>2, BlockRight
  <2> HIDE DEF x
  <2>4. db' = x \/ db' = db
    BY <2>1
  <2> QED BY <1>0, <2>3, <2>4
<1> QED BY <1>1, <1>2, <1>4, <1>5, <1>6, <1>7, <1>8, <1>9, <1>10 DEF Next

\* The invariant holds.
LEMMA VotesStay ==
  ASSUME Inflation > 0
  PROVE  Spec => []VInv
<1>1. Init => VInv
  BY InitInv, InitVotes DEF VInv
<1>2. VInv /\ [Next]_vars => VInv'
  <2> SUFFICES ASSUME VInv, [Next]_vars PROVE VInv'
    OBVIOUS
  <2>1. IInv'
    BY StepInv DEF VInv
  <2>2. VotesRight(db')
    <3>1. CASE Next
      BY <3>1, StepVotes
    <3>2. CASE UNCHANGED vars
      BY <3>2 DEF vars, VInv
    <3> QED BY <3>1, <3>2
  <2> QED BY <2>1, <2>2 DEF VInv
<1> QED BY <1>1, <1>2, PTL DEF Spec
-----------------------------------------------------------------------------
(* Every share is one vote.                                                *)

\* What a votes with, by distance.
Reached(v, p, a) == [j \in 0..Depth |-> Support(v, p, a, j)]

\* What is counted at a: all that reaches it, or what goes no further.
Held(v, p, a) ==
    IF p[a] = Self THEN SumFunctionOnSet(Reached(v, p, a), 0..Depth) ELSE Support(v, p, a, Depth)

Tally(v, p) == SumFunctionOnSet([a \in Account |-> Held(v, p, a)], Account)

\* Each chain has one account that counts what starts it, r proxies up: the
\* one it ends in, or the last that books it.
LEMMA OneHolder ==
  ASSUME NEW p \in Proxying, Ends(p), NEW c \in Account
  PROVE  \E r \in 0..Depth :
            /\ Up(p, c)[r] \in Account /\ (p[Up(p, c)[r]] # Self => r = Depth)
            /\ \A a \in Account, j \in 0..Depth :
                  Up(p, c)[j] = a /\ (p[a] = Self \/ j = Depth) => a = Up(p, c)[r] /\ j = r
<1> DEFINE up == Up(p, c)
<1>0. Depth \in Nat /\ Depth # 0
  BY VestingAssumption
<1>1. /\ up[0] = c /\ \A k \in 0..Depth : up[k] \in Account \cup {Self}
      /\ \A j, k \in 0..Depth : k = j + 1 => up[k] = IF up[j] = Self THEN Self ELSE p[up[j]]
  BY UpSteps
<1>2. CASE \E r \in 0..Depth : Rooted(p, c, r)
  <2>1. PICK r \in 0..Depth : Rooted(p, c, r)
    BY <1>2
  <2>2. up[r] \in Account /\ p[up[r]] = Self
    BY <1>1, <2>1 DEF Rooted
  <2>3. ASSUME NEW a \in Account, NEW j \in 0..Depth, up[j] = a, p[a] = Self \/ j = Depth
        PROVE  j = r
    <3>1. CASE p[a] = Self
      <4>1. Rooted(p, c, j)
        BY <2>3, <3>1, SelfNoAccount DEF Rooted
      <4> QED BY <2>1, <4>1, RootOnce
    <3>2. CASE j = Depth /\ j # r
      <4> DEFINE k == r + 1
      <4>1. k \in 0..Depth /\ k = r + 1 /\ j \in k..Depth
        BY <1>0, <3>2
      <4> HIDE DEF k
      <4>2. up[k] = Self
        BY <1>1, <2>2, <4>1
      <4>3. up[j] = Self
        BY <4>1, <4>2, UpEnded
      <4> QED BY <2>3, <4>3, SelfNoAccount
    <3> QED BY <2>3, <3>1, <3>2
  <2> QED BY <2>2, <2>3
<1>3. CASE \A r \in 0..Depth : ~Rooted(p, c, r)
  <2> DEFINE F == {k \in 0..Depth : up[k] = Self}
  <2>1. F = {}
    <3> SUFFICES ASSUME F # {} PROVE FALSE
      OBVIOUS
    <3>1. PICK k \in F : \A j \in F : k <= j
      <4>1. F \in SUBSET Nat
        OBVIOUS
      <4> HIDE DEF F
      <4> QED BY <4>1, LeastOf
    <3>2. k # 0
      BY <1>1, <3>1, SelfNoAccount
    <3>3. k - 1 \in 0..Depth /\ k \in 0..Depth /\ k = (k - 1) + 1 /\ ~(k <= k - 1)
      BY <1>0, <3>1, <3>2
    <3>4. up[k - 1] # Self
      BY <3>1, <3>3
    <3>5. p[up[k - 1]] = Self
      BY <1>1, <3>1, <3>3, <3>4
    <3> QED BY <1>3, <3>3, <3>4, <3>5 DEF Rooted
  <2>2. Depth \in 0..Depth /\ up[Depth] \in Account
    BY <1>0, <1>1, <2>1
  <2>3. ASSUME NEW a \in Account, NEW j \in 0..Depth, up[j] = a, p[a] = Self \/ j = Depth
        PROVE  j = Depth
    BY <1>3, <2>3, SelfNoAccount DEF Rooted
  <2> QED BY <2>2, <2>3
<1> QED BY <1>2, <1>3

\* What a holder is counted for is an amount.
LEMMA HeldInt ==
  ASSUME NEW p \in Proxying, NEW v, \A c \in Account : v[c] \in Int, NEW a \in Account
  PROVE  /\ Held(v, p, a) \in Int
         /\ \A j \in 0..Depth : Support(v, p, a, j) \in Int /\ Reached(v, p, a)[j] = Support(v, p, a, j)
<1>0. Depth \in Nat
  BY VestingAssumption
<1>1. \A j \in 0..Depth : Support(v, p, a, j) \in Int /\ Reached(v, p, a)[j] = Support(v, p, a, j)
  BY SupportInt DEF Reached
<1> DEFINE J == 0..Depth
<1>2. IsFiniteSet(J) /\ Depth \in J
  BY <1>0, FS_Interval
<1> HIDE DEF J
<1>3. \A j \in J : Reached(v, p, a)[j] \in Int
  BY <1>1 DEF J
<1>4. SumFunctionOnSet(Reached(v, p, a), J) \in Int
  BY <1>2, <1>3, SumType
<1>5. Held(v, p, a) \in Int
  BY <1>1, <1>2, <1>4 DEF Held, J
<1> QED BY <1>1, <1>5

\* More vests of one account are more for one holder.
LEMMA TallyRaised ==
  ASSUME NEW p \in Proxying, Ends(p), NEW v, NEW c \in Account, NEW n \in Int,
         NEW h, Raised(h, v, c, n)
  PROVE  Tally(h, p) = Tally(v, p) + n /\ Tally(v, p) \in Int
<1> DEFINE up == Up(p, c)
<1>0. Depth \in Nat /\ Depth # 0 /\ Depth \in 0..Depth
  BY VestingAssumption
<1>1. (\A b \in Account : v[b] \in Int) /\ (\A b \in Account : h[b] \in Int)
  BY DEF Raised
<1>2. PICK r \in 0..Depth :
        /\ up[r] \in Account /\ (p[up[r]] # Self => r = Depth)
        /\ \A a \in Account, j \in 0..Depth :
              up[j] = a /\ (p[a] = Self \/ j = Depth) => a = up[r] /\ j = r
  BY OneHolder
<1>3. ASSUME NEW a \in Account, NEW j \in 0..Depth
      PROVE  /\ up[j] = a => Support(h, p, a, j) = Support(v, p, a, j) + n
             /\ up[j] # a => Support(h, p, a, j) = Support(v, p, a, j)
  BY SupportAdded
<1>4. ASSUME NEW a \in Account
      PROVE  /\ Held(v, p, a) \in Int /\ Held(h, p, a) \in Int
             /\ \A j \in 0..Depth : /\ Support(v, p, a, j) \in Int
                                    /\ Reached(v, p, a)[j] = Support(v, p, a, j)
                                    /\ Reached(h, p, a)[j] = Support(h, p, a, j)
  BY <1>1, HeldInt
<1>5. ASSUME NEW a \in Account, a # up[r]
      PROVE  Held(h, p, a) = Held(v, p, a)
  <2>1. CASE p[a] = Self
    <3> DEFINE J == 0..Depth
               f == Reached(v, p, a)
               g == Reached(h, p, a)
    <3>1. \A j \in J : g[j] = f[j] /\ f[j] \in Int
      BY <1>2, <1>3, <1>4, <1>5, <2>1
    <3>2. IsFiniteSet(J)
      BY <1>0, FS_Interval
    <3> HIDE DEF J, f, g
    <3>3. SumFunctionOnSet(g, J) = SumFunctionOnSet(f, J)
      BY <3>1, <3>2, SumSame
    <3> QED BY <2>1, <3>3 DEF Held, J, f, g
  <2>2. CASE p[a] # Self
    <3>1. up[Depth] # a
      BY <1>0, <1>2, <1>5
    <3>2. Support(h, p, a, Depth) = Support(v, p, a, Depth)
      BY <1>0, <1>3, <3>1
    <3> QED BY <2>2, <3>2 DEF Held
  <2> QED BY <2>1, <2>2
<1>6. Held(h, p, up[r]) = Held(v, p, up[r]) + n
  <2> DEFINE a == up[r]
  <2>1. a \in Account /\ up[r] = a
    BY <1>2
  <2>2. Support(h, p, a, r) = Support(v, p, a, r) + n
    BY <1>3, <2>1
  <2>3. CASE p[a] = Self
    <3> DEFINE J == 0..Depth
               f == Reached(v, p, a)
               g == Reached(h, p, a)
    <3>1. \A j \in J \ {r} : g[j] = f[j]
      BY <1>2, <1>3, <1>4, <2>1, <2>3
    <3>2. \A j \in J : f[j] \in Int
      BY <1>4, <2>1
    <3>3. g[r] = f[r] + n /\ r \in J /\ f[r] \in Int
      BY <1>4, <2>1, <2>2
    <3>4. IsFiniteSet(J)
      BY <1>0, FS_Interval
    <3> HIDE DEF J, f, g, a
    <3>5. g[r] \in Int
      BY <3>3
    <3>6. SumFunctionOnSet(g, J) = SumFunctionOnSet(f, J) - f[r] + g[r]
      <4>1. ASSUME NEW x \in J, g[x] \in Int, \A j \in J \ {x} : g[j] = f[j]
            PROVE  SumFunctionOnSet(g, J) = SumFunctionOnSet(f, J) - f[x] + g[x]
        BY <3>2, <3>4, <4>1, SumChanged
      <4> QED BY <3>1, <3>3, <3>5, <4>1
    <3>7. SumFunctionOnSet(f, J) \in Int
      BY <3>2, <3>4, SumType
    <3> DEFINE t == SumFunctionOnSet(f, J)
    <3>8. t \in Int /\ SumFunctionOnSet(g, J) = t - f[r] + g[r]
      BY <3>6, <3>7
    <3> HIDE DEF t
    <3>9. SumFunctionOnSet(g, J) = t + n
      BY <3>3, <3>8
    <3>10. Held(h, p, a) = SumFunctionOnSet(g, J) /\ Held(v, p, a) = t
      BY <2>3 DEF Held, J, f, g, t
    <3> QED BY <3>9, <3>10 DEF a
  <2>4. CASE p[a] # Self
    <3>1. r = Depth
      BY <1>2, <2>4
    <3>2. Held(h, p, a) = Support(h, p, a, Depth) /\ Held(v, p, a) = Support(v, p, a, Depth)
      BY <2>4 DEF Held
    <3> HIDE DEF a
    <3>3. Held(h, p, a) = Held(v, p, a) + n
      BY <2>2, <3>1, <3>2
    <3> QED BY <3>3 DEF a
  <2> QED BY <2>3, <2>4
<1> DEFINE f == [a \in Account |-> Held(v, p, a)]
           g == [a \in Account |-> Held(h, p, a)]
           b == up[r]
<1>7. b \in Account /\ f[b] \in Int /\ g[b] \in Int /\ g[b] = f[b] + n
  BY <1>2, <1>4, <1>6
<1>8. (\A a \in Account : f[a] \in Int) /\ \A a \in Account \ {b} : g[a] = f[a]
  BY <1>4, <1>5
<1>9. IsFiniteSet(Account)
  BY VestingAssumption
<1> HIDE DEF f, g, b
<1>10. SumFunctionOnSet(g, Account) = SumFunctionOnSet(f, Account) - f[b] + g[b]
  BY <1>7, <1>8, <1>9, SumChanged
<1> DEFINE t == SumFunctionOnSet(f, Account)
<1>11. t \in Int
  BY <1>8, <1>9, SumType
<1>12. SumFunctionOnSet(g, Account) = t - f[b] + g[b]
  BY <1>10
<1> HIDE DEF t
<1>13. SumFunctionOnSet(g, Account) = t + n
  BY <1>7, <1>11, <1>12
<1> QED BY <1>11, <1>13 DEF Tally, f, g, t
\* So all the vests are counted, each once.
LEMMA TallyTotal ==
  ASSUME NEW p \in Proxying, Ends(p), NEW v \in [Account -> Int]
  PROVE  Tally(v, p) = SumFunctionOnSet(v, Account)
<1> DEFINE Only(T) == [c \in Account |-> IF c \in T THEN v[c] ELSE 0]
           F == {T \in SUBSET Account : Tally(Only(T), p) # SumFunctionOnSet(v, T)}
<1>0. IsFiniteSet(Account) /\ Depth \in Nat
  BY VestingAssumption
<1>1. ASSUME F # {} PROVE FALSE
  <2>1. PICK T \in F : IsFiniteSet(T) /\ \A x \in T : T \ {x} \notin F
    <3>1. F \in SUBSET (SUBSET Account)
      OBVIOUS
    <3> HIDE DEF F
    <3> QED BY <1>0, <1>1, <3>1, SmallestSubset
  <2>2. CASE T = {}
    <3> DEFINE h == Only(T)
    <3>1. \A c \in Account : h[c] = 0
      BY <2>2
    <3> HIDE DEF h
    <3>2. \A a \in Account, j \in 0..Depth : Support(h, p, a, j) = 0
      <4> TAKE a \in Account, j \in 0..Depth
      <4> DEFINE B == Below(p, a, j)
      <4>1. B \in SUBSET Account
        BY DEF Below
      <4>2. IsFiniteSet(B)
        BY <1>0, <4>1, FS_Subset
      <4> HIDE DEF B
      <4>3. \A x \in B : h[x] = 0
        BY <3>1, <4>1
      <4>4. SumFunctionOnSet(h, B) = 0
        BY <4>2, <4>3, SumZero
      <4> QED BY <4>4 DEF Support, B
    <3>3. \A a \in Account : Held(h, p, a) = 0
      <4> TAKE a \in Account
      <4> DEFINE J == 0..Depth
      <4>1. IsFiniteSet(J) /\ Depth \in J
        BY <1>0, FS_Interval
      <4>2. \A j \in J : Reached(h, p, a)[j] = 0
        BY <3>2 DEF Reached
      <4>3. Support(h, p, a, Depth) = 0
        BY <3>2, <4>1
      <4> HIDE DEF J
      <4>4. SumFunctionOnSet(Reached(h, p, a), J) = 0
        BY <4>1, <4>2, SumZero
      <4> QED BY <4>3, <4>4 DEF Held, J
    <3> DEFINE g == [a \in Account |-> Held(h, p, a)]
    <3>4. \A x \in Account : g[x] = 0
      BY <3>3
    <3> HIDE DEF g
    <3>5. SumFunctionOnSet(g, Account) = 0
      BY <1>0, <3>4, SumZero
    <3>6. Tally(h, p) = 0
      BY <3>5 DEF Tally, g
    <3> QED BY <2>1, <2>2, <3>6, SumEmpty DEF h
  <2>3. CASE T # {}
    <3>1. PICK c \in T : TRUE
      BY <2>3
    <3> DEFINE R == T \ {c}
               h == Only(T)
               e == Only(R)
    <3>2. T \in SUBSET Account /\ R \in SUBSET Account /\ R \notin F /\ c \in Account
      BY <2>1
    <3>3. Tally(e, p) = SumFunctionOnSet(v, R)
      BY <3>2
    <3>4. Raised(h, e, c, v[c]) /\ v[c] \in Int
      BY <3>2 DEF Raised
    <3>5. Tally(h, p) # SumFunctionOnSet(v, T)
      BY <2>1
    <3> HIDE DEF h, e
    <3>6. Tally(h, p) = Tally(e, p) + v[c]
      BY <3>2, <3>4, TallyRaised
    <3>7. \A x \in T : v[x] \in Int
      BY <3>2
    <3>8. SumFunctionOnSet(v, T) = SumFunctionOnSet(v, R) + v[c]
      BY <2>1, <3>7, SumAdd
    <3> QED BY <3>3, <3>5, <3>6, <3>8
  <2> QED BY <2>2, <2>3
<1>2. Account \in SUBSET Account /\ Account \notin F
  BY <1>1
<1>3. Only(Account) = v
  OBVIOUS
<1> QED BY <1>2, <1>3

\* The account a votes with what reaches it, if it votes itself.
LEMMA HeldIs ==
  ASSUME NEW d, VotesRight(d), NEW a \in Account
  PROVE  Held(d.vests, d.proxy, a) =
            IF d.proxy[a] = Self THEN Weight(d, a) ELSE d.proxied[a][Depth-1]
<1> DEFINE v == d.vests
           p == d.proxy
           J == 0..Depth
<1>0. Depth \in Nat /\ Depth # 0
  BY VestingAssumption
<1>1. VoteTypes(d) /\ Following(d)
  BY DEF VotesRight
<1>2. CASE p[a] = Self
  <2> DEFINE f == AllVotes(d, a)
             g == Reached(v, p, a)
  <2>1. f \in [J -> Int] /\ \A j \in J : f[j] = Support(v, p, a, j)
    BY AllVotesFollow
  <2>2. SumFunctionOnSet(f, J) = Weight(d, a)
    BY <1>1, AllVotesSum
  <2>3. IsFiniteSet(J) /\ \A j \in J : g[j] = Support(v, p, a, j)
    BY <1>0, FS_Interval DEF Reached
  <2> HIDE DEF J, f, g
  <2>4. (\A j \in J : f[j] \in Int) /\ \A j \in J : g[j] = f[j]
    BY <2>1, <2>3
  <2>5. SumFunctionOnSet(g, J) = SumFunctionOnSet(f, J)
    BY <2>3, <2>4, SumSame
  <2> QED BY <1>2, <2>2, <2>5 DEF Held, J, g
<1>3. CASE p[a] # Self
  <2>1. Depth - 1 \in 0..(Depth - 1) /\ (Depth - 1) + 1 = Depth
    BY <1>0
  <2>2. d.proxied[a][Depth - 1] = Support(v, p, a, (Depth - 1) + 1)
    BY <1>1, <2>1 DEF Following
  <2> QED BY <1>3, <2>1, <2>2 DEF Held
<1> QED BY <1>2, <1>3

\* The votes that validate_invariants adds up are the shares.
LEMMA SharesTallied ==
  ASSUME NEW d, VotesRight(d), d.shares = Total(d.vests)
  PROVE  d.shares = Total([a \in Account |-> IF d.proxy[a] = Self THEN Weight(d, a)
                                             ELSE d.proxied[a][Depth-1]])
<1> DEFINE f == [a \in Account |-> IF d.proxy[a] = Self THEN Weight(d, a)
                                   ELSE d.proxied[a][Depth-1]]
           g == [a \in Account |-> Held(d.vests, d.proxy, a)]
<1>1. d.vests \in [Account -> Int] /\ d.proxy \in Proxying /\ Ends(d.proxy)
  BY DEF VotesRight, VoteTypes
<1>2. g = f
  BY HeldIs
<1>3. DOMAIN d.vests = Account /\ DOMAIN f = Account
  BY <1>1
<1>4. Tally(d.vests, d.proxy) = SumFunctionOnSet(g, Account)
  BY DEF Tally
<1> HIDE DEF f, g
<1>5. SumFunctionOnSet(f, Account) = SumFunctionOnSet(d.vests, Account)
  BY <1>1, <1>2, <1>4, TallyTotal
<1>6. Total(d.vests) = SumFunctionOnSet(d.vests, Account) /\ Total(f) = SumFunctionOnSet(f, Account)
  BY <1>3, Zenon DEF Total, SumFunction
<1>7. d.shares = Total(f)
  BY <1>5, <1>6
<1> QED BY <1>7 DEF f

\* A chain without an end would meet an account twice.
LEMMA ChainEnds ==
  ASSUME NEW p \in Proxying, Ends(p), NEW a \in Account,
         NEW up, Chain(up, p, a, Cardinality(Account))
  PROVE  up[Cardinality(Account)] = Self
<1> DEFINE n == Cardinality(Account)
<1>0. IsFiniteSet(Account) /\ n \in Nat
  BY VestingAssumption, FS_CardinalityType
<1>1. Chain(up, p, a, n)
  OBVIOUS
<1> HIDE DEF n
<1>2. /\ up[0] = a /\ \A k \in 0..n : up[k] \in Account \cup {Self}
      /\ \A j, k \in 0..n : k = j + 1 => up[k] = IF up[j] = Self THEN Self ELSE p[up[j]]
  BY <1>0, <1>1, ChainSteps
<1>3. SUFFICES ASSUME up[n] # Self PROVE FALSE
  BY DEF n
<1> DEFINE F == {k \in 0..n : up[n - k] = Self}
<1>4. F = {}
  <2> SUFFICES ASSUME F # {} PROVE FALSE
    OBVIOUS
  <2>1. PICK k \in F : \A j \in F : k <= j
    <3>1. F \in SUBSET Nat
      OBVIOUS
    <3> HIDE DEF F
    <3> QED BY <3>1, LeastOf
  <2>2. k # 0
    <3>1. n - 0 = n
      BY <1>0
    <3> QED BY <1>3, <2>1, <3>1
  <2>3. k - 1 \in 0..n /\ n - k \in 0..n /\ n - (k - 1) \in 0..n /\ n - (k - 1) = (n - k) + 1 /\ ~(k <= k - 1)
    BY <1>0, <2>1, <2>2
  <2>4. up[n - (k - 1)] = Self
    BY <1>2, <2>1, <2>3
  <2> QED BY <2>1, <2>3, <2>4
<1>5. \A k \in 0..n : up[k] \in Account
  <2> TAKE k \in 0..n
  <2>1. n - k \in 0..n /\ n - (n - k) = k
    BY <1>0
  <2>2. up[k] # Self
    BY <1>4, <2>1
  <2> QED BY <1>2, <2>2
<1> DEFINE S == 0..n
           f == [k \in S |-> up[k]]
<1>6. f \in [S -> Account] /\ \A k \in S : f[k] = up[k] /\ k \in 0..n
  BY <1>5
<1>7. IsFiniteSet(S) /\ Cardinality(S) = n + 1
  BY <1>0, FS_Interval
<1> HIDE DEF S, f
<1>8. Cardinality(Account) < Cardinality(S)
  BY <1>0, <1>7 DEF n
<1>9. PICK i \in S, j \in S : i # j /\ f[i] = f[j]
  BY <1>0, <1>6, <1>7, <1>8, FS_PigeonHole
<1>10. i \in 0..n /\ j \in 0..n /\ up[i] = up[j]
  BY <1>6, <1>9
<1>11. up[i] = Self
  BY <1>0, <1>1, <1>9, <1>10, NoReturn
<1> QED BY <1>5, <1>10, <1>11, SelfNoAccount

-----------------------------------------------------------------------------
(* The theorems.                                                           *)

\* adjust_proxied_witness_votes, over any chains of proxies: what an account
\* has booked as proxied at a distance are the vests of those at that distance.
THEOREM ProxiedVotesAreFollowers ==
  ASSUME Inflation > 0
  PROVE  Spec => []ProxiedAreFollowers
<1>1. VInv => ProxiedAreFollowers
  <2> SUFFICES ASSUME VInv PROVE ProxiedAreFollowers
    OBVIOUS
  <2>1. Following(db)
    BY DEF VInv, VotesRight
  <2>2. \A a \in Account : ProxyChain(db, a) = Up(db.proxy, a)
    BY UpIsChain
  <2>3. ASSUME NEW b \in Account, NEW i \in 0..(Depth-1)
        PROVE  db.proxied[b][i] =
                  SumFunctionOnSet(db.vests, {a \in Account : ProxyChain(db, a)[i+1] = b})
    <3>1. {a \in Account : ProxyChain(db, a)[i+1] = b} = Below(db.proxy, b, i + 1)
      BY <2>2 DEF Below
    <3>2. db.proxied[b][i] = SumFunctionOnSet(db.vests, Below(db.proxy, b, i + 1))
      BY <2>1 DEF Following, Support
    <3> QED BY <3>1, <3>2
  <2> QED BY <2>3 DEF ProxiedAreFollowers
<1> QED BY <1>1, VotesStay, PTL

\* A witness has the weight of those who vote for it, through every change of
\* proxies, votes and vests, and who has a proxy votes for nobody.
THEOREM WitnessVotesAreVoters ==
  ASSUME Inflation > 0
  PROVE  Spec => []VotesAreVoters
<1>1. VInv => VotesAreVoters
  BY DEF VInv, VotesRight, Backing, Counted, Voters, Weights, VotesAreVoters
<1> QED BY <1>1, VotesStay, PTL

\* No operation closes a loop of proxies, and every share is counted as one
\* vote: validate_invariants.
THEOREM EveryShareVotesOnce ==
  ASSUME Inflation > 0
  PROVE  Spec => []SharesVoteOnce
<1>1. VInv => SharesVoteOnce
  <2> SUFFICES ASSUME VInv PROVE SharesVoteOnce
    OBVIOUS
  <2>1. VotesRight(db) /\ Books(db) /\ db.proxy \in Proxying /\ Ends(db.proxy)
    BY DEF VInv, IInv, Good, VotesRight, VoteTypes
  <2>2. ASSUME NEW a \in Account PROVE ProxiesEnd(a)
    <3> DEFINE N == Cardinality(Account)
               up == CHOOSE u : Chain(u, db.proxy, a, N)
    <3>1. N \in Nat
      BY VestingAssumption, FS_CardinalityType
    <3>2. Chain(up, db.proxy, a, N)
      <4>1. \E u : Chain(u, db.proxy, a, N)
        BY <3>1, ChainExists
      <4> QED BY <4>1, Zenon
    <3>3. up = CHOOSE u : u = [k \in 0..N |-> IF k = 0 THEN a
                                 ELSE IF u[k-1] = Self THEN Self ELSE db.proxy[u[k-1]]]
      BY Zenon DEF Chain
    <3>4. ProxiesEnd(a) <=> up[N] = Self
      BY <3>3, Zenon DEF ProxiesEnd
    <3> HIDE DEF up
    <3>5. up[N] = Self
      BY <2>1, <3>2, ChainEnds
    <3> QED BY <3>4, <3>5
  <2>3. db.shares = Total(db.vests)
    BY <2>1 DEF Books
  <2> QED BY <2>1, <2>2, <2>3, SharesTallied DEF SharesVoteOnce
<1> QED BY <1>1, VotesStay, PTL

=============================================================================
