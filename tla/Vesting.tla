------------------------------ MODULE Vesting ------------------------------
(***************************************************************************)
(* The money of the chain (balances, vesting shares, the vesting fund),    *)
(* power-downs and their routes, and the witness votes that vesting shares *)
(* carry, through proxies, to witnesses.                                   *)
(*                                                                         *)
(* The whole of the database this module is about is one record, db, as in *)
(* the code, where an evaluator that throws leaves the database as it was  *)
(* (undo session): an operator takes the record and returns the new one    *)
(* and a failed FC_ASSERT on the way clears its field ok.  An operation    *)
(* with ok = FALSE changes nothing; a block whose end-of-block work throws *)
(* is not applied, which the variable failed records.                      *)
(***************************************************************************)
EXTENDS Integers, FiniteSetsExt, Functions, Folds

CONSTANTS
    Account,      \* account ids, natural numbers: the indices order by id
    Null,         \* WLS_NULL_ACCOUNT
    DevFund,      \* WLS_DEV_FUND_ACC_NAME
    User,         \* accounts that have keys and so can sign operations
    Witness,      \* accounts that own a witness
    Depth,        \* WLS_MAX_PROXY_RECURSION_DEPTH
    MaxVotedFor,  \* WLS_MAX_ACCOUNT_WITNESS_VOTES
    Intervals,    \* WLS_VESTING_WITHDRAW_INTERVALS
    Week,         \* WLS_VESTING_WITHDRAW_INTERVAL_SECONDS, in blocks
    MaxRoutes,    \* WLS_MAX_WITHDRAW_ROUTES
    Hundred,      \* WLS_100_PERCENT
    Inflation,    \* get_current_inflation_rate, out of Hundred
    CreationFee,  \* median_props.account_creation_fee
    VestsPerWls,  \* price of the first vesting share: 1000
    Minted,       \* what a block mints: records of content, dev, witness
    StartBalance, StartVested, StartReward, \* WLS held, vested, to be claimed
    Amounts,      \* WLS that transfers and deposits name
    Vests,        \* vests that power-downs name
    Claims,       \* WLS and vests that claims name
    Percents,     \* percents that route operations name
    RouteTo,      \* accounts that route operations name
    Proxies,      \* accounts that proxy operations name
    MaxSupply     \* bound on what is minted

Self == -1      \* WLS_PROXY_TO_SELF_ACCOUNT, the empty name
Never == -1     \* time_point_sec::maximum()
NoRoute == [percent |-> 0, auto |-> FALSE]

ASSUME VestingAssumption ==
    /\ Account \subseteq Nat /\ IsFiniteSet(Account)
    /\ User \subseteq Account /\ Witness \subseteq Account
    /\ Null \in Account \ User /\ DevFund \in Account
    /\ {Depth, Intervals, Week, Hundred, VestsPerWls} \subseteq Nat \ {0}
    /\ Inflation \in 0..Hundred /\ CreationFee \in Nat
    /\ Minted \subseteq [content : Nat, dev : Nat, witness : Nat]

\* validate() of the operations; a power-down of 0 is StopWithdraw.
ASSUME InputAssumption ==
    /\ Amounts \subseteq Nat /\ Vests \subseteq Nat \ {0} /\ Claims \subseteq Nat
    /\ Percents \subseteq 0..Hundred
    /\ RouteTo \subseteq Account /\ Proxies \subseteq Account

\* Since the first block, which vests the pay of its witness, somebody other
\* than null has had vests.
ASSUME StartAssumption ==
    /\ {StartBalance, StartVested, StartReward} \subseteq [Account -> Nat]
    /\ \E a \in Account \ {Null} : StartVested[a] > 0

VARIABLES db, failed
vars == <<db, failed>>
-----------------------------------------------------------------------------
(* Prices.  Division of non-negative amounts rounds down.                  *)

\* The price of a share is the whole fund over all the shares, and a fixed
\* one when there is no fund or are no shares.
Unpriced(d) == d.fund = 0 \/ d.shares = 0

\* Mutant of ToVests: a deposit is rounded up.
ToVestsUp(d, n) ==
    IF Unpriced(d) THEN n * VestsPerWls ELSE (n * d.shares + d.fund - 1) \div d.fund

ToVests(d, n) ==
    IF Unpriced(d) THEN n * VestsPerWls ELSE (n * d.shares) \div d.fund

ToWls(d, v) ==
    IF Unpriced(d) THEN v \div VestsPerWls ELSE (v * d.fund) \div d.shares

\* n is added to what f, a column of the accounts, has for account a.
Credit(f, a, n) == [f EXCEPT ![a] = @ + n]

-----------------------------------------------------------------------------
(* Witness votes and proxies.                                              *)

Weight(d, a) == d.vests[a] + SumFunction(d.proxied[a])

\* adjust_witness_votes: every witness a has voted for gains delta, and none
\* may end with more votes than there are vesting shares.
AdjustWitnessVotes(d, a, delta) ==
    LET for == {w \in Witness : <<a, w>> \in d.voted}
    IN [d EXCEPT !.votes = [w \in Witness |->
                               IF w \in for THEN d.votes[w] + delta ELSE d.votes[w]],
                 !.ok = @ /\ \A w \in for : d.votes[w] + delta =< d.shares]

\* The accounts met by following proxies from a: a, its proxy, and so on.
ProxyChain(d, a) ==
    LET up[k \in 0..Depth] ==
            IF k = 0 THEN a
            ELSE IF up[k-1] = Self THEN Self ELSE d.proxy[up[k-1]]
    IN up

\* adjust_proxied_witness_votes.  delta[0] are vests of a itself and delta[i]
\* vests that reached it over i proxies; each proxy above a, as far as Depth,
\* books them by the number of proxies they crossed, and the account the chain
\* ends in, if it is not further than Depth, casts them.
AdjustProxied(d, a, delta) ==
    LET up == ProxyChain(d, a)
        Gain(b, i) == SumFunctionOnSet([k \in 1..(i+1) |-> delta[i - k + 1]],
                                       {k \in 1..(i+1) : up[k] = b})
        booked == [d EXCEPT !.proxied =
            [b \in Account |-> [i \in 0..(Depth-1) |-> d.proxied[b][i] + Gain(b, i)]]]
        root == {k \in 0..Depth : up[k] # Self /\ d.proxy[up[k]] = Self}
    IN IF root = {} THEN booked
       ELSE LET r == Min(root)
            IN AdjustWitnessVotes(booked, up[r], SumFunctionOnSet(delta, 0..(Depth-r)))

\* Mutant of AdjustOwnVotes: only the account's own votes change.
AdjustIgnoresProxy(d, a, n) == AdjustWitnessVotes(d, a, n)

\* The overload for a change of a's own vests.
AdjustOwnVotes(d, a, n) ==
    AdjustProxied(d, a, [i \in 0..Depth |-> IF i = 0 THEN n ELSE 0])

\* Mutant of AllVotes: forgets what is proxied to a.
AllVotesOwn(d, a) == [i \in 0..Depth |-> IF i = 0 THEN d.vests[a] ELSE 0]

\* Everything a votes with: its own vests and what is proxied to it.
AllVotes(d, a) ==
    [i \in 0..Depth |-> IF i = 0 THEN d.vests[a] ELSE d.proxied[a][i-1]]

Negated(delta) == [i \in DOMAIN delta |-> -delta[i]]

\* The walk up from the new proxy p that refuses a loop and a long chain.
ProxyAllowed(d, a, p) ==
    LET up == ProxyChain(d, p)
    IN \/ d.proxy[p] = Self
       \/ \E m \in 1..(Depth-2) :
             /\ up[m] # Self /\ d.proxy[up[m]] = Self
             /\ \A j \in 1..m : up[j] # a

\* Mutant of ClearWitnessVotes: the vote objects stay.
ClearCounterOnly(d, a) == [d EXCEPT !.votedFor[a] = 0]

ClearWitnessVotes(d, a) ==
    [d EXCEPT !.voted = {v \in @ : v[1] # a}, !.votedFor[a] = 0]
-----------------------------------------------------------------------------
(* Vesting.                                                                *)

\* create_vesting of n WLS for an account (not for its rewards).
CreateVesting(d, to, n) ==
    LET v == ToVests(d, n)
    IN AdjustOwnVotes([d EXCEPT !.vests = Credit(@, to, v), !.fund = @ + n,
                                !.shares = @ + v], to, v)

\* clear_null_account_balance: what null holds leaves the supply.  WLS rewarded
\* as vests stay when the vests they bought are 0.
ClearNull(d) ==
    LET wls == ToWls(d, d.vests[Null])
        steem == IF d.rewardVests[Null] > 0 THEN d.rewardSteem[Null] ELSE 0
        burnt == d.balance[Null] + wls + d.reward[Null] + steem
        Cleared(f) == [f EXCEPT ![Null] = 0]
    IN [d EXCEPT !.balance = Cleared(@), !.vests = Cleared(@), !.reward = Cleared(@),
                 !.rewardVests = Cleared(@), !.rewardSteem = Credit(@, Null, -steem),
                 !.shares = @ - d.vests[Null], !.fund = @ - wls,
                 !.pendShares = @ - d.rewardVests[Null],
                 !.pendSteem = @ - steem,
                 !.supply = @ - burnt]

\* process_funds: new WLS for content, for the developers and, as vesting,
\* for the witness of the block.
ProcessFunds(d, w, m) ==
    LET minted == [d EXCEPT !.supply = @ + m.content + m.dev + m.witness,
                            !.rewardFund = @ + m.content]
    IN [CreateVesting(minted, w, m.witness) EXCEPT !.balance = Credit(@, DevFund, m.dev)]
-----------------------------------------------------------------------------
(* Power-downs.                                                            *)

\* The four fields of an account's power-down.
SetPowerDown(d, a, rate, next, toWithdraw, withdrawn) ==
    [d EXCEPT !.rate = [@ EXCEPT ![a] = rate], !.next = [@ EXCEPT ![a] = next],
              !.toWithdraw = [@ EXCEPT ![a] = toWithdraw],
              !.withdrawn = [@ EXCEPT ![a] = withdrawn]]

\* The destinations of an account.  The loops start at upper_bound(from,
\* account_id_type()), beyond a route to account 0.
RoutesOf(d, a) == {b \in Account \ {0} : d.routes[a][b].percent > 0}

Part(r, v) == (v * r.percent) \div Hundred

PartsOf(d, a, v) == SumFunction([b \in RoutesOf(d, a) |-> Part(d.routes[a][b], v)])

\* Op is applied to d for one account of S after the other, by their ids.
InTurn(Op(_, _), d, S) ==
    MapThenFoldSet(LAMBDA b, x : Op(x, b), d, LAMBDA b : b, LAMBDA T : Max(T), S)

\* Mutant of Instalment: the last one is as large as the others.
InstalmentFull(d, a) == Min({d.vests[a], d.rate[a]})

Instalment(d, a) ==
    LET left == d.toWithdraw[a] - d.withdrawn[a]
        due == IF left < d.rate[a] THEN d.toWithdraw[a] % d.rate[a] ELSE d.rate[a]
    IN Min({d.vests[a], due})

\* A route that vests again: the destination b gets shares.
PayVests(d, a, b, v) ==
    LET part == Part(d.routes[a][b], v)
    IN IF ~d.routes[a][b].auto \/ part = 0 THEN d
       ELSE AdjustOwnVotes([d EXCEPT !.vests = Credit(@, b, part)], b, part)

\* Mutant of PayWls: the fund keeps what it paid.
PayWlsTwice(d, a, b, v) ==
    LET part == Part(d.routes[a][b], v)
    IN IF d.routes[a][b].auto THEN d
       ELSE [d EXCEPT !.balance = Credit(@, b, ToWls(d, part)), !.shares = @ - part]

\* A route that does not: the destination gets WLS out of the fund.
PayWls(d, a, b, v) ==
    LET part == Part(d.routes[a][b], v)
        wls == ToWls(d, part)
    IN IF d.routes[a][b].auto THEN d
       ELSE [d EXCEPT !.balance = Credit(@, b, wls), !.fund = @ - wls, !.shares = @ - part]

PayAllVests(d, a, v) == InTurn(LAMBDA x, b : PayVests(x, a, b, v), d, RoutesOf(d, a))

PayAllWls(d, a, v) == InTurn(LAMBDA x, b : PayWls(x, a, b, v), d, RoutesOf(d, a))

\* The rest of an instalment goes to the account itself, which then loses the
\* votes.
PayRest(d, a, v, rest) ==
    LET wls == ToWls(d, rest)
        paid == d.withdrawn[a] + v
        done == paid >= d.toWithdraw[a] \/ d.vests[a] = v
        x == [d EXCEPT !.balance = Credit(@, a, wls), !.vests = Credit(@, a, -v),
                       !.fund = @ - wls, !.shares = @ - rest]
        rate == IF done THEN 0 ELSE d.rate[a]
        next == IF done THEN Never ELSE d.next[a] + Week
    IN AdjustOwnVotes(SetPowerDown(x, a, rate, next, d.toWithdraw[a], paid), a, -v)

\* One account's instalment: the routes that vest, the routes that do not, the
\* rest.
Withdraw(d, a) ==
    LET v == Instalment(d, a)
        rest == v - PartsOf(d, a, v)
    IN IF rest < 0 THEN [d EXCEPT !.ok = FALSE]
       ELSE PayRest(PayAllWls(PayAllVests(d, a, v), a, v), a, v, rest)

\* All those whose time has come.
WithdrawDue(d) == InTurn(Withdraw, d, {a \in Account : d.next[a] = 0})

\* process_vesting_withdrawals, one block later than the last time.
ProcessWithdrawals(d) ==
    WithdrawDue([d EXCEPT !.next = [a \in Account |->
                     IF d.next[a] > 0 THEN d.next[a] - 1 ELSE d.next[a]]])
-----------------------------------------------------------------------------
(* Operations.                                                             *)

Apply(d) == d.ok /\ db' = d /\ UNCHANGED failed

Transfer(a, b, n) ==
    /\ db.balance[a] >= n
    /\ Apply([db EXCEPT !.balance = Credit(Credit(@, a, -n), b, n)])

TransferToVesting(a, b, n) ==
    /\ db.balance[a] >= n
    /\ Apply(CreateVesting([db EXCEPT !.balance = Credit(@, a, -n)], b, n))

StopWithdraw(a) ==
    /\ db.rate[a] # 0
    /\ Apply(SetPowerDown(db, a, 0, Never, 0, 0))

WithdrawVesting(a, v) ==
    LET rate == Max({1, v \div Intervals})
    IN /\ v =< db.vests[a]
       /\ v =< (db.vests[a] * (Hundred - Inflation)) \div Hundred
       /\ db.vests[a] > 10 * ToVests(db, CreationFee)
       /\ rate # db.rate[a]
       /\ Apply(SetPowerDown(db, a, rate, Week, v, 0))

\* A percent of 0 removes the route.
SetWithdrawVestingRoute(a, b, p, auto) ==
    LET old == db.routes[a][b].percent
        d == [db EXCEPT !.routes[a][b] = [percent |-> p, auto |-> p # 0 /\ auto]]
    IN /\ old = 0 => /\ p # 0
                     /\ Cardinality({c \in Account : db.routes[a][c].percent > 0}) < MaxRoutes
       /\ SumFunction([c \in RoutesOf(d, a) |-> d.routes[a][c].percent]) =< Hundred
       /\ Apply(d)

\* The votes leave the old proxy, or the witnesses, before the chain of the
\* new one is walked; the account's own votes go when it gets a proxy.
AccountWitnessProxy(a, p) ==
    LET delta == AllVotes(db, a)
        taken == AdjustProxied(db, a, Negated(delta))
        moved == [ClearWitnessVotes(taken, a) EXCEPT !.proxy[a] = p]
    IN /\ db.proxy[a] # p /\ p # a
       /\ IF p = Self
          THEN Apply([taken EXCEPT !.proxy[a] = Self])
          ELSE ProxyAllowed(taken, a, p) /\ Apply(AdjustProxied(moved, a, delta))

AccountWitnessVote(a, w) ==
    /\ db.proxy[a] = Self /\ <<a, w>> \notin db.voted
    /\ db.votedFor[a] < MaxVotedFor
    /\ db.votes[w] + Weight(db, a) =< db.shares
    /\ Apply([db EXCEPT !.voted = @ \cup {<<a, w>>}, !.votedFor[a] = @ + 1,
                        !.votes[w] = @ + Weight(db, a)])

AccountWitnessUnvote(a, w) ==
    /\ db.proxy[a] = Self /\ <<a, w>> \in db.voted
    /\ db.votes[w] - Weight(db, a) =< db.shares
    /\ Apply([db EXCEPT !.voted = @ \ {<<a, w>>}, !.votedFor[a] = @ - 1,
                        !.votes[w] = @ - Weight(db, a)])

ClaimRewardBalance(a, n, v) ==
    LET wls == IF v = db.rewardVests[a] THEN db.rewardSteem[a]
               ELSE (v * db.rewardSteem[a]) \div db.rewardVests[a]
    IN /\ n > 0 \/ v > 0
       /\ n =< db.reward[a] /\ v =< db.rewardVests[a]
       /\ Apply(AdjustOwnVotes(
             [db EXCEPT !.reward = Credit(@, a, -n), !.balance = Credit(@, a, n),
                        !.vests = Credit(@, a, v), !.rewardVests = Credit(@, a, -v),
                        !.rewardSteem = Credit(@, a, -wls), !.shares = @ + v, !.fund = @ + wls,
                        !.pendShares = @ - v, !.pendSteem = @ - wls], a, v))

\* The end of a block signed by w.
Block(w, m) ==
    LET d == ProcessWithdrawals(ProcessFunds(ClearNull(db), w, m))
    IN /\ db.supply + m.content + m.dev + m.witness =< MaxSupply
       /\ failed' = ~d.ok
       /\ db' = IF d.ok THEN d ELSE db
-----------------------------------------------------------------------------
Zero == [a \in Account |-> 0]

Total(f) == SumFunction(f)

Bought(f) == [a \in Account |-> f[a] * VestsPerWls]

\* A chain in which accounts have WLS, vests bought at the first price, and
\* rewards to claim, as many WLS again as WLS in vests.
Init ==
    /\ db = [balance |-> StartBalance, vests |-> Bought(StartVested),
             reward |-> StartReward, rewardVests |-> Bought(StartReward),
             rewardSteem |-> StartReward,
             proxy |-> [a \in Account |-> Self],
             proxied |-> [a \in Account |-> [i \in 0..(Depth-1) |-> 0]],
             voted |-> {}, votedFor |-> Zero, votes |-> [w \in Witness |-> 0],
             rate |-> Zero, toWithdraw |-> Zero, withdrawn |-> Zero,
             next |-> [a \in Account |-> Never],
             routes |-> [a \in Account |-> [b \in Account |-> NoRoute]],
             fund |-> Total(StartVested), shares |-> Total(Bought(StartVested)),
             pendShares |-> Total(Bought(StartReward)), pendSteem |-> Total(StartReward),
             rewardFund |-> 0,
             supply |-> Total(StartBalance) + Total(StartVested) + 2 * Total(StartReward),
             ok |-> TRUE]
    /\ failed = FALSE

Next ==
    \/ \E a \in User, b \in Account, n \in Amounts : Transfer(a, b, n)
    \/ \E a \in User, b \in Account, n \in Amounts : TransferToVesting(a, b, n)
    \/ \E a \in User : StopWithdraw(a)
    \/ \E a \in User, v \in Vests : WithdrawVesting(a, v)
    \/ \E a \in User, b \in RouteTo, p \in Percents, auto \in BOOLEAN :
          SetWithdrawVestingRoute(a, b, p, auto)
    \/ \E a \in User, p \in Proxies \cup {Self} : AccountWitnessProxy(a, p)
    \/ \E a \in User, w \in Witness : AccountWitnessVote(a, w)
    \/ \E a \in User, w \in Witness : AccountWitnessUnvote(a, w)
    \/ \E a \in User, n \in Claims \cup {0}, v \in Claims \cup {0} :
          ClaimRewardBalance(a, n, v)
    \/ \E w \in Witness, m \in Minted : Block(w, m)

Spec == Init /\ [][Next]_vars
-----------------------------------------------------------------------------
(* What has to be true.                                                    *)

Amount == [Account -> Nat]
ByDistance == [Account -> [0..(Depth-1) -> Int]]
Due == [Account -> {Never} \cup 0..Week]
Route == [percent : 0..Hundred, auto : BOOLEAN]
Routing == [Account -> [Account -> Route]]

Db == [balance : Amount, vests : Amount,
       reward : Amount, rewardVests : Amount, rewardSteem : Amount,
       proxy : [Account -> Account \cup {Self}], proxied : ByDistance,
       voted : SUBSET (Account \X Witness), votedFor : [Account -> Int],
       votes : [Witness -> Int],
       rate : Amount, toWithdraw : Amount, withdrawn : Amount, next : Due,
       routes : Routing, fund : Nat, shares : Nat, pendShares : Nat, pendSteem : Nat,
       rewardFund : Nat, supply : Nat, ok : BOOLEAN]

\* Every amount has its type and none is negative, the fund and the pending
\* rewards included, which several operations take rounded amounts from.
TypeOK == db \in Db /\ db.ok /\ failed \in BOOLEAN /\ \A a \in Account : db.next[a] # 0

\* What is booked to an account as proxied over i proxies are the vests of
\* exactly the accounts that reach it over i proxies now, whatever sequence
\* of proxy changes, deposits, instalments and claims led here: also where a
\* chain has grown, by its followers, beyond what adjust_proxied_witness_votes
\* carries.
ProxiedAreFollowers ==
    \A b \in Account, i \in 0..(Depth-1) :
       db.proxied[b][i] =
          SumFunctionOnSet(db.vests, {a \in Account : ProxyChain(db, a)[i+1] = b})

\* A witness has the weight of the accounts that vote for it, no more and no
\* less, and only accounts without a proxy vote for witnesses.
VotesAreVoters ==
    /\ \A w \in Witness :
          db.votes[w] = SumFunctionOnSet([a \in Account |-> Weight(db, a)],
                                         {a \in Account : <<a, w>> \in db.voted})
    /\ \A v \in db.voted : db.proxy[v[1]] = Self
    /\ \A a \in Account : db.votedFor[a] = Cardinality({v \in db.voted : v[1] = a})

\* validate_invariants: neither WLS nor shares are made or lost by the
\* rounding of prices, by routes or by claims.  The supply is what accounts and
\* funds hold, the shares are the vests of the accounts, and those to be
\* claimed the rewards.
SupplyAccounted ==
    /\ TypeOK
    /\ db.supply = Total(db.balance) + Total(db.reward) + db.fund + db.pendSteem + db.rewardFund
    /\ db.shares = Total(db.vests)
    /\ db.pendShares = Total(db.rewardVests) /\ db.pendSteem = Total(db.rewardSteem)

\* Following proxies from a ends.
ProxiesEnd(a) ==
    LET up[k \in 0..Cardinality(Account)] ==
            IF k = 0 THEN a
            ELSE IF up[k-1] = Self THEN Self ELSE db.proxy[up[k-1]]
    IN up[Cardinality(Account)] = Self

\* validate_invariants: every share is counted once as a vote, by the account
\* it votes through or, when that is too far up, by the last one booking it.
\* No sequence of proxy changes closes a loop, whose shares nobody would vote
\* with (the walk in account_witness_proxy_evaluator).
SharesVoteOnce ==
    /\ \A a \in Account : ProxiesEnd(a)
    /\ db.shares = Total([a \in Account |-> IF db.proxy[a] = Self THEN Weight(db, a)
                                            ELSE db.proxied[a][Depth-1]])

\* A power-down pays out what was asked for: it never pays more, and when it
\* ends in a block it has paid all of it unless the vests ran out.
PowerDownExact ==
    [][ \A a \in Account :
           db.rate[a] # 0 /\ db'.withdrawn[a] # db.withdrawn[a] /\ db'.withdrawn[a] # 0 =>
              /\ db'.withdrawn[a] - db.withdrawn[a] \in 1..db.rate[a]
              /\ db'.withdrawn[a] =< db.toWithdraw[a]
              /\ db'.rate[a] = 0 =>
                    db'.withdrawn[a] = db.toWithdraw[a] \/ db'.vests[a] = 0 ]_vars

\* "The ratio of total_vesting_shares / total_vesting_fund_steem should not
\* change as the result of the user adding funds": rounded, it never changes
\* to the loss of those who hold shares, by deposits or by withdrawals.
ShareKeepsValue ==
    [][ /\ db'.pendShares = db.pendShares
        /\ db.shares > 0 /\ db'.shares > 0
        => db'.fund * db.shares >= db.fund * db'.shares ]_vars

\* No block is refused for the work at its end: FC_ASSERT(w.votes <=
\* total_vesting_shares) in adjust_witness_vote never fails there.
BlocksApply == ~failed
=============================================================================
