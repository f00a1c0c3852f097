------------------------------ MODULE Rewards ------------------------------
(***************************************************************************)
(* Comments, the votes on them and the payout of the reward fund           *)
(* (comment, comment_options, delete_comment and vote evaluators, and      *)
(* process_comment_cashout at the end of a block).                         *)
(*                                                                         *)
(* A comment is named by its author and permlink.  What its text is, and   *)
(* so an edit, does not matter here.  Time is counted in slots; a block is *)
(* in a slot after that of the block before.  Authors and voters have a    *)
(* fixed stake; what they are paid is claimed and vested in Vesting.  The  *)
(* build is the default one: not IS_LOW_MEM, and with CLEAR_VOTES.         *)
(***************************************************************************)
EXTENDS Integers, FiniteSetsExt, Functions, Folds

CONSTANTS
    Account,      \* accounts that post and vote
    Comment,      \* <<author, permlink>> pairs
    Author,       \* [Comment -> Account]
    Stake,        \* [Account -> Nat] vesting_shares
    Worlds,       \* what accounts do, one of these records:
                  \*   comments  the comments they post
                  \*   parents   what they reply to
                  \*   percents  the percents of their votes, out of Hundred
                  \*   options   what comment_options sets: maxPayout, votes, curation, beneficiaries
                  \*   maxOps    bound on the operations
    Minted,       \* what a block adds to the reward fund
    Steps,        \* slots from one block to the next
    Root, Null,   \* no parent; no such object
    Hundred,      \* WLS_100_PERCENT
    MaxDepth,     \* WLS_MAX_COMMENT_DEPTH
    Window,       \* WLS_CASHOUT_WINDOW_SECONDS
    Lockout,      \* WLS_UPVOTE_LOCKOUT
    Auction,      \* WLS_REVERSE_AUCTION_WINDOW_SECONDS
    Regeneration, \* WLS_VOTE_REGENERATION_SECONDS
    Reserve,      \* vote_power_reserve_rate, over the regeneration: max_vote_denom
    Dust,         \* WLS_VOTE_DUST_THRESHOLD
    MaxChanges,   \* WLS_MAX_VOTE_CHANGES
    Decay,        \* WLS_RECENT_RSHARES_DECAY_RATE
    CurationPercent, \* percent_curation_rewards, out of Hundred
    MinPayout,    \* WLS_MIN_PAYOUT_STEEM
    MaxPayout,    \* max_accepted_payout of a new comment
    StartClaims,  \* recent_claims at genesis
    MaxTime       \* bound on time

VARIABLES
    time,    \* head_block_time
    com,     \* [Comment -> its comment_object or Null]
    vote,    \* [Comment -> [Account -> its comment_vote_object or Null]]
    acc,     \* [Account -> voting power, times of the last vote and posts, reward]
    fund,    \* the reward_fund_object: balance, claims
    minted,  \* history: what the fund was given
    ops,     \* operations so far
    world    \* the one of Worlds this behaviour is in

vars == <<time, com, vote, acc, fund, minted, ops, world>>

Never == -1     \* time_point_sec::maximum()

ASSUME RewardsAssumption ==
    /\ {Hundred, Auction, Regeneration, Reserve, Decay} \subseteq Nat \ {0}
    /\ CurationPercent \in 0 .. Hundred /\ StartClaims \in Nat
    /\ Author \in [Comment -> Account] /\ Stake \in [Account -> Nat]
    /\ Steps \subseteq Nat \ {0} /\ Minted \subseteq Nat

Exists(c) == com[c] # Null
Votes(c) == {a \in Account : vote[c][a] # Null}

---------------------------------------------------------------------------
(* Reward curves: linear for authors, square_root for curators.            *)

\* find_msb
Msb(x) == Max({k \in 0 .. x : 2^k <= x})

\* approx_sqrt: halves the exponent and shifts half of the mantissa along.
ApproxSqrt(x) ==
    IF x = 0 THEN 0
    ELSE LET m == Msb(x)
             z == m \div 2
             low == (x - 2^m) \div 2^(m - z)
             high == IF m % 2 = 1 THEN 2^z ELSE 0
         IN  2^z + ((high + low) \div 2)

\* get_rshare_reward
RshareReward(rshares, f, maxPayout) ==
    LET payout == (f.balance * rshares) \div f.claims
    IN  Min({IF payout < MinPayout THEN 0 ELSE payout, maxPayout})

---------------------------------------------------------------------------
(* Comments.                                                               *)

\* The comments above c.
Above(c) ==
    LET up[k \in 0 .. MaxDepth] ==
            IF k = 0 THEN com[c].parent
            ELSE IF up[k - 1] = Root THEN Root ELSE com[up[k - 1]].parent
    IN  {up[k] : k \in 0 .. MaxDepth} \ {Root}

\* A new comment, in reply to p.
Posted(p) ==
    [parent |-> p, depth |-> IF p = Root THEN 0 ELSE com[p].depth + 1, children |-> 0,
     net |-> 0, abs |-> 0, up |-> 0, weight |-> 0, netVotes |-> 0,
     created |-> time, cashout |-> time + Window, maxPayout |-> MaxPayout,
     votes |-> TRUE, curation |-> TRUE, beneficiaries |-> [a \in Account |-> 0],
     paid |-> [author |-> 0, curators |-> 0, beneficiaries |-> 0]]

\* Mutant of Recounted: only the comment replied to counts the reply.
RecountedOnce(coms, above, n) ==
    [c \in Comment |-> IF c \in above /\ \A d \in above : com[d].depth <= com[c].depth
                       THEN [coms[c] EXCEPT !.children = @ + n] ELSE coms[c]]

\* A comment more, or less, counts in every comment above it.
Recounted(coms, above, n) ==
    [c \in Comment |-> IF c \in above THEN [coms[c] EXCEPT !.children = @ + n] ELSE coms[c]]

\* comment_evaluator, for a comment that is not there.  The least intervals
\* between posts are one slot: a post of each kind in a block.  (The first
\* day of the chain has none.)
PostComment(c, p) ==
    LET a == Author[c]
    IN  /\ ~Exists(c)
        /\ p # Root => Exists(p) /\ com[p].depth < MaxDepth
        /\ IF p = Root THEN acc[a].lastRoot < time ELSE acc[a].lastPost < time
        /\ com' = Recounted([com EXCEPT ![c] = Posted(p)],
                            IF p = Root THEN {} ELSE {p} \cup Above(p), 1)
        /\ acc' = [acc EXCEPT ![a].lastPost = time,
                              ![a].lastRoot = IF p = Root THEN time ELSE @]
        /\ UNCHANGED <<time, vote, fund, minted>>

\* comment_options_evaluator; beneficiaries are an extension that may be left
\* out.
CommentOptions(c, o) ==
    LET named == \E a \in Account : o.beneficiaries[a] > 0
    IN  /\ Exists(c)
        /\ ~o.curation \/ ~o.votes \/ o.maxPayout < com[c].maxPayout => com[c].abs = 0
        /\ o.curation => com[c].curation
        /\ o.votes => com[c].votes
        /\ o.maxPayout <= com[c].maxPayout
        /\ named => com[c].abs = 0 /\ \A a \in Account : com[c].beneficiaries[a] = 0
        /\ com' = [com EXCEPT
              ![c].maxPayout = o.maxPayout, ![c].votes = o.votes, ![c].curation = o.curation,
              ![c].beneficiaries = IF named THEN o.beneficiaries ELSE @]
        /\ com' # com
        /\ UNCHANGED <<time, vote, acc, fund, minted>>

\* delete_comment_evaluator
DeleteComment(c) ==
    /\ Exists(c)
    /\ com[c].children = 0 /\ com[c].cashout # Never /\ com[c].net <= 0
    /\ vote' = [vote EXCEPT ![c] = [a \in Account |-> Null]]
    /\ com' = Recounted([com EXCEPT ![c] = Null], Above(c), -1)
    /\ UNCHANGED <<time, acc, fund, minted>>

---------------------------------------------------------------------------
(* Votes.                                                                  *)

Abs(x) == IF x < 0 THEN 0 - x ELSE x
Sign(x) == IF x > 0 THEN 1 ELSE IF x < 0 THEN -1 ELSE 0

\* The power of an account now, and what a vote of some percent takes of it.
CurrentPower(a) ==
    Min({acc[a].power + (Hundred * (time - acc[a].lastVote)) \div Regeneration, Hundred})

UsedPower(a, percent) ==
    (((CurrentPower(a) * Abs(percent)) \div Hundred) + Reserve - 1) \div Reserve

\* The shares of a vote; against a comment they are a third.
Rshares(a, percent) ==
    LET all == (Stake[a] * UsedPower(a, percent)) \div Hundred
    IN  IF percent < 0 THEN 0 - (all \div 3) ELSE all

\* What vote_evaluator asks of every vote.  A vote on a comment that was paid
\* out does nothing.
MayVote(a, c, percent) ==
    /\ Exists(c) /\ com[c].cashout # Never
    /\ percent > 0 => com[c].votes
    /\ time - acc[a].lastVote >= 1
    /\ CurrentPower(a) > 0 /\ UsedPower(a, percent) <= CurrentPower(a)
    /\ Abs(Rshares(a, percent)) > Dust \/ percent = 0

BeforeLockout(c) == time < com[c].cashout - Lockout

PowerSpent(a, percent) ==
    acc' = [acc EXCEPT ![a].power = CurrentPower(a) - UsedPower(a, percent), ![a].lastVote = time]

\* The first vote of an account on a comment.  A vote for it carries the
\* weight it adds to the curve, less in the first half hour; the comment adds
\* up the weights before that.
Vote(a, c, percent) ==
    LET r == Rshares(a, percent)
        up == com[c].up + Max({r, 0})
        full == IF r > 0 /\ com[c].curation /\ CurationPercent > 0
                THEN ApproxSqrt(up) - ApproxSqrt(com[c].up) ELSE 0
        early == Min({time - com[c].created, Auction})
    IN  /\ MayVote(a, c, percent) /\ vote[c][a] = Null
        /\ percent # 0
        /\ r > 0 => BeforeLockout(c)
        /\ vote' = [vote EXCEPT ![c][a] =
              [rshares |-> r, percent |-> percent, weight |-> (full * early) \div Auction,
               changes |-> 0]]
        /\ com' = [com EXCEPT ![c].net = @ + r, ![c].abs = @ + Abs(r), ![c].up = up,
                              ![c].weight = @ + full, ![c].netVotes = @ + Sign(r)]
        /\ PowerSpent(a, percent)
        /\ UNCHANGED <<time, fund, minted>>

\* Mutant of ChangeVote: the vote keeps its weight.
ChangeKeepsWeight(a, c, percent) ==
    LET r == Rshares(a, percent)
        v == vote[c][a]
    IN  /\ MayVote(a, c, percent) /\ v # Null
        /\ v.changes < MaxChanges /\ v.percent # percent
        /\ v.rshares < r => BeforeLockout(c)
        /\ vote' = [vote EXCEPT ![c][a] =
              [@ EXCEPT !.rshares = r, !.percent = percent, !.changes = v.changes + 1]]
        /\ com' = [com EXCEPT ![c].net = @ - v.rshares + r, ![c].abs = @ + Abs(r),
                              ![c].weight = @ - v.weight,
                              ![c].netVotes = @ + Sign(r) - Sign(v.rshares)]
        /\ PowerSpent(a, percent)
        /\ UNCHANGED <<time, fund, minted>>

\* An account changes or removes its vote: it has no weight any more.
ChangeVote(a, c, percent) ==
    LET r == Rshares(a, percent)
        v == vote[c][a]
    IN  /\ MayVote(a, c, percent) /\ v # Null
        /\ v.changes < MaxChanges /\ v.percent # percent
        /\ v.rshares < r => BeforeLockout(c)
        /\ vote' = [vote EXCEPT ![c][a] =
              [rshares |-> r, percent |-> percent, weight |-> 0, changes |-> v.changes + 1]]
        /\ com' = [com EXCEPT ![c].net = @ - v.rshares + r, ![c].abs = @ + Abs(r),
                              ![c].weight = @ - v.weight,
                              ![c].netVotes = @ + Sign(r) - Sign(v.rshares)]
        /\ PowerSpent(a, percent)
        /\ UNCHANGED <<time, fund, minted>>

---------------------------------------------------------------------------
(* Payout.                                                                 *)

\* The comments whose cashout_time has come.
Due(now) == {c \in Comment : Exists(c) /\ com[c].cashout # Never /\ com[c].cashout <= now}

\* recent_claims after the decay of dt slots; none after a very long gap.
Decayed(dt) ==
    IF dt < Decay THEN fund.claims - (fund.claims * dt) \div Decay ELSE fund.claims

\* Mutant of CountedFor: a comment is paid before the next one is counted.
CountedSoFar(c, due) == {d \in due : Author[d] <= Author[c]}

\* The comments whose shares are claims on the fund when c is paid.
CountedFor(c, due) == due

Claims(dt, counted) == Decayed(dt) + MapThenSumSet(LAMBDA c : Max({com[c].net, 0}), counted)

\* Mutant of AuthorRest: the beneficiaries are paid on top.
AuthorAll(all, beneficiary) == all

\* What is left to the author.
AuthorRest(all, beneficiary) == all - SumFunction(beneficiary)

\* cashout_comment_helper and pay_curators: who is paid what for c out of the
\* fund f.  What curators do not claim is the author's, of whose part the
\* beneficiaries have theirs; without curation rewards it stays in the fund.
Payout(c, f) ==
    LET reward == IF com[c].net > 0 THEN RshareReward(com[c].net, f, com[c].maxPayout) ELSE 0
        curation == (reward * CurationPercent) \div Hundred
        curator == [a \in Account |->
            IF com[c].curation /\ com[c].weight > 0 /\ vote[c][a] # Null
            THEN (curation * vote[c][a].weight) \div com[c].weight ELSE 0]
        unclaimed == IF com[c].curation THEN curation - SumFunction(curator) ELSE 0
        all == reward - curation + unclaimed
        beneficiary == [a \in Account |-> (all * com[c].beneficiaries[a]) \div Hundred]
        author == AuthorRest(all, beneficiary)
    IN  [claimed |-> all + SumFunction(curator), author |-> author,
         curators |-> SumFunction(curator), beneficiaries |-> SumFunction(beneficiary),
         to |-> [a \in Account |-> curator[a] + beneficiary[a]
                                     + IF a = Author[c] THEN author ELSE 0]]

\* A comment after its payout.
PaidOut(comment, p) ==
    [comment EXCEPT !.net = Min({@, 0}), !.abs = 0, !.up = 0, !.weight = 0, !.cashout = Never,
                    !.paid = [author |-> @.author + p.author,
                              curators |-> @.curators + p.curators,
                              beneficiaries |-> @.beneficiaries + p.beneficiaries]]

\* pay_reward_funds and process_comment_cashout in a block dt slots later.
\* Every payout is out of the fund as it is before the first.
Block(dt, mint) ==
    LET now == time + dt
        due == Due(now)
        balance == fund.balance + mint
        pay == [c \in due |-> Payout(c, [balance |-> balance, claims |-> Claims(dt, CountedFor(c, due))])]
    IN  /\ now <= MaxTime
        /\ time' = now
        /\ minted' = minted + mint
        /\ fund' = [balance |-> balance - MapThenSumSet(LAMBDA c : pay[c].claimed, due),
                    claims |-> Claims(dt, due)]
        /\ com' = [c \in Comment |-> IF c \in due THEN PaidOut(com[c], pay[c]) ELSE com[c]]
        /\ vote' = [c \in Comment |-> IF c \in due THEN [a \in Account |-> Null] ELSE vote[c]]
        /\ acc' = [a \in Account |-> [acc[a] EXCEPT
              !.reward = @ + MapThenSumSet(LAMBDA c : pay[c].to[a], due)]]

---------------------------------------------------------------------------
Init ==
    /\ time = 1
    /\ com = [c \in Comment |-> Null]
    /\ vote = [c \in Comment |-> [a \in Account |-> Null]]
    /\ acc = [a \in Account |->
                [power |-> Hundred, lastVote |-> 0, lastPost |-> 0, lastRoot |-> 0, reward |-> 0]]
    /\ fund = [balance |-> 0, claims |-> StartClaims]
    /\ minted = 0 /\ ops = 0
    /\ world \in Worlds

Operation ==
    \E c \in world.comments :
        \/ \E p \in world.parents : PostComment(c, p)
        \/ \E o \in world.options : CommentOptions(c, o)
        \/ DeleteComment(c)
        \/ \E a \in Account, percent \in world.percents :
              Vote(a, c, percent) \/ ChangeVote(a, c, percent)

Next ==
    /\ \/ Operation /\ ops < world.maxOps /\ ops' = ops + 1
       \/ (\E dt \in Steps, mint \in Minted : Block(dt, mint)) /\ UNCHANGED ops
    /\ UNCHANGED world

Spec == Init /\ [][Next]_vars

---------------------------------------------------------------------------
(* Properties.                                                             *)

TypeOK ==
    /\ time \in 1 .. MaxTime /\ minted \in Nat
    /\ fund \in [balance : Nat, claims : Nat]
    /\ \A a \in Account : acc[a].power \in 0 .. Hundred /\ acc[a].reward \in Nat
    /\ \A c \in Comment : Exists(c) =>
          /\ com[c].net \in Int
          /\ {com[c].abs, com[c].up, com[c].weight, com[c].children} \subseteq Nat

\* What a comment adds up of its votes is what they are, however they were
\* changed, removed and counted again, until it is paid out; and their weights
\* are never more than total_vote_weight, which counts them before the
\* discount and loses them after it: curators are not paid more than there is,
\* and the author not a negative rest.
VotesCounted ==
    \A c \in Comment : Exists(c) /\ com[c].cashout # Never =>
        LET Of(f(_)) == MapThenSumSet(LAMBDA a : f(vote[c][a]), Votes(c))
        IN  /\ com[c].net = Of(LAMBDA v : v.rshares)
            /\ com[c].netVotes = Of(LAMBDA v : Sign(v.rshares))
            /\ \A a \in Votes(c) : vote[c][a].weight >= 0
            /\ Of(LAMBDA v : v.weight) <= com[c].weight

\* What is noted on a comment as paid for it.
Total(p) == p.author + p.curators + p.beneficiaries

\* The fund pays out what it was given and no more: it is never overdrawn by
\* several comments in one block, and balances, rewards and what is noted on
\* the comments add up after every rounding.
FundExact ==
    /\ TypeOK
    /\ LET paid == MapThenSumSet(LAMBDA c : Total(com[c].paid), {c \in Comment : Exists(c)})
       IN  /\ fund.balance + paid = minted
           /\ paid = MapThenSumSet(LAMBDA a : acc[a].reward, Account)

\* "add all rshares about to be cashed out to the reward funds. This ensures
\* equal satoshi per rshare payment": comments with equal shares that are paid
\* in one block on equal terms are paid the same, whatever their order.
EqualPay ==
    [][\A c, d \in Due(time') :
          /\ time' # time
          /\ com[c].net = com[d].net /\ com[c].maxPayout = com[d].maxPayout
          /\ com[c].curation = com[d].curation
          => Total(com'[c].paid) = Total(com'[d].paid)]_vars

\* The replies of a comment are counted in it and in every comment above it,
\* and what a comment replies to is there: comments are deleted, posted again
\* elsewhere and paid out in any order, and a vote or a reply to one whose
\* root is gone would throw.  (With IS_LOW_MEM only the parent counts a reply.)
TreeCounted ==
    \A c \in Comment : Exists(c) =>
        /\ com[c].parent # Root => /\ Exists(com[c].parent)
                                   /\ com[c].depth = com[com[c].parent].depth + 1
        /\ com[c].children = Cardinality({d \in Comment : Exists(d) /\ c \in Above(d)})

=============================================================================
