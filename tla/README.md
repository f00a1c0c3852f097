# VIDPOW: TLA+ specifications and proofs

These modules specify the node of the VIDPOW (WLS, a Steem descendant) block chain:
how it stores and undoes state, chooses between branches of blocks, writes
irreversible blocks to disk, keeps money and votes, pays for comments, schedules
witnesses, and connects to, synchronizes with and informs its peers.  TLC
checks them on small instances; TLAPS proves the object store, the block log, the block and
transaction pipeline, the ledger of money and votes, the schedule of witnesses, the handshake of connections and the
spreading of items for all instances.
`PROJECT.json` maps every definition to the source lines it stands for.

## 1. The system

| Component | Source | State | Operations |
|---|---|---|---|
| chainbase | `libraries/chainbase` | tables of objects, a stack of undo records per table, a revision | create, modify, remove, start_undo_session, undo, squash, commit, undo_all |
| fork database | `chain/fork_database.cpp` | a tree of recent blocks, its head, a maximal size | push_block, pop_block, remove, fetch_branch_from, set_max_size |
| database pipeline | `chain/database.cpp`, `db_with.hpp` | chain of applied blocks, pending and popped transactions, last irreversible block | push_block, generate_block, push_transaction, pop_block, apply_block, open, reindex |
| block log | `chain/block_log.cpp` | a log file, an index file, stream buffers | append, read, flush, open, construct_index, close |
| ledger | `chain/database.cpp`, `wls_evaluator.cpp` | balances, vesting fund and shares, rewards, power-downs, routes | transfers, deposits, power-downs, claims, end-of-block work |
| votes and proxies | same | proxies, proxied votes per level, votes for witnesses | account_witness_vote, account_witness_proxy |
| witness schedule | `chain/witness_schedule.cpp`, `database.cpp` | votes and virtual time of witnesses, the shuffled schedule, slots filled | block, round, adjust_witness_vote, witness_update |
| hardforks | `witness_schedule.cpp`, `database.cpp` | current and next hardfork, votes, versions | header extensions, tally, process_hardforks |
| comments, curation, cashout | `database.cpp`, `wls_evaluator.cpp`, `util/reward.cpp` | comments and their tree, votes on them, voting power, the reward fund | comment, comment_options, delete_comment, vote, process_comment_cashout |
| application, API | `app/` | the p2p delegate, subscriptions | start (in `Crash`), handle_block, get_block_ids, get_blockchain_synopsis; the read-only API is not modelled |
| p2p: connections | `net/node.cpp`, `peer_connection.cpp`, `message_oriented_connection.cpp` | lists of handshaking, active, closing and terminating connections; known addresses | dial, accept, hello, accept or reject, addresses, timeouts, closing |
| p2p: synchronization | `net/node.cpp` | per peer the list of ids to get, the blocks requested, the synopsis waiting for an answer; the backlog of received blocks | start_synchronizing, ids, fetch_sync_items_loop, process_backlog_of_sync_blocks, request timeouts |
| p2p: inventory | `net/node.cpp` | per peer what was offered in either direction, the list of items to fetch, requests, the message cache | broadcast, advertise_inventory_loop, fetch_items_loop, item messages, on_connection_closed |
| witness plugin | `plugins/witness` | the production loop | its generate_block only |
| other plugins, wallet, protocol types, utilities | `plugins/`, `wallet/`, `protocol/` | derived tables, clients, data types | not modelled |

A block comes from a peer or the witness plugin into `push_block`, which holds the
write lock of the database.  The fork database decides whether it extends the chain or
starts a switch.  Each block is applied in an undo session of chainbase; when witnesses
have confirmed a block the sessions below it are committed and the block is appended to
the log.  Inside a block, evaluators change the ledger, then the schedule is redrawn,
funds are paid and power-downs processed.  Pending transactions live in one more
session on top and are replayed around every block.

The p2p code runs on one thread: every handler and every loop runs until it waits, for
the network or for the thread of the chain database.  What it read before such a wait may
be stale after it.  A new peer is first synchronized with, in both directions; blocks and
transactions that appear later are offered by id and fetched on demand.

What is hard: undo records merged by squash must still undo; a switch may fail in the
middle and must go back; two heads (of the chain and of the fork database) drift apart;
the process may stop between commit, append and flush; rounding, proxies and virtual
time go wrong only after long sequences of legal operations; votes are weighted, changed and
paid with rounding at each step; peers drop out with requests open, answer late, or dial
each other at the same moment, and nobody may be blamed, forgotten or asked twice for it.  `PROJECT.json` lists these
hazards at the lines where they bite.

## 2. Modules

* `VersionedStore`: what a table promises. A table with a stack of snapshots.
* `ChainBase`: `generic_index`. `obj` is the table, `stack` the undo records with
  `old_values`, `removed_values`, `new_ids`, `old_next_id`. One table stands for all:
  the database drives every index with the same calls.  A key stands for a unique index.
* `ChainBaseHistory`: `ChainBase` with the snapshots as a history variable, the mapping
  to `VersionedStore` and the invariant `RecordsDescribeSessions`.
* `ChainBaseProofs`, `BlockLogProofs`, `ChainDatabaseProofs`, `ConnectionsProofs`,
  `InventoryProofs`, `VestingProofs`, `WitnessScheduleProofs` and `SumProofs` (sums and arithmetic, for the
  last two): the theorems of section 5.
* `ForkDatabase`: tree, head and weak parent pointers. `lost` are the blocks, in the index or
  held by a running `push_block` after they were erased from it, whose parent item is gone.
  The unlinked index is left out: the code throws
  before it would insert.
* `ChainDatabase`: composes `ForkDatabase` with the pipeline.  The object database is
  the sequence of applied blocks, of which `committed` have no undo session (`ChainBase`
  shows what undoing one means).  `push_block` is a loop with the program counter `pc`:
  pop, apply, append, flush, prune, requeue.  Nothing interleaves with it but a crash,
  since it holds the write lock.  A crash cuts the log after any block appended since the
  last flush; `Crash` includes the `open` or `reindex` at the next start.
  Transactions need or exclude others; blocks are given with what is wrong with them.
* `DurableLedger`: what the pipeline promises about irreversible blocks: they only grow,
  and those written out survive a crash. `ChainDatabase!Ledger` maps the committed
  part of the chain and the flushed part of the log to it; `CommittedKept` is the refinement.
* `BlockLog`: the two files cell by cell, with buffers and torn writes, which
  `ChainDatabase` leaves out.
* `Vesting`: the ledger as one record `db`. An operator returns the new record, and a
  failed assertion clears its field `ok`: an operation that throws is undone and is no
  step; a block that throws is refused (`failed`).  A unit of time is one block.
  What a block mints is any of `Minted` (the shares of inflation need
  numbers too large for TLC).  Rewards to claim are there from the start; how they are
  earned is in `Rewards`.
* `WitnessSchedule`: witnesses, schedule, slots, hardforks. A step is a block or an
  operation; 128-bit numbers are counted modulo `Word`, and the two lap lengths keep
  their relation.  The shuffle is any order.  The loops over the witnesses by virtual time and by votes
  are given by the sets they process (`Processed`, `FirstByVote`, `Running`).  Which keys and fees are set and what headers
  report is given by `Worlds`: each behaviour is in one of these worlds, so that one run
  covers long rounds with changing votes and short ones with gaps, keys and hardforks.
  `keys` are the witnesses that had a key when the operations since the last block began, `ballot`
  is a history variable: what the scheduled witnesses voted for at the last tally.
* `Rewards`: comments in a tree, votes with power, dust threshold, reverse auction and one
  change, deletion, and the block that decays the claims, adds the due shares and pays
  authors, curators and beneficiaries.  The square root is `approx_sqrt` as coded.
  Accounts have a fixed stake.  The build options are the defaults of `CMakeLists.txt`:
  `LOW_MEMORY_NODE` is off (line 90; with it only the comment replied to counts a reply,
  `wls_evaluator.cpp:328`) and `CLEAR_VOTES` is on (line 107; a payout removes the votes,
  `database.cpp:1442`).
* `Connections`: each connection has two ends, each a `peer_connection` in one of its node's
  lists, and ordered messages between them.  The end that accepts is listed and counted before
  keys are exchanged (`Accept`, then `Establish`).  Dials may fail, a node may dial itself, ids are
  learnt from hellos only.
* `PeerSync`: the state of `node_impl` for each node and the chain behind its delegate, as one
  record.  `handle_block` and the synopses asked for after a pushed block take time: the thread
  handles other messages meanwhile.  The delegate answers in the order of its queue `tasks`; a task that goes
  on to the next peer was decided on at its start and asks each peer as it is by then (`Continue`), and
  calls the backlog again at its end.  Blocks that came through the inventory wait in `normal` for the
  delegate too.  Everything else is one step per handler.
* `Inventory`: the same for nodes in sync. `FinishItem` is the end of the delegate's work on
  an item.  Items of one message share a place in the list to fetch, since a message is a set; what
  one turn of `fetch_items_loop` assigns is given by what its order allows (`Assignments`).
  A synchronization is two steps: `OnSynopsis`, after which the peer that was asked offers nothing to
  the one that is behind, and `Synced`.  `OnSynopsis` may happen at any time of it, not only when the messages before it
  have been read.  `PeerSync` in turn shows a broadcast as the one message `normal`.
* `MCChainBase`, `MCChainDatabase`, `MCVesting`, `MCWitnessSchedule`, `MCRewards`,
  `MCConnections`, `MCPeerSync`, `MCInventory`: values for TLC.

## 3. Runs

| Run | Shows | Bounds |
|---|---|---|
| chainbase | `UndoRestores` (refinement of `VersionedStore`), `RecordsDescribeSessions`, `SquashCausal`, `RevisionsConsecutive` | 3 ids, 2 keys, 2 contents, 3 sessions: enough for each of the sixteen squash cases, key reuse and a third session above a squash. Keys and contents are symmetric. |
| chain_forks | the longest valid branch wins, failed pushes are unwound, no transaction is lost or applied twice, those that a switch takes out of the chain keep their order, generated blocks apply | eleven blocks in four branches, two of them invalid in different ways, five transactions that depend on, exclude or outlive each other, an undo limit of 4 |
| chain_hard | the pipeline implements `DurableLedger` (`CommittedKept`), log and chain agree, every call returns | eight blocks whose branches make conflicting blocks irreversible, repeated pushes, crashes at every step |
| block_log | index and log lead to the right blocks after any crash; flushed blocks survive | five blocks: a record, its predecessor and a cut in both files at every cell |
| sync | requests are tracked, lists of ids link, no honest peer is blamed, everybody catches up | an empty node between two peers with two blocks, one of which makes a third while the connection to the other one breaks or is given up; or no broken connection and three nodes on two branches, one of which must be left; answers of 2 ids, 1 request per peer, 1 block handled at a time, prefetch of 3 ids. Limits this low make every list, request and backlog fill up. |
| inventory | no offered item is lost, none is fetched twice or blamed on its sender, every node gets the blocks | a ring of three nodes, a block and then a second block or a transaction that refers to it, from different nodes; 1 connection that breaks or is given up |
| connections | one active connection per peer, both ends agree, none is left half open | two nodes that may dial each other and themselves, two connections, room for 2, 1 fault |
| rewards | votes and weights add up, the fund is exact, equal shares are paid equally, replies are counted | two accounts, three comments, five operations with votes or seven with replies, window 4, six slots: votes inside and after the auction, changed votes, two comments due in one block, deletion and reposting |
| vesting_money | supply and shares add up, shares keep their value, power-downs are exact | 2 users and null, prices that do not divide, one route, a supply of at most 6 |
| vesting_votes | proxied votes are those of the followers, each share votes once | 5 users, depth 3: chains of 4 proxies, longer than the depth; one power-down |
| schedule | no witness is scheduled in the past, slots add up, rounds follow votes and keys, a hardfork has the majority of the last tally, in a round and between two | 3 witnesses for 2 places. Votes: 8 blocks, range of 32, so that virtual time overflows and restarts. Rounds: 5 blocks, gaps of 2 slots, a window of 3 slots, shutdown after 2 blocks. Hardforks: 5 blocks with gaps and changing keys. Withdrawals: 7 blocks, three rounds before the time of the hardfork, so that a majority may be gone by then |
| vesting_route | section 4 | 2 voters, one route |

Every property of a passing run has a mutant: a plausible error in one definition,
kept beside it, under which TLC finds the property violated.

The type invariant of a module is a conjunct of one of its invariants, where it has no
theorem of its own.

Fairness.  `CallReturns` needs `WF(Step)`: a call of `push_block` runs in one thread to its
end.  The p2p modules assume that the thread runs each task that stays ready, reads each open
connection, that the delegate's call comes back, that the loops (fetch, advertise, terminate
inactive connections) run again, and that a lost neighbour is dialled again.  Where a task
may be disabled and enabled again in between, as when it waits its turn behind another, the
assumption is written `[]<>~Guard \/ []<><<Action>>_vars`: either it is not ready again and
again or it runs again and again.  Broken connections, faults, new blocks and crashes are
never forced.

Deadlock is checked in every run but `sync`, `inventory`, `connections` and `rewards`: a network
without news becomes quiet, and the bound on time ends the last.

Liveness is stated around what section 4 describes: `CatchUp` excepts a backlog that was left
lying, `Delivered` an item overslept or a block whose handling failed after a connection was lost,
`NoLimbo` a connection that nothing reads.

## 4. Where the code departs from what it says

One run is expected to find a violation.

* `vesting_route`: an instalment routed as vests counts twice while it is processed;
  the assertion on the votes of a witness fails and the block is refused.

Three more configurations are kept to be run by hand; TLC finds a violation in each.

* `ForkBelowLib.cfg` (`MCChainDatabase`, `FailedPushUnwound`): a longer branch that forks below
  the irreversible block makes `push_block` pop blocks that it does not put back
  (`database.cpp:516`, against the comment at 447).
* `ChainTip.cfg` (`MCChainDatabase`, `LogMatchesChain`): a refused block stays the head of the fork
  database (`database.cpp:572`). A block of the chain pushed again is then taken out of the
  index, and its sibling gets into the log.
* `PeerSlow.cfg` (`MCPeerSync`, `RequestsEnd`): a peer that does not answer requests for sync blocks
  is never given up: `node.cpp:1333` notices it and leaves the loop over the peers
  without putting it on a list, against the comment at 1309.  The same `break` skips the checks of
  the peers behind it.  `CatchUp` is checked where every peer answers.

The models reproduce more departures, which the properties that pass state around:

* Rounds use `VIRTUAL_SCHEDULE_LAP_LENGTH`, vote changes `VIRTUAL_SCHEDULE_LAP_LENGTH2`
  (`witness_schedule.cpp:121`): a witness in front stays in front, against
  `witness_objects.hpp:64`.
* When a valid block makes more than the first new block irreversible during a switch,
  `fetch_block_on_main_branch_by_number` finds nothing from the moved head, the switch fails
  and the rest of a valid branch is removed (`database.cpp:534`).
  `LongestKnownChain` is checked on a tree where no valid block does so.
* `construct_index` leaves the index of a log with one block empty (`block_log.cpp:299`);
  `RightBlockRead` excepts that case.
* A log or an index that holds nothing but a cut entry makes `open()` throw instead of being
  rebuilt (`block_log.cpp:144`): the node does not start until somebody removes the file (`OpenFails`).
* `squash` of a single session does not decrement the revision (`chainbase.hpp:345`,
  against the comment at 527); `RevisionsConsecutive` relates the revisions of open sessions only.
* After a switch the head of the fork database is not its highest block, against
  `fork_database.hpp:45`.
* A route to the account with id 0 is neither counted nor paid (`wls_evaluator.cpp:699`).
* A round expects as many witnesses as there are, those without a key included
  (`witness_schedule.cpp:140`): with too few keys the block is refused (`ScheduleFull`).
* `process_backlog_of_sync_blocks` leaves its loop when it meets a block that was accepted
  on another way (`node.cpp:3288`); blocks behind it wait for the next call.
* The end of a synchronization makes a peer idle and does not wake `fetch_items_loop`
  (`node.cpp:1178`); what the peer offered waits for the next wake-up.
* A block whose handling throws stays in `_message_ids_currently_being_processed`
  (`node.cpp:3381`) and is not fetched again by inventory.
* A connection whose key exchange fails is never removed from `_terminating_connections`:
  `close_connection` sets the time only when it was set (`peer_connection.cpp:394`).
* Two nodes that dial each other may each reject the other's connection and end with none; both
  try again later.  A node that dials itself counts two connections meanwhile.
* A message that throws ends the read loop, against the comment "Here loop should be continued"
  (`message_oriented_connection.cpp:187`).
* The weight added to `total_vote_weight` is that before the auction's discount, the weight taken
  off when a vote changes the discounted one (`wls_evaluator.cpp:1049`): `VotesCounted` bounds the sum
  of the weights by the total and does not equate them.
* After a gap of the decay time or longer the claims of the fund are not decayed (`database.cpp:1479`).

## 5. Proofs

`ChainBaseProofs` proves for all ids, keys, contents and depths, from `BoundAssumption` and
`NullAssumption` of `ChainBase`, the latter saying that no content is the null value:

* `TypeCorrect`: `Spec => []TypeOK`;
* `RecordsCorrect`: `HSpec => []RecordsDescribeSessions`;
* `UndoIsExact`: `HSpec => UndoRestores`, the refinement of `VersionedStore`;
* `RevisionsStayConsecutive` (`HSpec => []RevisionsConsecutive`) and `SquashStaysCausal`
  (`HSpec => []SquashCausal`), from the same invariant and the numbering of the records.

The inductive invariant is `RecordsDescribeSessions` with the types: each record on the
stack links the table at the start of its session with the table at the start of the next,
one of four ways for each id (untouched, new, changed, removed), and all these tables
have unique keys and no object at an id not yet given out.  The weaker facts are not
inductive: unique keys alone do not survive an undo that puts objects back, and the link
of the newest record alone does not survive a squash.  `UndoneRestores` shows that a
record undoes its link, `SquashLinks` that two merged records link the outer tables.

`BlockLogProofs` proves `RightBlockAlwaysRead` (`[]RightBlockRead`) and `FlushedBlocksSurvive`
(`[]FlushedSurvive`) for every number of blocks and crashes.  The inductive invariant `LogInv` is
`GoodFile` (the log alternates block k and its position, up to wherever a crash cut it), `GoodIndex` (entry n of
the index is the position of block n, and only the last may be torn), that what was flushed is among what is
saved, and that while the log is open both lengths agree with its head.  `RightBlockRead` alone is not
inductive: it says nothing of a closed log, from which the next open reads.

`ChainDatabaseProofs` is about any tree of blocks, any transactions and any bounds.
`TreeAssumption` says that `Ancestry[b]` is a chain from the first block to `b`; nothing is assumed of
validity, of what a block makes irreversible or of what transactions need.  The inductive invariant `DbInv` has
five parts: `ForkOK` (types of the fork database; a linked head has a parent that is still a block, and only an
empty index has no head), `SeqsOK` (types of the chain, the log and the lists a call works on), `CallOK` (which
of these lists are non-empty at each `pc`), `PendingOK` (pending transactions are set aside while blocks are
popped and applied, and otherwise apply in their order) and `LogOK` (no more is committed than there is chain, the log never
holds more than is committed, and when `append` starts the commit has been done).

* `InvariantHolds`, `TypeCorrect`: `[]DbInv`, `[]TypeOK`.
* `PendingAlwaysApplies`: `[]PendingApplies`.
* `IrreversibleNeverReplaced`: every step but a crash is a step of `DurableLedger` that loses nothing.
* `TransactionsKept`: the action property `CallKeepsTxs`.
* `LedgerImplemented`: `Spec /\ []LogMatchesChain => CommittedKept`, and `NoTransactionTwice`:
  `Spec /\ []LogMatchesChain => []NoTxTwice`.  The condition cannot be dropped: `LogMatchesChain` depends
  on the tree (`ChainTip.cfg` of section 4 has one where it fails), and after a crash `reindex` applies
  what the log holds.  On the trees of `chain_forks` and `chain_hard` TLC shows that it holds.

`ConnectionsProofs` proves `OneConnectionPerPeer` (`[]OneConnection`) and `HandshakeAgrees`
(`[]ActiveAgreed`) for any nodes, address books and faults, from `NobodyAssumption` (the placeholder for
an unknown peer is no node), `KnowsAssumption` and `FaultsAssumption` (types of the constants).  The inductive invariant `ConnInv`
has for each connection `EndOK` (the state of an end and what the other end makes of it) and `WireOK` (a hello is
the first message and stays until it is answered, there is one answer for each, and who rejects does not
synchronize), and `OneHolder`: two ends of one node that count as accepted have different ids.
The properties alone say nothing about a hello under way, and are not inductive.

`InventoryProofs` proves `NothingForgotten` (`[]NoLostItem`) and `AskedOnce` (`[]RequestedOnce`, which
contains the types) for any network, items and number of breaks, from `ItemAssumption` (an id is of
one type), `EdgeAssumption` (no node is connected to itself) and `DropsAssumption`.  Its invariant
`NetOK` adds to `NoLostItem` that a block in the delegate's hands is marked until the node has it and that
a lost connection owes nothing (`Caring`); to `RequestedOnce` that a fetch message on its way and the
item that answers it are together at most one per direction of a connection and are what is noted as
requested (`Talk`), and that until the first break every connection is up and no end of file is on its
way (`Undisturbed`).

`VestingProofs` proves for any accounts, amounts, routes, fees and prices `SupplyIsAccounted`
(`[]SupplyAccounted`, the code's own `validate_invariants`), `PowerDownIsExact` (the action property
`PowerDownExact`) and `ShareKeepsItsValue` (the action property `ShareKeepsValue`), from
`VestingAssumption` and `InputAssumption` (types of the constants and of what `validate()` lets through),
`StartAssumption` (somebody other than `null` holds shares, as after the first block of every chain) and the
hypothesis `Inflation > 0`.  On the main net `get_current_inflation_rate` never returns less than
`WLS_INFLATION_RATE_STOP_PERCENT`, 4.88%; the limit on power-downs that it sets is not compiled into a test net,
which is the instance `Inflation = 0` of the other two runs.

The inductive invariant is `IInv`, the types and `Good(db)`, which has three parts.  `Books` are the sums
of `SupplyAccounted`.  `Downs`: what a running power-down has left to pay is there, and what it has paid is a whole
number of instalments.  Without it the books do not stay right: the last instalment is the remainder of a division,
which is what is left only after whole instalments.  `Kept`: somebody other than `null` keeps shares
whatever all power-downs pay, and the fund is not empty.  Without it the price, fund over shares, may be missing
when an instalment is converted; it holds because nobody may power down everything, which is
where the hypothesis is used.

Each operation moves amounts between columns of accounts; `SumProofs` says what a change of one or two
accounts does to the sum of a column.  A block pays the due accounts one after the other, and
each of them along its routes one after the other.  These turns are
folds (`InTurn`).  The induction over them is done with `SmallestSubset`: among the sets of accounts for
which a statement fails there would be a smallest one, and its last turn contradicts that; so no induction
theorem with an operator parameter is needed.

About the votes of `Vesting` it proves, from the same assumptions and for any depth of proxies,
`ProxiedVotesAreFollowers` (`[]ProxiedAreFollowers`), `WitnessVotesAreVoters` (`[]VotesAreVoters`) and
`EveryShareVotesOnce` (`[]SharesVoteOnce`, the other part of `validate_invariants`).  The inductive invariant
`VInv` adds to `IInv` the predicate `VotesRight`:

* `Following`: what an account has booked as proxied at each level is its `Support` there, the shares of the accounts
  whose chain of proxies is at it after that many steps and one more;
* `Backing` and `Counted`: a witness has the weights of its voters, who have no proxy, and `witnesses_voted_for`
  is the number of votes of each;
* `Ends`: there is no loop of proxies, said of all sets: each that is not empty has an account whose proxy is outside.
  Without it a chain could pass an account twice and book its shares there twice.  It is kept because
  `account_witness_proxy` walks up from the new proxy and refuses a chain that meets the account or does not end in time;
* `Silent`: `null` has no proxy and no votes.  A block burns its shares without adjusting any votes,
  which is right only because of this.

It rests on the money because a payment adjusts votes by amounts and prices that must be defined, hence the same
hypothesis `Inflation > 0`.  The step that needs most work is a change of proxy: `SupportCut` shows that the
support of any account is what it would be if `a` had no proxy, plus what comes over the chain of `a`, and that
taking away and giving along the old and the new chain therefore leaves every support right.  `EveryShareVotesOnce` follows because a chain without loops that ends
has exactly one holder for the shares at its start, its root or the account beyond the last level (`OneHolder`),
and ends within as many steps as there are accounts (`ChainEnds`).

`WitnessScheduleProofs` proves everything the run `schedule` checks, for any witnesses, votes, window and
width of the counters: `NeverInThePast` (`[]NotInThePast`), `SlotsAreCounted` (`[]SlotsCounted`),
`HardforksBacked` and `ScheduledByVotes` (the action properties `HardforkBacked` and `ScheduleByVotes`), from
`ScheduleAssumption` and `WorldsAssumption` (types of the constants; a lap is at most the greatest value
of a counter).  The inductive invariant `ScheduleInv` is the types, `Slots` (what `SlotsCounted` says of the
head and the window) and `InRace`: a witness was last updated at or before the virtual time, is due at or
after it, and is within its lap not only now but at the time it is due.  `NotInThePast` speaks of the present
alone and is not inductive: a witness that is passed over when the virtual time moves on starts no new lap,
and nothing would bound its position later.  `ProcessedFirst` shows that everybody who was passed over is due at
or after the new virtual time.  `HardforkBacked` needs `NextBacked` besides: the hardfork to come, with its time, has its
majority in `ballot`.  A block between rounds tallies nothing, so what it applies is backed only by what the last
tally left there.

TLC checked each of these invariants, as an invariant of the component's run, before it was proved (of `VInv` the
part `VotesRight` on `vesting_votes`, whose rate of inflation is 0).

Only model-checked:

* of `ChainDatabase` `LogMatchesChain`, `FailedPushUnwound`, `LongestKnownChain` and `GeneratedApplied`:
  each holds for some trees and fails for others (section 4), so there is no theorem about all; and
  `ChainOrderKept`, which needs an invariant about the order of the popped transactions at each `pc`;
* of `Vesting` `BlocksApply` does not hold (section 4);
* `Rewards`: that no weight of a vote wraps around rests on `approx_sqrt` being monotone, which the code
  computes bit by bit; it needs facts about powers of two that only induction over data gives;
* `PeerSync`, whose synopsis is a recursive operator, which the prover does not support;
* liveness (`CallReturns`, `CatchUp`, `Delivered`, `NoLimbo`): fairness is out of the prover's reach.

## 6. What is left out

* Checkpoints and skip flags, merkle roots, signatures, block sizes in bytes.
* A node without blocks whose first block is not block 1: `PushBlock` assumes the order.
* A machine crash that loses part of the shared memory file; a process crash keeps it.
* The lock rotation in chainbase after a timeout.
* Creation of accounts and witnesses inside a run; the first witnesses and accounts
  are there from the start.  A gap of weeks between blocks, after which one block
  pays several instalments.
* Power-downs due in the same block are all due at the same time here, and then in the order
  of the ids; the code takes the earlier time first.
* Comments: texts and their edits, allow_replies, `children_abs_rshares`, the vests a payout would
  create at once, the unlimited posting of the first day.
* p2p: firewall checks, bandwidth limits, clock exchange, `get_current_connections`, saved
  configuration and peer database, `close()` of the node, the ageing of inventories and of
  the message cache, `item_not_available` (no node that runs this code sends it).
  The list of a peer's offers is never full: it would hold more than 2 minutes of 1000 transactions a second
  sixty times over (`config.hpp:80`, `peer_connection.cpp:500`); what `on_item_ids_inventory_message`
  drops then (`node.cpp:2856`) is not noted as offered.  No peer is disconnected for a hardfork
  (`node.cpp:3084`): `application.cpp:161` gives the node an empty list of hardfork blocks.
  Two branches and a broken connection together in `PeerSync`: the state space is beyond five minutes.
* Accounts: creation, update, recovery and sale; custom operations.
* The lines not mapped are mostly data: `utilities/words.cpp` alone is more than half of the
  implementation.  The wallet, `database_api` and the schema code keep no state of the node.
* Notifications to plugins, logging, virtual operations.

Smaller risks that no property is about, besides those of section 4: a modifier that breaks a unique
index erases its object while the undo record lists it (`chainbase.hpp:224`; no modifier of
the chain library does); an index added to an existing database starts at revision 0
(`database.cpp:2528`); a witness created late has never confirmed a block and loses its key at its
first missed slot (`database.cpp:2428`).

## 7. Plan

1. Done: `ChainBase` and its proofs, `ForkDatabase`, `ChainDatabase` and `DurableLedger`, `BlockLog`,
   `Vesting`, `Rewards`, `WitnessSchedule`, `Connections`, `PeerSync`, `Inventory`.
2. Theorems done: about `ChainBase`, `BlockLog`, `ChainDatabase`, `Connections`, `Inventory`, `Vesting` and
   `WitnessSchedule`.  Next: `FundExact` of `Rewards` with `SumProofs`; the lists of `PeerSync`, with the synopsis
   as a function.
3. The reader-writer lock of chainbase with its timeouts, and the production loop of the
   witness plugin.
4. The authority check of `sign_state` as a pure algorithm; account creation and sale.
