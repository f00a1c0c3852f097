---------------------------- MODULE ChainDatabase ----------------------------
(***************************************************************************)
(* The block and transaction pipeline of chain::database                   *)
(* (libraries/chain/database.cpp): push_block with its fork switches, the  *)
(* pending transactions around it, the last irreversible block, the block  *)
(* log, and a crash at any point followed by open().                       *)
(*                                                                         *)
(* The object database is its result: the sequence of applied blocks, of   *)
(* which the newest have an undo session (ChainBase shows what undoing one *)
(* means).  A call of push_block holds the write lock, so its steps        *)
(* interleave with nothing but a crash; pc says where it is.               *)
(***************************************************************************)
EXTENDS ForkDatabase, SequencesExt

CONSTANTS Tx,            \* transactions
          Txs,           \* Txs[b]: the transactions of block b, in order
          Time,          \* Time[b]: the timestamp of b
          Producer,      \* Producer[b]: the witness that signed b
          Witness,       \* the scheduled witnesses
          EarlyBad,      \* blocks _apply_block refuses before their transactions
          LateBad,       \* blocks refused after the irreversible block is updated
          Expiration,    \* Expiration[t]: the time t expires
          Requires,      \* Requires[t]: transactions t depends on
          Excludes,      \* Excludes[t]: transactions after which t is invalid
          StartVoting,   \* WLS_START_MINER_VOTING_BLOCK
          MaxWitnesses,  \* WLS_MAX_WITNESSES
          MaxUndo,       \* _max_undo
          MaxBlockTxs,   \* transactions that fit in a generated block
          Repeats        \* whether a known block may be pushed again

ASSUME TxAssumption == /\ Txs \in [Block -> Seq(Tx)]
                       /\ Requires \in [Tx -> SUBSET Tx] /\ Excludes \in [Tx -> SUBSET Tx]
ASSUME TimeAssumption == Time \in [Block -> Nat \ {0}] /\ Expiration \in [Tx -> Nat]
ASSUME WitnessAssumption == IsFiniteSet(Witness) /\ Witness # {} /\ Producer \in [Block -> Witness]
ASSUME RepeatsAssumption == Repeats \in BOOLEAN
ASSUME LimitAssumption == {StartVoting, MaxWitnesses, MaxUndo, MaxBlockTxs} \subseteq Nat

VARIABLES chain,     \* applied blocks, the head block last
          committed, \* how many of them have no undo session any more
          log,       \* blocks appended to the block log
          flushed,   \* how many of them are on disk
          pending,   \* _pending_tx
          popped,    \* _popped_tx
          saved,     \* the pending transactions set aside during push_block
          pc,        \* where push_block is
          mode,      \* what the blocks being applied are: extend, switch, restore
          todo,      \* blocks still to apply, oldest first
          good,      \* the branch left in a fork switch, oldest first
          call       \* history: the call in progress or the last one

dbVars == <<chain, committed, log, flushed>>
txVars == <<pending, popped, saved>>
vars == <<forkVars, dbVars, txVars, pc, mode, todo, good, call>>

-----------------------------------------------------------------------------
(* The object database after the blocks of c *)

HeadId(c) == IF c = <<>> THEN Genesis ELSE Last(c)
HeadTime(c) == IF c = <<>> THEN 0 ELSE Time[Last(c)]
TxsIn(c) == UNION {Range(Txs[c[h]]) : h \in DOMAIN c}

\* Mutant: a block also removes what is about to expire.
KnownTooShort(c, s) == {t \in TxsIn(c) : HeadTime(c) + 1 < Expiration[t]} \cup Range(s)

\* The deduplication index after the transactions s on top of c: a block
\* removes what expired before its timestamp.
Known(c, s) == {t \in TxsIn(c) : HeadTime(c) <= Expiration[t]} \cup Range(s)

\* _apply_transaction: not a duplicate, not expired, operations valid.
TxApplies(t, c, s) ==
  /\ t \notin Known(c, s)
  /\ c # <<>> => HeadTime(c) < Expiration[t]
  /\ Requires[t] \subseteq TxsIn(c) \cup Range(s)
  /\ Excludes[t] \cap (TxsIn(c) \cup Range(s)) = {}

AllApply(s, c) == \A i \in 1..Len(s) : TxApplies(s[i], c, SubSeq(s, 1, i - 1))

LastConfirmed(c, w) == Max({0} \cup {h \in 1..Len(c) : Producer[c[h]] = w})

\* The block number that all but a quarter of the witnesses have confirmed:
\* nth_element at offset 25% of their number.
Confirmed(c) ==
  Max({v \in {LastConfirmed(c, w) : w \in Witness} :
        Cardinality({w \in Witness : LastConfirmed(c, w) < v})
          <= ((10000 - 7500) * Cardinality(Witness)) \div 10000})

IrreversibleCandidate(c) ==
  IF Len(c) < StartVoting THEN NonNegative(Len(c) - MaxWitnesses) ELSE Confirmed(c)

\* dpo.last_irreversible_block_num, which never decreases along a chain.
Lib(c) == Max({0} \cup {IrreversibleCandidate(SubSeq(c, 1, h)) : h \in 1..Len(c)})

\* _apply_block up to update_global_dynamic_data.
BlockApplies(b, c) ==
  /\ HeadId(c) = Prev[b] /\ HeadTime(c) < Time[b]
  /\ b \notin EarlyBad
  /\ AllApply(Txs[b], c)
  /\ Len(c) + 1 - Lib(c) < MaxUndo

\* Mutant: the newest block is undone whether or not it has a session.
UndoAnyBlock == chain' = IF chain = <<>> THEN chain ELSE Front(chain)

\* Undoing the newest session; without one undo() does nothing.
UndoBlock == chain' = IF Len(chain) > committed THEN Front(chain) ELSE chain

\* commit( n ) drops the sessions of the first n blocks.
CommitTo(n) == Max({committed, n})

-----------------------------------------------------------------------------
(* push_block: fork database first, then the branch to apply *)

Enter(b, kind, thrown) ==
  /\ pc = "idle"
  /\ saved' = pending /\ pending' = <<>>
  /\ call' = [kind |-> kind, block |-> b, before |-> chain, thrown |-> thrown]
  /\ UNCHANGED <<dbVars, popped>>

PushUnlinkable(b, kind) ==
  /\ ~Linkable(b)
  /\ Enter(b, kind, TRUE)
  /\ pc' = "requeue"
  /\ UNCHANGED <<forkVars, mode, todo, good>>

\* The head of the fork database builds on the head block: apply the new
\* block, which need not be that head.
PushExtend(b, kind) ==
  /\ Linkable(b) /\ Prev[NewHead(b)] = HeadId(chain)
  /\ Enter(b, kind, FALSE) /\ ForkPush(b)
  /\ pc' = "apply" /\ mode' = "extend" /\ todo' = <<b>> /\ good' = <<>>

\* Mutant: only a fork two blocks longer is followed.
MuchHigher(h) == Height(h) > Len(chain) + 1

Higher(h) == Height(h) > Len(chain)

PushShorter(b, kind) ==
  /\ Linkable(b) /\ Prev[NewHead(b)] # HeadId(chain) /\ ~Higher(NewHead(b))
  /\ Enter(b, kind, FALSE) /\ ForkPush(b)
  /\ pc' = "requeue"
  /\ UNCHANGED <<mode, todo, good>>

PushLonger(b) ==
  Linkable(b) /\ Prev[NewHead(b)] # HeadId(chain) /\ Higher(NewHead(b))

PushSwitch(b, kind) ==
  /\ PushLonger(b) /\ ForkPush(b)
  /\ BranchesFound(head', HeadId(chain), index', lost')
  /\ Enter(b, kind, FALSE)
  /\ pc' = "pop" /\ mode' = "switch"
  /\ todo' = Branch(head', ForkHeight(head', HeadId(chain)))
  /\ good' = Branch(HeadId(chain), ForkHeight(head', HeadId(chain)))

PushNoBranch(b, kind) ==
  /\ PushLonger(b) /\ ForkPush(b)
  /\ ~BranchesFound(head', HeadId(chain), index', lost')
  /\ Enter(b, kind, TRUE)
  /\ pc' = "requeue"
  /\ UNCHANGED <<mode, todo, good>>

Push(b, kind) ==
  \/ PushUnlinkable(b, kind) \/ PushExtend(b, kind) \/ PushShorter(b, kind)
  \/ PushSwitch(b, kind) \/ PushNoBranch(b, kind)

\* Environment: a node without blocks is sent the first block first, the
\* order in which peers send a chain; fork_database is documented for blocks
\* "pushed in order" only.  Repeats says whether peers and API clients may
\* send a block the fork database already holds.
PushBlock(b) ==
  /\ head = None => Prev[b] = Genesis
  /\ Repeats \/ b \notin index
  /\ Push(b, "push")

\* The transactions _generate_block puts into a block with timestamp when.
Included(when) ==
  LET take(s, t) == IF /\ Expiration[t] >= when
                       /\ Len(s) < MaxBlockTxs
                       /\ TxApplies(t, chain, s)
                    THEN Append(s, t) ELSE s
  IN  FoldLeft(take, <<>>, pending)

\* Mutant: build on the head of the fork database.
PreviousForkHead == IF head = None THEN Genesis ELSE head

\* pending_block.previous
PendingPrevious == HeadId(chain)

\* A generated block goes through push_block like any other.
GenerateBlock(b) ==
  /\ pc = "idle"
  /\ Prev[b] = PendingPrevious /\ HeadTime(chain) < Time[b] /\ b \notin EarlyBad \cup LateBad
  /\ Txs[b] = Included(Time[b])
  /\ Push(b, "generate")

PushTransaction(t) ==
  /\ pc = "idle"
  /\ TxApplies(t, chain, pending)
  /\ pending' = Append(pending, t)
  /\ UNCHANGED <<forkVars, dbVars, popped, saved, pc, mode, todo, good, call>>

-----------------------------------------------------------------------------
(* pop_block, repeated until the head block is the common ancestor *)

AtForkPoint == HeadId(chain) = Prev[good[1]]

\* The head block is still to be found, and the fork database can step back.
CanPopBlock ==
  /\ CanPop
  /\ HeadId(chain) \in index \cup Range(log)

\* Mutant: the transactions of the popped block are not kept.
PopBlockDropsTxs ==
  /\ pc = "pop" /\ ~AtForkPoint
  /\ CanPopBlock
  /\ ForkPop
  /\ UndoBlock
  /\ UNCHANGED <<committed, log, flushed, txVars, pc, mode, todo, good, call>>

\* Mutant: the transactions of the popped block go behind those of newer ones.
PopBlockAppends ==
  /\ pc = "pop" /\ ~AtForkPoint
  /\ CanPopBlock
  /\ ForkPop
  /\ UndoBlock
  /\ popped' = popped \o Txs[Last(chain)]
  /\ UNCHANGED <<committed, log, flushed, pending, saved, pc, mode, todo, good, call>>

PopBlock ==
  /\ pc = "pop" /\ ~AtForkPoint
  /\ CanPopBlock
  /\ ForkPop
  /\ UndoBlock
  /\ popped' = Txs[Last(chain)] \o popped
  /\ UNCHANGED <<committed, log, flushed, pending, saved, pc, mode, todo, good, call>>

\* An exception here leaves push_block, with the blocks popped so far gone.
PopFails ==
  /\ pc = "pop" /\ ~AtForkPoint
  /\ ~CanPopBlock
  /\ pc' = "requeue" /\ call' = [call EXCEPT !.thrown = TRUE]
  /\ UNCHANGED <<forkVars, dbVars, txVars, mode, todo, good>>

PopDone ==
  /\ pc = "pop" /\ AtForkPoint
  /\ pc' = "apply"
  /\ UNCHANGED <<forkVars, dbVars, txVars, mode, todo, good, call>>

-----------------------------------------------------------------------------
(* apply_block *)

\* The items of both branches of a switch, which _push_block keeps alive.
Held == IF mode = "extend" THEN {}
        ELSE Range(good) \cup Range(todo) \cup {b \in Range(chain) : Height(b) >= Height(good[1])}

\* Mutant: a failed switch does not go back to the branch left.
FailedNoRestore ==
  /\ IF mode = "extend" THEN ForkRemove(todo[1])
     ELSE ForkErase(Range(todo), Held, Last(good), HasPrev(Last(good))) /\ UNCHANGED max_size
  /\ pc' = "requeue" /\ call' = [call EXCEPT !.thrown = TRUE]
  /\ UNCHANGED <<mode, todo, good>>

\* What the callers of apply_block do with an exception: forget the block, or
\* the rest of the new branch, and in a switch go back to the branch left.
Failed ==
  /\ CASE mode = "extend" ->
            /\ ForkRemove(todo[1])
            /\ pc' = "requeue" /\ UNCHANGED <<mode, todo>>
       [] mode = "switch" ->
            /\ ForkErase(Range(todo), Held, Last(good), HasPrev(Last(good)))
            /\ UNCHANGED max_size
            /\ pc' = "pop" /\ mode' = "restore" /\ todo' = good
       [] mode = "restore" ->
            /\ pc' = "requeue" /\ UNCHANGED <<forkVars, mode, todo>>
  /\ call' = [call EXCEPT !.thrown = TRUE]
  /\ UNCHANGED good

ApplyRefused ==
  /\ pc = "apply" /\ todo # <<>>
  /\ ~BlockApplies(todo[1], chain)
  /\ Failed
  /\ UNCHANGED <<dbVars, txVars>>

\* Up to commit( last_irreversible_block_num ) in update_last_irreversible_block.
ApplyBlock ==
  /\ pc = "apply" /\ todo # <<>>
  /\ BlockApplies(todo[1], chain)
  /\ chain' = Append(chain, todo[1])
  /\ committed' = CommitTo(Lib(chain'))
  /\ pc' = IF Len(log) < Lib(chain') THEN "append" ELSE "prune"
  /\ UNCHANGED <<forkVars, log, flushed, txVars, mode, todo, good, call>>

\* Blocks up to the irreversible one go to the block log one by one.
AppendLog ==
  /\ pc = "append"
  /\ FetchOnMainBranch(Len(log) + 1) # None
  /\ log' = Append(log, FetchOnMainBranch(Len(log) + 1))
  /\ pc' = IF Len(log') < Lib(chain) THEN "append" ELSE "flush"
  /\ UNCHANGED <<forkVars, chain, committed, flushed, txVars, mode, todo, good, call>>

AppendRefused ==
  /\ pc = "append"
  /\ FetchOnMainBranch(Len(log) + 1) = None
  /\ Failed
  /\ UndoBlock
  /\ UNCHANGED <<committed, log, flushed, txVars>>

FlushLog ==
  /\ pc = "flush"
  /\ flushed' = Len(log)
  /\ pc' = "prune"
  /\ UNCHANGED <<forkVars, chain, committed, log, txVars, mode, todo, good, call>>

\* set_max_size and the rest of _apply_block, which may still throw.
Prune ==
  /\ pc = "prune"
  /\ SetMaxSize(Len(chain) - Lib(chain) + 1, Held)
  /\ pc' = "late"
  /\ UNCHANGED <<dbVars, txVars, mode, todo, good, call>>

FinishBlock ==
  /\ pc = "late" /\ todo[1] \notin LateBad
  /\ todo' = Tail(todo)
  /\ pc' = "apply"
  /\ UNCHANGED <<forkVars, dbVars, txVars, mode, good, call>>

LateRefused ==
  /\ pc = "late" /\ todo[1] \in LateBad
  /\ Failed
  /\ UndoBlock
  /\ UNCHANGED <<committed, log, flushed, txVars>>

ApplyDone ==
  /\ pc = "apply" /\ todo = <<>>
  /\ pc' = "requeue"
  /\ UNCHANGED <<forkVars, dbVars, txVars, mode, todo, good, call>>

-----------------------------------------------------------------------------
(* ~pending_transactions_restorer: popped transactions, then the saved ones *)

\* Mutant: a transaction goes back without being applied again.
RequeueBlindly(t) == pending' = Append(pending, t)

Requeue(t) == pending' = IF TxApplies(t, chain, pending) THEN Append(pending, t) ELSE pending

\* Mutant: _popped_tx is not cleared.
RequeueForever ==
  /\ pc = "requeue" /\ popped # <<>>
  /\ Requeue(popped[1])
  /\ UNCHANGED <<forkVars, dbVars, popped, saved, pc, mode, todo, good, call>>

RequeuePopped ==
  /\ pc = "requeue" /\ popped # <<>>
  /\ Requeue(popped[1])
  /\ popped' = Tail(popped)
  /\ UNCHANGED <<forkVars, dbVars, saved, pc, mode, todo, good, call>>

RequeueSaved ==
  /\ pc = "requeue" /\ popped = <<>> /\ saved # <<>>
  /\ Requeue(saved[1])
  /\ saved' = Tail(saved)
  /\ UNCHANGED <<forkVars, dbVars, popped, pc, mode, todo, good, call>>

PushReturns ==
  /\ pc = "requeue" /\ popped = <<>> /\ saved = <<>>
  /\ pc' = "idle" /\ mode' = "extend" /\ todo' = <<>> /\ good' = <<>>
  /\ IF mode = "extend" THEN UNCHANGED forkVars ELSE ForkRelease
  /\ UNCHANGED <<dbVars, txVars, call>>

-----------------------------------------------------------------------------
(* A crash, and open() at the next start *)

\* open() unwinds the undo sessions and compares the head block with the
\* log; on a mismatch the application replays the log from genesis.
Recovered(disk) ==
  LET kept == SubSeq(chain, 1, committed)
  IN  IF kept = <<>> \/ (Len(kept) <= Len(disk) /\ disk[Len(kept)] = Last(kept))
      THEN kept ELSE disk

Crash ==
  /\ pc # "down"
  /\ \E n \in flushed..Len(log) :
       LET disk == SubSeq(log, 1, n)
       IN  /\ log' = disk /\ flushed' = n
           /\ chain' = Recovered(disk)
           /\ committed' = Len(chain')
           /\ pc' = IF IsChain(chain') THEN "idle" ELSE "down"
  /\ IF chain' = <<>> THEN ForkReset ELSE ForkStart(Last(chain'))
  /\ max_size' = InitMaxSize
  /\ pending' = <<>> /\ popped' = <<>> /\ saved' = <<>>
  /\ mode' = "extend" /\ todo' = <<>> /\ good' = <<>>
  /\ call' = [kind |-> "open", block |-> None, before |-> chain', thrown |-> FALSE]

-----------------------------------------------------------------------------
Init ==
  /\ ForkInit
  /\ chain = <<>> /\ committed = 0 /\ log = <<>> /\ flushed = 0
  /\ pending = <<>> /\ popped = <<>> /\ saved = <<>>
  /\ pc = "idle" /\ mode = "extend" /\ todo = <<>> /\ good = <<>>
  /\ call = [kind |-> "open", block |-> None, before |-> <<>>, thrown |-> FALSE]

\* The steps of a call in progress.
Step ==
  \/ PopBlock \/ PopFails \/ PopDone
  \/ ApplyRefused \/ ApplyBlock \/ AppendLog \/ AppendRefused \/ FlushLog
  \/ Prune \/ FinishBlock \/ LateRefused \/ ApplyDone
  \/ RequeuePopped \/ RequeueSaved \/ PushReturns

Next ==
  \/ \E b \in Block : PushBlock(b) \/ GenerateBlock(b)
  \/ \E t \in Tx : PushTransaction(t)
  \/ Step
  \/ Crash

Spec == Init /\ [][Next]_vars

\* A running call is never abandoned: the thread holds the lock to its end.
FairSpec == Spec /\ WF_vars(Step)

-----------------------------------------------------------------------------
(* Properties *)

TypeOK ==
  /\ index \subseteq Block /\ lost \subseteq Block
  /\ head \in Block \cup {None} /\ head_linked \in BOOLEAN /\ max_size \in Nat
  /\ {chain, log, todo, good} \subseteq Seq(Block)
  /\ committed \in 0..Len(chain) /\ flushed \in 0..Len(log)
  /\ {pending, popped, saved} \subseteq Seq(Tx)
  /\ pc \in {"idle", "pop", "apply", "append", "flush", "prune", "late", "requeue", "down"}
  /\ mode \in {"extend", "switch", "restore"}

\* The block log holds the blocks of the chain: whatever the heads of the
\* fork database were when fetch_block_on_main_branch_by_number was asked,
\* and wherever a crash cut the log, log and chain agree at every height.
\* What is on disk is never ahead of what cannot be undone, so undo_all() at
\* the next start cannot go below a logged block.
LogMatchesChain ==
  /\ TypeOK
  /\ \A h \in 1..Min({Len(log), Len(chain)}) : log[h] = chain[h]
  /\ pc # "down" => Len(log) <= committed

\* What the pipeline, the fork database and the log promise together.
Ledger == INSTANCE DurableLedger WITH
            blocks <- SubSeq(chain, 1, Min({committed, Len(chain)})),
            durable <- flushed,
            opened <- call.kind = "open"

\* No irreversible block is ever replaced, whatever fork push_block tries to
\* switch to; and after a crash, open() and the replay of a log that lost its
\* unflushed end keep every block the last flush wrote.
CommittedKept == Ledger!Spec

\* Between calls the fork database holds the head block, and the chain is at
\* least as long as every branch it knows that contains the irreversible blocks.
LongestKnownChain ==
  pc = "idle" =>
    /\ chain # <<>> => Last(chain) \in index
    /\ \A b \in index :
         IsPrefix(SubSeq(chain, 1, committed), Ancestry[b]) => Height(b) <= Len(chain)

\* "Push block may fail in which case every partial change is unwound."
FailedPushUnwound == (pc = "idle" /\ call.thrown) => chain = call.before

\* No transaction is in two blocks of the chain, although the deduplication
\* index forgets a transaction once it has expired.
NoTxTwice ==
  \A g, h \in 1..Len(chain) : g # h => Range(Txs[chain[g]]) \cap Range(Txs[chain[h]]) = {}

\* Between calls the pending transactions apply in their order on the chain.
PendingApplies == pc = "idle" => AllApply(pending, chain)

\* Every transaction of the chain c, in the order of the blocks.
TxSeq(c) == FlattenSeq([h \in DOMAIN c |-> Txs[c[h]]])

\* t comes before u on the chain c, or is on it and u is not.
Before(t, u, c) ==
  \E i \in DOMAIN TxSeq(c) :
    /\ TxSeq(c)[i] = t
    /\ \A k \in 1..i : TxSeq(c)[k] # u

\* The order in which ~pending_transactions_restorer applies transactions
\* again at the end of a call: what a switch took out of the chain keeps the
\* order it had there, block by block, however many blocks were popped, and
\* goes before everything that was only pending, so that the transactions it
\* rests on are tried first.
ChainOrderKept ==
  pc = "requeue" =>
    \A i, j \in DOMAIN pending :
      (i < j /\ pending[j] \in TxsIn(call.before)) => Before(pending[i], pending[j], call.before)

\* No step of a call loses a transaction: one that was in the chain, popped,
\* pending or set aside still is in one of those places, or does not apply any
\* more.  Excepted are a crash and the transactions of a block that is refused.
CallKeepsTxs ==
  [][\A t \in TxsIn(chain) \cup Range(pending) \cup Range(popped) \cup Range(saved) :
       \/ call'.kind = "open"
       \/ pc \in {"append", "late"}
       \/ t \in TxsIn(chain') \cup Range(pending') \cup Range(popped') \cup Range(saved')
       \/ ~TxApplies(t, chain', pending')]_vars

\* A block the node generates becomes its head block: the transactions that
\* passed in _generate_block pass again in _apply_block, and the fork database,
\* whose head a switch moves about, does not lead push_block elsewhere.  Only
\* the limit on undo sessions, which _generate_block does not check, refuses it.
GeneratedApplied ==
  (pc = "idle" /\ call.kind = "generate") =>
     \/ chain = Append(call.before, call.block)
     \/ Len(call.before) + 1 - Lib(call.before) >= MaxUndo

\* Every call returns: the pop, apply, append and requeue loops terminate.
CallReturns == []<>(pc = "idle")
=============================================================================
