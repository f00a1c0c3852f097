------------------------------ MODULE PeerSync ------------------------------
(***************************************************************************)
(* Synchronization of block chains between nodes (libraries/net/node.cpp   *)
(* and the node delegate in app/application.cpp).  Every node runs the     *)
(* same code; connected nodes send each other a synopsis of their chain,   *)
(* lists of block ids, requests for blocks and blocks, over connections    *)
(* that keep the order and may break.                                      *)
(*                                                                         *)
(* Handlers run on the one p2p thread and are steps, except where they     *)
(* wait for the thread of the chain database for long: handle_block, and   *)
(* the synopses that the end of a pushed block asks for.  The exchange     *)
(* that brings a new block to nodes in sync is one message here            *)
(* ("normal"); Inventory has its details.                                  *)
(***************************************************************************)
EXTENDS Naturals, FiniteSets, Sequences, SequencesExt, FiniteSetsExt

CONSTANTS
    Node,        \* the nodes
    Edge,        \* the pairs {n, m} of nodes that connect to each other
    Block,       \* the blocks that exist or will be produced
    Genesis,     \* the state before the first block; as a block id: the null id
    Prev,        \* [Block -> Block \cup {Genesis}]
    Worlds,      \* what a behaviour starts with, one of these records:
                 \*   start  [Node -> Block \cup {Genesis}] the heads of the nodes
                 \*   drops  SUBSET Edge, the connections that may break, once each
    Maker,       \* [Block -> Node] who produces a block that nobody starts with
    Slow,        \* nodes that do not answer requests for blocks
    NoAsk,       \* no synopsis is waiting for an answer
    NoPeer,      \* a peer whose connection is gone
    Undoable,    \* blocks the chain can undo
    Limit,       \* ids in one answer (the default limit of get_block_ids, 2000)
    MinPrefetch, \* GRAPHENE_NET_MIN_BLOCK_IDS_TO_PREFETCH
    MaxPerPeer,  \* maximum_blocks_per_peer_during_syncing
    MaxHandle,   \* maximum_number_of_blocks_to_handle_at_one_time
    MaxPrefetch  \* maximum_number_of_sync_blocks_to_prefetch

VARIABLES
    node,   \* [Node -> the state of its node_impl and chain, and the head it started with]
    drops   \* the connections that may still break

vars == <<node, drops>>

Peers(n) == {m \in Node : {n, m} \in Edge}

---------------------------------------------------------------------------
(* The chain database behind the delegate.                                 *)

\* The blocks from the first one to b.
Branch[b \in Block \cup {Genesis}] ==
    IF b = Genesis THEN <<>> ELSE Append(Branch[Prev[b]], b)

Num(b) == Len(Branch[b])

Included(s, b) == b \in Range(Branch[s.head])

Fork(s, b) == Max({i \in 0 .. Num(b) : \A j \in 1 .. i : Included(s, Branch[b][j])})

LastNonUndoable(s) == IF Num(s.head) > Undoable THEN Num(s.head) - Undoable ELSE 0

\* What push_block makes of a block: "unlinkable", "rejected" (the switch
\* would undo what cannot be undone) or "accepted".
Outcome(s, b) ==
    CASE Prev[b] \notin s.known \cup {Genesis} -> "unlinkable"
      [] Num(b) > Num(s.head) /\ Fork(s, b) < LastNonUndoable(s) -> "rejected"
      [] OTHER -> "accepted"

Pushed(s, b) ==
    [s EXCEPT !.known = @ \cup {b},
              !.head = IF Num(b) > Num(@) THEN b ELSE @]

\* Mutant of BlockIds: the block the peer has is left out.
BlockIdsAfter(s, synopsis) ==
    LET chain == Branch[s.head]
        from == Max({Num(b) : b \in {c \in Range(synopsis) : Included(s, c)}} \cup {0}) + 1
        ids == SubSeq(chain, from, Min({Len(chain), from + Limit - 1}))
    IN  [ids |-> ids, left |-> Len(chain) - (from + Len(ids) - 1)]

\* get_block_ids: from the last block of the synopsis that is on our chain.
BlockIds(s, synopsis) ==
    LET chain == Branch[s.head]
        common == {Num(b) : b \in {c \in Range(synopsis) : Included(s, c)}}
        from == IF synopsis = <<>> THEN 1 ELSE Max(common \cup {0})
        ids == SubSeq(chain, from, Min({Len(chain), from + Limit - 1}))
    IN  IF chain = <<>> \/ from = 0
        THEN [ids |-> <<>>, left |-> 0]
        ELSE [ids |-> ids, left |-> Len(chain) - (from + Len(ids) - 1)]

\* The block numbers low, ... of a synopsis: each step halves the distance
\* to top; the numbers above stop are left out, the first never is.
RECURSIVE Halving(_, _, _)
Halving(low, top, stop) ==
    LET next == low + (top - low + 2) \div 2
    IN  <<low>> \o IF next <= stop THEN Halving(next, top, stop) ELSE <<>>

\* get_blockchain_synopsis: of the branch of ref, or of the whole chain,
\* leaving room for `after' blocks.
ChainSynopsis(s, ref, after) ==
    LET tip == IF ref = Genesis THEN s.head ELSE ref
        lib == LastNonUndoable(s)
        low == Max({1, IF Included(s, tip) THEN Min({lib, Num(tip)}) ELSE lib})
    IN  IF tip = Genesis THEN <<>>
        ELSE [i \in DOMAIN Halving(low, Num(tip) + after, Num(tip)) |->
                 Branch[tip][Halving(low, Num(tip) + after, Num(tip))[i]]]

\* The peer's branch left ours too long ago (block_older_than_undo_history).
TooOld(s, ref) ==
    ref # Genesis /\ ~Included(s, ref) /\ Fork(s, ref) < LastNonUndoable(s)

---------------------------------------------------------------------------
(* One connection, and the parts of handlers that change it.               *)

\* A peer_connection that was just added to the active list.
Fresh == [up |-> TRUE, closing |-> FALSE, theirs |-> FALSE, need |-> TRUE, needs_us |-> TRUE,
          to_get |-> <<>>, unfetched |-> 0, requested |-> {}, processing |-> {},
          asked |-> NoAsk, seen |-> Genesis, adv |-> {}]

Gone == [Fresh EXCEPT !.up = FALSE]

\* _active_connections
Active(s) == {m \in DOMAIN s.link : s.link[m].up /\ ~s.link[m].closing}

Idle(l) == l.requested = {} /\ l.asked = NoAsk

Send(s, m, msg) == [s EXCEPT !.out[m] = Append(@, msg)]

\* process_backlog_of_sync_blocks waits for a synopsis.
InBacklog(s) == \E k \in DOMAIN s.tasks : s.tasks[k].backlog

\* _handle_message_calls_in_progress: blocks that the delegate has, and blocks
\* that are done but wait for synopses.
InProgress(s) ==
    Len(s.handling) + Cardinality({k \in DOMAIN s.tasks : ~s.tasks[k].backlog})

\* trigger_process_backlog_of_sync_blocks
TriggerBacklog(s) == [s EXCEPT !.backlog_due = @ \/ ~InBacklog(s)]

\* A peer object outlives its connection in the tasks that hold it.
Lost(s, m) ==
    [s EXCEPT !.tasks = [k \in DOMAIN @ |->
        [@[k] EXCEPT !.steps = [i \in DOMAIN @ |->
            IF @[i].peer = m THEN [@[i] EXCEPT !.peer = NoPeer] ELSE @[i]]]],
              !.normal = [k \in DOMAIN @ |->
        IF @[k].peer = m THEN [@[k] EXCEPT !.peer = NoPeer] ELSE @[k]]]

\* Mutant of Closed: the requests stay booked.
ClosedKeepsRequests(s, m) ==
    Send(Lost([s EXCEPT !.link[m] = Gone, !.fetch_due = TRUE], m), m, [type |-> "eof"])

\* on_connection_closed: what was requested from the peer is requested
\* from others.  The peer learns of it behind what we sent.
Closed(s, m) ==
    Send(Lost([s EXCEPT !.link[m] = Gone,
                        !.active = @ \ s.link[m].requested,
                        !.fetch_due = @ \/ s.link[m].requested # {}], m),
         m, [type |-> "eof"])

\* disconnect_from_peer: the peer is asked to close, unless it asked us.
Disconnect(s, m) ==
    IF s.link[m].theirs THEN Closed(s, m)
    ELSE Send([s EXCEPT !.link[m].closing = TRUE], m, [type |-> "closing"])

\* on_closing_connection_message
OnClosing(s, m) ==
    IF s.link[m].closing THEN Closed(s, m) ELSE [s EXCEPT !.link[m].theirs = TRUE]

\* create_blockchain_synopsis_for_peer: the synopsis of our chain up to ref,
\* continued with the ids this peer has already told us.
SynopsisForPeer(s, ask) ==
    LET syn == ChainSynopsis(s, ask.ref, Len(ask.ids))
        first == Num(ask.ids[1])
        top == first + Len(ask.ids) - 1
        nums == Halving(IF syn = <<>> THEN 1 ELSE Num(syn[1]), top, top)
        rest == SelectSeq(nums, LAMBDA k : k >= first)
    IN  IF ask.ids = <<>> THEN syn
        ELSE syn \o [i \in DOMAIN rest |-> ask.ids[rest[i] - first + 1]]

\* The second half of fetch_next_batch_of_item_ids_from_peer.
AskWith(s, m, ask) ==
    IF TooOld(s, ask.ref) THEN Disconnect(s, m)
    ELSE LET syn == SynopsisForPeer(s, ask)
         IN  Send([s EXCEPT !.link[m].asked = syn], m, [type |-> "fetch_ids", synopsis |-> syn])

Ask(s, m) == [ref |-> s.link[m].seen, ids |-> s.link[m].to_get]

\* fetch_next_batch_of_item_ids_from_peer inside a handler of the peer's own
\* message
FetchNextBatch(s, m) == AskWith(s, m, Ask(s, m))

Restarted(s, m) ==
    [s EXCEPT !.link[m].to_get = <<>>, !.link[m].unfetched = 0,
              !.link[m].need = TRUE, !.link[m].seen = Genesis]

\* start_synchronizing_with_peer
StartSync(s, m) == FetchNextBatch(Restarted(s, m), m)

\* A task of the p2p thread takes its steps, fetch_next_batch (or
\* start_synchronizing, "again") with one peer after the other, each of which
\* waits for the delegate's synopsis.  What the synopsis is made for is read
\* before the wait; at the end, a block that is done triggers the backlog, and
\* the backlog triggers the fetch loop.
Continue(s, task) ==
    LET m == task.steps[1].peer
        s1 == IF task.steps[1].again /\ m # NoPeer THEN Restarted(s, m) ELSE s
        ask == IF m = NoPeer THEN [ref |-> Genesis, ids |-> <<>>] ELSE Ask(s1, m)
    IN  CASE task.steps # <<>> -> [s1 EXCEPT !.tasks = Append(@, [task EXCEPT !.ask = ask])]
          [] task.steps = <<>> /\ ~task.backlog -> TriggerBacklog(s)
          [] OTHER -> [s EXCEPT !.fetch_due = @ \/ ~s.suspended]

\* The tasks that ask some peers for more and then restart with others.
Tasks(backlog, peers, restart) ==
    {[backlog |-> backlog, ask |-> [ref |-> Genesis, ids |-> <<>>],
      steps |-> [i \in DOMAIN p |-> [peer |-> p[i], again |-> FALSE]]
                    \o [i \in DOMAIN r |-> [peer |-> r[i], again |-> TRUE]]] :
        p \in SetToSeqs(peers), r \in SetToSeqs(restart)}

\* broadcast: peers in sync that do not have the block are offered it.
Broadcast(s, b) ==
    LET to == {m \in Active(s) : ~s.link[m].needs_us /\ b \notin s.link[m].adv}
    IN  [s EXCEPT !.recent = @ \cup {b},
                  !.link = [m \in DOMAIN @ |->
                               IF m \in to THEN [@[m] EXCEPT !.adv = @ \cup {b}] ELSE @[m]],
                  !.out = [m \in DOMAIN @ |->
                              IF m \in to THEN Append(@[m], [type |-> "normal", block |-> b])
                              ELSE @[m]]]

---------------------------------------------------------------------------
(* Handlers of messages.                                                   *)

\* on_fetch_blockchain_item_ids_message
OnFetchIds(s, m, synopsis) ==
    LET reply == BlockIds(s, synopsis)
        needs == /\ reply.ids # <<>>
                 /\ ~(Len(reply.ids) = 1 /\ reply.ids[1] \in Range(synopsis))
        s1 == [s EXCEPT !.link[m].needs_us = needs]
        s2 == IF ~s.link[m].need /\ synopsis # <<>> /\ Last(synopsis) \notin s.known
              THEN StartSync(s1, m) ELSE s1
    IN  Send(s2, m, [type |-> "ids", ids |-> reply.ids, left |-> reply.left])

\* Ids that we have at the front of a list are dropped, unless another
\* peer's list starts with the same block.
Flush(s, m, ids) ==
    LET first == \E p \in Active(s) \ {m} : s.link[p].to_get # <<>> /\ s.link[p].to_get[1] = ids[1]
        had == IF first THEN 0
               ELSE Max({i \in 0 .. Len(ids) : \A j \in 1 .. i : ids[j] \in s.known})
    IN  [s EXCEPT !.link[m].seen = IF had > 0 THEN ids[had] ELSE @,
                  !.link[m].to_get = SubSeq(ids, had + 1, Len(ids))]

\* Mutant of Extend: the id that both lists have stays twice.
ExtendTwice(s, m, ids) == [s EXCEPT !.link[m].to_get = @ \o ids]

\* A list that continues an earlier one, or replaces it after a switch.
Extend(s, m, ids) ==
    LET old == s.link[m].to_get
        at == {i \in DOMAIN old : old[i] = ids[1]}
    IN  IF at = {}
        THEN [s EXCEPT !.link[m].seen = ids[1], !.link[m].to_get = Tail(ids)]
        ELSE [s EXCEPT !.link[m].to_get = SubSeq(old, 1, Max(at) - 1) \o ids]

Sequential(ids) == \A i \in DOMAIN ids : Num(ids[i]) = Num(ids[1]) + i - 1

AnswersSynopsis(ids, synopsis) ==
    ids = <<>> \/ (Sequential(ids) /\ IF synopsis = <<>> THEN Num(ids[1]) = 1
                                      ELSE ids[1] \in Range(synopsis))

\* on_blockchain_item_ids_inventory_message
OnIds(s, m, ids, left) ==
    LET l == s.link[m]
        s1 == [s EXCEPT !.link[m].asked = NoAsk]
        done == /\ left = 0 /\ l.to_get = <<>> /\ l.unfetched = 0
                /\ ids = <<>> \/ (Len(ids) = 1 /\ ids[1] \in s.known)
        s2 == CASE ids = <<>> -> s1
                [] ids # <<>> /\ l.to_get = <<>> -> Flush(s1, m, ids)
                [] OTHER -> Extend(s1, m, ids)
        s3 == [s2 EXCEPT !.link[m].unfetched = left]
        list == s3.link[m].to_get
    IN  CASE l.asked = NoAsk -> s
          [] l.asked # NoAsk /\ ~AnswersSynopsis(ids, l.asked) -> Disconnect(s, m)
          [] l.asked # NoAsk /\ AnswersSynopsis(ids, l.asked) /\ done ->
                [s1 EXCEPT !.link[m].need = FALSE]
          [] OTHER ->
                IF (left # 0 /\ Len(list) <= MinPrefetch) \/ (left = 0 /\ list = <<>>)
                THEN FetchNextBatch(s3, m)
                ELSE [s3 EXCEPT !.fetch_due = TRUE]

\* on_fetch_items_message, for sync blocks.  Our record of what the peer has
\* seen moves to the last block sent; a block we do not have makes the
\* handler throw, which closes the connection.
OnFetchItems(s, m, ids) ==
    IF \A i \in DOMAIN ids : ids[i] \in s.known
    THEN [s EXCEPT !.link[m].seen = Last(ids),
                   !.out[m] = @ \o [i \in DOMAIN ids |-> [type |-> "block", block |-> ids[i]]]]
    ELSE Closed(s, m)

\* process_block_message and process_block_during_sync
OnBlock(s, m, b) ==
    LET l == s.link[m]
        s1 == [s EXCEPT !.link[m].requested = @ \ {b},
                        !.active = @ \ {b},
                        !.received = @ \cup {b}]
        s2 == TriggerBacklog(s1)
    IN  IF b \notin l.requested THEN Disconnect(s, m)
        ELSE IF ~Idle(s2.link[m]) THEN s2
        ELSE IF l.unfetched > 0 /\ Len(l.to_get) < MinPrefetch THEN FetchNextBatch(s2, m)
        ELSE [s2 EXCEPT !.fetch_due = TRUE]

\* The rest of process_block_during_normal_operation for a block that the
\* chain has: the peers that told us of it have seen it, the others are told.
NormalAccepted(s, b) ==
    Broadcast([s EXCEPT !.link = [p \in DOMAIN @ |->
                  IF p \in Active(s) /\ b \in @[p].adv THEN [@[p] EXCEPT !.seen = b] ELSE @[p]]],
              b)

\* process_block_during_normal_operation until the delegate has the block
OnNormalBlock(s, m, b) ==
    LET s1 == [s EXCEPT !.link[m].adv = @ \cup {b}]
    IN  IF b \in s.recent THEN NormalAccepted(s1, b)
        ELSE [s1 EXCEPT !.normal = Append(@, [peer |-> m, block |-> b])]

\* The rest of it, when handle_block returns.
NormalHandled(s) ==
    LET m == Head(s.normal).peer
        b == Head(s.normal).block
        s1 == [s EXCEPT !.normal = Tail(@)]
        offered == {p \in Active(s) : s.link[p].to_get # <<>> /\ s.link[p].to_get[1] = b}
    IN  CASE Outcome(s, b) = "accepted" -> NormalAccepted(Pushed(s1, b), b)
          [] Outcome(s, b) = "unlinkable" -> IF m = NoPeer THEN s1 ELSE StartSync(s1, m)
          [] OTHER -> FoldSet(LAMBDA p, t : Disconnect(t, p), s1,
                              (offered \cup {m}) \ {NoPeer})

---------------------------------------------------------------------------
(* Tasks of the p2p thread.                                                *)

\* Mutant of RequestFrom: a list of one block is taken for an empty one.
RequestFromLonger(s, m) ==
    LET l == s.link[m]
        wanted == SelectSeq(l.to_get, LAMBDA b : b \notin s.received \cup s.active)
        ids == SubSeq(wanted, 1, Min({Len(wanted) - 1, MaxPerPeer}))
    IN  IF l.need /\ Idle(l) /\ ids # <<>>
        THEN Send([s EXCEPT !.link[m].requested = Range(ids), !.active = @ \cup Range(ids)],
                  m, [type |-> "fetch", ids |-> ids])
        ELSE s

\* One peer's part of fetch_sync_items_loop.
RequestFrom(s, m) ==
    LET l == s.link[m]
        wanted == SelectSeq(l.to_get, LAMBDA b : b \notin s.received \cup s.active)
        ids == SubSeq(wanted, 1, Min({Len(wanted), MaxPerPeer}))
    IN  IF l.need /\ Idle(l) /\ ids # <<>>
        THEN Send([s EXCEPT !.link[m].requested = Range(ids), !.active = @ \cup Range(ids)],
                  m, [type |-> "fetch", ids |-> ids])
        ELSE s

\* fetch_sync_items_loop, with the peers in some order.
FetchSyncItems(s, order) ==
    LET s1 == [s EXCEPT !.fetch_due = FALSE]
    IN  IF s.suspended THEN s1 ELSE FoldLeft(RequestFrom, s1, order)

\* A received block that some peer's list starts with.
FirstForSome(s) ==
    {b \in s.received : \E m \in Active(s) : s.link[m].to_get # <<>> /\ s.link[m].to_get[1] = b}

TakeFirst(s, b) ==
    [s EXCEPT !.link = [m \in DOMAIN @ |->
        IF m \in Active(s) /\ @[m].to_get # <<>> /\ Head(@[m].to_get) = b
        THEN [@[m] EXCEPT !.to_get = Tail(@), !.processing = @ \cup {b}]
        ELSE @[m]]]

\* Peers p with the block among those being processed: it is done.
Processed(s, b, seen) ==
    [s EXCEPT !.link = [m \in DOMAIN @ |->
        IF m \in Active(s) /\ b \in @[m].processing
        THEN [@[m] EXCEPT !.processing = @ \ {b}, !.seen = IF seen THEN b ELSE @]
        ELSE @[m]]]

\* Peers whose lists b was the last of, before (s) and after (t) it was done.
NewlyEmpty(s, t, b) ==
    {m \in Active(s) : /\ b \in s.link[m].processing /\ t.link[m].processing = {}
                       /\ t.link[m].to_get = <<>> /\ t.link[m].unfetched = 0}

\* Blocks are handed over until nothing is left to hand over or too many
\* are being handled: the states that this may end in, over the orders of
\* the received blocks.  A block that was accepted meanwhile on another way
\* stays among the received ones and ends the loop.
RECURSIVE Backlog(_)
Backlog(s) ==
    LET full == InProgress(s) >= MaxHandle
        End(t, empty) ==
            {Continue([t EXCEPT !.suspended = full /\ Cardinality(t.received) >= MaxPrefetch], task)
                : task \in Tasks(TRUE, empty, {})}
        Skip(t, b) == LET u == Processed(t, b, FALSE) IN End(u, NewlyEmpty(t, u, b))
    IN  IF full \/ FirstForSome(s) = {} THEN End(s, {})
        ELSE UNION {IF b \in s.recent THEN Skip(TakeFirst(s, b), b)
                    ELSE Backlog([TakeFirst(s, b) EXCEPT !.received = @ \ {b},
                                                         !.handling = Append(@, b)])
                    : b \in FirstForSome(s)}

\* process_backlog_of_sync_blocks; it may have to wait for synopses.
ProcessBacklog(s) ==
    LET s1 == [s EXCEPT !.backlog_due = FALSE]
    IN  IF InProgress(s) >= MaxHandle THEN {s1}
        ELSE Backlog([s1 EXCEPT !.suspended = FALSE])

\* The rest of send_sync_block_to_node_delegate, when handle_block returns: the
\* states that the orders of the peers may lead to.
BlockHandled(s) ==
    LET b == Head(s.handling)
        s1 == [s EXCEPT !.handling = Tail(@)]
        s2 == [Pushed(s1, b) EXCEPT !.recent = @ \cup {b}]
        resync == {m \in Active(s) : /\ s.link[m].to_get = <<>> /\ s.link[m].processing = {}
                                     /\ ~s.link[m].needs_us /\ ~s.link[m].need}
        s3 == Processed(s2, b, TRUE)
        offered == {m \in Active(s) : b \in s.link[m].processing}
    IN  IF Outcome(s, b) = "accepted"
        THEN {Continue(s3, task) : task \in Tasks(FALSE, NewlyEmpty(s2, s3, b), resync)}
        ELSE {TriggerBacklog(FoldSet(LAMBDA m, t : Disconnect(t, m), s1, offered))}

\* The first synopsis that a task waits for is there: it is sent, and the task
\* goes on.
AskNext(s) ==
    LET task == Head(s.tasks)
        m == task.steps[1].peer
        s1 == [s EXCEPT !.tasks = Tail(@)]
    IN  Continue(IF m = NoPeer THEN s1 ELSE AskWith(s1, m, task.ask),
                 [task EXCEPT !.steps = Tail(@)])

\* A task waits for a synopsis, or will, for the peer.
WillAsk(s, m) ==
    \E k \in DOMAIN s.tasks : \E i \in DOMAIN s.tasks[k].steps : s.tasks[k].steps[i].peer = m

\* The peer looks stalled to terminate_inactive_connections_loop.
LooksStalled(s, m) ==
    /\ m \in Active(s)
    /\ s.link[m].need /\ s.link[m].asked = NoAsk /\ s.link[m].to_get = <<>>

---------------------------------------------------------------------------
(* The network.                                                            *)

\* new_peer_just_added
Added(s, m) == StartSync([s EXCEPT !.link[m] = Fresh, !.out[m] = <<>>], m)

InitNode(n, start) ==
    LET s == [start |-> start, known |-> Range(Branch[start]), head |-> start,
              link |-> [m \in Peers(n) |-> Gone], out |-> [m \in Peers(n) |-> <<>>],
              active |-> {}, received |-> {}, handling |-> <<>>,
              recent |-> {start} \ {Genesis}, suspended |-> FALSE,
              fetch_due |-> FALSE, backlog_due |-> FALSE, tasks |-> <<>>, normal |-> <<>>]
    IN  FoldSet(LAMBDA m, t : Added(t, m), s, Peers(n))

Init == \E w \in Worlds : /\ node = [n \in Node |-> InitNode(n, w.start[n])]
                          /\ drops = w.drops

Handle(n, m, msg) ==
    LET s == node[n]
    IN  CASE msg.type = "fetch_ids" -> OnFetchIds(s, m, msg.synopsis)
          [] msg.type = "ids" -> OnIds(s, m, msg.ids, msg.left)
          [] msg.type = "fetch" -> IF n \in Slow THEN s ELSE OnFetchItems(s, m, msg.ids)
          [] msg.type = "block" -> OnBlock(s, m, msg.block)
          [] msg.type = "normal" -> OnNormalBlock(s, m, msg.block)
          [] msg.type = "closing" -> OnClosing(s, m)
          [] msg.type = "eof" -> Closed(s, m)

\* n's reader of the messages of m waits for the delegate.
Waits(n, m) == \E k \in DOMAIN node[n].normal : node[n].normal[k].peer = m

\* n reads the next message of m.
CanReceive(n, m) == node[n].link[m].up /\ node[m].out[n] # <<>> /\ ~Waits(n, m)

Receive(n, m) ==
    /\ CanReceive(n, m)
    /\ node' = [node EXCEPT ![n] = Handle(n, m, Head(node[m].out[n])), ![m].out[n] = Tail(@)]
    /\ UNCHANGED drops

\* The network breaks a connection.
Drop(n, m) ==
    /\ node[n].link[m].up /\ ~Waits(n, m)
    /\ {n, m} \in drops /\ drops' = drops \ {{n, m}}
    /\ node' = [node EXCEPT ![n] = Closed(@, m)]

\* terminate_inactive_connections_loop closes a connection: the peer did not
\* answer our synopsis in time or does not close, or we need blocks from it
\* and wait for none.  The last may be the end of a block not yet handled.
GiveUp(n, m) ==
    LET l == node[n].link[m]
        clock == \/ m \in Active(node[n]) /\ l.asked # NoAsk
                 \/ LooksStalled(node[n], m) /\ (l.processing # {} \/ WillAsk(node[n], m))
        stalled == LooksStalled(node[n], m) /\ l.processing = {} /\ ~WillAsk(node[n], m)
    IN  /\ l.up /\ ~Waits(n, m)
        /\ \/ clock /\ {n, m} \in drops /\ drops' = drops \ {{n, m}}
           \/ (l.closing \/ stalled) /\ UNCHANGED drops
        /\ node' = [node EXCEPT ![n] = Closed(@, m)]

Reconnect(n, m) ==
    /\ ~node[n].link[m].up /\ ~node[m].link[n].up
    /\ node' = [node EXCEPT ![n] = Added(@, m), ![m] = Added(@, n)]
    /\ UNCHANGED drops

FetchLoop(n) ==
    /\ node[n].fetch_due
    /\ \E order \in SetToSeqs(Active(node[n])) :
          node' = [node EXCEPT ![n] = FetchSyncItems(@, order)]
    /\ UNCHANGED drops

BacklogTask(n) ==
    /\ node[n].backlog_due
    /\ \E s \in ProcessBacklog(node[n]) : node' = [node EXCEPT ![n] = s]
    /\ UNCHANGED drops

FinishBlock(n) ==
    /\ node[n].handling # <<>>
    /\ \E s \in BlockHandled(node[n]) : node' = [node EXCEPT ![n] = s]
    /\ UNCHANGED drops

FinishNormal(n) ==
    /\ node[n].normal # <<>>
    /\ node' = [node EXCEPT ![n] = NormalHandled(@)]
    /\ UNCHANGED drops

\* The delegate answers the tasks in their order.
SynopsisReady(n) ==
    /\ node[n].tasks # <<>>
    /\ node' = [node EXCEPT ![n] = AskNext(@)]
    /\ UNCHANGED drops

Produce(n, b) ==
    /\ Maker[b] = n /\ Prev[b] = node[n].head
    /\ \A m \in Node : b \notin node[m].known
    /\ node' = [node EXCEPT ![n] = Broadcast(Pushed(@, b), b)]
    /\ UNCHANGED drops

Next ==
    \/ \E n \in Node : \/ FetchLoop(n)
                       \/ BacklogTask(n)
                       \/ FinishBlock(n)
                       \/ FinishNormal(n)
                       \/ SynopsisReady(n)
                       \/ \E b \in Block : Produce(n, b)
                       \/ \E m \in Peers(n) : \/ Receive(n, m)
                                              \/ Drop(n, m)
                                              \/ GiveUp(n, m)
                                              \/ Reconnect(n, m)

Spec == Init /\ [][Next]_vars

\* The p2p thread runs every task that is ready and reads every connection;
\* the loops for connecting and terminating run every few seconds.  The
\* conditions written out are those under which the actions are enabled.
Fairness ==
    \A n \in Node :
        /\ WF_vars(FetchLoop(n))
        /\ []<>~node[n].backlog_due \/ []<><<BacklogTask(n)>>_vars
        /\ []<>(node[n].handling = <<>>) \/ []<><<FinishBlock(n)>>_vars
        /\ []<>(node[n].normal = <<>>) \/ []<><<FinishNormal(n)>>_vars
        /\ []<>(node[n].tasks = <<>>) \/ []<><<SynopsisReady(n)>>_vars
        /\ \A m \in Peers(n) :
              /\ WF_vars(GiveUp(n, m))
              /\ []<>~CanReceive(n, m) \/ []<><<Receive(n, m)>>_vars
              /\ []<>(node[n].link[m].up \/ node[m].link[n].up) \/ []<><<Reconnect(n, m)>>_vars

FairSpec == Spec /\ Fairness

---------------------------------------------------------------------------
(* Properties.                                                             *)

Links == {<<n, m>> \in Node \X Node : {n, m} \in Edge}
L(e) == node[e[1]].link[e[2]]

Message ==
    [type : {"closing", "eof"}]
        \cup [type : {"fetch_ids"}, synopsis : Seq(Block)]
        \cup [type : {"ids"}, ids : Seq(Block), left : Nat]
        \cup [type : {"fetch"}, ids : Seq(Block)]
        \cup [type : {"block", "normal"}, block : Block]

Link ==
    [up : BOOLEAN, closing : BOOLEAN, theirs : BOOLEAN, need : BOOLEAN,
     needs_us : BOOLEAN, to_get : Seq(Block), unfetched : Nat,
     requested : SUBSET Block, processing : SUBSET Block,
     asked : Seq(Block) \cup {NoAsk},
     seen : Block \cup {Genesis}, adv : SUBSET Block]

Task ==
    [backlog : BOOLEAN, ask : [ref : Block \cup {Genesis}, ids : Seq(Block)],
     steps : Seq([peer : Node \cup {NoPeer}, again : BOOLEAN])]

\* Types, and the limits of the configuration: a peer is asked for at most
\* maximum_blocks_per_peer_during_syncing blocks at a time, and at most
\* maximum_number_of_blocks_to_handle_at_one_time are with the delegate.
TypeOK ==
    /\ drops \subseteq Edge
    /\ \A n \in Node :
          /\ node[n].head \in node[n].known \cup {Genesis}
          /\ node[n].known \cup node[n].active \cup node[n].received
                 \cup node[n].recent \subseteq Block
          /\ node[n].handling \in Seq(Block) /\ InProgress(node[n]) <= MaxHandle
          /\ node[n].tasks \in Seq(Task)
          /\ node[n].normal \in Seq([peer : Node \cup {NoPeer}, block : Block])
          /\ {node[n].fetch_due, node[n].backlog_due, node[n].suspended} \subseteq BOOLEAN
    /\ \A e \in Links :
          /\ node[e[1]].out[e[2]] \in Seq(Message)
          /\ L(e) \in Link
          /\ Cardinality(L(e).requested) <= MaxPerPeer

\* _active_sync_requests, which keeps the fetch loop from asking two peers
\* for one block, is exactly what the peers were asked for, each block once:
\* an entry too many and the block is never fetched, one too few and it is
\* fetched twice.  Drops, restarts and disconnects must keep the two alike.
RequestTracked ==
    /\ TypeOK
    /\ \A n \in Node :
          /\ node[n].active = UNION {node[n].link[m].requested : m \in Peers(n)}
          /\ \A m, p \in Peers(n) :
                m # p => node[n].link[m].requested \cap node[n].link[p].requested = {}

\* A peer's ids_of_items_to_get is a piece of one branch, and its first block
\* builds on one the chain has or is being given: lists are extended, cut,
\* flushed and consumed from several places, and a gap in one would have the
\* node push blocks that do not link and blame the peer for it.
ListsLink ==
    \A e \in Links :
        LET get == L(e).to_get
            have == node[e[1]].known \cup {Genesis} \cup Range(node[e[1]].handling)
        IN  \A i \in DOMAIN get : Prev[get[i]] \in (IF i = 1 THEN have ELSE {get[i - 1]})

\* No node that runs this code is told to close its connection because of
\* what it sent: not for an answer that does not fit the synopsis, a block
\* that was not asked for or one that is rejected, whatever is late, dropped
\* or started again.
NoBlame == \A e \in Links : ~L(e).closing

\* process_backlog_of_sync_blocks left a received block that is next in some
\* peer's list, with nothing that would call it again: it met a block already
\* accepted on another way, and leaves its loop there.
Left(s) ==
    /\ ~s.backlog_due /\ ~InBacklog(s)
    /\ InProgress(s) < MaxHandle
    /\ FirstForSome(s) # {}

\* Every node ends up with a chain at least as long as each of its peers had
\* at the start, although connections break and peers are given up, unless
\* its backlog was left lying.
CatchUp ==
    <>[](\A e \in Links : \/ Num(node[e[1]].head) >= Num(node[e[2]].start)
                          \/ Left(node[e[1]]))

\* "this timeout determines how long we wait for them to reply before we give
\* up and ask another peer for the item": a block that was requested arrives
\* or is no longer waited for.
RequestsEnd ==
    \A e \in Links : \A b \in Block : b \in L(e).requested ~> b \notin L(e).requested

=============================================================================
