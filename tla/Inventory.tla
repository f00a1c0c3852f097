----------------------------- MODULE Inventory -----------------------------
(***************************************************************************)
(* How a transaction or a new block spreads over nodes that are in sync    *)
(* (libraries/net/node.cpp): a node offers what it accepted by its id, a   *)
(* peer that lacks the item asks one of those who offered it, handles the  *)
(* item and offers it on.                                                  *)
(*                                                                         *)
(* A connection's messages are read and handled one after the other; while *)
(* the delegate handles an item, messages of other peers are handled.      *)
(* Synchronization, which PeerSync has in detail, is two steps here: the   *)
(* peer may read a synopsis meanwhile, and what it brings is there at its  *)
(* end.  Entries that age in minutes (inventories, the cache, the list to  *)
(* fetch) do not age here, and no list of offers is ever full.             *)
(***************************************************************************)
EXTENDS Naturals, FiniteSets, Sequences, Functions

CONSTANTS
    Node,      \* the nodes
    Edge,      \* the pairs {n, m} of nodes that are connected
    Tx,        \* the transactions
    Block,     \* the blocks
    Prev,      \* [Tx \cup Block -> Block \cup {None}] the block it refers to
    Source,    \* [Tx \cup Block -> Node] the node whose client broadcasts the item
    Fragile,   \* the connections that may break
    None,      \* no item, no block
    MaxItems,  \* bound on the items that are broadcast
    MaxDrops   \* bound on the connections that break or are given up

\* The id of an item has its type, and no node is connected to itself.
ASSUME ItemAssumption == Tx \cap Block = {} /\ None \notin Tx \cup Block
ASSUME EdgeAssumption == \A e \in Edge : \E n, m \in Node : n # m /\ e = {n, m}
ASSUME DropsAssumption == MaxDrops \in Nat

VARIABLES
    node,   \* [Node -> the state of its node_impl and its chain]
    drops   \* connections that broke or were given up so far

vars == <<node, drops>>

Item == Tx \cup Block

Peers(n) == {m \in Node : {n, m} \in Edge}

---------------------------------------------------------------------------
(* Connections.                                                            *)

\* A connection to a peer in sync, and one that was just made: both sides
\* wait for the other's list of blocks, and hold the other to need theirs.
InSync == [state |-> "active", syncing |-> FALSE, needs_us |-> FALSE, to_us |-> {},
           to_them |-> {}, requested |-> {}, handling |-> None]
Fresh == [InSync EXCEPT !.syncing = TRUE, !.needs_us = TRUE]
Gone == [InSync EXCEPT !.state = "gone"]

\* _active_connections
Active(s) == {m \in DOMAIN s.link : s.link[m].state = "active"}

\* idle: no item, sync block or list of ids is expected from the peer.
Idle(l) == l.requested = {} /\ ~l.syncing

Send(s, m, msg) == [s EXCEPT !.out[m] = Append(@, msg)]

\* is_item_in_any_peers_inventory
Offered(s, i) == \E m \in Active(s) : i \in s.link[m].to_us

\* _items_to_fetch numbers its items in sequence, here from the last one back:
\* an item on it has the number of messages that added to it since.  The items
\* of one message come in any order and share one.
ToFetch(s, items) ==
    LET new == items \ DOMAIN s.to_fetch
    IN  IF new = {} THEN s
        ELSE [s EXCEPT !.to_fetch = [i \in DOMAIN @ \cup new |->
                                        IF i \in new THEN 0 ELSE @[i] + 1]]

\* Mutant of Closed: what was requested from the peer is forgotten.
ClosedForgets(s, m) == [s EXCEPT !.link[m] = Gone]

\* on_connection_closed: what was requested from the peer is requested from
\* another one, if one offered it.
Closed(s, m) ==
    LET lost == s.link[m].requested
        s1 == [s EXCEPT !.link[m] = Gone, !.fetch_due = @ \/ lost # {}]
    IN  ToFetch(s1, {i \in lost : Offered(s1, i)})

---------------------------------------------------------------------------
(* Handlers.                                                               *)

\* Items a peer offers that are not looked at: they are being handled, are
\* about to be offered or were offered by this node.
Ignored(s) ==
    s.processing \cup s.new \cup UNION {s.link[p].to_them : p \in Active(s)}

\* Mutant of OnOffer: what is requested from another peer is listed again.
OnOfferAgain(s, m, items) ==
    LET noted == items \ Ignored(s)
        wanted == noted \ s.failed
    IN  [ToFetch(s, wanted) EXCEPT
            !.link[m].to_us = @ \cup noted,
            !.fetch_due = @ \/ wanted \ DOMAIN s.to_fetch # {}]

\* on_item_ids_inventory_message, for a list of the peer's offers with room
OnOffer(s, m, items) ==
    LET noted == items \ Ignored(s)
        wanted == noted \ (s.failed \cup UNION {s.link[p].requested : p \in Active(s)})
    IN  [ToFetch(s, wanted) EXCEPT
            !.link[m].to_us = @ \cup noted,
            !.fetch_due = @ \/ wanted \ DOMAIN s.to_fetch # {}]

\* on_fetch_items_message: what a node offered is in its message cache.
OnFetch(s, m, i) == Send(s, m, [type |-> "item", item |-> i])

\* broadcast, for the client and for an item that was accepted
Broadcast(s, i) == [s EXCEPT !.known = @ \cup {i}, !.new = @ \cup {i}]

\* The end of process_block_message
IdleTriggers(s, m) == [s EXCEPT !.fetch_due = @ \/ Idle(s.link[m])]

\* process_ordinary_message and process_block_message until the delegate has
\* the item.  A block that was accepted before is not handled again.
OnItem(s, m, i) ==
    LET s1 == [s EXCEPT !.link[m].requested = @ \ {i}]
        s2 == [s1 EXCEPT !.link[m].handling = i]
    IN  CASE i \notin s.link[m].requested ->
                  Send([s EXCEPT !.link[m].state = "closing"], m, [type |-> "closing"])
          [] i \in s.link[m].requested /\ i \in Tx -> IdleTriggers(s2, m)
          [] i \in s.link[m].requested /\ i \in Block /\ i \in s.known ->
                  IdleTriggers(Broadcast(s1, i), m)
          [] OTHER -> [s2 EXCEPT !.processing = @ \cup {i}]

\* start_synchronizing_with_peer
StartSync(s, m) == [s EXCEPT !.link[m].syncing = TRUE]

\* The chain has the block that a block or transaction refers to.
Links(s, i) == Prev[i] \in s.known \cup {None}

\* The rest of process_ordinary_message: a transaction is rejected because
\* the chain has it or lacks the block it refers to.
TxHandled(s, i) ==
    IF Links(s, i) /\ i \notin s.known
    THEN Broadcast(s, i)
    ELSE [s EXCEPT !.failed = @ \cup {i}]

\* The rest of process_block_during_normal_operation.  When the block does
\* not link, its id stays in _message_ids_currently_being_processed and the
\* node synchronizes with the peer.
BlockHandled(s, m, i) ==
    IF Links(s, i)
    THEN IdleTriggers(Broadcast([s EXCEPT !.processing = @ \ {i}], i), m)
    ELSE StartSync(s, m)

---------------------------------------------------------------------------
(* Tasks.                                                                  *)

\* The order of _items_to_fetch: blocks before transactions, then by number.
Before(s, i, j) ==
    \/ i \in Block /\ j \in Tx
    \/ {i, j} \subseteq Block /\ s.to_fetch[i] > s.to_fetch[j]
    \/ {i, j} \subseteq Tx /\ s.to_fetch[i] > s.to_fetch[j]

\* The peers that can be asked for an item
Able(s, i) == {m \in Active(s) : Idle(s.link[m]) /\ i \in s.link[m].to_us}

\* What the loop over the items may come to: a[m] is the item asked of m.  An
\* item goes to a peer that no item was given before, and is left only when
\* items before it took each peer that has it.
Assignments(s) ==
    {a \in UNION {[ps -> DOMAIN s.to_fetch] : ps \in SUBSET Active(s)} :
        /\ \A m \in DOMAIN a : m \in Able(s, a[m])
        /\ \A m, p \in DOMAIN a : a[m] = a[p] => m = p
        /\ \A i \in DOMAIN s.to_fetch \ Range(a) : \A m \in Able(s, i) :
              m \in DOMAIN a /\ ~Before(s, i, a[m])}

\* One iteration of fetch_items_loop
FetchItems(s, a) ==
    [s EXCEPT
        !.fetch_due = FALSE,
        !.to_fetch = [i \in DOMAIN @ \ Range(a) |-> @[i]],
        !.link = [m \in DOMAIN @ |->
            IF m \in DOMAIN a THEN [s.link[m] EXCEPT !.requested = {a[m]}] ELSE @[m]],
        !.out = [m \in DOMAIN @ |->
            IF m \in DOMAIN a THEN Append(@[m], [type |-> "fetch", item |-> a[m]]) ELSE @[m]]]

\* The new items a peer is told of: those neither side told the other.
Offers(s, m) ==
    IF s.link[m].needs_us THEN {} ELSE s.new \ (s.link[m].to_them \cup s.link[m].to_us)

\* One iteration of advertise_inventory_loop: one message for each type.
Advertise(s) ==
    LET Offer(m, kind) == IF Offers(s, m) \cap kind = {} THEN <<>>
                          ELSE <<[type |-> "offer", items |-> Offers(s, m) \cap kind]>>
    IN  [s EXCEPT
          !.new = {},
          !.link = [m \in DOMAIN s.link |->
              IF m \in Active(s) THEN [s.link[m] EXCEPT !.to_them = @ \cup Offers(s, m)]
              ELSE s.link[m]],
          !.out = [m \in DOMAIN @ |->
              IF m \in Active(s) THEN @[m] \o Offer(m, Tx) \o Offer(m, Block) ELSE @[m]]]

---------------------------------------------------------------------------
(* The network.                                                            *)

Init ==
    /\ node = [n \in Node |->
                 [known |-> {}, failed |-> {}, new |-> {}, to_fetch |-> <<>>,
                  processing |-> {}, fetch_due |-> FALSE,
                  link |-> [m \in Peers(n) |-> InSync], out |-> [m \in Peers(n) |-> <<>>]]]
    /\ drops = 0

\* The client of a node broadcasts its own transaction or block.
Originate(n, i) ==
    /\ Source[i] = n /\ i \notin node[n].known
    /\ Cardinality(UNION {node[m].known : m \in Node}) < MaxItems
    /\ Links(node[n], i)
    /\ node' = [node EXCEPT ![n] = Broadcast(@, i)]
    /\ UNCHANGED drops

Handle(s, m, msg) ==
    CASE msg.type = "offer" -> OnOffer(s, m, msg.items)
      [] msg.type = "fetch" -> OnFetch(s, m, msg.item)
      [] msg.type = "item" -> OnItem(s, m, msg.item)
      [] msg.type = "closing" -> s
      [] msg.type = "eof" -> [Closed(s, m) EXCEPT !.out[m] = <<>>]

\* n reads the next message of m.
CanReceive(n, m) ==
    /\ node[n].link[m].state \in {"active", "closing"}
    /\ node[n].link[m].handling = None
    /\ node[m].out[n] # <<>>

Receive(n, m) ==
    /\ CanReceive(n, m)
    /\ node' = [node EXCEPT ![n] = Handle(@, m, Head(node[m].out[n])), ![m].out[n] = Tail(@)]
    /\ UNCHANGED drops

\* The delegate is done with an item.
FinishItem(n, m) ==
    LET i == node[n].link[m].handling
        s == [node[n] EXCEPT !.link[m].handling = None]
    IN  /\ i # None
        /\ node' = [node EXCEPT ![n] =
                       IF i \in Tx THEN TxHandled(s, i) ELSE BlockHandled(s, m, i)]
        /\ UNCHANGED drops

FetchLoop(n) ==
    /\ node[n].fetch_due
    /\ \E a \in Assignments(node[n]) : node' = [node EXCEPT ![n] = FetchItems(@, a)]
    /\ UNCHANGED drops

AdvertiseLoop(n) ==
    /\ node[n].new # {}
    /\ node' = [node EXCEPT ![n] = Advertise(@)]
    /\ UNCHANGED drops

\* n has a block that m lacks.
Ahead(n, m) == ~(node[n].known \cap Block \subseteq node[m].known)

\* on_fetch_blockchain_item_ids_message, for the link to a peer that is behind
\* or not, and ahead or not
Heard(l, behind, ahead) == [l EXCEPT !.needs_us = behind, !.syncing = @ \/ ahead]

\* A synopsis of m shows m behind: n offers it nothing until m is in sync, and
\* synchronizes too if m is ahead in turn.
OnSynopsis(n, m) ==
    /\ node[m].link[n].syncing /\ node[m].link[n].state = "active"
    /\ node[n].link[m].state = "active" /\ node[n].link[m].handling = None
    /\ Ahead(n, m)
    /\ node' = [node EXCEPT ![n].link[m] = Heard(@, TRUE, Ahead(m, n))]
    /\ UNCHANGED drops

\* Synchronization with m ends, with the synopsis that shows nothing missing
\* and its answer: n has the blocks of m, and m knows it, and synchronizes in
\* turn if n is ahead.
Synced(n, m) ==
    /\ node[n].link[m].syncing /\ node[n].link[m].state = "active"
    /\ node[m].link[n].state = "active"
    /\ node' = [node EXCEPT ![n].known = @ \cup (node[m].known \cap Block),
                            ![n].link[m].syncing = FALSE,
                            ![m].link[n] = Heard(@, FALSE, Ahead(n, m))]
    /\ UNCHANGED drops

\* The network breaks a connection: reading fails.
Drop(n, m) ==
    /\ {n, m} \in Fragile
    /\ node[n].link[m].state = "active" /\ node[n].link[m].handling = None
    /\ drops < MaxDrops /\ drops' = drops + 1
    /\ node' = [node EXCEPT ![n] = Send(Closed(@, m), m, [type |-> "eof"])]

\* terminate_inactive_connections_loop: a request was not answered in time,
\* or the peer does not close.
GiveUp(n, m) ==
    LET l == node[n].link[m]
    IN  /\ \/ /\ {n, m} \in Fragile /\ l.state = "active" /\ l.requested # {}
              /\ drops < MaxDrops /\ drops' = drops + 1
           \/ l.state = "closing" /\ UNCHANGED drops
        /\ node' = [node EXCEPT ![n] = Send([@ EXCEPT !.link[m].state = "terminating"],
                                            m, [type |-> "eof"])]

\* The reader of a connection that was given up ends.
ReaderEnds(n, m) ==
    /\ node[n].link[m].state = "terminating" /\ node[n].link[m].handling = None
    /\ node' = [node EXCEPT ![n] = Closed(@, m)]
    /\ UNCHANGED drops

Reconnect(n, m) ==
    /\ node[n].link[m].state = "gone" /\ node[m].link[n].state = "gone"
    /\ node' = [node EXCEPT ![n] = [@ EXCEPT !.link[m] = Fresh, !.out[m] = <<>>],
                            ![m] = [@ EXCEPT !.link[n] = Fresh, !.out[n] = <<>>]]
    /\ UNCHANGED drops

Next ==
    \E n \in Node :
        \/ FetchLoop(n)
        \/ AdvertiseLoop(n)
        \/ \E i \in Item : Originate(n, i)
        \/ \E m \in Peers(n) : \/ Receive(n, m)
                               \/ FinishItem(n, m)
                               \/ OnSynopsis(n, m)
                               \/ Synced(n, m)
                               \/ Drop(n, m)
                               \/ GiveUp(n, m)
                               \/ ReaderEnds(n, m)
                               \/ Reconnect(n, m)

Spec == Init /\ [][Next]_vars

\* The p2p thread runs every task that is ready and reads every connection,
\* the delegate answers, and the loops that connect and terminate run every
\* few seconds.  The conditions written out enable the actions.
Fairness ==
    \A n \in Node :
        /\ WF_vars(AdvertiseLoop(n))
        /\ []<>~node[n].fetch_due \/ []<><<FetchLoop(n)>>_vars
        /\ \A m \in Peers(n) :
              /\ []<>~CanReceive(n, m) \/ []<><<Receive(n, m)>>_vars
              /\ []<>(node[n].link[m].handling = None) \/ []<><<FinishItem(n, m)>>_vars
              /\ WF_vars(Synced(n, m))
              /\ WF_vars(GiveUp(n, m))
              /\ WF_vars(ReaderEnds(n, m))
              /\ WF_vars(Reconnect(n, m))

FairSpec == Spec /\ Fairness

---------------------------------------------------------------------------
(* Properties.                                                             *)

Pairs == {e \in Node \X Node : {e[1], e[2]} \in Edge}
L(e) == node[e[1]].link[e[2]]

Message ==
    [type : {"closing", "eof"}] \cup [type : {"offer"}, items : SUBSET Item]
        \cup [type : {"fetch", "item"}, item : Item]

Link ==
    [state : {"active", "closing", "terminating", "gone"}, syncing : BOOLEAN,
     needs_us : BOOLEAN, to_us : SUBSET Item, to_them : SUBSET Item,
     requested : SUBSET Item, handling : Item \cup {None}]

TypeOK ==
    /\ drops \in 0 .. MaxDrops
    /\ \A n \in Node :
          /\ node[n].known \cup node[n].failed \cup node[n].new
                 \cup node[n].processing \subseteq Item
          /\ DOMAIN node[n].to_fetch \subseteq Item /\ Range(node[n].to_fetch) \subseteq Nat
          /\ node[n].fetch_due \in BOOLEAN
    /\ \A e \in Pairs :
          /\ node[e[1]].out[e[2]] \in Seq(Message)
          /\ L(e) \in Link

Requested(n) == UNION {node[n].link[m].requested : m \in Peers(n)}
Handling(n) == {node[n].link[m].handling : m \in Peers(n)} \ {None}

\* What a connected peer offered, and the node noted as offered, is not
\* forgotten: the node has it, refused it, handles it, has asked a peer for
\* it or means to.  An id noted as offered is neither told to that peer nor
\* looked at again, so that an item dropped anywhere else (a connection that
\* ends, a request that fails, a list that is full) would stay missing.
\* A block that did not link is left to synchronization.
NoLostItem ==
    \A n \in Node : \A m \in Active(node[n]) :
        node[n].link[m].to_us \subseteq
            node[n].known \cup node[n].failed \cup node[n].processing
                \cup DOMAIN node[n].to_fetch \cup Requested(n) \cup Handling(n)

\* Fetching stays within its limits whatever is offered by whom and in which
\* order: a peer is asked for one item at a time, and, as long as no
\* connection was given up with the request open, an item is asked of one
\* peer at a time and is not on the list meanwhile.  And no node is
\* disconnected for an item it was not asked for, although requests are
\* repeated, given up and answered late.
RequestedOnce ==
    /\ TypeOK
    /\ \A e \in Pairs : L(e).state # "closing"
    /\ \A e \in Pairs : Cardinality(L(e).requested) <= 1
    /\ drops = 0 =>
          \A n \in Node :
              /\ DOMAIN node[n].to_fetch \cap Requested(n) = {}
              /\ \A m, p \in Peers(n) :
                    m # p => node[n].link[m].requested \cap node[n].link[p].requested = {}

\* An item waits on the list, an idle peer has offered it, and the loop
\* that would ask for it has not been woken.
Overslept(n, i) ==
    /\ ~node[n].fetch_due
    /\ i \in DOMAIN node[n].to_fetch
    /\ \E m \in Active(node[n]) : Idle(node[n].link[m]) /\ i \in node[n].link[m].to_us

\* An item that a node broadcasts reaches every node, although one connection
\* breaks or is given up: the other way round the ring brings it.  Only a
\* fetch loop that was not woken may keep it back, and only after some
\* connection broke or a block came in the wrong order, or, with a broken
\* connection, a node on the other way that met a transaction too early.
Delivered ==
    <>[](\A i \in Item : i \in node[Source[i]].known => \A n \in Node :
            \/ i \in node[n].known \cup node[n].failed
            \/ Overslept(n, i) /\ (drops > 0 \/ node[n].processing # {})
            \/ drops > 0 /\ \E m \in Node : i \in node[m].failed \ node[m].known)

=============================================================================
