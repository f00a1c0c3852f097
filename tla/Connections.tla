---------------------------- MODULE Connections ----------------------------
(***************************************************************************)
(* How nodes connect and disconnect (libraries/net/node.cpp and            *)
(* peer_connection.cpp): dialling, the handshake in which each side        *)
(* accepts or rejects the other's hello, and the ways a connection ends.   *)
(*                                                                         *)
(* A connection has two ends, "out" at the node that dialled and "in" at   *)
(* the node that accepted, each a peer_connection in one of the lists of   *)
(* its node.  Two nodes may dial each other at once, and a node may dial   *)
(* itself.  A node knows a peer by the id in its hello, not by the address *)
(* the connection comes from, which is a port the system chose.            *)
(***************************************************************************)
EXTENDS Naturals, FiniteSets, Sequences, FiniteSetsExt

CONSTANTS
    Node,         \* the nodes; also their addresses
    Conn,         \* numbers of connections, free again when both ends are gone
    Knows,        \* [Node -> SUBSET Node] the addresses a node starts with
    Incompatible, \* pairs <<n, m>>: n refuses m (other chain, or too old)
    Nobody,       \* the node at neither end, and the id not yet known
    Desired,      \* desired_number_of_connections
    Maximum,      \* maximum_number_of_connections
    MaxFaults     \* bound on failed dials, early timeouts and idle peers

ASSUME NobodyAssumption == Nobody \notin Node
ASSUME KnowsAssumption == Knows \in [Node -> SUBSET Node]
ASSUME FaultsAssumption == MaxFaults \in Nat

VARIABLES
    conn,    \* [Conn -> its nodes, ends and messages under way]
    db,      \* [Node -> SUBSET Node] _potential_peer_db
    faults   \* faults so far

vars == <<conn, db, faults>>

Side == {"out", "in"}
Other(side) == IF side = "out" THEN "in" ELSE "out"

\* A peer_connection that does not exist, and one just made for a dial.
Absent == [list |-> "none", our |-> "disconnected", their |-> "disconnected", id |-> Nobody,
           we_close |-> FALSE, they_close |-> FALSE, open |-> FALSE, reader |-> FALSE]
Dialling == [Absent EXCEPT !.list = "handshaking", !.open = TRUE]
Connected == [Dialling EXCEPT !.our = "just", !.their = "just", !.reader = TRUE]

Free == [from |-> Nobody, to |-> Nobody,
         end |-> [s \in Side |-> Absent], wire |-> [s \in Side |-> <<>>]]

Owner(c, side) == IF side = "out" THEN conn[c].from ELSE conn[c].to

\* The ends at node n, and those get_number_of_connections counts.
Ends(n) == {e \in Conn \X Side : Owner(e[1], e[2]) = n}
End(e) == conn[e[1]].end[e[2]]
Counted(n) == {e \in Ends(n) : End(e).list \in {"handshaking", "active"}}

Accepting(n) == Cardinality(Counted(n)) <= Maximum
Wanting(n) == Cardinality(Counted(n)) < Desired

\* Mutant of AlreadyConnected: what is still shaking hands is not looked at.
AlreadyActive(n, id) == id = n \/ \E e \in Ends(n) : End(e).list = "active" /\ End(e).id = id

\* is_already_connected_to_id
AlreadyConnected(n, id) == id = n \/ \E e \in Counted(n) : End(e).id = id

---------------------------------------------------------------------------
(* What handlers do to their end of a connection (k is the connection).    *)

Send(k, side, msg) ==
    IF k.end[side].open THEN [k EXCEPT !.wire[side] = Append(@, msg)] ELSE k

\* close_connection: the other side learns of it behind what was sent.
CloseSocket(k, side) ==
    [Send(k, side, [type |-> "eof"]) EXCEPT !.end[side].open = FALSE]

\* disconnect_from_peer
Disconnect(k, side) ==
    LET k1 == [k EXCEPT !.end[side].list = "closing"]
    IN  IF k.end[side].they_close THEN CloseSocket(k1, side)
        ELSE Send([k1 EXCEPT !.end[side].we_close = TRUE], side, [type |-> "closing"])

\* on_connection_closed; the connection's name is free when both ends left.
Closed(k, side) ==
    LET k1 == [k EXCEPT !.end[side] = Absent, !.wire[Other(side)] = <<>>]
    IN  IF k1.end[Other(side)].list = "none" THEN Free ELSE k1

Reject(k, side, reason) ==
    Send([k EXCEPT !.end[side].their = "rejected"], side,
         [type |-> "rejected", reason |-> reason])

\* The decision of on_hello_message about node m, for a peer that has not
\* said hello before.
Answer(k, side, n, m) ==
    CASE <<n, m>> \in Incompatible -> Disconnect(Reject(k, side, "refused"), side)
      [] <<n, m>> \notin Incompatible /\ AlreadyConnected(n, m) ->
             Reject(k, side, IF n = m THEN "self" ELSE "already")
      [] <<n, m>> \notin Incompatible /\ ~AlreadyConnected(n, m) /\ ~Accepting(n) ->
             Reject(k, side, "full")
      [] OTHER -> Send([k EXCEPT !.end[side].their = "accepted"], side, [type |-> "accepted"])

OnHello(k, side, n, m) ==
    LET k1 == [k EXCEPT !.end[side].id = m]
    IN  IF k.end[side].their = "just" THEN Answer(k1, side, n, m) ELSE Disconnect(k1, side)

\* A valid peer that is not yet connected is one to dial later.
HelloTeaches(k, side, n, m) ==
    IF k.end[side].their = "just" /\ <<n, m>> \notin Incompatible /\ ~AlreadyConnected(n, m)
    THEN {m} ELSE {}

\* on_connection_accepted_message
OnAccepted(k, side) ==
    Send([k EXCEPT !.end[side].our = "accepted"], side, [type |-> "address_request"])

\* on_connection_rejected_message; a second one is an exception, which ends
\* the connection.
OnRejected(k, side, reason) ==
    LET k1 == IF reason = "self"
              THEN CloseSocket([k EXCEPT !.end[side].list = "closing"], side) ELSE k
    IN  IF k.end[side].our # "just" THEN Closed(CloseSocket(k, side), side)
        ELSE Send([k1 EXCEPT !.end[side].our = "rejected"], side, [type |-> "address_request"])

\* move_peer_to_active_list and new_peer_just_added: synchronization starts.
Activate(k, side) ==
    Send([k EXCEPT !.end[side].list = "active"], side, [type |-> "sync"])

\* Mutant of OnAddress: what we rejected ourselves is not looked at.
OnAddressTheirs(k, side) ==
    LET e == k.end[side]
    IN  CASE e.list # "handshaking" -> k
          [] e.list = "handshaking" /\ e.our = "rejected" -> Disconnect(k, side)
          [] OTHER -> Activate(k, side)

\* on_address_message ends the handshake.
OnAddress(k, side) ==
    LET e == k.end[side]
    IN  CASE e.list # "handshaking" -> k
          [] e.list = "handshaking" /\ "rejected" \in {e.our, e.their} -> Disconnect(k, side)
          [] OTHER -> Activate(k, side)

\* on_fetch_blockchain_item_ids_message: who dialled us has ended the
\* handshake.
OnSync(k, side) ==
    IF side = "in" /\ k.end[side].list = "handshaking" THEN Activate(k, side) ELSE k

\* on_closing_connection_message
OnClosing(k, side) ==
    LET k1 == [k EXCEPT !.end[side].they_close = TRUE]
    IN  IF k.end[side].we_close THEN CloseSocket(k1, side) ELSE k1

---------------------------------------------------------------------------
(* Steps.                                                                  *)

Init ==
    /\ conn = [c \in Conn |-> Free]
    /\ db = Knows
    /\ faults = 0

\* p2p_network_connect_loop dials an address unless a connection to it, that
\* is one we dialled, is in progress.
Dial(n, m, c) ==
    /\ conn[c] = Free /\ \A d \in Conn : d < c => conn[d] # Free
    /\ m \in db[n] /\ Wanting(n)
    /\ ~\E e \in Counted(n) : e[2] = "out" /\ conn[e[1]].to = m
    /\ conn' = [conn EXCEPT ![c] = [Free EXCEPT !.from = n, !.to = m, !.end["out"] = Dialling]]
    /\ UNCHANGED <<db, faults>>

InProgress(c) == conn[c].end["out"].list # "none" /\ conn[c].end["out"].our = "disconnected"

\* accept_loop takes the connection and lists it before keys are exchanged.
Accept(c) ==
    /\ InProgress(c) /\ conn[c].end["in"] = Absent
    /\ conn' = [conn EXCEPT ![c].end["in"] = Dialling]
    /\ UNCHANGED <<db, faults>>

\* The ends of accept_connection_task and connect_to_task: both say hello.
Establish(c) ==
    /\ InProgress(c) /\ \A s \in Side : conn[c].end[s].open
    /\ conn' = [conn EXCEPT
         ![c].end = [s \in Side |-> Connected],
         ![c].wire["out"] = <<[type |-> "hello", id |-> conn[c].from]>>,
         ![c].wire["in"] = <<[type |-> "hello", id |-> conn[c].to]>>]
    /\ UNCHANGED <<db, faults>>

GivenUp(c) == \E s \in Side : conn[c].end[s].list = "terminating"

\* A dial fails: nobody answers, or an end was given up meanwhile.  When it
\* fails in the exchange of keys, the node that accepted is left with a
\* connection that nothing reads.
DialFails(c) ==
    /\ InProgress(c)
    /\ IF GivenUp(c) THEN UNCHANGED faults ELSE faults < MaxFaults /\ faults' = faults + 1
    /\ conn' = [conn EXCEPT ![c] =
                   IF @.end["in"] = Absent THEN Free
                   ELSE [Free EXCEPT !.from = conn[c].from, !.to = conn[c].to,
                                     !.end["in"] = conn[c].end["in"]]]
    /\ UNCHANGED db

\* on_address_request_message: the addresses of active peers (of those we
\* dialled; a peer that dialled us is listed with a port nobody can dial).
Addresses(n) ==
    {conn[e[1]].to : e \in {x \in Ends(n) : x[2] = "out" /\ End(x).list = "active"}}

Handle(k, side, msg, n) ==
    CASE msg.type = "hello" -> OnHello(k, side, n, msg.id)
      [] msg.type = "accepted" -> OnAccepted(k, side)
      [] msg.type = "rejected" -> OnRejected(k, side, msg.reason)
      [] msg.type = "address_request" ->
             Send(k, side, [type |-> "address", nodes |-> Addresses(n)])
      [] msg.type = "address" -> OnAddress(k, side)
      [] msg.type = "sync" -> OnSync(k, side)
      [] msg.type = "closing" -> OnClosing(k, side)
      [] msg.type = "eof" -> Closed(CloseSocket(k, side), side)

\* What a message changes in the database of addresses.
Learn(k, side, msg, n) ==
    CASE msg.type = "hello" -> db[n] \cup HelloTeaches(k, side, n, msg.id)
      [] msg.type = "address" -> db[n] \cup msg.nodes
      [] msg.type = "rejected" /\ msg.reason = "self" /\ side = "out" /\ k.end[side].our = "just" ->
             db[n] \ {k.to}
      [] OTHER -> db[n]

CanReceive(c, side) ==
    /\ conn[c].end[side].reader /\ conn[c].end[side].open
    /\ conn[c].wire[Other(side)] # <<>>

Receive(c, side) ==
    LET n == Owner(c, side)
        msg == Head(conn[c].wire[Other(side)])
        k == [conn[c] EXCEPT !.wire[Other(side)] = Tail(@)]
    IN  /\ CanReceive(c, side)
        /\ conn' = [conn EXCEPT ![c] = Handle(k, side, msg, n)]
        /\ db' = [db EXCEPT ![n] = Learn(k, side, msg, n)]
        /\ UNCHANGED faults

\* The read loop of a connection that this end closed ends.
CanEnd(c, side) == conn[c].end[side].reader /\ ~conn[c].end[side].open

ReaderEnds(c, side) ==
    /\ CanEnd(c, side)
    /\ conn' = [conn EXCEPT ![c] = Closed(@, side)]
    /\ UNCHANGED <<db, faults>>

\* move_peer_to_terminating_list and close_connection
Terminate(k, side) == CloseSocket([k EXCEPT !.end[side].list = "terminating"], side)

\* terminate_inactive_connections_loop: a handshake in which nothing happens,
\* which may be early while something is still under way, and a peer that was
\* asked to close and has not.
Quiet(c) == \A s \in Side : conn[c].wire[s] = <<>>

\* Mutant of GiveUp: a peer that was asked to close is waited for.
GiveUpHandshakes(c, side) ==
    /\ conn[c].end[side].open
    /\ conn[c].end[side].list = "handshaking"
    /\ IF Quiet(c) /\ ~InProgress(c) THEN UNCHANGED faults
       ELSE faults < MaxFaults /\ faults' = faults + 1
    /\ conn' = [conn EXCEPT ![c] = Terminate(@, side)]
    /\ UNCHANGED db

GiveUp(c, side) ==
    /\ conn[c].end[side].open
    /\ \/ conn[c].end[side].list = "handshaking"
          /\ IF Quiet(c) /\ ~InProgress(c) THEN UNCHANGED faults
             ELSE faults < MaxFaults /\ faults' = faults + 1
       \/ conn[c].end[side].list = "closing" /\ UNCHANGED faults
    /\ conn' = [conn EXCEPT ![c] = Terminate(@, side)]
    /\ UNCHANGED db

\* The same loop disconnects an active peer that sent nothing for long.
Inactive(c, side) ==
    /\ conn[c].end[side].list = "active"
    /\ faults < MaxFaults /\ faults' = faults + 1
    /\ conn' = [conn EXCEPT ![c] = Disconnect(@, side)]
    /\ UNCHANGED db

Next ==
    \E c \in Conn :
        \/ \E n, m \in Node : Dial(n, m, c)
        \/ Accept(c)
        \/ Establish(c)
        \/ DialFails(c)
        \/ \E side \in Side : \/ Receive(c, side)
                              \/ ReaderEnds(c, side)
                              \/ GiveUp(c, side)
                              \/ Inactive(c, side)

Spec == Init /\ [][Next]_vars

\* Connections are read, the system answers a dial one way or the other, and
\* the loop that terminates connections runs every second.  Nothing makes a
\* node dial.
Fairness ==
    \A c \in Conn :
        /\ WF_vars(Accept(c) \/ Establish(c) \/ DialFails(c))
        /\ \A side \in Side :
              /\ []<>~CanReceive(c, side) \/ []<><<Receive(c, side)>>_vars
              /\ WF_vars(ReaderEnds(c, side))
              /\ WF_vars(GiveUp(c, side))

FairSpec == Spec /\ Fairness

---------------------------------------------------------------------------
(* Properties.                                                             *)

Message ==
    [type : {"accepted", "address_request", "sync", "closing", "eof"}]
        \cup [type : {"hello"}, id : Node]
        \cup [type : {"rejected"}, reason : {"refused", "self", "already", "full"}]
        \cup [type : {"address"}, nodes : SUBSET Node]

EndType ==
    [list : {"none", "handshaking", "active", "closing", "terminating"},
     our : {"disconnected", "just", "accepted", "rejected"},
     their : {"disconnected", "just", "accepted", "rejected"},
     id : Node \cup {Nobody}, we_close : BOOLEAN, they_close : BOOLEAN,
     open : BOOLEAN, reader : BOOLEAN]

\* Types; and a connection has ends or is free.
TypeOK ==
    /\ db \in [Node -> SUBSET Node] /\ faults \in 0 .. MaxFaults
    /\ \A c \in Conn :
          /\ {conn[c].from, conn[c].to} \subseteq Node \cup {Nobody}
          /\ \A s \in Side : conn[c].end[s] \in EndType /\ conn[c].wire[s] \in Seq(Message)
          /\ conn[c].from = Nobody <=> \A s \in Side : conn[c].end[s].list = "none"

\* "used to prevent us from connecting to the same client multiple times": no
\* node has two active connections to one peer, or one to itself, although
\* nodes dial each other at the same time, the ids come with messages that
\* pass each other, and addresses (even a node's own) spread by themselves.
OneConnection ==
    /\ TypeOK
    /\ \A n \in Node :
          LET active == {e \in Ends(n) : End(e).list = "active"}
          IN  /\ \A e \in active : End(e).id \in Node \ {n}
              /\ \A e, f \in active : End(e).id = End(f).id => e = f

\* The handshake agrees: when one side uses the connection, the other side, if
\* it is still there, accepted it and was not rejected.
ActiveAgreed ==
    \A e \in Conn \X Side :
        LET o == conn[e[1]].end[Other(e[2])]
        IN  End(e).list = "active" /\ o.list # "none" =>
                /\ o.their = "accepted" /\ o.our # "rejected"
                /\ End(e).their = "accepted"

\* No connection is left in between: every handshake ends in an active peer or
\* in none, and every connection that is being closed disappears, except one
\* whose exchange of keys failed: nothing reads it, and
\* _terminating_connections keeps it.
Unread(e) == End(e).list = "terminating" /\ ~End(e).reader

NoLimbo ==
    \A e \in Conn \X Side :
        []<>(End(e).list \in {"none", "active"} \/ Unread(e))

=============================================================================
