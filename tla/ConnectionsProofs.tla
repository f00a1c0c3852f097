------------------------- MODULE ConnectionsProofs -------------------------
(***************************************************************************)
(* Proofs about connections, for any nodes, any number of connections and  *)
(* any limits: a node never uses two connections to one peer, and the two  *)
(* sides of a connection in use agree that it is one.                      *)
(*                                                                         *)
(* Neither is inductive.  What makes them true is the order of messages on *)
(* each connection (a hello first, one answer to it, an address only after *)
(* the answer), so the invariant describes what may be on the wire next to *)
(* the states of the two ends.                                             *)
(***************************************************************************)
EXTENDS Connections, TLAPS

ConnType == [from : Node \cup {Nobody}, to : Node \cup {Nobody},
             end : [Side -> EndType], wire : [Side -> Seq(Message)]]

OwnerOf(k, s) == IF s = "out" THEN k.from ELSE k.to

\* A message from end e of side s may be on its way to end o.
Fits(m, s, e, o) ==
    /\ m.type = "hello" => o.their = "just"
    /\ m.type = "accepted" => o.our \in {"just", "disconnected"} /\ e.their \in {"accepted", "disconnected"}
    /\ m.type = "rejected" => o.our \in {"just", "disconnected"} /\ e.their \in {"rejected", "disconnected"}
    /\ m.type = "address_request" => e.our # "just"
    /\ m.type = "address" => o.our # "just"
    /\ m.type = "sync" =>
           /\ e.their \in {"accepted", "disconnected"}
           /\ s = "out" => o.their \in {"accepted", "disconnected"} /\ o.our # "rejected"

\* Two messages that are not on one wire: there is one answer to a hello,
\* and who rejects does not synchronize.
Answers == {"accepted", "rejected"}
Clash(m1, m2) ==
    \/ m1.type \in Answers /\ m2.type \in Answers
    \/ m1.type = "rejected" /\ m2.type = "sync"
    \/ m1.type = "sync" /\ m2.type = "rejected"

\* The wire from side s: a hello is its first message, and is there as long
\* as the other side has not answered it.
WireOK(k, s) ==
    LET w == k.wire[s]
        e == k.end[s]
        o == k.end[Other(s)]
    IN  /\ \A i \in 1..Len(w) : Fits(w[i], s, e, o)
        /\ \A i \in 1..Len(w) : w[i].type = "hello" => i = 1
        /\ \A i, j \in 1..Len(w) : i # j => ~Clash(w[i], w[j])
        /\ o.their = "just" =>
             Len(w) > 0 /\ w[1].type = "hello"
        /\ e.their = "just" => \A i \in 1..Len(w) : w[i].type \notin Answers \cup {"sync"}

\* An end and what the other end makes of it.
EndOK(k, s) ==
    LET e == k.end[s]
        o == k.end[Other(s)]
    IN  /\ e.list = "none" => e = Absent
        /\ e.reader <=> e.our # "disconnected"
        /\ e.reader <=> e.their # "disconnected"
        /\ e.list # "none" /\ e.our = "disconnected" => o.our = "disconnected"
        /\ e.their = "just" => o.our \in {"just", "disconnected"}
        /\ o.our = "accepted" => e.their \in {"accepted", "disconnected"}
        /\ o.our = "rejected" => e.their \in {"rejected", "disconnected"}
        /\ e.their = "accepted" => e.id \in Node \ {OwnerOf(k, s)}
        /\ e.list = "active" => /\ e.their = "accepted"
                                /\ o.their \in {"accepted", "disconnected"}
                                /\ o.our # "rejected"

\* A connection has two nodes and an end, or it is free.
ConnOK(k) ==
    /\ k \in ConnType
    /\ k = Free \/ /\ k.from \in Node /\ k.to \in Node
                   /\ \E s \in Side : k.end[s].list # "none"
    /\ \A s \in Side : EndOK(k, s) /\ WireOK(k, s)

\* An end whose id counts for is_already_connected_to_id and that was
\* accepted under it.
Holds(e) == e.list \in {"handshaking", "active"} /\ e.their = "accepted"

OneHolder ==
    \A e, f \in Conn \X Side :
        Holds(End(e)) /\ Holds(End(f)) /\ End(e).id = End(f).id
            /\ Owner(e[1], e[2]) = Owner(f[1], f[2]) => e = f

ConnInv ==
    /\ db \in [Node -> SUBSET Node] /\ faults \in 0..MaxFaults
    /\ conn \in [Conn -> ConnType]
    /\ \A c \in Conn : ConnOK(conn[c])
    /\ OneHolder
-----------------------------------------------------------------------------
(* Sides, sequences and messages *)

LEMMA Sides ==
  ASSUME NEW s \in Side
  PROVE  Other(s) \in Side /\ Other(Other(s)) = s /\ Other(s) # s
         /\ \A t \in Side : t = s \/ t = Other(s)
BY DEF Side, Other

LEMMA AppendFacts ==
  ASSUME NEW S, NEW w \in Seq(S), NEW m \in S
  PROVE  /\ Append(w, m) \in Seq(S) /\ Len(w) \in Nat /\ Len(Append(w, m)) = Len(w) + 1
         /\ \A i \in 1..Len(w) : Append(w, m)[i] = w[i]
         /\ Append(w, m)[Len(w) + 1] = m
OBVIOUS

LEMMA TailFacts ==
  ASSUME NEW S, NEW w \in Seq(S), w # <<>>
  PROVE  /\ Head(w) = w[1] /\ Len(w) \in Nat /\ Len(w) > 0 /\ Head(w) \in S
         /\ Tail(w) \in Seq(S) /\ Len(Tail(w)) = Len(w) - 1
         /\ \A i \in 1..Len(Tail(w)) : i + 1 \in 1..Len(w) /\ Tail(w)[i] = w[i + 1]
OBVIOUS

\* Messages without a payload, and the payload of the others.
LEMMA MessageFacts ==
  /\ \A t \in {"accepted", "address_request", "sync", "closing", "eof"} : [type |-> t] \in Message
  /\ \A r \in {"refused", "self", "already", "full"} : [type |-> "rejected", reason |-> r] \in Message
  /\ \A S \in SUBSET Node : [type |-> "address", nodes |-> S] \in Message
  /\ \A n \in Node : [type |-> "hello", id |-> n] \in Message
  /\ \A m \in Message :
        /\ m.type \in {"hello", "accepted", "rejected", "address_request", "address", "sync",
                       "closing", "eof"}
        /\ m.type = "hello" => m.id \in Node
        /\ m.type = "address" => m.nodes \in SUBSET Node
        /\ m.type = "rejected" => m.reason \in {"refused", "self", "already", "full"}
<1>1. ASSUME NEW m \in Message
      PROVE  /\ m.type \in {"hello", "accepted", "rejected", "address_request", "address", "sync",
                            "closing", "eof"}
             /\ m.type = "hello" => m.id \in Node
             /\ m.type = "address" => m.nodes \in SUBSET Node
             /\ m.type = "rejected" => m.reason \in {"refused", "self", "already", "full"}
  BY DEF Message
<1>2. /\ \A t \in {"accepted", "address_request", "sync", "closing", "eof"} : [type |-> t] \in Message
      /\ \A r \in {"refused", "self", "already", "full"} :
            [type |-> "rejected", reason |-> r] \in Message
      /\ \A S \in SUBSET Node : [type |-> "address", nodes |-> S] \in Message
      /\ \A n \in Node : [type |-> "hello", id |-> n] \in Message
  BY DEF Message
<1> QED BY <1>1, <1>2

-----------------------------------------------------------------------------
(* Steps of one end that change nothing the other end relies on. *)

\* The fields of an end that EndOK and WireOK speak about.
SameEnd(e, f) == f.our = e.our /\ f.their = e.their /\ f.id = e.id /\ f.reader = e.reader

\* q is k after end s has at most left its list and sent something.
Keeps(k, q, s) ==
  /\ ConnOK(q)
  /\ q.from = k.from /\ q.to = k.to /\ q.end[Other(s)] = k.end[Other(s)]
  /\ SameEnd(k.end[s], q.end[s])
  /\ q.end[s].list # "none"
  /\ q.end[s].list \in {"handshaking", "active"} => q.end[s].list = k.end[s].list

LEMMA KeepsTrans ==
  ASSUME NEW k, NEW q, NEW p, NEW s, Keeps(k, q, s), Keeps(q, p, s)
  PROVE  Keeps(k, p, s)
BY DEF Keeps, SameEnd

LEMMA ConnFacts ==
  ASSUME NEW k, ConnOK(k), NEW s \in Side
  PROVE  /\ k \in ConnType /\ k.end[s] \in EndType /\ k.wire[s] \in Seq(Message)
         /\ k.end[Other(s)] \in EndType /\ k.wire[Other(s)] \in Seq(Message)
         /\ EndOK(k, s) /\ EndOK(k, Other(s)) /\ WireOK(k, s) /\ WireOK(k, Other(s))
         /\ k.end[s].list # "none" => k # Free /\ k.from \in Node /\ k.to \in Node
<1>1. k \in ConnType /\ Other(s) \in Side
  BY Sides DEF ConnOK
<1>2. k = Free => k.end[s].list = "none"
  BY DEF Free, Absent
<1> QED BY <1>1, <1>2 DEF ConnOK, ConnType

\* A change of list or flags, as close_connection and the moves between the
\* lists make it.
LEMMA EndChange ==
  ASSUME NEW k, ConnOK(k), NEW s \in Side, k.end[s].list # "none",
         NEW f \in EndType, SameEnd(k.end[s], f), f.list # "none",
         f.list \in {"handshaking", "active"} => f.list = k.end[s].list,
         NEW q \in ConnType, q.from = k.from, q.to = k.to, q.wire = k.wire,
         q.end[s] = f, q.end[Other(s)] = k.end[Other(s)]
  PROVE  Keeps(k, q, s)
<1>1. k.from \in Node /\ k.to \in Node /\ EndOK(k, s) /\ EndOK(k, Other(s))
      /\ WireOK(k, s) /\ WireOK(k, Other(s))
  BY ConnFacts
<1>2. Other(s) \in Side /\ Other(Other(s)) = s
  BY Sides
<1>3. EndOK(q, s) /\ EndOK(q, Other(s))
  BY <1>1, <1>2 DEF EndOK, SameEnd, OwnerOf
<1>4. \A i \in 1..Len(k.wire[s]) : Fits(k.wire[s][i], s, k.end[s], k.end[Other(s)])
                                  => Fits(k.wire[s][i], s, f, k.end[Other(s)])
  BY DEF Fits, SameEnd
<1>5. \A i \in 1..Len(k.wire[Other(s)]) :
         Fits(k.wire[Other(s)][i], Other(s), k.end[Other(s)], k.end[s])
           => Fits(k.wire[Other(s)][i], Other(s), k.end[Other(s)], f)
  BY DEF Fits, SameEnd
<1>6. WireOK(q, s) /\ WireOK(q, Other(s))
  BY <1>1, <1>2, <1>4, <1>5 DEF WireOK, SameEnd
<1>7. ConnOK(q)
  BY <1>1, <1>3, <1>6, Sides DEF ConnOK
<1> QED BY <1>7 DEF Keeps

\* A message is put on a wire where it fits.
LEMMA SendOK ==
  ASSUME NEW k, ConnOK(k), NEW s \in Side, k.end[s].list # "none",
         NEW m \in Message, m.type # "hello",
         Fits(m, s, k.end[s], k.end[Other(s)]),
         \A i \in 1..Len(k.wire[s]) : ~Clash(k.wire[s][i], m),
         k.end[s].their = "just" => m.type \notin Answers \cup {"sync"}
  PROVE  Keeps(k, Send(k, s, m), s) /\ Send(k, s, m).end = k.end
<1> DEFINE q == Send(k, s, m)
           w == k.wire[s]
<1>0. /\ k \in ConnType /\ k.end[s] \in EndType /\ w \in Seq(Message) /\ k.end[Other(s)] \in EndType
      /\ k.wire[Other(s)] \in Seq(Message) /\ Other(s) \in Side /\ Other(Other(s)) = s /\ Other(s) # s
      /\ k.from \in Node /\ k.to \in Node /\ EndOK(k, s) /\ EndOK(k, Other(s))
      /\ WireOK(k, s) /\ WireOK(k, Other(s))
  BY ConnFacts, Sides
<1>1. CASE ~k.end[s].open
  BY <1>1 DEF Send, Keeps, SameEnd
<1>2. CASE k.end[s].open
  <2>1. /\ Append(w, m) \in Seq(Message) /\ Len(w) \in Nat /\ Len(Append(w, m)) = Len(w) + 1
        /\ \A i \in 1..Len(w) : Append(w, m)[i] = w[i]
        /\ Append(w, m)[Len(w) + 1] = m
    BY <1>0, AppendFacts
  <2> DEFINE v == Append(w, m)
  <2>2. /\ q \in ConnType /\ q.from = k.from /\ q.to = k.to /\ q.end = k.end
        /\ q.wire[s] = v /\ q.wire[Other(s)] = k.wire[Other(s)]
    BY <1>0, <1>2, <2>1 DEF Send, ConnType
  <2> HIDE DEF q, v
  <2>3. EndOK(q, s) /\ EndOK(q, Other(s)) /\ WireOK(q, Other(s))
    BY <1>0, <2>2 DEF EndOK, WireOK, OwnerOf
  <2>4. \A i \in 1..Len(v) : i \in 1..Len(w) \/ i = Len(w) + 1
    BY <2>1 DEF v
  <2>5. \A i \in 1..Len(v) : Fits(v[i], s, k.end[s], k.end[Other(s)])
    BY <1>0, <2>1, <2>4 DEF v, WireOK
  <2>6. \A i \in 1..Len(v) : v[i].type = "hello" => i = 1
    BY <1>0, <2>1, <2>4 DEF v, WireOK
  <2>7. \A i, j \in 1..Len(v) : i # j => ~Clash(v[i], v[j])
    <3>1. ASSUME NEW i \in 1..Len(v), NEW j \in 1..Len(v), i # j PROVE ~Clash(v[i], v[j])
      <4>1. CASE i \in 1..Len(w) /\ j \in 1..Len(w)
        BY <1>0, <2>1, <3>1, <4>1 DEF v, WireOK
      <4>2. CASE i \in 1..Len(w) /\ j = Len(w) + 1
        BY <2>1, <4>2 DEF v
      <4>3. CASE i = Len(w) + 1 /\ j \in 1..Len(w)
        <5>1. v[i] = m /\ v[j] = w[j] /\ ~Clash(w[j], m)
          BY <2>1, <4>3 DEF v
        <5> QED BY <5>1 DEF Clash
      <4> QED BY <2>4, <3>1, <4>1, <4>2, <4>3
    <3> QED BY <3>1
  <2>8. k.end[Other(s)].their = "just" => Len(v) > 0 /\ v[1].type = "hello"
    <3>1. ASSUME k.end[Other(s)].their = "just" PROVE Len(v) > 0 /\ v[1].type = "hello"
      <4>1. Len(w) > 0 /\ w[1].type = "hello"
        BY <1>0, <3>1 DEF WireOK
      <4> QED BY <2>1, <4>1 DEF v
    <3> QED BY <3>1
  <2>9. k.end[s].their = "just" => \A i \in 1..Len(v) : v[i].type \notin Answers \cup {"sync"}
    BY <1>0, <2>1, <2>4 DEF v, WireOK
  <2>10. WireOK(q, s)
    BY <2>2, <2>5, <2>6, <2>7, <2>8, <2>9 DEF WireOK
  <2>11. ConnOK(q)
    BY <1>0, <2>2, <2>3, <2>10, Sides DEF ConnOK
  <2>12. Keeps(k, q, s) /\ q.end = k.end
    BY <2>2, <2>11 DEF Keeps, SameEnd
  <2> QED BY <2>12 DEF q
<1> QED BY <1>1, <1>2

\* The messages that end a connection always fit.
LEMMA SendEndOK ==
  ASSUME NEW k, ConnOK(k), NEW s \in Side, k.end[s].list # "none",
         NEW t \in {"closing", "eof"}
  PROVE  Keeps(k, Send(k, s, [type |-> t]), s) /\ Send(k, s, [type |-> t]).end = k.end
<1> DEFINE m == [type |-> t]
<1>1. m \in Message /\ m.type = t
  BY MessageFacts
<1> HIDE DEF m
<1>2. /\ m.type # "hello" /\ m.type \notin Answers \cup {"sync"}
      /\ Fits(m, s, k.end[s], k.end[Other(s)])
  BY <1>1 DEF Fits, Answers
<1>3. \A i \in 1..Len(k.wire[s]) : ~Clash(k.wire[s][i], m)
  BY <1>1 DEF Clash, Answers
<1>4. Keeps(k, Send(k, s, m), s) /\ Send(k, s, m).end = k.end
  BY <1>1, <1>2, <1>3, SendOK
<1> QED BY <1>4 DEF m

\* A list that is not used for data any more.
LEMMA SetListOK ==
  ASSUME NEW k, ConnOK(k), NEW s \in Side, k.end[s].list # "none",
         NEW l \in {"closing", "terminating"}
  PROVE  Keeps(k, [k EXCEPT !.end[s].list = l], s)
<1> DEFINE f == [k.end[s] EXCEPT !.list = l]
           q == [k EXCEPT !.end[s].list = l]
<1>0. k \in ConnType /\ k.end[s] \in EndType /\ Other(s) \in Side /\ Other(s) # s
  BY ConnFacts, Sides
<1>1. f \in EndType /\ SameEnd(k.end[s], f) /\ f.list = l
  BY <1>0 DEF EndType, SameEnd
<1>2. /\ q \in ConnType /\ q.from = k.from /\ q.to = k.to /\ q.wire = k.wire
      /\ q.end[s] = f /\ q.end[Other(s)] = k.end[Other(s)]
  BY <1>0, <1>1 DEF ConnType
<1> HIDE DEF f, q
<1>3. Keeps(k, q, s)
  BY <1>1, <1>2, EndChange
<1> QED BY <1>3 DEF q

\* The flags of an end.
LEMMA SetFlagOK ==
  ASSUME NEW k, ConnOK(k), NEW s \in Side, k.end[s].list # "none"
  PROVE  /\ Keeps(k, [k EXCEPT !.end[s].we_close = TRUE], s)
         /\ Keeps(k, [k EXCEPT !.end[s].they_close = TRUE], s)
         /\ Keeps(k, [k EXCEPT !.end[s].open = FALSE], s)
<1>0. k \in ConnType /\ k.end[s] \in EndType /\ Other(s) \in Side /\ Other(s) # s
  BY ConnFacts, Sides
<1>1. Keeps(k, [k EXCEPT !.end[s].we_close = TRUE], s)
  <2> DEFINE f == [k.end[s] EXCEPT !.we_close = TRUE]
             q == [k EXCEPT !.end[s].we_close = TRUE]
  <2>1. f \in EndType /\ SameEnd(k.end[s], f) /\ f.list = k.end[s].list
    BY <1>0 DEF EndType, SameEnd
  <2>2. /\ q \in ConnType /\ q.from = k.from /\ q.to = k.to /\ q.wire = k.wire
        /\ q.end[s] = f /\ q.end[Other(s)] = k.end[Other(s)]
    BY <1>0, <2>1 DEF ConnType
  <2> HIDE DEF f, q
  <2>3. Keeps(k, q, s)
    BY <2>1, <2>2, EndChange
  <2> QED BY <2>3 DEF q
<1>2. Keeps(k, [k EXCEPT !.end[s].they_close = TRUE], s)
  <2> DEFINE f == [k.end[s] EXCEPT !.they_close = TRUE]
             q == [k EXCEPT !.end[s].they_close = TRUE]
  <2>1. f \in EndType /\ SameEnd(k.end[s], f) /\ f.list = k.end[s].list
    BY <1>0 DEF EndType, SameEnd
  <2>2. /\ q \in ConnType /\ q.from = k.from /\ q.to = k.to /\ q.wire = k.wire
        /\ q.end[s] = f /\ q.end[Other(s)] = k.end[Other(s)]
    BY <1>0, <2>1 DEF ConnType
  <2> HIDE DEF f, q
  <2>3. Keeps(k, q, s)
    BY <2>1, <2>2, EndChange
  <2> QED BY <2>3 DEF q
<1>3. Keeps(k, [k EXCEPT !.end[s].open = FALSE], s)
  <2> DEFINE f == [k.end[s] EXCEPT !.open = FALSE]
             q == [k EXCEPT !.end[s].open = FALSE]
  <2>1. f \in EndType /\ SameEnd(k.end[s], f) /\ f.list = k.end[s].list
    BY <1>0 DEF EndType, SameEnd
  <2>2. /\ q \in ConnType /\ q.from = k.from /\ q.to = k.to /\ q.wire = k.wire
        /\ q.end[s] = f /\ q.end[Other(s)] = k.end[Other(s)]
    BY <1>0, <2>1 DEF ConnType
  <2> HIDE DEF f, q
  <2>3. Keeps(k, q, s)
    BY <2>1, <2>2, EndChange
  <2> QED BY <2>3 DEF q
<1> QED BY <1>1, <1>2, <1>3

LEMMA CloseSocketOK ==
  ASSUME NEW k, ConnOK(k), NEW s \in Side, k.end[s].list # "none"
  PROVE  Keeps(k, CloseSocket(k, s), s)
<1> DEFINE p == Send(k, s, [type |-> "eof"])
<1>1. Keeps(k, p, s)
  BY SendEndOK
<1> HIDE DEF p
<1>2. ConnOK(p) /\ p.end[s].list # "none"
  BY <1>1 DEF Keeps
<1>3. Keeps(p, [p EXCEPT !.end[s].open = FALSE], s)
  BY <1>2, SetFlagOK
<1> QED BY <1>1, <1>3, KeepsTrans DEF CloseSocket, p

\* disconnect_from_peer
LEMMA DisconnectOK ==
  ASSUME NEW k, ConnOK(k), NEW s \in Side, k.end[s].list # "none"
  PROVE  Keeps(k, Disconnect(k, s), s)
<1> DEFINE p == [k EXCEPT !.end[s].list = "closing"]
           q == [p EXCEPT !.end[s].we_close = TRUE]
<1>1. Keeps(k, p, s)
  BY SetListOK
<1>2. Disconnect(k, s) = IF k.end[s].they_close THEN CloseSocket(p, s)
                         ELSE Send(q, s, [type |-> "closing"])
  BY DEF Disconnect
<1> HIDE DEF p
<1>3. ConnOK(p) /\ p.end[s].list # "none"
  BY <1>1 DEF Keeps
<1>4. Keeps(p, CloseSocket(p, s), s)
  BY <1>3, CloseSocketOK
<1>5. Keeps(p, q, s)
  BY <1>3, SetFlagOK
<1> HIDE DEF q
<1>6. ConnOK(q) /\ q.end[s].list # "none"
  BY <1>5 DEF Keeps
<1>7. Keeps(q, Send(q, s, [type |-> "closing"]), s)
  BY <1>6, SendEndOK
<1>8. Keeps(p, Disconnect(k, s), s)
  BY <1>2, <1>4, <1>5, <1>7, KeepsTrans
<1> QED BY <1>1, <1>8, KeepsTrans

\* terminate_inactive_connections_loop
LEMMA TerminateOK ==
  ASSUME NEW k, ConnOK(k), NEW s \in Side, k.end[s].list # "none"
  PROVE  Keeps(k, Terminate(k, s), s)
<1> DEFINE p == [k EXCEPT !.end[s].list = "terminating"]
<1>1. Keeps(k, p, s)
  BY SetListOK
<1>2. Terminate(k, s) = CloseSocket(p, s)
  BY DEF Terminate
<1> HIDE DEF p
<1>3. Keeps(p, CloseSocket(p, s), s)
  BY <1>1, CloseSocketOK DEF Keeps
<1> QED BY <1>1, <1>2, <1>3, KeepsTrans

\* on_closing_connection_message
LEMMA OnClosingOK ==
  ASSUME NEW k, ConnOK(k), NEW s \in Side, k.end[s].list # "none"
  PROVE  Keeps(k, OnClosing(k, s), s)
<1> DEFINE p == [k EXCEPT !.end[s].they_close = TRUE]
<1>1. Keeps(k, p, s)
  BY SetFlagOK
<1>2. OnClosing(k, s) = IF k.end[s].we_close THEN CloseSocket(p, s) ELSE p
  BY DEF OnClosing
<1> HIDE DEF p
<1>3. Keeps(p, CloseSocket(p, s), s)
  BY <1>1, CloseSocketOK DEF Keeps
<1> QED BY <1>1, <1>2, <1>3, KeepsTrans

-----------------------------------------------------------------------------
(* Steps in general: q has no end that holds an id which k did not have.   *)

Leaves(k, q) ==
  /\ ConnOK(q)
  /\ \A t \in Side : Holds(q.end[t]) => /\ OwnerOf(q, t) = OwnerOf(k, t)
                                        /\ Holds(k.end[t]) /\ q.end[t].id = k.end[t].id

LEMMA KeepsLeaves ==
  ASSUME NEW k, NEW q, NEW s \in Side, Keeps(k, q, s)
  PROVE  Leaves(k, q)
<1>1. ASSUME NEW t \in Side, Holds(q.end[t])
      PROVE  /\ OwnerOf(q, t) = OwnerOf(k, t)
             /\ Holds(k.end[t]) /\ q.end[t].id = k.end[t].id
  <2>1. t = s \/ t = Other(s)
    BY Sides
  <2> QED BY <1>1, <2>1 DEF Keeps, SameEnd, Holds, OwnerOf
<1> QED BY <1>1 DEF Leaves, Keeps

LEMMA LeavesTrans ==
  ASSUME NEW k, NEW q, NEW p, Leaves(k, q), Leaves(q, p)
  PROVE  Leaves(k, p)
BY DEF Leaves

\* A connection that nobody uses.
LEMMA FreeOK == ConnOK(Free)
<1>1. Absent \in EndType /\ <<>> \in Seq(Message)
  BY DEF Absent, EndType
<1>2. Free \in ConnType /\ \A s \in Side : Free.end[s] = Absent /\ Free.wire[s] = <<>>
  BY <1>1 DEF Free, ConnType
<1>3. ASSUME NEW s \in Side PROVE EndOK(Free, s) /\ WireOK(Free, s)
  <2>1. Free.end[s] = Absent /\ Free.end[Other(s)] = Absent /\ Free.wire[s] = <<>>
    BY <1>2, Sides
  <2>2. Absent.our = "disconnected" /\ Absent.their = "disconnected" /\ Absent.list = "none"
        /\ ~Absent.reader
    BY DEF Absent
  <2> QED BY <2>1, <2>2 DEF EndOK, WireOK
<1> QED BY <1>2, <1>3 DEF ConnOK

\* on_connection_closed
LEMMA ClosedOK ==
  ASSUME NEW k, ConnOK(k), NEW s \in Side, k.end[s].list # "none"
  PROVE  Leaves(k, Closed(k, s))
<1> DEFINE q == [k EXCEPT !.end[s] = Absent, !.wire[Other(s)] = <<>>]
<1>0. /\ k \in ConnType /\ k.end[s] \in EndType /\ k.wire[s] \in Seq(Message) /\ k.end[Other(s)] \in EndType
      /\ Other(s) \in Side /\ Other(Other(s)) = s /\ Other(s) # s
      /\ k.from \in Node /\ k.to \in Node /\ EndOK(k, s) /\ EndOK(k, Other(s))
      /\ WireOK(k, s) /\ WireOK(k, Other(s))
  BY ConnFacts, Sides
<1>1. Absent \in EndType /\ <<>> \in Seq(Message)
  BY DEF Absent, EndType
<1>2. /\ Absent.our = "disconnected" /\ Absent.their = "disconnected" /\ Absent.list = "none"
      /\ ~Absent.reader
  BY DEF Absent
<1>3. /\ q \in ConnType /\ q.from = k.from /\ q.to = k.to
      /\ q.end[s] = Absent /\ q.end[Other(s)] = k.end[Other(s)]
      /\ q.wire[s] = k.wire[s] /\ q.wire[Other(s)] = <<>>
  BY <1>0, <1>1 DEF ConnType
<1>4. Closed(k, s) = IF q.end[Other(s)].list = "none" THEN Free ELSE q
  BY DEF Closed
<1> HIDE DEF q
<1>5. CASE q.end[Other(s)].list = "none"
  <2>1. Closed(k, s) = Free /\ \A t \in Side : Free.end[t] = Absent
    BY <1>4, <1>5 DEF Free
  <2> QED BY <1>2, <2>1, FreeOK DEF Leaves, Holds
<1>6. CASE q.end[Other(s)].list # "none"
  <2>1. EndOK(q, s) /\ EndOK(q, Other(s))
    BY <1>0, <1>2, <1>3 DEF EndOK, OwnerOf
  <2>2. \A i \in 1..Len(k.wire[s]) : Fits(k.wire[s][i], s, k.end[s], k.end[Other(s)])
                                    => Fits(k.wire[s][i], s, Absent, k.end[Other(s)])
    BY <1>2 DEF Fits
  <2>3. WireOK(q, s)
    BY <1>0, <1>2, <1>3, <2>2 DEF WireOK
  <2>4. WireOK(q, Other(s))
    BY <1>0, <1>2, <1>3 DEF WireOK
  <2>5. ConnOK(q)
    BY <1>0, <1>3, <1>6, <2>1, <2>3, <2>4, Sides DEF ConnOK
  <2>6. \A t \in Side : Holds(q.end[t]) => /\ OwnerOf(q, t) = OwnerOf(k, t)
                                           /\ Holds(k.end[t]) /\ q.end[t].id = k.end[t].id
    BY <1>2, <1>3, Sides DEF Holds, OwnerOf
  <2> QED BY <1>4, <1>6, <2>5, <2>6 DEF Leaves
<1> QED BY <1>5, <1>6

LEMMA CloseAndLeave ==
  ASSUME NEW k, ConnOK(k), NEW s \in Side, k.end[s].list # "none"
  PROVE  Leaves(k, Closed(CloseSocket(k, s), s))
<1> DEFINE p == CloseSocket(k, s)
<1>1. Keeps(k, p, s)
  BY CloseSocketOK
<1> HIDE DEF p
<1>2. Leaves(k, p) /\ Leaves(p, Closed(p, s))
  BY <1>1, KeepsLeaves, ClosedOK DEF Keeps
<1> QED BY <1>2, LeavesTrans DEF p

-----------------------------------------------------------------------------
(* Receiving *)

\* The state of side s once its next message m has been read.
Popped(k, s) == [k EXCEPT !.wire[Other(s)] = Tail(@)]

LEMMA PoppedFacts ==
  ASSUME NEW k, ConnOK(k), NEW s \in Side, k.end[s].reader, k.wire[Other(s)] # <<>>
  PROVE  /\ Popped(k, s) \in ConnType
         /\ Popped(k, s).from = k.from /\ Popped(k, s).to = k.to /\ Popped(k, s).end = k.end
         /\ Popped(k, s).wire[s] = k.wire[s]
         /\ Popped(k, s).wire[Other(s)] = Tail(k.wire[Other(s)])
         /\ k.end[s].list # "none"
<1>0. /\ k \in ConnType /\ k.wire[Other(s)] \in Seq(Message) /\ Other(s) \in Side /\ Other(s) # s
      /\ EndOK(k, s)
  BY ConnFacts, Sides
<1>1. Tail(k.wire[Other(s)]) \in Seq(Message)
  BY <1>0, TailFacts
<1>2. k.end[s].list # "none"
  BY <1>0 DEF EndOK, Absent
<1> QED BY <1>0, <1>1, <1>2 DEF Popped, ConnType

\* Reading a message other than a hello.
LEMMA PopOK ==
  ASSUME NEW k, ConnOK(k), NEW s \in Side, k.end[s].reader, k.wire[Other(s)] # <<>>,
         Head(k.wire[Other(s)]).type # "hello"
  PROVE  /\ Keeps(k, Popped(k, s), s) /\ Popped(k, s).end = k.end
         /\ Fits(Head(k.wire[Other(s)]), Other(s), k.end[Other(s)], k.end[s])
         /\ \A i \in 1..Len(Popped(k, s).wire[Other(s)]) :
               ~Clash(Head(k.wire[Other(s)]), Popped(k, s).wire[Other(s)][i])
         /\ k.end[s].their \in {"accepted", "rejected"}
<1> DEFINE q == Popped(k, s)
           w == k.wire[Other(s)]
           v == Tail(w)
<1>0. /\ k \in ConnType /\ w \in Seq(Message) /\ Other(s) \in Side /\ Other(Other(s)) = s
      /\ k.end[s] \in EndType /\ k.end[s].list # "none"
      /\ k.from \in Node /\ k.to \in Node /\ EndOK(k, s) /\ EndOK(k, Other(s))
      /\ WireOK(k, s) /\ WireOK(k, Other(s))
  BY ConnFacts, Sides, PoppedFacts
<1>1. /\ q \in ConnType /\ q.from = k.from /\ q.to = k.to /\ q.end = k.end
      /\ q.wire[s] = k.wire[s] /\ q.wire[Other(s)] = v
  BY PoppedFacts
<1> HIDE DEF q
<1>2. /\ Head(w) = w[1] /\ Len(w) \in Nat /\ Len(w) > 0
      /\ v \in Seq(Message) /\ Len(v) = Len(w) - 1
      /\ \A i \in 1..Len(v) : i + 1 \in 1..Len(w) /\ v[i] = w[i + 1]
  BY <1>0, TailFacts
<1>3. 1 \in 1..Len(w) /\ \A i \in 1..Len(v) : i + 1 # 1
  BY <1>2
<1> HIDE DEF v
<1>4. k.end[s].their # "just"
  BY <1>0, <1>2 DEF WireOK
<1>5. k.end[s].their \in {"accepted", "rejected"}
  BY <1>0, <1>4 DEF EndOK, EndType
<1>6. Fits(w[1], Other(s), k.end[Other(s)], k.end[s])
  BY <1>0, <1>3 DEF WireOK
<1>7. \A i \in 1..Len(v) : ~Clash(w[1], v[i])
  BY <1>0, <1>2, <1>3 DEF WireOK
<1>8. \A i \in 1..Len(v) : Fits(v[i], Other(s), k.end[Other(s)], k.end[s])
  BY <1>0, <1>2 DEF WireOK
<1>9. \A i \in 1..Len(v) : v[i].type # "hello"
  BY <1>0, <1>2, <1>3 DEF WireOK
<1>10. \A i, j \in 1..Len(v) : i # j => ~Clash(v[i], v[j])
  <2>1. ASSUME NEW i \in 1..Len(v), NEW j \in 1..Len(v), i # j PROVE ~Clash(v[i], v[j])
    <3>1. i + 1 \in 1..Len(w) /\ j + 1 \in 1..Len(w) /\ i + 1 # j + 1
      BY <1>2, <2>1
    <3> QED BY <1>0, <1>2, <3>1 DEF WireOK
  <2> QED BY <2>1
<1>11. k.end[Other(s)].their = "just" => \A i \in 1..Len(v) : v[i].type \notin Answers \cup {"sync"}
  BY <1>0, <1>2 DEF WireOK
<1>12. WireOK(q, Other(s))
  BY <1>0, <1>1, <1>4, <1>8, <1>9, <1>10, <1>11 DEF WireOK
<1>13. EndOK(q, s) /\ EndOK(q, Other(s)) /\ WireOK(q, s)
  BY <1>0, <1>1 DEF EndOK, WireOK, OwnerOf
<1>14. ConnOK(q)
  BY <1>0, <1>1, <1>12, <1>13, Sides DEF ConnOK
<1>15. Keeps(k, q, s)
  BY <1>0, <1>1, <1>14 DEF Keeps, SameEnd
<1> QED BY <1>1, <1>2, <1>5, <1>6, <1>7, <1>15 DEF q

OurIs(k, q, s, x) ==
    /\ Leaves(k, q)
    /\ q.end[s].list = k.end[s].list /\ q.end[s].our = x
    /\ q.wire = k.wire /\ q.end[Other(s)] = k.end[Other(s)]

\* The answer to our hello is read: the other side did answer like that, and
\* there is no second answer behind it.
LEMMA OurAnswered ==
  ASSUME NEW k, ConnOK(k), NEW s \in Side, k.end[s].list # "none", NEW x \in Answers,
         k.end[s].our = "just", k.end[Other(s)].their \in {x, "disconnected"},
         \A i \in 1..Len(k.wire[Other(s)]) :
             /\ k.wire[Other(s)][i].type \notin Answers
             /\ x = "rejected" => k.wire[Other(s)][i].type # "sync"
  PROVE  OurIs(k, [k EXCEPT !.end[s].our = x], s, x)
<1> USE DEF OurIs
<1> DEFINE q == [k EXCEPT !.end[s].our = x]
           f == [k.end[s] EXCEPT !.our = x]
<1>0. /\ k \in ConnType /\ k.end[s] \in EndType /\ k.end[Other(s)] \in EndType
      /\ k.wire[s] \in Seq(Message) /\ k.wire[Other(s)] \in Seq(Message)
      /\ Other(s) \in Side /\ Other(Other(s)) = s /\ Other(s) # s
      /\ k.from \in Node /\ k.to \in Node /\ EndOK(k, s) /\ EndOK(k, Other(s))
      /\ WireOK(k, s) /\ WireOK(k, Other(s))
  BY ConnFacts, Sides
<1>1. /\ f \in EndType /\ f.our = x /\ f.their = k.end[s].their /\ f.id = k.end[s].id
      /\ f.reader = k.end[s].reader /\ f.list = k.end[s].list
  BY <1>0 DEF EndType, Answers
<1>2. /\ q \in ConnType /\ q.from = k.from /\ q.to = k.to /\ q.wire = k.wire
      /\ q.end[s] = f /\ q.end[Other(s)] = k.end[Other(s)]
  BY <1>0, <1>1 DEF ConnType
<1> HIDE DEF f, q
<1>3. EndOK(q, s)
  BY <1>0, <1>1, <1>2 DEF EndOK, OwnerOf, Answers
<1>4. EndOK(q, Other(s))
  BY <1>0, <1>1, <1>2 DEF EndOK, OwnerOf, Answers
<1>5. \A i \in 1..Len(k.wire[s]) : Fits(k.wire[s][i], s, k.end[s], k.end[Other(s)])
                                  => Fits(k.wire[s][i], s, f, k.end[Other(s)])
  BY <1>1 DEF Fits, Answers
<1>6. \A i \in 1..Len(k.wire[Other(s)]) :
         Fits(k.wire[Other(s)][i], Other(s), k.end[Other(s)], k.end[s])
           => Fits(k.wire[Other(s)][i], Other(s), k.end[Other(s)], f)
  BY <1>1 DEF Fits, Answers
<1>7. WireOK(q, s) /\ WireOK(q, Other(s))
  BY <1>0, <1>1, <1>2, <1>5, <1>6 DEF WireOK
<1>8. ConnOK(q)
  BY <1>0, <1>1, <1>2, <1>3, <1>4, <1>7, Sides DEF ConnOK
<1>9. \A t \in Side : Holds(q.end[t]) => /\ OwnerOf(q, t) = OwnerOf(k, t)
                                         /\ Holds(k.end[t]) /\ q.end[t].id = k.end[t].id
  BY <1>1, <1>2, Sides DEF Holds, OwnerOf
<1>10. Leaves(k, q) /\ q.end[s].list = k.end[s].list /\ q.end[s].our = x
       /\ q.wire = k.wire /\ q.end[Other(s)] = k.end[Other(s)]
  BY <1>1, <1>2, <1>8, <1>9 DEF Leaves
<1> QED BY <1>10 DEF q

\* on_address_request_message answers whoever asks, and nobody asks before
\* their hello was answered; so does a request from us.
LEMMA SendAddressOK ==
  ASSUME NEW k, ConnOK(k), NEW s \in Side, k.end[s].list # "none"
  PROVE  /\ k.end[s].our # "just" => Leaves(k, Send(k, s, [type |-> "address_request"]))
         /\ k.end[Other(s)].our # "just" =>
              \A S \in SUBSET Node : Leaves(k, Send(k, s, [type |-> "address", nodes |-> S]))
<1>1. ASSUME k.end[s].our # "just" PROVE Leaves(k, Send(k, s, [type |-> "address_request"]))
  <2> DEFINE m == [type |-> "address_request"]
  <2>1. m \in Message /\ m.type = "address_request"
    BY MessageFacts
  <2> HIDE DEF m
  <2>2. /\ m.type # "hello" /\ m.type \notin Answers \cup {"sync"}
        /\ Fits(m, s, k.end[s], k.end[Other(s)])
    BY <1>1, <2>1 DEF Fits, Answers
  <2>3. \A i \in 1..Len(k.wire[s]) : ~Clash(k.wire[s][i], m)
    BY <2>1 DEF Clash, Answers
  <2>4. Keeps(k, Send(k, s, m), s)
    BY <2>1, <2>2, <2>3, SendOK
  <2> QED BY <2>4, KeepsLeaves DEF m
<1>2. ASSUME k.end[Other(s)].our # "just", NEW S \in SUBSET Node
      PROVE  Leaves(k, Send(k, s, [type |-> "address", nodes |-> S]))
  <2> DEFINE m == [type |-> "address", nodes |-> S]
  <2>1. m \in Message /\ m.type = "address"
    BY MessageFacts
  <2> HIDE DEF m
  <2>2. /\ m.type # "hello" /\ m.type \notin Answers \cup {"sync"}
        /\ Fits(m, s, k.end[s], k.end[Other(s)])
    BY <1>2, <2>1 DEF Fits, Answers
  <2>3. \A i \in 1..Len(k.wire[s]) : ~Clash(k.wire[s][i], m)
    BY <2>1 DEF Clash, Answers
  <2>4. Keeps(k, Send(k, s, m), s)
    BY <2>1, <2>2, <2>3, SendOK
  <2> QED BY <2>4, KeepsLeaves DEF m
<1> QED BY <1>1, <1>2

\* on_connection_accepted_message
LEMMA OnAcceptedOK ==
  ASSUME NEW k, ConnOK(k), NEW s \in Side, k.end[s].list # "none", k.end[s].our = "just",
         k.end[Other(s)].their \in {"accepted", "disconnected"},
         \A i \in 1..Len(k.wire[Other(s)]) : k.wire[Other(s)][i].type \notin Answers
  PROVE  Leaves(k, OnAccepted(k, s))
<1> DEFINE q == [k EXCEPT !.end[s].our = "accepted"]
<1>1. Leaves(k, q) /\ q.end[s].list = k.end[s].list /\ q.end[s].our = "accepted"
  <2>1. "accepted" \in Answers /\ "accepted" # "rejected"
    BY DEF Answers
  <2>2. OurIs(k, q, s, "accepted")
    BY <2>1, OurAnswered
  <2> HIDE DEF q
  <2> QED BY <2>2 DEF OurIs
<1> HIDE DEF q
<1>2. Leaves(q, Send(q, s, [type |-> "address_request"]))
  BY <1>1, SendAddressOK DEF Leaves
<1> QED BY <1>1, <1>2, LeavesTrans DEF OnAccepted, q

\* on_connection_rejected_message
LEMMA OnRejectedOK ==
  ASSUME NEW k, ConnOK(k), NEW s \in Side, k.end[s].list # "none", k.end[s].our = "just",
         k.end[Other(s)].their \in {"rejected", "disconnected"}, NEW r,
         \A i \in 1..Len(k.wire[Other(s)]) : k.wire[Other(s)][i].type \notin Answers \cup {"sync"}
  PROVE  Leaves(k, OnRejected(k, s, r))
<1> DEFINE p0 == [k EXCEPT !.end[s].list = "closing"]
           p == IF r = "self" THEN CloseSocket(p0, s) ELSE k
           q == [p EXCEPT !.end[s].our = "rejected"]
<1>1. OnRejected(k, s, r) = Send(q, s, [type |-> "address_request"])
  BY DEF OnRejected
<1>2. /\ ConnOK(p) /\ Leaves(k, p) /\ p.wire[Other(s)] = k.wire[Other(s)]
      /\ p.end[s].list # "none" /\ p.end[s].our = "just"
      /\ p.end[Other(s)] = k.end[Other(s)]
  <2>1. CASE r # "self"
    BY <2>1 DEF Leaves
  <2>2. CASE r = "self"
    <3>1. Keeps(k, p0, s)
      BY SetListOK
    <3>2. Keeps(p0, CloseSocket(p0, s), s)
      BY <3>1, CloseSocketOK DEF Keeps
    <3>3. Keeps(k, p, s)
      BY <2>2, <3>1, <3>2, KeepsTrans
    <3>4. k \in ConnType /\ Other(s) \in Side /\ Other(s) # s
      BY ConnFacts, Sides
    <3>5. p0 \in ConnType /\ p0.wire = k.wire
      BY <3>1 DEF Keeps, ConnOK
    <3> HIDE DEF p0
    <3>6. CloseSocket(p0, s).wire[Other(s)] = p0.wire[Other(s)]
      BY <3>4, <3>5 DEF CloseSocket, Send, ConnType
    <3>7. Leaves(k, p)
      BY <3>3, KeepsLeaves
    <3> QED BY <2>2, <3>3, <3>5, <3>6, <3>7 DEF Keeps, SameEnd
  <2> QED BY <2>1, <2>2
<1> HIDE DEF p
<1>3. Leaves(p, q) /\ q.end[s].list = p.end[s].list /\ q.end[s].our = "rejected"
  <2>1. "rejected" \in Answers
    BY DEF Answers
  <2>2. \A i \in 1..Len(p.wire[Other(s)]) :
           p.wire[Other(s)][i].type \notin Answers /\ p.wire[Other(s)][i].type # "sync"
    BY <1>2
  <2>3. p.end[Other(s)].their \in {"rejected", "disconnected"}
    BY <1>2
  <2>4. OurIs(p, q, s, "rejected")
    BY <1>2, <2>1, <2>2, <2>3, OurAnswered
  <2> HIDE DEF q
  <2> QED BY <2>4 DEF OurIs
<1> HIDE DEF q
<1>4. Leaves(q, Send(q, s, [type |-> "address_request"]))
  BY <1>2, <1>3, SendAddressOK DEF Leaves
<1> QED BY <1>1, <1>2, <1>3, <1>4, LeavesTrans

\* move_peer_to_active_list, where both ends have accepted.
LEMMA ActivateOK ==
  ASSUME NEW k, ConnOK(k), NEW s \in Side, k.end[s].list = "handshaking",
         k.end[s].their = "accepted",
         k.end[Other(s)].their \in {"accepted", "disconnected"},
         k.end[Other(s)].our # "rejected"
  PROVE  Leaves(k, Activate(k, s))
<1> DEFINE q == [k EXCEPT !.end[s].list = "active"]
           f == [k.end[s] EXCEPT !.list = "active"]
           m == [type |-> "sync"]
<1>0. /\ k \in ConnType /\ k.end[s] \in EndType /\ k.end[Other(s)] \in EndType
      /\ k.wire[s] \in Seq(Message) /\ k.wire[Other(s)] \in Seq(Message)
      /\ Other(s) \in Side /\ Other(Other(s)) = s /\ Other(s) # s
      /\ k.from \in Node /\ k.to \in Node /\ EndOK(k, s) /\ EndOK(k, Other(s))
      /\ WireOK(k, s) /\ WireOK(k, Other(s))
  BY ConnFacts, Sides
<1>1. /\ f \in EndType /\ SameEnd(k.end[s], f) /\ f.list = "active"
  BY <1>0 DEF EndType, SameEnd
<1>2. /\ q \in ConnType /\ q.from = k.from /\ q.to = k.to /\ q.wire = k.wire
      /\ q.end[s] = f /\ q.end[Other(s)] = k.end[Other(s)]
  BY <1>0, <1>1 DEF ConnType
<1> HIDE DEF f, q
<1>3. EndOK(q, s) /\ EndOK(q, Other(s))
  BY <1>0, <1>1, <1>2 DEF EndOK, SameEnd, OwnerOf
<1>4. \A i \in 1..Len(k.wire[s]) : Fits(k.wire[s][i], s, k.end[s], k.end[Other(s)])
                                  => Fits(k.wire[s][i], s, f, k.end[Other(s)])
  BY <1>1 DEF Fits, SameEnd
<1>5. \A i \in 1..Len(k.wire[Other(s)]) :
         Fits(k.wire[Other(s)][i], Other(s), k.end[Other(s)], k.end[s])
           => Fits(k.wire[Other(s)][i], Other(s), k.end[Other(s)], f)
  BY <1>1 DEF Fits, SameEnd
<1>6. WireOK(q, s) /\ WireOK(q, Other(s))
  BY <1>0, <1>1, <1>2, <1>4, <1>5 DEF WireOK, SameEnd
<1>7. ConnOK(q)
  BY <1>0, <1>1, <1>2, <1>3, <1>6, Sides DEF ConnOK
<1>8. \A t \in Side : Holds(q.end[t]) => /\ OwnerOf(q, t) = OwnerOf(k, t)
                                         /\ Holds(k.end[t]) /\ q.end[t].id = k.end[t].id
  BY <1>1, <1>2, Sides DEF Holds, OwnerOf, SameEnd
<1>9. Leaves(k, q)
  BY <1>7, <1>8 DEF Leaves
<1>10. m \in Message /\ m.type = "sync"
  BY MessageFacts
<1> HIDE DEF m
<1>11. Fits(m, s, q.end[s], q.end[Other(s)])
  BY <1>1, <1>2, <1>10 DEF Fits, SameEnd
<1>12. \A i \in 1..Len(q.wire[s]) : ~Clash(q.wire[s][i], m)
  <2>1. \A i \in 1..Len(q.wire[s]) : q.wire[s][i].type # "rejected"
    BY <1>1, <1>2, <1>6 DEF WireOK, Fits, SameEnd
  <2> QED BY <1>10, <2>1 DEF Clash, Answers
<1>13. q.end[s].list # "none" /\ q.end[s].their # "just"
  BY <1>1, <1>2 DEF SameEnd
<1>14. Keeps(q, Send(q, s, m), s)
  BY <1>7, <1>10, <1>11, <1>12, <1>13, SendOK
<1>15. Leaves(k, Send(q, s, m))
  BY <1>9, <1>14, KeepsLeaves, LeavesTrans
<1> QED BY <1>15 DEF Activate, q, m

\* The hello of node m is read and answered with x; the answer is still to
\* be sent.
Heard(k, s, m, x) == [[k EXCEPT !.end[s].id = m] EXCEPT !.end[s].their = x]

\* The next message that end s of k reads is the hello of m.
HelloNext(k, s, m) ==
    /\ k.end[s].reader /\ k.wire[Other(s)] # <<>>
    /\ Head(k.wire[Other(s)]).type = "hello" /\ m = Head(k.wire[Other(s)]).id

\* q is k after that.
AfterHello(k, q, s, m, x) ==
    /\ ConnOK(q)
    /\ q.from = k.from /\ q.to = k.to
    /\ q.end[Other(s)] = k.end[Other(s)]
    /\ q.end[s].their = x
    /\ q.end[s].id = m
    /\ q.end[s].list = k.end[s].list
    /\ k.end[s].list # "none" /\ k.end[s].their = "just"
    /\ q.wire[s] = k.wire[s]
    /\ \A i \in 1..Len(k.wire[s]) : k.wire[s][i].type \notin Answers \cup {"sync"}
    /\ k.end[Other(s)].our \in {"just", "disconnected"}

LEMMA HeardOK ==
  ASSUME NEW k, ConnOK(k), NEW s \in Side, NEW m, HelloNext(k, s, m), NEW x \in Answers,
         x = "accepted" => m # OwnerOf(k, s)
  PROVE  AfterHello(k, Heard(Popped(k, s), s, m, x), s, m, x)
<1> USE DEF HelloNext, AfterHello
<1> DEFINE w == k.wire[Other(s)]
           v == Tail(w)
           p == Popped(k, s)
           q == Heard(Popped(k, s), s, m, x)
           e == k.end[s]
           o == k.end[Other(s)]
           f == [[k.end[s] EXCEPT !.id = m] EXCEPT !.their = x]
<1>0. /\ k \in ConnType /\ e \in EndType /\ o \in EndType
      /\ k.wire[s] \in Seq(Message) /\ w \in Seq(Message)
      /\ Other(s) \in Side /\ Other(Other(s)) = s /\ Other(s) # s /\ e.list # "none"
      /\ k.from \in Node /\ k.to \in Node /\ EndOK(k, s) /\ EndOK(k, Other(s))
      /\ WireOK(k, s) /\ WireOK(k, Other(s))
  BY ConnFacts, Sides, PoppedFacts
<1>1. /\ Head(w) = w[1] /\ Len(w) \in Nat /\ Len(w) > 0 /\ Head(w) \in Message
      /\ v \in Seq(Message) /\ Len(v) = Len(w) - 1
      /\ \A i \in 1..Len(v) : i + 1 \in 1..Len(w) /\ v[i] = w[i + 1]
  BY <1>0, TailFacts
<1>2. m \in Node /\ w[1].type = "hello"
  BY <1>1, MessageFacts
<1>3. /\ p \in ConnType /\ p.from = k.from /\ p.to = k.to /\ p.end = k.end
      /\ p.wire[s] = k.wire[s] /\ p.wire[Other(s)] = v
  BY PoppedFacts
<1>4. /\ f \in EndType /\ f.our = e.our /\ f.their = x /\ f.id = m
      /\ f.reader = e.reader /\ f.list = e.list
  BY <1>0, <1>2 DEF EndType, Answers
<1> HIDE DEF p
<1>5. /\ q \in ConnType /\ q.from = k.from /\ q.to = k.to
      /\ q.end[s] = f /\ q.end[Other(s)] = o
      /\ q.wire[s] = k.wire[s] /\ q.wire[Other(s)] = v
  BY <1>0, <1>2, <1>3, <1>4 DEF Heard, ConnType, p
<1> HIDE DEF f, v, q
<1>6. 1 \in 1..Len(w) /\ \A i \in 1..Len(v) : i + 1 # 1
  BY <1>1
<1>7. e.their = "just"
  BY <1>0, <1>2, <1>6 DEF WireOK, Fits
<1>8. /\ o.our \in {"just", "disconnected"}
      /\ \A i \in 1..Len(k.wire[s]) : k.wire[s][i].type \notin Answers \cup {"sync"}
  BY <1>0, <1>7 DEF EndOK, WireOK
<1>9. o.list # "active" /\ e.list # "active"
  BY <1>0, <1>7 DEF EndOK
<1>h. x \in {"accepted", "rejected"} /\ (x = "accepted" => m \in Node \ {OwnerOf(k, s)})
  BY <1>2 DEF Answers
<1>10. EndOK(q, s)
  <2>1. OwnerOf(q, s) = OwnerOf(k, s)
    BY <1>5 DEF OwnerOf
  <2>2. /\ f.list # "none" /\ f.list # "active"
        /\ f.reader <=> f.our # "disconnected"
        /\ f.reader <=> f.their # "disconnected"
        /\ f.our # "disconnected"
    BY <1>0, <1>4, <1>7, <1>9, <1>h DEF EndOK
  <2>3. f.their = "accepted" => f.id \in Node \ {OwnerOf(k, s)}
    BY <1>4, <1>h
  <2>4. f.their # "just" /\ o.our # "accepted" /\ o.our # "rejected"
    BY <1>4, <1>8, <1>h
  <2> HIDE DEF e, o, w
  <2> QED BY <1>5, <2>1, <2>2, <2>3, <2>4 DEF EndOK
<1>11. EndOK(q, Other(s))
  <2>1. OwnerOf(q, Other(s)) = OwnerOf(k, Other(s))
    BY <1>5 DEF OwnerOf
  <2> QED BY <1>0, <1>4, <1>5, <1>9, <2>1 DEF EndOK
<1>12. \A i \in 1..Len(k.wire[s]) : Fits(k.wire[s][i], s, e, o) => Fits(k.wire[s][i], s, f, o)
  BY <1>4, <1>8 DEF Fits, Answers
<1>13. WireOK(q, s)
  <2>1. f.their # "just"
    BY <1>4, <1>h
  <2> QED BY <1>0, <1>5, <1>12, <2>1 DEF WireOK
<1>14. \A i \in 1..Len(v) : v[i].type # "hello" /\ Fits(v[i], Other(s), o, e)
  BY <1>0, <1>1, <1>6 DEF WireOK
<1>15. \A i \in 1..Len(v) : Fits(v[i], Other(s), o, f)
  BY <1>4, <1>7, <1>14 DEF Fits
<1>16. \A i, j \in 1..Len(v) : i # j => ~Clash(v[i], v[j])
  <2>1. ASSUME NEW i \in 1..Len(v), NEW j \in 1..Len(v), i # j PROVE ~Clash(v[i], v[j])
    <3>1. i + 1 \in 1..Len(w) /\ j + 1 \in 1..Len(w) /\ i + 1 # j + 1
      BY <1>1, <2>1
    <3> QED BY <1>0, <1>1, <3>1 DEF WireOK
  <2> QED BY <2>1
<1>17. o.their = "just" => \A i \in 1..Len(v) : v[i].type \notin Answers \cup {"sync"}
  BY <1>0, <1>1 DEF WireOK
<1>18. f.their # "just"
  BY <1>4 DEF Answers
<1> HIDE DEF e, o, w
<1>19. WireOK(q, Other(s))
  BY <1>0, <1>5, <1>14, <1>15, <1>16, <1>17, <1>18 DEF WireOK
<1>20. ConnOK(q)
  BY <1>0, <1>4, <1>5, <1>10, <1>11, <1>13, <1>19, Sides DEF ConnOK
<1> QED BY <1>0, <1>4, <1>5, <1>7, <1>8, <1>20 DEF e, o, q

\* Sending the answer.
LEMMA SendAnswerOK ==
  ASSUME NEW k, ConnOK(k), NEW s \in Side, k.end[s].list # "none", NEW x \in Answers,
         k.end[s].their = x, NEW m \in Message, m.type = x,
         \A i \in 1..Len(k.wire[s]) : k.wire[s][i].type \notin Answers \cup {"sync"},
         k.end[Other(s)].our \in {"just", "disconnected"}
  PROVE  Keeps(k, Send(k, s, m), s) /\ Send(k, s, m).end = k.end
<1>1. m.type # "hello" /\ Fits(m, s, k.end[s], k.end[Other(s)]) /\ k.end[s].their # "just"
  BY DEF Fits, Answers
<1>2. \A i \in 1..Len(k.wire[s]) : ~Clash(k.wire[s][i], m)
  BY DEF Clash, Answers
<1> QED BY <1>1, <1>2, SendOK

Answered(k, q, s, m, n) ==
    /\ ConnOK(q)
    /\ q.from = k.from /\ q.to = k.to /\ q.end[Other(s)] = k.end[Other(s)]
    /\ Holds(q.end[s]) => q.end[s].id = m /\ ~AlreadyConnected(n, m)

\* on_hello_message: an end that holds an id afterwards held it before, or
\* took it now, when no other end of its node counted under that id.
LEMMA OnHelloOK ==
  ASSUME NEW k, ConnOK(k), NEW s \in Side, NEW m, HelloNext(k, s, m),
         NEW n, n = OwnerOf(k, s),
         NEW q, q = OnHello(Popped(k, s), s, n, m)
  PROVE  Answered(k, q, s, m, n)
<1> USE DEF Answered
<1> DEFINE a == Heard(Popped(k, s), s, m, "accepted")
           r == Heard(Popped(k, s), s, m, "rejected")
<1>0. "accepted" \in Answers /\ "rejected" \in Answers
  BY DEF Answers
<1>1. /\ ConnOK(r) /\ r.from = k.from /\ r.to = k.to /\ r.end[Other(s)] = k.end[Other(s)]
      /\ r.end[s].their = "rejected" /\ r.end[s].list # "none"
      /\ k.end[s].their = "just"
      /\ \A i \in 1..Len(r.wire[s]) : r.wire[s][i].type \notin Answers \cup {"sync"}
      /\ r.end[Other(s)].our \in {"just", "disconnected"}
  <2>1. "rejected" # "accepted"
    OBVIOUS
  <2>2. AfterHello(k, r, s, m, "rejected")
    BY <1>0, <2>1, HeardOK
  <2> HIDE DEF r
  <2> QED BY <2>2 DEF AfterHello
<1>2. q = Answer([Popped(k, s) EXCEPT !.end[s].id = m], s, n, m)
  <2>1. k.wire[Other(s)] # <<>> /\ k.end[s].reader
    BY DEF HelloNext
  <2>2. Popped(k, s).end = k.end
    BY <2>1, PoppedFacts
  <2> QED BY <1>1, <2>2 DEF OnHello
<1>3. ASSUME NEW y \in {"refused", "self", "already", "full"},
             NEW z, z = Reject([Popped(k, s) EXCEPT !.end[s].id = m], s, y)
      PROVE  Keeps(r, z, s)
  <2> DEFINE b == [type |-> "rejected", reason |-> y]
  <2>1. b \in Message /\ b.type = "rejected"
    BY MessageFacts
  <2>2. z = Send(r, s, b)
    BY <1>3 DEF Reject, Heard
  <2> HIDE DEF b, r
  <2> QED BY <1>0, <1>1, <2>1, <2>2, SendAnswerOK
<1> DEFINE Rejected(z) == /\ ConnOK(z) /\ z.from = k.from /\ z.to = k.to
                          /\ z.end[Other(s)] = k.end[Other(s)] /\ z.end[s].their = "rejected"
<1>4. ASSUME NEW z, Keeps(r, z, s) PROVE Rejected(z)
  BY <1>1, <1>4 DEF Keeps, SameEnd
<1>5. CASE <<n, m>> \in Incompatible
  <2> DEFINE z == Reject([Popped(k, s) EXCEPT !.end[s].id = m], s, "refused")
  <2>1. Keeps(r, z, s)
    BY <1>3
  <2>2. q = Disconnect(z, s)
    BY <1>2, <1>5 DEF Answer
  <2> HIDE DEF z
  <2>3. Keeps(z, q, s)
    <3>1. ConnOK(z) /\ z.end[s].list # "none"
      BY <2>1 DEF Keeps
    <3>2. Keeps(z, Disconnect(z, s), s)
      BY <3>1, DisconnectOK
    <3> QED BY <2>2, <3>2
  <2>4. Keeps(r, q, s)
    BY <2>1, <2>3, KeepsTrans
  <2> QED BY <1>4, <2>4 DEF Holds
<1>6. CASE <<n, m>> \notin Incompatible /\ AlreadyConnected(n, m)
  <2>1. q = Reject([Popped(k, s) EXCEPT !.end[s].id = m], s, IF n = m THEN "self" ELSE "already")
    BY <1>2, <1>6 DEF Answer
  <2>2. Keeps(r, q, s)
    BY <1>3, <2>1
  <2> QED BY <1>4, <2>2 DEF Holds
<1>7. CASE <<n, m>> \notin Incompatible /\ ~AlreadyConnected(n, m) /\ ~Accepting(n)
  <2>1. q = Reject([Popped(k, s) EXCEPT !.end[s].id = m], s, "full")
    BY <1>2, <1>7 DEF Answer
  <2>2. Keeps(r, q, s)
    BY <1>3, <2>1
  <2> QED BY <1>4, <2>2 DEF Holds
<1>8. CASE <<n, m>> \notin Incompatible /\ ~AlreadyConnected(n, m) /\ Accepting(n)
  <2> DEFINE b == [type |-> "accepted"]
  <2>1. q = Send(a, s, b)
    BY <1>2, <1>8 DEF Answer, Heard
  <2>2. m # n
    BY <1>8 DEF AlreadyConnected
  <2>3. /\ ConnOK(a) /\ a.from = k.from /\ a.to = k.to /\ a.end[Other(s)] = k.end[Other(s)]
        /\ a.end[s].their = "accepted" /\ a.end[s].list # "none" /\ a.end[s].id = m
        /\ \A i \in 1..Len(a.wire[s]) : a.wire[s][i].type \notin Answers \cup {"sync"}
        /\ a.end[Other(s)].our \in {"just", "disconnected"}
    <3>1. "accepted" \in Answers /\ ("accepted" = "accepted" => m # OwnerOf(k, s))
      BY <1>0, <2>2
    <3>2. AfterHello(k, a, s, m, "accepted")
      BY <3>1, HeardOK
    <3> HIDE DEF a
    <3> QED BY <3>2 DEF AfterHello
  <2>4. b \in Message /\ b.type = "accepted"
    BY MessageFacts
  <2> HIDE DEF a, b
  <2>5. Keeps(a, q, s)
    BY <1>0, <2>1, <2>3, <2>4, SendAnswerOK
  <2> QED BY <1>8, <2>3, <2>5 DEF Keeps, SameEnd
<1> QED BY <1>5, <1>6, <1>7, <1>8

\* on_address_message ends a handshake.
LEMMA OnAddressOK ==
  ASSUME NEW k, ConnOK(k), NEW s \in Side, k.end[s].reader, k.end[s].list # "none",
         k.end[s].our # "just", k.end[s].their \in {"accepted", "rejected"}
  PROVE  Leaves(k, OnAddress(k, s))
<1>0. /\ EndOK(k, s) /\ EndOK(k, Other(s)) /\ k.end[s] \in EndType /\ Other(Other(s)) = s
  BY ConnFacts, Sides
<1>1. k.end[s].our \in {"accepted", "rejected"}
  BY <1>0 DEF EndOK, EndType
<1>2. CASE k.end[s].list # "handshaking"
  BY <1>2 DEF OnAddress, Leaves
<1>3. CASE k.end[s].list = "handshaking" /\ "rejected" \in {k.end[s].our, k.end[s].their}
  <2>1. OnAddress(k, s) = Disconnect(k, s)
    BY <1>3 DEF OnAddress
  <2> QED BY <2>1, DisconnectOK, KeepsLeaves
<1>4. CASE k.end[s].list = "handshaking" /\ ~("rejected" \in {k.end[s].our, k.end[s].their})
  <2>1. OnAddress(k, s) = Activate(k, s)
    BY <1>4 DEF OnAddress
  <2>2. k.end[s].our = "accepted" /\ k.end[s].their = "accepted"
    BY <1>1, <1>4
  <2>3. k.end[Other(s)].their \in {"accepted", "disconnected"} /\ k.end[Other(s)].our # "rejected"
    BY <1>0, <2>2 DEF EndOK
  <2> QED BY <1>4, <2>1, <2>2, <2>3, ActivateOK
<1> QED BY <1>2, <1>3, <1>4

\* on_fetch_blockchain_item_ids_message ends it for who was dialled.
LEMMA OnSyncOK ==
  ASSUME NEW k, ConnOK(k), NEW s \in Side, k.end[s].reader,
         k.end[s].their \in {"accepted", "rejected"},
         NEW m, m.type = "sync", Fits(m, Other(s), k.end[Other(s)], k.end[s])
  PROVE  Leaves(k, OnSync(k, s))
<1>1. CASE ~(s = "in" /\ k.end[s].list = "handshaking")
  BY <1>1 DEF OnSync, Leaves
<1>2. CASE s = "in" /\ k.end[s].list = "handshaking"
  <2>1. OnSync(k, s) = Activate(k, s) /\ Other(s) = "out"
    BY <1>2 DEF OnSync, Other
  <2>2. k.end[s].their = "accepted" /\ k.end[Other(s)].their \in {"accepted", "disconnected"}
    BY <2>1 DEF Fits
  <2>3. k.end[Other(s)].our # "rejected"
    BY <2>2, ConnFacts DEF EndOK
  <2> QED BY <1>2, <2>1, <2>2, <2>3, ActivateOK
<1> QED BY <1>1, <1>2

\* Every message but a hello.
LEMMA HandleOK ==
  ASSUME NEW k, ConnOK(k), NEW s \in Side, k.end[s].reader, k.wire[Other(s)] # <<>>,
         NEW m, m = Head(k.wire[Other(s)]), m.type # "hello",
         NEW n, Addresses(n) \in SUBSET Node
  PROVE  Leaves(k, Handle(Popped(k, s), s, m, n))
<1> DEFINE p == Popped(k, s)
<1>1. /\ Keeps(k, p, s) /\ p.end = k.end
      /\ Fits(m, Other(s), p.end[Other(s)], p.end[s])
      /\ \A i \in 1..Len(p.wire[Other(s)]) : ~Clash(m, p.wire[Other(s)][i])
      /\ p.end[s].their \in {"accepted", "rejected"}
  BY PopOK
<1>2. m \in Message
  BY ConnFacts, TailFacts
<1> HIDE DEF p
<1>3. ConnOK(p) /\ p.end[s].list # "none" /\ p.end[s].reader /\ Leaves(k, p)
  BY <1>1, KeepsLeaves DEF Keeps
<1>4. EndOK(p, s) /\ p.end[s] \in EndType /\ p.end[s].our # "disconnected"
  BY <1>3, ConnFacts DEF EndOK
<1>5. CASE m.type = "accepted"
  <2>1. Handle(p, s, m, n) = OnAccepted(p, s)
    BY <1>5 DEF Handle
  <2>2. p.end[s].our = "just" /\ p.end[Other(s)].their \in {"accepted", "disconnected"}
    BY <1>1, <1>4, <1>5 DEF Fits
  <2>3. \A i \in 1..Len(p.wire[Other(s)]) : p.wire[Other(s)][i].type \notin Answers
    BY <1>1, <1>5 DEF Clash, Answers
  <2>4. Leaves(p, Handle(p, s, m, n))
    BY <1>3, <2>1, <2>2, <2>3, OnAcceptedOK
  <2> QED BY <1>3, <2>4, LeavesTrans DEF p
<1>6. CASE m.type = "rejected"
  <2>1. Handle(p, s, m, n) = OnRejected(p, s, m.reason)
    BY <1>6 DEF Handle
  <2>2. p.end[s].our = "just" /\ p.end[Other(s)].their \in {"rejected", "disconnected"}
    BY <1>1, <1>4, <1>6 DEF Fits
  <2>3. \A i \in 1..Len(p.wire[Other(s)]) : p.wire[Other(s)][i].type \notin Answers \cup {"sync"}
    BY <1>1, <1>6 DEF Clash, Answers
  <2>4. Leaves(p, Handle(p, s, m, n))
    BY <1>3, <2>1, <2>2, <2>3, OnRejectedOK
  <2> QED BY <1>3, <2>4, LeavesTrans DEF p
<1>7. CASE m.type = "address_request"
  <2>1. Handle(p, s, m, n) = Send(p, s, [type |-> "address", nodes |-> Addresses(n)])
    BY <1>7 DEF Handle
  <2>2. p.end[Other(s)].our # "just"
    BY <1>1, <1>7 DEF Fits
  <2>3. Leaves(p, Handle(p, s, m, n))
    BY <1>3, <2>1, <2>2, SendAddressOK
  <2> QED BY <1>3, <2>3, LeavesTrans DEF p
<1>8. CASE m.type = "address"
  <2>1. Handle(p, s, m, n) = OnAddress(p, s)
    BY <1>8 DEF Handle
  <2>2. p.end[s].our # "just"
    BY <1>1, <1>8 DEF Fits
  <2>3. Leaves(p, Handle(p, s, m, n))
    BY <1>1, <1>3, <2>1, <2>2, OnAddressOK
  <2> QED BY <1>3, <2>3, LeavesTrans DEF p
<1>9. CASE m.type = "sync"
  <2>1. Handle(p, s, m, n) = OnSync(p, s)
    BY <1>9 DEF Handle
  <2>2. Leaves(p, Handle(p, s, m, n))
    BY <1>1, <1>3, <1>9, <2>1, OnSyncOK
  <2> QED BY <1>3, <2>2, LeavesTrans DEF p
<1>10. CASE m.type = "closing"
  <2>1. Handle(p, s, m, n) = OnClosing(p, s)
    BY <1>10 DEF Handle
  <2>2. Leaves(p, Handle(p, s, m, n))
    BY <1>3, <2>1, OnClosingOK, KeepsLeaves
  <2> QED BY <1>3, <2>2, LeavesTrans DEF p
<1>11. CASE m.type = "eof"
  <2>1. Handle(p, s, m, n) = Closed(CloseSocket(p, s), s)
    BY <1>11 DEF Handle
  <2>2. Leaves(p, Handle(p, s, m, n))
    BY <1>3, <2>1, CloseAndLeave
  <2> QED BY <1>3, <2>2, LeavesTrans DEF p
<1> QED BY <1>2, <1>5, <1>6, <1>7, <1>8, <1>9, <1>10, <1>11, MessageFacts

-----------------------------------------------------------------------------
(* Dialling *)

LEMMA DialOK ==
  ASSUME NEW n \in Node, NEW m \in Node
  PROVE  Leaves(Free, [Free EXCEPT !.from = n, !.to = m, !.end["out"] = Dialling])
<1> DEFINE q == [Free EXCEPT !.from = n, !.to = m, !.end["out"] = Dialling]
<1>0. Free \in ConnType
  BY FreeOK DEF ConnOK
<1>1. Absent \in EndType /\ Dialling \in EndType
  BY DEF Absent, Dialling, EndType
<1>2. /\ q \in ConnType /\ q.from = n /\ q.to = m /\ q.end["out"] = Dialling /\ q.end["in"] = Absent
      /\ \A s \in Side : q.wire[s] = <<>>
  BY <1>0, <1>1 DEF Free, ConnType, Side
<1>3. /\ Absent.our = "disconnected" /\ Absent.their = "disconnected" /\ Absent.list = "none"
      /\ ~Absent.reader /\ Dialling.our = "disconnected" /\ Dialling.their = "disconnected"
      /\ Dialling.list = "handshaking" /\ ~Dialling.reader
  BY DEF Absent, Dialling
<1> HIDE DEF q
<1>4. Other("in") = "out" /\ Other("out") = "in" /\ Side = {"in", "out"}
  BY DEF Other, Side
<1>5. \A s \in Side : EndOK(q, s) /\ WireOK(q, s)
  BY <1>2, <1>3, <1>4 DEF EndOK, WireOK
<1>6. ConnOK(q)
  BY <1>2, <1>3, <1>4, <1>5 DEF ConnOK
<1>7. \A t \in Side : ~Holds(q.end[t])
  BY <1>2, <1>3, <1>4 DEF Holds
<1> QED BY <1>6, <1>7 DEF Leaves, q

\* Both ends say hello.
LEMMA EstablishOK ==
  ASSUME NEW k, ConnOK(k), k.end["out"].list # "none",
         NEW q, q = [k EXCEPT !.end = [s \in Side |-> Connected],
                              !.wire["out"] = <<[type |-> "hello", id |-> k.from]>>,
                              !.wire["in"] = <<[type |-> "hello", id |-> k.to]>>]
  PROVE  Leaves(k, q)
<1> DEFINE a == [type |-> "hello", id |-> k.from]
           b == [type |-> "hello", id |-> k.to]
<1>0. k \in ConnType /\ k.from \in Node /\ k.to \in Node /\ "out" \in Side
      /\ Other("in") = "out" /\ Other("out") = "in" /\ Side = {"in", "out"}
  BY ConnFacts DEF Side, Other
<1>1. a \in Message /\ b \in Message /\ a.type = "hello" /\ b.type = "hello"
  BY <1>0, MessageFacts
<1>e. q = [k EXCEPT !.end = [s \in Side |-> Connected], !.wire["out"] = <<a>>, !.wire["in"] = <<b>>]
  OBVIOUS
<1> HIDE DEF a, b
<1>w. <<a>> \in Seq(Message) /\ <<b>> \in Seq(Message)
  BY <1>1
<1>2. Connected \in EndType
  BY DEF Connected, Dialling, Absent, EndType
<1>3. /\ q \in ConnType /\ q.from = k.from /\ q.to = k.to
      /\ \A s \in Side : q.end[s] = Connected
      /\ q.wire["out"] = <<a>> /\ q.wire["in"] = <<b>>
  <2> DEFINE w == [s \in Side |-> IF s = "out" THEN <<a>> ELSE <<b>>]
             p == [from |-> k.from, to |-> k.to, end |-> [s \in Side |-> Connected], wire |-> w]
  <2>1. w \in [Side -> Seq(Message)] /\ w["out"] = <<a>> /\ w["in"] = <<b>>
    BY <1>0, <1>w
  <2>2. [[k.wire EXCEPT !["out"] = <<a>>] EXCEPT !["in"] = <<b>>] = w
    BY <1>0 DEF ConnType
  <2> HIDE DEF w
  <2>3. q = p
    BY <1>0, <1>e, <2>2 DEF ConnType
  <2>4. p \in ConnType
    BY <1>0, <1>2, <2>1 DEF ConnType
  <2>5. /\ p.from = k.from /\ p.to = k.to /\ p.wire = w
        /\ \A s \in Side : p.end[s] = Connected
    OBVIOUS
  <2> HIDE DEF p
  <2> QED BY <2>1, <2>3, <2>4, <2>5
<1>4. /\ Connected.our = "just" /\ Connected.their = "just" /\ Connected.list = "handshaking"
      /\ Connected.reader
  BY DEF Connected, Dialling, Absent
<1>5. \A s \in Side : Len(q.wire[s]) = 1 /\ q.wire[s][1].type = "hello"
  BY <1>0, <1>1, <1>3
<1>6. ASSUME NEW s \in Side PROVE EndOK(q, s) /\ WireOK(q, s)
  <2>1. q.end[s] = Connected /\ q.end[Other(s)] = Connected
    BY <1>3, Sides
  <2>2. EndOK(q, s)
    BY <1>4, <2>1 DEF EndOK
  <2>3. \A i \in 1..Len(q.wire[s]) : i = 1 /\ q.wire[s][i].type = "hello"
    BY <1>5
  <2>4. \A i \in 1..Len(q.wire[s]) : Fits(q.wire[s][i], s, Connected, Connected)
    BY <1>4, <2>3 DEF Fits
  <2>5. WireOK(q, s)
    BY <1>4, <1>5, <2>1, <2>3, <2>4, SMTT(60) DEF WireOK, Answers
  <2> QED BY <2>2, <2>5
<1>7. ConnOK(q)
  BY <1>0, <1>3, <1>4, <1>6 DEF ConnOK
<1>8. \A t \in Side : ~Holds(q.end[t])
  BY <1>3, <1>4 DEF Holds
<1> QED BY <1>7, <1>8 DEF Leaves

\* A connection before keys are exchanged: neither end has heard anything,
\* and what is on the wires asks nothing of an end that comes or goes.
LEMMA Silent ==
  ASSUME NEW k, ConnOK(k), k.end["out"].list # "none", k.end["out"].our = "disconnected"
  PROVE  /\ \A s \in Side : /\ k.end[s].our = "disconnected" /\ k.end[s].their = "disconnected"
                            /\ ~k.end[s].reader
         /\ \A s \in Side : \A i \in 1..Len(k.wire[s]) : k.wire[s][i].type # "hello"
<1>0. /\ "out" \in Side /\ "in" \in Side /\ Other("in") = "out" /\ Other("out") = "in"
      /\ Side = {"in", "out"} /\ k \in ConnType
      /\ EndOK(k, "out") /\ EndOK(k, "in") /\ WireOK(k, "in") /\ WireOK(k, "out")
  BY ConnFacts DEF Side, Other
<1>1. k.end["in"].our = "disconnected"
  BY <1>0 DEF EndOK
<1>2. \A s \in Side : k.end[s] \in EndType
  BY <1>0 DEF ConnType
<1>3. ASSUME NEW s \in Side
      PROVE  /\ k.end[s].our = "disconnected" /\ k.end[s].their = "disconnected"
             /\ ~k.end[s].reader
  BY <1>0, <1>1, <1>2, <1>3 DEF EndOK, EndType
<1>4. ASSUME NEW s \in Side, NEW i \in 1..Len(k.wire[s]) PROVE k.wire[s][i].type # "hello"
  <2>1. Fits(k.wire[s][i], s, k.end[s], k.end[Other(s)])
    BY <1>0 DEF WireOK
  <2>2. k.end[Other(s)].their = "disconnected"
    BY <1>3, Sides
  <2> QED BY <2>1, <2>2 DEF Fits
<1> QED BY <1>3, <1>4

\* accept_loop lists the connection.
LEMMA AcceptOK ==
  ASSUME NEW k, ConnOK(k), k.end["out"].list # "none", k.end["out"].our = "disconnected",
         NEW q, q = [k EXCEPT !.end["in"] = Dialling]
  PROVE  Leaves(k, q)
<1>0. k \in ConnType /\ k.from \in Node /\ k.to \in Node /\ "out" \in Side /\ "in" \in Side
      /\ Other("in") = "out" /\ Other("out") = "in" /\ Side = {"in", "out"}
      /\ EndOK(k, "out") /\ EndOK(k, "in") /\ WireOK(k, "in") /\ WireOK(k, "out")
  BY ConnFacts DEF Side, Other
<1>1. Dialling \in EndType
  BY DEF Absent, Dialling, EndType
<1>2. /\ Dialling.our = "disconnected" /\ Dialling.their = "disconnected"
      /\ Dialling.list = "handshaking" /\ ~Dialling.reader
  BY DEF Absent, Dialling
<1>3. /\ q \in ConnType /\ q.from = k.from /\ q.to = k.to /\ q.wire = k.wire
      /\ q.end["out"] = k.end["out"] /\ q.end["in"] = Dialling
  BY <1>0, <1>1 DEF ConnType
<1>4. \A s \in Side : /\ q.end[s].our = "disconnected" /\ q.end[s].their = "disconnected"
                      /\ ~q.end[s].reader /\ q.end[s].list # "none"
  <2>1. \A s \in Side : /\ k.end[s].our = "disconnected" /\ k.end[s].their = "disconnected"
                        /\ ~k.end[s].reader
    BY Silent
  <2> QED BY <1>0, <1>2, <1>3, <2>1
<1>5. ASSUME NEW s \in Side, NEW i \in 1..Len(k.wire[s])
      PROVE  k.wire[s][i].type # "hello" /\ Fits(k.wire[s][i], s, q.end[s], q.end[Other(s)])
  <2>1. k.wire[s][i].type # "hello"
    BY Silent
  <2> QED BY <1>4, <2>1, Sides DEF Fits
<1>6. ASSUME NEW s \in Side PROVE EndOK(q, s) /\ WireOK(q, s)
  <2>1. q.end[s].list # "active"
    BY <1>0, <1>2, <1>3, <1>4, <1>6 DEF EndOK
  <2>2. EndOK(q, s)
    BY <1>4, <2>1, Sides DEF EndOK
  <2>3. WireOK(k, s)
    BY <1>0
  <2>4. WireOK(q, s)
    BY <1>3, <1>4, <1>5, <2>3, Sides DEF WireOK
  <2> QED BY <2>2, <2>4
<1>7. ConnOK(q)
  BY <1>0, <1>3, <1>4, <1>6 DEF ConnOK
<1>8. \A t \in Side : ~Holds(q.end[t])
  BY <1>4 DEF Holds
<1> QED BY <1>7, <1>8 DEF Leaves

\* A dial that fails in the exchange of keys.
LEMMA HalfOpenOK ==
  ASSUME NEW k, ConnOK(k), k.end["out"].list # "none", k.end["out"].our = "disconnected",
         k.end["in"] # Absent,
         NEW q, q = [Free EXCEPT !.from = k.from, !.to = k.to, !.end["in"] = k.end["in"]]
  PROVE  Leaves(k, q)
<1>0. k \in ConnType /\ k.from \in Node /\ k.to \in Node /\ "out" \in Side /\ "in" \in Side
      /\ Other("in") = "out" /\ Other("out") = "in" /\ Side = {"in", "out"}
      /\ EndOK(k, "in")
  BY ConnFacts DEF Side, Other
<1>1. Free \in ConnType
  BY FreeOK DEF ConnOK
<1>2. Absent.our = "disconnected" /\ Absent.their = "disconnected" /\ Absent.list = "none"
      /\ ~Absent.reader
  BY DEF Absent
<1>3. /\ q \in ConnType /\ q.from = k.from /\ q.to = k.to /\ \A s \in Side : q.wire[s] = <<>>
      /\ q.end["out"] = Absent /\ q.end["in"] = k.end["in"]
  BY <1>0, <1>1 DEF ConnType, Free
<1>4. /\ k.end["in"].our = "disconnected" /\ k.end["in"].their = "disconnected"
      /\ ~k.end["in"].reader /\ k.end["in"].list # "none"
  BY <1>0, Silent DEF EndOK
<1>5. k.end["in"].list # "active"
  BY <1>0, <1>4 DEF EndOK
<1>6. ASSUME NEW s \in Side PROVE EndOK(q, s) /\ WireOK(q, s)
  <2>1. EndOK(q, s)
    BY <1>0, <1>2, <1>3, <1>4, <1>5 DEF EndOK
  <2>2. q.wire[s] = <<>> /\ q.end[Other(s)].their = "disconnected"
    BY <1>0, <1>2, <1>3, <1>4
  <2>3. WireOK(q, s)
    BY <2>2 DEF WireOK
  <2> QED BY <2>1, <2>3
<1>7. ConnOK(q)
  BY <1>0, <1>3, <1>4, <1>6 DEF ConnOK
<1>8. \A t \in Side : ~Holds(q.end[t])
  BY <1>0, <1>2, <1>3, <1>4 DEF Holds
<1> QED BY <1>7, <1>8 DEF Leaves

-----------------------------------------------------------------------------
(* All connections together *)

\* One connection changes and gives no end an id: no node gets a second
\* holder of an id.
LEMMA LeavesInv ==
  ASSUME ConnInv, NEW c \in Conn, NEW q, Leaves(conn[c], q), conn' = [conn EXCEPT ![c] = q],
         db' \in [Node -> SUBSET Node], faults' \in 0..MaxFaults
  PROVE  ConnInv'
<1>1. q \in ConnType /\ conn \in [Conn -> ConnType] /\ \A d \in Conn : ConnOK(conn[d])
  BY DEF Leaves, ConnOK, ConnInv
<1>2. conn' \in [Conn -> ConnType] /\ conn'[c] = q /\ \A d \in Conn : d # c => conn'[d] = conn[d]
  BY <1>1
<1>3. \A d \in Conn : ConnOK(conn'[d])
  BY <1>1, <1>2 DEF Leaves
<1>4. ASSUME NEW e \in Conn \X Side, Holds(conn'[e[1]].end[e[2]])
      PROVE  /\ OwnerOf(conn'[e[1]], e[2]) = OwnerOf(conn[e[1]], e[2])
             /\ Holds(conn[e[1]].end[e[2]])
             /\ conn'[e[1]].end[e[2]].id = conn[e[1]].end[e[2]].id
  <2>1. CASE e[1] = c
    BY <1>2, <1>4, <2>1 DEF Leaves
  <2>2. CASE e[1] # c
    BY <1>2, <1>4, <2>2
  <2> QED BY <2>1, <2>2
<1>5. OneHolder'
  <2>1. SUFFICES ASSUME NEW e \in Conn \X Side, NEW f \in Conn \X Side,
                        Holds(conn'[e[1]].end[e[2]]), Holds(conn'[f[1]].end[f[2]]),
                        conn'[e[1]].end[e[2]].id = conn'[f[1]].end[f[2]].id,
                        OwnerOf(conn'[e[1]], e[2]) = OwnerOf(conn'[f[1]], f[2])
                 PROVE  e = f
    BY DEF OneHolder, End, Owner, OwnerOf
  <2>2. /\ Holds(conn[e[1]].end[e[2]]) /\ Holds(conn[f[1]].end[f[2]])
        /\ conn[e[1]].end[e[2]].id = conn[f[1]].end[f[2]].id
        /\ OwnerOf(conn[e[1]], e[2]) = OwnerOf(conn[f[1]], f[2])
    BY <1>4, <2>1
  <2> QED BY <2>2 DEF ConnInv, OneHolder, End, Owner, OwnerOf
<1> QED BY <1>2, <1>3, <1>5 DEF ConnInv

\* A hello is answered: the end that takes the id is the only one of its node.
LEMMA HelloInv ==
  ASSUME ConnInv, NEW c \in Conn, NEW s \in Side, conn[c].end[s].reader,
         conn[c].wire[Other(s)] # <<>>, Head(conn[c].wire[Other(s)]).type = "hello",
         conn' = [conn EXCEPT ![c] = OnHello(Popped(conn[c], s), s, Owner(c, s),
                                             Head(conn[c].wire[Other(s)]).id)],
         db' \in [Node -> SUBSET Node], faults' \in 0..MaxFaults
  PROVE  ConnInv'
<1> DEFINE k == conn[c]
           n == Owner(c, s)
           m == Head(conn[c].wire[Other(s)]).id
           q == OnHello(Popped(k, s), s, n, m)
<1>0. conn \in [Conn -> ConnType] /\ (\A d \in Conn : ConnOK(conn[d])) /\ n = OwnerOf(k, s)
      /\ Other(s) \in Side /\ Other(s) # s
  BY Sides DEF ConnInv, Owner, OwnerOf
<1>1. /\ ConnOK(q) /\ q.from = k.from /\ q.to = k.to /\ q.end[Other(s)] = k.end[Other(s)]
      /\ Holds(q.end[s]) => q.end[s].id = m /\ ~AlreadyConnected(n, m)
  <2>1. ConnOK(k) /\ HelloNext(k, s, m)
    BY <1>0 DEF HelloNext
  <2>2. Answered(k, q, s, m, n)
    <3> HIDE DEF k, n, m
    <3> QED BY <1>0, <2>1, OnHelloOK
  <2> HIDE DEF q
  <2> QED BY <2>2 DEF Answered
<1> HIDE DEF q
<1>2. /\ conn' \in [Conn -> ConnType] /\ conn'[c] = q
      /\ \A d \in Conn : d # c => conn'[d] = conn[d]
  BY <1>0, <1>1 DEF ConnOK, q
<1>3. \A d \in Conn : ConnOK(conn'[d])
  BY <1>0, <1>1, <1>2
<1>4. \A d \in Conn, t \in Side : OwnerOf(conn'[d], t) = OwnerOf(conn[d], t)
  BY <1>1, <1>2 DEF OwnerOf
<1> DEFINE x == <<c, s>>
<1>5. ASSUME NEW e \in Conn \X Side, e # x
      PROVE  conn'[e[1]].end[e[2]] = conn[e[1]].end[e[2]]
  <2>1. CASE e[1] # c
    BY <1>2, <2>1
  <2>2. CASE e[1] = c
    <3>1. e[2] = Other(s)
      BY <1>5, <2>2, Sides
    <3> QED BY <1>1, <1>2, <2>2, <3>1
  <2> QED BY <2>1, <2>2
<1>6. ASSUME NEW e \in Conn \X Side, e # x, Holds(conn'[e[1]].end[e[2]]),
             Holds(q.end[s]), OwnerOf(conn'[e[1]], e[2]) = n
      PROVE  conn'[e[1]].end[e[2]].id # m
  <2>1. Holds(conn[e[1]].end[e[2]]) /\ OwnerOf(conn[e[1]], e[2]) = n
    BY <1>4, <1>5, <1>6
  <2>2. e \in Counted(n)
    BY <2>1 DEF Counted, Ends, End, Owner, OwnerOf, Holds
  <2>3. End(e).id # m
    BY <1>1, <1>6, <2>2 DEF AlreadyConnected
  <2> QED BY <1>5, <1>6, <2>3 DEF End
<1>7. OneHolder'
  <2>1. SUFFICES ASSUME NEW e \in Conn \X Side, NEW f \in Conn \X Side,
                        Holds(conn'[e[1]].end[e[2]]), Holds(conn'[f[1]].end[f[2]]),
                        conn'[e[1]].end[e[2]].id = conn'[f[1]].end[f[2]].id,
                        OwnerOf(conn'[e[1]], e[2]) = OwnerOf(conn'[f[1]], f[2])
                 PROVE  e = f
    BY DEF OneHolder, End, Owner, OwnerOf
  <2>2. conn'[x[1]].end[x[2]] = q.end[s] /\ OwnerOf(conn'[x[1]], x[2]) = n
    BY <1>0, <1>2, <1>4
  <2> HIDE DEF x, n, m
  <2>3. CASE e = x /\ f # x
    BY <1>1, <1>6, <2>1, <2>2, <2>3
  <2>4. CASE e # x /\ f = x
    BY <1>1, <1>6, <2>1, <2>2, <2>4
  <2>5. CASE e # x /\ f # x
    <3>1. /\ Holds(conn[e[1]].end[e[2]]) /\ Holds(conn[f[1]].end[f[2]])
          /\ conn[e[1]].end[e[2]].id = conn[f[1]].end[f[2]].id
          /\ OwnerOf(conn[e[1]], e[2]) = OwnerOf(conn[f[1]], f[2])
      BY <1>4, <1>5, <2>1, <2>5
    <3> QED BY <3>1 DEF ConnInv, OneHolder, End, Owner, OwnerOf
  <2> QED BY <2>3, <2>4, <2>5
<1> QED BY <1>2, <1>3, <1>7 DEF ConnInv

\* ConnInv holds when there are no connections.
LEMMA ConnInit == Init => ConnInv
<1> SUFFICES ASSUME Init PROVE ConnInv
  OBVIOUS
<1>1. conn = [c \in Conn |-> Free] /\ db = Knows /\ faults = 0
  BY DEF Init
<1>2. Free \in ConnType /\ ConnOK(Free) /\ \A s \in Side : ~Holds(Free.end[s])
  BY FreeOK DEF ConnOK, Holds, Free, Absent
<1>3. \A e \in Conn \X Side : ~Holds(End(e))
  BY <1>1, <1>2 DEF End
<1>4. OneHolder
  BY <1>3 DEF OneHolder
<1> QED BY <1>1, <1>2, <1>4, KnowsAssumption, FaultsAssumption DEF ConnInv

\* The addresses a node gives away are nodes.
LEMMA AddressesType ==
  ASSUME ConnInv, NEW n
  PROVE  Addresses(n) \in SUBSET Node
<1>1. ASSUME NEW e \in Conn \X Side, e[2] = "out", End(e).list = "active"
      PROVE  conn[e[1]].to \in Node
  <2>1. ConnOK(conn[e[1]]) /\ e[2] \in Side /\ conn[e[1]].end[e[2]].list # "none"
    BY <1>1 DEF ConnInv, End
  <2> QED BY <2>1, ConnFacts
<1> QED BY <1>1 DEF Addresses, Ends

\* A message is received.
LEMMA ReceiveInv ==
  ASSUME ConnInv, NEW c \in Conn, NEW s \in Side, Receive(c, s)
  PROVE  ConnInv'
<1> DEFINE k == conn[c]
           n == Owner(c, s)
           m == Head(conn[c].wire[Other(s)])
           p == Popped(conn[c], s)
<1>0. /\ k.end[s].reader /\ k.wire[Other(s)] # <<>>
      /\ conn' = [conn EXCEPT ![c] = Handle(p, s, m, n)]
      /\ db' = [db EXCEPT ![n] = Learn(p, s, m, n)] /\ faults' = faults
  BY DEF Receive, CanReceive, Popped
<1>1. ConnOK(k) /\ db \in [Node -> SUBSET Node] /\ faults \in 0..MaxFaults
  BY DEF ConnInv
<1>2. m \in Message /\ Addresses(n) \in SUBSET Node
  BY <1>0, <1>1, ConnFacts, TailFacts, AddressesType
<1> HIDE DEF m, n, p
<1>3. db' \in [Node -> SUBSET Node]
  <2>1. ASSUME n \in Node PROVE Learn(p, s, m, n) \in SUBSET Node
    <3>1. db[n] \in SUBSET Node
      BY <1>1, <2>1
    <3>2. m.type = "hello" => HelloTeaches(p, s, n, m.id) \in SUBSET Node
      BY <1>2, MessageFacts DEF HelloTeaches
    <3>3. m.type = "address" => m.nodes \in SUBSET Node
      BY <1>2, MessageFacts
    <3> QED BY <3>1, <3>2, <3>3 DEF Learn
  <2> QED BY <1>0, <1>1, <2>1
<1>4. CASE m.type = "hello"
  <2>1. Handle(p, s, m, n) = OnHello(p, s, n, m.id)
    BY <1>4 DEF Handle
  <2> QED BY <1>0, <1>1, <1>3, <1>4, <2>1, HelloInv DEF m, n, p
<1>5. CASE m.type # "hello"
  <2>1. Leaves(k, Handle(p, s, m, n))
    BY <1>0, <1>1, <1>2, <1>5, HandleOK DEF m, p
  <2> QED BY <1>0, <1>1, <1>3, <2>1, LeavesInv
<1> QED BY <1>4, <1>5

\* Every step keeps ConnInv.
LEMMA ConnNext == ConnInv /\ [Next]_vars => ConnInv'
<1> SUFFICES ASSUME ConnInv, [Next]_vars PROVE ConnInv'
  OBVIOUS
<1>0. /\ conn \in [Conn -> ConnType] /\ db \in [Node -> SUBSET Node] /\ faults \in 0..MaxFaults
      /\ \A c \in Conn : ConnOK(conn[c])
  BY DEF ConnInv
<1>f. faults < MaxFaults /\ faults' = faults + 1 => faults' \in 0..MaxFaults
  BY <1>0, FaultsAssumption
<1>1. ASSUME NEW c \in Conn, NEW n \in Node, NEW m \in Node, Dial(n, m, c) PROVE ConnInv'
  <2>1. /\ conn[c] = Free /\ db' = db /\ faults' = faults
        /\ conn' = [conn EXCEPT ![c] = [Free EXCEPT !.from = n, !.to = m, !.end["out"] = Dialling]]
    BY <1>1 DEF Dial
  <2> QED BY <1>0, <2>1, DialOK, LeavesInv
<1>2. ASSUME NEW c \in Conn, Establish(c) PROVE ConnInv'
  <2> DEFINE k == conn[c]
             q == [k EXCEPT !.end = [s \in Side |-> Connected],
                            !.wire["out"] = <<[type |-> "hello", id |-> k.from]>>,
                            !.wire["in"] = <<[type |-> "hello", id |-> k.to]>>]
  <2>1. k.end["out"].list # "none" /\ conn' = [conn EXCEPT ![c] = q] /\ db' = db /\ faults' = faults
    BY <1>0, <1>2 DEF Establish, InProgress
  <2>2. Leaves(k, q)
    BY <1>0, <2>1, EstablishOK
  <2> HIDE DEF q
  <2> QED BY <1>0, <2>1, <2>2, LeavesInv
<1>3. ASSUME NEW c \in Conn, DialFails(c) PROVE ConnInv'
  <2>1. /\ conn[c].end["out"].list # "none" /\ conn[c].end["out"].our = "disconnected" /\ db' = db
        /\ (faults < MaxFaults /\ faults' = faults + 1) \/ faults' = faults
    BY <1>3 DEF DialFails, InProgress
  <2>2. faults' \in 0..MaxFaults
    BY <1>0, <1>f, <2>1
  <2>3. CASE conn' = [conn EXCEPT ![c] = Free]
    <3>1. Leaves(conn[c], Free)
      BY FreeOK DEF Leaves, Holds, Free, Absent
    <3> QED BY <1>0, <2>1, <2>2, <2>3, <3>1, LeavesInv
  <2>4. CASE /\ conn[c].end["in"] # Absent
             /\ conn' = [conn EXCEPT ![c] = [Free EXCEPT !.from = conn[c].from, !.to = conn[c].to,
                                                         !.end["in"] = conn[c].end["in"]]]
    <3> DEFINE q == [Free EXCEPT !.from = conn[c].from, !.to = conn[c].to,
                                 !.end["in"] = conn[c].end["in"]]
    <3>1. conn' = [conn EXCEPT ![c] = q]
      BY <2>4
    <3>2. Leaves(conn[c], q)
      BY <1>0, <2>1, <2>4, HalfOpenOK
    <3> HIDE DEF q
    <3> QED BY <1>0, <2>1, <2>2, <3>1, <3>2, LeavesInv
  <2> QED BY <1>3, <2>3, <2>4 DEF DialFails
<1>9. ASSUME NEW c \in Conn, Accept(c) PROVE ConnInv'
  <2> DEFINE q == [conn[c] EXCEPT !.end["in"] = Dialling]
  <2>1. /\ conn[c].end["out"].list # "none" /\ conn[c].end["out"].our = "disconnected"
        /\ conn' = [conn EXCEPT ![c] = q] /\ db' = db /\ faults' = faults
    BY <1>0, <1>9 DEF Accept, InProgress
  <2>2. Leaves(conn[c], q)
    BY <1>0, <2>1, AcceptOK
  <2> HIDE DEF q
  <2> QED BY <1>0, <2>1, <2>2, LeavesInv
<1>4. ASSUME NEW c \in Conn, NEW s \in Side, Receive(c, s) PROVE ConnInv'
  BY <1>4, ReceiveInv
<1>5. ASSUME NEW c \in Conn, NEW s \in Side, ReaderEnds(c, s) PROVE ConnInv'
  <2>1. /\ conn[c].end[s].reader /\ conn' = [conn EXCEPT ![c] = Closed(conn[c], s)]
        /\ db' = db /\ faults' = faults
    BY <1>5 DEF ReaderEnds, CanEnd
  <2>2. EndOK(conn[c], s)
    BY <1>0, ConnFacts
  <2>3. conn[c].end[s].list # "none"
    BY <2>1, <2>2 DEF EndOK, Absent
  <2> QED BY <1>0, <2>1, <2>3, ClosedOK, LeavesInv
<1>6. ASSUME NEW c \in Conn, NEW s \in Side, GiveUp(c, s) PROVE ConnInv'
  <2>1. /\ conn[c].end[s].list # "none" /\ conn' = [conn EXCEPT ![c] = Terminate(conn[c], s)]
        /\ db' = db /\ ((faults < MaxFaults /\ faults' = faults + 1) \/ faults' = faults)
    BY <1>6 DEF GiveUp
  <2> QED BY <1>0, <1>f, <2>1, TerminateOK, KeepsLeaves, LeavesInv
<1>7. ASSUME NEW c \in Conn, NEW s \in Side, Inactive(c, s) PROVE ConnInv'
  <2>1. /\ conn[c].end[s].list # "none" /\ conn' = [conn EXCEPT ![c] = Disconnect(conn[c], s)]
        /\ db' = db /\ faults < MaxFaults /\ faults' = faults + 1
    BY <1>7 DEF Inactive
  <2> QED BY <1>0, <1>f, <2>1, DisconnectOK, KeepsLeaves, LeavesInv
<1>8. CASE UNCHANGED vars
  BY <1>8 DEF vars, ConnInv, OneHolder, End, Owner
<1> QED BY <1>1, <1>2, <1>3, <1>4, <1>5, <1>6, <1>7, <1>8, <1>9 DEF Next

-----------------------------------------------------------------------------
\* The invariant says what a connection in use needs.
LEMMA ConnInvType == ConnInv => TypeOK
<1> SUFFICES ASSUME ConnInv, NEW c \in Conn
             PROVE  /\ {conn[c].from, conn[c].to} \subseteq Node \cup {Nobody}
                    /\ \A s \in Side : conn[c].end[s] \in EndType /\ conn[c].wire[s] \in Seq(Message)
                    /\ conn[c].from = Nobody <=> \A s \in Side : conn[c].end[s].list = "none"
  BY DEF ConnInv, TypeOK
<1>1. conn[c] \in ConnType /\ ConnOK(conn[c])
  BY DEF ConnInv
<1>2. Free.from = Nobody /\ \A s \in Side : Free.end[s].list = "none"
  BY DEF Free, Absent
<1>3. conn[c].from = Nobody <=> \A s \in Side : conn[c].end[s].list = "none"
  BY <1>1, <1>2, NobodyAssumption DEF ConnOK
<1> QED BY <1>1, <1>3 DEF ConnType

\* is_already_connected_to_id keeps a node from using two connections to one
\* peer, or one to itself, whatever nodes dial each other at the same time
\* and in whatever order hellos and answers pass each other.
THEOREM OneConnectionPerPeer == Spec => []OneConnection
<1>1. ConnInv => OneConnection
  <2> SUFFICES ASSUME ConnInv, NEW n \in Node, NEW e \in Ends(n), End(e).list = "active"
               PROVE  /\ End(e).id \in Node \ {n}
                      /\ \A f \in Ends(n) : End(f).list = "active" /\ End(e).id = End(f).id => e = f
    BY ConnInvType DEF OneConnection
  <2>1. ASSUME NEW f \in Ends(n), End(f).list = "active"
        PROVE  /\ f \in Conn \X Side /\ Holds(End(f)) /\ Owner(f[1], f[2]) = n
               /\ End(f).id \in Node \ {n}
    <3>1. f \in Conn \X Side /\ Owner(f[1], f[2]) = n
      BY DEF Ends
    <3>2. EndOK(conn[f[1]], f[2])
      BY <3>1, ConnFacts DEF ConnInv
    <3> QED BY <2>1, <3>1, <3>2 DEF EndOK, End, Holds, Owner, OwnerOf
  <2> QED BY <2>1 DEF ConnInv, OneHolder
<1> QED BY <1>1, ConnInit, ConnNext, PTL DEF Spec

\* The handshake of hello, accepted or rejected, and address messages lets a
\* side use a connection only if both accepted it.
THEOREM HandshakeAgrees == Spec => []ActiveAgreed
<1>1. ConnInv => ActiveAgreed
  <2> SUFFICES ASSUME ConnInv, NEW c \in Conn, NEW s \in Side, conn[c].end[s].list = "active",
                      conn[c].end[Other(s)].list # "none"
               PROVE  /\ conn[c].end[Other(s)].their = "accepted"
                      /\ conn[c].end[Other(s)].our # "rejected"
                      /\ conn[c].end[s].their = "accepted"
    BY DEF ActiveAgreed, End
  <2>1. EndOK(conn[c], s) /\ EndOK(conn[c], Other(s)) /\ s \in Side /\ Other(Other(s)) = s
    BY ConnFacts, Sides DEF ConnInv
  <2>2. conn[c].end[Other(s)].their \in {"accepted", "disconnected"}
        /\ conn[c].end[Other(s)].our # "rejected" /\ conn[c].end[s].their = "accepted"
    BY <2>1 DEF EndOK
  <2> QED BY <2>1, <2>2 DEF EndOK
<1> QED BY <1>1, ConnInit, ConnNext, PTL DEF Spec
=============================================================================
