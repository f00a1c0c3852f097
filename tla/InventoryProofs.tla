-------------------------- MODULE InventoryProofs --------------------------
(***************************************************************************)
(* What is proved of Inventory for every set of nodes, connections and     *)
(* items, and every number of connections that break: a node never forgets *)
(* an item it noted as offered (NothingForgotten), and its requests stay   *)
(* within their limits (AskedOnce).                                        *)
(*                                                                         *)
(* Neither is inductive.  NetOK adds, for one node, what it does with the  *)
(* items of a link (Caring), for a connection, that the fetch message on   *)
(* its way and the item that answers it are together at most one, and are  *)
(* what the asking side has noted as requested (Talk), and, until the      *)
(* first connection breaks, that all are up (Undisturbed).                 *)
(***************************************************************************)
EXTENDS Inventory, FiniteSetTheorems, TLAPS

---------------------------------------------------------------------------
(* The inductive invariant.                                                *)

List == UNION {[S -> Nat] : S \in SUBSET Item}

NodeState(P) ==
    [known : SUBSET Item, failed : SUBSET Item, new : SUBSET Item, to_fetch : List,
     processing : SUBSET Item, fetch_due : BOOLEAN,
     link : [P -> Link], out : [P -> Seq(Message)]]

\* The node has i, refused it, handles it, asked for it or means to.
Cared(s, i) ==
    \/ i \in s.known \cup s.failed \cup s.processing \cup DOMAIN s.to_fetch
    \/ \E p \in DOMAIN s.link : i \in s.link[p].requested \/ i = s.link[p].handling

\* A block in the delegate's hands is marked as being handled until the node
\* has it; a connection that is gone owes nothing; a peer is asked for one
\* item at a time.
Caring(s) ==
    /\ \A m \in Active(s) : \A i \in s.link[m].to_us : Cared(s, i)
    /\ \A m \in DOMAIN s.link :
          /\ s.link[m].handling \in Item \ Tx =>
                s.link[m].handling \in s.processing \cup s.known
          /\ s.link[m].state = "gone" => s.link[m].requested = {} /\ s.link[m].handling = None
          /\ \A i, j \in s.link[m].requested : i = j
          /\ s.link[m].state # "closing"

\* No message of a type is in the queue, or only one, about an item of S.
NoneIn(q, t) == \A k \in 1 .. Len(q) : q[k].type # t
OneIn(q, t, S) ==
    /\ \A k \in 1 .. Len(q) : q[k].type = t => q[k].item \in S
    /\ \A k, j \in 1 .. Len(q) : q[k].type = t /\ q[j].type = t => k = j

\* For the link l of one side, what it sent and what it is to read.
Talk(l, sent, got) ==
    l.state = "active" =>
        /\ OneIn(sent, "fetch", l.requested)
        /\ OneIn(got, "item", l.requested)
        /\ NoneIn(sent, "fetch") \/ NoneIn(got, "item")

Undisturbed(s) ==
    /\ \A m \in DOMAIN s.link : s.link[m].state = "active" /\ NoneIn(s.out[m], "eof")
    /\ \A m \in DOMAIN s.link : s.link[m].requested \cap DOMAIN s.to_fetch = {}
    /\ \A m, p \in DOMAIN s.link : m # p => s.link[m].requested \cap s.link[p].requested = {}

NetOK(N, d) ==
    /\ d \in 0 .. MaxDrops
    /\ N = [n \in Node |-> N[n]]
    /\ \A n \in Node : N[n] \in NodeState(Peers(n)) /\ Caring(N[n])
    /\ \A n \in Node : \A m \in Peers(n) : Talk(N[n].link[m], N[n].out[m], N[m].out[n])
    /\ d = 0 => \A n \in Node : Undisturbed(N[n])

Inv == NetOK(node, drops)

---------------------------------------------------------------------------
(* Sets, messages and queues.                                              *)

LEMMA PeersSymmetric ==
    ASSUME NEW n \in Node, NEW m \in Peers(n)
    PROVE  m \in Node /\ m # n /\ n \in Peers(m)
<1>1. m \in Node /\ {n, m} \in Edge
    BY DEF Peers
<1>2. PICK x, y \in Node : x # y /\ {n, m} = {x, y}
    BY <1>1, EdgeAssumption
<1>3. m # n
    BY <1>2
<1>4. {m, n} = {n, m}
    OBVIOUS
<1> QED
    BY <1>1, <1>3, <1>4 DEF Peers

LEMMA ListType ==
    /\ \A f \in List : DOMAIN f \subseteq Item /\ f \in [DOMAIN f -> Nat]
    /\ \A S \in SUBSET Item : \A f \in [S -> Nat] : f \in List /\ DOMAIN f = S
<1>1. ASSUME NEW f \in List PROVE DOMAIN f \subseteq Item /\ f \in [DOMAIN f -> Nat]
    <2>1. PICK S \in SUBSET Item : f \in [S -> Nat]
        BY DEF List
    <2> QED
        BY <2>1
<1>2. ASSUME NEW S \in SUBSET Item, NEW f \in [S -> Nat] PROVE f \in List /\ DOMAIN f = S
    BY DEF List
<1> QED
    BY <1>1, <1>2

\* What a message of each type carries.
LEMMA MessageType ==
    /\ \A msg \in Message :
          /\ msg.type \in {"closing", "eof", "offer", "fetch", "item"}
          /\ msg.type = "offer" => msg.items \subseteq Item
          /\ msg.type \in {"fetch", "item"} => msg.item \in Item
    /\ [type |-> "closing"] \in Message /\ [type |-> "eof"] \in Message
    /\ \A I \in SUBSET Item : [type |-> "offer", items |-> I] \in Message
    /\ \A i \in Item : /\ [type |-> "fetch", item |-> i] \in Message
                       /\ [type |-> "item", item |-> i] \in Message
<1> USE DEF Message
<1>1. ASSUME NEW msg \in Message
      PROVE  /\ msg.type \in {"closing", "eof", "offer", "fetch", "item"}
             /\ msg.type = "offer" => msg.items \subseteq Item
             /\ msg.type \in {"fetch", "item"} => msg.item \in Item
    OBVIOUS
<1>2. [type |-> "closing"] \in Message /\ [type |-> "eof"] \in Message
    OBVIOUS
<1>3. ASSUME NEW I \in SUBSET Item PROVE [type |-> "offer", items |-> I] \in Message
    OBVIOUS
<1>4. ASSUME NEW i \in Item
      PROVE  /\ [type |-> "fetch", item |-> i] \in Message
             /\ [type |-> "item", item |-> i] \in Message
    OBVIOUS
<1> QED
    BY <1>1, <1>2, <1>3, <1>4

\* r holds the fetch and item messages of q, or fewer, at the same places.
Grows(q, r) ==
    /\ \A k \in 1 .. Len(r) : r[k].type \in {"fetch", "item"} =>
                                 k \in 1 .. Len(q) /\ r[k] = q[k]

LEMMA GrowsKeeps ==
    ASSUME NEW q \in Seq(Message), NEW r \in Seq(Message), Grows(q, r),
           NEW t \in {"fetch", "item"}, NEW S
    PROVE  /\ NoneIn(q, t) => NoneIn(r, t)
           /\ OneIn(q, t, S) => OneIn(r, t, S)
BY DEF Grows, NoneIn, OneIn

LEMMA AppendGrows ==
    ASSUME NEW q \in Seq(Message), NEW msg \in Message
    PROVE  /\ Append(q, msg) \in Seq(Message)
           /\ msg.type \notin {"fetch", "item"} => Grows(q, Append(q, msg))
           /\ msg.type # "eof" /\ NoneIn(q, "eof") => NoneIn(Append(q, msg), "eof")
BY DEF Grows, NoneIn

\* An answer or a request joins a queue that has none.
LEMMA AppendOne ==
    ASSUME NEW q \in Seq(Message), NEW msg \in Message, NEW t \in {"fetch", "item"}, NEW S
    PROVE  /\ msg.type # t /\ NoneIn(q, t) => NoneIn(Append(q, msg), t)
           /\ msg.type # t /\ OneIn(q, t, S) => OneIn(Append(q, msg), t, S)
           /\ msg.type = t /\ msg.item \in S /\ NoneIn(q, t) => OneIn(Append(q, msg), t, S)
<1>1. /\ Len(Append(q, msg)) = Len(q) + 1 /\ Len(q) \in Nat
      /\ \A k \in 1 .. Len(q) : Append(q, msg)[k] = q[k]
      /\ Append(q, msg)[Len(q) + 1] = msg
    OBVIOUS
<1>2. \A k \in 1 .. Len(q) + 1 : k \in 1 .. Len(q) \/ k = Len(q) + 1
    BY <1>1
<1> QED
    BY <1>1, <1>2 DEF NoneIn, OneIn

LEMMA TailKeeps ==
    ASSUME NEW q \in Seq(Message), q # <<>>, NEW t, NEW S
    PROVE  /\ Head(q) \in Message /\ Tail(q) \in Seq(Message)
           /\ NoneIn(q, t) => NoneIn(Tail(q), t)
           /\ OneIn(q, t, S) => OneIn(Tail(q), t, S)
           /\ OneIn(q, t, S) /\ Head(q).type = t => Head(q).item \in S /\ NoneIn(Tail(q), t)
           /\ NoneIn(q, t) => Head(q).type # t
<1>1. /\ Len(q) \in Nat \ {0} /\ Len(Tail(q)) = Len(q) - 1 /\ Head(q) = q[1]
      /\ \A k \in 1 .. Len(q) - 1 : Tail(q)[k] = q[k + 1]
      /\ Head(q) \in Message /\ Tail(q) \in Seq(Message)
    OBVIOUS
<1>2. \A k \in 1 .. Len(q) - 1 : k + 1 \in 1 .. Len(q) /\ k + 1 # 1
    BY <1>1
<1>3. 1 \in 1 .. Len(q)
    BY <1>1
<1>4. \A k, j \in 1 .. Len(q) - 1 : k + 1 = j + 1 => k = j
    OBVIOUS
<1> QED
    BY <1>1, <1>2, <1>3, <1>4 DEF NoneIn, OneIn

---------------------------------------------------------------------------
(* One node changes.                                                       *)

\* The node stays well-formed, and so does what it says to each peer.
LEMMA UpdateKeeps ==
    ASSUME NEW N, NEW d, NetOK(N, d), NEW n \in Node, NEW t \in NodeState(Peers(n)), Caring(t),
           NEW e \in 0 .. MaxDrops, e = 0 => d = 0 /\ Undisturbed(t),
           \A m \in Peers(n) : /\ Talk(t.link[m], t.out[m], N[m].out[n])
                               /\ Talk(N[m].link[n], N[m].out[n], t.out[m])
    PROVE  NetOK([N EXCEPT ![n] = t], e)
<1> DEFINE M == [N EXCEPT ![n] = t]
<1>1. /\ M = [x \in Node |-> M[x]] /\ M[n] = t
      /\ \A x \in Node : x # n => M[x] = N[x]
    BY DEF NetOK
<1> HIDE DEF M
<1>2. \A x \in Node : M[x] \in NodeState(Peers(x)) /\ Caring(M[x])
    BY <1>1 DEF NetOK
<1>3. ASSUME NEW x \in Node, NEW y \in Peers(x)
      PROVE  Talk(M[x].link[y], M[x].out[y], M[y].out[x])
    <2>1. y \in Node /\ y # x /\ x \in Peers(y)
        BY PeersSymmetric
    <2>2. CASE x = n
        BY <1>1, <2>1, <2>2
    <2>3. CASE y = n
        BY <1>1, <2>1, <2>3
    <2>4. CASE x # n /\ y # n
        BY <1>1, <2>1, <2>4 DEF NetOK
    <2> QED
        BY <2>2, <2>3, <2>4
<1>4. e = 0 => \A x \in Node : Undisturbed(M[x])
    BY <1>1 DEF NetOK
<1>5. NetOK(M, e)
    BY <1>1, <1>2, <1>3, <1>4 DEF NetOK
<1> QED
    BY <1>5 DEF M

\* A change that asks for nothing and answers nothing.
Calm(s, t) ==
    \A m \in DOMAIN s.link :
        /\ t.link[m].state = "active" =>
              s.link[m].state = "active" /\ t.link[m].requested = s.link[m].requested
        /\ Grows(s.out[m], t.out[m])

LEMMA CalmKeeps ==
    ASSUME NEW N, NEW d, NetOK(N, d), NEW n \in Node, NEW t \in NodeState(Peers(n)), Caring(t),
           NEW e \in 0 .. MaxDrops, e = 0 => d = 0 /\ Undisturbed(t), Calm(N[n], t)
    PROVE  NetOK([N EXCEPT ![n] = t], e)
<1>1. ASSUME NEW m \in Peers(n)
      PROVE  /\ Talk(t.link[m], t.out[m], N[m].out[n])
             /\ Talk(N[m].link[n], N[m].out[n], t.out[m])
    <2>1. m \in Node /\ n \in Peers(m)
        BY PeersSymmetric
    <2>2. /\ N[n].link \in [Peers(n) -> Link] /\ N[n].out \in [Peers(n) -> Seq(Message)]
          /\ t.out \in [Peers(n) -> Seq(Message)]
        BY DEF NetOK, NodeState
    <2>3. /\ Talk(N[n].link[m], N[n].out[m], N[m].out[n])
          /\ Talk(N[m].link[n], N[m].out[n], N[n].out[m])
        BY <2>1 DEF NetOK
    <2>4. Grows(N[n].out[m], t.out[m])
        BY <2>2 DEF Calm
    <2>5. N[n].out[m] \in Seq(Message) /\ t.out[m] \in Seq(Message)
        BY <2>2
    <2>6. \A S : \A k \in {"fetch", "item"} :
              /\ NoneIn(N[n].out[m], k) => NoneIn(t.out[m], k)
              /\ OneIn(N[n].out[m], k, S) => OneIn(t.out[m], k, S)
        BY <2>4, <2>5, GrowsKeeps
    <2>7. t.link[m].state = "active" =>
              N[n].link[m].state = "active" /\ t.link[m].requested = N[n].link[m].requested
        BY <2>2 DEF Calm
    <2> QED
        BY <2>3, <2>6, <2>7 DEF Talk
<1> QED
    BY <1>1, UpdateKeeps

---------------------------------------------------------------------------
(* What the operators do to a node.                                        *)

\* A step of one node that CalmKeeps covers.
Fine(s, t, P) ==
    /\ t \in NodeState(P) /\ Caring(t) /\ Calm(s, t)
    /\ Undisturbed(s) => Undisturbed(t)

LEMMA FineStep ==
    ASSUME NEW N, NEW d, NetOK(N, d), NEW n \in Node, NEW t, Fine(N[n], t, Peers(n))
    PROVE  NetOK([N EXCEPT ![n] = t], d)
<1>1. t \in NodeState(Peers(n)) /\ Caring(t) /\ Calm(N[n], t) /\ (Undisturbed(N[n]) => Undisturbed(t))
  BY DEF Fine
<1>2. d \in 0 .. MaxDrops /\ (d = 0 => Undisturbed(N[n]))
  BY DEF NetOK
<1> QED BY <1>1, <1>2, CalmKeeps

LEMMA GrowsSelf ==
    ASSUME NEW q PROVE Grows(q, q) /\ Grows(q, <<>>)
BY DEF Grows

LEMMA BroadcastFine ==
    ASSUME NEW P, NEW s \in NodeState(P), Caring(s), NEW i \in Item
    PROVE  /\ Fine(s, Broadcast(s, i), P)
           /\ Broadcast(s, i).known = s.known \cup {i}
           /\ Broadcast(s, i).processing = s.processing
           /\ Broadcast(s, i).link = s.link
<1> DEFINE t == Broadcast(s, i)
<1>1. /\ t \in NodeState(P) /\ t.known = s.known \cup {i}
      /\ t.failed = s.failed /\ t.processing = s.processing /\ t.to_fetch = s.to_fetch
      /\ t.link = s.link /\ t.out = s.out
    BY DEF Broadcast, NodeState
<1> HIDE DEF t
<1>2. \A x : Cared(s, x) => Cared(t, x)
    BY <1>1 DEF Cared
<1>3. Caring(t)
    BY <1>1, <1>2 DEF Caring, Active
<1>4. Calm(s, t)
    BY <1>1, GrowsSelf DEF Calm
<1>5. Undisturbed(s) => Undisturbed(t)
    BY <1>1 DEF Undisturbed
<1> QED
    BY <1>1, <1>3, <1>4, <1>5 DEF Fine, t

LEMMA ToFetchFields ==
    ASSUME NEW P, NEW s \in NodeState(P), NEW I \in SUBSET Item
    PROVE  /\ ToFetch(s, I) \in NodeState(P)
           /\ DOMAIN ToFetch(s, I).to_fetch = DOMAIN s.to_fetch \cup I
           /\ ToFetch(s, I).known = s.known /\ ToFetch(s, I).failed = s.failed
           /\ ToFetch(s, I).new = s.new /\ ToFetch(s, I).processing = s.processing
           /\ ToFetch(s, I).fetch_due = s.fetch_due
           /\ ToFetch(s, I).link = s.link /\ ToFetch(s, I).out = s.out
<1> DEFINE new == I \ DOMAIN s.to_fetch
           f == [i \in DOMAIN s.to_fetch \cup new |->
                    IF i \in new THEN 0 ELSE s.to_fetch[i] + 1]
<1>1. s.to_fetch \in List
    BY DEF NodeState
<1>2. DOMAIN s.to_fetch \subseteq Item /\ s.to_fetch \in [DOMAIN s.to_fetch -> Nat]
    BY <1>1, ListType
<1>3. f \in [DOMAIN s.to_fetch \cup new -> Nat]
    BY <1>1, <1>2
<1>4. DOMAIN s.to_fetch \cup new \in SUBSET Item
    BY <1>2
<1>5. f \in List /\ DOMAIN f = DOMAIN s.to_fetch \cup I
    BY <1>3, <1>4, ListType
<1>6. ToFetch(s, I) = IF new = {} THEN s ELSE [s EXCEPT !.to_fetch = f]
    BY DEF ToFetch
<1> HIDE DEF f
<1>7. CASE new = {}
    BY <1>6, <1>7
<1>8. CASE new # {}
    <2>1. ToFetch(s, I) = [s EXCEPT !.to_fetch = f]
        BY <1>6, <1>8
    <2>2. ToFetch(s, I) \in NodeState(P)
        BY <1>5, <2>1 DEF NodeState
    <2>3. ToFetch(s, I).to_fetch = f
        BY <2>1 DEF NodeState
    <2> QED
        BY <1>5, <2>1, <2>2, <2>3 DEF NodeState
<1> QED
    BY <1>7, <1>8

LEMMA OnOfferFine ==
    ASSUME NEW P, NEW s \in NodeState(P), Caring(s), NEW m \in P, NEW I \in SUBSET Item
    PROVE  Fine(s, OnOffer(s, m, I), P)
<1> DEFINE noted == I \ Ignored(s)
           asked == UNION {s.link[p].requested : p \in Active(s)}
           wanted == noted \ (s.failed \cup asked)
           u == ToFetch(s, wanted)
           t == OnOffer(s, m, I)
<1>1. wanted \in SUBSET Item /\ noted \in SUBSET Item
    OBVIOUS
<1>2. /\ u \in NodeState(P) /\ DOMAIN u.to_fetch = DOMAIN s.to_fetch \cup wanted
      /\ u.known = s.known /\ u.failed = s.failed /\ u.processing = s.processing
      /\ u.link = s.link /\ u.out = s.out
    BY <1>1, ToFetchFields
<1>3. t = [u EXCEPT !.link[m].to_us = @ \cup noted,
                    !.fetch_due = @ \/ wanted \ DOMAIN s.to_fetch # {}]
    BY DEF OnOffer
<1>4. \A i \in noted : i \in wanted \/ i \in s.failed \/ \E p \in Active(s) : i \in s.link[p].requested
    OBVIOUS
<1>5. \A p \in Active(s) : \A i \in wanted : i \notin s.link[p].requested
    OBVIOUS
<1> HIDE DEF u, t, wanted, noted
<1>6. u.link[m] \in Link /\ u.fetch_due \in BOOLEAN /\ u.link \in [P -> Link]
    BY <1>2 DEF NodeState
<1>7. [u.link[m] EXCEPT !.to_us = @ \cup noted] \in Link
    BY <1>1, <1>6 DEF Link
<1>8. (u.fetch_due \/ wanted \ DOMAIN s.to_fetch # {}) \in BOOLEAN
    BY <1>6, Zenon
<1>9. /\ t \in NodeState(P) /\ t.known = s.known /\ t.failed = s.failed
      /\ t.processing = s.processing /\ t.out = s.out
      /\ DOMAIN t.to_fetch = DOMAIN s.to_fetch \cup wanted
      /\ t.link = [s.link EXCEPT ![m] = [s.link[m] EXCEPT !.to_us = @ \cup noted]]
    <2> DEFINE due == u.fetch_due \/ wanted \ DOMAIN s.to_fetch # {}
               l == [u.link[m] EXCEPT !.to_us = @ \cup noted]
    <2>1. due \in BOOLEAN /\ l \in Link
        BY <1>7, <1>8
    <2>2. t = [u EXCEPT !.link = [u.link EXCEPT ![m] = l], !.fetch_due = due]
        BY <1>2, <1>3, <1>6 DEF NodeState
    <2> HIDE DEF due
    <2>3. l = [s.link[m] EXCEPT !.to_us = @ \cup noted]
        BY <1>2
    <2> HIDE DEF l
    <2>4. [u.link EXCEPT ![m] = l] \in [P -> Link]
        BY <1>6, <2>1
    <2> QED
        BY <1>2, <2>1, <2>2, <2>3, <2>4 DEF NodeState
<1>10. \A p \in P : /\ t.link[p].state = s.link[p].state
                    /\ t.link[p].requested = s.link[p].requested
                    /\ t.link[p].handling = s.link[p].handling
                    /\ t.link[p].to_us = IF p = m THEN s.link[p].to_us \cup noted
                                         ELSE s.link[p].to_us
    <2>1. s.link \in [P -> Link]
        BY <1>2, <1>6
    <2>2. ASSUME NEW p \in P
          PROVE  t.link[p] = IF p = m THEN [s.link[m] EXCEPT !.to_us = @ \cup noted] ELSE s.link[p]
        BY <1>9, <2>1
    <2>3. s.link[m] \in Link
        BY <2>1
    <2> QED
        BY <2>2, <2>3 DEF Link
<1>11. DOMAIN s.link = P /\ DOMAIN t.link = P
    BY <1>2, <1>6, <1>9
<1>12. Active(t) = Active(s) /\ Active(s) \subseteq P
    BY <1>10, <1>11 DEF Active
<1>13. \A x : Cared(s, x) => Cared(t, x)
    BY <1>9, <1>10, <1>11 DEF Cared
<1>14. \A x \in noted : Cared(t, x)
    BY <1>4, <1>9, <1>10, <1>11, <1>12 DEF Cared
<1>15. Caring(t)
    <2>1. \A p \in Active(t) : \A x \in t.link[p].to_us : x \in s.link[p].to_us \/ x \in noted
        BY <1>10, <1>12
    <2>2. \A p \in Active(t) : \A x \in t.link[p].to_us : Cared(t, x)
        BY <1>12, <1>13, <1>14, <2>1 DEF Caring
    <2> QED
        BY <1>9, <1>10, <1>11, <2>2 DEF Caring
<1>16. Calm(s, t)
    BY <1>9, <1>10, <1>11, GrowsSelf DEF Calm
<1>17. Undisturbed(s) => Undisturbed(t)
    <2> SUFFICES ASSUME Undisturbed(s) PROVE Undisturbed(t)
        OBVIOUS
    <2>1. Active(s) = P
        BY <1>11 DEF Undisturbed, Active
    <2>2. \A p \in P : t.link[p].requested \cap DOMAIN t.to_fetch = {}
        BY <1>5, <1>9, <1>10, <1>11, <2>1 DEF Undisturbed
    <2> QED
        BY <1>9, <1>10, <1>11, <2>2 DEF Undisturbed
<1> QED
    BY <1>9, <1>15, <1>16, <1>17 DEF Fine, t

\* A step that asks for nothing, closes nothing and gives an item out of its
\* hands only when the node has it, refused it or goes on handling it.
LEMMA QuietFine ==
    ASSUME NEW P, NEW s \in NodeState(P), NEW t \in NodeState(P), Caring(s),
           s.known \cup s.processing \subseteq t.known \cup t.processing,
           s.failed \subseteq t.failed, DOMAIN t.to_fetch = DOMAIN s.to_fetch,
           \A p \in P :
               /\ t.link[p].state = s.link[p].state
               /\ t.link[p].requested = s.link[p].requested
               /\ t.link[p].to_us = s.link[p].to_us
               /\ \/ t.link[p].handling = s.link[p].handling
                  \/ /\ t.link[p].handling = None
                     /\ s.link[p].handling \in t.known \cup t.failed \cup t.processing
               /\ Grows(s.out[p], t.out[p])
               /\ NoneIn(s.out[p], "eof") => NoneIn(t.out[p], "eof")
    PROVE  Fine(s, t, P)
<1>1. DOMAIN s.link = P /\ DOMAIN t.link = P
    BY DEF NodeState
<1>2. Active(t) = Active(s) /\ Active(s) \subseteq P
    BY <1>1 DEF Active
<1>3. \A x : Cared(s, x) => Cared(t, x)
    BY <1>1 DEF Cared
<1>4. None \notin Item
    BY ItemAssumption DEF Item
<1>5. Caring(t)
    <2>1. \A p \in Active(t) : \A x \in t.link[p].to_us : Cared(t, x)
        BY <1>2, <1>3 DEF Caring
    <2>2. ASSUME NEW p \in P
          PROVE  /\ t.link[p].handling \in Item \ Tx =>
                        t.link[p].handling \in t.processing \cup t.known
                 /\ t.link[p].state = "gone" =>
                        t.link[p].requested = {} /\ t.link[p].handling = None
        BY <1>1, <1>4 DEF Caring
    <2>3. \A p \in P : /\ \A i, j \in t.link[p].requested : i = j
                       /\ t.link[p].state # "closing"
        BY <1>1 DEF Caring
    <2> QED
        BY <1>1, <2>1, <2>2, <2>3 DEF Caring
<1>6. Calm(s, t)
    BY <1>1 DEF Calm
<1>7. Undisturbed(s) => Undisturbed(t)
    BY <1>1 DEF Undisturbed
<1> QED
    BY <1>5, <1>6, <1>7 DEF Fine

\* The link of one peer is replaced.
LEMMA LinkReplaced ==
    ASSUME NEW P, NEW s \in NodeState(P), NEW m \in P, NEW l \in Link
    PROVE  /\ [s EXCEPT !.link[m] = l] \in NodeState(P)
           /\ [s EXCEPT !.link[m] = l].link[m] = l
           /\ \A p \in P \ {m} : [s EXCEPT !.link[m] = l].link[p] = s.link[p]
           /\ [s EXCEPT !.link[m] = l].known = s.known
           /\ [s EXCEPT !.link[m] = l].failed = s.failed
           /\ [s EXCEPT !.link[m] = l].new = s.new
           /\ [s EXCEPT !.link[m] = l].processing = s.processing
           /\ [s EXCEPT !.link[m] = l].to_fetch = s.to_fetch
           /\ [s EXCEPT !.link[m] = l].fetch_due = s.fetch_due
           /\ [s EXCEPT !.link[m] = l].out = s.out
<1>1. s.link \in [P -> Link] /\ s.link[m] \in Link
    BY DEF NodeState
<1>2. /\ [s.link EXCEPT ![m] = l] \in [P -> Link] /\ [s.link EXCEPT ![m] = l][m] = l
      /\ \A p \in P \ {m} : [s.link EXCEPT ![m] = l][p] = s.link[p]
    BY <1>1
<1>3. [s EXCEPT !.link[m] = l] = [s EXCEPT !.link = [s.link EXCEPT ![m] = l]]
    BY DEF NodeState
<1> DEFINE k == [s.link EXCEPT ![m] = l]
<1>4. /\ k \in [P -> Link] /\ k[m] = l /\ \A p \in P \ {m} : k[p] = s.link[p]
      /\ [s EXCEPT !.link[m] = l] = [s EXCEPT !.link = k]
    BY <1>2, <1>3
<1> HIDE DEF k
<1> QED
    BY <1>4 DEF NodeState

\* The delegate is done with an item.
LEMMA HandledFine ==
    ASSUME NEW P, NEW s \in NodeState(P), Caring(s), NEW m \in P, s.link[m].handling # None
    PROVE  LET i == s.link[m].handling
               u == [s EXCEPT !.link[m].handling = None]
           IN  Fine(s, IF i \in Tx THEN TxHandled(u, i) ELSE BlockHandled(u, m, i), P)
<1> DEFINE i == s.link[m].handling
           l == [s.link[m] EXCEPT !.handling = None]
           u == [s EXCEPT !.link[m].handling = None]
           t == IF i \in Tx THEN TxHandled(u, i) ELSE BlockHandled(u, m, i)
<1>1. s.link \in [P -> Link] /\ s.link[m] \in Link /\ i \in Item
    BY DEF NodeState, Link
<1>2. /\ l \in Link /\ l.handling = None /\ l.state = s.link[m].state
      /\ l.requested = s.link[m].requested /\ l.to_us = s.link[m].to_us
    BY <1>1 DEF Link
<1>3. u = [s EXCEPT !.link[m] = l]
    BY <1>1 DEF NodeState
<1>4. /\ u \in NodeState(P) /\ u.link[m] = l /\ \A p \in P \ {m} : u.link[p] = s.link[p]
      /\ u.known = s.known /\ u.failed = s.failed /\ u.processing = s.processing
      /\ u.to_fetch = s.to_fetch /\ u.out = s.out
    BY <1>2, <1>3, LinkReplaced
<1>5. i \in Tx \/ i \in s.processing \cup s.known
    BY <1>1 DEF Caring, NodeState
<1>6. \A x \in P : Grows(s.out[x], s.out[x])
    BY GrowsSelf
<1> HIDE DEF u, l, i
<1>7. CASE i \in Tx /\ Links(u, i) /\ i \notin u.known
    <2>1. t = [u EXCEPT !.known = @ \cup {i}, !.new = @ \cup {i}]
        BY <1>7 DEF TxHandled, Broadcast
    <2> HIDE DEF t
    <2>2. /\ t \in NodeState(P) /\ t.known = u.known \cup {i} /\ t.failed = u.failed
          /\ t.processing = u.processing /\ t.to_fetch = u.to_fetch
          /\ t.out = u.out /\ t.link = u.link
        BY <1>1, <1>4, <2>1 DEF NodeState
    <2>3. \A p \in P :
               /\ t.link[p].state = s.link[p].state
               /\ t.link[p].requested = s.link[p].requested
               /\ t.link[p].to_us = s.link[p].to_us
               /\ \/ t.link[p].handling = s.link[p].handling
                  \/ /\ t.link[p].handling = None
                     /\ s.link[p].handling \in t.known \cup t.failed \cup t.processing
        BY <1>2, <1>4, <2>2 DEF i
    <2>4. Fine(s, t, P)
        BY <1>4, <1>6, <2>2, <2>3, QuietFine
    <2> QED
        BY <2>4 DEF t, u, i
<1>8. CASE i \in Tx /\ ~(Links(u, i) /\ i \notin u.known)
    <2>1. t = [u EXCEPT !.failed = @ \cup {i}]
        BY <1>8 DEF TxHandled
    <2> HIDE DEF t
    <2>2. /\ t \in NodeState(P) /\ t.known = u.known /\ t.failed = u.failed \cup {i}
          /\ t.processing = u.processing /\ t.to_fetch = u.to_fetch
          /\ t.out = u.out /\ t.link = u.link
        BY <1>1, <1>4, <2>1 DEF NodeState
    <2>3. \A p \in P :
               /\ t.link[p].state = s.link[p].state
               /\ t.link[p].requested = s.link[p].requested
               /\ t.link[p].to_us = s.link[p].to_us
               /\ \/ t.link[p].handling = s.link[p].handling
                  \/ /\ t.link[p].handling = None
                     /\ s.link[p].handling \in t.known \cup t.failed \cup t.processing
        BY <1>2, <1>4, <2>2 DEF i
    <2>4. Fine(s, t, P)
        BY <1>4, <1>6, <2>2, <2>3, QuietFine
    <2> QED
        BY <2>4 DEF t, u, i
<1>9. CASE i \notin Tx /\ Links(u, i)
    <2> DEFINE v == [u EXCEPT !.processing = @ \ {i}, !.known = @ \cup {i}, !.new = @ \cup {i}]
               due == v.fetch_due \/ Idle(v.link[m])
    <2>1. t = IdleTriggers(Broadcast([u EXCEPT !.processing = @ \ {i}], i), m)
        BY <1>9 DEF BlockHandled
    <2>2. t = [v EXCEPT !.fetch_due = due]
        BY <1>4, <2>1 DEF IdleTriggers, Broadcast, NodeState
    <2>3. v \in NodeState(P)
        BY <1>1, <1>4 DEF NodeState
    <2>4. due \in BOOLEAN
        BY Zenon
    <2>5. /\ v.known = u.known \cup {i} /\ v.failed = u.failed
          /\ v.processing = u.processing \ {i} /\ v.to_fetch = u.to_fetch
          /\ v.out = u.out /\ v.link = u.link
        BY <1>4 DEF NodeState
    <2> HIDE DEF due, v, t
    <2>6. /\ t \in NodeState(P) /\ t.known = u.known \cup {i} /\ t.failed = u.failed
          /\ t.processing = u.processing \ {i} /\ t.to_fetch = u.to_fetch
          /\ t.out = u.out /\ t.link = u.link
        BY <2>2, <2>3, <2>4, <2>5 DEF NodeState
    <2>7. \A p \in P :
               /\ t.link[p].state = s.link[p].state
               /\ t.link[p].requested = s.link[p].requested
               /\ t.link[p].to_us = s.link[p].to_us
               /\ \/ t.link[p].handling = s.link[p].handling
                  \/ /\ t.link[p].handling = None
                     /\ s.link[p].handling \in t.known \cup t.failed \cup t.processing
        BY <1>2, <1>4, <2>6 DEF i
    <2>8. Fine(s, t, P)
        BY <1>4, <1>6, <2>6, <2>7, QuietFine
    <2> QED
        BY <2>8 DEF t, u, i
<1>10. CASE i \notin Tx /\ ~Links(u, i)
    <2> DEFINE k == [l EXCEPT !.syncing = TRUE]
    <2>1. t = [u EXCEPT !.link[m].syncing = TRUE]
        BY <1>10 DEF BlockHandled, StartSync
    <2>2. t = [u EXCEPT !.link[m] = k]
        BY <1>4, <2>1 DEF NodeState
    <2>3. /\ k \in Link /\ k.handling = None /\ k.state = s.link[m].state
          /\ k.requested = s.link[m].requested /\ k.to_us = s.link[m].to_us
        BY <1>2 DEF Link
    <2> HIDE DEF k, t
    <2>4. /\ t \in NodeState(P) /\ t.known = u.known /\ t.failed = u.failed
          /\ t.processing = u.processing /\ t.to_fetch = u.to_fetch /\ t.out = u.out
          /\ t.link[m] = k /\ \A p \in P \ {m} : t.link[p] = u.link[p]
        BY <1>4, <2>2, <2>3, LinkReplaced
    <2>5. \A p \in P :
               /\ t.link[p].state = s.link[p].state
               /\ t.link[p].requested = s.link[p].requested
               /\ t.link[p].to_us = s.link[p].to_us
               /\ \/ t.link[p].handling = s.link[p].handling
                  \/ /\ t.link[p].handling = None
                     /\ s.link[p].handling \in t.known \cup t.failed \cup t.processing
        BY <1>4, <1>5, <1>10, <2>3, <2>4 DEF i
    <2>6. Fine(s, t, P)
        BY <1>4, <1>6, <2>4, <2>5, QuietFine
    <2> QED
        BY <2>6 DEF t, u, i
<1>11. Fine(s, t, P)
    BY <1>7, <1>8, <1>9, <1>10 DEF t, u, i
<1> QED
    BY <1>11 DEF t, u, i

LEMMA OutReplaced ==
    ASSUME NEW P, NEW s \in NodeState(P), NEW m \in P, NEW q \in Seq(Message)
    PROVE  /\ [s EXCEPT !.out[m] = q] \in NodeState(P)
           /\ [s EXCEPT !.out[m] = q].out[m] = q
           /\ \A p \in P \ {m} : [s EXCEPT !.out[m] = q].out[p] = s.out[p]
           /\ [s EXCEPT !.out[m] = q].known = s.known
           /\ [s EXCEPT !.out[m] = q].failed = s.failed
           /\ [s EXCEPT !.out[m] = q].processing = s.processing
           /\ [s EXCEPT !.out[m] = q].to_fetch = s.to_fetch
           /\ [s EXCEPT !.out[m] = q].link = s.link
<1>1. s.out \in [P -> Seq(Message)]
    BY DEF NodeState
<1> DEFINE k == [s.out EXCEPT ![m] = q]
<1>2. /\ k \in [P -> Seq(Message)] /\ k[m] = q /\ \A p \in P \ {m} : k[p] = s.out[p]
    BY <1>1
<1>3. [s EXCEPT !.out[m] = q] = [s EXCEPT !.out = k]
    BY DEF NodeState
<1> HIDE DEF k
<1> QED
    BY <1>2, <1>3 DEF NodeState

\* Caring looks at neither the messages nor what the tasks wait for.
LEMMA CaringSame ==
    ASSUME NEW P, NEW s \in NodeState(P), NEW t \in NodeState(P), Caring(s),
           t.known = s.known, t.failed = s.failed, t.processing = s.processing,
           DOMAIN t.to_fetch = DOMAIN s.to_fetch, t.link = s.link
    PROVE  Caring(t)
<1>1. \A x : Cared(s, x) => Cared(t, x)
    BY DEF Cared
<1>2. Active(t) = Active(s)
    BY DEF Active
<1> QED
    BY <1>1, <1>2 DEF Caring

\* A link that asks for nothing new is put in the place of another, and its
\* queue is emptied or takes a message that is neither a fetch nor an item.
LEMMA QueueCalm ==
    ASSUME NEW P, NEW s \in NodeState(P), NEW t \in NodeState(P), Caring(t), Calm(s, t),
           NEW m \in P, NEW msg \in Message, msg.type \notin {"fetch", "item"}
    PROVE  /\ Send(t, m, msg) \in NodeState(P) /\ Caring(Send(t, m, msg))
           /\ Calm(s, Send(t, m, msg))
           /\ [t EXCEPT !.out[m] = <<>>] \in NodeState(P)
           /\ Caring([t EXCEPT !.out[m] = <<>>]) /\ Calm(s, [t EXCEPT !.out[m] = <<>>])
<1>1. t.out[m] \in Seq(Message) /\ DOMAIN s.link = P /\ <<>> \in Seq(Message)
    BY DEF NodeState
<1> DEFINE q == Append(t.out[m], msg)
           u == [t EXCEPT !.out[m] = q]
           v == [t EXCEPT !.out[m] = <<>>]
<1>2. q \in Seq(Message)
    BY <1>1, AppendGrows
<1>3. Grows(s.out[m], q) /\ Grows(s.out[m], <<>>)
    <2>1. Grows(s.out[m], t.out[m])
        BY <1>1 DEF Calm
    <2>2. Grows(s.out[m], q)
        BY <1>1, <2>1 DEF Grows
    <2> QED
        BY <2>2, GrowsSelf
<1>4. Send(t, m, msg) = u
    BY DEF Send
<1> HIDE DEF q
<1>5. /\ u \in NodeState(P) /\ u.link = t.link /\ u.known = t.known /\ u.failed = t.failed
      /\ u.processing = t.processing /\ u.to_fetch = t.to_fetch
      /\ u.out[m] = q /\ \A p \in P \ {m} : u.out[p] = t.out[p]
    BY <1>2, OutReplaced
<1>6. /\ v \in NodeState(P) /\ v.link = t.link /\ v.known = t.known /\ v.failed = t.failed
      /\ v.processing = t.processing /\ v.to_fetch = t.to_fetch
      /\ v.out[m] = <<>> /\ \A p \in P \ {m} : v.out[p] = t.out[p]
    <2> DEFINE empty == <<>>
               w == [t EXCEPT !.out[m] = empty]
    <2>1. empty \in Seq(Message)
        BY <1>1
    <2> HIDE DEF empty
    <2>2. /\ w \in NodeState(P) /\ w.link = t.link /\ w.known = t.known /\ w.failed = t.failed
          /\ w.processing = t.processing /\ w.to_fetch = t.to_fetch
          /\ w.out[m] = empty /\ \A p \in P \ {m} : w.out[p] = t.out[p]
        BY <2>1, OutReplaced
    <2> QED
        BY <2>2 DEF empty
<1> HIDE DEF u, v
<1>7. Caring(u) /\ Caring(v)
    BY <1>5, <1>6, CaringSame
<1>8. Calm(s, u)
    BY <1>1, <1>3, <1>5 DEF Calm
<1>9. Calm(s, v)
    BY <1>1, <1>3, <1>6 DEF Calm
<1> QED
    BY <1>4, <1>5, <1>6, <1>7, <1>8, <1>9 DEF v

LEMMA LinkTypes ==
    /\ InSync \in Link /\ Fresh \in Link /\ Gone \in Link
    /\ Fresh.state = "active" /\ Fresh.requested = {} /\ Fresh.handling = None /\ Fresh.to_us = {}
    /\ Gone.state = "gone" /\ Gone.requested = {} /\ Gone.handling = None
BY DEF InSync, Fresh, Gone, Link

\* What was requested of the peer is on the list if another peer has it.
LEMMA ClosedCalm ==
    ASSUME NEW P, NEW s \in NodeState(P), Caring(s), NEW m \in P, s.link[m].handling = None
    PROVE  /\ Closed(s, m) \in NodeState(P) /\ Caring(Closed(s, m))
           /\ Calm(s, Closed(s, m))
<1> DEFINE lost == s.link[m].requested
           due == s.fetch_due \/ lost # {}
           g == [s EXCEPT !.link[m] = Gone]
           u == [s EXCEPT !.link[m] = Gone, !.fetch_due = due]
           I == {i \in lost : Offered(u, i)}
           t == Closed(s, m)
<1>1. s.link \in [P -> Link] /\ s.link[m] \in Link /\ lost \subseteq Item
    BY DEF NodeState, Link
<1>2. due \in BOOLEAN
    BY Zenon
<1>3. /\ g \in NodeState(P) /\ g.known = s.known /\ g.failed = s.failed
      /\ g.processing = s.processing /\ g.to_fetch = s.to_fetch /\ g.out = s.out
      /\ g.link[m] = Gone /\ \A p \in P \ {m} : g.link[p] = s.link[p]
    BY LinkTypes, LinkReplaced
<1>4. t = ToFetch(u, I)
    BY DEF Closed
<1>5. u = [g EXCEPT !.fetch_due = due]
    BY DEF NodeState
<1> HIDE DEF due, g
<1>6. /\ u \in NodeState(P) /\ u.known = s.known /\ u.failed = s.failed
      /\ u.processing = s.processing /\ u.to_fetch = s.to_fetch /\ u.out = s.out
      /\ u.link[m] = Gone /\ \A p \in P \ {m} : u.link[p] = s.link[p]
    BY <1>2, <1>3, <1>5 DEF NodeState
<1> HIDE DEF u
<1>7. I \in SUBSET Item
    BY <1>1
<1>8. /\ t \in NodeState(P) /\ DOMAIN t.to_fetch = DOMAIN s.to_fetch \cup I
      /\ t.known = s.known /\ t.failed = s.failed /\ t.processing = s.processing
      /\ t.out = s.out /\ t.link = u.link
    BY <1>4, <1>6, <1>7, ToFetchFields
<1> HIDE DEF t
<1>9. DOMAIN s.link = P /\ DOMAIN t.link = P /\ DOMAIN u.link = P
    BY <1>1, <1>6, <1>8 DEF NodeState
<1>10. Active(t) = Active(u) /\ Active(t) = Active(s) \ {m} /\ Active(s) \subseteq P
    BY <1>6, <1>8, <1>9, LinkTypes DEF Active
<1>11. ASSUME NEW p \in Active(t), NEW x \in t.link[p].to_us PROVE Cared(t, x)
    <2>1. p \in P \ {m} /\ t.link[p] = s.link[p] /\ p \in Active(s)
        BY <1>6, <1>8, <1>10
    <2>2. Cared(s, x) /\ x \in Item
        BY <1>1, <2>1 DEF Caring, Link
    <2>3. CASE x \in lost
        <3>1. Offered(u, x)
            BY <1>8, <1>10 DEF Offered
        <3> QED
            BY <1>8, <2>3, <3>1 DEF Cared
    <2>4. CASE x \notin lost
        <3>1. x # None
            BY <2>2, ItemAssumption DEF Item
        <3>2. CASE x \in s.known \cup s.failed \cup s.processing \cup DOMAIN s.to_fetch
            BY <1>8, <3>2 DEF Cared
        <3>3. CASE \E r \in DOMAIN s.link : x \in s.link[r].requested \/ x = s.link[r].handling
            <4>1. PICK r \in P : x \in s.link[r].requested \/ x = s.link[r].handling
                BY <1>9, <3>3
            <4>2. r # m
                BY <2>4, <3>1, <4>1
            <4>3. t.link[r] = s.link[r]
                BY <1>6, <1>8, <4>2
            <4> QED
                BY <1>9, <4>1, <4>3 DEF Cared
        <3> QED
            BY <2>2, <3>2, <3>3 DEF Cared
    <2> QED
        BY <2>3, <2>4
<1>12. ASSUME NEW p \in P
       PROVE  /\ t.link[p].handling \in Item \ Tx =>
                     t.link[p].handling \in t.processing \cup t.known
              /\ t.link[p].state = "gone" => t.link[p].requested = {} /\ t.link[p].handling = None
              /\ \A i, j \in t.link[p].requested : i = j
              /\ t.link[p].state # "closing"
    <2>1. CASE p = m
        BY <1>6, <1>8, <2>1, LinkTypes, ItemAssumption DEF Item
    <2>2. CASE p # m
        <3>1. t.link[p] = s.link[p]
            BY <1>6, <1>8, <2>2
        <3> QED
            BY <1>8, <1>9, <3>1 DEF Caring
    <2> QED
        BY <2>1, <2>2
<1>13. Caring(t)
    BY <1>9, <1>11, <1>12 DEF Caring
<1>14. Calm(s, t)
    BY <1>6, <1>8, <1>9, LinkTypes, GrowsSelf DEF Calm
<1> QED
    BY <1>8, <1>13, <1>14 DEF t

\* A connection that is given up keeps its requests until its reader ends.
LEMMA TerminatingCalm ==
    ASSUME NEW P, NEW s \in NodeState(P), Caring(s), NEW m \in P, s.link[m].state # "gone"
    PROVE  LET t == [s EXCEPT !.link[m].state = "terminating"]
           IN  t \in NodeState(P) /\ Caring(t) /\ Calm(s, t)
<1> DEFINE l == [s.link[m] EXCEPT !.state = "terminating"]
           t == [s EXCEPT !.link[m].state = "terminating"]
<1>1. s.link \in [P -> Link] /\ s.link[m] \in Link
    BY DEF NodeState
<1>2. /\ l \in Link /\ l.state = "terminating" /\ l.requested = s.link[m].requested
      /\ l.handling = s.link[m].handling
    BY <1>1 DEF Link
<1>3. t = [s EXCEPT !.link[m] = l]
    BY <1>1 DEF NodeState
<1> HIDE DEF l, t
<1>4. /\ t \in NodeState(P) /\ t.known = s.known /\ t.failed = s.failed
      /\ t.processing = s.processing /\ t.to_fetch = s.to_fetch /\ t.out = s.out
      /\ t.link[m] = l /\ \A p \in P \ {m} : t.link[p] = s.link[p]
    BY <1>2, <1>3, LinkReplaced
<1>5. DOMAIN s.link = P /\ DOMAIN t.link = P
    BY <1>4 DEF NodeState
<1>6. \A x : Cared(s, x) => Cared(t, x)
    BY <1>2, <1>4, <1>5 DEF Cared
<1>7. \A p \in Active(t) : p \in Active(s) /\ p # m /\ t.link[p] = s.link[p]
    BY <1>2, <1>4, <1>5 DEF Active
<1>8. \A p \in P : /\ t.link[p].requested = s.link[p].requested
                   /\ t.link[p].handling = s.link[p].handling
                   /\ p # m => t.link[p].state = s.link[p].state
                   /\ t.link[m].state = "terminating"
    BY <1>2, <1>4
<1>9. Caring(t)
    BY <1>4, <1>5, <1>6, <1>7, <1>8 DEF Caring
<1>10. Calm(s, t)
    BY <1>4, <1>5, <1>8, GrowsSelf DEF Calm
<1> QED
    BY <1>4, <1>9, <1>10 DEF t

LEMMA ConcatGrows ==
    ASSUME NEW q \in Seq(Message), NEW x \in Seq(Message), Grows(q, x), NEW I \in SUBSET Item,
           NEW r, r = <<>> \/ r = <<[type |-> "offer", items |-> I]>>
    PROVE  /\ x \o r \in Seq(Message) /\ Grows(q, x \o r)
           /\ NoneIn(x, "eof") => NoneIn(x \o r, "eof")
<1>1. CASE r = <<>>
    <2>1. x \o r = x
        BY <1>1
    <2> QED
        BY <2>1
<1>2. CASE r = <<[type |-> "offer", items |-> I]>>
    <2> DEFINE msg == [type |-> "offer", items |-> I]
    <2>1. msg \in Message /\ msg.type = "offer"
        BY MessageType
    <2>2. r = <<msg>>
        BY <1>2
    <2> HIDE DEF msg
    <2>3. x \o r = Append(x, msg)
        BY <2>1, <2>2
    <2>4. /\ Append(x, msg) \in Seq(Message)
          /\ NoneIn(x, "eof") => NoneIn(Append(x, msg), "eof")
        BY <2>1, AppendGrows
    <2>5. Grows(q, Append(x, msg))
        BY <2>1 DEF Grows
    <2> QED
        BY <2>3, <2>4, <2>5
<1> QED
    BY <1>1, <1>2

LEMMA AdvertiseFine ==
    ASSUME NEW P, NEW s \in NodeState(P), Caring(s)
    PROVE  Fine(s, Advertise(s), P)
<1> DEFINE Offer(m, kind) == IF Offers(s, m) \cap kind = {} THEN <<>>
                             ELSE <<[type |-> "offer", items |-> Offers(s, m) \cap kind]>>
           k == [m \in DOMAIN s.link |->
                    IF m \in Active(s) THEN [s.link[m] EXCEPT !.to_them = @ \cup Offers(s, m)]
                    ELSE s.link[m]]
           o == [m \in DOMAIN s.out |->
                    IF m \in Active(s) THEN s.out[m] \o Offer(m, Tx) \o Offer(m, Block)
                    ELSE s.out[m]]
           t == Advertise(s)
<1>1. /\ s.link \in [P -> Link] /\ s.out \in [P -> Seq(Message)] /\ s.new \subseteq Item
      /\ DOMAIN s.link = P /\ DOMAIN s.out = P
    BY DEF NodeState
<1>2. t = [s EXCEPT !.new = {}, !.link = k, !.out = o]
    BY DEF Advertise
<1>3. \A m \in P : Offers(s, m) \subseteq Item
    BY <1>1 DEF Offers
<1>4. ASSUME NEW m \in P
      PROVE  /\ k[m] \in Link /\ k[m].state = s.link[m].state
             /\ k[m].requested = s.link[m].requested /\ k[m].to_us = s.link[m].to_us
             /\ k[m].handling = s.link[m].handling
    <2>1. s.link[m] \in Link
        BY <1>1
    <2> QED
        BY <1>1, <1>3, <2>1 DEF Link
<1>5. ASSUME NEW m \in P
      PROVE  /\ o[m] \in Seq(Message) /\ Grows(s.out[m], o[m])
             /\ NoneIn(s.out[m], "eof") => NoneIn(o[m], "eof")
    <2>1. s.out[m] \in Seq(Message) /\ Grows(s.out[m], s.out[m])
        BY <1>1, GrowsSelf
    <2> DEFINE x == s.out[m] \o Offer(m, Tx)
               A == Offers(s, m) \cap Tx
               B == Offers(s, m) \cap Block
    <2>2. A \in SUBSET Item /\ B \in SUBSET Item
        BY <1>3
    <2>3. /\ Offer(m, Tx) = <<>> \/ Offer(m, Tx) = <<[type |-> "offer", items |-> A]>>
          /\ Offer(m, Block) = <<>> \/ Offer(m, Block) = <<[type |-> "offer", items |-> B]>>
        OBVIOUS
    <2>4. o[m] = IF m \in Active(s) THEN x \o Offer(m, Block) ELSE s.out[m]
        BY <1>1
    <2> HIDE DEF o, Offer, A, B
    <2>5. /\ x \in Seq(Message) /\ Grows(s.out[m], x)
          /\ NoneIn(s.out[m], "eof") => NoneIn(x, "eof")
        BY <2>1, <2>2, <2>3, ConcatGrows
    <2> HIDE DEF x
    <2>6. /\ x \o Offer(m, Block) \in Seq(Message) /\ Grows(s.out[m], x \o Offer(m, Block))
          /\ NoneIn(x, "eof") => NoneIn(x \o Offer(m, Block), "eof")
        BY <2>1, <2>2, <2>3, <2>5, ConcatGrows
    <2> QED
        BY <2>1, <2>4, <2>5, <2>6
<1>6. k \in [P -> Link] /\ o \in [P -> Seq(Message)]
    <2>1. k = [m \in P |-> k[m]] /\ o = [m \in P |-> o[m]]
        BY <1>1
    <2> HIDE DEF k, o
    <2> QED
        BY <1>4, <1>5, <2>1
<1> HIDE DEF k, o, t
<1>7. /\ t \in NodeState(P) /\ t.known = s.known /\ t.failed = s.failed
      /\ t.processing = s.processing /\ t.to_fetch = s.to_fetch
      /\ t.link = k /\ t.out = o
    BY <1>2, <1>6 DEF NodeState
<1>8. Fine(s, t, P)
    BY <1>4, <1>5, <1>7, QuietFine
<1> QED
    BY <1>8 DEF t

---------------------------------------------------------------------------
(* Requests and their answers.                                             *)

\* on_fetch_items_message appends the item, and nothing else changes.
LEMMA OnFetchFields ==
    ASSUME NEW P, NEW s \in NodeState(P), Caring(s), NEW m \in P, NEW i \in Item
    PROVE  LET t == OnFetch(s, m, i)
           IN  /\ t \in NodeState(P) /\ Caring(t) /\ t.link = s.link
               /\ \A p \in P \ {m} : t.out[p] = s.out[p]
               /\ t.out[m] = Append(s.out[m], [type |-> "item", item |-> i])
               /\ Undisturbed(s) => Undisturbed(t)
<1> DEFINE msg == [type |-> "item", item |-> i]
           q == Append(s.out[m], msg)
           t == OnFetch(s, m, i)
<1>1. s.out[m] \in Seq(Message) /\ DOMAIN s.link = P /\ msg \in Message /\ msg.type = "item"
    BY MessageType DEF NodeState
<1>2. q \in Seq(Message) /\ (NoneIn(s.out[m], "eof") => NoneIn(q, "eof"))
    <2> HIDE DEF msg
    <2> QED
        BY <1>1, AppendGrows
<1>3. t = [s EXCEPT !.out[m] = q]
    BY DEF OnFetch, Send
<1> HIDE DEF q, t
<1>4. /\ t \in NodeState(P) /\ t.link = s.link /\ t.known = s.known /\ t.failed = s.failed
      /\ t.processing = s.processing /\ t.to_fetch = s.to_fetch
      /\ t.out[m] = q /\ \A p \in P \ {m} : t.out[p] = s.out[p]
    BY <1>2, <1>3, OutReplaced
<1>5. Caring(t)
    BY <1>4, CaringSame
<1>6. Undisturbed(s) => Undisturbed(t)
    BY <1>1, <1>2, <1>4 DEF Undisturbed
<1> QED
    BY <1>4, <1>5, <1>6 DEF t, q

\* The item that was requested: it is handled now, or known.
LEMMA OnItemFields ==
    ASSUME NEW P, NEW s \in NodeState(P), Caring(s), NEW m \in P, s.link[m].handling = None,
           s.link[m].state = "active", NEW i \in s.link[m].requested
    PROVE  LET t == OnItem(s, m, i)
           IN  /\ t \in NodeState(P) /\ Caring(t) /\ t.out = s.out
               /\ \A p \in P \ {m} : t.link[p] = s.link[p]
               /\ t.link[m].state = "active" /\ t.link[m].requested = {}
               /\ Undisturbed(s) => Undisturbed(t)
<1> DEFINE k == [s.link[m] EXCEPT !.requested = @ \ {i}]
           l == [s.link[m] EXCEPT !.requested = @ \ {i}, !.handling = i]
           s1 == [s EXCEPT !.link[m].requested = @ \ {i}]
           s2 == [s1 EXCEPT !.link[m].handling = i]
           t == OnItem(s, m, i)
<1>1. /\ s.link \in [P -> Link] /\ s.link[m] \in Link /\ i \in Item /\ DOMAIN s.link = P
      /\ s.link[m].requested = {i}
    BY DEF NodeState, Link, Caring
<1>2. /\ k \in Link /\ k.requested = {} /\ k.handling = None /\ k.state = "active"
      /\ k.to_us = s.link[m].to_us
      /\ l \in Link /\ l.requested = {} /\ l.handling = i /\ l.state = "active"
      /\ l.to_us = s.link[m].to_us
    BY <1>1 DEF Link
<1>3. s1 = [s EXCEPT !.link[m] = k]
    BY <1>1 DEF NodeState
<1>4. s2 = [s EXCEPT !.link[m] = l]
    <2>1. s2 = [s EXCEPT !.link = [s.link EXCEPT ![m] = l]]
        BY <1>1 DEF NodeState, Link
    <2> QED
        BY <1>1, <2>1 DEF NodeState
<1> HIDE DEF k, l, s1, s2
<1>5. /\ s1 \in NodeState(P) /\ s1.known = s.known /\ s1.failed = s.failed
      /\ s1.new = s.new /\ s1.processing = s.processing /\ s1.to_fetch = s.to_fetch
      /\ s1.fetch_due = s.fetch_due /\ s1.out = s.out
      /\ s1.link[m] = k /\ \A p \in P \ {m} : s1.link[p] = s.link[p]
    BY <1>2, <1>3, LinkReplaced
<1>6. /\ s2 \in NodeState(P) /\ s2.known = s.known /\ s2.failed = s.failed
      /\ s2.new = s.new /\ s2.processing = s.processing /\ s2.to_fetch = s.to_fetch
      /\ s2.fetch_due = s.fetch_due /\ s2.out = s.out
      /\ s2.link[m] = l /\ \A p \in P \ {m} : s2.link[p] = s.link[p]
    BY <1>2, <1>4, LinkReplaced
<1>7. \/ i \in Tx /\ t = IdleTriggers(s2, m)
      \/ i \in Block /\ i \in s.known /\ t = IdleTriggers(Broadcast(s1, i), m)
      \/ i \in Block /\ i \notin s.known /\ t = [s2 EXCEPT !.processing = @ \cup {i}]
    BY <1>1, ItemAssumption DEF OnItem, Item, s1, s2
<1>8. \A u \in NodeState(P) :
          /\ IdleTriggers(u, m) \in NodeState(P)
          /\ IdleTriggers(u, m).known = u.known /\ IdleTriggers(u, m).failed = u.failed
          /\ IdleTriggers(u, m).processing = u.processing
          /\ IdleTriggers(u, m).to_fetch = u.to_fetch
          /\ IdleTriggers(u, m).link = u.link /\ IdleTriggers(u, m).out = u.out
    <2> SUFFICES ASSUME NEW u \in NodeState(P)
                 PROVE  /\ IdleTriggers(u, m) \in NodeState(P)
                        /\ IdleTriggers(u, m).known = u.known /\ IdleTriggers(u, m).failed = u.failed
                        /\ IdleTriggers(u, m).processing = u.processing
                        /\ IdleTriggers(u, m).to_fetch = u.to_fetch
                        /\ IdleTriggers(u, m).link = u.link /\ IdleTriggers(u, m).out = u.out
        OBVIOUS
    <2> DEFINE due == u.fetch_due \/ Idle(u.link[m])
    <2>1. due \in BOOLEAN
        BY Zenon
    <2>2. IdleTriggers(u, m) = [u EXCEPT !.fetch_due = due]
        BY DEF IdleTriggers
    <2> HIDE DEF due
    <2> QED
        BY <2>1, <2>2 DEF NodeState
<1>9. /\ t \in NodeState(P) /\ t.out = s.out /\ t.to_fetch = s.to_fetch /\ t.failed = s.failed
      /\ s.known \subseteq t.known /\ s.processing \subseteq t.processing
      /\ \A p \in P \ {m} : t.link[p] = s.link[p]
      /\ t.link[m].state = "active" /\ t.link[m].requested = {}
      /\ t.link[m].to_us = s.link[m].to_us
      /\ \/ t.link[m].handling = i /\ (i \in Tx \/ i \in t.processing)
         \/ t.link[m].handling = None /\ i \in t.known
    <2>1. CASE i \in Tx /\ t = IdleTriggers(s2, m)
        <3> HIDE DEF t
        <3> QED
            BY <1>2, <1>6, <1>8, <2>1
    <2>2. CASE i \in Block /\ i \in s.known /\ t = IdleTriggers(Broadcast(s1, i), m)
        <3> DEFINE b == Broadcast(s1, i)
        <3> HIDE DEF t
        <3>1. /\ b \in NodeState(P) /\ b.known = s1.known \cup {i} /\ b.failed = s1.failed
              /\ b.processing = s1.processing /\ b.to_fetch = s1.to_fetch
              /\ b.link = s1.link /\ b.out = s1.out
            BY <1>1, <1>5 DEF Broadcast, NodeState
        <3>2. t = IdleTriggers(b, m)
            BY <2>2
        <3> HIDE DEF b
        <3> QED
            BY <1>2, <1>5, <1>8, <2>2, <3>1, <3>2
    <2>3. CASE i \in Block /\ i \notin s.known /\ t = [s2 EXCEPT !.processing = @ \cup {i}]
        <3> HIDE DEF t
        <3>1. /\ t \in NodeState(P) /\ t.known = s2.known /\ t.failed = s2.failed
              /\ t.processing = s2.processing \cup {i} /\ t.to_fetch = s2.to_fetch
              /\ t.link = s2.link /\ t.out = s2.out
            BY <1>1, <1>6, <2>3 DEF NodeState
        <3> QED
            BY <1>2, <1>6, <3>1
    <2> QED
        BY <1>7, <2>1, <2>2, <2>3
<1> HIDE DEF t
<1>10. DOMAIN t.link = P
    BY <1>9 DEF NodeState
<1>11. Active(t) = Active(s) /\ Active(s) \subseteq P
    BY <1>1, <1>9, <1>10 DEF Active
<1>12. None \notin Item
    BY ItemAssumption DEF Item
<1>13. ASSUME NEW x \in Item, Cared(s, x) PROVE Cared(t, x)
    <2>1. CASE x \in s.known \cup s.failed \cup s.processing \cup DOMAIN s.to_fetch
        BY <1>9, <2>1 DEF Cared
    <2>2. ASSUME NEW p \in P, x \in s.link[p].requested \/ x = s.link[p].handling
          PROVE  Cared(t, x)
        <3>1. CASE p = m
            <4>1. x = i
                BY <1>1, <1>12, <2>2, <3>1
            <4> QED
                BY <1>9, <1>10, <4>1 DEF Cared
        <3>2. CASE p # m
            BY <1>9, <1>10, <2>2, <3>2 DEF Cared
        <3> QED
            BY <3>1, <3>2
    <2> QED
        BY <1>1, <1>13, <2>1, <2>2 DEF Cared
<1>14. \A p \in Active(t) : \A x \in t.link[p].to_us : Cared(t, x)
    <2>1. \A p \in P : t.link[p].to_us = s.link[p].to_us /\ s.link[p].to_us \subseteq Item
        BY <1>1, <1>9 DEF Link
    <2> QED
        BY <1>11, <1>13, <2>1 DEF Caring
<1>15. ASSUME NEW p \in P
       PROVE  /\ t.link[p].handling \in Item \ Tx =>
                     t.link[p].handling \in t.processing \cup t.known
              /\ t.link[p].state = "gone" => t.link[p].requested = {} /\ t.link[p].handling = None
              /\ \A x, y \in t.link[p].requested : x = y
              /\ t.link[p].state # "closing"
    <2>1. CASE p = m
        BY <1>9, <1>12, <2>1
    <2>2. CASE p # m
        BY <1>1, <1>9, <2>2 DEF Caring
    <2> QED
        BY <2>1, <2>2
<1>16. Caring(t)
    BY <1>10, <1>14, <1>15 DEF Caring
<1>17. Undisturbed(s) => Undisturbed(t)
    <2> SUFFICES ASSUME Undisturbed(s) PROVE Undisturbed(t)
        OBVIOUS
    <2>1. \A p \in P : t.link[p].state = "active" /\ t.link[p].requested \subseteq s.link[p].requested
        BY <1>1, <1>9 DEF Undisturbed
    <2> QED
        BY <1>1, <1>9, <1>10, <2>1 DEF Undisturbed
<1> QED
    BY <1>9, <1>16, <1>17 DEF t

\* The link of an idle peer before and after it is asked, and its queue.
Asks(k, l, q, r) ==
    \E i \in Item : /\ k.requested = {} /\ l.requested = {i}
                    /\ r = Append(q, [type |-> "fetch", item |-> i])

\* The loop asks idle peers, each for one item, which leaves the list.
LEMMA FetchFields ==
    ASSUME NEW P, NEW s \in NodeState(P), Caring(s), NEW a \in Assignments(s),
           NEW t, t = FetchItems(s, a)
    PROVE  /\ t \in NodeState(P) /\ Caring(t) /\ (Undisturbed(s) => Undisturbed(t))
           /\ \A m \in P :
                 /\ t.link[m].state = s.link[m].state
                 /\ \/ t.link[m].requested = s.link[m].requested /\ t.out[m] = s.out[m]
                    \/ Asks(s.link[m], t.link[m], s.out[m], t.out[m])
<1> DEFINE f == [i \in DOMAIN s.to_fetch \ Range(a) |-> s.to_fetch[i]]
           k == [m \in DOMAIN s.link |->
                    IF m \in DOMAIN a THEN [s.link[m] EXCEPT !.requested = {a[m]}]
                    ELSE s.link[m]]
           o == [m \in DOMAIN s.out |->
                    IF m \in DOMAIN a THEN Append(s.out[m], [type |-> "fetch", item |-> a[m]])
                    ELSE s.out[m]]
<1>1. /\ s.link \in [P -> Link] /\ s.out \in [P -> Seq(Message)] /\ s.to_fetch \in List
      /\ DOMAIN s.link = P /\ DOMAIN s.out = P
    BY DEF NodeState
<1>2. DOMAIN s.to_fetch \subseteq Item /\ s.to_fetch \in [DOMAIN s.to_fetch -> Nat]
    BY <1>1, ListType
<1>3. /\ DOMAIN a \subseteq Active(s) /\ DOMAIN a \subseteq P
      /\ \A m \in DOMAIN a : a[m] \in DOMAIN s.to_fetch /\ m \in Able(s, a[m])
      /\ \A m, p \in DOMAIN a : a[m] = a[p] => m = p
    <2>1. PICK ps \in SUBSET Active(s) : a \in [ps -> DOMAIN s.to_fetch]
        BY DEF Assignments
    <2>2. DOMAIN a = ps
        BY <2>1
    <2>3. Active(s) \subseteq P
        BY <1>1 DEF Active
    <2>4. /\ \A m \in DOMAIN a : m \in Able(s, a[m])
          /\ \A m, p \in DOMAIN a : a[m] = a[p] => m = p
        BY DEF Assignments
    <2> QED
        BY <2>1, <2>2, <2>3, <2>4
<1>4. \A m \in DOMAIN a : s.link[m].requested = {} /\ a[m] \in Item
    BY <1>2, <1>3 DEF Able, Idle
<1>5. Range(a) = {a[m] : m \in DOMAIN a}
    BY DEF Range
<1>6. t = [s EXCEPT !.fetch_due = FALSE, !.to_fetch = f, !.link = k, !.out = o]
    BY DEF FetchItems
<1>7. f \in List /\ DOMAIN f = DOMAIN s.to_fetch \ Range(a)
    <2>1. f \in [DOMAIN s.to_fetch \ Range(a) -> Nat]
        BY <1>2
    <2>2. DOMAIN s.to_fetch \ Range(a) \in SUBSET Item
        BY <1>2
    <2> QED
        BY <2>1, <2>2, ListType
<1>8. ASSUME NEW m \in P
      PROVE  /\ k[m] \in Link /\ k[m].state = s.link[m].state /\ k[m].to_us = s.link[m].to_us
             /\ k[m].handling = s.link[m].handling
             /\ k[m].requested = IF m \in DOMAIN a THEN {a[m]} ELSE s.link[m].requested
    <2>1. s.link[m] \in Link
        BY <1>1
    <2>2. k[m] = IF m \in DOMAIN a THEN [s.link[m] EXCEPT !.requested = {a[m]}] ELSE s.link[m]
        BY <1>1
    <2> HIDE DEF k
    <2>3. CASE m \in DOMAIN a
        <3>1. k[m] = [s.link[m] EXCEPT !.requested = {a[m]}] /\ {a[m]} \in SUBSET Item
            BY <1>4, <2>2, <2>3
        <3> QED
            BY <2>1, <2>3, <3>1 DEF Link
    <2>4. CASE m \notin DOMAIN a
        BY <2>1, <2>2, <2>4
    <2> QED
        BY <2>3, <2>4
<1>9. ASSUME NEW m \in P
      PROVE  /\ o[m] \in Seq(Message) /\ (NoneIn(s.out[m], "eof") => NoneIn(o[m], "eof"))
             /\ o[m] = IF m \in DOMAIN a
                       THEN Append(s.out[m], [type |-> "fetch", item |-> a[m]]) ELSE s.out[m]
    <2>1. o[m] = IF m \in DOMAIN a
                 THEN Append(s.out[m], [type |-> "fetch", item |-> a[m]]) ELSE s.out[m]
        BY <1>1
    <2>2. s.out[m] \in Seq(Message)
        BY <1>1
    <2> DEFINE msg == [type |-> "fetch", item |-> a[m]]
    <2>3. m \in DOMAIN a => msg \in Message /\ msg.type = "fetch"
        BY <1>4, MessageType
    <2> HIDE DEF msg
    <2>4. m \in DOMAIN a => /\ Append(s.out[m], msg) \in Seq(Message)
                            /\ NoneIn(s.out[m], "eof") => NoneIn(Append(s.out[m], msg), "eof")
        BY <2>2, <2>3, AppendGrows
    <2> QED
        BY <2>1, <2>2, <2>4 DEF msg
<1>10. k \in [P -> Link] /\ o \in [P -> Seq(Message)]
    <2>1. k = [m \in P |-> k[m]] /\ o = [m \in P |-> o[m]]
        BY <1>1
    <2> HIDE DEF k, o
    <2> QED
        BY <1>8, <1>9, <2>1
<1> HIDE DEF f, k, o
<1>11. /\ t \in NodeState(P) /\ t.known = s.known /\ t.failed = s.failed
       /\ t.processing = s.processing /\ t.to_fetch = f /\ t.link = k /\ t.out = o
    BY <1>6, <1>7, <1>10 DEF NodeState
<1>12. DOMAIN t.link = P
    BY <1>10, <1>11
<1>13. Active(t) = Active(s) /\ Active(s) \subseteq P
    BY <1>1, <1>8, <1>11, <1>12 DEF Active
<1>14. ASSUME NEW x, Cared(s, x) PROVE Cared(t, x)
    <2>1. CASE x \in s.known \cup s.failed \cup s.processing
        BY <1>11, <2>1 DEF Cared
    <2>2. CASE x \in DOMAIN s.to_fetch
        <3>1. CASE x \in Range(a)
            <4>1. PICK m \in DOMAIN a : x = a[m]
                BY <1>5, <3>1
            <4>2. m \in P /\ x \in k[m].requested
                BY <1>3, <1>8, <4>1
            <4> QED
                BY <1>11, <1>12, <4>2 DEF Cared
        <3>2. CASE x \notin Range(a)
            BY <1>7, <1>11, <2>2, <3>2 DEF Cared
        <3> QED
            BY <3>1, <3>2
    <2>3. ASSUME NEW p \in P, x \in s.link[p].requested \/ x = s.link[p].handling
          PROVE  Cared(t, x)
        <3>1. x \in k[p].requested \/ x = k[p].handling
            BY <1>4, <1>8, <2>3
        <3> QED
            BY <1>11, <1>12, <3>1 DEF Cared
    <2> QED
        BY <1>1, <1>14, <2>1, <2>2, <2>3 DEF Cared
<1>15. Caring(t)
    <2>1. \A m \in Active(t) : \A x \in t.link[m].to_us : Cared(t, x)
        BY <1>8, <1>11, <1>13, <1>14 DEF Caring
    <2>2. ASSUME NEW m \in P
          PROVE  /\ t.link[m].handling \in Item \ Tx =>
                        t.link[m].handling \in t.processing \cup t.known
                 /\ t.link[m].state = "gone" =>
                        t.link[m].requested = {} /\ t.link[m].handling = None
                 /\ \A i, j \in t.link[m].requested : i = j
                 /\ t.link[m].state # "closing"
        <3>1. CASE m \in DOMAIN a
            <4>1. s.link[m].state = "active"
                BY <1>3, <3>1 DEF Active
            <4>2. t.link[m].requested = {a[m]} /\ t.link[m].state = s.link[m].state
                BY <1>8, <1>11, <3>1
            <4>3. t.link[m].handling = s.link[m].handling
                BY <1>8, <1>11
            <4> QED
                BY <1>1, <1>11, <4>1, <4>2, <4>3 DEF Caring
        <3>2. CASE m \notin DOMAIN a
            <4>1. /\ t.link[m].requested = s.link[m].requested
                  /\ t.link[m].state = s.link[m].state /\ t.link[m].handling = s.link[m].handling
                BY <1>8, <1>11, <3>2
            <4> QED
                BY <1>1, <1>11, <4>1 DEF Caring
        <3> QED
            BY <3>1, <3>2
    <2> QED
        BY <1>12, <2>1, <2>2 DEF Caring
<1>16. Undisturbed(s) => Undisturbed(t)
    <2> SUFFICES ASSUME Undisturbed(s) PROVE Undisturbed(t)
        OBVIOUS
    <2>1. \A m \in P : t.link[m].state = "active" /\ NoneIn(t.out[m], "eof")
        BY <1>1, <1>8, <1>9, <1>11 DEF Undisturbed
    <2>2. ASSUME NEW m \in P, NEW x \in t.link[m].requested
          PROVE  \/ m \in DOMAIN a /\ x = a[m]
                 \/ m \notin DOMAIN a /\ x \in s.link[m].requested
        BY <1>8, <1>11
    <2>3. ASSUME NEW m \in P, NEW x \in s.link[m].requested PROVE x \notin DOMAIN s.to_fetch
        BY <1>1 DEF Undisturbed
    <2>4. ASSUME NEW m \in P, NEW x \in t.link[m].requested PROVE x \notin DOMAIN t.to_fetch
        BY <1>5, <1>7, <1>11, <2>2, <2>3
    <2>5. ASSUME NEW m \in P, NEW p \in P, m # p, NEW x \in t.link[m].requested
          PROVE  x \notin t.link[p].requested
        <3> SUFFICES ASSUME x \in t.link[p].requested PROVE FALSE
            OBVIOUS
        <3>1. CASE m \in DOMAIN a /\ p \in DOMAIN a
            BY <1>3, <2>2, <2>5, <3>1
        <3>2. CASE m \in DOMAIN a /\ p \notin DOMAIN a
            BY <1>3, <2>2, <2>3, <3>2
        <3>3. CASE m \notin DOMAIN a /\ p \in DOMAIN a
            BY <1>3, <2>2, <2>3, <3>3
        <3>4. CASE m \notin DOMAIN a /\ p \notin DOMAIN a
            BY <1>1, <2>2, <2>5, <3>4 DEF Undisturbed
        <3> QED
            BY <3>1, <3>2, <3>3, <3>4
    <2> QED
        BY <1>12, <2>1, <2>4, <2>5 DEF Undisturbed
<1>17. ASSUME NEW m \in P
       PROVE  /\ t.link[m].state = s.link[m].state
              /\ \/ t.link[m].requested = s.link[m].requested /\ t.out[m] = s.out[m]
                 \/ Asks(s.link[m], t.link[m], s.out[m], t.out[m])
    BY <1>4, <1>8, <1>9, <1>11 DEF Asks
<1> QED
    BY <1>11, <1>15, <1>16, <1>17

---------------------------------------------------------------------------
(* The steps.                                                              *)

LEMMA FetchLoopKeeps ==
    ASSUME Inv, NEW n \in Node, FetchLoop(n)
    PROVE  Inv'
<1>1. PICK a \in Assignments(node[n]) : node' = [node EXCEPT ![n] = FetchItems(node[n], a)]
    BY DEF FetchLoop
<1> DEFINE s == node[n]
           t == FetchItems(s, a)
           P == Peers(n)
<1>2. /\ NetOK(node, drops) /\ s \in NodeState(P) /\ Caring(s) /\ drops \in 0 .. MaxDrops
      /\ a \in Assignments(s) /\ t = FetchItems(s, a)
    BY DEF Inv, NetOK
<1> HIDE DEF s, P, t
<1>3. /\ t \in NodeState(P) /\ Caring(t) /\ (Undisturbed(s) => Undisturbed(t))
      /\ \A m \in P :
            /\ t.link[m].state = s.link[m].state
            /\ \/ t.link[m].requested = s.link[m].requested /\ t.out[m] = s.out[m]
               \/ Asks(s.link[m], t.link[m], s.out[m], t.out[m])
    BY <1>2, FetchFields
<1>4. ASSUME NEW m \in P
      PROVE  /\ Talk(t.link[m], t.out[m], node[m].out[n])
             /\ Talk(node[m].link[n], node[m].out[n], t.out[m])
    <2>1. m \in Node /\ n \in Peers(m)
        BY PeersSymmetric DEF P
    <2>2. /\ Talk(s.link[m], s.out[m], node[m].out[n])
          /\ Talk(node[m].link[n], node[m].out[n], s.out[m])
        BY <2>1 DEF Inv, NetOK, s, P
    <2>3. s.out[m] \in Seq(Message) /\ node[m].out[n] \in Seq(Message)
        BY <1>2, <2>1 DEF NetOK, NodeState, P
    <2>4. CASE t.link[m].requested = s.link[m].requested /\ t.out[m] = s.out[m]
        BY <1>3, <2>2, <2>4 DEF Talk
    <2>5. ASSUME NEW i \in Item, s.link[m].requested = {}, t.link[m].requested = {i},
                 t.out[m] = Append(s.out[m], [type |-> "fetch", item |-> i])
          PROVE  /\ Talk(t.link[m], t.out[m], node[m].out[n])
                 /\ Talk(node[m].link[n], node[m].out[n], t.out[m])
        <3> DEFINE msg == [type |-> "fetch", item |-> i]
        <3>1. msg \in Message /\ msg.type = "fetch" /\ msg.item = i
            BY MessageType
        <3>2. t.out[m] = Append(s.out[m], msg)
            BY <2>5
        <3> HIDE DEF msg
        <3>3. Talk(t.link[m], t.out[m], node[m].out[n])
            <4> SUFFICES ASSUME t.link[m].state = "active"
                         PROVE  /\ OneIn(t.out[m], "fetch", {i})
                                /\ OneIn(node[m].out[n], "item", {i})
                                /\ NoneIn(node[m].out[n], "item")
                BY <2>5 DEF Talk
            <4>1. OneIn(s.out[m], "fetch", {}) /\ OneIn(node[m].out[n], "item", {})
                BY <1>3, <2>2, <2>5 DEF Talk
            <4>2. NoneIn(s.out[m], "fetch") /\ NoneIn(node[m].out[n], "item")
                BY <4>1 DEF OneIn, NoneIn
            <4>3. OneIn(Append(s.out[m], msg), "fetch", {i})
                BY <2>3, <3>1, <4>2, AppendOne
            <4> QED
                BY <3>2, <4>2, <4>3 DEF OneIn, NoneIn
        <3>4. Talk(node[m].link[n], node[m].out[n], t.out[m])
            <4> DEFINE S == node[m].link[n].requested
            <4>1. /\ NoneIn(s.out[m], "item") => NoneIn(Append(s.out[m], msg), "item")
                  /\ OneIn(s.out[m], "item", S) => OneIn(Append(s.out[m], msg), "item", S)
                BY <2>3, <3>1, AppendOne
            <4> QED
                BY <2>2, <3>2, <4>1 DEF Talk
        <3> QED
            BY <3>3, <3>4
    <2> QED
        BY <1>3, <2>4, <2>5 DEF Asks
<1>5. drops = 0 => Undisturbed(t)
    BY <1>2, <1>3 DEF NetOK, s
<1>6. NetOK([node EXCEPT ![n] = t], drops)
    BY <1>2, <1>3, <1>4, <1>5, UpdateKeeps DEF P
<1> QED
    BY <1>1, <1>6 DEF FetchLoop, Inv, t, s

\* m's word to n is replaced by q, which has no message that was not there.
LEMMA ShorterKeeps ==
    ASSUME NEW N, NEW d, NetOK(N, d), NEW n \in Node, NEW m \in Peers(n), NEW q \in Seq(Message),
           \A x, S : /\ NoneIn(N[m].out[n], x) => NoneIn(q, x)
                     /\ OneIn(N[m].out[n], x, S) => OneIn(q, x, S)
    PROVE  NetOK([N EXCEPT ![m] = [N[m] EXCEPT !.out[n] = q]], d)
<1> DEFINE s == N[m]
           t == [s EXCEPT !.out[n] = q]
<1>1. m \in Node /\ m # n /\ n \in Peers(m)
    BY PeersSymmetric
<1>2. /\ s \in NodeState(Peers(m)) /\ Caring(s) /\ d \in 0 .. MaxDrops
      /\ DOMAIN s.link = Peers(m) /\ (d = 0 => Undisturbed(s))
    BY <1>1 DEF NetOK, NodeState
<1>3. \A p \in Peers(m) : /\ Talk(s.link[p], s.out[p], N[p].out[m])
                          /\ Talk(N[p].link[m], N[p].out[m], s.out[p])
    <2> SUFFICES ASSUME NEW p \in Peers(m)
                 PROVE  /\ Talk(s.link[p], s.out[p], N[p].out[m])
                        /\ Talk(N[p].link[m], N[p].out[m], s.out[p])
        OBVIOUS
    <2>1. p \in Node /\ m \in Peers(p)
        BY <1>1, PeersSymmetric
    <2> QED
        BY <1>1, <2>1 DEF NetOK
<1>4. \A x, S : /\ NoneIn(s.out[n], x) => NoneIn(q, x)
                /\ OneIn(s.out[n], x, S) => OneIn(q, x, S)
    OBVIOUS
<1> HIDE DEF s
<1>5. /\ t \in NodeState(Peers(m)) /\ t.link = s.link /\ t.known = s.known
      /\ t.failed = s.failed /\ t.processing = s.processing /\ t.to_fetch = s.to_fetch
      /\ t.out[n] = q /\ \A p \in Peers(m) \ {n} : t.out[p] = s.out[p]
    BY <1>1, <1>2, OutReplaced
<1> HIDE DEF t
<1>6. Caring(t)
    BY <1>2, <1>5, CaringSame
<1>7. ASSUME Undisturbed(s) PROVE Undisturbed(t)
    <2>1. \A p \in Peers(m) : NoneIn(t.out[p], "eof")
        BY <1>2, <1>4, <1>5, <1>7 DEF Undisturbed
    <2> QED
        BY <1>2, <1>5, <1>7, <2>1 DEF Undisturbed
<1>8. ASSUME NEW p \in Peers(m)
      PROVE  /\ Talk(t.link[p], t.out[p], N[p].out[m])
             /\ Talk(N[p].link[m], N[p].out[m], t.out[p])
    <2>1. CASE p = n
        BY <1>3, <1>4, <1>5, <2>1 DEF Talk
    <2>2. CASE p # n
        BY <1>3, <1>5, <2>2
    <2> QED
        BY <2>1, <2>2
<1>9. NetOK([N EXCEPT ![m] = t], d)
    BY <1>1, <1>2, <1>5, <1>6, <1>7, <1>8, UpdateKeeps
<1> QED
    BY <1>9 DEF s, t

\* The message at the head of the queue is read.
LEMMA ReadKeeps ==
    ASSUME NEW N, NEW d, NetOK(N, d), NEW n \in Node, NEW m \in Peers(n), N[m].out[n] # <<>>,
           NEW h, h = Head(N[m].out[n]), NEW q, q = Tail(N[m].out[n])
    PROVE  /\ NetOK([N EXCEPT ![m] = [N[m] EXCEPT !.out[n] = q]], d)
           /\ h \in Message /\ (d = 0 => h.type # "eof")
           /\ N[n].link[m].state = "active" /\ h.type = "item" =>
                 h.item \in N[n].link[m].requested /\ NoneIn(q, "item") /\ NoneIn(N[n].out[m], "fetch")
           /\ N[m].link[n].state = "active" /\ h.type = "fetch" =>
                 h.item \in N[m].link[n].requested /\ NoneIn(q, "fetch") /\ NoneIn(N[n].out[m], "item")
<1>1. m \in Node /\ n \in Peers(m)
    BY PeersSymmetric
<1>2. N[m].out[n] \in Seq(Message) /\ DOMAIN N[m].link = Peers(m)
    BY <1>1 DEF NetOK, NodeState
<1>3. /\ Talk(N[n].link[m], N[n].out[m], N[m].out[n])
      /\ Talk(N[m].link[n], N[m].out[n], N[n].out[m])
    BY <1>1 DEF NetOK
<1>4. h \in Message /\ q \in Seq(Message)
    BY <1>2, TailKeeps
<1>5. \A x, S : /\ NoneIn(N[m].out[n], x) => NoneIn(q, x) /\ h.type # x
                /\ OneIn(N[m].out[n], x, S) => OneIn(q, x, S)
                /\ OneIn(N[m].out[n], x, S) /\ h.type = x => h.item \in S /\ NoneIn(q, x)
    BY <1>2, TailKeeps
<1>6. NetOK([N EXCEPT ![m] = [N[m] EXCEPT !.out[n] = q]], d)
    BY <1>4, <1>5, ShorterKeeps
<1>7. d = 0 => h.type # "eof"
    BY <1>1, <1>2, <1>5 DEF NetOK, Undisturbed
<1>8. N[n].link[m].state = "active" /\ h.type = "item" =>
          h.item \in N[n].link[m].requested /\ NoneIn(q, "item") /\ NoneIn(N[n].out[m], "fetch")
    BY <1>3, <1>5 DEF Talk
<1>9. N[m].link[n].state = "active" /\ h.type = "fetch" =>
          h.item \in N[m].link[n].requested /\ NoneIn(q, "fetch") /\ NoneIn(N[n].out[m], "item")
    BY <1>3, <1>5 DEF Talk
<1> QED
    BY <1>4, <1>6, <1>7, <1>8, <1>9

LEMMA ReceiveKeeps ==
    ASSUME Inv, NEW n \in Node, NEW m \in Peers(n), Receive(n, m)
    PROVE  Inv'
<1> DEFINE h == Head(node[m].out[n])
           q == Tail(node[m].out[n])
           r == [node[m] EXCEPT !.out[n] = q]
           M == [node EXCEPT ![m] = r]
           s == node[n]
           P == Peers(n)
           t == Handle(s, m, h)
<1>1. m \in Node /\ m # n /\ n \in Peers(m)
    BY PeersSymmetric
<1>2. /\ NetOK(node, drops) /\ node = [x \in Node |-> node[x]] /\ drops \in 0 .. MaxDrops
      /\ node[m] \in NodeState(Peers(m)) /\ s \in NodeState(P)
    BY <1>1 DEF Inv, NetOK
<1>3. /\ s.link[m].state = "active" /\ s.link[m].handling = None /\ node[m].out[n] # <<>>
      /\ drops' = drops
      /\ node' = [node EXCEPT ![n] = t, ![m].out[n] = q]
    <2>1. s.link[m].state # "closing"
        BY <1>2 DEF Inv, NetOK, Caring, NodeState
    <2> QED
        BY <2>1 DEF Receive, CanReceive
<1> HIDE DEF t, q, h
<1>4. node' = [M EXCEPT ![n] = t]
    BY <1>1, <1>2, <1>3
<1>5. M[n] = s /\ M[m] = r
    BY <1>1, <1>2
<1>6. r.out[n] = q
    BY <1>1, <1>2 DEF NodeState
<1> HIDE DEF M, s, P, r
<1>7. h = Head(node[m].out[n]) /\ q = Tail(node[m].out[n])
    BY DEF h, q
<1>8. /\ NetOK([node EXCEPT ![m] = [node[m] EXCEPT !.out[n] = q]], drops)
      /\ h \in Message /\ (drops = 0 => h.type # "eof")
      /\ node[n].link[m].state = "active" /\ h.type = "item" =>
            h.item \in node[n].link[m].requested /\ NoneIn(q, "item") /\ NoneIn(node[n].out[m], "fetch")
      /\ node[m].link[n].state = "active" /\ h.type = "fetch" =>
            h.item \in node[m].link[n].requested /\ NoneIn(q, "fetch") /\ NoneIn(node[n].out[m], "item")
    <2>1. NetOK(node, drops) /\ node[m].out[n] # <<>>
        BY <1>2, <1>3
    <2> QED
        BY <1>7, <2>1, ReadKeeps
<1>9. /\ NetOK(M, drops)
      /\ h \in Message /\ (drops = 0 => h.type # "eof")
      /\ h.type = "item" =>
            h.item \in s.link[m].requested /\ NoneIn(q, "item") /\ NoneIn(s.out[m], "fetch")
      /\ node[m].link[n].state = "active" /\ h.type = "fetch" =>
            h.item \in node[m].link[n].requested /\ NoneIn(q, "fetch") /\ NoneIn(s.out[m], "item")
    BY <1>3, <1>8 DEF M, s, r
<1>10. Caring(s) /\ s \in NodeState(P) /\ m \in P /\ (drops = 0 => Undisturbed(s))
    BY <1>2 DEF NetOK, s, P
<1>11. /\ M[n] = s /\ M[m].out[n] = q /\ M[m].link = node[m].link
       /\ \A p \in P : /\ Talk(s.link[p], s.out[p], M[p].out[n])
                       /\ Talk(M[p].link[n], M[p].out[n], s.out[p])
    <2>1. M[m].link = node[m].link
        BY <1>1, <1>2, <1>5 DEF NodeState, r
    <2>2. ASSUME NEW p \in P
          PROVE  /\ Talk(s.link[p], s.out[p], M[p].out[n])
                 /\ Talk(M[p].link[n], M[p].out[n], s.out[p])
        <3>1. p \in Node /\ n \in Peers(p) /\ p \in Peers(n)
            BY PeersSymmetric DEF P
        <3> QED
            BY <1>5, <1>9, <3>1 DEF NetOK
    <2> QED
        BY <1>5, <1>6, <2>1, <2>2
<1>12. CASE h.type = "offer"
    <2>1. t = OnOffer(s, m, h.items) /\ h.items \in SUBSET Item
        BY <1>9, <1>12, MessageType DEF t, Handle
    <2>2. Fine(s, t, P)
        BY <1>10, <2>1, OnOfferFine
    <2>3. NetOK([M EXCEPT ![n] = t], drops)
        BY <1>9, <1>11, <2>2, FineStep DEF P
    <2> QED
        BY <1>3, <1>4, <2>3 DEF Inv
<1>13. CASE h.type = "closing"
    <2>1. t = s
        BY <1>13 DEF t, Handle
    <2>2. M = [x \in Node |-> M[x]]
        BY <1>9 DEF NetOK
    <2>3. [M EXCEPT ![n] = s] = M
        BY <1>11, <2>2
    <2> QED
        BY <1>3, <1>4, <1>9, <2>1, <2>3 DEF Inv
<1>14. CASE h.type = "eof"
    <2> DEFINE c == Closed(s, m)
    <2>1. t = [c EXCEPT !.out[m] = <<>>]
        BY <1>14 DEF t, Handle
    <2>2. c \in NodeState(P) /\ Caring(c) /\ Calm(s, c)
        BY <1>3, <1>10, ClosedCalm
    <2> HIDE DEF c
    <2>3. t \in NodeState(P) /\ Caring(t) /\ Calm(s, t)
        <3>1. h.type \notin {"fetch", "item"}
            BY <1>14
        <3> QED
            BY <1>9, <1>10, <2>1, <2>2, <3>1, QueueCalm
    <2>4. drops # 0
        BY <1>9, <1>14
    <2>5. NetOK([M EXCEPT ![n] = t], drops)
        BY <1>2, <1>9, <1>11, <2>3, <2>4, CalmKeeps DEF P
    <2> QED
        BY <1>3, <1>4, <2>5 DEF Inv
<1>15. CASE h.type = "fetch"
    <2> DEFINE i == h.item
               msg == [type |-> "item", item |-> i]
    <2>1. t = OnFetch(s, m, i) /\ i \in Item
        BY <1>9, <1>15, MessageType DEF t, Handle
    <2>2. /\ t \in NodeState(P) /\ Caring(t) /\ t.link = s.link
          /\ \A p \in P \ {m} : t.out[p] = s.out[p]
          /\ t.out[m] = Append(s.out[m], msg)
          /\ Undisturbed(s) => Undisturbed(t)
        BY <1>10, <2>1, OnFetchFields
    <2>3. msg \in Message /\ msg.type = "item" /\ msg.item = i
        BY <2>1, MessageType
    <2>4. s.out[m] \in Seq(Message)
        BY <1>10 DEF NodeState
    <2> HIDE DEF msg
    <2>5. \A S : /\ NoneIn(s.out[m], "fetch") => NoneIn(t.out[m], "fetch")
                 /\ OneIn(s.out[m], "fetch", S) => OneIn(t.out[m], "fetch", S)
                 /\ i \in S /\ NoneIn(s.out[m], "item") => OneIn(t.out[m], "item", S)
        BY <2>2, <2>3, <2>4, AppendOne
    <2>6. Talk(t.link[m], t.out[m], M[m].out[n])
        BY <1>10, <1>11, <2>2, <2>5 DEF Talk
    <2>7. Talk(M[m].link[n], M[m].out[n], t.out[m])
        <3> SUFFICES ASSUME M[m].link[n].state = "active"
                     PROVE  /\ OneIn(q, "fetch", M[m].link[n].requested)
                            /\ OneIn(t.out[m], "item", M[m].link[n].requested)
                            /\ NoneIn(q, "fetch")
            BY <1>11 DEF Talk
        <3>1. /\ i \in M[m].link[n].requested /\ NoneIn(q, "fetch")
              /\ NoneIn(s.out[m], "item")
            BY <1>9, <1>11, <1>15
        <3> QED
            BY <1>10, <1>11, <2>5, <3>1 DEF Talk
    <2>8. \A p \in P : /\ Talk(t.link[p], t.out[p], M[p].out[n])
                       /\ Talk(M[p].link[n], M[p].out[n], t.out[p])
        BY <1>11, <2>2, <2>6, <2>7
    <2>9. NetOK([M EXCEPT ![n] = t], drops)
        BY <1>2, <1>9, <1>10, <2>2, <2>8, UpdateKeeps DEF P
    <2> QED
        BY <1>3, <1>4, <2>9 DEF Inv
<1>16. CASE h.type = "item"
    <2> DEFINE i == h.item
    <2>1. t = OnItem(s, m, i) /\ i \in s.link[m].requested
        BY <1>9, <1>16 DEF t, Handle
    <2>2. /\ t \in NodeState(P) /\ Caring(t) /\ t.out = s.out
          /\ \A p \in P \ {m} : t.link[p] = s.link[p]
          /\ t.link[m].state = "active" /\ t.link[m].requested = {}
          /\ Undisturbed(s) => Undisturbed(t)
        BY <1>3, <1>10, <2>1, OnItemFields
    <2>3. Talk(t.link[m], t.out[m], M[m].out[n])
        BY <1>9, <1>11, <1>16, <2>2 DEF Talk, NoneIn, OneIn
    <2>4. \A p \in P : /\ Talk(t.link[p], t.out[p], M[p].out[n])
                       /\ Talk(M[p].link[n], M[p].out[n], t.out[p])
        BY <1>11, <2>2, <2>3
    <2>5. NetOK([M EXCEPT ![n] = t], drops)
        BY <1>2, <1>9, <1>10, <2>2, <2>4, UpdateKeeps DEF P
    <2> QED
        BY <1>3, <1>4, <2>5 DEF Inv
<1>17. h.type \in {"closing", "eof", "offer", "fetch", "item"}
    BY <1>9, MessageType
<1> QED
    BY <1>12, <1>13, <1>14, <1>15, <1>16, <1>17

LEMMA FinishItemKeeps ==
    ASSUME Inv, NEW n \in Node, NEW m \in Peers(n), FinishItem(n, m)
    PROVE  Inv'
<1> DEFINE s == node[n]
           i == s.link[m].handling
           u == [s EXCEPT !.link[m].handling = None]
           t == IF i \in Tx THEN TxHandled(u, i) ELSE BlockHandled(u, m, i)
<1>1. i # None /\ node' = [node EXCEPT ![n] = t] /\ drops' = drops
    BY DEF FinishItem
<1>2. NetOK(node, drops) /\ s \in NodeState(Peers(n)) /\ Caring(s)
    BY DEF Inv, NetOK
<1>3. Fine(s, t, Peers(n))
    BY <1>1, <1>2, HandledFine
<1> HIDE DEF t
<1>4. NetOK([node EXCEPT ![n] = t], drops)
    BY <1>2, <1>3, FineStep
<1> QED
    BY <1>1, <1>4 DEF Inv

LEMMA LocalKeeps ==
    ASSUME Inv, NEW n \in Node, AdvertiseLoop(n) \/ \E i \in Item : Originate(n, i)
    PROVE  Inv'
<1>1. NetOK(node, drops) /\ node[n] \in NodeState(Peers(n)) /\ Caring(node[n])
    BY DEF Inv, NetOK
<1>2. CASE AdvertiseLoop(n)
    <2> DEFINE t == Advertise(node[n])
    <2>1. node' = [node EXCEPT ![n] = t] /\ drops' = drops
        BY <1>2 DEF AdvertiseLoop
    <2>2. Fine(node[n], t, Peers(n))
        BY <1>1, AdvertiseFine
    <2> HIDE DEF t
    <2>3. NetOK([node EXCEPT ![n] = t], drops)
        BY <1>1, <2>2, FineStep
    <2> QED
        BY <2>1, <2>3 DEF Inv
<1>3. ASSUME NEW i \in Item, Originate(n, i) PROVE Inv'
    <2> DEFINE t == Broadcast(node[n], i)
    <2>1. node' = [node EXCEPT ![n] = t] /\ drops' = drops
        BY <1>3 DEF Originate
    <2>2. Fine(node[n], t, Peers(n))
        BY <1>1, BroadcastFine
    <2> HIDE DEF t
    <2>3. NetOK([node EXCEPT ![n] = t], drops)
        BY <1>1, <2>2, FineStep
    <2> QED
        BY <2>1, <2>3 DEF Inv
<1> QED
    BY <1>2, <1>3

\* One link's flags change, or the node learns blocks.
LEMMA FlagsFine ==
    ASSUME NEW P, NEW s \in NodeState(P), Caring(s), NEW m \in P, NEW K \in SUBSET Item,
           NEW l \in Link, l.state = s.link[m].state, l.requested = s.link[m].requested,
           l.to_us = s.link[m].to_us, l.handling = s.link[m].handling
    PROVE  Fine(s, [s EXCEPT !.known = s.known \cup K, !.link[m] = l], P)
<1> DEFINE u == [s EXCEPT !.link[m] = l]
           t == [s EXCEPT !.known = s.known \cup K, !.link[m] = l]
<1>1. /\ u \in NodeState(P) /\ u.known = s.known /\ u.failed = s.failed
      /\ u.processing = s.processing /\ u.to_fetch = s.to_fetch /\ u.out = s.out
      /\ u.link[m] = l /\ \A p \in P \ {m} : u.link[p] = s.link[p]
    BY LinkReplaced
<1>2. t = [u EXCEPT !.known = s.known \cup K]
    BY DEF NodeState
<1> HIDE DEF u, t
<1>3. /\ t \in NodeState(P) /\ t.known = s.known \cup K /\ t.failed = u.failed
      /\ t.processing = u.processing /\ t.to_fetch = u.to_fetch /\ t.out = u.out
      /\ t.link = u.link
    <2>1. s.known \cup K \in SUBSET Item
        BY DEF NodeState
    <2> QED
        BY <1>1, <1>2, <2>1 DEF NodeState
<1>4. \A p \in P :
          /\ t.link[p].state = s.link[p].state
          /\ t.link[p].requested = s.link[p].requested
          /\ t.link[p].to_us = s.link[p].to_us
          /\ t.link[p].handling = s.link[p].handling
    BY <1>1, <1>3
<1>5. \A p \in P : Grows(s.out[p], s.out[p])
    BY GrowsSelf
<1>6. Fine(s, t, P)
    BY <1>1, <1>3, <1>4, <1>5, QuietFine
<1> QED
    BY <1>6 DEF t

LEMMA HeardLink ==
    ASSUME NEW l \in Link, NEW behind \in BOOLEAN, NEW ahead
    PROVE  /\ Heard(l, behind, ahead) \in Link
           /\ Heard(l, behind, ahead).state = l.state
           /\ Heard(l, behind, ahead).requested = l.requested
           /\ Heard(l, behind, ahead).to_us = l.to_us
           /\ Heard(l, behind, ahead).handling = l.handling
<1> DEFINE b == l.syncing \/ ahead
<1>1. b \in BOOLEAN
    BY Zenon
<1>2. Heard(l, behind, ahead) = [l EXCEPT !.needs_us = behind, !.syncing = b]
    BY DEF Heard
<1> HIDE DEF b
<1> QED
    BY <1>1, <1>2 DEF Link

LEMMA SynopsisKeeps ==
    ASSUME Inv, NEW n \in Node, NEW m \in Peers(n), OnSynopsis(n, m)
    PROVE  Inv'
<1> DEFINE s == node[n]
           k == Heard(s.link[m], TRUE, Ahead(m, n))
           t == [s EXCEPT !.known = s.known \cup {}, !.link[m] = k]
<1>1. NetOK(node, drops) /\ s \in NodeState(Peers(n)) /\ Caring(s)
    BY DEF Inv, NetOK
<1>2. drops' = drops /\ node' = [node EXCEPT ![n].link[m] = k]
    BY DEF OnSynopsis
<1>3. s.link \in [Peers(n) -> Link] /\ s.link[m] \in Link
    BY <1>1 DEF NodeState
<1>4. node' = [node EXCEPT ![n] = t]
    <2> HIDE DEF k
    <2>1. node' = [node EXCEPT ![n] = [s EXCEPT !.link[m] = k]]
        BY <1>2
    <2>2. t = [s EXCEPT !.link[m] = k]
        BY <1>1 DEF NodeState
    <2> QED
        BY <2>1, <2>2
<1>5. /\ k \in Link /\ k.state = s.link[m].state /\ k.requested = s.link[m].requested
      /\ k.to_us = s.link[m].to_us /\ k.handling = s.link[m].handling
    BY <1>3, HeardLink
<1> HIDE DEF k
<1>6. Fine(s, t, Peers(n))
    BY <1>1, <1>5, FlagsFine
<1> HIDE DEF t
<1>7. NetOK([node EXCEPT ![n] = t], drops)
    BY <1>1, <1>6, FineStep DEF s
<1> QED
    BY <1>2, <1>4, <1>7 DEF Inv

LEMMA SyncedKeeps ==
    ASSUME Inv, NEW n \in Node, NEW m \in Peers(n), Synced(n, m)
    PROVE  Inv'
<1> DEFINE s == node[n]
           r == node[m]
           K == r.known \cap Block
           k == [s.link[m] EXCEPT !.syncing = FALSE]
           l == Heard(r.link[n], FALSE, Ahead(n, m))
           t == [s EXCEPT !.known = s.known \cup K, !.link[m] = k]
           v == [r EXCEPT !.known = r.known \cup {}, !.link[n] = l]
           M == [node EXCEPT ![n] = t]
<1>1. m \in Node /\ m # n /\ n \in Peers(m)
    BY PeersSymmetric
<1>2. /\ NetOK(node, drops) /\ s \in NodeState(Peers(n)) /\ Caring(s)
      /\ r \in NodeState(Peers(m)) /\ node = [x \in Node |-> node[x]]
    BY <1>1 DEF Inv, NetOK
<1>3. /\ drops' = drops
      /\ node' = [node EXCEPT ![n].known = @ \cup K, ![n].link[m].syncing = FALSE,
                              ![m].link[n] = l]
    BY DEF Synced
<1>4. /\ s.link \in [Peers(n) -> Link] /\ r.link \in [Peers(m) -> Link]
      /\ s.link[m] \in Link /\ r.link[n] \in Link /\ K \in SUBSET Item
    BY <1>1, <1>2 DEF NodeState
<1>5. /\ k \in Link /\ k.state = s.link[m].state /\ k.requested = s.link[m].requested
      /\ k.to_us = s.link[m].to_us /\ k.handling = s.link[m].handling
    BY <1>4 DEF Link
<1>6. /\ l \in Link /\ l.state = r.link[n].state /\ l.requested = r.link[n].requested
      /\ l.to_us = r.link[n].to_us /\ l.handling = r.link[n].handling
    BY <1>4, HeardLink
<1>7. node' = [M EXCEPT ![m] = v]
    <2>1. t = [s EXCEPT !.known = @ \cup K, !.link[m].syncing = FALSE]
        BY <1>1, <1>2, <1>4 DEF NodeState
    <2>2. v = [r EXCEPT !.link[n] = l]
        BY <1>1, <1>2, <1>4 DEF NodeState
    <2>3. node' = [node EXCEPT ![n] = [s EXCEPT !.known = @ \cup K, !.link[m].syncing = FALSE],
                               ![m] = [r EXCEPT !.link[n] = l]]
        <3> HIDE DEF l, K
        <3> QED
            BY <1>1, <1>2, <1>3, <1>4
    <2> HIDE DEF t, v, K, s, r, l
    <2> QED
        BY <1>1, <1>2, <2>1, <2>2, <2>3
<1> HIDE DEF k, l, K, s
<1>8. Fine(s, t, Peers(n))
    BY <1>2, <1>4, <1>5, FlagsFine
<1> HIDE DEF t
<1>9. NetOK(M, drops)
    BY <1>2, <1>8, FineStep DEF s
<1>10. M[m] = r
    BY <1>1, <1>2
<1> HIDE DEF M, r
<1>11. Caring(r)
    BY <1>1, <1>2 DEF NetOK, r
<1>12. Fine(r, v, Peers(m))
    BY <1>1, <1>2, <1>6, <1>11, FlagsFine
<1> HIDE DEF v
<1>13. NetOK([M EXCEPT ![m] = v], drops)
    BY <1>1, <1>9, <1>10, <1>12, FineStep
<1> QED
    BY <1>3, <1>7, <1>13 DEF Inv

\* The ways a connection ends: none is taken before a connection broke.
LEMMA EndKeeps ==
    ASSUME Inv, NEW n \in Node, NEW m \in Peers(n),
           Drop(n, m) \/ GiveUp(n, m) \/ ReaderEnds(n, m)
    PROVE  Inv'
<1> DEFINE s == node[n]
           eof == [type |-> "eof"]
<1>1. NetOK(node, drops) /\ s \in NodeState(Peers(n)) /\ Caring(s) /\ drops \in 0 .. MaxDrops
    BY DEF Inv, NetOK
<1>2. eof \in Message /\ eof.type \notin {"fetch", "item"}
    BY MessageType
<1>3. DOMAIN s.link = Peers(n)
    BY <1>1 DEF NodeState
<1> HIDE DEF eof
<1>4. CASE Drop(n, m)
    <2> DEFINE c == Closed(s, m)
               t == Send(c, m, eof)
    <2>1. /\ s.link[m].handling = None /\ drops < MaxDrops /\ drops' = drops + 1
          /\ node' = [node EXCEPT ![n] = t]
        BY <1>4 DEF Drop, eof
    <2>2. c \in NodeState(Peers(n)) /\ Caring(c) /\ Calm(s, c)
        BY <1>1, <2>1, ClosedCalm
    <2> HIDE DEF c
    <2>3. t \in NodeState(Peers(n)) /\ Caring(t) /\ Calm(s, t)
        BY <1>1, <1>2, <2>2, QueueCalm
    <2>4. drops + 1 \in 0 .. MaxDrops /\ drops + 1 # 0
        BY <1>1, <2>1, DropsAssumption
    <2> HIDE DEF t
    <2>5. NetOK([node EXCEPT ![n] = t], drops + 1)
        BY <1>1, <2>3, <2>4, CalmKeeps
    <2> QED
        BY <2>1, <2>5 DEF Inv
<1>5. CASE GiveUp(n, m)
    <2> DEFINE c == [s EXCEPT !.link[m].state = "terminating"]
               t == Send(c, m, eof)
    <2>1. s.link[m].state # "closing"
        BY <1>1, <1>3 DEF Caring
    <2>2. /\ s.link[m].state = "active" /\ drops < MaxDrops /\ drops' = drops + 1
          /\ node' = [node EXCEPT ![n] = t]
        BY <1>5, <2>1 DEF GiveUp, eof
    <2>3. c \in NodeState(Peers(n)) /\ Caring(c) /\ Calm(s, c)
        <3>1. s.link[m].state # "gone"
            BY <2>2
        <3> QED
            BY <1>1, <3>1, TerminatingCalm
    <2> HIDE DEF c
    <2>4. t \in NodeState(Peers(n)) /\ Caring(t) /\ Calm(s, t)
        BY <1>1, <1>2, <2>3, QueueCalm
    <2>5. drops + 1 \in 0 .. MaxDrops /\ drops + 1 # 0
        BY <1>1, <2>2, DropsAssumption
    <2> HIDE DEF t
    <2>6. NetOK([node EXCEPT ![n] = t], drops + 1)
        BY <1>1, <2>4, <2>5, CalmKeeps
    <2> QED
        BY <2>2, <2>6 DEF Inv
<1>6. CASE ReaderEnds(n, m)
    <2> DEFINE t == Closed(s, m)
    <2>1. /\ s.link[m].state = "terminating" /\ s.link[m].handling = None /\ drops' = drops
          /\ node' = [node EXCEPT ![n] = t]
        BY <1>6 DEF ReaderEnds
    <2>2. t \in NodeState(Peers(n)) /\ Caring(t) /\ Calm(s, t)
        BY <1>1, <2>1, ClosedCalm
    <2>3. drops # 0
        BY <1>1, <1>3, <2>1 DEF NetOK, Undisturbed
    <2> HIDE DEF t
    <2>4. NetOK([node EXCEPT ![n] = t], drops)
        BY <1>1, <2>2, <2>3, CalmKeeps
    <2> QED
        BY <2>1, <2>4 DEF Inv
<1> QED
    BY <1>4, <1>5, <1>6

\* A connection that was gone owed nothing, and a fresh one does not either.
LEMMA FreshCaring ==
    ASSUME NEW P, NEW s \in NodeState(P), Caring(s), NEW m \in P, s.link[m].state = "gone"
    PROVE  /\ [s EXCEPT !.link[m] = Fresh] \in NodeState(P)
           /\ Caring([s EXCEPT !.link[m] = Fresh])
           /\ [s EXCEPT !.link[m] = Fresh].link[m] = Fresh
           /\ [s EXCEPT !.link[m] = Fresh].out = s.out
           /\ \A p \in P \ {m} : [s EXCEPT !.link[m] = Fresh].link[p] = s.link[p]
<1> DEFINE t == [s EXCEPT !.link[m] = Fresh]
<1>1. /\ t \in NodeState(P) /\ t.known = s.known /\ t.failed = s.failed
      /\ t.processing = s.processing /\ t.to_fetch = s.to_fetch /\ t.out = s.out
      /\ t.link[m] = Fresh /\ \A p \in P \ {m} : t.link[p] = s.link[p]
    BY LinkTypes, LinkReplaced
<1> HIDE DEF t
<1>2. DOMAIN s.link = P /\ DOMAIN t.link = P /\ s.link \in [P -> Link]
    BY <1>1 DEF NodeState
<1>3. s.link[m].requested = {} /\ s.link[m].handling = None
    BY <1>2 DEF Caring
<1>4. None \notin Item
    BY ItemAssumption DEF Item
<1>5. \A x \in Item : Cared(s, x) => Cared(t, x)
    BY <1>1, <1>2, <1>3, <1>4 DEF Cared
<1>6. ASSUME NEW p \in Active(t), NEW x \in t.link[p].to_us PROVE Cared(t, x)
    <2>1. p \in P /\ p # m
        BY <1>1, <1>2, LinkTypes DEF Active
    <2>2. t.link[p] = s.link[p] /\ p \in Active(s)
        BY <1>1, <1>2, <2>1 DEF Active
    <2>3. x \in Item
        BY <1>2, <2>1, <2>2 DEF Link
    <2> QED
        BY <1>5, <2>2, <2>3 DEF Caring
<1>7. ASSUME NEW p \in P
      PROVE  /\ t.link[p].handling \in Item \ Tx =>
                    t.link[p].handling \in t.processing \cup t.known
             /\ t.link[p].state = "gone" => t.link[p].requested = {} /\ t.link[p].handling = None
             /\ \A i, j \in t.link[p].requested : i = j
             /\ t.link[p].state # "closing"
    <2>1. CASE p = m
        BY <1>1, <1>4, <2>1, LinkTypes
    <2>2. CASE p # m
        <3>1. t.link[p] = s.link[p]
            BY <1>1, <2>2
        <3> QED
            BY <1>1, <1>2, <3>1 DEF Caring
    <2> QED
        BY <2>1, <2>2
<1>8. Caring(t)
    BY <1>2, <1>6, <1>7 DEF Caring
<1> QED
    BY <1>1, <1>8 DEF t

LEMMA CalmSelf ==
    ASSUME NEW s PROVE Calm(s, s)
BY GrowsSelf DEF Calm

\* Both queues are emptied before either side is up again.
LEMMA ReconnectKeeps ==
    ASSUME Inv, NEW n \in Node, NEW m \in Peers(n), Reconnect(n, m)
    PROVE  Inv'
<1> DEFINE s == node[n]
           r == node[m]
           P == Peers(n)
           Q == Peers(m)
           t == [s EXCEPT !.out[m] = <<>>]
           w == [r EXCEPT !.out[n] = <<>>]
           v == [w EXCEPT !.link[n] = Fresh]
           u == [t EXCEPT !.link[m] = Fresh]
           N1 == [node EXCEPT ![n] = t]
           N2 == [N1 EXCEPT ![m] = w]
           N3 == [N2 EXCEPT ![m] = v]
           N4 == [N3 EXCEPT ![n] = u]
           eof == [type |-> "eof"]
<1>1. m \in Node /\ m # n /\ n \in Q /\ m \in P
    BY PeersSymmetric
<1>2. /\ NetOK(node, drops) /\ s \in NodeState(P) /\ Caring(s) /\ drops \in 0 .. MaxDrops
      /\ r \in NodeState(Q) /\ Caring(r) /\ node = [x \in Node |-> node[x]]
    BY <1>1 DEF Inv, NetOK
<1>3. /\ s.link[m].state = "gone" /\ r.link[n].state = "gone" /\ drops' = drops
      /\ node' = [node EXCEPT ![n] = [@ EXCEPT !.link[m] = Fresh, !.out[m] = <<>>],
                              ![m] = [@ EXCEPT !.link[n] = Fresh, !.out[n] = <<>>]]
    BY DEF Reconnect
<1>4. drops # 0
    BY <1>1, <1>2, <1>3 DEF NetOK, Undisturbed, NodeState
<1>5. eof \in Message /\ eof.type \notin {"fetch", "item"} /\ <<>> \in Seq(Message)
    BY MessageType
<1>6. /\ t \in NodeState(P) /\ Caring(t) /\ Calm(s, t) /\ t.out[m] = <<>> /\ t.link = s.link
    <2>1. t \in NodeState(P) /\ Caring(t) /\ Calm(s, t)
        BY <1>1, <1>2, <1>5, CalmSelf, QueueCalm
    <2>2. t.out[m] = <<>> /\ t.link = s.link
        BY <1>1, <1>2 DEF NodeState
    <2> QED
        BY <2>1, <2>2
<1>7. /\ w \in NodeState(Q) /\ Caring(w) /\ Calm(r, w) /\ w.out[n] = <<>> /\ w.link = r.link
    <2>1. w \in NodeState(Q) /\ Caring(w) /\ Calm(r, w)
        BY <1>1, <1>2, <1>5, CalmSelf, QueueCalm
    <2>2. w.out[n] = <<>> /\ w.link = r.link
        BY <1>1, <1>2 DEF NodeState
    <2> QED
        BY <2>1, <2>2
<1>8. /\ N1[m] = r /\ N2[n] = t /\ N2[m] = w /\ N3[n] = t /\ N3[m] = v
      /\ node' = N4
    <2>1. node' = [node EXCEPT ![n] = [s EXCEPT !.link[m] = Fresh, !.out[m] = <<>>],
                               ![m] = [r EXCEPT !.link[n] = Fresh, !.out[n] = <<>>]]
        BY <1>1, <1>2, <1>3
    <2>2. [s EXCEPT !.link[m] = Fresh, !.out[m] = <<>>] = u
        BY <1>1, <1>2 DEF NodeState
    <2>3. [r EXCEPT !.link[n] = Fresh, !.out[n] = <<>>] = v
        BY <1>1, <1>2 DEF NodeState
    <2> HIDE DEF s, r, t, u, v, w
    <2>4. N1[m] = r /\ N2[n] = t /\ N2[m] = w /\ N3[n] = t /\ N3[m] = v
        BY <1>1, <1>2 DEF s, r
    <2>5. node' = N4
        BY <1>1, <1>2, <2>1, <2>2, <2>3
    <2> QED
        BY <2>4, <2>5
<1>9. t.link[m].state = "gone" /\ w.link[n].state = "gone"
    BY <1>3, <1>6, <1>7
<1> HIDE DEF t, w, P, Q
<1>10. /\ u \in NodeState(P) /\ Caring(u) /\ u.link[m] = Fresh /\ u.out = t.out
       /\ \A p \in P \ {m} : u.link[p] = t.link[p]
    <2>1. t \in NodeState(P) /\ Caring(t) /\ m \in P /\ t.link[m].state = "gone"
        BY <1>1, <1>6, <1>9
    <2> QED
        BY <2>1, FreshCaring
<1>11. /\ v \in NodeState(Q) /\ Caring(v) /\ v.link[n] = Fresh /\ v.out = w.out
       /\ \A p \in Q \ {n} : v.link[p] = w.link[p]
    <2>1. w \in NodeState(Q) /\ Caring(w) /\ n \in Q /\ w.link[n].state = "gone"
        BY <1>1, <1>7, <1>9
    <2> QED
        BY <2>1, FreshCaring
<1> HIDE DEF u, v
<1>12. NetOK(N1, drops)
    BY <1>2, <1>4, <1>6, CalmKeeps DEF P
<1>13. NetOK(N2, drops)
    <2> HIDE DEF N1
    <2> QED
        BY <1>1, <1>2, <1>4, <1>7, <1>8, <1>12, CalmKeeps DEF Q
<1> HIDE DEF s, r, N1, N2
<1>14. \A S : /\ OneIn(<<>>, "fetch", S) /\ OneIn(<<>>, "item", S)
              /\ NoneIn(<<>>, "fetch") /\ NoneIn(<<>>, "item")
    BY DEF OneIn, NoneIn
<1>15. NetOK(N3, drops)
    <2>1. ASSUME NEW p \in Q
          PROVE  /\ Talk(v.link[p], v.out[p], N2[p].out[m])
                 /\ Talk(N2[p].link[m], N2[p].out[m], v.out[p])
        <3>1. p \in Node /\ m \in Peers(p) /\ p \in Peers(m)
            BY <1>1, PeersSymmetric DEF Q
        <3>2. CASE p = n
            BY <1>6, <1>7, <1>8, <1>9, <1>11, <1>14, <3>2 DEF Talk
        <3>3. CASE p # n
            <4>1. v.link[p] = N2[m].link[p] /\ v.out[p] = N2[m].out[p]
                BY <1>8, <1>11, <3>3
            <4> QED
                BY <1>1, <1>13, <3>1, <4>1 DEF NetOK
        <3> QED
            BY <3>2, <3>3
    <2> QED
        BY <1>1, <1>2, <1>4, <1>11, <1>13, <2>1, UpdateKeeps DEF Q
<1> HIDE DEF N3
<1>16. NetOK(N4, drops)
    <2>1. ASSUME NEW p \in P
          PROVE  /\ Talk(u.link[p], u.out[p], N3[p].out[n])
                 /\ Talk(N3[p].link[n], N3[p].out[n], u.out[p])
        <3>1. p \in Node /\ n \in Peers(p) /\ p \in Peers(n)
            BY PeersSymmetric DEF P
        <3>2. CASE p = m
            BY <1>6, <1>7, <1>8, <1>10, <1>11, <1>14, <3>2 DEF Talk
        <3>3. CASE p # m
            <4>1. u.link[p] = N3[n].link[p] /\ u.out[p] = N3[n].out[p]
                BY <1>8, <1>10, <3>3
            <4> QED
                BY <1>15, <3>1, <4>1 DEF NetOK
        <3> QED
            BY <3>2, <3>3
    <2> QED
        BY <1>2, <1>4, <1>10, <1>15, <2>1, UpdateKeeps DEF P
<1> QED
    BY <1>3, <1>8, <1>16 DEF Inv

---------------------------------------------------------------------------
(* The theorems.                                                           *)

LEMMA InitInv == Init => Inv
<1> SUFFICES ASSUME Init PROVE Inv
    OBVIOUS
<1> DEFINE start(n) ==
        [known |-> {}, failed |-> {}, new |-> {}, to_fetch |-> <<>>,
         processing |-> {}, fetch_due |-> FALSE,
         link |-> [m \in Peers(n) |-> InSync], out |-> [m \in Peers(n) |-> <<>>]]
<1>1. node = [n \in Node |-> start(n)] /\ drops = 0
    BY DEF Init
<1>2. <<>> \in List /\ DOMAIN <<>> = {}
    BY DEF List
<1>3. InSync \in Link
    BY LinkTypes
<1>4. \A n \in Node : start(n) \in NodeState(Peers(n))
    BY <1>2, <1>3 DEF NodeState
<1>5. /\ InSync.state = "active" /\ InSync.requested = {} /\ InSync.handling = None
      /\ InSync.to_us = {}
    BY DEF InSync
<1>6. None \notin Item
    BY ItemAssumption DEF Item
<1>7. ASSUME NEW n \in Node
      PROVE  /\ node[n] = start(n) /\ node[n].link = [m \in Peers(n) |-> InSync]
             /\ node[n].out = [m \in Peers(n) |-> <<>>] /\ node[n].to_fetch = <<>>
    BY <1>1
<1> HIDE DEF start
<1>8. ASSUME NEW n \in Node PROVE Caring(node[n]) /\ Undisturbed(node[n])
    <2>0. /\ node[n].link = [m \in Peers(n) |-> InSync]
          /\ node[n].out = [m \in Peers(n) |-> <<>>] /\ node[n].to_fetch = <<>>
        BY <1>7
    <2>1. /\ DOMAIN node[n].link = Peers(n) /\ DOMAIN node[n].to_fetch = {}
          /\ \A m \in Peers(n) : node[n].link[m] = InSync /\ node[n].out[m] = <<>>
        BY <1>2, <2>0
    <2>2. Active(node[n]) \subseteq Peers(n)
        BY <2>1 DEF Active
    <2>3. Caring(node[n])
        BY <1>5, <1>6, <2>1, <2>2 DEF Caring
    <2>4. \A x : NoneIn(<<>>, x)
        BY DEF NoneIn
    <2> QED
        BY <1>5, <2>1, <2>3, <2>4 DEF Undisturbed
<1>9. ASSUME NEW n \in Node, NEW m \in Peers(n)
      PROVE  Talk(node[n].link[m], node[n].out[m], node[m].out[n])
    <2>1. m \in Node /\ n \in Peers(m)
        BY PeersSymmetric
    <2>2. node[n].out[m] = <<>> /\ node[m].out[n] = <<>>
        BY <1>7, <2>1
    <2>3. \A x, S : NoneIn(<<>>, x) /\ OneIn(<<>>, x, S)
        BY DEF NoneIn, OneIn
    <2> QED
        BY <2>2, <2>3 DEF Talk
<1>10. drops \in 0 .. MaxDrops
    BY <1>1, DropsAssumption
<1> QED
    BY <1>1, <1>4, <1>7, <1>8, <1>9, <1>10 DEF Inv, NetOK

LEMMA NextInv == Inv /\ [Next]_vars => Inv'
<1> SUFFICES ASSUME Inv, [Next]_vars PROVE Inv'
    OBVIOUS
<1>1. CASE UNCHANGED vars
    BY <1>1 DEF vars, Inv
<1>2. ASSUME NEW n \in Node, FetchLoop(n) PROVE Inv'
    BY <1>2, FetchLoopKeeps
<1>3. ASSUME NEW n \in Node, AdvertiseLoop(n) \/ \E i \in Item : Originate(n, i) PROVE Inv'
    BY <1>3, LocalKeeps
<1>4. ASSUME NEW n \in Node, NEW m \in Peers(n), Receive(n, m) PROVE Inv'
    BY <1>4, ReceiveKeeps
<1>5. ASSUME NEW n \in Node, NEW m \in Peers(n), FinishItem(n, m) PROVE Inv'
    BY <1>5, FinishItemKeeps
<1>6. ASSUME NEW n \in Node, NEW m \in Peers(n), Synced(n, m) PROVE Inv'
    BY <1>6, SyncedKeeps
<1>9. ASSUME NEW n \in Node, NEW m \in Peers(n), OnSynopsis(n, m) PROVE Inv'
    BY <1>9, SynopsisKeeps
<1>7. ASSUME NEW n \in Node, NEW m \in Peers(n), Drop(n, m) \/ GiveUp(n, m) \/ ReaderEnds(n, m)
      PROVE  Inv'
    BY <1>7, EndKeeps
<1>8. ASSUME NEW n \in Node, NEW m \in Peers(n), Reconnect(n, m) PROVE Inv'
    BY <1>8, ReconnectKeeps
<1> QED
    BY <1>1, <1>2, <1>3, <1>4, <1>5, <1>6, <1>7, <1>8, <1>9 DEF Next

LEMMA InvLost == Inv => NoLostItem
<1> SUFFICES ASSUME Inv, NEW n \in Node, NEW m \in Active(node[n]), NEW i \in node[n].link[m].to_us
             PROVE  i \in node[n].known \cup node[n].failed \cup node[n].processing
                          \cup DOMAIN node[n].to_fetch \cup Requested(n) \cup Handling(n)
    BY DEF NoLostItem
<1>1. /\ node[n].link \in [Peers(n) -> Link] /\ DOMAIN node[n].link = Peers(n)
      /\ m \in Peers(n) /\ Caring(node[n])
    BY DEF Inv, NetOK, NodeState, Active
<1>2. Cared(node[n], i) /\ i # None
    <2>1. node[n].link[m] \in Link
        BY <1>1
    <2> QED
        BY <1>1, <2>1, ItemAssumption DEF Caring, Link, Item
<1> QED
    BY <1>1, <1>2 DEF Cared, Requested, Handling

LEMMA InvRequested == Inv => RequestedOnce
<1> SUFFICES ASSUME Inv PROVE RequestedOnce
    OBVIOUS
<1>1. \A n \in Node : /\ node[n] \in NodeState(Peers(n)) /\ Caring(node[n])
                      /\ DOMAIN node[n].link = Peers(n) /\ node[n].link \in [Peers(n) -> Link]
                      /\ node[n].out \in [Peers(n) -> Seq(Message)]
    BY DEF Inv, NetOK, NodeState
<1>2. \A e \in Pairs : e[1] \in Node /\ e[2] \in Peers(e[1])
    BY DEF Pairs, Peers
<1>3. TypeOK
    <2>1. drops \in 0 .. MaxDrops
        BY DEF Inv, NetOK
    <2>2. ASSUME NEW n \in Node
          PROVE  /\ node[n].known \cup node[n].failed \cup node[n].new
                        \cup node[n].processing \subseteq Item
                 /\ DOMAIN node[n].to_fetch \subseteq Item
                 /\ Range(node[n].to_fetch) \subseteq Nat
                 /\ node[n].fetch_due \in BOOLEAN
        <3>1. node[n].to_fetch \in List /\ node[n].fetch_due \in BOOLEAN
            BY <1>1 DEF NodeState
        <3>2. /\ DOMAIN node[n].to_fetch \subseteq Item
              /\ node[n].to_fetch \in [DOMAIN node[n].to_fetch -> Nat]
            BY <3>1, ListType
        <3>3. Range(node[n].to_fetch) \subseteq Nat
            BY <3>2 DEF Range
        <3>4. /\ node[n].known \subseteq Item /\ node[n].failed \subseteq Item
              /\ node[n].new \subseteq Item /\ node[n].processing \subseteq Item
            BY <1>1 DEF NodeState
        <3> QED
            BY <3>1, <3>2, <3>3, <3>4
    <2>3. \A e \in Pairs : node[e[1]].out[e[2]] \in Seq(Message) /\ L(e) \in Link
        BY <1>1, <1>2 DEF L
    <2> QED
        BY <2>1, <2>2, <2>3 DEF TypeOK
<1>4. \A e \in Pairs : L(e).state # "closing"
    BY <1>1, <1>2 DEF L, Caring
<1>5. ASSUME NEW e \in Pairs PROVE Cardinality(L(e).requested) <= 1
    <2>1. \A i, j \in L(e).requested : i = j
        BY <1>1, <1>2 DEF L, Caring
    <2>2. CASE L(e).requested = {}
        BY <2>2, FS_EmptySet
    <2>3. CASE L(e).requested # {}
        <3>1. PICK i : L(e).requested = {i}
            BY <2>1, <2>3
        <3>2. Cardinality(L(e).requested) = 1
            BY <3>1, FS_Singleton
        <3> QED
            BY <3>2
    <2> QED
        BY <2>2, <2>3
<1>6. ASSUME drops = 0, NEW n \in Node
      PROVE  /\ DOMAIN node[n].to_fetch \cap Requested(n) = {}
             /\ \A m, p \in Peers(n) :
                   m # p => node[n].link[m].requested \cap node[n].link[p].requested = {}
    <2>1. Undisturbed(node[n])
        BY <1>6 DEF Inv, NetOK
    <2> QED
        BY <1>1, <2>1 DEF Undisturbed, Requested
<1> QED
    BY <1>3, <1>4, <1>5, <1>6 DEF RequestedOnce

\* Whatever peers offer, in whichever order messages, the delegate and the
\* loops run, and however often connections break and are made again: an id
\* that on_item_ids_inventory_message notes as offered is not lost by
\* fetch_items_loop, process_ordinary_message, process_block_message or
\* on_connection_closed, for any number of nodes and items.
THEOREM NothingForgotten == Spec => []NoLostItem
<1>1. Inv /\ [Next]_vars => Inv'
    BY NextInv
<1> QED
    BY InitInv, InvLost, <1>1, PTL DEF Spec

\* No node asks a peer for two items at a time or hears an item it did not
\* ask for, so that process_ordinary_message and process_block_message never
\* disconnect an honest peer; until a connection breaks, fetch_items_loop
\* has each item open with one peer and off its list.
THEOREM AskedOnce == Spec => []RequestedOnce
<1>1. Inv /\ [Next]_vars => Inv'
    BY NextInv
<1> QED
    BY InitInv, InvRequested, <1>1, PTL DEF Spec

=============================================================================
