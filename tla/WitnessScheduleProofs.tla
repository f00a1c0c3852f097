----------------------- MODULE WitnessScheduleProofs -----------------------
(***************************************************************************)
(* Proofs about the schedule of witnesses: all that the runs check of it,  *)
(* for any number of witnesses, any votes and any width of the counters.   *)
(*                                                                         *)
(* The invariant is ScheduleInv.  It adds one thing to what the runs       *)
(* check: a witness is within its lap not only now but at the time it is   *)
(* due (Racing).  Without it nothing bounds the position of a witness that *)
(* is passed over when the virtual time moves on, since only those         *)
(* processed start a new lap; with it, and because everyone who is not     *)
(* processed is due at or after the new virtual time (ProcessedFirst), the *)
(* race goes on.                                                           *)
(***************************************************************************)
EXTENDS WitnessSchedule, SumProofs

-----------------------------------------------------------------------------
(* The virtual race.                                                       *)

\* A witness in the race at the time t: it was last updated before, is due
\* after, and is within its lap when it is due.
Racing(x, t) ==
    /\ x.update =< t /\ t =< x.time
    /\ x.position + x.votes * (x.time - x.update) =< Lap2

InRace(ws, t) ==
    ws \in [Witness -> WitnessObject] /\ \A w \in Witness : Racing(ws[w], t)

\* Word is the number of values of a counter, of which Lap2 is the greatest.
LEMMA WordType ==
  /\ Word \in Nat /\ Word > 1 /\ Lap2 \in Nat /\ Lap2 = Word - 1
  /\ Lap \in Nat /\ Lap <= Lap2 /\ MaxVote \in Nat /\ MaxWitnesses \in Nat
BY ScheduleAssumption DEF Lap2

\* A part of a lap run at the speed of the votes is not more than the lap.
LEMMA LapPart ==
  ASSUME NEW l \in Nat, NEW v \in Nat
  PROVE  l \div (v + 1) \in Nat /\ l \div (v + 1) <= l /\ v * (l \div (v + 1)) <= l
<1> DEFINE q == l \div (v + 1)
<1>1. q \in Nat /\ (v + 1) * q <= l
  BY Division
<1> HIDE DEF q
<1>2. v * q \in Nat /\ (v + 1) * q = v * q + q
  BY <1>1, Products
<1> QED BY <1>1, <1>2 DEF q

\* Running for longer brings a witness further.
LEMMA RunsOn ==
  ASSUME NEW v \in Nat, NEW s \in Nat, NEW t \in Nat, s <= t
  PROVE  v * s \in Nat /\ v * t \in Nat /\ v * s <= v * t
<1>1. s * v <= t * v /\ s * v \in Nat /\ t * v \in Nat
  BY ProductGrows, Products
<1> QED BY <1>1

\* A witness at another place in the race.
LEMMA PlacedType ==
  ASSUME NEW x \in WitnessObject, NEW p \in 0..Lap2, NEW u \in 0..Lap2, NEW t \in 0..Lap2
  PROVE  Placed(x, p, u, t) \in WitnessObject
BY DEF WitnessObject, Placed

LEMMA PlacedFields ==
  ASSUME NEW x \in WitnessObject, NEW p, NEW u, NEW t
  PROVE  /\ Placed(x, p, u, t).position = p /\ Placed(x, p, u, t).update = u
         /\ Placed(x, p, u, t).time = t /\ Placed(x, p, u, t).votes = x.votes
         /\ Placed(x, p, u, t).missed = x.missed /\ Placed(x, p, u, t).fee = x.fee
         /\ Placed(x, p, u, t).hfVote = x.hfVote /\ Placed(x, p, u, t).key = x.key
BY DEF WitnessObject, Placed

\* The index by_schedule_time is in an order.
LEMMA TimeOrder ==
  ASSUME NEW ws \in [Witness -> WitnessObject],
         NEW u \in Witness, NEW v \in Witness, NEW w \in Witness
  PROVE  /\ ByScheduleTime(ws, u, v) /\ ByScheduleTime(ws, v, w) => ByScheduleTime(ws, u, w)
         /\ ~(ws[v].time <= ws[w].time) => ByScheduleTime(ws, w, v)
<1>1. u \in Nat /\ v \in Nat /\ w \in Nat
  BY ScheduleAssumption
<1>2. ws[u].time \in Nat /\ ws[v].time \in Nat /\ ws[w].time \in Nat
  BY WordType DEF WitnessObject
<1> QED BY <1>1, <1>2 DEF ByScheduleTime

\* Who is processed is due before who is not.
LEMMA ProcessedFirst ==
  ASSUME NEW ws \in [Witness -> WitnessObject], NEW E \in SUBSET Witness,
         NEW v \in Processed(ws, E), NEW w \in Witness \ Processed(ws, E)
  PROVE  ws[v].time <= ws[w].time
<1> SUFFICES ASSUME ~(ws[v].time <= ws[w].time) PROVE FALSE
  OBVIOUS
<1> DEFINE R == Running(ws) \ E
           Before(x) == {u \in R : ByScheduleTime(ws, u, x)}
<1>1. v \in Witness /\ R \in SUBSET Witness
  BY DEF Processed, Running
<1>2. Before(w) \subseteq Before(v)
  BY <1>1, TimeOrder
<1>3. IsFiniteSet(Before(v)) /\ IsFiniteSet(Before(w)) /\ IsFiniteSet(E)
  BY <1>1, ScheduleAssumption, FS_Subset
<1>4. Cardinality(Before(w)) <= Cardinality(Before(v))
  BY <1>2, <1>3, FS_Subset
<1>5. Cardinality(Before(v)) \in Nat /\ Cardinality(Before(w)) \in Nat /\ Cardinality(E) \in Nat
  BY <1>3, FS_CardinalityType
<1>6. /\ Cardinality(Before(v)) < MaxWitnesses - Cardinality(E)
      /\ ~(Cardinality(Before(w)) < MaxWitnesses - Cardinality(E))
  BY <1>1 DEF Processed
<1> HIDE DEF Before
<1> QED BY <1>4, <1>5, <1>6, WordType

\* The new virtual time is that of somebody who was due, and not after who
\* was not.
LEMMA TimeMoves ==
  ASSUME NEW ws, NEW t \in 0..Lap2, InRace(ws, t), t = sched.time, NEW E \in SUBSET Witness
  PROVE  LET now == VirtualTime(ws, Processed(ws, E))
         IN /\ now \in t..Lap2
            /\ \A w \in Witness \ Processed(ws, E) : now <= ws[w].time
<1> DEFINE P == Processed(ws, E)
           T == {ws[w].time : w \in P}
           now == VirtualTime(ws, P)
<1>1. ws \in [Witness -> WitnessObject] /\ P \in SUBSET Witness
  BY DEF InRace, Processed
<1>2. \A w \in Witness : ws[w].time \in t..Lap2
  <2> TAKE w \in Witness
  <2>1. ws[w].time \in 0..Lap2
    BY <1>1 DEF WitnessObject
  <2>2. t <= ws[w].time
    BY DEF InRace, Racing
  <2> QED BY <2>1, <2>2, WordType
<1>3. CASE P = {}
  BY <1>2, <1>3, WordType DEF VirtualTime
<1>4. CASE P # {}
  <2>1. T \in SUBSET Nat /\ T # {}
    BY <1>1, <1>2, <1>4, WordType
  <2>2. IsFiniteSet(T)
    <3>1. \A n \in T : n <= Lap2
      BY <1>1, <1>2
    <3> HIDE DEF T
    <3> QED BY <2>1, <3>1, WordType, FS_BoundedSetOfNaturals
  <2>3. now = Max(T)
    BY <1>4 DEF VirtualTime
  <2>4. Max(T) \in T
    BY <2>1, <2>2, MaxOf
  <2>5. PICK v \in P : now = ws[v].time
    BY <2>3, <2>4
  <2>6. now \in t..Lap2
    BY <1>1, <1>2, <2>5
  <2>7. \A w \in Witness \ P : now <= ws[w].time
    BY <1>1, <2>5, ProcessedFirst
  <2> QED BY <2>6, <2>7
<1> QED BY <1>3, <1>4

\* A new lap, when it fits in the counter, keeps everybody in the race.
LEMMA LapRaces ==
  ASSUME NEW ws, NEW t \in 0..Lap2, InRace(ws, t), t = sched.time, NEW E \in SUBSET Witness,
         LapFits(ws, Processed(ws, E), VirtualTime(ws, Processed(ws, E)))
  PROVE  InRace(NewLap(ws, Processed(ws, E), VirtualTime(ws, Processed(ws, E))),
                VirtualTime(ws, Processed(ws, E)))
<1> DEFINE P == Processed(ws, E)
           now == VirtualTime(ws, P)
<1>1. now \in t..Lap2 /\ \A w \in Witness \ P : now <= ws[w].time
  BY TimeMoves
<1>2. ws \in [Witness -> WitnessObject] /\ \A w \in P : Finish(ws, w, now) >= now
  BY DEF InRace, LapFits
<1> HIDE DEF now, P
<1>3. ASSUME NEW w \in Witness
      PROVE  /\ NewLap(ws, P, now)[w] \in WitnessObject
             /\ Racing(NewLap(ws, P, now)[w], now)
  <2> DEFINE x == ws[w]
             q == Lap \div (x.votes + 1)
             y == Placed(x, 0, now, Finish(ws, w, now))
  <2>1. x \in WitnessObject /\ x.votes \in Nat /\ x.update \in Nat /\ x.time \in Nat
    BY <1>2, WordType DEF WitnessObject
  <2>2. CASE w \in P
    <3>1. q \in Nat /\ q <= Lap /\ x.votes * q <= Lap
      BY <2>1, LapPart, WordType
    <3>2. Finish(ws, w, now) = (now + q) % Word
      BY DEF Finish
    <3> HIDE DEF q
    <3>3. (now + q) % Word \in 0..Lap2 /\ (now + q < Word => (now + q) % Word = now + q)
          /\ (now + q >= Word => (now + q) % Word = now + q - Word)
      BY <1>1, <3>1, WordType, Remainder
    <3>4. Finish(ws, w, now) = now + q /\ now + q \in 0..Lap2
      BY <1>1, <1>2, <2>2, <3>1, <3>2, <3>3, WordType
    <3>5. y \in WitnessObject /\ y.position = 0 /\ y.update = now /\ y.time = now + q /\ y.votes = x.votes
      <4> DEFINE f == Finish(ws, w, now)
      <4>1. now \in 0..Lap2 /\ 0 \in 0..Lap2 /\ f \in 0..Lap2
        BY <1>1, <3>4, WordType
      <4>2. y = Placed(x, 0, now, f)
        OBVIOUS
      <4> HIDE DEF x, y, f
      <4>3. y \in WitnessObject
        BY <2>1, <4>1, <4>2, PlacedType
      <4>4. y.position = 0 /\ y.update = now /\ y.time = f /\ y.votes = x.votes
        BY <2>1, <4>2, PlacedFields
      <4> QED BY <3>4, <4>3, <4>4 DEF f
    <3>6. NewLap(ws, P, now)[w] = y
      BY <2>2 DEF NewLap
    <3> HIDE DEF y
    <3>7. y.time - y.update = q
      BY <1>1, <3>1, <3>5
    <3>8. x.votes * q \in Nat
      BY <2>1, <3>1, Products
    <3>9. Racing(y, now)
      BY <1>1, <3>1, <3>5, <3>7, <3>8, WordType DEF Racing
    <3> QED BY <3>5, <3>6, <3>9
  <2>3. CASE w \notin P
    <3>1. NewLap(ws, P, now)[w] = x
      BY <2>3 DEF NewLap
    <3>2. Racing(x, t)
      BY DEF InRace
    <3> HIDE DEF x
    <3>3. Racing(x, now)
      <4>1. now <= x.time
        BY <1>1, <2>3 DEF x
      <4> QED BY <1>1, <2>1, <3>2, <4>1 DEF Racing
    <3> QED BY <2>1, <3>1, <3>3
  <2> QED BY <2>2, <2>3
<1>4. NewLap(ws, P, now) \in [Witness -> WitnessObject]
  <2>1. NewLap(ws, P, now) = [w \in Witness |-> NewLap(ws, P, now)[w]]
    BY DEF NewLap
  <2> HIDE DEF NewLap
  <2> QED BY <1>3, <2>1
<1>5. InRace(NewLap(ws, P, now), now)
  BY <1>3, <1>4 DEF InRace
<1> QED BY <1>5 DEF now, P

\* A race that starts again.
LEMMA ResetRaces ==
  ASSUME NEW ws \in [Witness -> WitnessObject]
  PROVE  InRace(ResetVirtualTime(ws), 0)
<1>1. ASSUME NEW w \in Witness
      PROVE  /\ ResetVirtualTime(ws)[w] \in WitnessObject
             /\ Racing(ResetVirtualTime(ws)[w], 0)
  <2> DEFINE x == ws[w]
             q == Lap2 \div (x.votes + 1)
             y == Placed(x, 0, 0, q)
  <2>1. x \in WitnessObject /\ x.votes \in Nat
    BY WordType DEF WitnessObject
  <2>2. q \in 0..Lap2 /\ x.votes * q <= Lap2
    <3> HIDE DEF x
    <3>1. q \in Nat /\ q <= Lap2 /\ x.votes * q <= Lap2
      BY <2>1, LapPart, WordType
    <3> QED BY <3>1, WordType
  <2>3. ResetVirtualTime(ws)[w] = y
    BY DEF ResetVirtualTime
  <2> HIDE DEF q
  <2>4. y \in WitnessObject /\ y.position = 0 /\ y.update = 0 /\ y.time = q /\ y.votes = x.votes
    <3>1. 0 \in 0..Lap2
      BY WordType
    <3>2. y = Placed(x, 0, 0, q)
      OBVIOUS
    <3> HIDE DEF x, y
    <3>3. y \in WitnessObject
      BY <2>1, <2>2, <3>1, <3>2, PlacedType
    <3>4. y.position = 0 /\ y.update = 0 /\ y.time = q /\ y.votes = x.votes
      BY <2>1, <3>2, PlacedFields
    <3> QED BY <3>3, <3>4
  <2> HIDE DEF y
  <2>5. y.time - y.update = q /\ x.votes * q \in Nat
    BY <2>1, <2>2, <2>4, WordType, Products
  <2>6. Racing(y, 0)
    BY <2>1, <2>2, <2>4, <2>5, WordType DEF Racing
  <2> QED BY <2>3, <2>4, <2>6
<1>2. ResetVirtualTime(ws) = [w \in Witness |-> ResetVirtualTime(ws)[w]]
  BY DEF ResetVirtualTime
<1> HIDE DEF ResetVirtualTime
<1> QED BY <1>1, <1>2 DEF InRace

\* A race does not ask for more than position, times and votes.
LEMMA SameRace ==
  ASSUME NEW ws, NEW t, InRace(ws, t), NEW xs \in [Witness -> WitnessObject],
         \A w \in Witness : /\ xs[w].position = ws[w].position /\ xs[w].update = ws[w].update
                            /\ xs[w].time = ws[w].time /\ xs[w].votes = ws[w].votes
  PROVE  InRace(xs, t)
BY DEF InRace, Racing

-----------------------------------------------------------------------------
(* The witnesses while a block is applied.                                 *)

\* What a block changes of a witness before the schedule is drawn: its slots
\* missed, its key, its reports and the block it confirmed.
Met(ws, xs) ==
    /\ xs \in [Witness -> WitnessObject]
    /\ \A w \in Witness : /\ xs[w].position = ws[w].position /\ xs[w].update = ws[w].update
                          /\ xs[w].time = ws[w].time /\ xs[w].votes = ws[w].votes

\* The fields of the objects that there is one of.
LEMMA FieldTypes ==
  ASSUME TypeOK
  PROVE  /\ sched.num \in Nat /\ sched.num > 0
         /\ sched.shuffled \in Seq(Witness) /\ sched.num = Len(sched.shuffled)
         /\ dgp.head \in Nat /\ dgp.time \in Nat /\ dgp.aslot \in Nat
<1>1. sched \in ScheduleObject /\ sched.num = Len(sched.shuffled)
  BY DEF TypeOK
<1>2. dgp \in [head : Nat, time : Nat, aslot : Nat, bits : [1..Window -> 0..1], count : Int]
  BY DEF TypeOK
<1>3. sched.num \in 1..MaxWitnesses /\ sched.shuffled \in Seq(Witness)
  BY <1>1 DEF ScheduleObject
<1>4. sched.num \in Nat /\ sched.num > 0
  BY <1>3, WordType
<1>5. dgp.head \in Nat /\ dgp.time \in Nat /\ dgp.aslot \in Nat
  BY <1>2
<1> QED BY <1>1, <1>3, <1>4, <1>5

\* The witness of a slot is a witness.
LEMMA SlotTaken ==
  ASSUME TypeOK, NEW n \in Nat
  PROVE  ScheduledWitness(n) \in Witness
<1>1. /\ sched.num \in Nat /\ sched.num > 0 /\ dgp.aslot \in Nat
      /\ sched.shuffled \in Seq(Witness) /\ sched.num = Len(sched.shuffled)
  BY FieldTypes
<1>2. (dgp.aslot + n) % sched.num \in 0..(sched.num - 1)
  BY <1>1, Remainder
<1> DEFINE k == (dgp.aslot + n) % sched.num
<1>3. ScheduledWitness(n) = sched.shuffled[k + 1]
  BY DEF ScheduledWitness
<1> HIDE DEF k
<1>4. k + 1 \in 1..Len(sched.shuffled)
  BY <1>1, <1>2 DEF k
<1> QED BY <1>1, <1>3, <1>4

\* The report in the header of a block.
LEMMA ToldMet ==
  ASSUME wit \in [Witness -> WitnessObject], NEW s \in Witness,
         NEW version \in Nat, NEW x \in Nat \X Nat
  PROVE  /\ Met(wit, Told(s, version, x))
         /\ \A w \in Witness : Told(s, version, x)[w].missed = wit[w].missed
<1> DEFINE y == [wit[s] EXCEPT !.version = version, !.hfVote = x]
<1>1. wit[s] \in WitnessObject
  OBVIOUS
<1>2. y \in WitnessObject
  BY <1>1 DEF WitnessObject
<1>3. /\ y.position = wit[s].position /\ y.update = wit[s].update /\ y.time = wit[s].time
      /\ y.votes = wit[s].votes /\ y.missed = wit[s].missed
  BY <1>1 DEF WitnessObject
<1>4. Told(s, version, x) = [wit EXCEPT ![s] = y]
  BY DEF Told
<1> HIDE DEF y
<1> QED BY <1>2, <1>3, <1>4 DEF Met

\* A witness that missed n slots.
LEMMA AbsentType ==
  ASSUME NEW x \in WitnessObject, NEW n \in Nat
  PROVE  Absent(x, n) \in WitnessObject
<1> DEFINE y == [x EXCEPT !.missed = x.missed + n]
           k == IF dgp.head - x.confirmed > BlocksPerDay THEN FALSE ELSE x.key
<1>1. y \in WitnessObject
  BY DEF WitnessObject
<1>2. k \in BOOLEAN
  BY Zenon DEF WitnessObject
<1>3. Absent(x, n) = [y EXCEPT !.key = k]
  BY DEF WitnessObject, Absent
<1> HIDE DEF y, k
<1>4. [y EXCEPT !.key = k] \in WitnessObject
  BY <1>1, <1>2 DEF WitnessObject
<1> QED BY <1>3, <1>4

LEMMA AbsentFields ==
  ASSUME NEW x \in WitnessObject, NEW n \in Nat
  PROVE  /\ Absent(x, n).position = x.position /\ Absent(x, n).update = x.update
         /\ Absent(x, n).time = x.time /\ Absent(x, n).votes = x.votes
         /\ Absent(x, n).missed = x.missed + n /\ Absent(x, n).hfVote = x.hfVote
BY DEF WitnessObject, Absent

\* Of the n slots before a block.
LEMMA MissedNat ==
  ASSUME NEW w, NEW n \in Nat, NEW s
  PROVE  Missed(w, n, s) \in Nat
<1> DEFINE I == {i \in 1..n : ScheduledWitness(i) = w}
<1>1. IsFiniteSet(I)
  <2>1. IsFiniteSet(1..n) /\ I \in SUBSET (1..n)
    BY FS_Interval
  <2> HIDE DEF I
  <2> QED BY <2>1, FS_Subset
<1>2. Cardinality(I) \in Nat
  BY <1>1, FS_CardinalityType
<1> QED BY <1>2 DEF Missed

LEMMA MissedMet ==
  ASSUME NEW ws \in [Witness -> WitnessObject], NEW n \in Nat, NEW s
  PROVE  /\ Met(ws, MissSlots(ws, n, s))
         /\ \A w \in Witness : /\ MissSlots(ws, n, s)[w].missed = ws[w].missed + Missed(w, n, s)
                               /\ MissSlots(ws, n, s)[w].hfVote = ws[w].hfVote
<1> DEFINE xs == MissSlots(ws, n, s)
<1>1. ASSUME NEW w \in Witness
      PROVE  /\ xs[w] \in WitnessObject
             /\ xs[w].position = ws[w].position /\ xs[w].update = ws[w].update
             /\ xs[w].time = ws[w].time /\ xs[w].votes = ws[w].votes
             /\ xs[w].missed = ws[w].missed + Missed(w, n, s) /\ xs[w].hfVote = ws[w].hfVote
  <2> DEFINE x == ws[w]
             m == Missed(w, n, s)
  <2>1. x \in WitnessObject /\ m \in Nat
    BY MissedNat
  <2>2. xs[w] = IF m = 0 THEN x ELSE Absent(x, m)
    BY DEF MissSlots
  <2>3. x.missed \in Nat
    BY <2>1 DEF WitnessObject
  <2> HIDE DEF x, m, xs
  <2>4. xs[w] \in WitnessObject
    BY <2>1, <2>2, AbsentType
  <2>5. /\ xs[w].position = x.position /\ xs[w].update = x.update
        /\ xs[w].time = x.time /\ xs[w].votes = x.votes
        /\ xs[w].missed = x.missed + m /\ xs[w].hfVote = x.hfVote
    <3>1. CASE m = 0
      BY <2>2, <2>3, <3>1
    <3>2. CASE m # 0
      <4>1. xs[w] = Absent(x, m)
        BY <2>2, <3>2
      <4> QED BY <2>1, <4>1, AbsentFields
    <3> QED BY <3>1, <3>2
  <2> QED BY <2>4, <2>5 DEF x, m
<1>2. xs = [w \in Witness |-> xs[w]]
  BY DEF MissSlots
<1> HIDE DEF xs
<1>3. xs \in [Witness -> WitnessObject]
  BY <1>1, <1>2
<1>4. Met(ws, xs)
  BY <1>1, <1>3 DEF Met
<1> QED BY <1>1, <1>4 DEF xs

\* The signer.
LEMMA SignedMet ==
  ASSUME NEW ws \in [Witness -> WitnessObject], NEW s \in Witness, NEW h \in Nat
  PROVE  /\ Met(ws, Signed(ws, s, h))
         /\ \A w \in Witness : /\ Signed(ws, s, h)[w].missed = ws[w].missed
                               /\ Signed(ws, s, h)[w].hfVote = ws[w].hfVote
<1> DEFINE y == [ws[s] EXCEPT !.confirmed = h]
<1>1. ws[s] \in WitnessObject
  OBVIOUS
<1>2. y \in WitnessObject
  BY <1>1 DEF WitnessObject
<1>3. /\ y.position = ws[s].position /\ y.update = ws[s].update /\ y.time = ws[s].time
      /\ y.votes = ws[s].votes /\ y.missed = ws[s].missed /\ y.hfVote = ws[s].hfVote
  BY <1>1 DEF WitnessObject
<1>4. Signed(ws, s, h) = [ws EXCEPT ![s] = y]
  BY DEF Signed
<1> HIDE DEF y
<1> QED BY <1>2, <1>3, <1>4 DEF Met
-----------------------------------------------------------------------------
(* Slots.                                                                  *)

\* The count is of the bits that are set.
Counted(d) ==
    /\ d.bits \in [1..Window -> 0..1] /\ d.count \in Int
    /\ d.count = SumFunctionOnSet(d.bits, 1..Window)

\* The last place adds its bit.
LEMMA LastPlace ==
  ASSUME NEW n \in Nat \ {0}, NEW f, \A k \in 1..n : f[k] \in Int
  PROVE  SumFunctionOnSet(f, 1..n) = SumFunctionOnSet(f, 1..(n - 1)) + f[n]
<1> DEFINE S == 1..n
<1>1. IsFiniteSet(S) /\ n \in S /\ S \ {n} = 1..(n - 1) /\ \A k \in S : f[k] \in Int
  BY FS_Interval
<1> HIDE DEF S
<1>2. SumFunctionOnSet(f, S) = SumFunctionOnSet(f, S \ {n}) + f[n]
  BY <1>1, SumAdd
<1> QED BY <1>1, <1>2 DEF S

\* Bits moved up by one place add up to the same.
LEMMA MovedUp ==
  ASSUME NEW n \in Nat \ {0}, NEW b \in [1..n -> 0..1], NEW c \in [1..n -> 0..1],
         \A k \in 2..n : c[k] = b[k - 1]
  PROVE  SumFunctionOnSet(c, 1..n) = c[1] + SumFunctionOnSet(b, 1..(n - 1))
<1> DEFINE Right(m) == SumFunctionOnSet(c, 1..m) = c[1] + SumFunctionOnSet(b, 1..(m - 1))
           S == {m \in 1..n : ~Right(m)}
<1>1. \A k \in 1..n : b[k] \in Int /\ c[k] \in Int
  OBVIOUS
<1>2. ASSUME NEW m \in 1..n
      PROVE  /\ SumFunctionOnSet(c, 1..m) = SumFunctionOnSet(c, 1..(m - 1)) + c[m]
             /\ m > 1 => SumFunctionOnSet(b, 1..(m - 1)) = SumFunctionOnSet(b, 1..(m - 2)) + b[m - 1]
             /\ SumFunctionOnSet(b, 1..(m - 1)) \in Int
             /\ SumFunctionOnSet(b, 1..(m - 2)) \in Int
             /\ SumFunctionOnSet(c, 1..(m - 1)) \in Int
  <2>1. /\ IsFiniteSet(1..m) /\ IsFiniteSet(1..(m - 1)) /\ IsFiniteSet(1..(m - 2))
    BY FS_Interval
  <2>2. m \in Nat \ {0} /\ (m > 1 => m - 1 \in Nat \ {0} /\ (m - 1) - 1 = m - 2)
    OBVIOUS
  <2>3. /\ \A k \in 1..m : c[k] \in Int
        /\ \A k \in 1..(m - 1) : b[k] \in Int /\ c[k] \in Int
        /\ \A k \in 1..(m - 2) : b[k] \in Int
    BY <1>1
  <2>4. SumFunctionOnSet(c, 1..m) = SumFunctionOnSet(c, 1..(m - 1)) + c[m]
    BY <2>2, <2>3, LastPlace
  <2>5. m > 1 => SumFunctionOnSet(b, 1..(m - 1)) = SumFunctionOnSet(b, 1..((m - 1) - 1)) + b[m - 1]
    BY <2>2, <2>3, LastPlace
  <2>6. /\ SumFunctionOnSet(b, 1..(m - 1)) \in Int /\ SumFunctionOnSet(b, 1..(m - 2)) \in Int
        /\ SumFunctionOnSet(c, 1..(m - 1)) \in Int
    BY <2>1, <2>3, SumType
  <2> QED BY <2>2, <2>4, <2>5, <2>6
<1>3. S = {}
  <2> SUFFICES ASSUME S # {} PROVE FALSE
    OBVIOUS
  <2>1. PICK m \in S : \A k \in S : m <= k
    <3>1. S \in SUBSET Nat
      OBVIOUS
    <3> HIDE DEF S
    <3> QED BY <3>1, LeastOf
  <2>2. m \in 1..n /\ ~Right(m)
    OBVIOUS
  <2>3. CASE m = 1
    <3>1. 1..(1 - 1) = {}
      OBVIOUS
    <3>2. SumFunctionOnSet(c, {}) = 0 /\ SumFunctionOnSet(b, {}) = 0
      BY SumEmpty
    <3>3. SumFunctionOnSet(c, 1..1) = 0 + c[1] /\ c[1] \in Int
      BY <1>1, <1>2, <2>2, <2>3, <3>1, <3>2
    <3> QED BY <2>2, <2>3, <3>1, <3>2, <3>3
  <2>4. CASE m # 1
    <3>1. m - 1 \in 1..n /\ m > 1 /\ m \in 2..n /\ ~(m <= m - 1)
      BY <2>2, <2>4
    <3>2. Right(m - 1)
      BY <2>1, <3>1
    <3>3. SumFunctionOnSet(c, 1..(m - 1)) = c[1] + SumFunctionOnSet(b, 1..(m - 2))
      BY <2>2, <3>2
    <3>4. c[m] = b[m - 1] /\ c[1] \in Int /\ c[m] \in Int
      BY <1>1, <3>1
    <3>5. /\ SumFunctionOnSet(c, 1..m) = SumFunctionOnSet(c, 1..(m - 1)) + c[m]
          /\ SumFunctionOnSet(b, 1..(m - 1)) = SumFunctionOnSet(b, 1..(m - 2)) + b[m - 1]
          /\ SumFunctionOnSet(b, 1..(m - 2)) \in Int
      BY <1>2, <2>2, <3>1
    <3>6. Right(m)
      BY <3>3, <3>4, <3>5
    <3> QED BY <2>2, <3>6
  <2> QED BY <2>3, <2>4
<1>4. n \in 1..n
  OBVIOUS
<1> QED BY <1>3, <1>4

\* Bits that are all set, and values that are all 0.
LEMMA AllSet ==
  ASSUME NEW n \in Nat \ {0}, NEW b, \A i \in 1..n : b[i] = 1
  PROVE  SumFunctionOnSet(b, 1..n) = n
<1> DEFINE S == {m \in Nat : m <= n /\ SumFunctionOnSet(b, 1..m) # m}
<1>1. S = {}
  <2> SUFFICES ASSUME S # {} PROVE FALSE
    OBVIOUS
  <2>1. PICK m \in S : \A k \in S : m <= k
    <3>1. S \in SUBSET Nat
      OBVIOUS
    <3> HIDE DEF S
    <3> QED BY <3>1, LeastOf
  <2>2. m \in Nat /\ m <= n /\ SumFunctionOnSet(b, 1..m) # m
    OBVIOUS
  <2>3. m # 0
    <3>1. 1..0 = {}
      OBVIOUS
    <3> QED BY <2>2, <3>1, SumEmpty
  <2>4. m - 1 \in Nat /\ m - 1 <= n /\ ~(m <= m - 1) /\ m \in Nat \ {0}
    BY <2>2, <2>3
  <2>5. SumFunctionOnSet(b, 1..(m - 1)) = m - 1
    BY <2>1, <2>4
  <2>6. \A k \in 1..m : b[k] \in Int
    BY <2>2
  <2>7. SumFunctionOnSet(b, 1..m) = SumFunctionOnSet(b, 1..(m - 1)) + b[m]
    BY <2>4, <2>6, LastPlace
  <2>8. b[m] = 1
    BY <2>2, <2>3
  <2> QED BY <2>2, <2>5, <2>7, <2>8
<1> QED BY <1>1

LEMMA NoneSet ==
  ASSUME NEW T, IsFiniteSet(T), NEW f, \A x \in T : f[x] = 0
  PROVE  SumFunctionOnSet(f, T) = 0
<1>1. \A x \in T : f[x] \in Int /\ f[x] = f[x] + f[x]
  OBVIOUS
<1>2. SumFunctionOnSet(f, T) = SumFunctionOnSet(f, T) + SumFunctionOnSet(f, T)
  BY <1>1, SumPlus
<1>3. SumFunctionOnSet(f, T) \in Int
  BY <1>1, SumType
<1> DEFINE n == SumFunctionOnSet(f, T)
<1> HIDE DEF n
<1>4. n \in Int /\ n = n + n
  BY <1>2, <1>3 DEF n
<1>5. n = 0
  BY <1>4
<1> QED BY <1>5 DEF n

\* One slot more, filled or not.
LEMMA ShiftCounts ==
  ASSUME NEW d, Counted(d), NEW f \in 0..1
  PROVE  Counted(Shift(d, f))
<1> DEFINE b == d.bits
           c == [k \in 1..Window |-> IF k = 1 THEN f ELSE d.bits[k - 1]]
           n == d.count - d.bits[Window] + f
<1>1. Window \in Nat \ {0}
  BY ScheduleAssumption
<1>2. b \in [1..Window -> 0..1] /\ d.count \in Int /\ d.count = SumFunctionOnSet(b, 1..Window)
  BY DEF Counted
<1>3. c \in [1..Window -> 0..1] /\ c[1] = f /\ \A k \in 2..Window : c[k] = b[k - 1]
  BY <1>1, <1>2
<1>4. Window \in 1..Window
  BY <1>1
<1>5. Shift(d, f) = [bits |-> c, count |-> n]
  BY DEF Shift
<1>6. n = d.count - b[Window] + f
  OBVIOUS
<1> HIDE DEF b, c, n
<1>7. SumFunctionOnSet(c, 1..Window) = f + SumFunctionOnSet(b, 1..(Window - 1))
  BY <1>1, <1>2, <1>3, MovedUp
<1>8. \A k \in 1..Window : b[k] \in Int
  BY <1>2
<1>9. SumFunctionOnSet(b, 1..Window) = SumFunctionOnSet(b, 1..(Window - 1)) + b[Window]
  BY <1>1, <1>8, LastPlace
<1>10. SumFunctionOnSet(b, 1..(Window - 1)) \in Int
  <2>1. IsFiniteSet(1..(Window - 1)) /\ \A k \in 1..(Window - 1) : b[k] \in Int
    BY <1>1, <1>8, FS_Interval
  <2> QED BY <2>1, SumType
<1>11. b[Window] \in Int
  BY <1>4, <1>8
<1>12. n \in Int /\ n = SumFunctionOnSet(c, 1..Window)
  BY <1>2, <1>6, <1>7, <1>9, <1>10, <1>11
<1> QED BY <1>3, <1>5, <1>12 DEF Counted

\* The loop over the slots is well defined: every round has a result.
Filling(d, n, f) ==
    f = [i \in 0..n |-> IF i = 0 THEN Shift(d, 1) ELSE Shift(f[i - 1], 0)]

LEMMA FillingExists ==
  ASSUME NEW d, NEW n \in Nat
  PROVE  \E f : Filling(d, n, f)
<1> DEFINE S == {k \in Nat : \A f : ~Filling(d, k, f)}
<1>1. S = {}
  <2> SUFFICES ASSUME S # {} PROVE FALSE
    OBVIOUS
  <2>1. PICK k \in S : \A j \in S : k <= j
    <3>1. S \in SUBSET Nat
      OBVIOUS
    <3> HIDE DEF S
    <3> QED BY <3>1, LeastOf
  <2>2. k \in Nat /\ \A f : ~Filling(d, k, f)
    OBVIOUS
  <2>3. CASE k = 0
    <3> DEFINE g == [i \in 0..k |-> Shift(d, 1)]
    <3>1. \A i \in 0..k : i = 0
      BY <2>3
    <3>2. g = [i \in 0..k |-> IF i = 0 THEN Shift(d, 1) ELSE Shift(g[i - 1], 0)]
      BY <3>1
    <3>3. Filling(d, k, g)
      BY <3>2 DEF Filling
    <3> QED BY <2>2, <3>3
  <2>4. CASE k # 0
    <3>1. k - 1 \in Nat /\ ~(k <= k - 1)
      BY <2>2, <2>4
    <3>2. PICK f : Filling(d, k - 1, f)
      BY <2>1, <3>1
    <3> DEFINE g == [i \in 0..k |-> IF i = k THEN Shift(f[k - 1], 0) ELSE f[i]]
    <3>3. \A i \in 0..(k - 1) : f[i] = IF i = 0 THEN Shift(d, 1) ELSE Shift(f[i - 1], 0)
      BY <3>2 DEF Filling
    <3>4. ASSUME NEW i \in 0..k
          PROVE  g[i] = IF i = 0 THEN Shift(d, 1) ELSE Shift(g[i - 1], 0)
      <4>1. CASE i = k
        <5>1. i # 0 /\ i - 1 \in 0..k /\ i - 1 # k
          BY <2>2, <2>4, <4>1
        <5>2. g[i] = Shift(f[k - 1], 0) /\ g[i - 1] = f[k - 1]
          BY <4>1, <5>1
        <5> QED BY <5>1, <5>2
      <4>2. CASE i # k
        <5>1. i \in 0..(k - 1) /\ g[i] = f[i]
          BY <2>2, <4>2
        <5>2. i # 0 => i - 1 \in 0..k /\ i - 1 # k
          BY <2>2, <4>2
        <5>3. i # 0 => g[i - 1] = f[i - 1]
          BY <5>2
        <5> QED BY <3>3, <5>1, <5>3
      <4> QED BY <4>1, <4>2
    <3>5. g = [i \in 0..k |-> g[i]]
      OBVIOUS
    <3> HIDE DEF g
    <3>6. g = [i \in 0..k |-> IF i = 0 THEN Shift(d, 1) ELSE Shift(g[i - 1], 0)]
      BY <3>4, <3>5
    <3>7. Filling(d, k, g)
      BY <3>6 DEF Filling
    <3> QED BY <2>2, <3>7
  <2> QED BY <2>3, <2>4
<1> QED BY <1>1

\* All the slots up to a block: the count stays that of the bits.
LEMMA FillCounts ==
  ASSUME NEW d, Counted(d), NEW n \in Nat
  PROVE  Counted(FillSlots(d, n))
<1> DEFINE f == CHOOSE f : Filling(d, n, f)
           S == {i \in 0..n : ~Counted(f[i])}
<1>1. FillSlots(d, n) = f[n]
  BY DEF FillSlots, Filling
<1>2. Filling(d, n, f)
  BY FillingExists
<1> HIDE DEF f
<1>3. \A i \in 0..n : f[i] = IF i = 0 THEN Shift(d, 1) ELSE Shift(f[i - 1], 0)
  BY <1>2 DEF Filling
<1>4. S = {}
  <2> SUFFICES ASSUME S # {} PROVE FALSE
    OBVIOUS
  <2>1. PICK i \in S : \A j \in S : i <= j
    <3>1. S \in SUBSET Nat
      OBVIOUS
    <3> HIDE DEF S
    <3> QED BY <3>1, LeastOf
  <2>2. i \in 0..n /\ ~Counted(f[i])
    OBVIOUS
  <2>3. CASE i = 0
    <3>1. f[i] = Shift(d, 1) /\ 1 \in 0..1
      BY <1>3, <2>2, <2>3
    <3>2. Counted(Shift(d, 1))
      BY <3>1, ShiftCounts
    <3> QED BY <2>2, <3>1, <3>2
  <2>4. CASE i # 0
    <3>1. i - 1 \in 0..n /\ ~(i <= i - 1)
      BY <2>2, <2>4
    <3>2. Counted(f[i - 1])
      BY <2>1, <3>1
    <3>3. f[i] = Shift(f[i - 1], 0) /\ 0 \in 0..1
      BY <1>3, <2>2, <2>4
    <3>4. Counted(Shift(f[i - 1], 0))
      BY <3>2, <3>3, ShiftCounts
    <3> QED BY <2>2, <3>3, <3>4
  <2> QED BY <2>3, <2>4
<1>5. n \in 0..n
  OBVIOUS
<1> QED BY <1>1, <1>4, <1>5
\* A slot is missed by nobody but its witness: all together miss no more than
\* there are slots.
LEMMA MissedBounded ==
  ASSUME NEW n \in Nat, NEW s
  PROVE  SumFunctionOnSet([w \in Witness |-> Missed(w, n, s)], Witness) <= n
<1> DEFINE m == [w \in Witness |-> Missed(w, n, s)]
           Slots(T) == {i \in 1..n : ScheduledWitness(i) \in T}
           F == {T \in SUBSET Witness : ~(SumFunctionOnSet(m, T) <= Cardinality(Slots(T)))}
<1>1. IsFiniteSet(Witness) /\ \A w \in Witness : m[w] = Missed(w, n, s) /\ m[w] \in Nat
  BY ScheduleAssumption, MissedNat
<1>2. \A T : /\ IsFiniteSet(Slots(T)) /\ Cardinality(Slots(T)) \in Nat
             /\ Cardinality(Slots(T)) <= n
  <2> TAKE T
  <2>1. IsFiniteSet(1..n) /\ Cardinality(1..n) = n
    BY FS_Interval
  <2>2. Slots(T) \in SUBSET (1..n)
    OBVIOUS
  <2> HIDE DEF Slots
  <2> QED BY <2>1, <2>2, FS_Subset, FS_CardinalityType
<1>3. F = {}
  <2> SUFFICES ASSUME F # {} PROVE FALSE
    OBVIOUS
  <2>1. PICK T \in F : IsFiniteSet(T) /\ \A x \in T : T \ {x} \notin F
    <3>1. F \in SUBSET (SUBSET Witness)
      OBVIOUS
    <3> HIDE DEF F
    <3> QED BY <1>1, <3>1, SmallestSubset
  <2>2. T \in SUBSET Witness /\ ~(SumFunctionOnSet(m, T) <= Cardinality(Slots(T)))
    OBVIOUS
  <2>3. T # {}
    <3>1. SumFunctionOnSet(m, {}) = 0
      BY SumEmpty
    <3>2. Cardinality(Slots({})) \in Nat
      BY <1>2
    <3> HIDE DEF m, Slots
    <3> QED BY <2>2, <3>1, <3>2
  <2>4. PICK x : x \in T
    BY <2>3
  <2> DEFINE U == T \ {x}
  <2>5. U \in SUBSET Witness /\ SumFunctionOnSet(m, U) <= Cardinality(Slots(U))
    BY <2>1, <2>2, <2>4
  <2>6. Slots(T) = Slots(U) \cup Slots({x}) /\ Slots(U) \cap Slots({x}) = {}
    BY <2>4
  <2>7. m[x] <= Cardinality(Slots({x}))
    <3>1. m[x] = IF x = s THEN 0 ELSE Cardinality({i \in 1..n : ScheduledWitness(i) = x})
      BY <2>2, <2>4 DEF Missed
    <3>2. {i \in 1..n : ScheduledWitness(i) = x} = Slots({x})
      OBVIOUS
    <3>3. Cardinality(Slots({x})) \in Nat
      BY <1>2
    <3> HIDE DEF m, Slots
    <3> QED BY <3>1, <3>2, <3>3
  <2> HIDE DEF m, Slots, F
  <2>8. Cardinality(Slots(T)) = Cardinality(Slots(U)) + Cardinality(Slots({x}))
    <3> DEFINE A == Slots(U)
               B == Slots({x})
    <3>1. IsFiniteSet(A) /\ IsFiniteSet(B) /\ Cardinality(A) \in Nat /\ Cardinality(B) \in Nat
      BY <1>2
    <3>2. Slots(T) = A \cup B /\ A \cap B = {}
      BY <2>6
    <3> HIDE DEF A, B
    <3>3. Cardinality(A \cup B) = Cardinality(A) + Cardinality(B) - Cardinality(A \cap B)
      BY <3>1, FS_Union
    <3>4. Cardinality(A \cap B) = 0
      BY <3>2, FS_EmptySet
    <3>5. Cardinality(A \cup B) = Cardinality(A) + Cardinality(B)
      BY <3>1, <3>3, <3>4
    <3> QED BY <3>2, <3>5 DEF A, B
  <2>9. SumFunctionOnSet(m, T) = SumFunctionOnSet(m, U) + m[x]
    <3>1. \A w \in T : m[w] \in Int
      BY <1>1, <2>2
    <3> QED BY <2>1, <2>4, <3>1, SumAdd
  <2>10. SumFunctionOnSet(m, U) \in Int /\ m[x] \in Int
    <3>1. IsFiniteSet(U) /\ \A w \in U : m[w] \in Int
      BY <1>1, <2>1, <2>5, FS_RemoveElement
    <3> HIDE DEF U
    <3> QED BY <1>1, <2>2, <2>4, <3>1, SumType
  <2>11. Cardinality(Slots(U)) \in Nat /\ Cardinality(Slots({x})) \in Nat
    BY <1>2
  <2> QED BY <2>2, <2>5, <2>7, <2>8, <2>9, <2>10, <2>11
<1>4. Witness \notin F
  BY <1>3
<1>5. SumFunctionOnSet(m, Witness) <= Cardinality(Slots(Witness))
  BY <1>4
<1>6. SumFunctionOnSet(m, Witness) \in Int
  <2>1. \A w \in Witness : m[w] \in Int
    BY <1>1
  <2> HIDE DEF m
  <2> QED BY <1>1, <2>1, SumType
<1>7. Cardinality(Slots(Witness)) \in Nat /\ Cardinality(Slots(Witness)) <= n
  BY <1>2
<1> HIDE DEF Slots, m
<1>8. SumFunctionOnSet(m, Witness) <= n
  BY <1>5, <1>6, <1>7
<1> QED BY <1>8 DEF m

\* The slots missed so far, by all witnesses.
AllMissed(ws) == SumFunctionOnSet([w \in Witness |-> ws[w].missed], Witness)

\* The slots before a block add no more than their number.
LEMMA MissedAdds ==
  ASSUME NEW ws \in [Witness -> WitnessObject], NEW xs \in [Witness -> WitnessObject],
         NEW n \in Nat, NEW s, \A w \in Witness : xs[w].missed = ws[w].missed + Missed(w, n, s)
  PROVE  AllMissed(ws) \in Nat /\ AllMissed(xs) \in Nat /\ AllMissed(xs) <= AllMissed(ws) + n
<1> DEFINE f == [w \in Witness |-> ws[w].missed]
           h == [w \in Witness |-> xs[w].missed]
           m == [w \in Witness |-> Missed(w, n, s)]
<1>1. IsFiniteSet(Witness) /\ \A w \in Witness : m[w] \in Nat
  BY ScheduleAssumption, MissedNat
<1>2. \A w \in Witness : f[w] \in Nat /\ h[w] \in Nat
  BY DEF WitnessObject
<1>3. \A w \in Witness : h[w] = f[w] + m[w]
  OBVIOUS
<1>4. SumFunctionOnSet(m, Witness) <= n
  BY MissedBounded
<1>5. AllMissed(ws) = SumFunctionOnSet(f, Witness) /\ AllMissed(xs) = SumFunctionOnSet(h, Witness)
  BY DEF AllMissed
<1> HIDE DEF f, h, m
<1>6. \A w \in Witness : f[w] \in Int /\ m[w] \in Int
  BY <1>1, <1>2
<1>7. SumFunctionOnSet(h, Witness) = SumFunctionOnSet(f, Witness) + SumFunctionOnSet(m, Witness)
  BY <1>1, <1>3, <1>6, SumPlus
<1>8. SumFunctionOnSet(f, Witness) \in Nat /\ SumFunctionOnSet(h, Witness) \in Nat
  BY <1>1, <1>2, SumNat
<1>9. SumFunctionOnSet(m, Witness) \in Nat
  BY <1>1, SumNat
<1> QED BY <1>4, <1>5, <1>7, <1>8, <1>9

\* Nothing else misses a slot.
LEMMA MissedSame ==
  ASSUME NEW ws, NEW xs, \A w \in Witness : xs[w].missed = ws[w].missed
  PROVE  AllMissed(xs) = AllMissed(ws)
<1>1. [w \in Witness |-> xs[w].missed] = [w \in Witness |-> ws[w].missed]
  OBVIOUS
<1> QED BY <1>1 DEF AllMissed
-----------------------------------------------------------------------------
(* The witnesses when the schedule is drawn.                               *)

\* What the race leaves alone of a witness, and what the schedule does.
Kept(ws, xs) ==
    \A w \in Witness : /\ xs[w].missed = ws[w].missed /\ xs[w].hfVote = ws[w].hfVote
                       /\ xs[w].fee = ws[w].fee /\ xs[w].votes = ws[w].votes
                       /\ xs[w].key = ws[w].key

LEMMA LapKeeps ==
  ASSUME NEW ws \in [Witness -> WitnessObject], NEW P, NEW now
  PROVE  Kept(ws, NewLap(ws, P, now)) /\ Kept(ws, ResetVirtualTime(ws))
<1>1. ASSUME NEW w \in Witness, NEW p, NEW u, NEW t
      PROVE  LET x == Placed(ws[w], p, u, t)
             IN  /\ x.missed = ws[w].missed /\ x.hfVote = ws[w].hfVote
                 /\ x.fee = ws[w].fee /\ x.votes = ws[w].votes /\ x.key = ws[w].key
  <2>1. ws[w] \in WitnessObject
    OBVIOUS
  <2> QED BY <2>1, PlacedFields
<1>2. Kept(ws, NewLap(ws, P, now))
  BY <1>1 DEF Kept, NewLap
<1>3. Kept(ws, ResetVirtualTime(ws))
  BY <1>1 DEF Kept, ResetVirtualTime
<1> QED BY <1>2, <1>3

LEMMA ScheduledMet ==
  ASSUME NEW ws \in [Witness -> WitnessObject], NEW E, NEW C
  PROVE  Met(ws, Scheduled(ws, E, C)) /\ Kept(ws, Scheduled(ws, E, C))
<1> DEFINE xs == Scheduled(ws, E, C)
           K(w) == IF w \in E THEN "top" ELSE IF w \in C THEN "timeshare" ELSE ws[w].kind
<1>1. ASSUME NEW w \in Witness
      PROVE  /\ xs[w] \in WitnessObject
             /\ xs[w].position = ws[w].position /\ xs[w].update = ws[w].update
             /\ xs[w].time = ws[w].time /\ xs[w].votes = ws[w].votes
             /\ xs[w].missed = ws[w].missed /\ xs[w].hfVote = ws[w].hfVote
             /\ xs[w].fee = ws[w].fee /\ xs[w].key = ws[w].key
  <2> DEFINE x == ws[w]
             k == K(w)
             y == [x EXCEPT !.kind = k]
  <2>1. x \in WitnessObject
    OBVIOUS
  <2>2. k \in {"miner", "top", "timeshare"}
    BY <2>1 DEF WitnessObject
  <2>3. xs[w] = y
    BY DEF Scheduled
  <2> HIDE DEF x, k
  <2>4. y \in WitnessObject
    BY <2>1, <2>2 DEF WitnessObject
  <2>5. /\ y.position = x.position /\ y.update = x.update
        /\ y.time = x.time /\ y.votes = x.votes
        /\ y.missed = x.missed /\ y.hfVote = x.hfVote
        /\ y.fee = x.fee /\ y.key = x.key
    BY <2>1 DEF WitnessObject
  <2> QED BY <2>3, <2>4, <2>5 DEF x
<1>2. xs = [w \in Witness |-> xs[w]]
  BY DEF Scheduled
<1> HIDE DEF xs
<1>3. xs \in [Witness -> WitnessObject]
  BY <1>1, <1>2
<1>4. Met(ws, xs) /\ Kept(ws, xs)
  BY <1>1, <1>3 DEF Met, Kept
<1> QED BY <1>4 DEF xs
\* The sets a schedule is drawn from.
LEMMA DrawnFrom ==
  ASSUME NEW ws, NEW E \in SUBSET Witness
  PROVE  /\ Running(ws) \in SUBSET Witness /\ Elected(ws) \in SUBSET Running(ws)
         /\ Processed(ws, E) \in SUBSET Witness
         /\ \A S \in SUBSET Witness : IsFiniteSet(S) /\ Cardinality(S) \in Nat
<1>1. \A S \in SUBSET Witness : IsFiniteSet(S) /\ Cardinality(S) \in Nat
  BY ScheduleAssumption, FS_Subset, FS_CardinalityType
<1> QED BY <1>1 DEF Running, Elected, FirstByVote, Processed

\* A full schedule has room for someone and for no more than MaxWitnesses.
LEMMA FullSize ==
  ASSUME NEW A \in SUBSET Witness, ScheduleFull(A)
  PROVE  Cardinality(A) \in 1..MaxWitnesses
<1> DEFINE n == Cardinality(Witness)
           S == {MaxWitnesses, n}
<1>1. n \in Nat /\ n # 0 /\ MaxWitnesses \in Nat \ {0}
  BY ScheduleAssumption, FS_CardinalityType, FS_EmptySet
<1> HIDE DEF n
<1>2. S \in SUBSET Nat /\ S # {}
  BY <1>1
<1> HIDE DEF S
<1>3. Min(S) \in S /\ \A y \in S : Min(S) <= y
  BY <1>2, MinOf
<1>4. Cardinality(A) = Min(S)
  BY DEF ScheduleFull, S, n
<1> QED BY <1>1, <1>3, <1>4 DEF S

\* An order of the active witnesses names each of them once.
LEMMA OrderNames ==
  ASSUME NEW A \in SUBSET Witness, NEW order \in SetToSeqs(A)
  PROVE  /\ order \in Seq(Witness) /\ Len(order) = Cardinality(A)
         /\ ToSet(order) = A
<1> DEFINE n == Cardinality(A)
<1>1. IsFiniteSet(A) /\ n \in Nat
  BY DrawnFrom
<1>2. order \in [1..n -> A] /\ \A i, j \in 1..n : i # j => order[i] # order[j]
  BY DEF SetToSeqs
<1> HIDE DEF n
<1>3. order \in Seq(Witness) /\ Len(order) = n /\ DOMAIN order = 1..n
  BY <1>1, <1>2
<1>4. order \in Injection(1..n, A)
  BY <1>2 DEF Injection, IsInjective
<1>5. Cardinality(1..n) = n
  BY <1>1, FS_Interval
<1> DEFINE D == 1..n
<1>6. order \in Injection(D, A) /\ Cardinality(D) = Cardinality(A)
  BY <1>4, <1>5 DEF n
<1> HIDE DEF D
<1>7. order \in Surjection(D, A)
  BY <1>1, <1>6, FS_Injection
<1>8. \A a \in A : \E i \in D : order[i] = a
  BY <1>7 DEF Surjection
<1>9. ToSet(order) = {order[i] : i \in 1..n}
  BY <1>3 DEF ToSet
<1>10. ToSet(order) = A
  BY <1>2, <1>8, <1>9 DEF D
<1> QED BY <1>3, <1>10 DEF n

\* The witnesses of the round that ends.
LEMMA DecidingWitnesses ==
  ASSUME TypeOK
  PROVE  Deciding \in SUBSET Witness
<1>1. sched.num = Len(sched.shuffled) /\ sched.shuffled \in Seq(Witness)
  BY DEF TypeOK, ScheduleObject
<1> QED BY <1>1 DEF Deciding

\* The version most of them run is one.
LEMMA MajorityType ==
  ASSUME TypeOK, NEW ws \in [Witness -> WitnessObject]
  PROVE  MajorityVersion(ws) \in Nat
<1> DEFINE f == [w \in Witness |-> ws[w].version]
           V == {f[w] : w \in Deciding}
           ok == {v \in V : Cardinality({w \in Deciding : ws[w].version >= v}) >= Required}
<1>1. Deciding \in SUBSET Witness /\ IsFiniteSet(Deciding)
  BY DecidingWitnesses, DrawnFrom
<1>2. \A w \in Witness : f[w] \in Nat
  BY DEF WitnessObject
<1>3. MajorityVersion(ws) = IF ok = {} THEN sched.majority ELSE Max(ok)
  <2>1. V = {ws[w].version : w \in Deciding}
    BY <1>1
  <2> HIDE DEF V
  <2> QED BY <2>1 DEF MajorityVersion
<1>4. V \in SUBSET Nat
  BY <1>1, <1>2
<1>5. IsFiniteSet(V)
  <2> HIDE DEF f
  <2> QED BY <1>1, ImageFinite
<1>6. ok \in SUBSET V
  OBVIOUS
<1> HIDE DEF V, ok
<1>7. IsFiniteSet(ok) /\ ok \in SUBSET Nat
  BY <1>4, <1>5, <1>6, FS_Subset
<1>8. ok # {} => Max(ok) \in Nat
  BY <1>7, MaxOf
<1>9. sched.majority \in Nat
  BY DEF TypeOK, ScheduleObject
<1> QED BY <1>3, <1>8, <1>9

\* The least of some votes for a hardfork at a time.
LEMMA LeastPair ==
  ASSUME NEW B \in SUBSET (Nat \X Nat), B # {}
  PROVE  \E x \in B : \A y \in B : x[1] < y[1] \/ (x[1] = y[1] /\ x[2] =< y[2])
<1> DEFINE S == {x[1] : x \in B}
<1>1. S \in SUBSET Nat /\ S # {}
  OBVIOUS
<1>2. PICK a \in S : \A b \in S : a <= b
  <2> HIDE DEF S
  <2> QED BY <1>1, LeastOf
<1> DEFINE T == {x[2] : x \in {y \in B : y[1] = a}}
<1>3. T \in SUBSET Nat /\ T # {}
  OBVIOUS
<1>4. PICK c \in T : \A b \in T : c <= b
  <2> HIDE DEF T
  <2> QED BY <1>3, LeastOf
<1>5. PICK x \in B : x[1] = a /\ x[2] = c
  OBVIOUS
<1>6. ASSUME NEW y \in B
      PROVE  x[1] < y[1] \/ (x[1] = y[1] /\ x[2] =< y[2])
  <2>1. a <= y[1] /\ y[1] \in Nat /\ a \in Nat
    BY <1>1, <1>2
  <2>2. y[1] = a => c <= y[2]
    BY <1>4
  <2> QED BY <1>5, <2>1, <2>2
<1> QED BY <1>5, <1>6

\* What the round decides on hardforks: what is backed, or nothing new.
LEMMA TallyIs ==
  ASSUME TypeOK, NEW ws \in [Witness -> WitnessObject]
  PROVE  /\ HardforkTally(ws) \in [last : Nat, next : Nat, nextTime : Nat]
         /\ HardforkTally(ws).last = hf.last
         /\ \/ HardforkTally(ws).next = hf.last
            \/ <<HardforkTally(ws).next, HardforkTally(ws).nextTime>> \in Backed(ws)
<1>1. hf \in [last : Nat, next : Nat, nextTime : Nat]
  BY DEF TypeOK
<1>2. Backed(ws) \in SUBSET (Nat \X Nat)
  BY DecidingWitnesses DEF Backed, WitnessObject
<1>3. CASE Backed(ws) = {}
  BY <1>1, <1>3 DEF HardforkTally
<1>4. CASE Backed(ws) # {}
  <2> DEFINE B == Backed(ws)
             Least(x) == \A y \in B : x[1] < y[1] \/ (x[1] = y[1] /\ x[2] =< y[2])
             x == CHOOSE x \in B : Least(x)
  <2>1. \E z \in B : Least(z)
    <3> HIDE DEF B
    <3> QED BY <1>2, <1>4, LeastPair DEF B
  <2>2. x \in B
    BY <2>1
  <2>3. HardforkTally(ws) = [hf EXCEPT !.next = x[1], !.nextTime = x[2]]
    BY <1>4 DEF HardforkTally
  <2> HIDE DEF x
  <2>4. x \in Nat \X Nat /\ x = <<x[1], x[2]>>
    BY <1>2, <2>2
  <2> QED BY <1>1, <2>2, <2>3, <2>4
<1> QED BY <1>3, <1>4
\* The fee in the middle: at most half are below, and not more above.
LEMMA MedianIs ==
  ASSUME NEW ws \in [Witness -> WitnessObject], NEW A \in SUBSET Witness, A # {}
  PROVE  /\ MedianFee(ws, A) \in Nat
         /\ 2 * Cardinality({w \in A : ws[w].fee < MedianFee(ws, A)}) <= Cardinality(A)
         /\ 2 * Cardinality({w \in A : ws[w].fee > MedianFee(ws, A)}) <= Cardinality(A)
<1> DEFINE f == [w \in Witness |-> ws[w].fee]
           n == Cardinality(A)
           middle == n \div 2
           F == {f[w] : w \in A}
           Below(x) == {w \in A : f[w] < x}
           UpTo(x) == {w \in A : f[w] <= x}
           Above(x) == {w \in A : f[w] > x}
           Middle(x) == Cardinality(Below(x)) <= middle /\ Cardinality(UpTo(x)) > middle
<1>1. \A w \in A : f[w] \in Nat /\ f[w] = ws[w].fee
  BY DEF WitnessObject
<1>2. /\ F \in SUBSET Nat /\ F # {}
      /\ \A x : /\ Below(x) \in SUBSET A /\ UpTo(x) \in SUBSET A /\ Above(x) \in SUBSET A
  BY <1>1
<1>3. IsFiniteSet(A) /\ n \in Nat /\ n # 0
  BY DrawnFrom, FS_EmptySet
<1>4. IsFiniteSet(F)
  <2> HIDE DEF f
  <2> QED BY <1>3, ImageFinite
<1>5. MedianFee(ws, A) = CHOOSE x \in F : Middle(x)
  <2>1. /\ F = {ws[w].fee : w \in A}
        /\ \A x : Below(x) = {w \in A : ws[w].fee < x} /\ UpTo(x) = {w \in A : ws[w].fee =< x}
    OBVIOUS
  <2> HIDE DEF f, F, Below, UpTo
  <2> QED BY <2>1 DEF MedianFee
<1>6. \A w \in A : f[w] \in F
  OBVIOUS
<1>7. middle \in Nat /\ 2 * middle <= n /\ n <= 2 * middle + 1 /\ middle < n
  <2> HIDE DEF n
  <2> QED BY <1>3
<1>8. \A x : /\ IsFiniteSet(Below(x)) /\ Cardinality(Below(x)) \in Nat
             /\ IsFiniteSet(UpTo(x)) /\ Cardinality(UpTo(x)) \in Nat
             /\ IsFiniteSet(Above(x)) /\ Cardinality(Above(x)) \in Nat
  <2> TAKE x
  <2> HIDE DEF Below, UpTo, Above
  <2> QED BY <1>2, <1>3, FS_Subset, FS_CardinalityType
<1>9. \E x \in F : Middle(x)
  <2> DEFINE S == {x \in F : Cardinality(UpTo(x)) > middle}
  <2>1. S # {}
    <3>1. Max(F) \in F /\ \A y \in F : y <= Max(F)
      <4> HIDE DEF F
      <4> QED BY <1>2, <1>4, MaxOf
    <3>2. UpTo(Max(F)) = A
      BY <1>6, <3>1
    <3> HIDE DEF F, UpTo, middle
    <3> QED BY <1>7, <3>1, <3>2
  <2>2. PICK x \in S : \A y \in S : x <= y
    <3>1. S \in SUBSET Nat
      BY <1>2
    <3> HIDE DEF S
    <3> QED BY <2>1, <3>1, LeastOf
  <2>3. x \in F /\ x \in Nat /\ Cardinality(UpTo(x)) > middle
    BY <1>2
  <2>4. Cardinality(Below(x)) <= middle
    <3>1. CASE Below(x) = {}
      <4> HIDE DEF Below, middle
      <4> QED BY <1>7, <3>1, FS_EmptySet
    <3>2. CASE Below(x) # {}
      <4> DEFINE G == {f[w] : w \in Below(x)}
      <4>1. G \in SUBSET Nat /\ G # {} /\ G \in SUBSET F
        BY <1>1, <3>2
      <4>2. IsFiniteSet(G)
        <5> HIDE DEF G, F
        <5> QED BY <1>4, <4>1, FS_Subset
      <4>3. Max(G) \in G /\ \A y \in G : y <= Max(G)
        <5> HIDE DEF G
        <5> QED BY <4>1, <4>2, MaxOf
      <4> DEFINE g == Max(G)
      <4>4. g \in Nat /\ g \in F /\ g < x
        BY <4>1, <4>3, <1>1
      <4>5. \A w \in Below(x) : f[w] <= g
        BY <4>3
      <4> HIDE DEF g, G
      <4>6. Below(x) = UpTo(g)
        <5>1. \A w \in A : f[w] < x => f[w] <= g
          BY <4>5
        <5> HIDE DEF f
        <5>2. \A w \in A : f[w] <= g => f[w] < x
          BY <1>1, <2>3, <4>4
        <5> QED BY <5>1, <5>2
      <4>7. g \notin S
        <5>1. ~(x <= g)
          BY <2>3, <4>4
        <5> HIDE DEF S
        <5> QED BY <2>2, <5>1
      <4>8. ~(Cardinality(UpTo(g)) > middle)
        BY <4>4, <4>7
      <4>9. Cardinality(UpTo(g)) \in Nat /\ middle \in Nat
        BY <1>7, <1>8
      <4> HIDE DEF UpTo, Below, middle
      <4> QED BY <4>6, <4>8, <4>9
    <3> QED BY <3>1, <3>2
  <2> HIDE DEF UpTo, Below, middle, F
  <2> QED BY <2>3, <2>4
<1> DEFINE m == MedianFee(ws, A)
<1>10. m \in F /\ Middle(m)
  <2> HIDE DEF F, Middle
  <2> QED BY <1>5, <1>9
<1>11. m \in Nat
  BY <1>2, <1>10
<1>12. UpTo(m) \cup Above(m) = A /\ UpTo(m) \cap Above(m) = {}
  <2> HIDE DEF m
  <2> QED BY <1>1, <1>11
<1>13. Below(m) = {w \in A : ws[w].fee < m} /\ Above(m) = {w \in A : ws[w].fee > m}
  <2> HIDE DEF m
  <2> QED OBVIOUS
<1> HIDE DEF f, F, Below, UpTo, Above, m
<1>14. n = Cardinality(UpTo(m)) + Cardinality(Above(m))
  <2>1. n = Cardinality(UpTo(m)) + Cardinality(Above(m)) - Cardinality({})
    BY <1>8, <1>12, FS_Union
  <2> QED BY <1>8, <2>1, FS_EmptySet
<1> HIDE DEF n, middle
<1>15. 2 * Cardinality(Below(m)) <= n /\ 2 * Cardinality(Above(m)) <= n
  BY <1>3, <1>7, <1>8, <1>10, <1>14
<1> QED BY <1>11, <1>13, <1>15 DEF m, n

-----------------------------------------------------------------------------
(* The election.                                                           *)

\* The index by_vote_name is in a strict order of all witnesses.
LEMMA VoteOrder ==
  ASSUME NEW ws \in [Witness -> WitnessObject],
         NEW u \in Witness, NEW v \in Witness, NEW w \in Witness
  PROVE  /\ ByVote(ws, u, v) /\ ByVote(ws, v, w) => ByVote(ws, u, w)
         /\ ~ByVote(ws, v, v)
         /\ v = w \/ ByVote(ws, v, w) \/ ByVote(ws, w, v)
         /\ ByVote(ws, v, w) => ws[v].votes >= ws[w].votes
<1>1. u \in Nat /\ v \in Nat /\ w \in Nat
  BY ScheduleAssumption
<1>2. ws[u].votes \in Nat /\ ws[v].votes \in Nat /\ ws[w].votes \in Nat
  BY WordType DEF WitnessObject
<1> QED BY <1>1, <1>2 DEF ByVote

\* Who is not elected has MaxVoted witnesses before it, all of them elected.
LEMMA ElectedBefore ==
  ASSUME NEW ws \in [Witness -> WitnessObject],
         NEW w \in Running(ws) \ Elected(ws)
  PROVE  /\ Cardinality(Elected(ws)) >= MaxVoted
         /\ \A v \in Elected(ws) : ws[v].votes >= ws[w].votes
<1> DEFINE R == Running(ws)
           E == Elected(ws)
           Before(x) == {v \in R : ByVote(ws, v, x)}
           Rank(x) == Cardinality(Before(x))
<1>1. /\ R \in SUBSET Witness /\ E \in SUBSET R
      /\ \A S \in SUBSET Witness : IsFiniteSet(S) /\ Cardinality(S) \in Nat
  BY DrawnFrom
<1>2. E = {x \in R : Rank(x) < MaxVoted}
  BY DEF Elected, FirstByVote
<1>3. \A x : Before(x) \in SUBSET R /\ IsFiniteSet(Before(x)) /\ Rank(x) \in Nat
  BY <1>1
<1>4. MaxVoted \in Nat
  BY ScheduleAssumption
<1>5. \A v \in E : ws[v].votes >= ws[w].votes
  <2> SUFFICES ASSUME NEW v \in E, ~(ws[v].votes >= ws[w].votes) PROVE FALSE
    OBVIOUS
  <2>1. v \in Witness /\ w \in Witness /\ v # w
    BY <1>1
  <2>2. ByVote(ws, w, v)
    BY <2>1, VoteOrder
  <2>3. Before(w) \subseteq Before(v)
    BY <1>1, <2>1, <2>2, VoteOrder
  <2>4. Rank(w) <= Rank(v)
    <3> HIDE DEF Before
    <3> QED BY <1>3, <2>3, FS_Subset
  <2>5. Rank(v) < MaxVoted /\ ~(Rank(w) < MaxVoted)
    BY <1>2
  <2>6. Rank(v) \in Nat /\ Rank(w) \in Nat
    BY <1>3
  <2> HIDE DEF Rank
  <2> QED BY <1>4, <2>4, <2>5, <2>6
<1>6. Cardinality(E) >= MaxVoted
  <2> DEFINE Out == R \ E
             S == {Rank(x) : x \in Out}
  <2>1. S \in SUBSET Nat /\ S # {}
    BY <1>3
  <2>2. PICK k \in S : \A j \in S : k <= j
    <3> HIDE DEF S
    <3> QED BY <2>1, LeastOf
  <2>3. PICK x \in Out : k = Rank(x)
    OBVIOUS
  <2>4. \A y \in Out : Rank(x) <= Rank(y)
    BY <2>2, <2>3
  <2>5. Before(x) \subseteq E
    <3> SUFFICES ASSUME NEW y \in Before(x), y \notin E PROVE FALSE
      OBVIOUS
    <3>1. y \in Out /\ y \in Witness /\ x \in Witness /\ ByVote(ws, y, x)
      BY <1>1
    <3>2. Before(y) \subseteq Before(x)
      BY <1>1, <3>1, VoteOrder
    <3>3. y \in Before(x) /\ y \notin Before(y)
      BY <3>1, VoteOrder
    <3>4. Rank(y) <= Rank(x) /\ Rank(y) # Rank(x)
      <4> HIDE DEF Before
      <4> QED BY <1>3, <3>2, <3>3, FS_Subset
    <3>5. Rank(x) <= Rank(y)
      BY <2>4, <3>1
    <3>6. Rank(x) \in Nat /\ Rank(y) \in Nat
      BY <1>3
    <3> HIDE DEF Rank
    <3> QED BY <3>4, <3>5, <3>6
  <2>6. Rank(x) <= Cardinality(E)
    <3>1. IsFiniteSet(E)
      BY <1>1
    <3> HIDE DEF Before, E
    <3> QED BY <2>5, <3>1, FS_Subset
  <2>7. ~(Rank(x) < MaxVoted)
    BY <1>2, <2>3
  <2>8. Cardinality(E) \in Nat /\ Rank(x) \in Nat
    BY <1>1, <1>3
  <2> HIDE DEF Rank, E
  <2> QED BY <1>4, <2>6, <2>7, <2>8
<1> QED BY <1>5, <1>6
-----------------------------------------------------------------------------
(* The invariant.                                                          *)

\* Slots are counted alike by the clock, the schedule and the witnesses.
Slots ==
    /\ dgp.aslot = dgp.time
    /\ Counted(dgp)
    /\ AllMissed(wit) + dgp.head =< dgp.aslot

ScheduleInv == TypeOK /\ InRace(wit, sched.time) /\ Slots

\* The witnesses after a block, before a schedule is drawn.
After(gap, version, x) ==
    LET signer == ScheduledWitness(gap + 1)
    IN Signed(MissSlots(Told(signer, version, x), gap, signer), signer, dgp.head + 1)

LEMMA AfterBlock ==
  ASSUME TypeOK, NEW gap \in Nat, NEW version \in Nat, NEW x \in Nat \X Nat
  PROVE  /\ Met(wit, After(gap, version, x))
         /\ AllMissed(wit) \in Nat /\ AllMissed(After(gap, version, x)) \in Nat
         /\ AllMissed(After(gap, version, x)) <= AllMissed(wit) + gap
<1> DEFINE s == ScheduledWitness(gap + 1)
           ts == Told(s, version, x)
           ms == MissSlots(ts, gap, s)
           ws == Signed(ms, s, dgp.head + 1)
<1>1. s \in Witness
  BY SlotTaken
<1>2. wit \in [Witness -> WitnessObject] /\ dgp.head + 1 \in Nat
  BY DEF TypeOK
<1>3. After(gap, version, x) = ws
  BY DEF After
<1>4. Met(wit, ts) /\ \A w \in Witness : ts[w].missed = wit[w].missed
  <2> HIDE DEF s
  <2> QED BY <1>1, <1>2, ToldMet
<1>5. ts \in [Witness -> WitnessObject]
  BY <1>4 DEF Met
<1> HIDE DEF s, ts
<1>6. /\ Met(ts, ms)
      /\ \A w \in Witness : ms[w].missed = ts[w].missed + Missed(w, gap, s)
  BY <1>5, MissedMet
<1>7. ms \in [Witness -> WitnessObject]
  BY <1>6 DEF Met
<1> HIDE DEF ms
<1>8. Met(ms, ws) /\ \A w \in Witness : ws[w].missed = ms[w].missed
  BY <1>1, <1>2, <1>7, SignedMet
<1>9. ws \in [Witness -> WitnessObject]
  BY <1>8 DEF Met
<1> HIDE DEF ws
<1>10. Met(wit, ws)
  BY <1>4, <1>6, <1>8 DEF Met
<1>11. \A w \in Witness : ws[w].missed = wit[w].missed + Missed(w, gap, s)
  BY <1>4, <1>6, <1>8
<1>12. AllMissed(wit) \in Nat /\ AllMissed(ws) \in Nat /\ AllMissed(ws) <= AllMissed(wit) + gap
  BY <1>2, <1>9, <1>11, MissedAdds
<1> QED BY <1>3, <1>10, <1>12

\* The parts of applying a block.
LEMMA BlockParts ==
  ASSUME NEW gap, NEW version, NEW x, Block(gap, version, x)
  PROVE  /\ dgp.head + 1 =< world.maxHead
         /\ dgp' = [head |-> dgp.head + 1, time |-> dgp.time + gap + 1,
                    aslot |-> dgp.aslot + gap + 1, bits |-> FillSlots(dgp, gap).bits,
                    count |-> FillSlots(dgp, gap).count]
         /\ world' = world /\ keys' = Running(wit')
         /\ \/ /\ (dgp.head + 1) % MaxWitnesses = 0
               /\ ballot' = [w \in Deciding |-> After(gap, version, x)[w].hfVote]
               /\ Redraw(After(gap, version, x), dgp.head + 1)
               /\ hf' = ProcessHardforks(HardforkTally(After(gap, version, x)), dgp.time + gap + 1)
            \/ /\ (dgp.head + 1) % MaxWitnesses # 0 /\ ballot' = ballot
               /\ wit' = After(gap, version, x) /\ sched' = sched
               /\ hf' = ProcessHardforks(hf, dgp.time + gap + 1)
BY DEF Block, After

\* A drawn schedule: everybody stays in the race, and the schedule names
\* witnesses.
LEMMA RedrawRaces ==
  ASSUME TypeOK, NEW ws, InRace(ws, sched.time), NEW head \in Nat, Redraw(ws, head)
  PROVE  /\ InRace(wit', sched'.time) /\ Kept(ws, wit')
         /\ sched' \in ScheduleObject /\ sched'.num = Len(sched'.shuffled)
<1> DEFINE E == Elected(ws)
           P == Processed(ws, E)
           C == P \cap (Running(ws) \ E)
           A == E \cup C
           now == VirtualTime(ws, P)
           lap == IF LapFits(ws, P, now) THEN NewLap(ws, P, now) ELSE ResetVirtualTime(ws)
           t == IF LapFits(ws, P, now) THEN now ELSE 0
<1>1. ws \in [Witness -> WitnessObject] /\ sched.time \in 0..Lap2
  BY DEF InRace, TypeOK, ScheduleObject
<1>2. E \in SUBSET Witness
  BY DrawnFrom
<1>3. C \in SUBSET Witness /\ A \in SUBSET Witness
  BY <1>2, DrawnFrom
<1>4. PICK order \in SetToSeqs(A) :
         /\ ScheduleFull(A) /\ wit' = Scheduled(lap, E, C)
         /\ sched' = [shuffled |-> order, num |-> Len(order), time |-> t,
                      majority |-> MajorityVersion(ws), fee |-> MedianFee(ws, A),
                      pay |-> Cardinality(E) + TimeshareWeight * Cardinality(C),
                      nextShuffle |-> head + Len(order)]
  BY DEF Redraw
<1>5. InRace(lap, t) /\ t \in 0..Lap2
  <2>1. CASE LapFits(ws, P, now)
    <3>1. now \in sched.time..Lap2
      BY <1>1, <1>2, TimeMoves
    <3>2. InRace(NewLap(ws, P, now), now)
      BY <1>1, <1>2, <2>1, LapRaces
    <3> HIDE DEF now, P
    <3> QED BY <1>1, <2>1, <3>1, <3>2, WordType
  <2>2. CASE ~LapFits(ws, P, now)
    <3>1. InRace(ResetVirtualTime(ws), 0)
      BY <1>1, ResetRaces
    <3> HIDE DEF now, P
    <3> QED BY <2>2, <3>1, WordType
  <2> QED BY <2>1, <2>2
<1>6. Kept(ws, lap)
  BY <1>1, LapKeeps
<1>7. lap \in [Witness -> WitnessObject]
  BY <1>5 DEF InRace
<1>8. /\ Cardinality(E) \in Nat /\ Cardinality(C) \in Nat /\ Cardinality(A) \in 1..MaxWitnesses
  BY <1>2, <1>3, <1>4, DrawnFrom, FullSize
<1>9. A # {}
  BY <1>8, FS_EmptySet
<1>10. order \in Seq(Witness) /\ Len(order) \in 1..MaxWitnesses
  <2> HIDE DEF A
  <2> QED BY <1>3, <1>4, <1>8, OrderNames
<1>11. MajorityVersion(ws) \in Nat
  BY <1>1, MajorityType
<1>12. MedianFee(ws, A) \in Nat
  <2> HIDE DEF A
  <2> QED BY <1>1, <1>3, <1>9, MedianIs
<1> HIDE DEF E, P, C, A, now, lap, t
<1>13. Met(lap, wit') /\ Kept(lap, wit')
  BY <1>4, <1>7, ScheduledMet
<1>14. InRace(wit', t)
  BY <1>5, <1>13, SameRace DEF Met
<1>15. Kept(ws, wit')
  BY <1>6, <1>13 DEF Kept
<1>16. sched' \in ScheduleObject
  <2>1. Cardinality(E) + TimeshareWeight * Cardinality(C) \in Nat /\ head + Len(order) \in Nat
    BY <1>8, <1>10, WordType DEF TimeshareWeight
  <2> QED BY <1>4, <1>5, <1>10, <1>11, <1>12, <2>1 DEF ScheduleObject
<1> QED BY <1>4, <1>14, <1>15, <1>16
\* The invariant holds at genesis.
LEMMA InitSchedule ==
  ASSUME Init
  PROVE  ScheduleInv
<1> DEFINE gs == [w \in Witness |->
                    [votes |-> StartVotes[w], key |-> TRUE, position |-> 0, update |-> 0,
                     time |-> Lap2, missed |-> 0, confirmed |-> 0, kind |-> "miner",
                     version |-> 0, hfVote |-> <<0, 0>>, fee |-> 0]]
<1>1. gs \in [Witness -> WitnessObject]
  BY ScheduleAssumption, WordType DEF WitnessObject
<1>2. wit = ResetVirtualTime(gs) /\ sched.time = 0
  BY DEF Init
<1>3. \A w \in Witness : gs[w].missed = 0
  OBVIOUS
<1> HIDE DEF gs
<1>4. InRace(wit, sched.time)
  BY <1>1, <1>2, ResetRaces
<1>5. sched \in ScheduleObject /\ sched.num = Len(sched.shuffled)
  <2>1. Min(Witness) \in Witness
    <3>1. Witness \in SUBSET Nat /\ Witness # {}
      BY ScheduleAssumption
    <3> QED BY <3>1, MinOf
  <2> DEFINE q == <<Min(Witness)>>
  <2>2. q \in Seq(Witness) /\ Len(q) = 1
    BY <2>1
  <2>3. 1 \in 1..MaxWitnesses /\ 0 \in 0..Lap2
    BY ScheduleAssumption, WordType
  <2>4. sched = [shuffled |-> q, num |-> 1, time |-> 0, majority |-> 0, fee |-> 0,
                 pay |-> 25, nextShuffle |-> 1]
    BY DEF Init
  <2> HIDE DEF q
  <2> QED BY <2>2, <2>3, <2>4 DEF ScheduleObject
<1>6. Window \in Nat \ {0}
  BY ScheduleAssumption
<1> DEFINE b == [i \in 1..Window |-> 1]
<1>7. dgp = [head |-> 0, time |-> 0, aslot |-> 0, bits |-> b, count |-> Window]
  BY DEF Init
<1>8. b \in [1..Window -> 0..1] /\ \A i \in 1..Window : b[i] = 1
  OBVIOUS
<1> HIDE DEF b
<1>9. SumFunctionOnSet(b, 1..Window) = Window
  BY <1>6, <1>8, AllSet
<1>10. Counted(dgp)
  BY <1>6, <1>7, <1>8, <1>9 DEF Counted
<1>11. world \in Worlds /\ 0 <= world.maxHead
  BY WorldsAssumption DEF Init
<1>12. hf \in [last : Nat, next : Nat, nextTime : Nat]
  BY DEF Init
<1>13. TypeOK
  <2>1. wit \in [Witness -> WitnessObject]
    BY <1>4 DEF InRace
  <2>2. dgp \in [head : Nat, time : Nat, aslot : Nat, bits : [1..Window -> 0..1], count : Int]
    BY <1>6, <1>7, <1>8
  <2>3. keys \subseteq Witness /\ DOMAIN ballot \subseteq Witness
    BY DEF Init
  <2> QED BY <1>5, <1>7, <1>11, <1>12, <2>1, <2>2, <2>3 DEF TypeOK
<1>14. AllMissed(wit) = 0
  <2>1. \A w \in Witness : wit[w].missed = 0
    BY <1>1, <1>2, <1>3, LapKeeps DEF Kept
  <2> DEFINE m == [w \in Witness |-> wit[w].missed]
  <2>2. \A w \in Witness : m[w] = 0
    BY <2>1
  <2>3. AllMissed(wit) = SumFunctionOnSet(m, Witness)
    BY DEF AllMissed
  <2> HIDE DEF m
  <2> QED BY <2>2, <2>3, ScheduleAssumption, NoneSet
<1>15. Slots
  BY <1>7, <1>10, <1>14 DEF Slots
<1> QED BY <1>4, <1>13, <1>15 DEF ScheduleInv

\* Applying hardforks, of which none is taken back.
LEMMA HardforksType ==
  ASSUME NEW h \in [last : Nat, next : Nat, nextTime : Nat], NEW now \in Nat
  PROVE  /\ ProcessHardforks(h, now) \in [last : Nat, next : Nat, nextTime : Nat]
         /\ ProcessHardforks(h, now).nextTime = h.nextTime
         /\ ProcessHardforks(h, now).next = h.next
         /\ \/ ProcessHardforks(h, now).last = h.last
            \/ /\ ProcessHardforks(h, now).last = h.next
               /\ h.last < h.next /\ h.nextTime =< now
BY DEF ProcessHardforks, HardforkDue

\* An operation on the witnesses alone keeps what the invariant says of the rest.
LEMMA RestSame ==
  ASSUME ScheduleInv, UNCHANGED <<sched, dgp, hf, keys, ballot, world>>,
         wit' \in [Witness -> WitnessObject], InRace(wit', sched.time),
         AllMissed(wit') = AllMissed(wit)
  PROVE  ScheduleInv'
<1>1. TypeOK'
  BY DEF ScheduleInv, TypeOK
<1>2. InRace(wit, sched.time)'
  BY DEF InRace, Racing
<1>3. Counted(dgp)' /\ AllMissed(wit)' = AllMissed(wit')
  BY DEF ScheduleInv, Slots, Counted, AllMissed
<1>4. Slots'
  BY <1>3 DEF ScheduleInv, Slots
<1> QED BY <1>1, <1>2, <1>4 DEF ScheduleInv

\* A block keeps the invariant.
LEMMA BlockInv ==
  ASSUME ScheduleInv, NEW gap \in Nat, NEW version \in Nat, NEW x \in Nat \X Nat,
         Block(gap, version, x)
  PROVE  ScheduleInv'
<1> DEFINE ws == After(gap, version, x)
           now == dgp.time + gap + 1
           head == dgp.head + 1
           fill == FillSlots(dgp, gap)
<1>1. TypeOK /\ InRace(wit, sched.time) /\ Slots
  BY DEF ScheduleInv
<1>2. /\ dgp.head \in Nat /\ dgp.time \in Nat /\ dgp.aslot \in Nat
      /\ now \in Nat /\ head \in Nat
  <2>1. dgp.head \in Nat /\ dgp.time \in Nat /\ dgp.aslot \in Nat
    BY <1>1, FieldTypes, Zenon
  <2> QED BY <2>1
<1>3. /\ Met(wit, ws) /\ AllMissed(wit) \in Nat /\ AllMissed(ws) \in Nat
      /\ AllMissed(ws) <= AllMissed(wit) + gap
  BY <1>1, AfterBlock
<1>4. Counted(fill)
  BY <1>1, FillCounts DEF Slots
<1>5. /\ head =< world.maxHead /\ world' = world /\ keys' = Running(wit')
      /\ ballot' = ballot \/ DOMAIN ballot' = Deciding
      /\ dgp' = [head |-> head, time |-> now, aslot |-> dgp.aslot + gap + 1,
                 bits |-> fill.bits, count |-> fill.count]
      /\ \/ Redraw(ws, head) /\ hf' = ProcessHardforks(HardforkTally(ws), now)
         \/ wit' = ws /\ sched' = sched /\ hf' = ProcessHardforks(hf, now)
  BY BlockParts
<1> HIDE DEF ws, fill
<1>6. ws \in [Witness -> WitnessObject] /\ InRace(ws, sched.time)
  BY <1>1, <1>3, SameRace DEF Met
<1>7. /\ InRace(wit', sched'.time) /\ AllMissed(wit') = AllMissed(ws)
      /\ sched' \in ScheduleObject /\ sched'.num = Len(sched'.shuffled)
      /\ hf' \in [last : Nat, next : Nat, nextTime : Nat]
  <2>1. CASE Redraw(ws, head) /\ hf' = ProcessHardforks(HardforkTally(ws), now)
    <3>1. /\ InRace(wit', sched'.time) /\ Kept(ws, wit')
          /\ sched' \in ScheduleObject /\ sched'.num = Len(sched'.shuffled)
      BY <1>1, <1>2, <1>6, <2>1, RedrawRaces
    <3>2. AllMissed(wit') = AllMissed(ws)
      BY <3>1, MissedSame DEF Kept
    <3>3. HardforkTally(ws) \in [last : Nat, next : Nat, nextTime : Nat]
      BY <1>1, <1>6, TallyIs
    <3>4. hf' \in [last : Nat, next : Nat, nextTime : Nat]
      <4> HIDE DEF now
      <4> QED BY <1>2, <2>1, <3>3, HardforksType
    <3> QED BY <3>1, <3>2, <3>4
  <2>2. CASE wit' = ws /\ sched' = sched /\ hf' = ProcessHardforks(hf, now)
    <3>1. sched \in ScheduleObject /\ sched.num = Len(sched.shuffled)
          /\ hf \in [last : Nat, next : Nat, nextTime : Nat]
      BY <1>1 DEF TypeOK
    <3>2. hf' \in [last : Nat, next : Nat, nextTime : Nat]
      <4> HIDE DEF now
      <4> QED BY <1>2, <2>2, <3>1, HardforksType
    <3> QED BY <1>6, <2>2, <3>1, <3>2
  <2> QED BY <1>5, <2>1, <2>2
<1>8. Counted(dgp)'
  BY <1>4, <1>5 DEF Counted
<1>9. TypeOK'
  <2>1. wit' \in [Witness -> WitnessObject]
    BY <1>7 DEF InRace
  <2>2. dgp' \in [head : Nat, time : Nat, aslot : Nat, bits : [1..Window -> 0..1], count : Int]
    <3>1. fill.bits \in [1..Window -> 0..1] /\ fill.count \in Int
      BY <1>4 DEF Counted
    <3>2. dgp.aslot + gap + 1 \in Nat
      BY <1>2
    <3> HIDE DEF now, head
    <3> QED BY <1>2, <1>5, <3>1, <3>2
  <2>3. world' \in Worlds /\ dgp'.head =< world'.maxHead
    BY <1>1, <1>5 DEF TypeOK
  <2>4. keys' \subseteq Witness
    BY <1>5 DEF Running
  <2>5. DOMAIN ballot' \subseteq Witness
    BY <1>1, <1>5, DecidingWitnesses DEF TypeOK
  <2> QED BY <1>7, <2>1, <2>2, <2>3, <2>4, <2>5 DEF TypeOK
<1>10. Slots'
  <2>1. dgp'.aslot = dgp'.time
    BY <1>1, <1>5 DEF Slots
  <2>2. AllMissed(wit') + dgp'.head =< dgp'.aslot
    <3>1. AllMissed(wit) + dgp.head =< dgp.aslot
      BY <1>1 DEF Slots
    <3>2. dgp'.head = dgp.head + 1 /\ dgp'.aslot = dgp.aslot + gap + 1
      BY <1>5
    <3> DEFINE a == AllMissed(wit)
               b == AllMissed(ws)
    <3>3. a \in Nat /\ b \in Nat /\ b <= a + gap /\ a + dgp.head <= dgp.aslot
      BY <1>3, <3>1
    <3> HIDE DEF a, b
    <3>4. b + (dgp.head + 1) <= dgp.aslot + gap + 1
      BY <1>2, <3>3
    <3> QED BY <1>7, <3>2, <3>4 DEF b
  <2>3. AllMissed(wit)' = AllMissed(wit')
    BY DEF AllMissed
  <2> QED BY <1>8, <2>1, <2>2, <2>3 DEF Slots
<1>11. InRace(wit, sched.time)' <=> InRace(wit', sched'.time)
  BY DEF InRace, Racing
<1> QED BY <1>7, <1>9, <1>10, <1>11 DEF ScheduleInv
\* A change of votes keeps the position reached, and the rest of the lap is
\* run within the counter.
LEMMA AdjustInv ==
  ASSUME ScheduleInv, NEW w \in Witness, NEW delta \in Int, AdjustWitnessVote(w, delta)
  PROVE  ScheduleInv'
<1> DEFINE x == wit[w]
           t == sched.time
           votes == x.votes + delta
           run == x.votes * (t - x.update)
           p0 == x.position + run
           position == p0 % Word
           rest == (Lap2 - position) % Word
           q == rest \div (votes + 1)
           time == (t + q) % Word
           due == IF time < t THEN Lap2 ELSE time
           v == [x EXCEPT !.votes = votes]
           y == Placed(v, position, t, due)
<1>1. TypeOK /\ InRace(wit, sched.time) /\ Slots
  BY DEF ScheduleInv
<1>2. wit \in [Witness -> WitnessObject] /\ t \in 0..Lap2 /\ t \in Nat
  BY <1>1, WordType DEF TypeOK, ScheduleObject
<1>3. /\ x \in WitnessObject /\ x.votes \in Nat /\ x.update \in Nat /\ x.time \in Nat
      /\ x.position \in Nat /\ x.time <= Lap2
  BY <1>2, WordType DEF WitnessObject
<1>4. x.update <= t /\ t <= x.time /\ x.position + x.votes * (x.time - x.update) <= Lap2
  BY <1>1 DEF InRace, Racing
<1>5. votes \in 0..MaxVote
  BY DEF AdjustWitnessVote
<1>6. wit' = [wit EXCEPT ![w] = y] /\ UNCHANGED <<sched, dgp, hf, keys, ballot, world>>
  BY DEF AdjustWitnessVote
<1> HIDE DEF t
<1>7. p0 \in 0..Lap2 /\ position = p0
  <2>1. t - x.update \in Nat /\ x.time - x.update \in Nat /\ t - x.update <= x.time - x.update
    BY <1>2, <1>3, <1>4
  <2>2. run \in Nat /\ x.votes * (x.time - x.update) \in Nat /\ run <= x.votes * (x.time - x.update)
    <3> HIDE DEF x
    <3> QED BY <1>3, <2>1, RunsOn
  <2> DEFINE full == x.votes * (x.time - x.update)
  <2> HIDE DEF run, x, full
  <2>3. full \in Nat /\ run <= full /\ x.position + full <= Lap2
    BY <1>4, <2>2 DEF full
  <2>4. p0 \in 0..Lap2
    BY <1>3, <2>2, <2>3, WordType
  <2> HIDE DEF p0
  <2>5. p0 % Word = p0
    BY <2>4, WordType, Remainder
  <2> QED BY <2>4, <2>5
<1> HIDE DEF p0
<1>8. rest \in 0..Lap2 /\ rest = Lap2 - p0
  <2> DEFINE r == Lap2 - p0
  <2>1. r \in 0..Lap2 /\ rest = r % Word
    BY <1>7, WordType
  <2> HIDE DEF r
  <2>2. r % Word = r
    BY <2>1, WordType, Remainder
  <2> QED BY <2>1, <2>2 DEF r
<1> HIDE DEF rest, position, votes
<1>9. votes \in Nat /\ rest \in Nat
  BY <1>5, <1>8, WordType
<1>10. q \in Nat /\ q <= rest /\ votes * q <= rest /\ votes * q \in Nat
  <2>1. q \in Nat /\ q <= rest /\ votes * q <= rest
    BY <1>9, LapPart
  <2> HIDE DEF q
  <2> QED BY <1>9, <2>1, Products
<1> HIDE DEF q
<1>11. /\ due \in 0..Lap2 /\ t <= due /\ due - t \in Nat /\ due - t <= q
  <2>1. /\ time \in 0..(Word - 1) /\ (t + q < Word => time = t + q)
        /\ (t + q >= Word => time = t + q - Word)
    BY <1>2, <1>8, <1>10, WordType, Remainder
  <2> HIDE DEF time
  <2>2. CASE t + q < Word
    BY <1>2, <1>10, <2>1, <2>2, WordType
  <2>3. CASE t + q >= Word
    <3>1. time < t
      BY <1>2, <1>8, <1>10, <2>1, <2>3, WordType
    <3>2. due = Lap2
      BY <3>1
    <3>3. t <= Lap2 /\ Lap2 - t \in Nat /\ Lap2 - t <= q /\ Lap2 \in 0..Lap2
      BY <1>2, <1>10, <2>3, WordType
    <3> HIDE DEF due
    <3> QED BY <3>2, <3>3
  <2>4. t + q < Word \/ t + q >= Word
    BY <1>2, <1>10, WordType
  <2> HIDE DEF due
  <2> QED BY <2>2, <2>3, <2>4
<1> HIDE DEF due
<1>12. votes * (due - t) \in Nat /\ p0 + votes * (due - t) <= Lap2
  <2>1. votes * (due - t) \in Nat /\ votes * (due - t) <= votes * q
    BY <1>9, <1>10, <1>11, RunsOn
  <2> DEFINE a == votes * (due - t)
             b == votes * q
  <2>2. a \in Nat /\ b \in Nat /\ a <= b /\ b <= rest
    BY <1>10, <2>1
  <2> HIDE DEF a, b
  <2>3. p0 + a <= Lap2
    BY <1>7, <1>8, <2>2, WordType
  <2> QED BY <2>2, <2>3 DEF a
<1>13. v \in WitnessObject
  BY <1>3, <1>5 DEF WitnessObject
<1>14. v.votes = votes /\ v.missed = x.missed
  BY <1>3 DEF WitnessObject
<1> HIDE DEF x, v
<1>15. y \in WitnessObject
  BY <1>2, <1>7, <1>11, <1>13, PlacedType
<1>16. /\ y.position = p0 /\ y.update = t /\ y.time = due /\ y.votes = votes
       /\ y.missed = x.missed
  BY <1>7, <1>13, <1>14, PlacedFields
<1> HIDE DEF y
<1>17. Racing(y, t)
  BY <1>2, <1>11, <1>12, <1>16 DEF Racing
<1>18. wit' \in [Witness -> WitnessObject]
  BY <1>2, <1>6, <1>15
<1>19. InRace(wit', t)
  BY <1>1, <1>2, <1>6, <1>17, <1>18 DEF InRace, t
<1>20. \A u \in Witness : wit'[u].missed = wit[u].missed
  BY <1>2, <1>6, <1>16 DEF x
<1>21. AllMissed(wit') = AllMissed(wit)
  BY <1>20, MissedSame
<1> QED BY <1>1, <1>6, <1>18, <1>19, <1>21, RestSame DEF t

\* A new key or fee.
LEMMA UpdateInv ==
  ASSUME ScheduleInv, NEW w \in Witness, NEW key \in BOOLEAN, NEW fee \in Nat,
         WitnessUpdate(w, key, fee)
  PROVE  ScheduleInv'
<1> DEFINE x == wit[w]
           z == [x EXCEPT !.fee = fee]
           y == [x EXCEPT !.key = key, !.fee = fee]
<1>1. TypeOK /\ InRace(wit, sched.time) /\ Slots
  BY DEF ScheduleInv
<1>2. wit \in [Witness -> WitnessObject] /\ x \in WitnessObject
  BY <1>1 DEF TypeOK
<1>3. wit' = [wit EXCEPT ![w] = y] /\ UNCHANGED <<sched, dgp, hf, keys, ballot, world>>
  BY DEF WitnessUpdate
<1>4. y \in WitnessObject
  <2>1. z \in WitnessObject
    BY <1>2 DEF WitnessObject
  <2>2. y = [z EXCEPT !.key = key]
    BY <1>2 DEF WitnessObject
  <2> HIDE DEF z, y
  <2>3. [z EXCEPT !.key = key] \in WitnessObject
    BY <2>1 DEF WitnessObject
  <2> QED BY <2>2, <2>3
<1>5. /\ y.position = x.position /\ y.update = x.update /\ y.time = x.time
      /\ y.votes = x.votes /\ y.missed = x.missed
  BY <1>2 DEF WitnessObject
<1> HIDE DEF y
<1>6. wit' \in [Witness -> WitnessObject]
  BY <1>2, <1>3, <1>4
<1>7. \A u \in Witness : /\ wit'[u].position = wit[u].position /\ wit'[u].update = wit[u].update
                         /\ wit'[u].time = wit[u].time /\ wit'[u].votes = wit[u].votes
                         /\ wit'[u].missed = wit[u].missed
  BY <1>2, <1>3, <1>5
<1>8. InRace(wit', sched.time)
  BY <1>1, <1>6, <1>7, SameRace
<1>9. AllMissed(wit') = AllMissed(wit)
  BY <1>7, MissedSame
<1> QED BY <1>1, <1>3, <1>6, <1>8, <1>9, RestSame
\* What the world of a behaviour lets happen has its type.
LEMMA WorldTypes ==
  ASSUME TypeOK
  PROVE  /\ \A g \in world.gaps : g \in Nat
         /\ \A d \in world.deltas : d \in Int
         /\ \A u \in world.updates : u[1] \in BOOLEAN /\ u[2] \in Nat
         /\ \A h \in world.headers : h[1] \in Nat /\ h[2] \in Nat \X Nat
<1>1. world \in [gaps : SUBSET Nat, deltas : SUBSET Int, updates : SUBSET (BOOLEAN \X Nat),
                 headers : SUBSET (Nat \X (Nat \X Nat)), maxHead : Nat]
  BY WorldsAssumption DEF TypeOK
<1>2. /\ world.gaps \in SUBSET Nat /\ world.deltas \in SUBSET Int
      /\ world.updates \in SUBSET (BOOLEAN \X Nat)
      /\ world.headers \in SUBSET (Nat \X (Nat \X Nat))
  BY <1>1
<1> QED BY <1>2

\* Every step keeps the invariant.
LEMMA NextSchedule ==
  ASSUME ScheduleInv, [Next]_vars
  PROVE  ScheduleInv'
<1>1. TypeOK
  BY DEF ScheduleInv
<1>2. ASSUME NEW gap \in world.gaps, NEW h \in world.headers, Block(gap, h[1], h[2])
      PROVE  ScheduleInv'
  <2>1. gap \in Nat /\ h[1] \in Nat /\ h[2] \in Nat \X Nat
    BY <1>1, WorldTypes
  <2> QED BY <1>2, <2>1, BlockInv
<1>3. ASSUME NEW w \in Witness, NEW delta \in world.deltas, AdjustWitnessVote(w, delta)
      PROVE  ScheduleInv'
  <2>1. delta \in Int
    BY <1>1, WorldTypes
  <2> QED BY <1>3, <2>1, AdjustInv
<1>4. ASSUME NEW w \in Witness, NEW u \in world.updates, WitnessUpdate(w, u[1], u[2])
      PROVE  ScheduleInv'
  <2>1. u[1] \in BOOLEAN /\ u[2] \in Nat
    BY <1>1, WorldTypes
  <2> QED BY <1>4, <2>1, UpdateInv
<1>5. CASE UNCHANGED vars
  <2>1. UNCHANGED <<sched, dgp, hf, keys, ballot, world>> /\ wit' = wit
    BY <1>5 DEF vars
  <2>2. /\ wit' \in [Witness -> WitnessObject] /\ InRace(wit', sched.time)
        /\ AllMissed(wit') = AllMissed(wit)
    BY <2>1 DEF ScheduleInv, TypeOK
  <2> QED BY <2>1, <2>2, RestSame
<1> QED BY <1>2, <1>3, <1>4, <1>5 DEF Next

\* The invariant holds in every state.
THEOREM ScheduleInvariant == Spec => []ScheduleInv
<1>1. Init => ScheduleInv
  BY InitSchedule
<1>2. ScheduleInv /\ [Next]_vars => ScheduleInv'
  BY NextSchedule
<1> QED BY <1>1, <1>2, PTL DEF Spec

\* No witness is ever scheduled in the past, and none runs past the end of its
\* lap: the comparison that adjust_witness_vote makes after adding catches
\* every sum that does not fit, and its subtraction never wraps around.
THEOREM NeverInThePast == Spec => []NotInThePast
<1>1. ScheduleInv => NotInThePast
  <2> SUFFICES ASSUME ScheduleInv PROVE NotInThePast
    OBVIOUS
  <2>1. TypeOK /\ InRace(wit, sched.time)
    BY DEF ScheduleInv
  <2>2. ASSUME NEW w \in Witness
        PROVE  /\ wit[w].update =< sched.time /\ sched.time =< wit[w].time
               /\ wit[w].position + wit[w].votes * (sched.time - wit[w].update) =< Lap2
    <3> DEFINE x == wit[w]
               t == sched.time
               s == t - x.update
               d == x.time - x.update
    <3>1. /\ x.votes \in Nat /\ x.update \in Nat /\ x.time \in Nat /\ x.position \in Nat /\ t \in Nat
      <4>1. x \in WitnessObject /\ sched \in ScheduleObject
        BY <2>1 DEF TypeOK
      <4> HIDE DEF x
      <4> QED BY <4>1, WordType DEF WitnessObject, ScheduleObject
    <3>2. x.update <= t /\ t <= x.time /\ x.position + x.votes * d <= Lap2
      BY <2>1 DEF InRace, Racing
    <3>3. s \in Nat /\ d \in Nat /\ s <= d
      <4> HIDE DEF x, t
      <4> QED BY <3>1, <3>2
    <3> HIDE DEF x, s, d
    <3>4. x.votes * s \in Nat /\ x.votes * d \in Nat /\ x.votes * s <= x.votes * d
      BY <3>1, <3>3, RunsOn
    <3> DEFINE a == x.votes * s
               b == x.votes * d
    <3>5. a \in Nat /\ b \in Nat /\ a <= b /\ x.position + b <= Lap2
      BY <3>2, <3>4
    <3> HIDE DEF a, b
    <3>6. x.position + a <= Lap2
      BY <3>1, <3>5, WordType
    <3> QED BY <3>2, <3>6 DEF a, s, x
  <2> QED BY <2>1, <2>2 DEF NotInThePast
<1> QED BY <1>1, ScheduleInvariant, PTL

\* Slots, blocks and absences are accounted for: participation_count is the
\* number of bits of recent_slots_filled, and no slot is both filled and missed.
THEOREM SlotsAreCounted == Spec => []SlotsCounted
<1>1. ScheduleInv => SlotsCounted
  <2> SUFFICES ASSUME ScheduleInv PROVE SlotsCounted
    OBVIOUS
  <2>1. /\ dgp.aslot = dgp.time /\ dgp.count = SumFunctionOnSet(dgp.bits, 1..Window)
        /\ dgp.bits \in [1..Window -> 0..1] /\ AllMissed(wit) + dgp.head =< dgp.aslot
    BY DEF ScheduleInv, Slots, Counted
  <2>2. DOMAIN dgp.bits = 1..Window /\ DOMAIN [w \in Witness |-> wit[w].missed] = Witness
    BY <2>1
  <2>3. /\ SumFunction(dgp.bits) = SumFunctionOnSet(dgp.bits, 1..Window)
        /\ SumFunction([w \in Witness |-> wit[w].missed]) = AllMissed(wit)
    BY <2>2 DEF SumFunction, AllMissed
  <2> QED BY <2>1, <2>3 DEF SlotsCounted
<1> QED BY <1>1, ScheduleInvariant, PTL

\* A hardfork that is to come had its majority at the last tally.
NextBacked ==
  hf.next > hf.last =>
    Cardinality({w \in DOMAIN ballot : ballot[w] = <<hf.next, hf.nextTime>>}) >= Required

\* What a step does to the hardforks.
HardforkStep ==
  /\ hf'.last >= hf.last
  /\ hf'.last > hf.last =>
       /\ hf'.nextTime =< dgp'.time
       /\ Cardinality({w \in DOMAIN ballot' :
              ballot'[w] = <<hf'.last, hf'.nextTime>>}) >= Required

\* A block tallies the votes, if it ends a round, and applies the next hardfork
\* once its time has come.
LEMMA BlockTallies ==
  ASSUME ScheduleInv, NextBacked, NEW gap \in Nat, NEW version \in Nat, NEW x \in Nat \X Nat,
         Block(gap, version, x)
  PROVE  NextBacked' /\ HardforkStep
<1> DEFINE ws == After(gap, version, x)
           now == dgp.time + gap + 1
           tally == HardforkTally(ws)
           Votes(b, v) == Cardinality({w \in DOMAIN b : b[w] = v})
<1>1. TypeOK /\ InRace(wit, sched.time)
  BY DEF ScheduleInv
<1>2. hf \in [last : Nat, next : Nat, nextTime : Nat]
  BY <1>1 DEF TypeOK
<1>3. ws \in [Witness -> WitnessObject]
  BY <1>1, AfterBlock DEF Met
<1>4. now \in Nat
  <2>1. dgp.time \in Nat
    BY <1>1 DEF TypeOK
  <2> QED BY <2>1
<1>5. /\ dgp'.time = now
      /\ \/ /\ ballot' = [w \in Deciding |-> ws[w].hfVote]
            /\ hf' = ProcessHardforks(tally, now)
         \/ ballot' = ballot /\ hf' = ProcessHardforks(hf, now)
  BY BlockParts
<1> HIDE DEF ws, now
<1>6. PICK h \in [last : Nat, next : Nat, nextTime : Nat] :
        /\ hf' = ProcessHardforks(h, now) /\ h.last = hf.last
        /\ h.next > h.last => Votes(ballot', <<h.next, h.nextTime>>) >= Required
  <2>1. CASE ballot' = ballot /\ hf' = ProcessHardforks(hf, now)
    BY <1>2, <2>1 DEF NextBacked
  <2>2. CASE /\ ballot' = [w \in Deciding |-> ws[w].hfVote]
             /\ hf' = ProcessHardforks(tally, now)
    <3>1. /\ tally \in [last : Nat, next : Nat, nextTime : Nat] /\ tally.last = hf.last
          /\ tally.next = hf.last \/ <<tally.next, tally.nextTime>> \in Backed(ws)
      BY <1>1, <1>3, TallyIs
    <3> HIDE DEF tally
    <3>2. ASSUME tally.next > tally.last
          PROVE  Votes(ballot', <<tally.next, tally.nextTime>>) >= Required
      <4> DEFINE v == <<tally.next, tally.nextTime>>
      <4>1. v \in Backed(ws)
        BY <1>2, <3>1, <3>2
      <4> HIDE DEF v
      <4>2. Cardinality({w \in Deciding : ws[w].hfVote = v}) >= Required
        BY <4>1 DEF Backed
      <4>3. {w \in DOMAIN ballot' : ballot'[w] = v} = {w \in Deciding : ws[w].hfVote = v}
        BY <2>2
      <4>4. Votes(ballot', v) >= Required
        BY <4>2, <4>3
      <4> QED BY <4>4 DEF v
    <3> QED BY <2>2, <3>1, <3>2
  <2> QED BY <1>5, <2>1, <2>2
<1> HIDE DEF tally
<1>7. /\ hf' \in [last : Nat, next : Nat, nextTime : Nat]
      /\ hf'.nextTime = h.nextTime /\ hf'.next = h.next
      /\ \/ hf'.last = h.last
         \/ hf'.last = h.next /\ h.last < h.next /\ h.nextTime =< now
  BY <1>4, <1>6, HardforksType
<1>8. NextBacked'
  BY <1>6, <1>7 DEF NextBacked
<1>9. HardforkStep
  <2>1. CASE hf'.last = h.last
    BY <1>2, <1>6, <2>1 DEF HardforkStep
  <2>2. CASE hf'.last = h.next /\ h.last < h.next /\ h.nextTime =< now
    <3>1. Votes(ballot', <<hf'.last, hf'.nextTime>>) >= Required
      BY <1>6, <1>7, <2>2
    <3> QED BY <1>2, <1>5, <1>6, <1>7, <2>2, <3>1 DEF HardforkStep
  <2> QED BY <1>7, <2>1, <2>2
<1> QED BY <1>8, <1>9

\* The hardforks of a chain only ever go forward, and each one, in whatever block
\* it is applied, had the votes of Required of the witnesses whose votes were
\* tallied last, and its time has come.
THEOREM HardforksBacked == Spec => HardforkBacked
<1>1. Init => NextBacked
  BY DEF Init, NextBacked
<1>2. ScheduleInv /\ NextBacked /\ [Next]_vars => NextBacked' /\ [HardforkStep]_vars
  <2> SUFFICES ASSUME ScheduleInv, NextBacked, [Next]_vars
               PROVE  NextBacked' /\ (HardforkStep \/ UNCHANGED vars)
    OBVIOUS
  <2>1. TypeOK
    BY DEF ScheduleInv
  <2>2. ASSUME NEW gap \in world.gaps, NEW h \in world.headers, Block(gap, h[1], h[2])
        PROVE  NextBacked' /\ HardforkStep
    <3>1. gap \in Nat /\ h[1] \in Nat /\ h[2] \in Nat \X Nat
      BY <2>1, WorldTypes
    <3> QED BY <2>2, <3>1, BlockTallies
  <2>3. ASSUME hf' = hf, ballot' = ballot PROVE NextBacked' /\ HardforkStep
    <3>1. hf.last \in Nat
      BY <2>1 DEF TypeOK
    <3> QED BY <2>3, <3>1 DEF NextBacked, HardforkStep
  <2>4. ASSUME NEW w \in Witness, NEW delta \in world.deltas, AdjustWitnessVote(w, delta)
        PROVE  NextBacked' /\ HardforkStep
    BY <2>3, <2>4 DEF AdjustWitnessVote
  <2>5. ASSUME NEW w \in Witness, NEW u \in world.updates, WitnessUpdate(w, u[1], u[2])
        PROVE  NextBacked' /\ HardforkStep
    BY <2>3, <2>5 DEF WitnessUpdate
  <2>6. CASE UNCHANGED vars
    BY <2>3, <2>6 DEF vars
  <2> QED BY <2>2, <2>4, <2>5, <2>6 DEF Next
<1>3. [][HardforkStep]_vars => HardforkBacked
  BY DEF HardforkBacked, HardforkStep
<1> QED BY <1>1, <1>2, <1>3, ScheduleInvariant, PTL DEF Spec

\* The schedule that a round draws.
LEMMA RedrawNames ==
  ASSUME TypeOK, NEW ws, InRace(ws, sched.time), NEW head \in Nat, Redraw(ws, head)
  PROVE  LET named == ToSet(sched'.shuffled)
         IN /\ Cardinality(named) = sched'.num
            /\ \A w \in named : wit'[w].key
            /\ \A w \in Witness \ named : wit'[w].key =>
                  Cardinality({v \in named : wit'[v].votes >= wit'[w].votes}) >= MaxVoted
            /\ 2 * Cardinality({w \in named : wit'[w].fee < sched'.fee}) =< sched'.num
            /\ 2 * Cardinality({w \in named : wit'[w].fee > sched'.fee}) =< sched'.num
<1> DEFINE E == Elected(ws)
           P == Processed(ws, E)
           C == P \cap (Running(ws) \ E)
           A == E \cup C
           named == ToSet(sched'.shuffled)
<1>1. ws \in [Witness -> WitnessObject] /\ Kept(ws, wit')
  BY RedrawRaces DEF InRace
<1>2. E \in SUBSET Running(ws) /\ Running(ws) \in SUBSET Witness
  BY DrawnFrom
<1>3. A \in SUBSET Running(ws) /\ A \in SUBSET Witness
  BY <1>2
<1>4. PICK order \in SetToSeqs(A) :
         /\ ScheduleFull(A) /\ sched'.shuffled = order /\ sched'.num = Len(order)
         /\ sched'.fee = MedianFee(ws, A)
  BY DEF Redraw
<1>5. E \subseteq A
  OBVIOUS
<1> HIDE DEF A
<1>6. named = A /\ sched'.num = Cardinality(A)
  BY <1>3, <1>4, OrderNames
<1>7. A # {}
  <2>1. Cardinality(A) \in 1..MaxWitnesses
    BY <1>3, <1>4, FullSize
  <2>2. Cardinality(A) # 0
    BY <2>1
  <2> QED BY <2>2, FS_EmptySet
<1>8. \A w \in Witness : /\ wit'[w].key <=> ws[w].key
                         /\ wit'[w].votes = ws[w].votes /\ wit'[w].fee = ws[w].fee
  BY <1>1 DEF Kept
<1>9. \A w \in A : wit'[w].key
  BY <1>3, <1>8 DEF Running
<1>10. ASSUME NEW w \in Witness \ A, wit'[w].key
       PROVE  Cardinality({v \in A : wit'[v].votes >= wit'[w].votes}) >= MaxVoted
  <2> DEFINE V == {v \in A : wit'[v].votes >= wit'[w].votes}
  <2>1. w \in Running(ws) \ E
    BY <1>5, <1>8, <1>10 DEF Running
  <2>2. Cardinality(E) >= MaxVoted /\ \A v \in E : ws[v].votes >= ws[w].votes
    BY <1>1, <2>1, ElectedBefore
  <2>3. E \subseteq V
    BY <1>2, <1>5, <1>8, <2>2
  <2>4. V \in SUBSET Witness /\ E \in SUBSET Witness
    BY <1>2, <1>3
  <2> HIDE DEF V, E
  <2>5. /\ IsFiniteSet(V) /\ Cardinality(V) \in Nat /\ Cardinality(E) \in Nat
    BY <2>4, DrawnFrom
  <2>6. Cardinality(E) <= Cardinality(V)
    BY <2>3, <2>5, FS_Subset
  <2>7. MaxVoted \in Nat
    BY ScheduleAssumption
  <2>8. Cardinality(V) >= MaxVoted
    BY <2>2, <2>5, <2>6, <2>7
  <2> QED BY <2>8 DEF V
<1>11. /\ {w \in A : wit'[w].fee < sched'.fee} = {w \in A : ws[w].fee < MedianFee(ws, A)}
       /\ {w \in A : wit'[w].fee > sched'.fee} = {w \in A : ws[w].fee > MedianFee(ws, A)}
  BY <1>3, <1>4, <1>8
<1>12. /\ 2 * Cardinality({w \in A : wit'[w].fee < sched'.fee}) =< Cardinality(A)
       /\ 2 * Cardinality({w \in A : wit'[w].fee > sched'.fee}) =< Cardinality(A)
  BY <1>1, <1>3, <1>7, <1>11, MedianIs
<1> HIDE DEF named
<1>13. /\ Cardinality(named) = sched'.num
       /\ \A w \in named : wit'[w].key
       /\ \A w \in Witness \ named : wit'[w].key =>
             Cardinality({v \in named : wit'[v].votes >= wit'[w].votes}) >= MaxVoted
       /\ 2 * Cardinality({w \in named : wit'[w].fee < sched'.fee}) =< sched'.num
       /\ 2 * Cardinality({w \in named : wit'[w].fee > sched'.fee}) =< sched'.num
  BY <1>6, <1>9, <1>10, <1>12
<1> QED BY <1>13 DEF named

\* Every schedule names different witnesses that can sign, leaves nobody out
\* who has the votes, and takes a fee in the middle of theirs.
THEOREM ScheduledByVotes == Spec => ScheduleByVotes
<1> DEFINE Drawn == LET named == ToSet(sched'.shuffled)
                    IN /\ Cardinality(named) = sched'.num
                       /\ \A w \in named : wit'[w].key
                       /\ \A w \in Witness \ named : wit'[w].key =>
                             Cardinality({v \in named : wit'[v].votes >= wit'[w].votes}) >= MaxVoted
                       /\ 2 * Cardinality({w \in named : wit'[w].fee < sched'.fee}) =< sched'.num
                       /\ 2 * Cardinality({w \in named : wit'[w].fee > sched'.fee}) =< sched'.num
           Step == dgp'.head # dgp.head /\ dgp'.head % MaxWitnesses = 0 => Drawn
<1>1. ScheduleInv /\ [Next]_vars => [Step]_vars
  <2> SUFFICES ASSUME ScheduleInv, [Next]_vars PROVE Step \/ UNCHANGED vars
    OBVIOUS
  <2>1. TypeOK /\ InRace(wit, sched.time)
    BY DEF ScheduleInv
  <2>2. ASSUME NEW gap \in world.gaps, NEW h \in world.headers, Block(gap, h[1], h[2]),
               dgp'.head % MaxWitnesses = 0
        PROVE  Drawn
    <3> DEFINE ws == After(gap, h[1], h[2])
    <3>1. gap \in Nat /\ h[1] \in Nat /\ h[2] \in Nat \X Nat
      BY <2>1, WorldTypes
    <3>2. Met(wit, ws)
      BY <2>1, <3>1, AfterBlock
    <3>3. InRace(ws, sched.time)
      BY <2>1, <3>2, SameRace DEF Met
    <3>4. dgp.head + 1 \in Nat
      BY <2>1 DEF TypeOK
    <3>5. Redraw(ws, dgp.head + 1)
      BY <2>2, BlockParts
    <3> HIDE DEF ws
    <3> QED BY <2>1, <3>3, <3>4, <3>5, RedrawNames
  <2> HIDE DEF Drawn
  <2>3. ASSUME dgp' = dgp PROVE Step
    BY <2>3
  <2>4. ASSUME NEW gap \in world.gaps, NEW h \in world.headers, Block(gap, h[1], h[2])
        PROVE  Step
    BY <2>2, <2>4
  <2>5. ASSUME NEW w \in Witness, NEW delta \in world.deltas, AdjustWitnessVote(w, delta)
        PROVE  Step
    BY <2>3, <2>5 DEF AdjustWitnessVote
  <2>6. ASSUME NEW w \in Witness, NEW u \in world.updates, WitnessUpdate(w, u[1], u[2])
        PROVE  Step
    BY <2>3, <2>6 DEF WitnessUpdate
  <2> HIDE DEF Step
  <2> QED BY <2>4, <2>5, <2>6 DEF Next
<1>2. [][Step]_vars => ScheduleByVotes
  BY DEF ScheduleByVotes
<1> QED BY <1>1, <1>2, ScheduleInvariant, PTL DEF Spec
=============================================================================
