-------------------------- MODULE WitnessSchedule --------------------------
(***************************************************************************)
(* Who may produce which block.  Slots and the witness scheduled in each,  *)
(* missed slots and the shutdown of absent witnesses, the schedule that is *)
(* drawn every WLS_MAX_WITNESSES blocks from votes and virtual time, and   *)
(* the hardfork votes that are tallied when it is drawn.                   *)
(*                                                                         *)
(* One step applies one block, as far as it concerns these (the rest of    *)
(* applying it is in ChainDatabase and in Vesting), or one operation.      *)
(***************************************************************************)
EXTENDS Integers, Sequences, FiniteSetsExt, SequencesExt

CONSTANTS
    Witness,      \* witness ids, positive naturals in the order of names
    MaxWitnesses, \* WLS_MAX_WITNESSES
    MaxVoted,     \* WLS_MAX_VOTED_WITNESSES
    Required,     \* WLS_HARDFORK_REQUIRED_WITNESSES
    BlocksPerDay, \* WLS_BLOCKS_PER_DAY
    Window,       \* bits of recent_slots_filled: 128
    Word,         \* 2^128: fc::uint128 counts modulo Word
    Lap,          \* VIRTUAL_SCHEDULE_LAP_LENGTH
    NumHardforks, \* WLS_NUM_HARDFORKS
    StartVotes,   \* votes of the witnesses when a run starts
    MaxVote,      \* bound on votes
    Worlds        \* what happens to the witnesses, one of these records:
                  \*   gaps     how many slots may go by without a block
                  \*   deltas   changes of votes
                  \*   updates  what witness_update sets: <<has a key, account creation fee>>
                  \*   headers  what headers report: <<version, <<hardfork, time>> voted for>>
                  \*   maxHead  bound on the height of the chain

TimeshareWeight == 5
Lap2 == Word - 1    \* VIRTUAL_SCHEDULE_LAP_LENGTH2, fc::uint128::max_value()

ASSUME ScheduleAssumption ==
    /\ Witness \subseteq Nat \ {0} /\ IsFiniteSet(Witness) /\ Witness # {}
    /\ MaxWitnesses \in Nat \ {0} /\ MaxVoted \in 0..MaxWitnesses
    /\ Required \in 1..MaxWitnesses
    /\ Word \in Nat /\ Lap \in 1..Lap2 /\ Window \in Nat \ {0}
    /\ MaxVote \in Nat /\ StartVotes \in [Witness -> 0..MaxVote]

ASSUME WorldsAssumption ==
    Worlds \subseteq [gaps : SUBSET Nat, deltas : SUBSET Int,
                      updates : SUBSET (BOOLEAN \X Nat),
                      headers : SUBSET (Nat \X (Nat \X Nat)), maxHead : Nat]

VARIABLES
    wit,          \* the witness_objects
    sched,        \* the witness_schedule_object
    dgp,          \* head, time, aslot, filled and count of the global properties
    hf,           \* the hardfork_property_object
    keys,         \* who had a key after the last block: what a header is checked against
    ballot,       \* history: what the scheduled witnesses voted for at the last tally
    world         \* the one of Worlds this behaviour is in

vars == <<wit, sched, dgp, hf, keys, ballot, world>>
-----------------------------------------------------------------------------
(* Slots.  Time is counted in slots since genesis.                         *)

\* get_scheduled_witness: who signs the n-th slot after the head block.
ScheduledWitness(n) ==
    sched.shuffled[((dgp.aslot + n) % sched.num) + 1]

\* update_global_dynamic_data: the n slots before the block were missed by
\* their witnesses, unless by the signer itself.
Missed(w, n, signer) ==
    IF w = signer THEN 0 ELSE Cardinality({i \in 1..n : ScheduledWitness(i) = w})

\* Who missed n slots; one absent for more than a day loses its key.
Absent(x, n) ==
    [x EXCEPT !.missed = @ + n,
              !.key = IF dgp.head - x.confirmed > BlocksPerDay THEN FALSE ELSE @]

MissSlots(ws, n, signer) ==
    [w \in Witness |-> IF Missed(w, n, signer) = 0 THEN ws[w]
                       ELSE Absent(ws[w], Missed(w, n, signer))]

\* The oldest slot leaves recent_slots_filled and participation_count, and a
\* new one, filled or not, comes in.
Shift(d, filled) ==
    [bits |-> [k \in 1..Window |-> IF k = 1 THEN filled ELSE d.bits[k - 1]],
     count |-> d.count - d.bits[Window] + filled]

\* Mutant of FillSlots: the bits that fall out are not taken off the count.
FillNeverDrops(d, n) ==
    [bits |-> [k \in 1..Window |-> IF k =< n THEN 0 ELSE IF k = n + 1 THEN 1
                                   ELSE d.bits[k - n - 1]],
     count |-> d.count + 1]

\* The loop over the slot of the block and the n slots before it.  (The block
\* is shifted in first.)
FillSlots(d, n) ==
    LET fill[i \in 0..n] == IF i = 0 THEN Shift(d, 1) ELSE Shift(fill[i - 1], 0)
    IN fill[n]
-----------------------------------------------------------------------------
(* The schedule.                                                           *)

\* by_vote_name: most votes first, then by name.
ByVote(ws, v, w) ==
    ws[v].votes > ws[w].votes \/ (ws[v].votes = ws[w].votes /\ v < w)

\* by_schedule_time: earliest first, then by id.
ByScheduleTime(ws, v, w) ==
    ws[v].time < ws[w].time \/ (ws[v].time = ws[w].time /\ v < w)

\* The first n of S.
FirstByVote(ws, S, n) ==
    {w \in S : Cardinality({v \in S : ByVote(ws, v, w)}) < n}

\* The witnesses with a signing key.
Running(ws) == {w \in Witness : ws[w].key}

\* Mutant of Elected: a witness that was shut down stays elected.
ElectedByVotesOnly(ws) == FirstByVote(ws, Witness, MaxVoted)

\* The highest voted witnesses that have a key.
Elected(ws) == FirstByVote(ws, Running(ws), MaxVoted)

\* The witnesses in the lead of the virtual race, from the front of the index
\* until the schedule is full: who comes before the last one needed.  Everyone
\* the loop passes, elected or without a key, is processed.
Processed(ws, elected) ==
    {w \in Witness :
       Cardinality({v \in Running(ws) \ elected : ByScheduleTime(ws, v, w)})
          < MaxWitnesses - Cardinality(elected)}

\* Everyone advances to the time of the last one processed.
VirtualTime(ws, processed) ==
    IF processed = {} THEN sched.time ELSE Max({ws[w].time : w \in processed})

\* A witness at a position in the race, since some time and until it is due.
Placed(x, position, update, time) ==
    [x EXCEPT !.position = position, !.update = update, !.time = time]

\* reset_virtual_schedule_time
ResetVirtualTime(ws) ==
    [w \in Witness |-> Placed(ws[w], 0, 0, Lap2 \div (ws[w].votes + 1))]

\* Everyone processed starts a new lap at the new virtual time.  When that
\* does not fit in 128 bits the race starts again from 0.
Finish(ws, w, now) == (now + Lap \div (ws[w].votes + 1)) % Word

LapFits(ws, processed, now) == \A w \in processed : Finish(ws, w, now) >= now

NewLap(ws, processed, now) ==
    [w \in Witness |->
       IF w \in processed THEN Placed(ws[w], 0, now, Finish(ws, w, now)) ELSE ws[w]]

\* The scheduled witnesses of the round that ends: they decide on versions.
Deciding == {sched.shuffled[i] : i \in 1..sched.num}

\* The highest version that enough of them run, or a later one of.
MajorityVersion(ws) ==
    LET ok == {v \in {ws[w].version : w \in Deciding} :
                 Cardinality({w \in Deciding : ws[w].version >= v}) >= Required}
    IN IF ok = {} THEN sched.majority ELSE Max(ok)

\* What enough of them vote for, as <<hardfork, time>>.
Backed(ws) ==
    {x \in {ws[w].hfVote : w \in Deciding} :
       Cardinality({w \in Deciding : ws[w].hfVote = x}) >= Required}

\* Mutant of HardforkTally: a majority that is gone is not forgotten.
TallyKeepsNext(ws) ==
    IF Backed(ws) = {} THEN hf
    ELSE LET x == CHOOSE x \in Backed(ws) : \A y \in Backed(ws) :
                     x[1] < y[1] \/ (x[1] = y[1] /\ x[2] =< y[2])
         IN [hf EXCEPT !.next = x[1], !.nextTime = x[2]]

\* The least of these, if any.
HardforkTally(ws) ==
    IF Backed(ws) = {} THEN [hf EXCEPT !.next = hf.last]
    ELSE LET x == CHOOSE x \in Backed(ws) : \A y \in Backed(ws) :
                     x[1] < y[1] \/ (x[1] = y[1] /\ x[2] =< y[2])
         IN [hf EXCEPT !.next = x[1], !.nextTime = x[2]]

\* update_median_witness_props: the fee in the middle of the new schedule.
MedianFee(ws, active) ==
    LET middle == Cardinality(active) \div 2
    IN CHOOSE fee \in {ws[w].fee : w \in active} :
          /\ Cardinality({w \in active : ws[w].fee < fee}) =< middle
          /\ Cardinality({w \in active : ws[w].fee =< fee}) > middle

\* FC_ASSERT( active_witnesses.size() == expected_active_witnesses ): the
\* block is refused while too few witnesses have a key.
ScheduleFull(active) ==
    Cardinality(active) = Min({MaxWitnesses, Cardinality(Witness)})

\* Who is scheduled remembers as what.
Scheduled(ws, elected, chosen) ==
    [w \in Witness |->
       [ws[w] EXCEPT !.kind = IF w \in elected THEN "top"
                              ELSE IF w \in chosen THEN "timeshare" ELSE @]]

\* update_witness_schedule4 on the witnesses ws.  The order in which the active
\* witnesses are shuffled depends on the time of the block: any order may be.
Redraw(ws, head) ==
    LET elected == Elected(ws)
        processed == Processed(ws, elected)
        \* who of them has a key and was not elected
        chosen == processed \cap (Running(ws) \ elected)
        active == elected \cup chosen
        now == VirtualTime(ws, processed)
        fits == LapFits(ws, processed, now)
        lap == IF fits THEN NewLap(ws, processed, now) ELSE ResetVirtualTime(ws)
    IN /\ ScheduleFull(active)
       /\ wit' = Scheduled(lap, elected, chosen)
       /\ \E order \in SetToSeqs(active) :
             sched' = [shuffled |-> order, num |-> Len(order), time |-> IF fits THEN now ELSE 0,
                       majority |-> MajorityVersion(ws), fee |-> MedianFee(ws, active),
                       pay |-> Cardinality(elected) + TimeshareWeight * Cardinality(chosen),
                       nextShuffle |-> head + Len(order)]
-----------------------------------------------------------------------------
(* Hardforks.  Hardfork i brings version i.                                *)

\* process_hardforks applies every hardfork up to the next one once its time
\* has come; one that this program does not know throws.
HardforkDue(h, now) == h.last < h.next /\ h.nextTime =< now

HardforkKnown(h, now) == HardforkDue(h, now) => h.next =< NumHardforks

ProcessHardforks(h, now) ==
    IF HardforkDue(h, now) THEN [h EXCEPT !.last = h.next] ELSE h
-----------------------------------------------------------------------------
(* A block, after gap slots without one, by the witness of its slot.  The   *)
(* header reports the version the witness runs and its vote, x.  The header *)
(* is checked before the operations of the block are applied, which are the *)
(* steps since the last block: the signer needs a key before them.          *)

Told(signer, version, x) == [wit EXCEPT ![signer] = [@ EXCEPT !.version = version, !.hfVote = x]]

Signed(ws, signer, head) == [ws EXCEPT ![signer].confirmed = head]

Block(gap, version, x) ==
    LET signer == ScheduledWitness(gap + 1)
        head == dgp.head + 1
        now == dgp.time + gap + 1
        fill == FillSlots(dgp, gap)
        ws == Signed(MissSlots(Told(signer, version, x), gap, signer), signer, head)
        redraw == head % MaxWitnesses = 0
        tallied == IF redraw THEN HardforkTally(ws) ELSE hf
    IN /\ head =< world.maxHead
       /\ signer \in keys
       /\ version >= hf.last
       /\ HardforkKnown(tallied, now)
       /\ dgp' = [head |-> head, time |-> now, aslot |-> dgp.aslot + gap + 1,
                  bits |-> fill.bits, count |-> fill.count]
       /\ hf' = ProcessHardforks(tallied, now)
       /\ IF redraw
          THEN Redraw(ws, head)
          ELSE wit' = ws /\ UNCHANGED sched
       /\ keys' = Running(wit')
       /\ ballot' = IF redraw THEN [w \in Deciding |-> ws[w].hfVote] ELSE ballot
       /\ UNCHANGED world
-----------------------------------------------------------------------------
(* Operations.                                                             *)

\* Mutant of AdjustWitnessVote: a time beyond the 128 bits is kept as it wraps.
AdjustWraps(w, delta) ==
    LET votes == wit[w].votes + delta
    IN /\ votes \in 0..MaxVote
       /\ wit' = [wit EXCEPT ![w].votes = votes, ![w].update = sched.time,
                             ![w].time = (sched.time + Lap2 \div (votes + 1)) % Word]
       /\ UNCHANGED <<sched, dgp, hf, keys, ballot, world>>

\* adjust_witness_vote: the position gained so far is kept, and the rest of
\* the lap is run at the new speed.
AdjustWitnessVote(w, delta) ==
    LET votes == wit[w].votes + delta
        position == (wit[w].position + wit[w].votes * (sched.time - wit[w].update)) % Word
        time == (sched.time + ((Lap2 - position) % Word) \div (votes + 1)) % Word
    IN /\ votes \in 0..MaxVote
       /\ wit' = [wit EXCEPT ![w] =
                    Placed([@ EXCEPT !.votes = votes], position, sched.time,
                           IF time < sched.time THEN Lap2 ELSE time)]
       /\ UNCHANGED <<sched, dgp, hf, keys, ballot, world>>

\* witness_update_operation for a witness that exists.
WitnessUpdate(w, key, fee) ==
    /\ wit' = [wit EXCEPT ![w] = [@ EXCEPT !.key = key, !.fee = fee]]
    /\ wit' # wit
    /\ UNCHANGED <<sched, dgp, hf, keys, ballot, world>>
-----------------------------------------------------------------------------
\* init_genesis: all witnesses have a key and the first one is scheduled.
\* Witnesses beyond MaxWitnesses, created since, start from the same virtual
\* time; StartVotes not 0 are votes cast before the first round.
Init ==
    /\ wit = ResetVirtualTime(
               [w \in Witness |->
                  [votes |-> StartVotes[w], key |-> TRUE, position |-> 0, update |-> 0,
                   time |-> Lap2, missed |-> 0, confirmed |-> 0, kind |-> "miner",
                   version |-> 0, hfVote |-> <<0, 0>>, fee |-> 0]])
    /\ sched = [shuffled |-> <<Min(Witness)>>, num |-> 1, time |-> 0,
                majority |-> 0, fee |-> 0,
                pay |-> 25, nextShuffle |-> 1]
    /\ dgp = [head |-> 0, time |-> 0, aslot |-> 0,
              bits |-> [i \in 1..Window |-> 1], count |-> Window]
    /\ hf = [last |-> 0, next |-> 0, nextTime |-> 0]
    /\ keys = Witness /\ ballot = <<>>
    /\ world \in Worlds

Next ==
    \/ \E gap \in world.gaps, h \in world.headers : Block(gap, h[1], h[2])
    \/ \E w \in Witness, delta \in world.deltas : AdjustWitnessVote(w, delta)
    \/ \E w \in Witness, u \in world.updates : WitnessUpdate(w, u[1], u[2])

Spec == Init /\ [][Next]_vars
-----------------------------------------------------------------------------
(* What has to be true.                                                    *)

WitnessObject ==
    [votes : 0..MaxVote, key : BOOLEAN, position : 0..Lap2, update : 0..Lap2, time : 0..Lap2,
     missed : Nat, confirmed : Nat, kind : {"miner", "top", "timeshare"},
     version : Nat, hfVote : Nat \X Nat, fee : Nat]

ScheduleObject ==
    [shuffled : Seq(Witness), num : 1..MaxWitnesses, time : 0..Lap2, majority : Nat,
     fee : Nat, pay : Nat, nextShuffle : Nat]

\* Every field has its type and numbers stay within their width.
TypeOK ==
    /\ wit \in [Witness -> WitnessObject]
    /\ sched \in ScheduleObject /\ sched.num = Len(sched.shuffled)
    /\ dgp \in [head : Nat, time : Nat, aslot : Nat, bits : [1..Window -> 0..1], count : Int]
    /\ hf \in [last : Nat, next : Nat, nextTime : Nat]
    /\ keys \subseteq Witness /\ DOMAIN ballot \subseteq Witness
    /\ world \in Worlds /\ dgp.head =< world.maxHead

\* "witnesses with a low number of votes could overflow the time field and
\* end up with a scheduled time in the past": none ever does, whatever votes
\* change between rounds and wherever the 128 bits wrap; and none runs past
\* the end of its lap before it is processed, so that Lap2 - position in
\* adjust_witness_vote never wraps around.
NotInThePast ==
    /\ TypeOK
    /\ \A w \in Witness :
          /\ wit[w].update =< sched.time /\ sched.time =< wit[w].time
          /\ wit[w].position + wit[w].votes * (sched.time - wit[w].update) =< Lap2

\* A new schedule names different witnesses, each with a key, and leaves out
\* one with a key only when MaxVoted others have at least as many votes.  The
\* fee of the round is neither above nor below what more than half propose.
ScheduleByVotes ==
    [][ dgp'.head # dgp.head /\ dgp'.head % MaxWitnesses = 0 =>
          LET named == ToSet(sched'.shuffled)
          IN /\ Cardinality(named) = sched'.num
             /\ \A w \in named : wit'[w].key
             /\ \A w \in Witness \ named : wit'[w].key =>
                   Cardinality({v \in named : wit'[v].votes >= wit'[w].votes}) >= MaxVoted
             /\ 2 * Cardinality({w \in named : wit'[w].fee < sched'.fee}) =< sched'.num
             /\ 2 * Cardinality({w \in named : wit'[w].fee > sched'.fee}) =< sched'.num ]_vars

\* The slots since genesis are the blocks and the slots without a block, the
\* clock and the schedule agree on them, and participation_count is the
\* number of filled ones among the last Window slots.
SlotsCounted ==
    /\ dgp.aslot = dgp.time
    /\ dgp.count = SumFunction(dgp.bits)
    /\ SumFunction([w \in Witness |-> wit[w].missed]) + dgp.head =< dgp.aslot

\* A hardfork is never taken back, and none is applied, in whatever block its
\* time comes, unless Required of the witnesses that were scheduled at the last
\* tally voted for it and for a time that has passed: a majority that a later
\* tally did not find again carries nothing, and neither do votes reported
\* since, by witnesses that meanwhile lost their key or their place.
HardforkBacked ==
    [][ /\ hf'.last >= hf.last
        /\ hf'.last > hf.last =>
             /\ hf'.nextTime =< dgp'.time
             /\ Cardinality({w \in DOMAIN ballot' :
                    ballot'[w] = <<hf'.last, hf'.nextTime>>}) >= Required ]_vars

=============================================================================
