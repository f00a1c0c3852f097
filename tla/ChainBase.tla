------------------------------ MODULE ChainBase ------------------------------
(***************************************************************************)
(* chainbase::generic_index (libraries/chainbase/include/chainbase/        *)
(* chainbase.hpp): a multi-index table whose undo stack records, per       *)
(* session, the previous value of each modified object, each removed       *)
(* object, and the ids created.  Every piece of consensus state of the     *)
(* chain lives in such a table, and popping a block, abandoning a block    *)
(* under construction or dropping a failed transaction is an undo().       *)
(*                                                                         *)
(* An object is a key under a unique index and the rest of its fields.     *)
(* Modifiers change the rest and leave the key alone, as every modifier of *)
(* the chain library does.                                                 *)
(***************************************************************************)
EXTENDS Integers, Sequences

CONSTANTS Key,       \* values of the unique index
          Data,      \* values of the other fields
          Null,      \* no object, or no entry in an undo record
          MaxId,     \* bound: ids run over 0..MaxId-1
          MaxDepth,  \* bound: sessions open at once
          MaxRev     \* bound: revision numbers

Id == 0..(MaxId - 1)
Value == [key : Key, data : Data]
Slot == Value \cup {Null}

ASSUME NullAssumption == Null \notin Value
ASSUME BoundAssumption == MaxId \in Nat /\ MaxDepth \in Nat /\ MaxRev \in Nat

VARIABLES obj,        \* _indices: Id -> Slot
          next_id,    \* _next_id
          stack,      \* _stack, oldest undo_state first
          revision,   \* _revision
          unwinding   \* undo_all() is in its loop

vars == <<obj, next_id, stack, revision, unwinding>>

UndoState == [old_values : [Id -> Slot], removed_values : [Id -> Slot],
              new_ids : SUBSET Id, old_next_id : 0..MaxId, revision : Int]

Enabled == stack # <<>>
HeadState == stack[Len(stack)]

KeyUsed(o, k) == \E i \in Id : o[i] # Null /\ o[i].key = k

-----------------------------------------------------------------------------
(* The hooks that keep the newest undo record, applied to it by every      *)
(* change of the table.                                                    *)

OnCreate(u, i) == [u EXCEPT !.new_ids = @ \cup {i}]

\* Mutant: every modification is recorded, not only the first.
OnModifyAlways(u, i) ==
  IF i \in u.new_ids THEN u ELSE [u EXCEPT !.old_values[i] = obj[i]]

OnModify(u, i) ==
  IF i \in u.new_ids \/ u.old_values[i] # Null THEN u
  ELSE [u EXCEPT !.old_values[i] = obj[i]]

OnRemove(u, i) ==
  CASE i \in u.new_ids           -> [u EXCEPT !.new_ids = @ \ {i}]
    [] i \notin u.new_ids /\ u.old_values[i] # Null ->
         [u EXCEPT !.removed_values[i] = u.old_values[i], !.old_values[i] = Null]
    [] i \notin u.new_ids /\ u.old_values[i] = Null /\ u.removed_values[i] # Null -> u
    [] OTHER                     -> [u EXCEPT !.removed_values[i] = obj[i]]

ReplaceHead(u) == [stack EXCEPT ![Len(stack)] = u]

-----------------------------------------------------------------------------
(* Changes of the table *)

\* emplace(): a taken key makes it throw before anything has changed.
Create(v) ==
  /\ ~unwinding
  /\ next_id \in Id
  /\ ~KeyUsed(obj, v.key)
  /\ obj' = [obj EXCEPT ![next_id] = v]
  /\ next_id' = next_id + 1
  /\ stack' = IF Enabled THEN ReplaceHead(OnCreate(HeadState, next_id)) ELSE stack
  /\ UNCHANGED <<revision, unwinding>>

Modify(i, d) ==
  /\ ~unwinding
  /\ obj[i] # Null
  /\ obj' = [obj EXCEPT ![i] = [key |-> obj[i].key, data |-> d]]
  /\ stack' = IF Enabled THEN ReplaceHead(OnModify(HeadState, i)) ELSE stack
  /\ UNCHANGED <<next_id, revision, unwinding>>

\* Mutant: the object is recorded as removed and stays.
RemoveKeepsObject(i) ==
  /\ ~unwinding
  /\ obj[i] # Null
  /\ stack' = IF Enabled THEN ReplaceHead(OnRemove(HeadState, i)) ELSE stack
  /\ UNCHANGED <<obj, next_id, revision, unwinding>>

Remove(i) ==
  /\ ~unwinding
  /\ obj[i] # Null
  /\ obj' = [obj EXCEPT ![i] = Null]
  /\ stack' = IF Enabled THEN ReplaceHead(OnRemove(HeadState, i)) ELSE stack
  /\ UNCHANGED <<next_id, revision, unwinding>>

-----------------------------------------------------------------------------
(* Sessions *)

StartUndoSession ==
  /\ ~unwinding
  /\ Len(stack) < MaxDepth /\ revision < MaxRev
  /\ stack' = Append(stack, [old_values     |-> [i \in Id |-> Null],
                             removed_values |-> [i \in Id |-> Null],
                             new_ids        |-> {},
                             old_next_id    |-> next_id,
                             revision       |-> revision + 1])
  /\ revision' = revision + 1
  /\ UNCHANGED <<obj, next_id, unwinding>>

\* The three loops of undo(), in their order.
RestoreOld(u, o) == [i \in Id |-> IF u.old_values[i] # Null THEN u.old_values[i] ELSE o[i]]
EraseNew(u, o) == [i \in Id |-> IF i \in u.new_ids THEN Null ELSE o[i]]
\* An object whose key is taken is not put back (emplace refuses it).
PutBackRemoved(u, o) ==
  [i \in Id |-> IF u.removed_values[i] # Null /\ o[i] = Null /\ ~KeyUsed(o, u.removed_values[i].key)
                THEN u.removed_values[i] ELSE o[i]]

\* Mutant: removed objects are put back before the new ones are erased.
UndonePutBackFirst(u, o) == EraseNew(u, PutBackRemoved(u, RestoreOld(u, o)))

Undone(u, o) == PutBackRemoved(u, EraseNew(u, RestoreOld(u, o)))

UndoHead ==
  /\ Enabled
  /\ obj' = Undone(HeadState, obj)
  /\ next_id' = HeadState.old_next_id
  /\ stack' = SubSeq(stack, 1, Len(stack) - 1)
  /\ revision' = revision - 1

Undo == ~unwinding /\ UndoHead /\ UNCHANGED unwinding

\* Merging record b into the record a below it, id by id.  The loops run
\* over b.old_values, then b.new_ids, then b.removed_values.
MergedOld(a, b) ==
  [i \in Id |-> IF b.old_values[i] # Null /\ i \notin a.new_ids /\ a.old_values[i] = Null
                THEN b.old_values[i] ELSE a.old_values[i]]
MergedNew(a, b) == a.new_ids \cup b.new_ids

SquashStates(a, b) ==
  LET old == MergedOld(a, b)
      new == MergedNew(a, b)
      deleted(i) == b.removed_values[i] # Null /\ i \notin new
  IN  [a EXCEPT
        !.old_values = [i \in Id |-> IF deleted(i) THEN Null ELSE old[i]],
        !.new_ids = {i \in new : b.removed_values[i] = Null},
        !.removed_values = [i \in Id |->
            IF deleted(i) /\ a.removed_values[i] = Null
            THEN IF old[i] # Null THEN old[i] ELSE b.removed_values[i]
            ELSE a.removed_values[i]]]

\* squash() of the only session forgets its record and leaves the revision.
SquashOnly ==
  /\ ~unwinding
  /\ Len(stack) = 1
  /\ stack' = <<>>
  /\ UNCHANGED <<obj, next_id, revision, unwinding>>

\* Mutant: the revision is not decremented.
SquashTwoKeepsRevision ==
  /\ ~unwinding
  /\ Len(stack) > 1
  /\ stack' = [SubSeq(stack, 1, Len(stack) - 1) EXCEPT
                 ![Len(stack) - 1] = SquashStates(stack[Len(stack) - 1], HeadState)]
  /\ UNCHANGED <<obj, next_id, revision, unwinding>>

SquashTwo ==
  /\ ~unwinding
  /\ Len(stack) > 1
  /\ stack' = [SubSeq(stack, 1, Len(stack) - 1) EXCEPT
                 ![Len(stack) - 1] = SquashStates(stack[Len(stack) - 1], HeadState)]
  /\ revision' = revision - 1
  /\ UNCHANGED <<obj, next_id, unwinding>>

Squash == SquashOnly \/ SquashTwo

\* commit(): drop records from the front while they are not newer than rev.
CommitCount(rev, k) ==
  /\ \A j \in 1..k : stack[j].revision <= rev
  /\ k < Len(stack) => stack[k + 1].revision > rev

Commit(rev) ==
  /\ ~unwinding
  /\ \E k \in 0..Len(stack) : /\ CommitCount(rev, k)
                              /\ stack' = SubSeq(stack, k + 1, Len(stack))
  /\ UNCHANGED <<obj, next_id, revision, unwinding>>

\* undo_all() is its loop: one undo per step, nothing else in between.
UndoAll == /\ ~unwinding /\ Enabled
           /\ unwinding' = TRUE
           /\ UNCHANGED <<obj, next_id, stack, revision>>

UndoAllStep == /\ unwinding
               /\ UndoHead
               /\ unwinding' = (Len(stack) > 1)

SetRevision(rev) ==
  /\ ~unwinding
  /\ ~Enabled
  /\ revision' = rev
  /\ UNCHANGED <<obj, next_id, stack, unwinding>>

-----------------------------------------------------------------------------
Init ==
  /\ obj = [i \in Id |-> Null]
  /\ next_id = 0
  /\ stack = <<>>
  /\ revision = 0
  /\ unwinding = FALSE

Next ==
  \/ \E v \in Value : Create(v)
  \/ \E i \in Id, d \in Data : Modify(i, d)
  \/ \E i \in Id : Remove(i)
  \/ StartUndoSession
  \/ Undo
  \/ Squash
  \/ \E rev \in 0..MaxRev : Commit(rev)
  \/ UndoAll
  \/ UndoAllStep
  \/ \E rev \in 0..MaxRev : SetRevision(rev)

Spec == Init /\ [][Next]_vars

-----------------------------------------------------------------------------
\* Type correctness of the table and of every undo record.
TypeOK ==
  /\ obj \in [Id -> Slot]
  /\ next_id \in 0..MaxId
  /\ stack \in Seq(UndoState)
  /\ revision \in Int
  /\ unwinding \in BOOLEAN

\* The records on the stack carry consecutive revisions ending in _revision,
\* so that commit(revision) cuts the stack at one place whatever mixture of
\* squash, undo, commit and set_revision came before.
RevisionsConsecutive ==
  \A j \in 1..Len(stack) : stack[j].revision = revision - (Len(stack) - j)

\* squash() documents eight of its sixteen cases as "violates causal timing"
\* and asserts two of them: no object is new in b after any mention in a, and
\* none is changed or deleted in b after it was deleted in a.
SquashCausal ==
  \A j \in 1..(Len(stack) - 1), i \in Id :
    LET a == stack[j]
        b == stack[j + 1]
    IN  /\ i \in b.new_ids =>
             i \notin a.new_ids /\ a.old_values[i] = Null /\ a.removed_values[i] = Null
        /\ a.removed_values[i] # Null =>
             b.old_values[i] = Null /\ b.removed_values[i] = Null
=============================================================================
