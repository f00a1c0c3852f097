-------------------------- MODULE ChainBaseHistory --------------------------
(***************************************************************************)
(* ChainBase with a history variable: snaps holds the whole table as it    *)
(* was when each open session started.  The code keeps no such copies; the *)
(* point of the module is that undo(), squash() and commit(), working on   *)
(* the undo records alone, always do what VersionedStore does with copies. *)
(***************************************************************************)
EXTENDS ChainBase

VARIABLE snaps

hvars == <<obj, next_id, stack, revision, unwinding, snaps>>

Table == [obj |-> obj, next |-> next_id]

HInit == Init /\ snaps = <<>>

Change ==
  \/ \E v \in Value : Create(v)
  \/ \E i \in Id, d \in Data : Modify(i, d)
  \/ \E i \in Id : Remove(i)
  \/ UndoAll
  \/ \E rev \in 0..MaxRev : SetRevision(rev)

HNext ==
  \/ Change /\ UNCHANGED snaps
  \/ StartUndoSession /\ snaps' = Append(snaps, Table)
  \/ (Undo \/ UndoAllStep \/ Squash) /\ snaps' = SubSeq(snaps, 1, Len(snaps) - 1)
  \/ /\ \E rev \in 0..MaxRev : Commit(rev)
     /\ snaps' = SubSeq(snaps, Len(snaps) - Len(stack') + 1, Len(snaps))

HSpec == HInit /\ [][HNext]_hvars

-----------------------------------------------------------------------------
\* The abstract store this table implements, on the same variables.
Store == INSTANCE VersionedStore WITH
           Id <- Id, Value <- Value, Null <- Null,
           obj <- obj, next_id <- next_id, snaps <- snaps

\* Every step of generic_index is a step of the abstract store: an undo puts
\* back the table exactly as it was when the session started, a squash and a
\* commit change no table, now or after any later undo.
UndoRestores == Store!Spec

-----------------------------------------------------------------------------
(* What an undo record says about the tables before and after its session. *)

Untouched(u, b, a, i) ==
  /\ i \notin u.new_ids /\ u.old_values[i] = Null /\ u.removed_values[i] = Null
  /\ b.obj[i] = a.obj[i]
IsNew(u, b, a, i) ==
  /\ i \in u.new_ids /\ u.old_values[i] = Null /\ u.removed_values[i] = Null
  /\ b.obj[i] = Null /\ a.obj[i] # Null /\ i >= b.next
IsOld(u, b, a, i) ==
  /\ i \notin u.new_ids /\ u.old_values[i] # Null /\ u.removed_values[i] = Null
  /\ b.obj[i] = u.old_values[i] /\ a.obj[i] # Null
IsRemoved(u, b, a, i) ==
  /\ i \notin u.new_ids /\ u.old_values[i] = Null /\ u.removed_values[i] # Null
  /\ b.obj[i] = u.removed_values[i] /\ a.obj[i] = Null

Link(u, b, a) ==
  /\ u.old_next_id = b.next
  /\ b.next <= a.next
  /\ \A i \in Id : Untouched(u, b, a, i) \/ IsNew(u, b, a, i)
                     \/ IsOld(u, b, a, i) \/ IsRemoved(u, b, a, i)

\* A table that can be current: ids not yet given out are free, keys unique.
GoodTable(t) ==
  /\ \A i \in Id : i >= t.next => t.obj[i] = Null
  /\ \A i, j \in Id :
       (t.obj[i] # Null /\ t.obj[j] # Null /\ t.obj[i].key = t.obj[j].key) => i = j

After(j) == IF j = Len(snaps) THEN Table ELSE snaps[j + 1]

\* Each record on the stack describes the difference between the table when
\* its session started and the table when the next one did, whatever the
\* sessions went through; from this undo, squash and commit are correct.
RecordsDescribeSessions ==
  /\ Len(snaps) = Len(stack)
  /\ GoodTable(Table)
  /\ \A j \in 1..Len(snaps) : GoodTable(snaps[j]) /\ Link(stack[j], snaps[j], After(j))
=============================================================================
