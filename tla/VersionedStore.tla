--------------------------- MODULE VersionedStore ---------------------------
(***************************************************************************)
(* What a generic_index promises its users: a table of objects with a      *)
(* stack of snapshots.  Opening a session saves the table, undoing one     *)
(* puts the saved table back exactly, squashing forgets the newest         *)
(* snapshot, committing forgets the oldest ones, and nothing but an undo   *)
(* ever reads a snapshot.  How the snapshots are represented is left out:  *)
(* ChainBaseHistory shows that the undo records of chainbase implement it. *)
(***************************************************************************)
EXTENDS Integers, Sequences

CONSTANTS Id,      \* object ids
          Value,   \* contents of an object
          Null     \* "no such object"

VARIABLES obj,     \* Id -> Value or Null
          next_id, \* the id the next object gets
          snaps    \* saved tables, oldest first

vars == <<obj, next_id, snaps>>

Table == [obj |-> obj, next |-> next_id]

Init == /\ obj = [i \in Id |-> Null]
        /\ next_id = 0
        /\ snaps = <<>>

\* A new object takes the next id.
Insert == /\ next_id \in Id
          /\ \E v \in Value : obj' = [obj EXCEPT ![next_id] = v]
          /\ next_id' = next_id + 1
          /\ UNCHANGED snaps

\* An existing object changes or disappears.
Update == /\ \E i \in Id, v \in Value \cup {Null} :
                /\ obj[i] # Null
                /\ obj' = [obj EXCEPT ![i] = v]
          /\ UNCHANGED <<next_id, snaps>>

Save == /\ snaps' = Append(snaps, Table)
        /\ UNCHANGED <<obj, next_id>>

Restore == /\ snaps # <<>>
           /\ obj' = snaps[Len(snaps)].obj
           /\ next_id' = snaps[Len(snaps)].next
           /\ snaps' = SubSeq(snaps, 1, Len(snaps) - 1)

Merge == /\ snaps # <<>>
         /\ snaps' = SubSeq(snaps, 1, Len(snaps) - 1)
         /\ UNCHANGED <<obj, next_id>>

Forget == /\ \E k \in 0..Len(snaps) : snaps' = SubSeq(snaps, k + 1, Len(snaps))
          /\ UNCHANGED <<obj, next_id>>

Next == Insert \/ Update \/ Save \/ Restore \/ Merge \/ Forget

Spec == Init /\ [][Next]_vars
=============================================================================
