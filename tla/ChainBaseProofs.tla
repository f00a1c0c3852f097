-------------------------- MODULE ChainBaseProofs --------------------------
(***************************************************************************)
(* Proofs about generic_index for every set of keys, every set of data     *)
(* and every bound: type correctness, and that the undo records always     *)
(* describe the sessions they were written in.                             *)
(***************************************************************************)
EXTENDS ChainBaseHistory, TLAPS

\* The hooks keep the shape of an undo record.
LEMMA HooksType ==
  ASSUME NEW u \in UndoState, NEW i \in Id, obj \in [Id -> Slot]
  PROVE  /\ OnCreate(u, i) \in UndoState
         /\ OnModify(u, i) \in UndoState
         /\ OnRemove(u, i) \in UndoState
BY DEF UndoState, OnCreate, OnModify, OnRemove, Slot

\* Merging two undo records gives an undo record.
LEMMA SquashType ==
  ASSUME NEW a \in UndoState, NEW b \in UndoState
  PROVE  SquashStates(a, b) \in UndoState
BY DEF UndoState, SquashStates, MergedOld, MergedNew, Slot

\* undo() applied to a table gives a table.
LEMMA UndoneType ==
  ASSUME NEW u \in UndoState, NEW o \in [Id -> Slot]
  PROVE  Undone(u, o) \in [Id -> Slot]
BY DEF UndoState, Undone, PutBackRemoved, EraseNew, RestoreOld, Slot

\* The newest record is a record.
LEMMA HeadType ==
  ASSUME TypeOK, Enabled
  PROVE  Len(stack) \in Nat \ {0} /\ HeadState \in UndoState
BY DEF TypeOK, Enabled, HeadState

-----------------------------------------------------------------------------
\* Init establishes the type invariant.
LEMMA InitType == Init => TypeOK
<1> SUFFICES ASSUME Init PROVE TypeOK
  OBVIOUS
<1>1. obj \in [Id -> Slot] /\ next_id \in 0..MaxId
  BY BoundAssumption DEF Init, Slot
<1>2. stack \in Seq(UndoState)
  BY SMT DEF Init
<1>3. revision \in Int
  BY DEF Init
<1>4. unwinding \in BOOLEAN
  BY Zenon DEF Init
<1> QED BY <1>1, <1>2, <1>3, <1>4 DEF TypeOK

\* Every operation of generic_index keeps the type invariant.
LEMMA NextType == TypeOK /\ [Next]_vars => TypeOK'
<1> SUFFICES ASSUME TypeOK, [Next]_vars PROVE TypeOK'
  OBVIOUS
<1> USE DEF TypeOK
<1>1. ASSUME NEW v \in Value, Create(v) PROVE TypeOK'
  <2>1. obj' \in [Id -> Slot] /\ next_id' \in 0..MaxId
    BY <1>1, BoundAssumption DEF Create, Slot, Id
  <2>2. stack' \in Seq(UndoState)
    <3>1. CASE Enabled
      BY <1>1, <3>1, HeadType, HooksType DEF Create, ReplaceHead
    <3>2. CASE ~Enabled
      BY <1>1, <3>2 DEF Create
    <3> QED BY <3>1, <3>2
  <2> QED BY <1>1, <2>1, <2>2 DEF Create
<1>2. ASSUME NEW i \in Id, NEW d \in Data, Modify(i, d) PROVE TypeOK'
  <2>1. obj' \in [Id -> Slot]
    BY <1>2, NullAssumption DEF Modify, Slot, Value
  <2>2. stack' \in Seq(UndoState)
    <3>1. CASE Enabled
      BY <1>2, <3>1, HeadType, HooksType DEF Modify, ReplaceHead
    <3>2. CASE ~Enabled
      BY <1>2, <3>2 DEF Modify
    <3> QED BY <3>1, <3>2
  <2> QED BY <1>2, <2>1, <2>2 DEF Modify
<1>3. ASSUME NEW i \in Id, Remove(i) PROVE TypeOK'
  <2>1. obj' \in [Id -> Slot]
    BY <1>3 DEF Remove, Slot
  <2>2. stack' \in Seq(UndoState)
    <3>1. CASE Enabled
      BY <1>3, <3>1, HeadType, HooksType DEF Remove, ReplaceHead
    <3>2. CASE ~Enabled
      BY <1>3, <3>2 DEF Remove
    <3> QED BY <3>1, <3>2
  <2> QED BY <1>3, <2>1, <2>2 DEF Remove
<1>4. ASSUME StartUndoSession PROVE TypeOK'
  BY <1>4 DEF StartUndoSession, UndoState, Slot
<1>5. ASSUME UndoHead, unwinding' \in BOOLEAN PROVE TypeOK'
  <2>1. Enabled
    BY <1>5 DEF UndoHead
  <2>2. Len(stack) \in Nat \ {0} /\ HeadState \in UndoState
    BY <2>1, HeadType
  <2>3. obj' \in [Id -> Slot] /\ next_id' \in 0..MaxId
    BY <1>5, <2>2, UndoneType DEF UndoHead, UndoState
  <2> QED BY <1>5, <2>2, <2>3 DEF UndoHead
<1>6. ASSUME SquashOnly PROVE TypeOK'
  BY <1>6 DEF SquashOnly
<1>7. ASSUME SquashTwo PROVE TypeOK'
  <2>1. Len(stack) \in Nat /\ Len(stack) > 1
    BY <1>7 DEF SquashTwo
  <2>2. stack[Len(stack) - 1] \in UndoState /\ HeadState \in UndoState
    BY <2>1 DEF HeadState
  <2>3. SquashStates(stack[Len(stack) - 1], HeadState) \in UndoState
    BY <2>2, SquashType
  <2>4. SubSeq(stack, 1, Len(stack) - 1) \in Seq(UndoState)
    BY <2>1
  <2> QED BY <1>7, <2>1, <2>3, <2>4 DEF SquashTwo
<1>8. ASSUME NEW rev \in 0..MaxRev, Commit(rev) PROVE TypeOK'
  BY <1>8 DEF Commit
<1>9. ASSUME UndoAll PROVE TypeOK'
  BY <1>9 DEF UndoAll
<1>10. ASSUME NEW rev \in 0..MaxRev, SetRevision(rev) PROVE TypeOK'
  BY <1>10 DEF SetRevision
<1>11. ASSUME Undo PROVE TypeOK'
  <2>1. unwinding' \in BOOLEAN
    BY <1>11, Zenon DEF Undo
  <2> QED BY <1>5, <1>11, <2>1 DEF Undo
<1>12. ASSUME UndoAllStep PROVE TypeOK'
  <2>1. unwinding' \in BOOLEAN
    BY <1>12 DEF UndoAllStep
  <2> QED BY <1>5, <1>12, <2>1 DEF UndoAllStep
<1>13. CASE UNCHANGED vars
  BY <1>13 DEF vars
<1> HIDE DEF TypeOK
<1> QED
  BY <1>1, <1>2, <1>3, <1>4, <1>6, <1>7, <1>8, <1>9, <1>10, <1>11, <1>12, <1>13
     DEF Next, Squash

\* The table, the undo records and the counters of generic_index keep their
\* types, for every number of ids, sessions and revisions.
THEOREM TypeCorrect == Spec => []TypeOK
BY InitType, NextType, PTL DEF Spec

-----------------------------------------------------------------------------
(* What the hooks, undo and squash do to the relation between an undo      *)
(* record and the tables before and after its session.                     *)

TableType == [obj : [Id -> Slot], next : 0..MaxId]

\* undo(): from a table and the record of the session that led to it, the
\* table at the start of the session, whatever keys changed hands meanwhile.
LEMMA UndoneRestores ==
  ASSUME NEW u \in UndoState, NEW b \in TableType, NEW a \in TableType,
         Link(u, b, a), GoodTable(b)
  PROVE  Undone(u, a.obj) = b.obj
<1> DEFINE o == EraseNew(u, RestoreOld(u, a.obj))
<1>1. \A i \in Id : o[i] = IF u.removed_values[i] # Null THEN Null ELSE b.obj[i]
  BY DEF Link, Untouched, IsNew, IsOld, IsRemoved, EraseNew, RestoreOld
<1>2. \A i \in Id : u.removed_values[i] # Null => b.obj[i] = u.removed_values[i]
  BY DEF Link, Untouched, IsNew, IsOld, IsRemoved
<1>3. ASSUME NEW i \in Id, u.removed_values[i] # Null
      PROVE  ~KeyUsed(o, u.removed_values[i].key)
  BY <1>1, <1>2, <1>3 DEF KeyUsed, GoodTable
<1>4. \A i \in Id : Undone(u, a.obj)[i] = b.obj[i]
  BY <1>1, <1>2, <1>3 DEF Undone, PutBackRemoved
<1>5. b.obj \in [Id -> Slot] /\ Undone(u, a.obj) \in [Id -> Slot]
  BY UndoneType DEF TableType
<1> QED BY <1>4, <1>5

\* squash(): the merged record spans both sessions.
LEMMA SquashLinks ==
  ASSUME NEW x \in UndoState, NEW y \in UndoState,
         NEW b \in TableType, NEW m \in TableType, NEW a \in TableType,
         Link(x, b, m), Link(y, m, a), GoodTable(b), GoodTable(m)
  PROVE  Link(SquashStates(x, y), b, a)
<1> DEFINE z == SquashStates(x, y)
<1>1. z.old_next_id = b.next /\ b.next <= a.next
  BY DEF Link, SquashStates, UndoState, TableType
<1>2. ASSUME NEW i \in Id
      PROVE  Untouched(z, b, a, i) \/ IsNew(z, b, a, i)
               \/ IsOld(z, b, a, i) \/ IsRemoved(z, b, a, i)
  <2>1. /\ i \in z.new_ids <=> i \in MergedNew(x, y) /\ y.removed_values[i] = Null
        /\ z.old_values[i] = IF y.removed_values[i] # Null /\ i \notin MergedNew(x, y)
                             THEN Null ELSE MergedOld(x, y)[i]
        /\ z.removed_values[i] =
             IF y.removed_values[i] # Null /\ i \notin MergedNew(x, y) /\ x.removed_values[i] = Null
             THEN IF MergedOld(x, y)[i] # Null THEN MergedOld(x, y)[i] ELSE y.removed_values[i]
             ELSE x.removed_values[i]
    BY DEF SquashStates, UndoState, MergedNew
  <2>2. MergedOld(x, y)[i] =
           IF y.old_values[i] # Null /\ i \notin x.new_ids /\ x.old_values[i] = Null
           THEN y.old_values[i] ELSE x.old_values[i]
    BY DEF MergedOld
  <2>3. i \in MergedNew(x, y) <=> i \in x.new_ids \/ i \in y.new_ids
    BY DEF MergedNew
  <2>4. /\ i >= b.next => b.obj[i] = Null
        /\ i >= m.next => m.obj[i] = Null
        /\ b.next <= m.next
    BY DEF Link, GoodTable
  <2>5. Untouched(x, b, m, i) \/ IsNew(x, b, m, i) \/ IsOld(x, b, m, i) \/ IsRemoved(x, b, m, i)
    BY DEF Link
  <2>6. Untouched(y, m, a, i) \/ IsNew(y, m, a, i) \/ IsOld(y, m, a, i) \/ IsRemoved(y, m, a, i)
    BY DEF Link
  <2>7. i \in Int /\ b.next \in Int /\ m.next \in Int
    BY BoundAssumption DEF Id, TableType
  <2> HIDE DEF z
  <2> QED BY <2>1, <2>2, <2>3, <2>4, <2>5, <2>6, <2>7
             DEF Untouched, IsNew, IsOld, IsRemoved
<1> QED BY <1>1, <1>2 DEF Link

\* on_create(), on_modify() and on_remove() keep the newest record in step
\* with the table.
LEMMA HooksLink ==
  ASSUME TypeOK, GoodTable(Table),
         NEW u \in UndoState, NEW b \in TableType, GoodTable(b), Link(u, b, Table)
  PROVE  /\ \A v \in Value : Create(v) => Link(OnCreate(u, next_id), b, Table')
         /\ \A i \in Id, d \in Data : Modify(i, d) => Link(OnModify(u, i), b, Table')
         /\ \A i \in Id : Remove(i) => Link(OnRemove(u, i), b, Table')
<1> USE DEF Link, Untouched, IsNew, IsOld, IsRemoved, Table, TypeOK, UndoState, TableType
<1>1. ASSUME NEW v \in Value, Create(v) PROVE Link(OnCreate(u, next_id), b, Table')
  BY <1>1, BoundAssumption, NullAssumption DEF Create, OnCreate, GoodTable, Id
<1>2. ASSUME NEW i \in Id, NEW d \in Data, Modify(i, d) PROVE Link(OnModify(u, i), b, Table')
  <2>1. [key |-> obj[i].key, data |-> d] # Null
    BY <1>2, NullAssumption DEF Modify, Slot, Value
  <2> QED BY <1>2, <2>1 DEF Modify, OnModify
<1>3. ASSUME NEW i \in Id, Remove(i) PROVE Link(OnRemove(u, i), b, Table')
  BY <1>3 DEF Remove, OnRemove
<1> HIDE DEF Link
<1> QED BY <1>1, <1>2, <1>3

\* Each change leads from a good table to a good table: emplace refuses a
\* key in use, and no modifier changes a key.
LEMMA ChangeGood ==
  ASSUME TypeOK, GoodTable(Table)
  PROVE  /\ \A v \in Value : Create(v) => GoodTable(Table')
         /\ \A i \in Id, d \in Data : Modify(i, d) => GoodTable(Table')
         /\ \A i \in Id : Remove(i) => GoodTable(Table')
<1> USE DEF GoodTable, Table, TypeOK
<1>1. ASSUME NEW v \in Value, Create(v) PROVE GoodTable(Table')
  BY <1>1, BoundAssumption DEF Create, KeyUsed, Id
<1>2. ASSUME NEW i \in Id, NEW d \in Data, Modify(i, d) PROVE GoodTable(Table')
  BY <1>2 DEF Modify
<1>3. ASSUME NEW i \in Id, Remove(i) PROVE GoodTable(Table')
  BY <1>3 DEF Remove
<1> HIDE DEF GoodTable
<1> QED BY <1>1, <1>2, <1>3

-----------------------------------------------------------------------------
\* The inductive invariant: types, and records that describe their sessions.
HInv == TypeOK /\ snaps \in Seq(TableType) /\ RecordsDescribeSessions

\* A change of the table disturbs only the last link of the chain.
LEMMA LastLink ==
  ASSUME HInv, snaps' = snaps, GoodTable(Table'),
         NEW w, stack' = IF Enabled THEN ReplaceHead(w) ELSE stack,
         Enabled => Link(w, snaps[Len(snaps)], Table')
  PROVE  RecordsDescribeSessions'
<1>1. stack \in Seq(UndoState) /\ snaps \in Seq(TableType) /\ Len(snaps) = Len(stack)
  BY DEF HInv, TypeOK, RecordsDescribeSessions
<1>2. CASE ~Enabled
  BY <1>1, <1>2 DEF HInv, RecordsDescribeSessions, Enabled
<1>3. CASE Enabled
  <2>1. Len(stack) \in Nat \ {0} /\ Len(stack') = Len(stack)
    BY <1>1, <1>3 DEF Enabled, ReplaceHead
  <2>2. ASSUME NEW j \in 1..Len(snaps)
        PROVE  GoodTable(snaps[j]) /\ Link(stack'[j], snaps[j], After(j)')
    <3>1. CASE j = Len(snaps)
      BY <1>1, <1>3, <2>1, <3>1 DEF HInv, RecordsDescribeSessions, ReplaceHead, After
    <3>2. CASE j # Len(snaps)
      <4>1. stack'[j] = stack[j]
        BY <1>1, <1>3, <2>1, <3>2 DEF ReplaceHead
      <4>2. After(j)' = After(j)
        BY <3>2 DEF After
      <4> QED BY <4>1, <4>2 DEF HInv, RecordsDescribeSessions
    <3> QED BY <3>1, <3>2
  <2> QED BY <1>1, <2>1, <2>2 DEF RecordsDescribeSessions
<1> QED BY <1>2, <1>3

\* Facts about the newest record used by every operation below.
LEMMA HeadFacts ==
  ASSUME HInv
  PROVE  /\ TypeOK /\ Table \in TableType /\ GoodTable(Table)
         /\ stack \in Seq(UndoState) /\ snaps \in Seq(TableType)
         /\ Len(snaps) = Len(stack) /\ Len(stack) \in Nat
         /\ Enabled => /\ Len(stack) > 0
                       /\ HeadState \in UndoState
                       /\ snaps[Len(snaps)] \in TableType
                       /\ GoodTable(snaps[Len(snaps)])
                       /\ Link(HeadState, snaps[Len(snaps)], Table)
<1>1. /\ TypeOK /\ Table \in TableType /\ GoodTable(Table)
      /\ stack \in Seq(UndoState) /\ snaps \in Seq(TableType)
      /\ Len(snaps) = Len(stack) /\ Len(stack) \in Nat
  BY DEF HInv, RecordsDescribeSessions, TypeOK, Table, TableType
<1>2. ASSUME Enabled
      PROVE  /\ Len(stack) > 0
             /\ HeadState \in UndoState
             /\ snaps[Len(snaps)] \in TableType
             /\ GoodTable(snaps[Len(snaps)])
             /\ Link(HeadState, snaps[Len(snaps)], Table)
  <2>1. Len(stack) > 0
    BY <1>1, <1>2 DEF Enabled
  <2> QED BY <1>1, <2>1 DEF HInv, RecordsDescribeSessions, HeadState, After
<1> QED BY <1>1, <1>2

\* Create, Modify and Remove keep the records in step with the table.
LEMMA TableChange ==
  ASSUME HInv, snaps' = snaps,
         \/ \E v \in Value : Create(v)
         \/ \E i \in Id, d \in Data : Modify(i, d)
         \/ \E i \in Id : Remove(i)
  PROVE  RecordsDescribeSessions'
<1>1. ASSUME NEW v \in Value, Create(v) PROVE RecordsDescribeSessions'
  <2>1. GoodTable(Table')
    BY <1>1, HeadFacts, ChangeGood
  <2>2. Enabled => Link(OnCreate(HeadState, next_id), snaps[Len(snaps)], Table')
    BY <1>1, HeadFacts, HooksLink
  <2>3. stack' = IF Enabled THEN ReplaceHead(OnCreate(HeadState, next_id)) ELSE stack
    BY <1>1 DEF Create
  <2> QED BY <2>1, <2>2, <2>3, LastLink
<1>2. ASSUME NEW i \in Id, NEW d \in Data, Modify(i, d) PROVE RecordsDescribeSessions'
  <2>1. GoodTable(Table')
    BY <1>2, HeadFacts, ChangeGood
  <2>2. Enabled => Link(OnModify(HeadState, i), snaps[Len(snaps)], Table')
    BY <1>2, HeadFacts, HooksLink
  <2>3. stack' = IF Enabled THEN ReplaceHead(OnModify(HeadState, i)) ELSE stack
    BY <1>2 DEF Modify
  <2> QED BY <2>1, <2>2, <2>3, LastLink
<1>3. ASSUME NEW i \in Id, Remove(i) PROVE RecordsDescribeSessions'
  <2>1. GoodTable(Table')
    BY <1>3, HeadFacts, ChangeGood
  <2>2. Enabled => Link(OnRemove(HeadState, i), snaps[Len(snaps)], Table')
    BY <1>3, HeadFacts, HooksLink
  <2>3. stack' = IF Enabled THEN ReplaceHead(OnRemove(HeadState, i)) ELSE stack
    BY <1>3 DEF Remove
  <2> QED BY <2>1, <2>2, <2>3, LastLink
<1> QED BY <1>1, <1>2, <1>3

\* A new session starts from the current table with an empty record.
LEMMA StartLinks ==
  ASSUME HInv, StartUndoSession, snaps' = Append(snaps, Table)
  PROVE  RecordsDescribeSessions' /\ snaps' \in Seq(TableType)
<1>1. Table' = Table
  BY DEF StartUndoSession, Table
<1> DEFINE e == [old_values     |-> [i \in Id |-> Null],
                 removed_values |-> [i \in Id |-> Null],
                 new_ids        |-> {},
                 old_next_id    |-> next_id,
                 revision       |-> revision + 1]
<1>2. stack' = Append(stack, e)
  BY DEF StartUndoSession
<1>3. Link(e, Table, Table)
  BY HeadFacts DEF Link, Untouched, Table, TypeOK
<1> HIDE DEF e
<1>4. Len(snaps') = Len(stack') /\ Len(snaps') = Len(snaps) + 1 /\ snaps' \in Seq(TableType)
  BY <1>2, HeadFacts
<1>5. ASSUME NEW j \in 1..Len(snaps')
      PROVE  GoodTable(snaps'[j]) /\ Link(stack'[j], snaps'[j], After(j)')
  <2>1. CASE j = Len(snaps')
    BY <1>1, <1>2, <1>3, <1>4, <2>1, HeadFacts DEF After
  <2>2. CASE j # Len(snaps')
    <3>1. j \in 1..Len(snaps) /\ snaps'[j] = snaps[j] /\ stack'[j] = stack[j]
      BY <1>2, <1>4, <2>2, HeadFacts
    <3>2. After(j)' = After(j)
      BY <1>1, <1>4, <2>2, <3>1, HeadFacts DEF After
    <3> QED BY <3>1, <3>2 DEF HInv, RecordsDescribeSessions
  <2> QED BY <2>1, <2>2
<1> QED BY <1>1, <1>4, <1>5, HeadFacts DEF RecordsDescribeSessions

\* undo() puts the saved table back and leaves the older links alone.
LEMMA UndoLinks ==
  ASSUME HInv, UndoHead, snaps' = SubSeq(snaps, 1, Len(snaps) - 1)
  PROVE  /\ Table' = snaps[Len(snaps)]
         /\ RecordsDescribeSessions' /\ snaps' \in Seq(TableType)
<1>1. Enabled
  BY DEF UndoHead
<1>2. Table' = snaps[Len(snaps)]
  <2>1. Undone(HeadState, Table.obj) = snaps[Len(snaps)].obj
    BY <1>1, HeadFacts, UndoneRestores
  <2>2. HeadState.old_next_id = snaps[Len(snaps)].next
    BY <1>1, HeadFacts DEF Link
  <2> QED BY <1>1, <2>1, <2>2, HeadFacts DEF UndoHead, Table, TableType
<1>3. /\ Len(stack') = Len(stack) - 1 /\ Len(snaps') = Len(stack) - 1
      /\ snaps' \in Seq(TableType)
      /\ \A j \in 1..(Len(stack) - 1) : stack'[j] = stack[j] /\ snaps'[j] = snaps[j]
  BY <1>1, HeadFacts DEF UndoHead
<1>4. ASSUME NEW j \in 1..Len(snaps')
      PROVE  GoodTable(snaps'[j]) /\ Link(stack'[j], snaps'[j], After(j)')
  <2>1. After(j)' = After(j)
    BY <1>1, <1>2, <1>3, HeadFacts DEF After
  <2>2. j \in 1..Len(snaps)
    BY <1>1, <1>3, HeadFacts
  <2> QED BY <1>1, <1>3, <2>1, <2>2, HeadFacts DEF HInv, RecordsDescribeSessions
<1> QED BY <1>1, <1>2, <1>3, <1>4, HeadFacts DEF RecordsDescribeSessions

\* What the front and the back of a sequence are, element by element.
LEMMA FrontFacts ==
  ASSUME NEW S, NEW s \in Seq(S), Len(s) > 0
  PROVE  /\ SubSeq(s, 1, Len(s) - 1) \in Seq(S)
         /\ Len(SubSeq(s, 1, Len(s) - 1)) = Len(s) - 1
         /\ \A j \in 1..(Len(s) - 1) : SubSeq(s, 1, Len(s) - 1)[j] = s[j]
<1> DEFINE n == Len(s) - 1
<1>1. n \in Nat /\ \A j \in 1..n : s[j] \in S
  OBVIOUS
<1> HIDE DEF n
<1>2. SubSeq(s, 1, n) \in Seq(S) /\ Len(SubSeq(s, 1, n)) = n
  BY <1>1
<1>3. ASSUME NEW j \in 1..n PROVE SubSeq(s, 1, n)[j] = s[j]
  BY <1>1
<1> QED BY <1>2, <1>3 DEF n

LEMMA BackFacts ==
  ASSUME NEW S, NEW s \in Seq(S), NEW k \in 0..Len(s)
  PROVE  /\ SubSeq(s, k + 1, Len(s)) \in Seq(S)
         /\ Len(SubSeq(s, k + 1, Len(s))) = Len(s) - k
         /\ \A j \in 1..(Len(s) - k) : SubSeq(s, k + 1, Len(s))[j] = s[j + k]
<1>1. Len(s) \in Nat /\ k \in Nat
  OBVIOUS
<1>2. \A j \in (k + 1)..Len(s) : s[j] \in S
  BY <1>1
<1>3. SubSeq(s, k + 1, Len(s)) \in Seq(S)
  BY <1>1, <1>2
<1>4. Len(SubSeq(s, k + 1, Len(s))) = Len(s) - k
  BY <1>1
<1>5. ASSUME NEW j \in 1..(Len(s) - k) PROVE SubSeq(s, k + 1, Len(s))[j] = s[j + k]
  BY <1>1
<1> QED BY <1>3, <1>4, <1>5

\* squash() replaces the last two links by one that spans both.
LEMMA SquashStep ==
  ASSUME HInv, Squash, snaps' = SubSeq(snaps, 1, Len(snaps) - 1)
  PROVE  RecordsDescribeSessions' /\ snaps' \in Seq(TableType)
<1>1. Table' = Table
  BY DEF Squash, SquashOnly, SquashTwo, Table
<1>2. CASE SquashOnly
  <2>1. stack' = <<>> /\ Len(snaps) = 1
    BY <1>2, HeadFacts DEF SquashOnly
  <2>2. Len(snaps') = 0 /\ snaps' \in Seq(TableType)
    BY <2>1, HeadFacts
  <2> QED BY <1>1, <2>1, <2>2, HeadFacts DEF RecordsDescribeSessions
<1>3. CASE SquashTwo
  <2> DEFINE n == Len(stack)
             z == SquashStates(stack[n - 1], HeadState)
  <2>1. n \in Nat /\ n > 1 /\ Enabled /\ n = Len(snaps)
    BY <1>3, HeadFacts DEF SquashTwo, Enabled
  <2>2. /\ stack' = [SubSeq(stack, 1, n - 1) EXCEPT ![n - 1] = z]
        /\ stack[n - 1] \in UndoState
        /\ snaps[n - 1] \in TableType /\ GoodTable(snaps[n - 1])
        /\ Link(stack[n - 1], snaps[n - 1], snaps[n])
    BY <1>3, <2>1, HeadFacts DEF SquashTwo, HInv, RecordsDescribeSessions, After
  <2>3. Link(z, snaps[n - 1], Table)
    BY <2>1, <2>2, HeadFacts, SquashLinks
  <2> HIDE DEF z
  <2>4. /\ Len(stack') = n - 1 /\ Len(snaps') = n - 1 /\ snaps' \in Seq(TableType)
        /\ stack'[n - 1] = z
        /\ \A j \in 1..(n - 2) : stack'[j] = stack[j]
        /\ \A j \in 1..(n - 1) : snaps'[j] = snaps[j]
    <3>1. /\ Len(snaps') = n - 1 /\ snaps' \in Seq(TableType)
          /\ \A j \in 1..(n - 1) : snaps'[j] = snaps[j]
      BY <2>1, HeadFacts, FrontFacts
    <3> DEFINE f == SubSeq(stack, 1, n - 1)
    <3>2. f \in Seq(UndoState) /\ Len(f) = n - 1 /\ \A j \in 1..(n - 1) : f[j] = stack[j]
      BY <2>1, HeadFacts, FrontFacts
    <3>3. stack' = [f EXCEPT ![n - 1] = z]
      BY <2>2
    <3> HIDE DEF f
    <3>4. /\ Len(stack') = n - 1 /\ stack'[n - 1] = z
          /\ \A j \in 1..(n - 2) : stack'[j] = stack[j]
      BY <2>1, <3>2, <3>3
    <3> QED BY <3>1, <3>4
  <2>5. ASSUME NEW j \in 1..Len(snaps')
        PROVE  GoodTable(snaps'[j]) /\ Link(stack'[j], snaps'[j], After(j)')
    <3>1. CASE j = n - 1
      BY <1>1, <2>1, <2>2, <2>3, <2>4, <3>1 DEF After
    <3>2. CASE j # n - 1
      <4>1. After(j)' = After(j) /\ j \in 1..Len(snaps) /\ j \in 1..(n - 2)
        BY <2>1, <2>4, <3>2 DEF After
      <4> QED BY <2>4, <4>1 DEF HInv, RecordsDescribeSessions
    <3> QED BY <3>1, <3>2
  <2> QED BY <1>1, <2>4, <2>5, HeadFacts DEF RecordsDescribeSessions
<1> QED BY <1>2, <1>3 DEF Squash

\* commit() drops the oldest links.
LEMMA CommitStep ==
  ASSUME HInv, NEW rev \in 0..MaxRev, Commit(rev),
         snaps' = SubSeq(snaps, Len(snaps) - Len(stack') + 1, Len(snaps))
  PROVE  /\ RecordsDescribeSessions' /\ snaps' \in Seq(TableType)
         /\ \E k \in 0..Len(snaps) : snaps' = SubSeq(snaps, k + 1, Len(snaps))
<1>1. Table' = Table
  BY DEF Commit, Table
<1>2. PICK k \in 0..Len(stack) : stack' = SubSeq(stack, k + 1, Len(stack))
  BY DEF Commit
<1>3. /\ Len(stack') = Len(stack) - k
      /\ snaps' = SubSeq(snaps, k + 1, Len(snaps))
      /\ Len(snaps') = Len(snaps) - k /\ snaps' \in Seq(TableType)
      /\ \A j \in 1..(Len(stack) - k) : stack'[j] = stack[j + k] /\ snaps'[j] = snaps[j + k]
  <2>1. /\ Len(stack') = Len(stack) - k
        /\ \A j \in 1..(Len(stack) - k) : stack'[j] = stack[j + k]
    BY <1>2, HeadFacts, BackFacts
  <2>2. snaps' = SubSeq(snaps, k + 1, Len(snaps)) /\ k \in 0..Len(snaps)
    BY <2>1, HeadFacts
  <2>3. /\ Len(snaps') = Len(snaps) - k /\ snaps' \in Seq(TableType)
        /\ \A j \in 1..(Len(snaps) - k) : snaps'[j] = snaps[j + k]
    BY <2>2, HeadFacts, BackFacts
  <2> QED BY <2>1, <2>2, <2>3, HeadFacts
<1>4. ASSUME NEW j \in 1..Len(snaps')
      PROVE  GoodTable(snaps'[j]) /\ Link(stack'[j], snaps'[j], After(j)')
  <2>0. j \in Nat /\ k \in Nat /\ Len(snaps) \in Nat
        /\ Len(snaps') = Len(snaps) - k /\ j + k \in 1..Len(snaps)
    BY <1>2, <1>3, HeadFacts
  <2>1. After(j)' = After(j + k)
    <3>1. CASE j = Len(snaps')
      BY <1>1, <2>0, <3>1 DEF After
    <3>2. CASE j # Len(snaps')
      <4>1. j + 1 \in 1..(Len(stack) - k) /\ j + k # Len(snaps)
        BY <2>0, <3>2, HeadFacts
      <4>2. snaps'[j + 1] = snaps[(j + 1) + k] /\ (j + 1) + k = (j + k) + 1
        BY <1>3, <2>0, <4>1
      <4> QED BY <3>2, <4>1, <4>2 DEF After
    <3> QED BY <3>1, <3>2
  <2> QED BY <1>2, <1>3, <2>0, <2>1, HeadFacts DEF HInv, RecordsDescribeSessions
<1> QED BY <1>1, <1>2, <1>3, <1>4, HeadFacts DEF RecordsDescribeSessions

-----------------------------------------------------------------------------
\* HInv holds initially.
LEMMA HInitInv == HInit => HInv
<1> SUFFICES ASSUME HInit PROVE HInv
  OBVIOUS
<1>1. TypeOK /\ snaps \in Seq(TableType)
  BY InitType DEF HInit
<1>2. RecordsDescribeSessions
  BY DEF HInit, Init, RecordsDescribeSessions, GoodTable, Table
<1> QED BY <1>1, <1>2 DEF HInv

\* A step of HNext is a step of Next.
LEMMA HNextType == HInv /\ [HNext]_hvars => TypeOK'
<1> SUFFICES ASSUME HInv, [HNext]_hvars PROVE TypeOK'
  OBVIOUS
<1>1. [Next]_vars
  BY DEF HNext, Change, Next, hvars, vars
<1> QED BY <1>1, NextType DEF HInv

\* Every operation preserves HInv.
LEMMA HNextInv == HInv /\ [HNext]_hvars => HInv'
<1> SUFFICES ASSUME HInv, [HNext]_hvars PROVE RecordsDescribeSessions' /\ snaps' \in Seq(TableType)
  BY HNextType DEF HInv
<1>1. ASSUME \/ \E v \in Value : Create(v)
             \/ \E i \in Id, d \in Data : Modify(i, d)
             \/ \E i \in Id : Remove(i),
             snaps' = snaps
      PROVE  RecordsDescribeSessions' /\ snaps' \in Seq(TableType)
  BY <1>1, TableChange, HeadFacts
<1>2. ASSUME obj' = obj, next_id' = next_id, stack' = stack, snaps' = snaps
      PROVE  RecordsDescribeSessions' /\ snaps' \in Seq(TableType)
  BY <1>2 DEF HInv, RecordsDescribeSessions, Table, After
<1>3. ASSUME UndoAll \/ (\E rev \in 0..MaxRev : SetRevision(rev)), snaps' = snaps
      PROVE  RecordsDescribeSessions' /\ snaps' \in Seq(TableType)
  BY <1>2, <1>3 DEF UndoAll, SetRevision
<1>4. ASSUME StartUndoSession, snaps' = Append(snaps, Table)
      PROVE  RecordsDescribeSessions' /\ snaps' \in Seq(TableType)
  BY <1>4, StartLinks
<1>5. ASSUME Undo \/ UndoAllStep, snaps' = SubSeq(snaps, 1, Len(snaps) - 1)
      PROVE  RecordsDescribeSessions' /\ snaps' \in Seq(TableType)
  BY <1>5, UndoLinks DEF Undo, UndoAllStep
<1>6. ASSUME Squash, snaps' = SubSeq(snaps, 1, Len(snaps) - 1)
      PROVE  RecordsDescribeSessions' /\ snaps' \in Seq(TableType)
  BY <1>6, SquashStep
<1>7. ASSUME NEW rev \in 0..MaxRev, Commit(rev),
             snaps' = SubSeq(snaps, Len(snaps) - Len(stack') + 1, Len(snaps))
      PROVE  RecordsDescribeSessions' /\ snaps' \in Seq(TableType)
  BY <1>7, CommitStep
<1>8. CASE UNCHANGED hvars
  BY <1>2, <1>8 DEF hvars
<1> QED BY <1>1, <1>3, <1>4, <1>5, <1>6, <1>7, <1>8 DEF HNext, Change

\* Whatever sequence of creations, modifications, removals, undos, squashes
\* and commits generic_index goes through, each undo record is exactly the
\* difference between the tables before and after its session.
THEOREM RecordsCorrect == HSpec => []RecordsDescribeSessions
<1>1. HInv => RecordsDescribeSessions
  BY DEF HInv
<1> QED BY HInitInv, HNextInv, <1>1, PTL DEF HSpec

-----------------------------------------------------------------------------
(* Refinement *)

\* Each step of generic_index is a step of the abstract store.
LEMMA StepRefines == HInv /\ [HNext]_hvars => [Store!Next]_(Store!vars)
<1> SUFFICES ASSUME HInv, [HNext]_hvars PROVE [Store!Next]_(Store!vars)
  OBVIOUS
<1> USE DEF Store!Next, Store!vars
<1>0. TypeOK
  BY DEF HInv
<1>1. ASSUME NEW v \in Value, Create(v), snaps' = snaps PROVE Store!Insert
  BY <1>1 DEF Create, Store!Insert
<1>2. ASSUME NEW i \in Id, NEW d \in Data, Modify(i, d), snaps' = snaps PROVE Store!Update
  <2>1. [key |-> obj[i].key, data |-> d] \in Value
    BY <1>0, <1>2 DEF Modify, TypeOK, Slot, Value
  <2> QED BY <1>2, <2>1 DEF Modify, Store!Update
<1>3. ASSUME NEW i \in Id, Remove(i), snaps' = snaps PROVE Store!Update
  BY <1>3 DEF Remove, Store!Update
<1>4. ASSUME StartUndoSession, snaps' = Append(snaps, Table) PROVE Store!Save
  BY <1>4 DEF StartUndoSession, Store!Save, Store!Table, Table
<1>5. ASSUME UndoHead, snaps' = SubSeq(snaps, 1, Len(snaps) - 1) PROVE Store!Restore
  <2>1. Table' = snaps[Len(snaps)]
    BY <1>5, UndoLinks
  <2>2. obj' = snaps[Len(snaps)].obj /\ next_id' = snaps[Len(snaps)].next
    BY <2>1 DEF Table
  <2>3. snaps # <<>>
    BY <1>5, HeadFacts DEF UndoHead
  <2> QED BY <1>5, <2>2, <2>3 DEF Store!Restore
<1>6. ASSUME Squash, snaps' = SubSeq(snaps, 1, Len(snaps) - 1) PROVE Store!Merge
  <2>1. snaps # <<>>
    BY <1>6, HeadFacts DEF Squash, SquashOnly, SquashTwo
  <2> QED BY <1>6, <2>1 DEF Squash, SquashOnly, SquashTwo, Store!Merge
<1>7. ASSUME NEW rev \in 0..MaxRev, Commit(rev),
             snaps' = SubSeq(snaps, Len(snaps) - Len(stack') + 1, Len(snaps))
      PROVE  Store!Forget
  BY <1>7, CommitStep DEF Commit, Store!Forget
<1>8. ASSUME UndoAll \/ (\E rev \in 0..MaxRev : SetRevision(rev)), snaps' = snaps
      PROVE  UNCHANGED Store!vars
  BY <1>8 DEF UndoAll, SetRevision
<1>9. CASE UNCHANGED hvars
  BY <1>9 DEF hvars
<1> QED
  BY <1>1, <1>2, <1>3, <1>4, <1>5, <1>6, <1>7, <1>8, <1>9
     DEF HNext, Change, Undo, UndoAllStep

\* generic_index implements a store that keeps a whole copy of the table per
\* session: undo() returns to the copy, squash() and commit() lose nothing a
\* later undo() needs.
THEOREM UndoIsExact == HSpec => UndoRestores
<1>1. HInit => Store!Init
  BY DEF HInit, Init, Store!Init
<1> QED BY <1>1, HInitInv, HNextInv, StepRefines, PTL
           DEF HSpec, UndoRestores, Store!Spec

-----------------------------------------------------------------------------
(* Consequences for commit() and squash() *)

\* Every operation keeps the revisions of the records consecutive.
LEMMA RevisionsStep ==
  ASSUME TypeOK, RevisionsConsecutive, [Next]_vars
  PROVE  RevisionsConsecutive'
<1>0. stack \in Seq(UndoState) /\ Len(stack) \in Nat /\ revision \in Int
  BY DEF TypeOK
<1>1. ASSUME NEW w, w.revision = HeadState.revision, revision' = revision,
             stack' = IF Enabled THEN ReplaceHead(w) ELSE stack
      PROVE  RevisionsConsecutive'
  BY <1>0, <1>1 DEF RevisionsConsecutive, Enabled, ReplaceHead, HeadState
<1>2. ASSUME NEW i \in Id, Enabled
      PROVE  /\ OnCreate(HeadState, i).revision = HeadState.revision
             /\ OnModify(HeadState, i).revision = HeadState.revision
             /\ OnRemove(HeadState, i).revision = HeadState.revision
  BY <1>2, HeadType DEF OnCreate, OnModify, OnRemove, UndoState
<1>3. ASSUME NEW v \in Value, Create(v) PROVE RevisionsConsecutive'
  <2>1. CASE Enabled
    BY <1>1, <1>2, <1>3, <2>1 DEF Create
  <2>2. CASE ~Enabled
    BY <1>3, <2>2 DEF Create, RevisionsConsecutive
  <2> QED BY <2>1, <2>2
<1>4. ASSUME NEW i \in Id, NEW d \in Data, Modify(i, d) PROVE RevisionsConsecutive'
  <2>1. CASE Enabled
    BY <1>1, <1>2, <1>4, <2>1 DEF Modify
  <2>2. CASE ~Enabled
    BY <1>4, <2>2 DEF Modify, RevisionsConsecutive
  <2> QED BY <2>1, <2>2
<1>5. ASSUME NEW i \in Id, Remove(i) PROVE RevisionsConsecutive'
  <2>1. CASE Enabled
    BY <1>1, <1>2, <1>5, <2>1 DEF Remove
  <2>2. CASE ~Enabled
    BY <1>5, <2>2 DEF Remove, RevisionsConsecutive
  <2> QED BY <2>1, <2>2
<1>6. ASSUME StartUndoSession PROVE RevisionsConsecutive'
  <2> DEFINE e == [old_values     |-> [i \in Id |-> Null],
                   removed_values |-> [i \in Id |-> Null],
                   new_ids        |-> {},
                   old_next_id    |-> next_id,
                   revision       |-> revision + 1]
  <2>1. stack' = Append(stack, e) /\ revision' = revision + 1
    BY <1>6 DEF StartUndoSession
  <2>2. e.revision = revision + 1
    OBVIOUS
  <2> HIDE DEF e
  <2>3. ASSUME NEW j \in 1..Len(stack')
        PROVE  stack'[j].revision = revision' - (Len(stack') - j)
    <3>1. Len(stack') = Len(stack) + 1
      BY <1>0, <2>1
    <3>2. CASE j = Len(stack) + 1
      BY <1>0, <2>1, <2>2, <3>1, <3>2
    <3>3. CASE j \in 1..Len(stack)
      <4>1. stack'[j] = stack[j]
        BY <1>0, <2>1, <3>3
      <4>2. stack[j].revision = revision - (Len(stack) - j)
        BY <3>3 DEF RevisionsConsecutive
      <4> QED BY <1>0, <2>1, <3>1, <4>1, <4>2
    <3> QED BY <1>0, <3>1, <3>2, <3>3
  <2> QED BY <2>3 DEF RevisionsConsecutive
<1>7. ASSUME UndoHead PROVE RevisionsConsecutive'
  <2>1. Len(stack) > 0
    BY <1>0, <1>7 DEF UndoHead, Enabled
  <2>2. Len(stack') = Len(stack) - 1 /\ \A j \in 1..(Len(stack) - 1) : stack'[j] = stack[j]
    BY <1>0, <1>7, <2>1, FrontFacts DEF UndoHead
  <2>3. revision' = revision - 1
    BY <1>7 DEF UndoHead
  <2>4. ASSUME NEW j \in 1..Len(stack')
        PROVE  stack'[j].revision = revision' - (Len(stack') - j)
    <3>1. j \in 1..Len(stack) /\ stack'[j] = stack[j] /\ j \in Int
      BY <1>0, <2>1, <2>2
    <3>2. stack[j].revision = revision - (Len(stack) - j)
      BY <3>1 DEF RevisionsConsecutive
    <3> QED BY <1>0, <2>2, <2>3, <3>1, <3>2
  <2> QED BY <2>4 DEF RevisionsConsecutive
<1>8. ASSUME SquashOnly PROVE RevisionsConsecutive'
  BY <1>8 DEF SquashOnly, RevisionsConsecutive
<1>9. ASSUME SquashTwo PROVE RevisionsConsecutive'
  <2> DEFINE n == Len(stack)
             f == SubSeq(stack, 1, n - 1)
             z == SquashStates(stack[n - 1], HeadState)
  <2>1. n > 1 /\ stack' = [f EXCEPT ![n - 1] = z] /\ revision' = revision - 1
    BY <1>9 DEF SquashTwo
  <2>2. z.revision = stack[n - 1].revision
    BY <1>0, <2>1 DEF SquashStates, UndoState
  <2>3. f \in Seq(UndoState) /\ Len(f) = n - 1 /\ \A j \in 1..(n - 1) : f[j] = stack[j]
    BY <1>0, <2>1, FrontFacts
  <2> HIDE DEF f, z
  <2>4. /\ Len(stack') = n - 1 /\ stack'[n - 1] = z
        /\ \A j \in 1..(n - 2) : stack'[j] = stack[j]
    BY <1>0, <2>1, <2>3
  <2>5. ASSUME NEW j \in 1..Len(stack')
        PROVE  stack'[j].revision = revision' - (Len(stack') - j)
    <3>1. j \in 1..n /\ j \in Int /\ stack'[j].revision = stack[j].revision
      BY <1>0, <2>1, <2>2, <2>4
    <3>2. stack[j].revision = revision - (n - j)
      BY <3>1 DEF RevisionsConsecutive
    <3>3. stack'[j].revision = revision - (n - j) /\ n \in Int
      BY <1>0, <3>1, <3>2
    <3>4. Len(stack') = n - 1 /\ revision' = revision - 1 /\ revision \in Int
      BY <1>0, <2>1, <2>4
    <3>5. j \in Int
      BY <3>1
    <3> HIDE DEF n
    <3> QED BY <3>3, <3>4, <3>5
  <2> QED BY <2>5 DEF RevisionsConsecutive
<1>10. ASSUME NEW rev \in 0..MaxRev, Commit(rev) PROVE RevisionsConsecutive'
  <2>1. PICK k \in 0..Len(stack) : stack' = SubSeq(stack, k + 1, Len(stack))
    BY <1>10 DEF Commit
  <2>2. /\ Len(stack') = Len(stack) - k /\ revision' = revision
        /\ \A j \in 1..(Len(stack) - k) : stack'[j] = stack[j + k]
    BY <1>0, <1>10, <2>1, BackFacts DEF Commit
  <2>3. ASSUME NEW j \in 1..Len(stack')
        PROVE  stack'[j].revision = revision' - (Len(stack') - j)
    <3>0. Len(stack) \in Nat /\ k \in Nat /\ j \in Nat /\ j \in 1..(Len(stack) - k)
      BY <1>0, <2>1, <2>2
    <3>1. j + k \in 1..Len(stack) /\ stack'[j] = stack[j + k] /\ j \in Int /\ k \in Int
      BY <2>2, <3>0
    <3>2. stack[j + k].revision = revision - (Len(stack) - (j + k))
      BY <3>1 DEF RevisionsConsecutive
    <3> QED BY <1>0, <2>2, <3>1, <3>2
  <2> QED BY <2>3 DEF RevisionsConsecutive
<1>11. ASSUME NEW rev \in 0..MaxRev, SetRevision(rev) PROVE RevisionsConsecutive'
  BY <1>0, <1>11 DEF SetRevision, Enabled, RevisionsConsecutive
<1>12. ASSUME UndoAll PROVE RevisionsConsecutive'
  BY <1>12 DEF UndoAll, RevisionsConsecutive
<1>13. CASE UNCHANGED vars
  BY <1>13 DEF vars, RevisionsConsecutive
<1> QED
  BY <1>3, <1>4, <1>5, <1>6, <1>7, <1>8, <1>9, <1>10, <1>11, <1>12, <1>13
     DEF Next, Squash, Undo, UndoAllStep

\* commit(revision) finds one place to cut the undo stack, however squash(),
\* undo(), commit() and set_revision() were mixed: revisions have no gaps.
THEOREM RevisionsStayConsecutive == Spec => []RevisionsConsecutive
<1>1. Init => RevisionsConsecutive
  BY DEF Init, RevisionsConsecutive
<1> QED BY <1>1, InitType, NextType, RevisionsStep, PTL DEF Spec

\* Two neighbouring records describe sessions that meet in one table, so the
\* cases squash() calls impossible are.
LEMMA NeighboursCausal == HInv => SquashCausal
<1> SUFFICES ASSUME HInv,
                    NEW j \in 1..(Len(stack) - 1), NEW i \in Id
             PROVE  /\ i \in stack[j + 1].new_ids =>
                         /\ i \notin stack[j].new_ids
                         /\ stack[j].old_values[i] = Null
                         /\ stack[j].removed_values[i] = Null
                    /\ stack[j].removed_values[i] # Null =>
                         stack[j + 1].old_values[i] = Null /\ stack[j + 1].removed_values[i] = Null
  BY DEF SquashCausal
<1> DEFINE p == snaps[j]
           m == snaps[j + 1]
           q == After(j + 1)
           a == stack[j]
           b == stack[j + 1]
<1>1. j \in 1..Len(snaps) /\ j + 1 \in 1..Len(snaps) /\ j # Len(snaps)
  BY HeadFacts
<1>2. Link(a, p, m) /\ Link(b, m, q) /\ GoodTable(p) /\ GoodTable(m)
  BY <1>1 DEF HInv, RecordsDescribeSessions, After
<1>3. p.next \in Int /\ m.next \in Int /\ i \in Int
  <2>1. p \in TableType /\ m \in TableType
    BY <1>1, HeadFacts
  <2> QED BY <2>1, BoundAssumption DEF TableType, Id
<1> HIDE DEF p, m, q, a, b
<1>4. (i >= p.next => p.obj[i] = Null) /\ (i >= m.next => m.obj[i] = Null) /\ p.next <= m.next
  BY <1>2 DEF Link, GoodTable
<1>5. Untouched(a, p, m, i) \/ IsNew(a, p, m, i) \/ IsOld(a, p, m, i) \/ IsRemoved(a, p, m, i)
  BY <1>2 DEF Link
<1>6. Untouched(b, m, q, i) \/ IsNew(b, m, q, i) \/ IsOld(b, m, q, i) \/ IsRemoved(b, m, q, i)
  BY <1>2 DEF Link
<1>7. /\ i \in b.new_ids =>
           i \notin a.new_ids /\ a.old_values[i] = Null /\ a.removed_values[i] = Null
      /\ a.removed_values[i] # Null => b.old_values[i] = Null /\ b.removed_values[i] = Null
  BY <1>3, <1>4, <1>5, <1>6 DEF Untouched, IsNew, IsOld, IsRemoved
<1> QED BY <1>7 DEF a, b

\* squash() never meets a case it marks "violates causal timing": its two
\* assertions hold between every two neighbouring records, at every depth.
THEOREM SquashStaysCausal == HSpec => []SquashCausal
BY HInitInv, HNextInv, NeighboursCausal, PTL DEF HSpec
=============================================================================
