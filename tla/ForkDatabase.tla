---------------------------- MODULE ForkDatabase ----------------------------
(***************************************************************************)
(* fork_database (libraries/chain/fork_database.cpp): the tree of recent   *)
(* blocks from which the node picks the branch to follow.                  *)
(*                                                                         *)
(* A block stands for its contents; Prev gives its parent, and its height  *)
(* is block_num().  An item of the index points to its parent item by a    *)
(* weak_ptr, which is empty when the item was the first one inserted and   *)
(* dies with the parent item; a parent inserted again later is a new item  *)
(* the old children do not point to.                                       *)
(***************************************************************************)
EXTENDS Integers, Sequences, FiniteSets, FiniteSetsExt

CONSTANTS Block,       \* the blocks that may ever arrive
          Prev,        \* Prev[b]: the previous_id of b, a block or Genesis
          Genesis,     \* the id before the first block, block_id_type()
          None,        \* a null item pointer
          InitMaxSize  \* _max_size before the first set_max_size (1024)

ASSUME PrevAssumption == Prev \in [Block -> Block \cup {Genesis}]
ASSUME NoBlockAssumption == Genesis \notin Block /\ None \notin Block
ASSUME SizeAssumption == InitMaxSize \in Nat

\* The blocks from the first one of the chain to b.
Ancestry[b \in Block] == IF Prev[b] = Genesis THEN <<b>> ELSE Append(Ancestry[Prev[b]], b)
Height(b) == Len(Ancestry[b])

\* Each block of s builds on the one before, the first on Genesis.
IsChain(s) == \A h \in 1..Len(s) : Prev[s[h]] = IF h = 1 THEN Genesis ELSE s[h - 1]

\* Previous ids are hashes of contents: following them leads back to Genesis.
ASSUME TreeAssumption ==
  /\ Ancestry \in [Block -> Seq(Block)]
  /\ \A b \in Block : /\ IsChain(Ancestry[b])
                      /\ Ancestry[b] # <<>> /\ Ancestry[b][Height(b)] = b

VARIABLES index,       \* _index, as the set of blocks it holds
          lost,        \* blocks of the index, or held, whose item lost its prev
          head,        \* _head, possibly an item no longer in the index
          head_linked, \* whether _head->prev is alive
          max_size     \* _max_size

forkVars == <<index, lost, head, head_linked, max_size>>

ForkInit == /\ index = {} /\ lost = {}
            /\ head = None /\ head_linked = FALSE
            /\ max_size = InitMaxSize

NonNegative(n) == IF n < 0 THEN 0 ELSE n

\* The prev pointer of b's item was set, and the item it points to is alive.
HasPrev(b) == Prev[b] # Genesis /\ b \notin lost

-----------------------------------------------------------------------------
(* push_block *)

InRange(b) == head # None => Height(b) > NonNegative(Height(head) - max_size)
Links(b) == head # None /\ Prev[b] # Genesis
Linkable(b) == InRange(b) /\ (Links(b) => Prev[b] \in index)

\* The head push_block returns.  An equal height does not replace the head.
NewHead(b) == IF head = None \/ Height(b) > Height(head) THEN b ELSE head

\* Inserting a block the index holds changes nothing there, but the new
\* item still becomes the head when it is higher than the old one.
ForkPush(b) ==
  /\ index' = index \cup {b}
  /\ lost' = IF b \in index \/ Links(b) THEN lost ELSE lost \cup {b}
  /\ head' = NewHead(b)
  /\ head_linked' = IF head = None \/ Height(b) > Height(head) THEN Links(b) ELSE head_linked
  /\ UNCHANGED max_size

-----------------------------------------------------------------------------
(* start_block, pop_block, remove, set_head, set_max_size *)

\* Both are called where the program starts or ends, start_block on an empty
\* index.  Neither touches max_size, which is that of the new object.
ForkStart(b) == /\ index' = {b} /\ lost' = {b}
                /\ head' = b /\ head_linked' = FALSE

ForkReset == /\ index' = {} /\ lost' = {}
             /\ head' = None /\ head_linked' = FALSE

CanPop == head # None /\ head_linked

ForkPop == /\ head' = Prev[head]
           /\ head_linked' = HasPrev(Prev[head])
           /\ UNCHANGED <<index, lost, max_size>>

\* Erasing items kills the pointers of their children, unless the caller
\* still holds the item.  h becomes the head.
ForkErase(gone, held, h, linked) ==
  /\ index' = index \ gone
  /\ lost' = {b \in (index \ gone) \cup held : b \in lost \/ Prev[b] \in gone \ held}
  /\ head' = h
  /\ head_linked' = (linked /\ Prev[h] \notin gone \ held)

ForkRemove(b) == ForkErase({b}, {}, head, head_linked) /\ UNCHANGED max_size

\* The caller lets go of the items it held.
ForkRelease ==
  /\ lost' = {b \in index : b \in lost \/ Prev[b] \in Block \ index}
  /\ head_linked' = (head_linked /\ Prev[head] \in index)
  /\ UNCHANGED <<index, head, max_size>>

TooOld(size) == {b \in index : Height(b) < NonNegative(Height(head) - size)}

SetMaxSize(size, held) ==
  /\ max_size' = size
  /\ IF head = None THEN UNCHANGED <<index, lost, head, head_linked>>
     ELSE ForkErase(TooOld(size), held, head, head_linked)

-----------------------------------------------------------------------------
(* Queries *)

\* The walk from the head along prev to height n meets no dead pointer.
HeadReaches(n) ==
  \A h \in (n + 1)..Height(head) :
    IF h = Height(head) THEN head_linked ELSE HasPrev(Ancestry[head][h])

\* Mutant: any block of that height will do.
FetchAnyBranch(n) ==
  LET at == {b \in index : Height(b) = n}
  IN  IF at = {} THEN None ELSE CHOOSE b \in at : TRUE

FetchOnMainBranch(n) ==
  LET at == {b \in index : Height(b) = n}
  IN  IF Cardinality(at) = 1 THEN CHOOSE b \in at : TRUE
      ELSE IF at # {} /\ n <= Height(head) /\ HeadReaches(n) THEN Ancestry[head][n]
      ELSE None

\* fetch_branch_from(a, b): both branches end in the highest pair of blocks
\* with the same parent; ForkHeight is the height of that pair.
ForkHeight(a, b) ==
  Max({h \in 1..Min({Height(a), Height(b)}) :
        Prev[Ancestry[a][h]] = Prev[Ancestry[b][h]]})
Branch(a, h) == SubSeq(Ancestry[a], h, Height(a))
BranchesFound(a, b, blocks, dead) ==
  /\ {a, b} \subseteq blocks
  /\ \A c \in {a, b} : \A k \in (ForkHeight(a, b) + 1)..Height(c) : Ancestry[c][k] \notin dead
=============================================================================
