------------------------------ MODULE BlockLog ------------------------------
(***************************************************************************)
(* block_log (libraries/chain/block_log.cpp): the append-only file of      *)
(* irreversible blocks and its index file.                                 *)
(*                                                                         *)
(* A file is a sequence of cells: the log alternates a block with its      *)
(* position, the index holds positions.  Positions count cells.  Blocks    *)
(* are their numbers, since the database appends them in order.  Writes    *)
(* stay in the stream's buffer until a flush or a close; a crash keeps any *)
(* prefix of what was not flushed, and may cut a record in two.            *)
(***************************************************************************)
EXTENDS Integers, Sequences, FiniteSets, SequencesExt

CONSTANTS MaxBlocks, \* bound: the last block number
          Torn       \* an index entry that was cut

ASSUME BlocksAssumption == MaxBlocks \in Nat
ASSUME TornAssumption == Torn \notin Nat

VARIABLES state,       \* closed, open, or failed: open() threw
          file,        \* block_file
          index,       \* index_file
          file_saved,  \* cells of block_file that have left the buffer
          index_saved, \* cells of index_file that have left the buffer
          block_write, \* whether block_stream is open for writing
          index_write, \* whether index_stream is open for writing
          head,        \* number of the block in my->head, 0 if none
          flushed      \* history: blocks appended before the last flush

vars == <<state, file, index, file_saved, index_saved, block_write, index_write, head, flushed>>

BlockCell(n) == [kind |-> "block", val |-> n]
PosCell(p) == [kind |-> "pos", val |-> p]
Records(f) == Len(f) \div 2

\* read_block: the block at position p.
BlockAt(p) == file[p + 1].val

-----------------------------------------------------------------------------
(* append, flush, close *)

\* The database appends the blocks in order.
AppendBlock ==
  LET b == head + 1
      pos == Len(file)
  IN  /\ state = "open" /\ b <= MaxBlocks
      /\ Len(index) = b - 1
      /\ file' = file \o <<BlockCell(b), PosCell(pos)>>
      /\ index' = Append(index, pos)
      /\ head' = b
      /\ block_write' = TRUE /\ index_write' = TRUE
      /\ UNCHANGED <<state, file_saved, index_saved, flushed>>

\* "Append to index file occuring at wrong position."
AppendRefused ==
  /\ state = "open" /\ head + 1 <= MaxBlocks
  /\ Len(index) # head
  /\ block_write' = TRUE /\ index_write' = TRUE
  /\ UNCHANGED <<state, file, index, file_saved, index_saved, head, flushed>>

\* Mutant: the block stream is not flushed.
FlushIndexOnly ==
  /\ state = "open"
  /\ file_saved' = file_saved /\ index_saved' = Len(index)
  /\ flushed' = head
  /\ UNCHANGED <<state, file, index, block_write, index_write, head>>

Flush ==
  /\ state = "open"
  /\ file_saved' = Len(file) /\ index_saved' = Len(index)
  /\ flushed' = head
  /\ UNCHANGED <<state, file, index, block_write, index_write, head>>

Close ==
  /\ state = "open"
  /\ file_saved' = Len(file) /\ index_saved' = Len(index)
  /\ state' = "closed" /\ head' = 0
  /\ block_write' = FALSE /\ index_write' = FALSE
  /\ flushed' = head
  /\ UNCHANGED <<file, index>>

\* read_block_by_num: switching a stream to reading closes it, which empties its
\* buffer.  The index is switched first, whatever the number is; of a number out
\* of range there is nothing to read, and one without an index entry throws.
ReadBlock ==
  /\ state = "open"
  /\ index_saved' = Len(index) /\ index_write' = FALSE
  /\ \/ head > 0 /\ index # <<>> /\ file_saved' = Len(file) /\ block_write' = FALSE
     \/ UNCHANGED <<file_saved, block_write>>
  /\ UNCHANGED <<state, file, index, head, flushed>>

-----------------------------------------------------------------------------
(* open *)

\* construct_index: read a block and its position and copy the position, as
\* long as the position read before is below that of the last block.
ConstructedIndex ==
  LET end == Last(file).val
      before(k) == IF k = 1 THEN 0 ELSE file[2 * (k - 1)].val
      loops == {k \in 1..Records(file) : before(k) < end}
  IN  [k \in 1..Cardinality(loops) |-> file[2 * k].val]

\* Mutant: only an index that is behind the log is built again.
IndexNotBehind == index # <<>> /\ Last(index) # Torn /\ Last(index) >= Last(file).val

\* The last entries of both files are compared, nothing else.
IndexUpToDate == index # <<>> /\ Last(index) = Last(file).val

\* A log without blocks: an index that is left over is removed.
OpenEmpty ==
  /\ state = "closed" /\ file = <<>>
  /\ state' = "open"
  /\ index' = <<>> /\ index_saved' = 0
  /\ head' = 0 /\ block_write' = TRUE /\ index_write' = TRUE
  /\ UNCHANGED <<file, file_saved, flushed>>

OpenLog ==
  /\ state = "closed" /\ file # <<>> /\ Last(file).kind = "pos" /\ index # <<Torn>>
  /\ state' = "open"
  /\ head' = BlockAt(Last(file).val)
  /\ block_write' = FALSE
  /\ IF IndexUpToDate
     THEN index_write' = FALSE /\ UNCHANGED <<index, index_saved>>
     ELSE index_write' = TRUE /\ index' = ConstructedIndex /\ index_saved' = 0
  /\ UNCHANGED <<file, file_saved, flushed>>

\* The last 8 bytes of a cut record are no position, and an index that is only
\* a cut entry has no 8 bytes: reading there throws, and not an
\* assert_exception, so the application does not fall back.
OpenFails ==
  /\ state = "closed" /\ file # <<>>
  /\ Last(file).kind = "block" \/ index = <<Torn>>
  /\ state' = "failed"
  /\ UNCHANGED <<file, index, file_saved, index_saved, block_write, index_write, head, flushed>>

\* --resync-blockchain: wipe( ..., include_blocks = true ).
Wipe ==
  /\ state \in {"closed", "failed"}
  /\ state' = "closed"
  /\ file' = <<>> /\ index' = <<>> /\ file_saved' = 0 /\ index_saved' = 0
  /\ block_write' = FALSE /\ index_write' = FALSE /\ head' = 0 /\ flushed' = 0

-----------------------------------------------------------------------------
Crash ==
  /\ state = "open"
  /\ state' = "closed" /\ head' = 0 /\ block_write' = FALSE /\ index_write' = FALSE
  /\ \E n \in file_saved..Len(file) : file' = SubSeq(file, 1, n) /\ file_saved' = n
  /\ \E n \in index_saved..Len(index), torn \in BOOLEAN :
       /\ torn => n < Len(index)
       /\ index' = IF torn THEN Append(SubSeq(index, 1, n), Torn) ELSE SubSeq(index, 1, n)
       /\ index_saved' = Len(index')
  /\ UNCHANGED flushed

Init ==
  /\ state = "closed" /\ head = 0 /\ block_write = FALSE /\ index_write = FALSE
  /\ file = <<>> /\ index = <<>> /\ file_saved = 0 /\ index_saved = 0 /\ flushed = 0

Next ==
  \/ AppendBlock \/ AppendRefused \/ Flush \/ Close \/ ReadBlock
  \/ OpenEmpty \/ OpenLog \/ OpenFails \/ Wipe
  \/ Crash

Spec == Init /\ [][Next]_vars

-----------------------------------------------------------------------------
(* Properties *)

TypeOK ==
  /\ state \in {"closed", "open", "failed"}
  /\ file \in Seq([kind : {"block", "pos"}, val : Nat]) /\ index \in Seq(Nat \cup {Torn})
  /\ file_saved \in 0..Len(file) /\ index_saved \in 0..Len(index)
  /\ block_write \in BOOLEAN /\ index_write \in BOOLEAN
  /\ head \in 0..MaxBlocks /\ flushed \in 0..MaxBlocks

\* The assertion "Wrong block was read from block log." never fires: whatever
\* a crash left of the two files, each index entry that open() keeps or builds
\* leads to the block of that number.  What the header promises, access by
\* block number through an index that a scan of the log can reconstruct, means
\* that every block has its entry, so that the assertion in append never fires
\* either.  A log of a single block is excepted: construct_index stops at its
\* loop condition and leaves the index empty.
RightBlockRead ==
  /\ TypeOK
  /\ state = "open" =>
       /\ \A n \in 1..Len(index) : n <= head /\ BlockAt(index[n]) = n
       /\ head # 1 => Len(index) = head

\* A block appended before a flush is there after any crash and open().
FlushedSurvive == state = "open" => flushed <= head
=============================================================================
