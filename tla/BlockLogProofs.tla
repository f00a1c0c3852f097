--------------------------- MODULE BlockLogProofs ---------------------------
(***************************************************************************)
(* Proofs about block_log for a log of any length: whatever a crash keeps  *)
(* of the two files, open() finds or builds an index that leads to the     *)
(* right blocks, and a flushed block is still there.                       *)
(***************************************************************************)
EXTENDS BlockLog, FiniteSetTheorems, TLAPS

Cell == [kind : {"block", "pos"}, val : Nat]
Entry == Nat \cup {Torn}

\* The log alternates block k with the position 2(k - 1) where it starts, up
\* to wherever a crash cut it.
GoodFile(f) ==
  /\ f \in Seq(Cell)
  /\ \A k \in Nat : /\ 2 * k - 1 \in 1..Len(f) => f[2 * k - 1] = BlockCell(k)
                    /\ 2 * k \in 1..Len(f) => f[2 * k] = PosCell(2 * (k - 1))

\* Entry n of the index is the position of block n; only the last entry may
\* be cut.
GoodIndex(x) ==
  /\ x \in Seq(Entry)
  /\ \A n \in 1..Len(x) : x[n] = 2 * (n - 1) \/ (x[n] = Torn /\ n = Len(x))

\* The inductive invariant.  RightBlockRead says nothing of a closed log, so
\* it is not inductive: what open() finds has to be described as well, and
\* the two files need not agree on their lengths then.
LogInv ==
  /\ TypeOK
  /\ GoodFile(file) /\ Len(file) <= 2 * MaxBlocks
  /\ GoodIndex(index)
  /\ 2 * flushed <= file_saved
  /\ state = "open" => /\ Len(file) = 2 * head
                       /\ Len(index) <= head
                       /\ head # 1 => Len(index) = head
                       /\ \A n \in 1..Len(index) : index[n] = 2 * (n - 1)

-----------------------------------------------------------------------------
\* Every length is even or odd.
LEMMA Parity ==
  ASSUME NEW n \in Nat
  PROVE  \E k \in Nat : n = 2 * k \/ n = 2 * k + 1
<1> DEFINE k == n \div 2
<1>1. k \in Nat /\ (n = 2 * k \/ n = 2 * k + 1)
  OBVIOUS
<1> QED BY <1>1

\* A log that ends in a position holds whole records, and the position is
\* that of its last block.
LEMMA WholeRecords ==
  ASSUME NEW f, GoodFile(f), f # <<>>, Last(f).kind = "pos"
  PROVE  \E r \in Nat \ {0} : /\ Len(f) = 2 * r
                              /\ Last(f) = PosCell(2 * (r - 1))
                              /\ f[2 * (r - 1) + 1] = BlockCell(r)
<1>1. Len(f) \in Nat \ {0}
  BY DEF GoodFile
<1>2. PICK k \in Nat : Len(f) = 2 * k \/ Len(f) = 2 * k + 1
  BY <1>1, Parity
<1>3. CASE Len(f) = 2 * k + 1
  <2>1. k + 1 \in Nat /\ 2 * (k + 1) - 1 = Len(f) /\ Len(f) \in 1..Len(f)
    BY <1>1, <1>3
  <2>2. f[Len(f)] = BlockCell(k + 1)
    BY <2>1 DEF GoodFile
  <2> QED BY <2>2 DEF Last, BlockCell
<1>4. CASE Len(f) = 2 * k
  <2>1. k \in Nat \ {0} /\ 2 * k \in 1..Len(f) /\ 2 * k - 1 \in 1..Len(f)
        /\ 2 * k - 1 = 2 * (k - 1) + 1
    BY <1>1, <1>2, <1>4
  <2>2. f[2 * k] = PosCell(2 * (k - 1)) /\ f[2 * k - 1] = BlockCell(k)
    BY <2>1 DEF GoodFile
  <2>3. Last(f) = PosCell(2 * (k - 1)) /\ f[2 * (k - 1) + 1] = BlockCell(k)
    BY <1>4, <2>1, <2>2 DEF Last
  <2> QED BY <1>4, <2>1, <2>3
<1> QED BY <1>2, <1>3, <1>4

\* A prefix of a good log is a good log.
LEMMA PrefixGood ==
  ASSUME NEW f, GoodFile(f), NEW n \in 0..Len(f)
  PROVE  GoodFile(SubSeq(f, 1, n)) /\ Len(SubSeq(f, 1, n)) = n
<1>1. f \in Seq(Cell) /\ Len(f) \in Nat /\ n \in Nat
  BY DEF GoodFile
<1> DEFINE g == SubSeq(f, 1, n)
<1>2. g \in Seq(Cell) /\ Len(g) = n /\ \A i \in 1..n : g[i] = f[i]
  BY <1>1
<1> HIDE DEF g
<1>3. ASSUME NEW k \in Nat
      PROVE  /\ 2 * k - 1 \in 1..Len(g) => g[2 * k - 1] = BlockCell(k)
             /\ 2 * k \in 1..Len(g) => g[2 * k] = PosCell(2 * (k - 1))
  <2>1. ASSUME 2 * k - 1 \in 1..n PROVE g[2 * k - 1] = BlockCell(k)
    <3>1. 2 * k - 1 \in 1..Len(f)
      BY <1>1, <2>1
    <3> QED BY <1>2, <2>1, <3>1 DEF GoodFile
  <2>2. ASSUME 2 * k \in 1..n PROVE g[2 * k] = PosCell(2 * (k - 1))
    <3>1. 2 * k \in 1..Len(f)
      BY <1>1, <2>2
    <3> QED BY <1>2, <2>2, <3>1 DEF GoodFile
  <2> QED BY <1>2, <2>1, <2>2
<1>4. GoodFile(g)
  BY <1>2, <1>3 DEF GoodFile
<1> QED BY <1>2, <1>4 DEF g

\* append() of the next block to whole records.
LEMMA AppendGood ==
  ASSUME NEW f, GoodFile(f), NEW r \in Nat, Len(f) = 2 * r,
         NEW g, g = f \o <<BlockCell(r + 1), PosCell(Len(f))>>
  PROVE  GoodFile(g) /\ Len(g) = 2 * (r + 1)
<1>1. BlockCell(r + 1) \in Cell /\ PosCell(Len(f)) \in Cell /\ f \in Seq(Cell)
  BY DEF BlockCell, PosCell, Cell, GoodFile
<1>2. /\ g \in Seq(Cell) /\ Len(g) = 2 * r + 2
      /\ \A i \in 1..(2 * r) : g[i] = f[i]
      /\ g[2 * r + 1] = BlockCell(r + 1) /\ g[2 * r + 2] = PosCell(2 * r)
  <2> DEFINE t == <<BlockCell(r + 1), PosCell(Len(f))>>
  <2>1. t \in Seq(Cell) /\ Len(t) = 2 /\ t[1] = BlockCell(r + 1) /\ t[2] = PosCell(2 * r)
    BY <1>1
  <2>2. g = f \o t
    OBVIOUS
  <2> HIDE DEF t
  <2> DEFINE n == 2 * r
  <2>3. n \in Nat /\ Len(f) = n
    OBVIOUS
  <2> HIDE DEF n
  <2>4. g \in Seq(Cell) /\ Len(g) = n + 2
    BY <1>1, <2>1, <2>2, <2>3
  <2>5. \A i \in 1..n : g[i] = f[i]
    BY <1>1, <2>1, <2>2, <2>3
  <2>6. g[n + 1] = t[1] /\ g[n + 2] = t[2]
    BY <1>1, <2>1, <2>2, <2>3
  <2> QED BY <2>1, <2>4, <2>5, <2>6 DEF n
<1>3. ASSUME NEW k \in Nat
      PROVE  /\ 2 * k - 1 \in 1..Len(g) => g[2 * k - 1] = BlockCell(k)
             /\ 2 * k \in 1..Len(g) => g[2 * k] = PosCell(2 * (k - 1))
  <2>1. CASE k = r + 1
    <3>1. 2 * k - 1 = 2 * r + 1 /\ 2 * k = 2 * r + 2 /\ 2 * (k - 1) = 2 * r
      BY <2>1
    <3> QED BY <1>2, <2>1, <3>1
  <2>2. CASE k <= r
    <3>1. ASSUME 2 * k - 1 \in 1..Len(g) PROVE g[2 * k - 1] = BlockCell(k)
      <4>1. 2 * k - 1 \in 1..Len(f)
        BY <2>2, <3>1
      <4> QED BY <1>2, <4>1 DEF GoodFile
    <3>2. ASSUME 2 * k \in 1..Len(g) PROVE g[2 * k] = PosCell(2 * (k - 1))
      <4>1. 2 * k \in 1..Len(f)
        BY <2>2, <3>2
      <4> QED BY <1>2, <4>1 DEF GoodFile
    <3> QED BY <3>1, <3>2
  <2>3. CASE k > r + 1
    BY <1>2, <2>3
  <2> QED BY <2>1, <2>2, <2>3
<1>4. GoodFile(g)
  BY <1>2, <1>3 DEF GoodFile
<1>5. Len(g) = 2 * (r + 1)
  BY <1>2
<1> QED BY <1>4, <1>5

\* What a crash leaves of a good index, cut or not, is a good index.
LEMMA CutIndexGood ==
  ASSUME NEW x \in Seq(Entry), \A n \in 1..Len(x) : x[n] = 2 * (n - 1), NEW n \in 0..Len(x)
  PROVE  GoodIndex(SubSeq(x, 1, n)) /\ GoodIndex(Append(SubSeq(x, 1, n), Torn))
<1>1. Len(x) \in Nat /\ n \in Nat /\ Torn \in Entry
  BY DEF Entry
<1> DEFINE y == SubSeq(x, 1, n)
<1>2. y \in Seq(Entry) /\ Len(y) = n /\ \A i \in 1..n : y[i] = x[i]
  BY <1>1
<1> HIDE DEF y
<1>3. GoodIndex(y)
  BY <1>1, <1>2 DEF GoodIndex
<1>4. Append(y, Torn) \in Seq(Entry) /\ Len(Append(y, Torn)) = n + 1
      /\ Append(y, Torn)[n + 1] = Torn
      /\ \A i \in 1..n : Append(y, Torn)[i] = y[i]
  BY <1>1, <1>2
<1> DEFINE z == Append(y, Torn)
<1> HIDE DEF z
<1>5. ASSUME NEW i \in 1..Len(z) PROVE z[i] = 2 * (i - 1) \/ (z[i] = Torn /\ i = Len(z))
  <2>1. CASE i \in 1..n
    BY <1>1, <1>2, <1>4, <2>1 DEF z
  <2>2. CASE i = n + 1
    BY <1>4, <2>2 DEF z
  <2> QED BY <1>1, <1>4, <2>1, <2>2 DEF z
<1>6. GoodIndex(z)
  BY <1>4, <1>5 DEF GoodIndex, z
<1> QED BY <1>3, <1>6 DEF y, z

\* construct_index() of a log of whole records: an entry per block, but none
\* when there is a single block.
LEMMA Constructed ==
  ASSUME GoodFile(file), NEW r \in Nat \ {0}, Len(file) = 2 * r,
         Last(file) = PosCell(2 * (r - 1))
  PROVE  /\ ConstructedIndex \in Seq(Nat)
         /\ Len(ConstructedIndex) = IF r = 1 THEN 0 ELSE r
         /\ \A n \in 1..Len(ConstructedIndex) : ConstructedIndex[n] = 2 * (n - 1)
<1> DEFINE before(k) == IF k = 1 THEN 0 ELSE file[2 * (k - 1)].val
           loops == {k \in 1..Records(file) : before(k) < Last(file).val}
           m == IF r = 1 THEN 0 ELSE r
<1>1. Records(file) = r /\ Last(file).val = 2 * (r - 1)
  BY DEF Records, PosCell
<1>2. ASSUME NEW k \in 1..r PROVE file[2 * k].val = 2 * (k - 1)
  <2>1. k \in Nat /\ 2 * k \in 1..Len(file)
    OBVIOUS
  <2>2. file[2 * k] = PosCell(2 * (k - 1))
    BY <2>1 DEF GoodFile
  <2> QED BY <2>2 DEF PosCell
<1>3. ASSUME NEW k \in 1..r, k # 1 PROVE before(k) = 2 * (k - 2)
  <2>1. k - 1 \in 1..r /\ (k - 1) - 1 = k - 2
    BY <1>3
  <2>2. file[2 * (k - 1)].val = 2 * ((k - 1) - 1)
    BY <1>2, <2>1
  <2> QED BY <1>3, <2>1, <2>2
<1>4. loops = 1..m
  <2>1. ASSUME NEW k \in 1..r PROVE before(k) < 2 * (r - 1) <=> k \in 1..m
    <3>1. CASE k = 1
      BY <3>1
    <3>2. CASE k # 1
      <4>1. before(k) = 2 * (k - 2)
        BY <1>3, <3>2
      <4> HIDE DEF before
      <4> QED BY <3>2, <4>1
    <3> QED BY <3>1, <3>2
  <2> HIDE DEF before
  <2> QED BY <1>1, <2>1
<1>5. Cardinality(loops) = m
  <2>1. 1 \in Int /\ m \in Int /\ (IF 1 > m THEN 0 ELSE m - 1 + 1) = m
    OBVIOUS
  <2> HIDE DEF m, loops
  <2>2. Cardinality(1..m) = m
    BY <2>1, FS_Interval
  <2> QED BY <1>4, <2>2
<1>6. ConstructedIndex = [k \in 1..m |-> file[2 * k].val]
  BY <1>5 DEF ConstructedIndex
<1>7. \A k \in 1..m : file[2 * k].val = 2 * (k - 1) /\ 2 * (k - 1) \in Nat
  BY <1>2
<1> HIDE DEF loops, before
<1>8. m \in Nat
  OBVIOUS
<1> QED BY <1>6, <1>7, <1>8

-----------------------------------------------------------------------------
\* LogInv holds of a fresh log.
LEMMA LogInit == Init => LogInv
<1> SUFFICES ASSUME Init PROVE LogInv
  OBVIOUS
<1>1. /\ state = "closed" /\ file = <<>> /\ index = <<>> /\ head = 0 /\ flushed = 0
      /\ file_saved = 0 /\ index_saved = 0 /\ block_write = FALSE /\ index_write = FALSE
  BY DEF Init
<1>2. file \in Seq(Cell) /\ index \in Seq(Entry) /\ Len(file) = 0 /\ Len(index) = 0
  BY <1>1
<1>b. block_write \in BOOLEAN /\ index_write \in BOOLEAN
  BY Zenon DEF Init
<1>3. TypeOK
  BY <1>1, <1>2, <1>b, BlocksAssumption DEF TypeOK, Cell, Entry
<1>4. GoodFile(file) /\ GoodIndex(index)
  BY <1>2 DEF GoodFile, GoodIndex
<1> QED BY <1>1, <1>2, <1>3, <1>4, BlocksAssumption DEF LogInv

\* The types that every step below starts from.
LEMMA LogTypes ==
  ASSUME LogInv
  PROVE  /\ file \in Seq(Cell) /\ Len(file) \in Nat /\ index \in Seq(Entry) /\ Len(index) \in Nat
         /\ file_saved \in 0..Len(file) /\ index_saved \in 0..Len(index)
         /\ head \in 0..MaxBlocks /\ flushed \in 0..MaxBlocks /\ MaxBlocks \in Nat
         /\ block_write \in BOOLEAN /\ index_write \in BOOLEAN
BY BlocksAssumption DEF LogInv, TypeOK, Cell, Entry

\* append() leaves one record more in the log and one entry more in the index.
LEMMA AppendStep == LogInv /\ AppendBlock => LogInv'
<1> SUFFICES ASSUME LogInv, AppendBlock PROVE LogInv'
  OBVIOUS
<1>0. /\ file \in Seq(Cell) /\ Len(file) \in Nat /\ index \in Seq(Entry) /\ Len(index) \in Nat
      /\ file_saved \in 0..Len(file) /\ index_saved \in 0..Len(index)
      /\ head \in 0..MaxBlocks /\ flushed \in 0..MaxBlocks /\ MaxBlocks \in Nat
  BY LogTypes
<1>1. /\ state = "open" /\ state' = "open" /\ head + 1 <= MaxBlocks /\ Len(index) = head
      /\ file' = file \o <<BlockCell(head + 1), PosCell(Len(file))>>
      /\ index' = Append(index, Len(file)) /\ head' = head + 1
      /\ file_saved' = file_saved /\ index_saved' = index_saved /\ flushed' = flushed
      /\ block_write' = TRUE /\ index_write' = TRUE
  BY <1>0 DEF AppendBlock
<1>2. Len(file) = 2 * head /\ GoodFile(file) /\ \A n \in 1..Len(index) : index[n] = 2 * (n - 1)
  BY <1>1 DEF LogInv
<1>3. GoodFile(file') /\ Len(file') = 2 * (head + 1)
  BY <1>0, <1>1, <1>2, AppendGood
<1>4. /\ index' \in Seq(Entry) /\ Len(index') = head + 1
      /\ \A n \in 1..Len(index') : index'[n] = 2 * (n - 1)
  <2>1. Len(file) \in Entry
    BY <1>0 DEF Entry
  <2>2. index' \in Seq(Entry) /\ Len(index') = head + 1
        /\ index'[head + 1] = Len(file) /\ \A n \in 1..head : index'[n] = index[n]
    BY <1>0, <1>1, <2>1
  <2>3. ASSUME NEW n \in 1..(head + 1) PROVE index'[n] = 2 * (n - 1)
    <3>1. CASE n = head + 1
      BY <1>0, <1>2, <2>2, <3>1
    <3>2. CASE n # head + 1
      BY <1>0, <1>1, <1>2, <2>2, <3>2
    <3> QED BY <3>1, <3>2
  <2> QED BY <2>2, <2>3
<1>5. GoodIndex(index')
  BY <1>4 DEF GoodIndex
<1>6. head' \in 0..MaxBlocks /\ file_saved' \in 0..Len(file') /\ index_saved' \in 0..Len(index')
  BY <1>0, <1>1, <1>2, <1>3, <1>4
<1>7. TypeOK'
  BY <1>0, <1>1, <1>3, <1>4, <1>6 DEF TypeOK, GoodFile, Cell, Entry
<1>8. Len(file') <= 2 * MaxBlocks /\ Len(file') = 2 * head' /\ Len(index') = head'
  BY <1>0, <1>1, <1>3, <1>4
<1>9. 2 * flushed' <= file_saved'
  BY <1>1 DEF LogInv
<1> QED BY <1>0, <1>1, <1>3, <1>4, <1>5, <1>7, <1>8, <1>9 DEF LogInv

\* Steps that leave both files alone and the log open: flush(), a refused
\* append() and the reads, which may empty the buffers.
LEMMA SameFilesStep ==
  ASSUME LogInv, state = "open", state' = "open", file' = file, index' = index, head' = head,
         file_saved' \in {file_saved, Len(file)}, index_saved' \in {index_saved, Len(index)},
         block_write' \in BOOLEAN, index_write' \in BOOLEAN,
         \/ flushed' = flushed
         \/ flushed' = head /\ file_saved' = Len(file)
  PROVE  LogInv'
<1>0. /\ file \in Seq(Cell) /\ Len(file) \in Nat /\ index \in Seq(Entry) /\ Len(index) \in Nat
      /\ file_saved \in 0..Len(file) /\ index_saved \in 0..Len(index)
      /\ head \in 0..MaxBlocks /\ flushed \in 0..MaxBlocks /\ MaxBlocks \in Nat
  BY LogTypes
<1>1. Len(file) = 2 * head /\ 2 * flushed <= file_saved
  BY DEF LogInv
<1>2. 2 * flushed' <= file_saved' /\ flushed' \in 0..MaxBlocks
  BY <1>0, <1>1
<1>3. TypeOK'
  BY <1>0, <1>2 DEF TypeOK, Cell, Entry
<1> QED BY <1>2, <1>3 DEF LogInv

\* close() flushes both files.
LEMMA CloseStep == LogInv /\ Close => LogInv'
<1> SUFFICES ASSUME LogInv, Close PROVE LogInv'
  OBVIOUS
<1>0. /\ file \in Seq(Cell) /\ Len(file) \in Nat /\ index \in Seq(Entry) /\ Len(index) \in Nat
      /\ head \in 0..MaxBlocks /\ MaxBlocks \in Nat
  BY LogTypes
<1>1. /\ state = "open" /\ state' = "closed" /\ head' = 0 /\ flushed' = head
      /\ file_saved' = Len(file) /\ index_saved' = Len(index)
      /\ file' = file /\ index' = index /\ block_write' = FALSE /\ index_write' = FALSE
  BY DEF Close
<1>2. Len(file) = 2 * head
  BY <1>1 DEF LogInv
<1>b. block_write' \in BOOLEAN /\ index_write' \in BOOLEAN
  BY <1>1, Zenon
<1>3. TypeOK'
  BY <1>0, <1>1, <1>b DEF TypeOK, Cell, Entry
<1>4. 2 * flushed' <= file_saved'
  BY <1>0, <1>1, <1>2
<1> QED BY <1>1, <1>3, <1>4 DEF LogInv

\* wipe() leaves two empty files.
LEMMA WipeStep == LogInv /\ Wipe => LogInv'
<1> SUFFICES ASSUME LogInv, Wipe PROVE LogInv'
  OBVIOUS
<1>1. /\ state' = "closed" /\ file' = <<>> /\ index' = <<>> /\ head' = 0 /\ flushed' = 0
      /\ file_saved' = 0 /\ index_saved' = 0 /\ block_write' = FALSE /\ index_write' = FALSE
  BY DEF Wipe
<1>2. file' \in Seq(Cell) /\ index' \in Seq(Entry) /\ Len(file') = 0 /\ Len(index') = 0
  BY <1>1
<1>b. block_write' \in BOOLEAN /\ index_write' \in BOOLEAN
  BY <1>1, Zenon
<1>3. TypeOK'
  BY <1>1, <1>2, <1>b, BlocksAssumption DEF TypeOK, Cell, Entry
<1>4. GoodFile(file') /\ GoodIndex(index')
  BY <1>2 DEF GoodFile, GoodIndex
<1> QED BY <1>1, <1>2, <1>3, <1>4, BlocksAssumption DEF LogInv

\* open() of a log without blocks; nothing was flushed then.
LEMMA OpenEmptyStep == LogInv /\ OpenEmpty => LogInv'
<1> SUFFICES ASSUME LogInv, OpenEmpty PROVE LogInv'
  OBVIOUS
<1>1. /\ state' = "open" /\ file = <<>> /\ file' = file /\ index' = <<>> /\ head' = 0
      /\ flushed' = flushed /\ file_saved' = file_saved /\ index_saved' = 0
      /\ block_write' = TRUE /\ index_write' = TRUE
  BY DEF OpenEmpty
<1>2. index' \in Seq(Entry) /\ Len(file') = 0 /\ Len(index') = 0
  BY <1>1
<1>3. TypeOK'
  BY <1>1, <1>2, LogTypes DEF TypeOK, Cell, Entry
<1>4. GoodIndex(index')
  BY <1>2 DEF GoodIndex
<1> QED BY <1>1, <1>2, <1>3, <1>4, BlocksAssumption DEF LogInv

\* open() of a log that ends in a position: the index is kept only if its
\* last entry is the last block's position, and then it is complete;
\* otherwise it is built again from the log.
LEMMA OpenLogStep == LogInv /\ OpenLog => LogInv'
<1> SUFFICES ASSUME LogInv, OpenLog PROVE LogInv'
  OBVIOUS
<1>0. /\ file \in Seq(Cell) /\ Len(file) \in Nat /\ index \in Seq(Entry) /\ Len(index) \in Nat
      /\ file_saved \in 0..Len(file) /\ index_saved \in 0..Len(index)
      /\ flushed \in 0..MaxBlocks /\ MaxBlocks \in Nat
  BY LogTypes
<1>1. /\ state' = "open" /\ file # <<>> /\ Last(file).kind = "pos"
      /\ file' = file /\ head' = BlockAt(Last(file).val) /\ block_write' = FALSE
      /\ flushed' = flushed /\ file_saved' = file_saved
  BY DEF OpenLog
<1>2. GoodFile(file) /\ GoodIndex(index) /\ Len(file) <= 2 * MaxBlocks /\ 2 * flushed <= file_saved
  BY DEF LogInv
<1>3. PICK r \in Nat \ {0} : /\ Len(file) = 2 * r
                             /\ Last(file) = PosCell(2 * (r - 1))
                             /\ file[2 * (r - 1) + 1] = BlockCell(r)
  BY <1>1, <1>2, WholeRecords
<1>4. head' = r /\ r \in 0..MaxBlocks /\ Last(file).val = 2 * (r - 1)
  BY <1>0, <1>1, <1>2, <1>3 DEF BlockAt, PosCell, BlockCell
<1>5. /\ index' \in Seq(Entry) /\ Len(index') <= r /\ (r # 1 => Len(index') = r)
      /\ \A n \in 1..Len(index') : index'[n] = 2 * (n - 1)
      /\ index_write' \in BOOLEAN /\ index_saved' \in 0..Len(index')
  <2>1. CASE IndexUpToDate
    <3>1. index' = index /\ index_saved' = index_saved /\ index_write' = FALSE
      BY <2>1 DEF OpenLog
    <3>2. Len(index) # 0 /\ index[Len(index)] = 2 * (r - 1) /\ 2 * (r - 1) \in Nat
      BY <1>0, <1>4, <2>1 DEF IndexUpToDate, Last
    <3>3. Len(index) \in 1..Len(index) /\ index[Len(index)] # Torn
      BY <1>0, <3>2, TornAssumption
    <3>4. \A n \in 1..Len(index) : index[n] = 2 * (n - 1)
      BY <1>2, <3>3 DEF GoodIndex
    <3>5. Len(index) = r
      BY <1>0, <3>2, <3>3, <3>4
    <3>6. index_write' \in BOOLEAN
      BY <3>1, Zenon
    <3> QED BY <1>0, <3>1, <3>4, <3>5, <3>6
  <2>2. CASE ~IndexUpToDate
    <3>1. index' = ConstructedIndex /\ index_saved' = 0 /\ index_write' = TRUE
      BY <2>2 DEF OpenLog
    <3>2. /\ index' \in Seq(Nat) /\ Len(index') = IF r = 1 THEN 0 ELSE r
          /\ \A n \in 1..Len(index') : index'[n] = 2 * (n - 1)
      BY <1>2, <1>3, <3>1, Constructed
    <3>3. index' \in Seq(Entry)
      BY <3>2 DEF Entry
    <3> QED BY <3>1, <3>2, <3>3
  <2> QED BY <2>1, <2>2
<1>6. GoodIndex(index')
  BY <1>5 DEF GoodIndex
<1>7. TypeOK'
  BY <1>0, <1>1, <1>4, <1>5 DEF TypeOK, Cell, Entry
<1> QED BY <1>1, <1>2, <1>3, <1>4, <1>5, <1>6, <1>7 DEF LogInv

\* A crash keeps at least what left the buffers, of either file.
LEMMA CrashStep == LogInv /\ Crash => LogInv'
<1> SUFFICES ASSUME LogInv, Crash PROVE LogInv'
  OBVIOUS
<1>0. /\ file \in Seq(Cell) /\ Len(file) \in Nat /\ index \in Seq(Entry) /\ Len(index) \in Nat
      /\ file_saved \in 0..Len(file) /\ index_saved \in 0..Len(index)
      /\ flushed \in 0..MaxBlocks /\ MaxBlocks \in Nat
  BY LogTypes
<1>1. /\ state = "open" /\ state' = "closed" /\ head' = 0 /\ flushed' = flushed
      /\ block_write' = FALSE /\ index_write' = FALSE
  BY DEF Crash
<1>2. /\ GoodFile(file) /\ Len(file) <= 2 * MaxBlocks /\ 2 * flushed <= file_saved
      /\ \A n \in 1..Len(index) : index[n] = 2 * (n - 1)
  BY <1>1 DEF LogInv
<1>3. PICK n \in file_saved..Len(file) : file' = SubSeq(file, 1, n) /\ file_saved' = n
  BY DEF Crash
<1>4. GoodFile(file') /\ Len(file') = n /\ n \in 0..Len(file)
  BY <1>0, <1>2, <1>3, PrefixGood
<1>5. PICK m \in index_saved..Len(index), torn \in BOOLEAN :
         /\ index' = IF torn THEN Append(SubSeq(index, 1, m), Torn) ELSE SubSeq(index, 1, m)
         /\ index_saved' = Len(index')
  BY DEF Crash
<1>6. GoodIndex(index')
  <2>1. m \in 0..Len(index)
    BY <1>0
  <2>2. GoodIndex(SubSeq(index, 1, m)) /\ GoodIndex(Append(SubSeq(index, 1, m), Torn))
    BY <1>0, <1>2, <2>1, CutIndexGood
  <2> QED BY <1>5, <2>2
<1>7. file' \in Seq(Cell) /\ index' \in Seq(Entry) /\ Len(index') \in Nat
  BY <1>4, <1>6 DEF GoodFile, GoodIndex
<1>8. index_saved' \in 0..Len(index') /\ file_saved' \in 0..Len(file')
  BY <1>0, <1>3, <1>4, <1>5, <1>7
<1>b. block_write' \in BOOLEAN /\ index_write' \in BOOLEAN
  BY <1>1, Zenon
<1>9. TypeOK'
  BY <1>0, <1>1, <1>7, <1>8, <1>b DEF TypeOK, Cell, Entry
<1>10. Len(file') <= 2 * MaxBlocks /\ 2 * flushed' <= file_saved'
  BY <1>0, <1>1, <1>2, <1>3, <1>4
<1> QED BY <1>1, <1>4, <1>6, <1>9, <1>10 DEF LogInv

\* Every operation of block_log, and a crash, keeps LogInv.
LEMMA LogNext == LogInv /\ [Next]_vars => LogInv'
<1> SUFFICES ASSUME LogInv, [Next]_vars PROVE LogInv'
  OBVIOUS
<1>1. CASE AppendRefused
  BY <1>1, SameFilesStep DEF AppendRefused
<1>2. CASE Flush
  BY <1>2, LogTypes, SameFilesStep DEF Flush
<1>3. CASE ReadBlock
  BY <1>3, LogTypes, SameFilesStep DEF ReadBlock
<1>4. CASE OpenFails
  BY <1>4 DEF OpenFails, LogInv, TypeOK
<1>5. CASE UNCHANGED vars
  BY <1>5 DEF vars, LogInv, TypeOK
<1> QED
  BY <1>1, <1>2, <1>3, <1>4, <1>5, AppendStep, CloseStep, WipeStep, OpenEmptyStep,
     OpenLogStep, CrashStep
     DEF Next

\* An index entry that open() kept or built leads to its block.
LEMMA LogInvReads == LogInv => RightBlockRead
<1> SUFFICES ASSUME LogInv, state = "open", NEW n \in 1..Len(index)
             PROVE  n <= head /\ BlockAt(index[n]) = n
  BY DEF LogInv, RightBlockRead
<1>1. Len(file) = 2 * head /\ Len(index) <= head /\ index[n] = 2 * (n - 1) /\ GoodFile(file)
  BY DEF LogInv
<1>2. n \in Nat /\ n <= head /\ 2 * n - 1 \in 1..Len(file) /\ index[n] + 1 = 2 * n - 1
  BY <1>1, LogTypes
<1>3. file[2 * n - 1] = BlockCell(n)
  BY <1>1, <1>2 DEF GoodFile
<1> QED BY <1>2, <1>3 DEF BlockAt, BlockCell

\* "Wrong block was read from block log." is never thrown, and append() finds
\* the index where it expects it but after open() of a log of one block: for
\* a log of any length, after any sequence of appends, flushes and crashes.
THEOREM RightBlockAlwaysRead == Spec => []RightBlockRead
BY LogInit, LogNext, LogInvReads, PTL DEF Spec

\* flush() before a crash is enough: what was appended before it is in the
\* log that the next open() finds.
THEOREM FlushedBlocksSurvive == Spec => []FlushedSurvive
<1>1. LogInv => FlushedSurvive
  BY LogTypes DEF LogInv, FlushedSurvive
<1> QED BY <1>1, LogInit, LogNext, PTL DEF Spec
=============================================================================
