------------------------ MODULE ChainDatabaseProofs ------------------------
(***************************************************************************)
(* Proofs about the block and transaction pipeline for any tree of blocks, *)
(* any transactions, witnesses and limits.                                 *)
(***************************************************************************)
EXTENDS ChainDatabase, FiniteSetTheorems, WellFoundedInduction, TLAPS

-----------------------------------------------------------------------------
(* The inductive invariant *)

\* The fork database: a head whose prev is alive does not start the chain,
\* and only an empty index has no head.
ForkOK ==
  /\ index \subseteq Block /\ lost \subseteq Block
  /\ head \in Block \cup {None} /\ head_linked \in BOOLEAN /\ max_size \in Nat
  /\ head_linked => head \in Block /\ Prev[head] \in Block
  /\ head = None => index = {}

\* The sequences of blocks and transactions.
SeqsOK ==
  /\ chain \in Seq(Block) /\ log \in Seq(Block) /\ todo \in Seq(Block) /\ good \in Seq(Block)
  /\ pending \in Seq(Tx) /\ popped \in Seq(Tx) /\ saved \in Seq(Tx)

\* The call in progress: what it still works on is there, and a call of
\* push_block has replaced the history entry of the last start.
CallOK ==
  /\ pc \in {"idle", "pop", "apply", "append", "flush", "prune", "late", "requeue", "down"}
  /\ mode \in {"extend", "switch", "restore"}
  /\ call \in [kind : {"open", "push", "generate"}, block : Block \cup {None},
              before : Seq(Block), thrown : BOOLEAN]
  /\ call.kind = "open" => pc \in {"idle", "down"}
  /\ mode # "extend" => good # <<>>
  /\ pc \in {"append", "flush", "prune", "late"} => todo # <<>>

\* The pending transactions are set aside until the requeueing, and apply in
\* their order from there on.
PendingOK ==
  /\ pc \in {"pop", "apply", "append", "flush", "prune", "late", "down"} => pending = <<>>
  /\ AllApply(pending, chain)

\* Commit goes before append: the log never gets ahead of it.
LogOK ==
  /\ committed \in 0..Len(chain) /\ flushed \in 0..Len(log)
  /\ pc # "down" => Len(log) <= committed
  /\ pc = "append" => Len(log) < Lib(chain) /\ Lib(chain) <= committed

DbInv == ForkOK /\ SeqsOK /\ CallOK /\ PendingOK /\ LogOK

-----------------------------------------------------------------------------
(* Maxima, and the last irreversible block *)

\* A non-empty set of naturals has a least element.
LEMMA LeastNat ==
  ASSUME NEW S \in SUBSET Nat, S # {}
  PROVE  \E x \in S : \A y \in S : x <= y
<1>1. PICK x \in S : \A y \in S : ~(<<y, x>> \in OpToRel(<, Nat))
  BY NatLessThanWellFounded, WFMin
<1>2. \A y \in S : x <= y
  <2> TAKE y \in S
  <2>1. x \in Nat /\ y \in Nat
    OBVIOUS
  <2>2. ~(y < x)
    BY <1>1, <2>1 DEF OpToRel
  <2> QED BY <2>1, <2>2
<1> QED BY <1>2

\* Max of a bounded set of naturals is its greatest element.
LEMMA MaxOfBounded ==
  ASSUME NEW n \in Nat, NEW S \in SUBSET (0..n), S # {}
  PROVE  Max(S) \in S /\ \A y \in S : y <= Max(S)
<1> DEFINE T == {n - x : x \in S}
<1>1. T \in SUBSET Nat /\ T # {}
  <2>1. \A x \in S : n - x \in Nat
    OBVIOUS
  <2>2. PICK x : x \in S
    OBVIOUS
  <2>3. n - x \in T
    BY <2>2
  <2> QED BY <2>1, <2>3
<1>2. PICK z \in T : \A y \in T : z <= y
  BY <1>1, LeastNat
<1>3. PICK x \in S : z = n - x
  BY <1>2
<1>4. \A y \in S : x >= y
  <2> TAKE y \in S
  <2>1. n - y \in T
    OBVIOUS
  <2>2. n - x <= n - y
    BY <1>2, <1>3, <2>1
  <2>3. x \in Int /\ y \in Int
    OBVIOUS
  <2> QED BY <2>2, <2>3
<1>5. Max(S) \in S /\ \A y \in S : Max(S) >= y
  BY <1>4 DEF Max
<1> QED
  BY <1>5

LEMMA MaxOfTwo ==
  ASSUME NEW a \in Nat, NEW b \in Nat
  PROVE  Max({a, b}) = IF a >= b THEN a ELSE b
<1>1. {a, b} \in SUBSET (0..(a + b)) /\ a + b \in Nat
  OBVIOUS
<1>2. Max({a, b}) \in {a, b} /\ \A y \in {a, b} : y <= Max({a, b})
  BY <1>1, MaxOfBounded
<1> QED BY <1>2

LEMMA MinOfTwo ==
  ASSUME NEW a \in Nat, NEW b \in Nat
  PROVE  Min({a, b}) = IF a <= b THEN a ELSE b
<1>1. \E x \in {a, b} : \A y \in {a, b} : x <= y
  OBVIOUS
<1>2. Min({a, b}) \in {a, b} /\ \A y \in {a, b} : Min({a, b}) <= y
  BY <1>1 DEF Min
<1> QED BY <1>2

LEMMA LastConfirmedBound ==
  ASSUME NEW c \in Seq(Block), NEW w
  PROVE  LastConfirmed(c, w) \in 0..Len(c)
<1> DEFINE S == {0} \cup {h \in 1..Len(c) : Producer[c[h]] = w}
<1>1. Len(c) \in Nat /\ S \in SUBSET (0..Len(c)) /\ S # {}
  OBVIOUS
<1>2. Max(S) \in S
  BY <1>1, MaxOfBounded
<1> QED BY <1>1, <1>2 DEF LastConfirmed

\* nth_element finds a witness: Confirmed is the block some witness confirmed.
LEMMA ConfirmedBound ==
  ASSUME NEW c \in Seq(Block)
  PROVE  Confirmed(c) \in 0..Len(c)
<1> DEFINE V == {LastConfirmed(c, w) : w \in Witness}
           Below(v) == {w \in Witness : LastConfirmed(c, w) < v}
           Q == ((10000 - 7500) * Cardinality(Witness)) \div 10000
           S == {v \in V : Cardinality(Below(v)) <= Q}
<1>1. V \in SUBSET (0..Len(c)) /\ V # {} /\ Len(c) \in Nat
  <2>1. \A w \in Witness : LastConfirmed(c, w) \in 0..Len(c)
    BY LastConfirmedBound
  <2> QED BY <2>1, WitnessAssumption
<1>2. PICK x \in V : \A y \in V : x <= y
  <2>1. V \in SUBSET Nat
    BY <1>1
  <2> QED BY <1>1, <2>1, LeastNat
<1>3. Below(x) = {}
  <2> SUFFICES ASSUME NEW w \in Witness, LastConfirmed(c, w) < x PROVE FALSE
    OBVIOUS
  <2>1. x <= LastConfirmed(c, w)
    BY <1>2
  <2>2. x \in Int /\ LastConfirmed(c, w) \in Int
    BY <1>1, <1>2
  <2> QED BY <2>1, <2>2
<1>4. Cardinality(Below(x)) = 0
  BY <1>3, FS_EmptySet
<1>5. 0 <= Q
  <2>1. Cardinality(Witness) \in Nat
    BY WitnessAssumption, FS_CardinalityType
  <2> QED BY <2>1
<1>6. S \in SUBSET (0..Len(c)) /\ S # {}
  <2> HIDE DEF V, Below, Q
  <2>1. Cardinality(Below(x)) <= Q
    BY <1>4, <1>5
  <2>2. x \in S
    BY <1>2, <2>1
  <2>3. S \subseteq V
    OBVIOUS
  <2>4. S # {}
    BY <2>2
  <2> HIDE DEF S
  <2> QED BY <1>1, <2>3, <2>4
<1>7. Max(S) \in S
  <2> HIDE DEF S
  <2> QED BY <1>1, <1>6, MaxOfBounded
<1>8. Confirmed(c) = Max(S)
  BY DEF Confirmed
<1> QED BY <1>6, <1>7, <1>8

\* The irreversible block is one of the chain.
LEMMA LibBound ==
  ASSUME NEW c \in Seq(Block)
  PROVE  Lib(c) \in 0..Len(c)
<1> DEFINE S == {0} \cup {IrreversibleCandidate(SubSeq(c, 1, h)) : h \in 1..Len(c)}
<1>1. \A h \in 1..Len(c) : IrreversibleCandidate(SubSeq(c, 1, h)) \in 0..Len(c)
  <2> TAKE h \in 1..Len(c)
  <2>1. SubSeq(c, 1, h) \in Seq(Block) /\ Len(SubSeq(c, 1, h)) = h
    OBVIOUS
  <2>2. Confirmed(SubSeq(c, 1, h)) \in 0..h
    BY <2>1, ConfirmedBound
  <2>3. h \in Nat /\ h <= Len(c) /\ Len(c) \in Nat
    OBVIOUS
  <2>4. NonNegative(h - MaxWitnesses) \in 0..h
    BY <2>3, LimitAssumption DEF NonNegative
  <2> QED BY <2>1, <2>2, <2>3, <2>4 DEF IrreversibleCandidate
<1>2. Len(c) \in Nat /\ S \in SUBSET (0..Len(c)) /\ S # {}
  BY <1>1
<1>3. Max(S) \in S
  BY <1>2, MaxOfBounded
<1> QED BY <1>2, <1>3 DEF Lib

-----------------------------------------------------------------------------
(* The fork database *)

LEMMA ForkPushOK ==
  ASSUME ForkOK, NEW b \in Block, ForkPush(b)
  PROVE  ForkOK' /\ head' \in Block
BY PrevAssumption, NoBlockAssumption DEF ForkOK, ForkPush, NewHead, Links

LEMMA ForkPopOK ==
  ASSUME ForkOK, CanPop, ForkPop
  PROVE  ForkOK' /\ head' \in Block
<1>1. head \in Block /\ Prev[head] \in Block /\ head' = Prev[head]
  BY DEF ForkOK, CanPop, ForkPop
<1>2. HasPrev(head') => Prev[head'] \in Block
  BY <1>1, PrevAssumption DEF HasPrev
<1>3. HasPrev(head') \in BOOLEAN
  BY Zenon DEF HasPrev
<1>4. head_linked' = HasPrev(head') /\ head' # None
  <2>1. head_linked' = HasPrev(Prev[head])
    BY DEF ForkPop
  <2>2. HasPrev(Prev[head]) = (Prev[Prev[head]] # Genesis /\ Prev[head] \notin lost)
    BY DEF HasPrev
  <2> QED BY <1>1, <2>1, NoBlockAssumption
<1> QED BY <1>1, <1>2, <1>3, <1>4 DEF ForkOK, ForkPop

LEMMA ForkEraseOK ==
  ASSUME ForkOK, NEW gone, NEW held \in SUBSET Block, NEW h, NEW linked,
         ForkErase(gone, held, h, linked),
         h \in Block \/ (h = head /\ linked = head_linked),
         linked \in BOOLEAN, linked => Prev[h] \in Block, max_size' \in Nat
  PROVE  ForkOK'
<1>1. index' \subseteq index /\ lost' \subseteq index \cup held /\ head' = h
  BY DEF ForkErase
<1>2. head_linked' \in BOOLEAN
  BY Zenon DEF ForkErase
<1>3. head_linked' => linked
  BY DEF ForkErase
<1>4. h \in Block \cup {None} /\ (linked => h \in Block) /\ (h = None => index = {})
  BY NoBlockAssumption DEF ForkOK
<1> QED BY <1>1, <1>2, <1>3, <1>4 DEF ForkOK

LEMMA ForkRemoveOK ==
  ASSUME ForkOK, NEW b, ForkRemove(b)
  PROVE  ForkOK'
<1>1. ForkErase({b}, {}, head, head_linked) /\ max_size' = max_size
  BY DEF ForkRemove
<1>2. head_linked \in BOOLEAN /\ (head_linked => Prev[head] \in Block) /\ max_size' \in Nat
  BY <1>1 DEF ForkOK
<1> QED BY <1>1, <1>2, ForkEraseOK

LEMMA ForkReleaseOK ==
  ASSUME ForkOK, ForkRelease
  PROVE  ForkOK'
<1>1. head_linked' \in BOOLEAN
  BY Zenon DEF ForkRelease
<1> QED BY <1>1 DEF ForkOK, ForkRelease

LEMMA SetMaxSizeOK ==
  ASSUME ForkOK, NEW size \in Nat, NEW held \in SUBSET Block, SetMaxSize(size, held)
  PROVE  ForkOK'
<1>1. max_size' \in Nat
  BY DEF SetMaxSize
<1>2. CASE head = None
  BY <1>1, <1>2 DEF SetMaxSize, ForkOK
<1>3. CASE head # None
  <2>1. ForkErase(TooOld(size), held, head, head_linked)
    BY <1>3 DEF SetMaxSize
  <2>2. head_linked \in BOOLEAN /\ (head_linked => Prev[head] \in Block)
    BY DEF ForkOK
  <2> QED BY <1>1, <2>1, <2>2, ForkEraseOK
<1> QED BY <1>2, <1>3

\* A fresh index holds the last block of the chain, or nothing.
LEMMA ForkFreshOK ==
  ASSUME NEW c \in Seq(Block), IF c = <<>> THEN ForkReset ELSE ForkStart(Last(c)),
         max_size' = InitMaxSize
  PROVE  ForkOK'
<1>1. CASE c = <<>>
  BY <1>1, SizeAssumption DEF ForkReset, ForkOK
<1>2. CASE c # <<>>
  <2>1. Last(c) \in Block
    BY <1>2 DEF Last
  <2>2. ForkStart(Last(c)) /\ Last(c) # None
    BY <1>2, <2>1, NoBlockAssumption
  <2>3. head_linked' \in BOOLEAN /\ ~head_linked'
    BY <2>2, Zenon DEF ForkStart
  <2> QED BY <2>1, <2>2, <2>3, SizeAssumption DEF ForkStart, ForkOK
<1> QED BY <1>1, <1>2

\* fetch_block_on_main_branch_by_number returns a block or nothing.
LEMMA FetchType ==
  ASSUME ForkOK, NEW n \in Nat \ {0}
  PROVE  FetchOnMainBranch(n) \in Block \cup {None}
<1> DEFINE at == {b \in index : Height(b) = n}
<1>1. at \in SUBSET Block
  BY DEF ForkOK
<1>2. CASE Cardinality(at) = 1
  <2>1. at # {}
    BY <1>2, FS_EmptySet
  <2>2. FetchOnMainBranch(n) = CHOOSE b \in at : TRUE
    BY <1>2 DEF FetchOnMainBranch
  <2> HIDE DEF at
  <2> QED BY <1>1, <2>1, <2>2
<1>3. CASE Cardinality(at) # 1 /\ at # {} /\ n <= Height(head) /\ HeadReaches(n)
  <2>1. head \in Block
    BY <1>3 DEF ForkOK
  <2>2. Ancestry[head] \in Seq(Block) /\ n \in 1..Len(Ancestry[head])
    BY <1>3, <2>1, TreeAssumption DEF Height
  <2>3. FetchOnMainBranch(n) = Ancestry[head][n]
    BY <1>3 DEF FetchOnMainBranch
  <2> HIDE DEF at
  <2> QED BY <2>2, <2>3
<1>4. CASE Cardinality(at) # 1 /\ ~(at # {} /\ n <= Height(head) /\ HeadReaches(n))
  BY <1>4 DEF FetchOnMainBranch
<1> QED BY <1>2, <1>3, <1>4

\* Two blocks have a highest pair of ancestors with one parent.
LEMMA ForkHeightBound ==
  ASSUME NEW a \in Block, NEW b \in Block
  PROVE  ForkHeight(a, b) \in 1..Height(a) /\ ForkHeight(a, b) \in 1..Height(b)
<1> DEFINE m == Min({Height(a), Height(b)})
           S == {h \in 1..m : Prev[Ancestry[a][h]] = Prev[Ancestry[b][h]]}
<1>1. \A x \in {a, b} : Height(x) \in Nat \ {0} /\ Prev[Ancestry[x][1]] = Genesis
  <2> TAKE x \in {a, b}
  <2>1. Ancestry[x] \in Seq(Block) /\ Ancestry[x] # <<>> /\ IsChain(Ancestry[x])
    BY TreeAssumption
  <2>2. Len(Ancestry[x]) \in Nat \ {0}
    BY <2>1
  <2>3. 1 \in 1..Len(Ancestry[x])
    BY <2>2
  <2> QED BY <2>1, <2>2, <2>3 DEF Height, IsChain
<1>2. m \in Nat \ {0} /\ m <= Height(a) /\ m <= Height(b)
  BY <1>1, MinOfTwo
<1>3. 1 \in S
  BY <1>1, <1>2
<1>4. S \in SUBSET (0..m) /\ S # {}
  <2>1. 1..m \subseteq 0..m
    BY <1>2
  <2> HIDE DEF m
  <2> QED BY <1>3, <2>1
<1>5. Max(S) \in S
  <2> HIDE DEF S, m
  <2> QED BY <1>2, <1>4, MaxOfBounded
<1>6. ForkHeight(a, b) \in 1..m
  <2> HIDE DEF m
  <2>1. ForkHeight(a, b) = Max(S)
    BY DEF ForkHeight, m
  <2> QED BY <1>5, <2>1
<1> HIDE DEF m
<1> QED BY <1>1, <1>2, <1>6

LEMMA BranchType ==
  ASSUME NEW a \in Block, NEW h \in 1..Height(a)
  PROVE  Branch(a, h) \in Seq(Block) /\ Branch(a, h) # <<>>
<1>1. Ancestry[a] \in Seq(Block) /\ Height(a) = Len(Ancestry[a])
  BY TreeAssumption DEF Height
<1>2. h \in 1..Len(Ancestry[a])
  BY <1>1
<1>3. SubSeq(Ancestry[a], h, Len(Ancestry[a])) \in Seq(Block)
  BY <1>1, <1>2
<1>4. Len(SubSeq(Ancestry[a], h, Len(Ancestry[a]))) = Len(Ancestry[a]) - h + 1
  BY <1>1, <1>2
<1>5. Branch(a, h) = SubSeq(Ancestry[a], h, Len(Ancestry[a]))
  BY <1>1 DEF Branch
<1>6. Len(Branch(a, h)) # 0 /\ Branch(a, h) \in Seq(Block)
  BY <1>1, <1>2, <1>3, <1>4, <1>5
<1> QED BY <1>6

-----------------------------------------------------------------------------
(* Transactions *)

LEMMA AppendApplies ==
  ASSUME NEW s \in Seq(Tx), NEW t \in Tx, NEW c, AllApply(s, c), TxApplies(t, c, s)
  PROVE  AllApply(Append(s, t), c)
<1> DEFINE r == Append(s, t)
<1>1. Len(r) = Len(s) + 1 /\ r[Len(s) + 1] = t /\ \A i \in 1..Len(s) : r[i] = s[i]
  OBVIOUS
<1>2. \A i \in 1..Len(r) : SubSeq(r, 1, i - 1) = SubSeq(s, 1, i - 1)
  OBVIOUS
<1>3. SubSeq(s, 1, Len(s)) = s
  OBVIOUS
<1> HIDE DEF r
<1>4. \A i \in 1..Len(r) : TxApplies(r[i], c, SubSeq(r, 1, i - 1))
  <2> TAKE i \in 1..Len(r)
  <2>1. CASE i \in 1..Len(s)
    BY <1>1, <1>2, <2>1 DEF AllApply
  <2>2. CASE i = Len(s) + 1
    <3>1. SubSeq(r, 1, i - 1) = s
      BY <1>1, <1>2, <1>3, <2>2
    <3> QED BY <1>1, <2>2, <3>1
  <2> QED BY <1>1, <2>1, <2>2
<1> QED BY <1>4 DEF AllApply, r

LEMMA NothingApplies ==
  ASSUME NEW c
  PROVE  AllApply(<<>>, c)
BY DEF AllApply

-----------------------------------------------------------------------------
(* The steps *)

\* push_block sets the pending transactions aside.
LEMMA EnterOK ==
  ASSUME DbInv, NEW b \in Block, NEW kind \in {"push", "generate"}, NEW thrown \in BOOLEAN,
         Enter(b, kind, thrown), ForkOK',
         pc' \in {"pop", "apply", "requeue"}, mode' \in {"extend", "switch", "restore"},
         todo' \in Seq(Block), good' \in Seq(Block), mode' # "extend" => good' # <<>>
  PROVE  DbInv'
<1>1. /\ chain' = chain /\ committed' = committed /\ log' = log /\ flushed' = flushed
      /\ popped' = popped /\ saved' = pending /\ pending' = <<>> /\ pc = "idle"
      /\ call' = [kind |-> kind, block |-> b, before |-> chain, thrown |-> thrown]
  BY DEF Enter, dbVars
<1>2. SeqsOK'
  BY <1>1 DEF DbInv, SeqsOK
<1>3. CallOK'
  <2>1. call' \in [kind : {"open", "push", "generate"}, block : Block \cup {None},
                   before : Seq(Block), thrown : BOOLEAN] /\ call'.kind # "open"
    BY <1>1 DEF DbInv, SeqsOK
  <2> QED BY <2>1 DEF CallOK
<1>4. PendingOK'
  BY <1>1, NothingApplies DEF PendingOK
<1>5. LogOK'
  BY <1>1 DEF DbInv, LogOK
<1> QED BY <1>2, <1>3, <1>4, <1>5 DEF DbInv

LEMMA PushOK ==
  ASSUME DbInv, NEW b \in Block, NEW kind \in {"push", "generate"}, Push(b, kind)
  PROVE  DbInv'
<1>1. ForkOK /\ SeqsOK /\ CallOK
  BY DEF DbInv
<1>2. CASE PushUnlinkable(b, kind)
  <2>1. ForkOK'
    BY <1>1, <1>2 DEF PushUnlinkable, forkVars, ForkOK
  <2>2. Enter(b, kind, TRUE) /\ pc' = "requeue" /\ mode' = mode /\ todo' = todo /\ good' = good
    BY <1>2 DEF PushUnlinkable
  <2> QED BY <1>1, <2>1, <2>2, EnterOK DEF SeqsOK, CallOK
<1>3. CASE PushExtend(b, kind)
  <2>1. /\ Enter(b, kind, FALSE) /\ ForkPush(b)
        /\ pc' = "apply" /\ mode' = "extend" /\ todo' = <<b>> /\ good' = <<>>
    BY <1>3 DEF PushExtend
  <2>2. ForkOK'
    BY <1>1, <2>1, ForkPushOK
  <2>3. todo' \in Seq(Block) /\ good' \in Seq(Block)
    BY <2>1
  <2> QED BY <2>1, <2>2, <2>3, EnterOK
<1>4. CASE PushShorter(b, kind)
  <2>1. /\ Enter(b, kind, FALSE) /\ ForkPush(b)
        /\ pc' = "requeue" /\ mode' = mode /\ todo' = todo /\ good' = good
    BY <1>4 DEF PushShorter
  <2>2. ForkOK'
    BY <1>1, <2>1, ForkPushOK
  <2> QED BY <1>1, <2>1, <2>2, EnterOK DEF SeqsOK, CallOK
<1>5. CASE PushSwitch(b, kind)
  <2> DEFINE h == ForkHeight(head', HeadId(chain))
  <2>1. /\ Enter(b, kind, FALSE) /\ ForkPush(b)
        /\ BranchesFound(head', HeadId(chain), index', lost')
        /\ pc' = "pop" /\ mode' = "switch"
        /\ todo' = Branch(head', h) /\ good' = Branch(HeadId(chain), h)
    BY <1>5 DEF PushSwitch
  <2>2. ForkOK' /\ head' \in Block
    BY <1>1, <2>1, ForkPushOK
  <2>3. HeadId(chain) \in Block
    BY <2>1, <2>2 DEF BranchesFound, ForkOK
  <2>4. h \in 1..Height(head') /\ h \in 1..Height(HeadId(chain))
    BY <2>2, <2>3, ForkHeightBound
  <2> HIDE DEF h
  <2>5. todo' \in Seq(Block) /\ good' \in Seq(Block) /\ good' # <<>>
    BY <2>1, <2>2, <2>3, <2>4, BranchType
  <2> QED BY <2>1, <2>2, <2>5, EnterOK
<1>6. CASE PushNoBranch(b, kind)
  <2>1. /\ Enter(b, kind, TRUE) /\ ForkPush(b)
        /\ pc' = "requeue" /\ mode' = mode /\ todo' = todo /\ good' = good
    BY <1>6 DEF PushNoBranch
  <2>2. ForkOK'
    BY <1>1, <2>1, ForkPushOK
  <2> QED BY <1>1, <2>1, <2>2, EnterOK DEF SeqsOK, CallOK
<1> QED BY <1>2, <1>3, <1>4, <1>5, <1>6 DEF Push

LEMMA PushTransactionOK ==
  ASSUME DbInv, NEW t \in Tx, PushTransaction(t)
  PROVE  DbInv'
<1>1. /\ pc = "idle" /\ TxApplies(t, chain, pending) /\ pending' = Append(pending, t)
      /\ index' = index /\ lost' = lost /\ head' = head /\ head_linked' = head_linked
      /\ max_size' = max_size /\ chain' = chain /\ committed' = committed /\ log' = log
      /\ flushed' = flushed /\ popped' = popped /\ saved' = saved /\ pc' = pc
      /\ mode' = mode /\ todo' = todo /\ good' = good /\ call' = call
  BY DEF PushTransaction, forkVars, dbVars
<1>2. ForkOK' /\ CallOK' /\ LogOK'
  BY <1>1 DEF DbInv, ForkOK, CallOK, LogOK
<1>3. SeqsOK'
  BY <1>1 DEF DbInv, SeqsOK
<1>4. AllApply(pending', chain')
  BY <1>1, AppendApplies DEF DbInv, SeqsOK, PendingOK
<1> QED BY <1>1, <1>2, <1>3, <1>4 DEF DbInv, PendingOK

LEMMA PrefixType ==
  ASSUME NEW s \in Seq(Block), NEW k \in 0..Len(s)
  PROVE  /\ SubSeq(s, 1, k) \in Seq(Block) /\ Len(SubSeq(s, 1, k)) = k
         /\ \A i \in 1..k : SubSeq(s, 1, k)[i] = s[i]
<1>1. \A i \in 1..k : s[i] \in Block
  OBVIOUS
<1>2. k \in Nat
  OBVIOUS
<1> QED BY <1>1, <1>2

\* Undoing a block never takes one without a session.
LEMMA UndoBlockOK ==
  ASSUME SeqsOK, LogOK, UndoBlock
  PROVE  chain' \in Seq(Block) /\ committed \in 0..Len(chain')
<1>1. CASE Len(chain) > committed
  <2>1. chain' = SubSeq(chain, 1, Len(chain) - 1)
    BY <1>1 DEF UndoBlock, Front
  <2>2. chain \in Seq(Block) /\ committed \in 0..Len(chain) /\ Len(chain) \in Nat
    BY DEF SeqsOK, LogOK
  <2>3. Len(chain) - 1 \in 0..Len(chain)
    BY <1>1, <2>2
  <2>4. chain' \in Seq(Block) /\ Len(chain') = Len(chain) - 1
    BY <2>1, <2>2, <2>3, PrefixType
  <2> QED BY <1>1, <2>2, <2>4
<1>2. CASE ~(Len(chain) > committed)
  BY <1>2 DEF UndoBlock, SeqsOK, LogOK
<1> QED BY <1>1, <1>2

LEMMA PopBlockOK ==
  ASSUME DbInv, PopBlock
  PROVE  DbInv'
<1>1. /\ pc = "pop" /\ CanPopBlock /\ ForkPop /\ UndoBlock /\ popped' = Txs[Last(chain)] \o popped
      /\ committed' = committed /\ log' = log /\ flushed' = flushed /\ pending' = pending
      /\ saved' = saved /\ pc' = pc /\ mode' = mode /\ todo' = todo /\ good' = good /\ call' = call
  BY DEF PopBlock
<1>2. ForkOK'
  BY <1>1, ForkPopOK DEF DbInv, CanPopBlock
<1>3. chain' \in Seq(Block) /\ committed \in 0..Len(chain')
  BY <1>1, UndoBlockOK DEF DbInv
<1>4. Last(chain) \in Block
  <2>1. HeadId(chain) \in Block
    BY <1>1 DEF CanPopBlock, DbInv, ForkOK, SeqsOK, Range
  <2>2. chain # <<>>
    BY <2>1, NoBlockAssumption DEF HeadId
  <2> QED BY <2>1, <2>2 DEF HeadId
<1>5. SeqsOK'
  <2>1. Txs[Last(chain)] \in Seq(Tx)
    BY <1>4, TxAssumption
  <2>2. popped' \in Seq(Tx)
    BY <1>1, <2>1 DEF DbInv, SeqsOK
  <2> QED BY <1>1, <1>3, <2>2 DEF DbInv, SeqsOK
<1>6. CallOK'
  BY <1>1 DEF DbInv, CallOK
<1>7. PendingOK'
  <2>1. pending = <<>>
    BY <1>1 DEF DbInv, PendingOK
  <2> QED BY <1>1, <2>1, NothingApplies DEF PendingOK
<1>8. LogOK'
  BY <1>1, <1>3 DEF DbInv, LogOK
<1> QED BY <1>2, <1>5, <1>6, <1>7, <1>8 DEF DbInv

\* The steps of a call that leave the fork database, the database and the
\* transactions alone.
LEMMA ControlOK ==
  ASSUME DbInv, pc # "idle", pc # "down", UNCHANGED <<forkVars, dbVars, txVars, good>>,
         mode' = mode, todo' \in Seq(Block),
         call' = call \/ call' = [call EXCEPT !.thrown = TRUE],
         \/ pc' = "requeue"
         \/ pc \in {"pop", "late"} /\ pc' = "apply"
  PROVE  DbInv'
<1>1. /\ index' = index /\ lost' = lost /\ head' = head /\ head_linked' = head_linked
      /\ max_size' = max_size /\ chain' = chain /\ committed' = committed /\ log' = log
      /\ flushed' = flushed /\ pending' = pending /\ popped' = popped /\ saved' = saved
      /\ good' = good
  BY DEF forkVars, dbVars, txVars
<1>2. ForkOK' /\ SeqsOK' /\ LogOK'
  BY <1>1 DEF DbInv, ForkOK, SeqsOK, LogOK
<1>3. PendingOK'
  BY <1>1 DEF DbInv, PendingOK
<1>4. CallOK'
  <2>1. call' \in [kind : {"open", "push", "generate"}, block : Block \cup {None},
                   before : Seq(Block), thrown : BOOLEAN] /\ call'.kind = call.kind
    BY DEF DbInv, CallOK
  <2> QED BY <1>1, <2>1 DEF DbInv, CallOK
<1> QED BY <1>2, <1>3, <1>4 DEF DbInv

LEMMA PopEndsOK ==
  ASSUME DbInv, PopFails \/ PopDone \/ ApplyDone \/ FinishBlock
  PROVE  DbInv'
<1>1. CASE PopFails
  BY <1>1, ControlOK DEF PopFails, DbInv, SeqsOK
<1>2. CASE PopDone
  BY <1>2, ControlOK DEF PopDone, DbInv, SeqsOK
<1>3. CASE ApplyDone
  BY <1>3, ControlOK DEF ApplyDone, DbInv, SeqsOK
<1>4. CASE FinishBlock
  <2>1. todo \in Seq(Block) /\ todo # <<>>
    BY <1>4 DEF FinishBlock, DbInv, SeqsOK, CallOK
  <2>2. Tail(todo) \in Seq(Block)
    BY <2>1
  <2> QED BY <1>4, <2>2, ControlOK DEF FinishBlock
<1> QED BY <1>1, <1>2, <1>3, <1>4

\* The branches a switch holds are blocks.
LEMMA HeldType ==
  ASSUME SeqsOK
  PROVE  Held \in SUBSET Block
<1>1. Range(good) \subseteq Block /\ Range(todo) \subseteq Block /\ Range(chain) \subseteq Block
  BY DEF SeqsOK, Range
<1> QED BY <1>1 DEF Held

\* What a failed apply_block leaves: the fork database, and the way back.
LEMMA FailedOK ==
  ASSUME DbInv, Failed
  PROVE  /\ ForkOK' /\ pc' \in {"requeue", "pop"} /\ mode' \in {"extend", "switch", "restore"}
         /\ todo' \in Seq(Block) /\ good' = good /\ (mode = "extend" => mode' = "extend")
         /\ call' = [call EXCEPT !.thrown = TRUE]
<1>1. ForkOK /\ SeqsOK /\ CallOK
  BY DEF DbInv
<1>2. good' = good /\ call' = [call EXCEPT !.thrown = TRUE]
  BY DEF Failed
<1>3. CASE mode = "extend"
  <2>1. ForkRemove(todo[1]) /\ pc' = "requeue" /\ mode' = mode /\ todo' = todo
    BY <1>3 DEF Failed
  <2>2. ForkOK'
    BY <1>1, <2>1, ForkRemoveOK
  <2> QED BY <1>1, <1>2, <1>3, <2>1, <2>2 DEF SeqsOK
<1>4. CASE mode = "switch"
  <2>1. /\ ForkErase(Range(todo), Held, Last(good), HasPrev(Last(good)))
        /\ max_size' = max_size /\ pc' = "pop" /\ mode' = "restore" /\ todo' = good
    BY <1>4 DEF Failed
  <2>2. good \in Seq(Block) /\ good # <<>>
    BY <1>1, <1>4 DEF SeqsOK, CallOK
  <2>3. Last(good) \in Block
    BY <2>2 DEF Last
  <2>4. HasPrev(Last(good)) \in BOOLEAN
    BY Zenon DEF HasPrev
  <2>5. HasPrev(Last(good)) => Prev[Last(good)] \in Block
    BY <2>3, PrevAssumption DEF HasPrev
  <2>6. max_size' \in Nat
    BY <1>1, <2>1 DEF ForkOK
  <2>7. ForkOK'
    BY <1>1, <2>1, <2>3, <2>4, <2>5, <2>6, HeldType, ForkEraseOK
  <2> QED BY <1>2, <1>4, <2>1, <2>2, <2>7
<1>5. CASE mode = "restore"
  <2>1. /\ index' = index /\ lost' = lost /\ head' = head /\ head_linked' = head_linked
        /\ max_size' = max_size /\ pc' = "requeue" /\ mode' = mode /\ todo' = todo
    BY <1>5 DEF Failed, forkVars
  <2>2. ForkOK'
    BY <1>1, <2>1 DEF ForkOK
  <2> QED BY <1>1, <1>2, <1>5, <2>1, <2>2 DEF SeqsOK
<1> QED BY <1>1, <1>3, <1>4, <1>5 DEF CallOK

\* The block that fails is not applied any more: it was not, or it is undone.
LEMMA RefusedOK ==
  ASSUME DbInv, Failed, pc \in {"apply", "append", "late"}, UNCHANGED <<committed, log, flushed, txVars>>,
         chain' \in Seq(Block), committed \in 0..Len(chain')
  PROVE  DbInv'
<1>1. /\ committed' = committed /\ log' = log /\ flushed' = flushed
      /\ pending' = pending /\ popped' = popped /\ saved' = saved
  BY DEF txVars
<1>2. /\ ForkOK' /\ pc' \in {"requeue", "pop"} /\ mode' \in {"extend", "switch", "restore"}
      /\ todo' \in Seq(Block) /\ good' = good /\ (mode = "extend" => mode' = "extend")
      /\ call' = [call EXCEPT !.thrown = TRUE]
  BY FailedOK
<1>3. SeqsOK'
  BY <1>1, <1>2 DEF DbInv, SeqsOK
<1>4. CallOK'
  <2>1. call' \in [kind : {"open", "push", "generate"}, block : Block \cup {None},
                   before : Seq(Block), thrown : BOOLEAN] /\ call'.kind = call.kind
    BY <1>2 DEF DbInv, CallOK
  <2> QED BY <1>2, <2>1 DEF DbInv, CallOK
<1>5. PendingOK'
  <2>1. pending = <<>>
    BY DEF DbInv, PendingOK
  <2> QED BY <1>1, <2>1, NothingApplies DEF PendingOK
<1>6. LogOK'
  BY <1>1, <1>2 DEF DbInv, LogOK
<1> QED BY <1>2, <1>3, <1>4, <1>5, <1>6 DEF DbInv

LEMMA RefusalsOK ==
  ASSUME DbInv, ApplyRefused \/ AppendRefused \/ LateRefused
  PROVE  DbInv'
<1>1. CASE ApplyRefused
  <2>1. pc = "apply" /\ Failed /\ UNCHANGED <<committed, log, flushed, txVars>> /\ chain' = chain
    BY <1>1 DEF ApplyRefused, dbVars
  <2> QED BY <2>1, RefusedOK DEF DbInv, SeqsOK, LogOK
<1>2. CASE AppendRefused
  <2>1. pc = "append" /\ Failed /\ UNCHANGED <<committed, log, flushed, txVars>> /\ UndoBlock
    BY <1>2 DEF AppendRefused
  <2>2. chain' \in Seq(Block) /\ committed \in 0..Len(chain')
    BY <2>1, UndoBlockOK DEF DbInv
  <2> QED BY <2>1, <2>2, RefusedOK
<1>3. CASE LateRefused
  <2>1. pc = "late" /\ Failed /\ UNCHANGED <<committed, log, flushed, txVars>> /\ UndoBlock
    BY <1>3 DEF LateRefused
  <2>2. chain' \in Seq(Block) /\ committed \in 0..Len(chain')
    BY <2>1, UndoBlockOK DEF DbInv
  <2> QED BY <2>1, <2>2, RefusedOK
<1> QED BY <1>1, <1>2, <1>3

LEMMA ApplyBlockOK ==
  ASSUME DbInv, ApplyBlock
  PROVE  DbInv'
<1>1. /\ pc = "apply" /\ todo # <<>> /\ chain' = Append(chain, todo[1])
      /\ committed' = CommitTo(Lib(chain'))
      /\ pc' = IF Len(log) < Lib(chain') THEN "append" ELSE "prune"
      /\ index' = index /\ lost' = lost /\ head' = head /\ head_linked' = head_linked
      /\ max_size' = max_size /\ log' = log /\ flushed' = flushed
      /\ pending' = pending /\ popped' = popped /\ saved' = saved
      /\ mode' = mode /\ todo' = todo /\ good' = good /\ call' = call
  BY DEF ApplyBlock, forkVars, txVars
<1>2. chain' \in Seq(Block) /\ Len(chain') = Len(chain) + 1
  BY <1>1 DEF DbInv, SeqsOK
<1>3. Lib(chain') \in 0..Len(chain')
  BY <1>2, LibBound
<1>4. committed \in Nat /\ committed <= Len(chain) /\ Len(chain) \in Nat
  BY DEF DbInv, LogOK, SeqsOK
<1>5. committed' = IF committed >= Lib(chain') THEN committed ELSE Lib(chain')
  BY <1>1, <1>3, <1>4, MaxOfTwo DEF CommitTo
<1>6. LogOK'
  <2>1. committed' \in 0..Len(chain') /\ committed <= committed' /\ Lib(chain') <= committed'
    BY <1>2, <1>3, <1>4, <1>5
  <2>2. flushed \in 0..Len(log) /\ Len(log) <= committed /\ Len(log) \in Nat
    BY <1>1 DEF DbInv, LogOK, SeqsOK
  <2>3. Len(log') <= committed'
    BY <1>1, <1>4, <2>1, <2>2
  <2>4. pc' = "append" => Len(log') < Lib(chain')
    BY <1>1
  <2> QED BY <1>1, <2>1, <2>2, <2>3, <2>4 DEF LogOK
<1>7. ForkOK' /\ SeqsOK'
  BY <1>1, <1>2 DEF DbInv, ForkOK, SeqsOK
<1>8. CallOK'
  BY <1>1 DEF DbInv, CallOK
<1>9. PendingOK'
  <2>1. pending = <<>>
    BY <1>1 DEF DbInv, PendingOK
  <2> QED BY <1>1, <2>1, NothingApplies DEF PendingOK
<1> QED BY <1>6, <1>7, <1>8, <1>9 DEF DbInv

LEMMA AppendLogOK ==
  ASSUME DbInv, AppendLog
  PROVE  DbInv'
<1> DEFINE b == FetchOnMainBranch(Len(log) + 1)
<1>1. /\ pc = "append" /\ b # None /\ log' = Append(log, b)
      /\ pc' = IF Len(log') < Lib(chain) THEN "append" ELSE "flush"
      /\ index' = index /\ lost' = lost /\ head' = head /\ head_linked' = head_linked
      /\ max_size' = max_size /\ chain' = chain /\ committed' = committed /\ flushed' = flushed
      /\ pending' = pending /\ popped' = popped /\ saved' = saved
      /\ mode' = mode /\ todo' = todo /\ good' = good /\ call' = call
  BY DEF AppendLog, forkVars, txVars
<1>2. b \in Block
  <2>1. Len(log) + 1 \in Nat \ {0}
    BY DEF DbInv, SeqsOK
  <2> QED BY <1>1, <2>1, FetchType DEF DbInv
<1> HIDE DEF b
<1>3. log' \in Seq(Block) /\ Len(log') = Len(log) + 1 /\ Len(log) \in Nat
  BY <1>1, <1>2 DEF DbInv, SeqsOK
<1>4. LogOK'
  <2>1. /\ committed \in 0..Len(chain) /\ flushed \in 0..Len(log)
        /\ Len(log) < Lib(chain) /\ Lib(chain) <= committed /\ Len(chain) \in Nat
    BY <1>1 DEF DbInv, LogOK, SeqsOK
  <2>2. Lib(chain) \in Nat
    BY LibBound DEF DbInv, SeqsOK
  <2>3. Len(log') <= committed /\ flushed \in 0..Len(log')
    BY <1>3, <2>1, <2>2
  <2> QED BY <1>1, <2>1, <2>3 DEF LogOK
<1>5. ForkOK' /\ SeqsOK'
  BY <1>1, <1>3 DEF DbInv, ForkOK, SeqsOK
<1>6. CallOK'
  BY <1>1 DEF DbInv, CallOK
<1>7. PendingOK'
  BY <1>1 DEF DbInv, PendingOK
<1> QED BY <1>4, <1>5, <1>6, <1>7 DEF DbInv

LEMMA FlushLogOK ==
  ASSUME DbInv, FlushLog
  PROVE  DbInv'
<1>1. /\ pc = "flush" /\ pc' = "prune" /\ flushed' = Len(log)
      /\ index' = index /\ lost' = lost /\ head' = head /\ head_linked' = head_linked
      /\ max_size' = max_size /\ chain' = chain /\ committed' = committed /\ log' = log
      /\ pending' = pending /\ popped' = popped /\ saved' = saved
      /\ mode' = mode /\ todo' = todo /\ good' = good /\ call' = call
  BY DEF FlushLog, forkVars, txVars
<1>2. Len(log) \in Nat
  BY DEF DbInv, SeqsOK
<1> QED BY <1>1, <1>2 DEF DbInv, ForkOK, SeqsOK, CallOK, PendingOK, LogOK

\* head_block_number - last_irreversible_block_num + 1 does not wrap around.
LEMMA PruneOK ==
  ASSUME DbInv, Prune
  PROVE  DbInv'
<1>1. /\ pc = "prune" /\ pc' = "late" /\ SetMaxSize(Len(chain) - Lib(chain) + 1, Held)
      /\ chain' = chain /\ committed' = committed /\ log' = log /\ flushed' = flushed
      /\ pending' = pending /\ popped' = popped /\ saved' = saved
      /\ mode' = mode /\ todo' = todo /\ good' = good /\ call' = call
  BY DEF Prune, dbVars, txVars
<1>2. Len(chain) - Lib(chain) + 1 \in Nat
  <2>1. Lib(chain) \in 0..Len(chain) /\ Len(chain) \in Nat
    BY LibBound DEF DbInv, SeqsOK
  <2> QED BY <2>1
<1>3. ForkOK'
  BY <1>1, <1>2, HeldType, SetMaxSizeOK DEF DbInv
<1> QED BY <1>1, <1>3 DEF DbInv, SeqsOK, CallOK, PendingOK, LogOK

LEMMA RequeueOK ==
  ASSUME DbInv, RequeuePopped \/ RequeueSaved
  PROVE  DbInv'
<1>1. PICK t \in Tx : Requeue(t)
  BY DEF RequeuePopped, RequeueSaved, DbInv, SeqsOK
<1>2. /\ pc = "requeue" /\ pc' = pc
      /\ index' = index /\ lost' = lost /\ head' = head /\ head_linked' = head_linked
      /\ max_size' = max_size /\ chain' = chain /\ committed' = committed /\ log' = log
      /\ flushed' = flushed
      /\ mode' = mode /\ todo' = todo /\ good' = good /\ call' = call
  BY DEF RequeuePopped, RequeueSaved, forkVars, dbVars
<1>3. popped' \in Seq(Tx) /\ saved' \in Seq(Tx)
  <2>1. popped \in Seq(Tx) /\ saved \in Seq(Tx)
    BY DEF DbInv, SeqsOK
  <2>2. \A r \in Seq(Tx) : r # <<>> => Tail(r) \in Seq(Tx)
    OBVIOUS
  <2> QED BY <2>1, <2>2 DEF RequeuePopped, RequeueSaved
<1>4. pending' \in Seq(Tx) /\ AllApply(pending', chain)
  <2>1. pending \in Seq(Tx) /\ AllApply(pending, chain)
    BY DEF DbInv, SeqsOK, PendingOK
  <2>2. CASE TxApplies(t, chain, pending)
    <3>1. pending' = Append(pending, t)
      BY <1>1, <2>2 DEF Requeue
    <3> QED BY <2>1, <2>2, <3>1, AppendApplies
  <2>3. CASE ~TxApplies(t, chain, pending)
    BY <1>1, <2>1, <2>3 DEF Requeue
  <2> QED BY <2>2, <2>3
<1>5. ForkOK' /\ CallOK' /\ LogOK'
  BY <1>2 DEF DbInv, ForkOK, CallOK, LogOK
<1>6. SeqsOK' /\ PendingOK'
  BY <1>2, <1>3, <1>4 DEF DbInv, SeqsOK, PendingOK
<1> QED BY <1>5, <1>6 DEF DbInv

LEMMA PushReturnsOK ==
  ASSUME DbInv, PushReturns
  PROVE  DbInv'
<1>1. /\ pc = "requeue" /\ pc' = "idle" /\ mode' = "extend" /\ todo' = <<>> /\ good' = <<>>
      /\ chain' = chain /\ committed' = committed /\ log' = log /\ flushed' = flushed
      /\ pending' = pending /\ popped' = popped /\ saved' = saved /\ call' = call
  BY DEF PushReturns, dbVars, txVars
<1>2. ForkOK'
  <2>1. CASE mode = "extend"
    BY <2>1 DEF PushReturns, forkVars, DbInv, ForkOK
  <2>2. CASE mode # "extend"
    BY <2>2, ForkReleaseOK DEF PushReturns, DbInv
  <2> QED BY <2>1, <2>2
<1> QED BY <1>1, <1>2 DEF DbInv, SeqsOK, CallOK, PendingOK, LogOK

\* A crash keeps part n of the log; the database is what open() or reindex()
\* makes of it.
LEMMA CrashParts ==
  ASSUME DbInv, Crash
  PROVE  \E n \in flushed..Len(log) :
           /\ log' = SubSeq(log, 1, n) /\ log' \in Seq(Block) /\ Len(log') = n /\ flushed' = n
           /\ chain' \in Seq(Block) /\ Len(chain') = n /\ committed' = n
           /\ \/ chain' = log'
              \/ n = committed /\ chain' = SubSeq(chain, 1, n)
<1>1. PICK n \in flushed..Len(log) : /\ log' = SubSeq(log, 1, n) /\ flushed' = n
                                     /\ chain' = Recovered(SubSeq(log, 1, n))
                                     /\ committed' = Len(chain')
  BY DEF Crash
<1>2. /\ log \in Seq(Block) /\ chain \in Seq(Block) /\ Len(log) \in Nat /\ Len(chain) \in Nat
      /\ flushed \in 0..Len(log) /\ committed \in 0..Len(chain) /\ Len(log) <= committed
  BY DEF DbInv, SeqsOK, LogOK, Crash
<1>3. n \in 0..Len(log)
  BY <1>2
<1> DEFINE disk == SubSeq(log, 1, n)
           kept == SubSeq(chain, 1, committed)
<1>4. disk \in Seq(Block) /\ Len(disk) = n
  BY <1>2, <1>3, PrefixType
<1>5. kept \in Seq(Block) /\ Len(kept) = committed
  BY <1>2, PrefixType
<1>6. chain' = disk \/ (n = committed /\ chain' = kept)
  <2>1. chain' = IF kept = <<>> \/ (Len(kept) <= Len(disk) /\ disk[Len(kept)] = Last(kept))
                 THEN kept ELSE disk
    BY <1>1 DEF Recovered
  <2> HIDE DEF disk, kept
  <2>2. kept = <<>> => committed = 0
    BY <1>5
  <2>3. Len(kept) <= Len(disk) \/ kept = <<>> => n = committed
    BY <1>2, <1>3, <1>4, <1>5, <2>2
  <2> QED BY <2>1, <2>3
<1>7. chain' \in Seq(Block) /\ Len(chain') = n
  <2> HIDE DEF disk, kept
  <2> QED BY <1>4, <1>5, <1>6
<1> HIDE DEF disk, kept
<1>8. log' = disk
  BY <1>1 DEF disk
<1>9. n = committed /\ chain' = kept => chain' = SubSeq(chain, 1, n)
  BY DEF kept
<1> QED BY <1>1, <1>4, <1>6, <1>7, <1>8, <1>9

LEMMA CrashOK ==
  ASSUME DbInv, Crash
  PROVE  DbInv'
<1>1. PICK n \in flushed..Len(log) :
         /\ log' \in Seq(Block) /\ Len(log') = n /\ flushed' = n
         /\ chain' \in Seq(Block) /\ Len(chain') = n /\ committed' = n
  BY CrashParts
<1>2. n \in Nat
  BY DEF DbInv, LogOK, SeqsOK
<1>3. /\ pending' = <<>> /\ popped' = <<>> /\ saved' = <<>>
      /\ mode' = "extend" /\ todo' = <<>> /\ good' = <<>> /\ pc' \in {"idle", "down"}
      /\ call' = [kind |-> "open", block |-> None, before |-> chain', thrown |-> FALSE]
      /\ IF chain' = <<>> THEN ForkReset ELSE ForkStart(Last(chain'))
      /\ max_size' = InitMaxSize
  BY DEF Crash
<1>4. ForkOK'
  BY <1>1, <1>3, ForkFreshOK
<1>5. SeqsOK' /\ LogOK'
  BY <1>1, <1>2, <1>3 DEF SeqsOK, LogOK
<1>6. CallOK'
  <2>1. call' \in [kind : {"open", "push", "generate"}, block : Block \cup {None},
                   before : Seq(Block), thrown : BOOLEAN]
    BY <1>1, <1>3
  <2> QED BY <1>3, <2>1 DEF CallOK
<1>7. PendingOK'
  BY <1>3, NothingApplies DEF PendingOK
<1> QED BY <1>4, <1>5, <1>6, <1>7 DEF DbInv

-----------------------------------------------------------------------------
(* Theorems *)

LEMMA InitOK ==
  ASSUME Init
  PROVE  DbInv
<1>1. ForkOK
  BY SizeAssumption DEF Init, ForkInit, ForkOK
<1>2. SeqsOK /\ LogOK
  BY DEF Init, SeqsOK, LogOK
<1>3. CallOK
  <2>1. call \in [kind : {"open", "push", "generate"}, block : Block \cup {None},
                  before : Seq(Block), thrown : BOOLEAN]
    BY DEF Init
  <2> QED BY <2>1 DEF Init, CallOK
<1>4. PendingOK
  BY NothingApplies DEF Init, PendingOK
<1> QED BY <1>1, <1>2, <1>3, <1>4 DEF DbInv

LEMMA StutterOK ==
  ASSUME DbInv, UNCHANGED vars
  PROVE  DbInv'
BY DEF vars, forkVars, dbVars, txVars, DbInv, ForkOK, SeqsOK, CallOK, PendingOK, LogOK

LEMMA NextOK ==
  ASSUME DbInv, [Next]_vars
  PROVE  DbInv'
<1>1. CASE \E b \in Block : PushBlock(b) \/ GenerateBlock(b)
  <2>1. PICK b \in Block : Push(b, "push") \/ Push(b, "generate")
    BY <1>1 DEF PushBlock, GenerateBlock
  <2> QED BY <2>1, PushOK
<1>2. CASE \E t \in Tx : PushTransaction(t)
  BY <1>2, PushTransactionOK
<1>3. CASE Step
  BY <1>3, PopBlockOK, PopEndsOK, RefusalsOK, ApplyBlockOK, AppendLogOK, FlushLogOK, PruneOK,
     RequeueOK, PushReturnsOK DEF Step
<1>4. CASE Crash
  BY <1>4, CrashOK
<1>5. CASE UNCHANGED vars
  BY <1>5, StutterOK
<1> QED BY <1>1, <1>2, <1>3, <1>4, <1>5 DEF Next

\* The inductive invariant: what push_block still works on at each of its steps.
THEOREM InvariantHolds == Spec => []DbInv
<1>1. Init => DbInv
  BY InitOK
<1>2. DbInv /\ [Next]_vars => DbInv'
  BY NextOK
<1> QED BY <1>1, <1>2, PTL DEF Spec

\* Chain, log, fork database and transactions keep their types: no more blocks
\* are irreversible than there are, the size given to the fork database does
\* not wrap around, and its head is not popped below the first block.
THEOREM TypeCorrect == Spec => []TypeOK
<1>1. DbInv => TypeOK
  BY DEF DbInv, ForkOK, SeqsOK, CallOK, LogOK, TypeOK
<1> QED BY <1>1, InvariantHolds, PTL

\* Between calls the pending transactions apply in their order on the chain,
\* for any transactions, after any pushes, switches, refusals and crashes.
THEOREM PendingAlwaysApplies == Spec => []PendingApplies
<1>1. DbInv => PendingApplies
  BY DEF DbInv, PendingOK, PendingApplies
<1> QED BY <1>1, InvariantHolds, PTL

-----------------------------------------------------------------------------
(* Irreversible blocks *)

\* A step that keeps the blocks without an undo session, and what is on disk.
Keeps ==
  /\ committed <= committed' /\ flushed <= flushed'
  /\ \A h \in 1..committed : chain'[h] = chain[h]

LEMMA UndoKeeps ==
  ASSUME DbInv, UndoBlock, committed' = committed, flushed' = flushed
  PROVE  Keeps
<1>1. /\ chain \in Seq(Block) /\ committed \in 0..Len(chain) /\ Len(chain) \in Nat
      /\ flushed \in Nat
  BY DEF DbInv, SeqsOK, LogOK
<1>2. CASE Len(chain) > committed
  <2>1. chain' = SubSeq(chain, 1, Len(chain) - 1) /\ Len(chain) - 1 \in 0..Len(chain)
    BY <1>1, <1>2 DEF UndoBlock, Front
  <2>2. \A h \in 1..(Len(chain) - 1) : chain'[h] = chain[h]
    BY <1>1, <2>1, PrefixType
  <2> QED BY <1>1, <1>2, <2>2 DEF Keeps
<1>3. CASE ~(Len(chain) > committed)
  BY <1>1, <1>3 DEF UndoBlock, Keeps
<1> QED BY <1>2, <1>3

\* push_block never touches an irreversible block, whatever it switches to.
LEMMA StepKeeps ==
  ASSUME DbInv, Step
  PROVE  Keeps /\ call'.kind = call.kind /\ pc \notin {"idle", "down"} /\ pc' # "down"
<1>1. /\ chain \in Seq(Block) /\ committed \in 0..Len(chain) /\ Len(chain) \in Nat
      /\ flushed \in 0..Len(log) /\ Len(log) \in Nat
      /\ call \in [kind : {"open", "push", "generate"}, block : Block \cup {None},
                   before : Seq(Block), thrown : BOOLEAN]
  BY DEF DbInv, SeqsOK, LogOK, CallOK
<1>2. [call EXCEPT !.thrown = TRUE].kind = call.kind
  BY <1>1
<1>3. ASSUME UNCHANGED dbVars PROVE Keeps
  BY <1>1, <1>3 DEF dbVars, Keeps
<1>4. CASE PopBlock
  BY <1>4, UndoKeeps DEF PopBlock
<1>5. CASE PopFails \/ PopDone \/ FinishBlock \/ ApplyDone \/ Prune
  BY <1>2, <1>3, <1>5 DEF PopFails, PopDone, FinishBlock, ApplyDone, Prune
<1>6. CASE RequeuePopped \/ RequeueSaved \/ PushReturns
  BY <1>3, <1>6 DEF RequeuePopped, RequeueSaved, PushReturns
<1>7. CASE ApplyRefused
  BY <1>2, <1>3, <1>7, FailedOK DEF ApplyRefused
<1>8. CASE AppendRefused \/ LateRefused
  BY <1>2, <1>8, UndoKeeps, FailedOK DEF AppendRefused, LateRefused
<1>9. CASE ApplyBlock
  <2>1. /\ todo # <<>> /\ chain' = Append(chain, todo[1]) /\ committed' = CommitTo(Lib(chain'))
        /\ flushed' = flushed /\ call' = call /\ pc = "apply" /\ pc' \in {"append", "prune"}
    BY <1>9 DEF ApplyBlock
  <2>2. todo[1] \in Block
    BY <2>1 DEF DbInv, SeqsOK
  <2>3. chain' \in Seq(Block) /\ \A h \in 1..Len(chain) : chain'[h] = chain[h]
    BY <1>1, <2>1, <2>2
  <2>4. Lib(chain') \in Nat
    BY <2>3, LibBound
  <2>5. committed <= committed'
    BY <1>1, <2>1, <2>4, MaxOfTwo DEF CommitTo
  <2> QED BY <1>1, <2>1, <2>3, <2>5 DEF Keeps
<1>10. CASE AppendLog \/ FlushLog
  BY <1>1, <1>10 DEF AppendLog, FlushLog, Keeps
<1> QED BY <1>4, <1>5, <1>6, <1>7, <1>8, <1>9, <1>10 DEF Step

\* The irreversible blocks are the chain up to committed.
LEMMA LedgerBlocks ==
  ASSUME DbInv
  PROVE  /\ Min({committed, Len(chain)}) = committed
         /\ SubSeq(chain, 1, committed) \in Seq(Block)
         /\ Len(SubSeq(chain, 1, committed)) = committed
         /\ \A h \in 1..committed : SubSeq(chain, 1, committed)[h] = chain[h]
<1>1. /\ chain \in Seq(Block) /\ committed \in 0..Len(chain) /\ Len(chain) \in Nat
  BY DEF DbInv, SeqsOK, LogOK
<1> QED BY <1>1, MinOfTwo, PrefixType

\* A step that keeps them is a step of the running ledger.
LEMMA KeepsIsRun ==
  ASSUME DbInv, DbInv', Keeps, call'.kind # "open", pc' # "down"
  PROVE  Ledger!Run
<1> DEFINE old == SubSeq(chain, 1, committed)
           new == SubSeq(chain', 1, committed')
<1>1. /\ Min({committed, Len(chain)}) = committed /\ old \in Seq(Block) /\ Len(old) = committed
      /\ \A h \in 1..committed : old[h] = chain[h]
  BY LedgerBlocks
<1>2. /\ Min({committed', Len(chain')}) = committed' /\ new \in Seq(Block) /\ Len(new) = committed'
      /\ \A h \in 1..committed' : new[h] = chain'[h]
  <2>1. (/\ Min({committed, Len(chain)}) = committed
         /\ SubSeq(chain, 1, committed) \in Seq(Block)
         /\ Len(SubSeq(chain, 1, committed)) = committed
         /\ \A h \in 1..committed : SubSeq(chain, 1, committed)[h] = chain[h])'
    <3>1. /\ chain' \in Seq(Block) /\ committed' \in 0..Len(chain') /\ Len(chain') \in Nat
      BY DEF DbInv, SeqsOK, LogOK
    <3>2. committed' \in Nat /\ committed' <= Len(chain')
      BY <3>1
    <3>3. Min({committed', Len(chain')}) = committed'
      BY <3>1, <3>2, MinOfTwo
    <3>4. /\ SubSeq(chain', 1, committed') \in Seq(Block)
          /\ Len(SubSeq(chain', 1, committed')) = committed'
          /\ \A h \in 1..committed' : SubSeq(chain', 1, committed')[h] = chain'[h]
      BY <3>1, PrefixType
    <3> QED BY <3>3, <3>4
  <2> QED BY <2>1
<1>3. /\ committed \in Nat /\ committed' \in Nat /\ committed <= committed'
      /\ flushed \in Nat /\ flushed' \in Nat /\ flushed <= flushed' /\ flushed' <= committed'
      /\ \A h \in 1..committed : chain'[h] = chain[h]
  BY DEF DbInv, SeqsOK, LogOK, Keeps
<1> HIDE DEF old, new
<1>4. Ledger!IsPrefix(old, new)
  <2>1. SubSeq(old, 1, committed) \in Seq(Block) /\ Len(SubSeq(old, 1, committed)) = committed
        /\ \A i \in 1..committed : SubSeq(old, 1, committed)[i] = old[i]
    BY <1>1, <1>3, PrefixType
  <2>2. SubSeq(new, 1, committed) \in Seq(Block) /\ Len(SubSeq(new, 1, committed)) = committed
        /\ \A i \in 1..committed : SubSeq(new, 1, committed)[i] = new[i]
    BY <1>2, <1>3, PrefixType
  <2>3. \A i \in 1..committed : SubSeq(old, 1, committed)[i] = SubSeq(new, 1, committed)[i]
    BY <1>1, <1>2, <1>3, <2>1, <2>2
  <2>4. SubSeq(old, 1, committed) = SubSeq(new, 1, committed)
    BY <2>1, <2>2, <2>3
  <2> QED BY <1>1, <1>2, <1>3, <2>4 DEF Ledger!IsPrefix
<1>5. flushed' \in flushed..committed'
  BY <1>3
<1> QED BY <1>1, <1>2, <1>4, <1>5 DEF Ledger!Run, old, new

\* Log and chain agree, at the heights both have.
LEMMA LogAgrees ==
  ASSUME DbInv, LogMatchesChain, pc # "down"
  PROVE  \A h \in 1..Len(log) : log[h] = chain[h]
<1>1. Len(log) \in Nat /\ Len(chain) \in Nat /\ committed \in 0..Len(chain) /\ Len(log) <= committed
  BY DEF DbInv, SeqsOK, LogOK
<1>2. Min({Len(log), Len(chain)}) = Len(log)
  BY <1>1, MinOfTwo
<1> QED BY <1>2 DEF LogMatchesChain

\* After a crash the chain is the beginning of what it was.
LEMMA CrashCuts ==
  ASSUME DbInv, LogMatchesChain, Crash
  PROVE  \E n \in flushed..committed :
           /\ chain' \in Seq(Block) /\ Len(chain') = n /\ committed' = n /\ flushed' = n
           /\ \A h \in 1..n : chain'[h] = chain[h]
<1>1. PICK n \in flushed..Len(log) :
         /\ log' = SubSeq(log, 1, n) /\ flushed' = n
         /\ chain' \in Seq(Block) /\ Len(chain') = n /\ committed' = n
         /\ chain' = log' \/ (n = committed /\ chain' = SubSeq(chain, 1, n))
  BY CrashParts
<1>2. /\ log \in Seq(Block) /\ chain \in Seq(Block) /\ Len(log) \in Nat /\ Len(chain) \in Nat
      /\ flushed \in 0..Len(log) /\ committed \in 0..Len(chain) /\ Len(log) <= committed
      /\ pc # "down"
  BY DEF DbInv, SeqsOK, LogOK, Crash
<1>3. n \in flushed..committed /\ n \in 0..Len(log) /\ n \in 0..Len(chain)
  BY <1>2
<1>4. CASE chain' = log'
  <2>1. \A h \in 1..n : log'[h] = log[h]
    BY <1>1, <1>2, <1>3, PrefixType
  <2>2. \A h \in 1..n : log[h] = chain[h]
    BY <1>2, <1>3, LogAgrees
  <2> QED BY <1>1, <1>3, <1>4, <2>1, <2>2
<1>5. CASE chain' = SubSeq(chain, 1, n)
  <2>1. \A h \in 1..n : chain'[h] = chain[h]
    BY <1>2, <1>3, <1>5, PrefixType
  <2> QED BY <1>1, <1>3, <2>1
<1> QED BY <1>1, <1>4, <1>5

LEMMA CrashIsRestart ==
  ASSUME DbInv, DbInv', LogMatchesChain, Crash
  PROVE  Ledger!Restart
<1> DEFINE old == SubSeq(chain, 1, committed)
<1>1. PICK n \in flushed..committed :
         /\ chain' \in Seq(Block) /\ Len(chain') = n /\ committed' = n /\ flushed' = n
         /\ \A h \in 1..n : chain'[h] = chain[h]
  BY CrashCuts
<1>2. /\ Min({committed, Len(chain)}) = committed /\ old \in Seq(Block) /\ Len(old) = committed
      /\ \A h \in 1..committed : old[h] = chain[h]
  BY LedgerBlocks
<1>3. flushed \in Nat /\ committed \in Nat /\ n \in Nat /\ n <= committed /\ n \in 0..Len(old)
  BY <1>2 DEF DbInv, SeqsOK, LogOK
<1>4. Min({committed', Len(chain')}) = n
  BY <1>1, <1>3, MinOfTwo
<1>5. SubSeq(chain', 1, n) = chain'
  BY <1>1, <1>3
<1> HIDE DEF old
<1>6. chain' = SubSeq(old, 1, n)
  <2>1. SubSeq(old, 1, n) \in Seq(Block) /\ Len(SubSeq(old, 1, n)) = n
        /\ \A i \in 1..n : SubSeq(old, 1, n)[i] = old[i]
    BY <1>2, <1>3, PrefixType
  <2>2. \A i \in 1..n : SubSeq(old, 1, n)[i] = chain'[i]
    BY <1>1, <1>2, <1>3, <2>1
  <2> QED BY <1>1, <2>1, <2>2
<1>7. call'.kind = "open"
  BY DEF Crash
<1>8. flushed' \in flushed..n /\ n \in flushed..Len(old)
  BY <1>1, <1>2, <1>3
<1> QED BY <1>2, <1>4, <1>5, <1>6, <1>7, <1>8 DEF Ledger!Restart, old

\* Entering push_block, its steps and pushing a transaction keep the ledger.
LEMMA RunningSteps ==
  ASSUME DbInv, DbInv', [Next]_vars
  PROVE  Crash \/ Ledger!Run \/ UNCHANGED Ledger!vars
<1>1. CASE \E b \in Block : PushBlock(b) \/ GenerateBlock(b)
  <2>1. PICK b \in Block, k \in {"push", "generate"} : Push(b, k)
    BY <1>1 DEF PushBlock, GenerateBlock
  <2>2. PICK th \in BOOLEAN : Enter(b, k, th)
    BY <2>1 DEF Push, PushUnlinkable, PushExtend, PushShorter, PushSwitch, PushNoBranch
  <2>3. /\ chain' = chain /\ committed' = committed /\ flushed' = flushed
        /\ call'.kind = k
    BY <2>2 DEF Enter, dbVars
  <2>4. pc' # "down"
    BY <2>1 DEF Push, PushUnlinkable, PushExtend, PushShorter, PushSwitch, PushNoBranch
  <2>5. Keeps
    BY <2>3 DEF Keeps, DbInv, LogOK, SeqsOK
  <2> QED BY <2>3, <2>4, <2>5, KeepsIsRun
<1>2. CASE \E t \in Tx : PushTransaction(t)
  BY <1>2 DEF PushTransaction, dbVars, Ledger!vars
<1>3. CASE Step
  <2>1. Keeps /\ call'.kind = call.kind /\ pc \notin {"idle", "down"} /\ pc' # "down"
    BY <1>3, StepKeeps
  <2>2. call.kind # "open"
    BY <2>1 DEF DbInv, CallOK
  <2> QED BY <2>1, <2>2, KeepsIsRun
<1>4. CASE UNCHANGED vars
  BY <1>4 DEF vars, dbVars, Ledger!vars
<1> QED BY <1>1, <1>2, <1>3, <1>4 DEF Next

\* While the node runs, no irreversible block is ever replaced and nothing on
\* disk is given up, for any tree of blocks: whatever push_block switches to,
\* pops or fails to restore, only a crash does not keep the ledger.
IrreversibleStays == [][Crash \/ Ledger!Run \/ UNCHANGED Ledger!vars]_vars

THEOREM IrreversibleNeverReplaced == Spec => IrreversibleStays
<1>1. DbInv /\ DbInv' /\ [Next]_vars => [Crash \/ Ledger!Run \/ UNCHANGED Ledger!vars]_vars
  BY RunningSteps
<1> QED BY <1>1, InvariantHolds, PTL DEF Spec, IrreversibleStays

\* As long as log and chain agree, the pipeline implements DurableLedger, crashes
\* included: open() and reindex() bring back every block that was flushed.
THEOREM LedgerImplemented == Spec /\ []LogMatchesChain => CommittedKept
<1>1. Init => Ledger!Init
  <2> SUFFICES ASSUME Init PROVE Ledger!Init
    OBVIOUS
  <2>1. DbInv
    BY InitOK
  <2>2. SubSeq(chain, 1, Min({committed, Len(chain)})) = <<>>
    BY <2>1, LedgerBlocks DEF Init
  <2> QED BY <2>2 DEF Init, Ledger!Init
<1>2. DbInv /\ DbInv' /\ LogMatchesChain /\ [Next]_vars => [Ledger!Next]_(Ledger!vars)
  BY RunningSteps, CrashIsRestart DEF Ledger!Next
<1> QED BY <1>1, <1>2, InvariantHolds, PTL DEF Spec, CommittedKept, Ledger!Spec

-----------------------------------------------------------------------------
(* Transactions in the chain *)

LEMMA NothingTwice ==
  ASSUME NoTxTwice, chain \in Seq(Block), chain' \in Seq(Block), Len(chain') <= Len(chain),
         \A h \in 1..Len(chain') : chain'[h] = chain[h]
  PROVE  NoTxTwice'
<1>1. 1..Len(chain') \subseteq 1..Len(chain)
  OBVIOUS
<1> QED BY <1>1 DEF NoTxTwice

\* A transaction of the chain does not apply again: it is known until it
\* expires, and has expired afterwards.
LEMMA NotAgain ==
  ASSUME NEW c \in Seq(Block), NEW t \in Tx, NEW s, TxApplies(t, c, s)
  PROVE  \A h \in 1..Len(c) : t \notin Range(Txs[c[h]])
<1> SUFFICES ASSUME NEW h \in 1..Len(c), t \in Range(Txs[c[h]]) PROVE FALSE
  OBVIOUS
<1>1. t \in TxsIn(c) /\ c # <<>>
  BY DEF TxsIn
<1>2. Last(c) \in Block
  BY <1>1 DEF Last
<1>3. HeadTime(c) \in Nat /\ Expiration[t] \in Nat
  BY <1>1, <1>2, TimeAssumption DEF HeadTime
<1>4. HeadTime(c) < Expiration[t] /\ t \notin Known(c, s)
  BY <1>1 DEF TxApplies
<1>5. HeadTime(c) <= Expiration[t]
  BY <1>3, <1>4
<1> QED BY <1>1, <1>4, <1>5 DEF Known

LEMMA ApplyNothingTwice ==
  ASSUME DbInv, NoTxTwice, ApplyBlock
  PROVE  NoTxTwice'
<1> DEFINE b == todo[1]
<1>1. chain' = Append(chain, b) /\ BlockApplies(b, chain) /\ todo # <<>>
  BY DEF ApplyBlock
<1>2. chain \in Seq(Block) /\ b \in Block
  BY <1>1 DEF DbInv, SeqsOK
<1> HIDE DEF b
<1>3. /\ Len(chain') = Len(chain) + 1 /\ chain'[Len(chain) + 1] = b /\ Len(chain) \in Nat
      /\ \A h \in 1..Len(chain) : chain'[h] = chain[h]
  BY <1>1, <1>2
<1>4. \A h \in 1..Len(chain) : Range(Txs[b]) \cap Range(Txs[chain[h]]) = {}
  <2> SUFFICES ASSUME NEW h \in 1..Len(chain), NEW t \in Range(Txs[b]),
                      t \in Range(Txs[chain[h]])
               PROVE  FALSE
    OBVIOUS
  <2>1. Txs[b] \in Seq(Tx)
    BY <1>2, TxAssumption
  <2>2. PICK i \in 1..Len(Txs[b]) : t = Txs[b][i]
    BY <2>1 DEF Range
  <2>3. t \in Tx
    BY <2>1, <2>2
  <2>4. TxApplies(t, chain, SubSeq(Txs[b], 1, i - 1))
    BY <1>1, <2>2 DEF BlockApplies, AllApply
  <2> QED BY <1>2, <2>3, <2>4, NotAgain
<1>5. ASSUME NEW g \in 1..Len(chain'), NEW h \in 1..Len(chain'), g # h
      PROVE  Range(Txs[chain'[g]]) \cap Range(Txs[chain'[h]]) = {}
  <2>1. g \in 1..Len(chain) \/ g = Len(chain) + 1
    BY <1>3
  <2>2. h \in 1..Len(chain) \/ h = Len(chain) + 1
    BY <1>3
  <2>3. CASE g \in 1..Len(chain) /\ h \in 1..Len(chain)
    BY <1>3, <1>5, <2>3 DEF NoTxTwice
  <2>4. CASE g = Len(chain) + 1 /\ h \in 1..Len(chain)
    BY <1>3, <1>4, <2>4
  <2>5. CASE h = Len(chain) + 1 /\ g \in 1..Len(chain)
    BY <1>3, <1>4, <2>5
  <2> QED BY <1>5, <2>1, <2>2, <2>3, <2>4, <2>5
<1> QED BY <1>5 DEF NoTxTwice

LEMMA NextNothingTwice ==
  ASSUME DbInv, NoTxTwice, LogMatchesChain, [Next]_vars
  PROVE  NoTxTwice'
<1>1. chain \in Seq(Block) /\ Len(chain) \in Nat /\ committed \in 0..Len(chain)
  BY DEF DbInv, SeqsOK, LogOK
<1>2. ASSUME chain' = chain PROVE NoTxTwice'
  BY <1>2 DEF NoTxTwice
<1>3. ASSUME UndoBlock PROVE NoTxTwice'
  <2>1. CASE Len(chain) > committed
    <3>1. chain' = SubSeq(chain, 1, Len(chain) - 1) /\ Len(chain) - 1 \in 0..Len(chain)
      BY <1>1, <1>3, <2>1 DEF UndoBlock, Front
    <3>2. /\ chain' \in Seq(Block) /\ Len(chain') = Len(chain) - 1
          /\ \A h \in 1..Len(chain') : chain'[h] = chain[h]
      BY <1>1, <3>1, PrefixType
    <3> QED BY <1>1, <3>2, NothingTwice
  <2>2. CASE ~(Len(chain) > committed)
    BY <1>2, <1>3, <2>2 DEF UndoBlock
  <2> QED BY <2>1, <2>2
<1>4. CASE \E b \in Block : PushBlock(b) \/ GenerateBlock(b)
  <2>1. chain' = chain
    BY <1>4 DEF PushBlock, GenerateBlock, Push, PushUnlinkable, PushExtend, PushShorter,
                PushSwitch, PushNoBranch, Enter, dbVars
  <2> QED BY <1>2, <2>1
<1>5. CASE \E t \in Tx : PushTransaction(t)
  BY <1>2, <1>5 DEF PushTransaction, dbVars
<1>6. CASE Step
  <2>1. CASE ApplyBlock
    BY <2>1, ApplyNothingTwice
  <2>2. CASE PopBlock \/ AppendRefused \/ LateRefused
    BY <1>3, <2>2 DEF PopBlock, AppendRefused, LateRefused
  <2>3. CASE PopFails \/ PopDone \/ ApplyRefused \/ AppendLog \/ FlushLog \/ Prune
    BY <1>2, <2>3 DEF PopFails, PopDone, ApplyRefused, AppendLog, FlushLog, Prune, dbVars
  <2>4. CASE FinishBlock \/ ApplyDone \/ RequeuePopped \/ RequeueSaved \/ PushReturns
    BY <1>2, <2>4 DEF FinishBlock, ApplyDone, RequeuePopped, RequeueSaved, PushReturns, dbVars
  <2> QED BY <1>6, <2>1, <2>2, <2>3, <2>4 DEF Step
<1>7. CASE Crash
  <2>1. PICK n \in flushed..committed :
           /\ chain' \in Seq(Block) /\ Len(chain') = n
           /\ \A h \in 1..n : chain'[h] = chain[h]
    BY <1>7, CrashCuts
  <2>2. n <= Len(chain)
    BY <1>1 DEF DbInv, LogOK, SeqsOK
  <2> QED BY <1>1, <2>1, <2>2, NothingTwice
<1>8. CASE UNCHANGED vars
  BY <1>2, <1>8 DEF vars, dbVars
<1> QED BY <1>4, <1>5, <1>6, <1>7, <1>8 DEF Next

\* No transaction gets into the chain twice: clear_expired_transactions forgets
\* one only when it cannot be applied any more.  Log and chain must agree, since
\* reindex() applies whatever the log holds.
THEOREM NoTransactionTwice == Spec /\ []LogMatchesChain => []NoTxTwice
<1>1. Init => NoTxTwice
  BY DEF Init, NoTxTwice
<1>2. DbInv /\ NoTxTwice /\ LogMatchesChain /\ [Next]_vars => NoTxTwice'
  BY NextNothingTwice
<1> QED BY <1>1, <1>2, InvariantHolds, PTL DEF Spec

-----------------------------------------------------------------------------
(* No transaction is lost *)

\* Between calls nothing is set aside.
QueuesOK == pc = "idle" => popped = <<>> /\ saved = <<>>

LEMMA NextQueues ==
  ASSUME DbInv, QueuesOK, [Next]_vars
  PROVE  QueuesOK'
<1>1. CASE \E b \in Block : PushBlock(b) \/ GenerateBlock(b)
  <2>1. pc' # "idle"
    BY <1>1 DEF PushBlock, GenerateBlock, Push, PushUnlinkable, PushExtend, PushShorter,
                PushSwitch, PushNoBranch
  <2> QED BY <2>1 DEF QueuesOK
<1>2. CASE \E t \in Tx : PushTransaction(t)
  BY <1>2 DEF PushTransaction, QueuesOK
<1>3. CASE Step
  <2>1. CASE PushReturns
    BY <2>1 DEF PushReturns, txVars, QueuesOK
  <2>2. CASE ApplyRefused \/ AppendRefused \/ LateRefused
    <3>1. pc' \in {"requeue", "pop"}
      BY <2>2, FailedOK DEF ApplyRefused, AppendRefused, LateRefused
    <3> QED BY <3>1 DEF QueuesOK
  <2>3. CASE PopBlock \/ PopFails \/ PopDone \/ ApplyBlock \/ AppendLog \/ FlushLog \/ Prune
    BY <2>3 DEF PopBlock, PopFails, PopDone, ApplyBlock, AppendLog, FlushLog, Prune, QueuesOK
  <2>4. CASE FinishBlock \/ ApplyDone \/ RequeuePopped \/ RequeueSaved
    BY <2>4 DEF FinishBlock, ApplyDone, RequeuePopped, RequeueSaved, QueuesOK
  <2> QED BY <1>3, <2>1, <2>2, <2>3, <2>4 DEF Step
<1>4. CASE Crash
  BY <1>4 DEF Crash, QueuesOK
<1>5. CASE UNCHANGED vars
  BY <1>5 DEF vars, txVars, QueuesOK
<1> QED BY <1>1, <1>2, <1>3, <1>4, <1>5 DEF Next

\* Undoing a block leaves its transactions to be popped.
LEMMA UndoTxs ==
  ASSUME DbInv, UndoBlock, NEW t \in TxsIn(chain)
  PROVE  t \in TxsIn(chain') \cup Range(Txs[Last(chain)])
<1>1. chain \in Seq(Block) /\ Len(chain) \in Nat /\ committed \in 0..Len(chain)
  BY DEF DbInv, SeqsOK, LogOK
<1>2. PICK h \in 1..Len(chain) : t \in Range(Txs[chain[h]])
  BY <1>1 DEF TxsIn
<1>3. CASE Len(chain) > committed
  <2>1. chain' = SubSeq(chain, 1, Len(chain) - 1) /\ Len(chain) - 1 \in 0..Len(chain)
    BY <1>1, <1>3 DEF UndoBlock, Front
  <2>2. /\ chain' \in Seq(Block) /\ Len(chain') = Len(chain) - 1
        /\ \A g \in 1..(Len(chain) - 1) : chain'[g] = chain[g]
    BY <1>1, <2>1, PrefixType
  <2>3. CASE h = Len(chain)
    BY <1>2, <2>3 DEF Last
  <2>4. CASE h # Len(chain)
    <3>1. h \in 1..(Len(chain) - 1) /\ h \in DOMAIN chain'
      BY <1>1, <2>2, <2>4
    <3>2. t \in Range(Txs[chain'[h]])
      BY <1>2, <2>2, <3>1
    <3> QED BY <3>1, <3>2 DEF TxsIn
  <2> QED BY <2>3, <2>4
<1>4. CASE ~(Len(chain) > committed)
  BY <1>4 DEF UndoBlock
<1> QED BY <1>3, <1>4

\* Somewhere in the node.
Kept(t) == t \in TxsIn(chain) \cup Range(pending) \cup Range(popped) \cup Range(saved)

LEMMA ItemInRange ==
  ASSUME NEW r \in Seq(Tx), NEW i \in 1..Len(r)
  PROVE  r[i] \in Range(r)
BY DEF Range

LEMMA TailRange ==
  ASSUME NEW r \in Seq(Tx), r # <<>>
  PROVE  \A t \in Range(r) : t = r[1] \/ t \in Range(Tail(r))
<1> TAKE t \in Range(r)
<1>1. PICK i \in 1..Len(r) : t = r[i]
  BY DEF Range
<1>2. CASE i # 1
  <2>1. i - 1 \in 1..Len(Tail(r)) /\ Tail(r)[i - 1] = r[i] /\ Tail(r) \in Seq(Tx)
    BY <1>2
  <2> DEFINE q == Tail(r)
  <2> HIDE DEF q
  <2>2. q[i - 1] \in Range(q)
    BY <2>1, ItemInRange DEF q
  <2> QED BY <1>1, <2>1, <2>2 DEF q
<1> QED BY <1>1, <1>2

LEMMA ConcatRange ==
  ASSUME NEW a \in Seq(Tx), NEW b \in Seq(Tx)
  PROVE  Range(a \o b) = Range(a) \cup Range(b)
<1> DEFINE r == a \o b
<1>1. /\ r \in Seq(Tx) /\ Len(r) = Len(a) + Len(b) /\ Len(a) \in Nat /\ Len(b) \in Nat
      /\ \A i \in 1..Len(a) : r[i] = a[i]
      /\ \A i \in 1..Len(b) : r[Len(a) + i] = b[i]
  OBVIOUS
<1> HIDE DEF r
<1>2. \A i \in 1..Len(b) : Len(a) + i \in 1..Len(r)
  BY <1>1
<1>3. \A i \in 1..Len(a) : i \in 1..Len(r)
  BY <1>1
<1>4. ASSUME NEW x \in Range(a) PROVE x \in Range(r)
  <2>1. PICK i \in 1..Len(a) : x = a[i]
    BY DEF Range
  <2> QED BY <1>1, <1>3, <2>1, ItemInRange
<1>5. ASSUME NEW x \in Range(b) PROVE x \in Range(r)
  <2>1. PICK i \in 1..Len(b) : x = b[i]
    BY DEF Range
  <2>2. r[Len(a) + i] = x /\ Len(a) + i \in 1..Len(r)
    BY <1>1, <1>2, <2>1
  <2> QED BY <1>1, <2>2, ItemInRange
<1>6. ASSUME NEW x \in Range(r) PROVE x \in Range(a) \cup Range(b)
  <2>1. PICK i \in 1..Len(r) : x = r[i]
    BY <1>1 DEF Range
  <2>2. CASE i \in 1..Len(a)
    BY <1>1, <2>1, <2>2, ItemInRange
  <2>3. CASE i \notin 1..Len(a)
    <3>1. i - Len(a) \in 1..Len(b) /\ Len(a) + (i - Len(a)) = i
      BY <1>1, <2>3
    <3>2. r[Len(a) + (i - Len(a))] = b[i - Len(a)]
      BY <1>1, <3>1
    <3>3. x = b[i - Len(a)]
      BY <2>1, <3>1, <3>2
    <3> QED BY <3>1, <3>3, ItemInRange
  <2> QED BY <2>2, <2>3
<1> QED BY <1>4, <1>5, <1>6 DEF r

\* What is requeued is applied again, or does not apply.
LEMMA RequeueTxs ==
  ASSUME DbInv, NEW r \in Seq(Tx), r # <<>>, Requeue(r[1]), chain' = chain
  PROVE  /\ Range(pending) \subseteq Range(pending')
         /\ \A t \in Range(r) : \/ t \in Range(Tail(r)) \cup Range(pending')
                                \/ ~TxApplies(t, chain', pending')
<1>1. pending \in Seq(Tx) /\ r[1] \in Tx
  BY DEF DbInv, SeqsOK
<1>2. CASE TxApplies(r[1], chain, pending)
  <2>1. pending' = Append(pending, r[1])
    BY <1>2 DEF Requeue
  <2>2. /\ Len(pending') = Len(pending) + 1 /\ pending' \in Seq(Tx)
        /\ \A i \in 1..Len(pending) : pending'[i] = pending[i]
        /\ pending'[Len(pending) + 1] = r[1]
    BY <1>1, <2>1
  <2>3. Range(pending) \subseteq Range(pending') /\ r[1] \in Range(pending')
    BY <1>1, <2>2 DEF Range
  <2>4. \A t \in Range(r) : t = r[1] \/ t \in Range(Tail(r))
    BY TailRange
  <2> QED BY <2>3, <2>4
<1>3. CASE ~TxApplies(r[1], chain, pending)
  <2>1. pending' = pending
    BY <1>3 DEF Requeue
  <2>2. \A t \in Range(r) : t = r[1] \/ t \in Range(Tail(r))
    BY TailRange
  <2> QED BY <1>3, <2>1, <2>2
<1> QED BY <1>2, <1>3

LEMMA NextKeepsTxs ==
  ASSUME DbInv, QueuesOK, [Next]_vars, NEW t, Kept(t), call'.kind # "open", pc \notin {"append", "late"}
  PROVE  Kept(t)' \/ ~TxApplies(t, chain', pending')
<1>1. ASSUME chain' = chain, UNCHANGED txVars PROVE Kept(t)'
  BY <1>1 DEF Kept, txVars
<1>2. CASE \E b \in Block : PushBlock(b) \/ GenerateBlock(b)
  <2>1. PICK b \in Block, k \in {"push", "generate"} : Push(b, k)
    BY <1>2 DEF PushBlock, GenerateBlock
  <2>2. PICK th \in BOOLEAN : Enter(b, k, th)
    BY <2>1 DEF Push, PushUnlinkable, PushExtend, PushShorter, PushSwitch, PushNoBranch
  <2>3. /\ chain' = chain /\ popped' = popped /\ saved' = pending /\ saved = <<>>
    BY <2>2 DEF Enter, dbVars, QueuesOK
  <2>4. Range(saved) = {}
    BY <2>3 DEF Range
  <2> QED BY <2>3, <2>4 DEF Kept
<1>3. CASE \E u \in Tx : PushTransaction(u)
  <2>1. PICK u \in Tx : pending' = Append(pending, u)
    BY <1>3 DEF PushTransaction
  <2>2. chain' = chain /\ popped' = popped /\ saved' = saved
    BY <1>3 DEF PushTransaction, dbVars
  <2>3. pending \in Seq(Tx)
    BY DEF DbInv, SeqsOK
  <2>4. Range(pending) \subseteq Range(pending')
    <3>1. /\ Len(pending') = Len(pending) + 1 /\ pending' \in Seq(Tx)
          /\ \A i \in 1..Len(pending) : pending'[i] = pending[i]
      BY <2>1, <2>3
    <3> QED BY <2>3, <3>1 DEF Range
  <2> QED BY <2>2, <2>4 DEF Kept
<1>4. CASE Step
  <2>1. CASE PopBlock
    <3>1. /\ UndoBlock /\ popped' = Txs[Last(chain)] \o popped
          /\ pending' = pending /\ saved' = saved
      BY <2>1 DEF PopBlock
    <3>2. Txs[Last(chain)] \in Seq(Tx) /\ popped \in Seq(Tx)
      <4>1. HeadId(chain) \in Block
        BY <2>1 DEF PopBlock, CanPopBlock, DbInv, ForkOK, SeqsOK, Range
      <4>2. Last(chain) \in Block
        BY <4>1, NoBlockAssumption DEF HeadId
      <4> QED BY <4>2, TxAssumption DEF DbInv, SeqsOK
    <3>3. Range(popped') = Range(Txs[Last(chain)]) \cup Range(popped)
      <4> DEFINE a == Txs[Last(chain)]
      <4>1. popped' = a \o popped /\ a \in Seq(Tx)
        BY <3>1, <3>2
      <4> HIDE DEF a
      <4>2. Range(a \o popped) = Range(a) \cup Range(popped)
        BY <3>2, <4>1, ConcatRange
      <4> QED BY <4>1, <4>2 DEF a
    <3> QED BY <3>1, <3>3, UndoTxs DEF Kept
  <2>2. CASE ApplyBlock
    <3>1. chain' = Append(chain, todo[1]) /\ todo # <<>> /\ UNCHANGED txVars
      BY <2>2 DEF ApplyBlock
    <3>2. chain \in Seq(Block) /\ todo[1] \in Block
      BY <3>1 DEF DbInv, SeqsOK
    <3>3. \A h \in 1..Len(chain) : h \in 1..Len(chain') /\ chain'[h] = chain[h]
      BY <3>1, <3>2
    <3>4. DOMAIN chain = 1..Len(chain) /\ DOMAIN chain' = 1..Len(chain')
      BY <3>1, <3>2
    <3>5. TxsIn(chain) \subseteq TxsIn(chain')
      BY <3>3, <3>4 DEF TxsIn
    <3> QED BY <3>1, <3>5 DEF Kept, txVars
  <2>3. CASE RequeuePopped
    <3>1. /\ popped # <<>> /\ Requeue(popped[1]) /\ popped' = Tail(popped)
          /\ chain' = chain /\ saved' = saved
      BY <2>3 DEF RequeuePopped, dbVars
    <3>2. /\ Range(pending) \subseteq Range(pending')
          /\ \A u \in Range(popped) : \/ u \in Range(Tail(popped)) \cup Range(pending')
                                      \/ ~TxApplies(u, chain', pending')
      BY <3>1, RequeueTxs DEF DbInv, SeqsOK
    <3> QED BY <3>1, <3>2 DEF Kept
  <2>4. CASE RequeueSaved
    <3>1. /\ saved # <<>> /\ Requeue(saved[1]) /\ saved' = Tail(saved)
          /\ chain' = chain /\ popped' = popped
      BY <2>4 DEF RequeueSaved, dbVars
    <3>2. /\ Range(pending) \subseteq Range(pending')
          /\ \A u \in Range(saved) : \/ u \in Range(Tail(saved)) \cup Range(pending')
                                     \/ ~TxApplies(u, chain', pending')
      BY <3>1, RequeueTxs DEF DbInv, SeqsOK
    <3> QED BY <3>1, <3>2 DEF Kept
  <2>5. CASE PopFails \/ PopDone \/ ApplyRefused \/ AppendLog \/ FlushLog \/ Prune
    BY <1>1, <2>5 DEF PopFails, PopDone, ApplyRefused, AppendLog, FlushLog, Prune, dbVars
  <2>6. CASE FinishBlock \/ ApplyDone \/ PushReturns
    BY <1>1, <2>6 DEF FinishBlock, ApplyDone, PushReturns, dbVars
  <2>7. CASE AppendRefused \/ LateRefused
    BY <2>7 DEF AppendRefused, LateRefused
  <2> QED BY <1>4, <2>1, <2>2, <2>3, <2>4, <2>5, <2>6, <2>7 DEF Step
<1>5. CASE Crash
  BY <1>5 DEF Crash
<1>6. CASE UNCHANGED vars
  BY <1>1, <1>6 DEF vars, dbVars
<1> QED BY <1>2, <1>3, <1>4, <1>5, <1>6 DEF Next

\* A call of push_block loses no transaction, for any blocks and transactions:
\* what was pending, popped or in the chain stays somewhere or does not apply.
THEOREM TransactionsKept == Spec => CallKeepsTxs
<1>1. Init => QueuesOK
  BY DEF Init, QueuesOK
<1>2. DbInv /\ QueuesOK /\ [Next]_vars => QueuesOK'
  BY NextQueues
<1>3. DbInv /\ QueuesOK /\ [Next]_vars =>
        [\A t \in TxsIn(chain) \cup Range(pending) \cup Range(popped) \cup Range(saved) :
           \/ call'.kind = "open"
           \/ pc \in {"append", "late"}
           \/ t \in TxsIn(chain') \cup Range(pending') \cup Range(popped') \cup Range(saved')
           \/ ~TxApplies(t, chain', pending')]_vars
  BY NextKeepsTxs DEF Kept
<1> QED BY <1>1, <1>2, <1>3, InvariantHolds, PTL DEF Spec, CallKeepsTxs
=============================================================================
