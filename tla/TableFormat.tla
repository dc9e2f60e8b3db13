---------------------------- MODULE TableFormat -----------------------------
(***************************************************************************)
(* A LevelDB table file: BlockBuilder shares key prefixes between restart  *)
(* points, TableBuilder cuts blocks and indexes them by short separators,  *)
(* and Block::Iter below TwoLevelIterator walks over it both ways.  A key  *)
(* is its bytes: the user's, then one for the sequence number.  Offsets in *)
(* a block are counted in entries; compression and checksums are left out. *)
(***************************************************************************)
EXTENDS Integers, Sequences, SequencesExt, FiniteSets, FiniteSetsExt

CONSTANTS
    UserKeys,       \* sequences of bytes
    Tags,           \* sequence numbers, below MaxTag
    MaxTag,         \* kMaxSequenceNumber
    MaxByte,        \* 0xff
    MaxEntries,     \* bound on the entries of a table
    Intervals       \* values of block_restart_interval

VARIABLES
    keys,       \* the keys added to the table, in order
    interval,   \* block_restart_interval
    blocks,     \* the data blocks of the file
    index,      \* the index block
    iter,       \* TwoLevelIterator: index_iter_, data_iter_ and its block (0: NULL)
    at          \* history: where in keys a plain cursor stands, 0 for nowhere

vars == <<keys, interval, blocks, index, iter, at>>

-----------------------------------------------------------------------------
(* Keys *)

ExtractUserKey(k) == SubSeq(k, 1, Len(k) - 1)

(* The length of the common prefix, as the loops of BlockBuilder::Add and  *)
(* FindShortestSeparator count it.                                         *)
Shared(a, b) ==
    Max({n \in 0 .. Min({Len(a), Len(b)}) : \A i \in 1 .. n : a[i] = b[i]})

(* Slice::compare *)
UserLess(a, b) ==
    LET n == Shared(a, b)
    IN  \/ n = Len(a) /\ n < Len(b)
        \/ n < Len(a) /\ n < Len(b) /\ a[n + 1] < b[n + 1]

(* InternalKeyComparator::Compare: of one user key the newest first. *)
Less(a, b) ==
    \/ UserLess(ExtractUserKey(a), ExtractUserKey(b))
    \/ ExtractUserKey(a) = ExtractUserKey(b) /\ Last(a) > Last(b)

(* InternalKeyComparator: a shorter user key takes over, as its newest entry. *)
Shorten(k, tmp) ==
    IF Len(tmp) < Len(k) - 1 /\ UserLess(ExtractUserKey(k), tmp)
    THEN Append(tmp, MaxTag) ELSE k

(* FindShortestSeparator of both comparators. *)
FindShortestSeparator(start, limit) ==
    LET s == ExtractUserKey(start)
        l == ExtractUserKey(limit)
        n == Shared(s, l)
    IN  IF n < Min({Len(s), Len(l)}) /\ s[n + 1] < MaxByte /\ s[n + 1] + 1 < l[n + 1]
        THEN Shorten(start, Append(SubSeq(s, 1, n), s[n + 1] + 1))
        ELSE start

(* FindShortSuccessor of both comparators. *)
FindShortSuccessor(k) ==
    LET s == ExtractUserKey(k)
        low == {i \in DOMAIN s : s[i] # MaxByte}
    IN  IF low = {} THEN k
        ELSE Shorten(k, Append(SubSeq(s, 1, Min(low) - 1), s[Min(low)] + 1))

-----------------------------------------------------------------------------
(* Writing *)

NewBlock == [entries |-> <<>>, restarts |-> <<1>>, counter |-> 0, last_key |-> <<>>]

(* BlockBuilder::Add *)
AddTo(b, k) ==
    LET restart == b.counter >= interval
        shared == IF restart THEN 0 ELSE Shared(b.last_key, k)
    IN  [entries |-> Append(b.entries, [shared |-> shared, delta |-> SubSeq(k, shared + 1, Len(k))]),
         restarts |-> IF restart THEN Append(b.restarts, Len(b.entries) + 1) ELSE b.restarts,
         counter |-> IF restart THEN 1 ELSE b.counter + 1,
         last_key |-> k]

(* TableBuilder::Add and Finish, with the keys at which block_size makes   *)
(* it flush; the index holds block numbers, with a restart at every entry. *)
DataBlocks(ks, cuts) ==
    LET ends == SetToSortSeq(cuts \union {Len(ks)}, <)
        first(i) == IF i = 1 THEN 1 ELSE ends[i - 1] + 1
    IN  [i \in DOMAIN ends |-> FoldLeft(AddTo, NewBlock, SubSeq(ks, first(i), ends[i]))]

(* Faulty variant: last_key is assigned before the separator is made. *)
IndexKeys_AssignedFirst(bs) ==
    [i \in DOMAIN bs |->
       IF i = Len(bs) THEN FindShortSuccessor(bs[i].last_key) ELSE bs[i + 1].entries[1].delta]

IndexKeys(bs) ==
    [i \in DOMAIN bs |->
       IF i = Len(bs) THEN FindShortSuccessor(bs[i].last_key)
       ELSE FindShortestSeparator(bs[i].last_key, bs[i + 1].entries[1].delta)]

IndexBlock(bs) ==
    [entries |-> [i \in DOMAIN bs |-> [shared |-> 0, delta |-> IndexKeys(bs)[i]]],
     restarts |-> [i \in DOMAIN bs |-> i]]

-----------------------------------------------------------------------------
(* Block::Iter *)

Invalid(b, it) ==
    [it EXCEPT !.current = Len(b.entries) + 1, !.restart = Len(b.restarts) + 1]

NewIter(b) ==
    [current |-> Len(b.entries) + 1, restart |-> Len(b.restarts) + 1,
     next |-> 0, key |-> <<>>, ok |-> TRUE]

Valid(b, it) == it.current <= Len(b.entries)

SeekToRestartPoint(b, it, r) ==
    [it EXCEPT !.key = <<>>, !.restart = r, !.next = b.restarts[r]]

ParseNextKey(b, it) ==
    IF it.next > Len(b.entries) THEN Invalid(b, it)
    ELSE LET e == b.entries[it.next]
             passed == {r \in it.restart .. Len(b.restarts) :
                          r = it.restart \/ b.restarts[r] < it.next}
         IN  IF Len(it.key) < e.shared
             THEN [Invalid(b, it) EXCEPT !.ok = FALSE, !.key = <<>>]
             ELSE [it EXCEPT !.current = it.next, !.next = @ + 1,
                             !.key = SubSeq(@, 1, e.shared) \o e.delta,
                             !.restart = Max(passed)]

(* The positions that calls of ParseNextKey reach from restart point r on. *)
Scan(b, it, r) ==
    LET walk[n \in 0 .. Len(b.entries) + 1] ==
            IF n = 0 THEN SeekToRestartPoint(b, it, r) ELSE ParseNextKey(b, walk[n - 1])
    IN  [n \in 1 .. Len(b.entries) + 1 |-> walk[n]]

(* The loop over them ends where its condition holds, at one of stops, or  *)
(* where the iterator is not valid any more.                               *)
LoopEnd(b, walk, stops) ==
    walk[Min({n \in DOMAIN walk : ~Valid(b, walk[n]) \/ n \in stops})]

(* The last position before the one of it, from restart point r on. *)
PositionBefore(b, it, r) ==
    LET walk == Scan(b, it, r)
    IN  LoopEnd(b, walk, {n \in DOMAIN walk : walk[n].next >= it.current})

(* Faulty variant: the restart point the iterator is at counts as before it. *)
BlockPrev_FromHere(b, it) ==
    IF it.current = 1 THEN Invalid(b, it) ELSE PositionBefore(b, it, it.restart)

(* Block::Iter::Prev *)
BlockPrev(b, it) ==
    LET before == {r \in 1 .. it.restart : b.restarts[r] < it.current}
    IN  IF before = {} THEN Invalid(b, it) ELSE PositionBefore(b, it, Max(before))

(* Block::Iter::Seek: binary search over the restart points, then a scan. *)
BlockSeek(b, it, target) ==
    LET n == Len(b.restarts)
        mid(p) == (p[1] + p[2] + 1) \div 2
        search[p \in (1 .. n) \X (0 .. n)] ==
            IF p[1] >= p[2] THEN p[1]
            ELSE IF Less(b.entries[b.restarts[mid(p)]].delta, target)
                 THEN search[<<mid(p), p[2]>>] ELSE search[<<p[1], mid(p) - 1>>]
        walk == Scan(b, it, search[<<1, n>>])
    IN  LoopEnd(b, walk, {i \in DOMAIN walk : ~Less(walk[i].key, target)})

BlockSeekToFirst(b, it) == Scan(b, it, 1)[1]

BlockSeekToLast(b, it) ==
    LET walk == Scan(b, it, Len(b.restarts))
    IN  LoopEnd(b, walk, {n \in DOMAIN walk : walk[n].next > Len(b.entries)})

-----------------------------------------------------------------------------
(* TwoLevelIterator *)

DataValid(t) == t.block # 0 /\ Valid(blocks[t.block], t.data)

NoData(t) == [t EXCEPT !.block = 0, !.data = [NewIter(index) EXCEPT !.current = 0]]

InitDataBlock(t) ==
    IF ~Valid(index, t.index) THEN NoData(t)
    ELSE IF t.block = t.index.current THEN t
    ELSE [t EXCEPT !.block = t.index.current, !.data = NewIter(blocks[t.index.current])]

(* data_iter_, when there is one, moves to a position of its block. *)
MoveData(t, position) == IF t.block = 0 THEN t ELSE [t EXCEPT !.data = position]

DataBlock(t) == blocks[t.block]

(* The two loops that leave a block that is used up. *)
SkipForward(t) ==
    LET skip[n \in 0 .. Len(blocks) + 1] ==
            IF n = 0 THEN t
            ELSE LET u == skip[n - 1]
                 IN  IF DataValid(u) THEN u
                     ELSE IF ~Valid(index, u.index) THEN NoData(u)
                     ELSE LET v == InitDataBlock([u EXCEPT !.index = ParseNextKey(index, @)])
                          IN  MoveData(v, BlockSeekToFirst(DataBlock(v), v.data))
    IN  skip[Len(blocks) + 1]

SkipBackward(t) ==
    LET skip[n \in 0 .. Len(blocks) + 1] ==
            IF n = 0 THEN t
            ELSE LET u == skip[n - 1]
                 IN  IF DataValid(u) THEN u
                     ELSE IF ~Valid(index, u.index) THEN NoData(u)
                     ELSE LET v == InitDataBlock([u EXCEPT !.index = BlockPrev(index, @)])
                          IN  MoveData(v, BlockSeekToLast(DataBlock(v), v.data))
    IN  skip[Len(blocks) + 1]

Targets == {Append(u, t) : u \in UserKeys, t \in Tags}

(* Where a plain cursor stands after Seek. *)
FirstNotBefore(target) ==
    LET from == {i \in DOMAIN keys : ~Less(keys[i], target)}
    IN  IF from = {} THEN 0 ELSE Min(from)

Seek(target) ==
    /\ LET t == InitDataBlock([iter EXCEPT !.index = BlockSeek(index, @, target)])
       IN  iter' = SkipForward(MoveData(t, BlockSeek(DataBlock(t), t.data, target)))
    /\ at' = FirstNotBefore(target)
    /\ UNCHANGED <<keys, interval, blocks, index>>

SeekToFirst ==
    /\ LET t == InitDataBlock([iter EXCEPT !.index = BlockSeekToFirst(index, @)])
       IN  iter' = SkipForward(MoveData(t, BlockSeekToFirst(DataBlock(t), t.data)))
    /\ at' = 1
    /\ UNCHANGED <<keys, interval, blocks, index>>

SeekToLast ==
    /\ LET t == InitDataBlock([iter EXCEPT !.index = BlockSeekToLast(index, @)])
       IN  iter' = SkipBackward(MoveData(t, BlockSeekToLast(DataBlock(t), t.data)))
    /\ at' = Len(keys)
    /\ UNCHANGED <<keys, interval, blocks, index>>

NextEntry ==
    /\ DataValid(iter)
    /\ iter' = SkipForward(MoveData(iter, ParseNextKey(DataBlock(iter), iter.data)))
    /\ at' = IF at = Len(keys) THEN 0 ELSE at + 1
    /\ UNCHANGED <<keys, interval, blocks, index>>

PrevEntry ==
    /\ DataValid(iter)
    /\ iter' = SkipBackward(MoveData(iter, BlockPrev(DataBlock(iter), iter.data)))
    /\ at' = at - 1
    /\ UNCHANGED <<keys, interval, blocks, index>>

Init ==
    /\ \E chosen \in {s \in SUBSET Targets : Cardinality(s) \in 1 .. MaxEntries} :
         keys = SetToSortSeq(chosen, Less)
    /\ interval \in Intervals
    /\ \E cuts \in SUBSET (1 .. Len(keys) - 1) : blocks = DataBlocks(keys, cuts)
    /\ index = IndexBlock(blocks)
    /\ iter = NoData([index |-> NewIter(index), data |-> <<>>, block |-> 0])
    /\ at = 0

Next ==
    \/ \E target \in Targets : Seek(target)
    \/ SeekToFirst \/ SeekToLast \/ NextEntry \/ PrevEntry

Spec == Init /\ [][Next]_vars

-----------------------------------------------------------------------------
(* Table::InternalGet: the entry handed to the saver, or none.  It looks   *)
(* into one block only.                                                    *)
InternalGet(k) ==
    LET i == BlockSeek(index, NewIter(index), k)
    IN  IF ~Valid(index, i) THEN <<>>
        ELSE LET b == blocks[i.current]
                 d == BlockSeek(b, NewIter(b), k)
             IN  IF Valid(b, d) THEN d.key ELSE <<>>

(* Whatever the iterator of a table was asked before, and however often it *)
(* turned round, it stands where a cursor over the sorted keys stands, and *)
(* decodes the key that was added there, at block and restart boundaries   *)
(* included (Block::Iter::Prev, Seek; TwoLevelIterator).                   *)
WalksTheTable ==
    /\ DataValid(iter) <=> at # 0
    /\ at # 0 => iter.data.key = keys[at]
    /\ iter.block # 0 => iter.data.ok

(* A point lookup, which reads a single block chosen by the shortened      *)
(* separators, finds the newest entry of the user's key that is not newer  *)
(* than the one asked for, when there is one (Table::InternalGet).         *)
GetFindsNewest ==
    \A k \in Targets :
      LET i == FirstNotBefore(k)
          got == InternalGet(k)
          same(e) == e # <<>> /\ ExtractUserKey(e) = ExtractUserKey(k)
      IN  IF i # 0 /\ same(keys[i]) THEN got = keys[i] ELSE ~same(got)
=============================================================================
