------------------------------ MODULE RingQueue ------------------------------
(***************************************************************************)
(* CRingQueue<T>: the byte queue behind every socket and both parsers of   *)
(* the redis protocol.  It is a list of blocks of T bytes; a block holds   *)
(* the bytes not yet taken (_b to _p) and how far it has been filled (_p). *)
(* Blocks are listed here from the oldest, the back of m_q, to the newest. *)
(***************************************************************************)
EXTENDS Integers, Sequences, SequencesExt, FiniteSetsExt

CONSTANT T      \* the size of a block

(* CDataBlock::Append in the newest block, or in a new one when it does not *)
(* fit there.                                                               *)
AppendBlock(q, v) ==
    IF q # <<>> /\ Last(q).filled + Len(v) <= T
    THEN [q EXCEPT ![Len(q)] = [data |-> @.data \o v, filled |-> @.filled + Len(v)]]
    ELSE Append(q, [data |-> v, filled |-> Len(v)])

(* The bytes in pieces of T, the last one shorter. *)
Pieces(v) ==
    [i \in 1..((Len(v) + T - 1) \div T) |->
        SubSeq(v, (i - 1) * T + 1, Min({i * T, Len(v)}))]

(* CRingQueue::Append *)
AppendBytes(q, v) == FoldLeft(AppendBlock, q, Pieces(v))

(* The bytes of the k oldest blocks. *)
Oldest(q, k) == FlattenSeq([i \in 1..k |-> q[i].data])

Contents(q) == Oldest(q, Len(q))

(* CRingQueue::Count *)
Count(q) == Len(Contents(q))

(* The blocks that Attach takes off the list because n bytes reach past them. *)
Passed(q, n) == Min({k \in 0..(Len(q) - 1) : Len(Oldest(q, k + 1)) >= n})

(* CRingQueue::Attach with a length: the n oldest bytes, and what becomes of *)
(* the list.  The blocks that were taken off come back oldest first, each    *)
(* pushed behind the one before it.                                          *)
Attached(q, n) == SubSeq(Contents(q), 1, n)
AfterAttach(q, n) ==
    LET k == Passed(q, n)
    IN  Reverse(SubSeq(q, 1, k)) \o SubSeq(q, k + 1, Len(q))

(* CRingQueue::Advance drops n bytes, and the blocks that become empty. *)
Advance(q, n) ==
    LET gone == Max({k \in 0..Len(q) : Len(Oldest(q, k)) <= n})
        rest == SubSeq(q, gone + 1, Len(q))
        left == n - Len(Oldest(q, gone))
    IN  IF left = 0 THEN rest
        ELSE [rest EXCEPT ![1].data = SubSeq(@, left + 1, Len(@))]
=============================================================================
