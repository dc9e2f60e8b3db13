----------------------------- MODULE DBIterator -----------------------------
(***************************************************************************)
(* The iterators that walk over a LevelDB database: MergingIterator over   *)
(* the memtables and files, and DBIter above it, which shows of each key   *)
(* the newest value its snapshot sees.  Both go in two directions and may  *)
(* turn round between any two steps.                                       *)
(***************************************************************************)
EXTENDS Integers, Sequences, SequencesExt, FiniteSets, FiniteSetsExt

CONSTANTS
    Key,            \* user keys, numbered in comparator order
    Children,       \* 1..n: the iterators that are merged
    Entries         \* number of entries of the database; their sequence numbers

VARIABLES
    lists,      \* child -> its entries in internal key order
    sequence,   \* DBIter::sequence_, the snapshot
    merge,      \* MergingIterator: positions of the children (0: not valid), current_, direction_
    iter,       \* DBIter: direction_, valid_, saved_key_ and saved_value_
    at          \* history: the key a plain cursor stands at, or 0

vars == <<lists, sequence, merge, iter, at>>

(* InternalKeyComparator: by key, newest first. *)
Less(a, b) == a.key < b.key \/ (a.key = b.key /\ a.seq > b.seq)

-----------------------------------------------------------------------------
(* The children. *)

ChildSeek(c, e) ==
    LET from == {i \in DOMAIN lists[c] : ~Less(lists[c][i], e)}
    IN  IF from = {} THEN 0 ELSE Min(from)

ChildNext(c, p) == IF p < Len(lists[c]) THEN p + 1 ELSE 0

-----------------------------------------------------------------------------
(* MergingIterator *)

KeyAt(m) == lists[m.current][m.pos[m.current]]

ValidChildren(pos) == {c \in Children : pos[c] # 0}

(* FindSmallest: of equal entries the one of the first child. *)
FindSmallest(pos) ==
    LET entry(c) == lists[c][pos[c]]
        best == {c \in ValidChildren(pos) : \A d \in ValidChildren(pos) : ~Less(entry(d), entry(c))}
    IN  [pos |-> pos, current |-> IF best = {} THEN 0 ELSE Min(best), direction |-> "forward"]

(* FindLargest: of equal entries the one of the last child. *)
FindLargest(pos) ==
    LET entry(c) == lists[c][pos[c]]
        best == {c \in ValidChildren(pos) : \A d \in ValidChildren(pos) : ~Less(entry(c), entry(d))}
    IN  [pos |-> pos, current |-> IF best = {} THEN 0 ELSE Max(best), direction |-> "reverse"]

MergeSeek(e) == FindSmallest([c \in Children |-> ChildSeek(c, e)])

MergeSeekToFirst == FindSmallest([c \in Children |-> ChildNext(c, 0)])

MergeSeekToLast == FindLargest([c \in Children |-> Len(lists[c])])

(* Turning forward puts the other children behind the current entry. *)
MergeNext(m) ==
    LET turned == [c \in Children |->
                     LET s == ChildSeek(c, KeyAt(m))
                     IN  IF c = m.current \/ m.direction = "forward" THEN m.pos[c]
                         ELSE IF s # 0 /\ lists[c][s] = KeyAt(m) THEN ChildNext(c, s) ELSE s]
    IN  FindSmallest([turned EXCEPT ![m.current] = ChildNext(m.current, @)])

(* Faulty variant: turning round leaves the other children where they are. *)
MergePrev_NoTurn(m) ==
    FindLargest([m.pos EXCEPT ![m.current] = @ - 1])

(* Turning back puts the other children before the current entry. *)
MergePrev(m) ==
    LET turned == [c \in Children |->
                     LET s == ChildSeek(c, KeyAt(m))
                     IN  IF c = m.current \/ m.direction = "reverse" THEN m.pos[c]
                         ELSE IF s # 0 THEN s - 1 ELSE Len(lists[c])]
    IN  FindLargest([turned EXCEPT ![m.current] = @ - 1])

-----------------------------------------------------------------------------
(* DBIter *)

Nothing == [key |-> 0, val |-> 0]

Forward(valid) == [direction |-> "forward", valid |-> valid, saved |-> Nothing]

Merges == [pos : [Children -> 0..Entries], current : Children \cup {0},
           direction : {"forward", "reverse"}]

SavedEntries == [key : Key \cup {0}, val : 0..Entries]

(* FindNextUserEntry: on to the first value whose key lies behind skip,    *)
(* which follows the deletions met on the way.                             *)
FindNextUserEntry[m \in Merges, skip \in Key \cup {0}] ==
    IF m.current = 0 THEN m
    ELSE LET e == KeyAt(m)
             seen == e.seq <= sequence
         IN  IF seen /\ e.val # 0 /\ e.key > skip THEN m
             ELSE FindNextUserEntry[MergeNext(m), IF seen /\ e.val = 0 THEN e.key ELSE skip]

(* FindPrevUserEntry: back over the entries of a key; the last value met   *)
(* before a smaller key is the newest one seen.                            *)
FindPrevUserEntry[m \in Merges, saved \in SavedEntries] ==
    IF m.current = 0 THEN [m |-> m, saved |-> saved]
    ELSE LET e == KeyAt(m)
         IN  IF e.seq > sequence THEN FindPrevUserEntry[MergePrev(m), saved]
             ELSE IF saved # Nothing /\ e.key < saved.key THEN [m |-> m, saved |-> saved]
             ELSE FindPrevUserEntry[MergePrev(m),
                                    IF e.val = 0 THEN Nothing ELSE [key |-> e.key, val |-> e.val]]

SettleForward(m, skip) ==
    LET n == FindNextUserEntry[m, skip]
    IN  merge' = n /\ iter' = Forward(n.current # 0)

SettleReverse(m) ==
    LET r == FindPrevUserEntry[m, Nothing]
    IN  /\ merge' = r.m
        /\ iter' = IF r.saved = Nothing THEN Forward(FALSE)
                   ELSE [direction |-> "reverse", valid |-> TRUE, saved |-> r.saved]

(* What the iterator shows. *)
Shown ==
    IF ~iter.valid THEN Nothing
    ELSE IF iter.direction = "reverse" THEN iter.saved
    ELSE [key |-> KeyAt(merge).key, val |-> KeyAt(merge).val]

-----------------------------------------------------------------------------
(* A plain cursor over the values the snapshot sees. *)

ValueOf(key) ==
    LET seen == {e \in UNION {ToSet(lists[c]) : c \in Children} :
                   e.key = key /\ e.seq <= sequence}
    IN  IF seen = {} THEN 0 ELSE (CHOOSE e \in seen : \A d \in seen : d.seq <= e.seq).val

Above(k) == {j \in Key : j > k /\ ValueOf(j) # 0}
Below(k) == {j \in Key : j < k /\ ValueOf(j) # 0}

CursorNext(k) == IF Above(k) = {} THEN 0 ELSE Min(Above(k))
CursorPrev(k) == IF Below(k) = {} THEN 0 ELSE Max(Below(k))

-----------------------------------------------------------------------------
(* The operations. *)

Seek(target) ==
    /\ SettleForward(MergeSeek([key |-> target, seq |-> sequence, val |-> 0]), 0)
    /\ at' = CursorNext(target - 1)
    /\ UNCHANGED <<lists, sequence>>

SeekToFirst ==
    /\ SettleForward(MergeSeekToFirst, 0)
    /\ at' = CursorNext(0)
    /\ UNCHANGED <<lists, sequence>>

SeekToLast ==
    /\ SettleReverse(MergeSeekToLast)
    /\ at' = CursorPrev(Max(Key) + 1)
    /\ UNCHANGED <<lists, sequence>>

NextEntry ==
    /\ iter.valid
    /\ IF iter.direction = "forward"
       THEN SettleForward(merge, KeyAt(merge).key)
       ELSE SettleForward(IF merge.current = 0 THEN MergeSeekToFirst ELSE MergeNext(merge),
                          iter.saved.key)
    /\ at' = CursorNext(at)
    /\ UNCHANGED <<lists, sequence>>

(* Prev, while it looks for the entries of smaller keys. *)
BeforeKey[m \in Merges, key \in Key] ==
    IF m.current = 0 \/ KeyAt(m).key < key THEN m ELSE BeforeKey[MergePrev(m), key]

PrevEntry ==
    /\ iter.valid
    /\ IF iter.direction = "reverse"
       THEN SettleReverse(merge)
       ELSE LET m == BeforeKey[merge, KeyAt(merge).key]
            IN  IF m.current = 0 THEN merge' = m /\ iter' = Forward(FALSE) ELSE SettleReverse(m)
    /\ at' = CursorPrev(at)
    /\ UNCHANGED <<lists, sequence>>

(* NewInternalIterator: every entry is in a memtable or a file; a flush    *)
(* that was repeated leaves the same entries in two files.                 *)
Init ==
    /\ \E key \in [1..Entries -> Key], put \in [1..Entries -> BOOLEAN],
          home \in [1..Entries -> SUBSET Children \ {{}}] :
         lists = [c \in Children |->
                    SetToSortSeq({[key |-> key[s], seq |-> s, val |-> IF put[s] THEN s ELSE 0] :
                                    s \in {t \in 1..Entries : c \in home[t]}}, Less)]
    /\ sequence \in (Entries - 1)..Entries
    /\ merge = [pos |-> [c \in Children |-> 0], current |-> 0, direction |-> "forward"]
    /\ iter = Forward(FALSE)
    /\ at = 0

Next ==
    \/ \E k \in Key : Seek(k)
    \/ SeekToFirst \/ SeekToLast \/ NextEntry \/ PrevEntry

Spec == Init /\ [][Next]_vars

(* However seeks and steps in both directions follow each other, the       *)
(* iterator stands where a plain cursor over the visible values stands and *)
(* shows the newest value of that key, never a deleted or hidden one.      *)
ShowsWhatIsVisible ==
    Shown = IF at = 0 THEN Nothing ELSE [key |-> at, val |-> ValueOf(at)]
=============================================================================
