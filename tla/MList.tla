------------------------------- MODULE MList -------------------------------
(***************************************************************************)
(* One MLIST key: the c_mlist object that caches its list of ids, the      *)
(* header record stored under the key and the item records stored under    *)
(* key@id.  Commands hold the object's lock, so a command, with the init() *)
(* that precedes it, is one step.  An object is forgotten when the admin   *)
(* evicts it or the server stops; the next command loads the header again. *)
(* An id is the sequence of its bytes: the header's encoding is modelled,  *)
(* because loading it back is what can go wrong.                           *)
(***************************************************************************)
EXTENDS Integers, Sequences, SequencesExt

CONSTANTS
    KeyIds,         \* the ids clients pass, as byte sequences
    Data,           \* payloads
    Times,          \* the times EXPIRE may compute
    MaxList,        \* m_max_list: mlist_max_count of config.xml
    Counts,         \* the numbers clients pass to SEEK
    U32             \* 2^32 in the code: the modulus of uint32

VARIABLES
    loaded,         \* m_init
    mlist,          \* m_list
    mexpiry,        \* m_head.m_effective
    stored,         \* the record under the key: [type, expiry, bytes]
    items,          \* the records under key@id
    exact,          \* history: no write or read failed, no header was loaded
    repeated        \* history: an id was pushed while it was listed

vars == <<loaded, mlist, mexpiry, stored, items, exact, repeated>>

Absent == [type |-> "absent", expiry |-> 0, bytes |-> <<>>]
Other  == [type |-> "other",  expiry |-> 0, bytes |-> <<>>]

Init ==
    /\ loaded = FALSE
    /\ mlist = <<>>
    /\ mexpiry = 0
    /\ stored \in {Absent, Other}
    /\ items = [id \in {} |-> id]
    /\ exact = TRUE
    /\ repeated = FALSE

-----------------------------------------------------------------------------
(* The header. *)

(* list_update: a length byte before every id. *)
Encode(l) == FlattenSeq([i \in 1..Len(l) |-> <<Len(l[i]) % 256>> \o l[i]])

Header(l, e) == [type |-> "mlist", expiry |-> e, bytes |-> Encode(l)]

(* load_value: the pointer stays on the first length byte while i counts    *)
(* through the record, and the copy starts at that byte.                    *)
load_value(bytes) ==
    LET n == bytes[1]
    IN  [k \in 1..((Len(bytes) - 1) \div (1 + n)) |-> SubSeq(bytes, 1, n)]

(* What an object can hold after init().  get_value() fails for a header     *)
(* without ids and on a read error; the object then starts empty, with a     *)
(* zeroed header.  A record of another type makes init() and the command     *)
(* fail, which changes nothing.                                              *)
Loaded ==
    IF loaded THEN {[list |-> mlist, expiry |-> mexpiry, exact |-> exact]}
    ELSE {[list |-> <<>>, expiry |-> 0, exact |-> exact /\ stored = Absent]}
         \cup {[list |-> load_value(h.bytes), expiry |-> h.expiry, exact |-> FALSE] :
                    h \in {h \in {stored} : h.bytes # <<>>}}

(* The batch is written, or is not; the object keeps its change either way. *)
Write(header, records, x) ==
    \/ /\ stored' = header
       /\ items' = records
       /\ exact' = x
    \/ /\ UNCHANGED <<stored, items>>
       /\ exact' = FALSE

Without(records, ids) ==
    [k \in DOMAIN records \ ids |-> records[k]]

-----------------------------------------------------------------------------
(* The commands. *)

(* Faulty variant: the record of the id that is dropped stays. *)
push_KeepsRecord(id, v) ==
    \E m \in Loaded :
        LET full == Len(m.list) >= MaxList
            l2   == Append(IF full THEN Tail(m.list) ELSE m.list, id)
        IN  /\ loaded' = TRUE
            /\ mlist' = l2
            /\ mexpiry' = m.expiry
            /\ repeated' = (repeated \/ Contains(m.list, id))
            /\ Write(Header(l2, m.expiry),
                     [k \in DOMAIN items \cup {id} |-> IF k = id THEN v ELSE items[k]],
                     m.exact)

(* c_mlist::push: a full list drops its first id and that id's record. *)
push(id, v) ==
    \E m \in Loaded :
        LET full == Len(m.list) >= MaxList
            l2   == Append(IF full THEN Tail(m.list) ELSE m.list, id)
            rest == IF full THEN Without(items, {Head(m.list)}) ELSE items
        IN  /\ loaded' = TRUE
            /\ mlist' = l2
            /\ mexpiry' = m.expiry
            /\ repeated' = (repeated \/ Contains(m.list, id))
            /\ Write(Header(l2, m.expiry),
                     [k \in DOMAIN rest \cup {id} |-> IF k = id THEN v ELSE rest[k]],
                     m.exact)

(* c_mlist::remove: the ids' records and the header are deleted. *)
remove ==
    \E m \in Loaded :
        /\ loaded' = TRUE
        /\ mlist' = <<>>
        /\ mexpiry' = m.expiry
        /\ UNCHANGED repeated
        /\ Write(Absent, Without(items, Range(m.list)), m.exact)

(* c_mlist::expire: the header is written with its new time. *)
expire(t) ==
    \E m \in Loaded :
        /\ loaded' = TRUE
        /\ mlist' = m.list
        /\ mexpiry' = t
        /\ UNCHANGED repeated
        /\ Write(Header(m.list, t), items, m.exact)

(* SEEK, SIZE and TIME only load. *)
Look ==
    \E m \in Loaded :
        /\ loaded' = TRUE
        /\ mlist' = m.list
        /\ mexpiry' = m.expiry
        /\ exact' = m.exact
        /\ UNCHANGED <<stored, items, repeated>>

(* c_mlist_admin::check, or a restart: the object goes, LevelDB stays. *)
Forget ==
    /\ loaded
    /\ loaded' = FALSE
    /\ mlist' = <<>>
    /\ mexpiry' = 0
    /\ UNCHANGED <<stored, items, exact, repeated>>

Next ==
    \/ \E id \in KeyIds, v \in Data : push(id, v)
    \/ remove
    \/ \E t \in Times : expire(t)
    \/ Look
    \/ Forget

Spec == Init /\ [][Next]_vars

-----------------------------------------------------------------------------
(* SEEK, as the code computes it.  Its loops visit the list in order; the   *)
(* first one counts what it returns, the second does not.                   *)

Readable(l) == SelectSeq(l, LAMBDA id : id \in DOMAIN items)

First(s, n) == SubSeq(s, 1, IF n < Len(s) THEN n ELSE Len(s))

(* Faulty variant: the record that was named is returned too. *)
AfterKey_Itself(id, n) ==
    LET at == SelectInSeq(mlist, LAMBDA k : k = id)
    IN  First(Readable(SubSeq(mlist, at, Len(mlist))), n)

(* The loop that looks for the id: a count of 0 ends it before the id is met. *)
AfterKey(id, n) ==
    LET at == SelectInSeq(mlist, LAMBDA k : k = id)
    IN  First(Readable(SubSeq(mlist, at + 1, Len(mlist))), n)

(* ibegin is computed in uint32, where no difference is negative, and read   *)
(* back as an int.                                                          *)
FromEnd(n) ==
    LET d      == (Len(mlist) - n) % U32
        ibegin == IF d < U32 \div 2 THEN d ELSE d - U32
        skip   == IF ibegin > 0 THEN ibegin ELSE 0
    IN  IF n = 0 THEN <<>> ELSE Readable(SubSeq(mlist, skip + 1, Len(mlist)))

(* c_mlist::seek *)
seek(id, n) ==
    IF n > 0 /\ Contains(mlist, id) THEN AfterKey(id, n) ELSE FromEnd(n)

-----------------------------------------------------------------------------
(* Properties. *)

(* While nothing failed and the header was never loaded back, the store     *)
(* holds what the object holds: the header lists the ids, and no record is   *)
(* kept whose id is not listed; when no id was pushed again while listed,   *)
(* every listed id has its record (push, remove, expire).                    *)
StoreMatchesList ==
    exact /\ loaded /\ stored.type # "other" =>
        /\ stored = (IF mlist = <<>> /\ stored.type = "absent" THEN Absent
                     ELSE Header(mlist, mexpiry))
        /\ DOMAIN items \subseteq Range(mlist)
        /\ ~repeated => DOMAIN items = Range(mlist)

(* SEEK returns the records after the one it names, oldest first and at most *)
(* as many as asked for; for an unknown name it returns the end of the list  *)
(* (c_mlist::seek; counts that are positive as an int).                      *)
SeekAnswers ==
    \A id \in KeyIds, n \in Counts :
        LET at == {i \in 1..Len(mlist) : mlist[i] = id}
            i0 == CHOOSE i \in at : \A j \in at : i <= j
            live(i) == mlist[i] \in DOMAIN items
            rank(i) == Cardinality({j \in (i0 + 1)..i : live(j)})
            want == IF at # {}
                    THEN {i \in 1..Len(mlist) : i > i0 /\ live(i) /\ rank(i) <= n}
                    ELSE {i \in 1..Len(mlist) : i + n > Len(mlist) /\ live(i)}
        IN  (n > 0 /\ n < U32 \div 2) =>
                seek(id, n) = [k \in 1..Cardinality(want) |->
                    mlist[CHOOSE i \in want :
                        Cardinality({j \in want : j <= i}) = k]]

(* What is stored can be loaded back: "key [len|skey][len|skey]...", as the  *)
(* comment above c_mlist describes the header.                               *)
ReloadKeepsList ==
    exact /\ loaded /\ stored.type = "mlist" /\ stored.bytes # <<>> =>
        load_value(stored.bytes) = mlist
=============================================================================
