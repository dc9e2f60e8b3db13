------------------------------ MODULE ListStore ------------------------------
(***************************************************************************)
(* One LIST key of the storage server: the c_list objects that cache its   *)
(* header, the registry c_list_admin that finds, creates and evicts them,  *)
(* the LevelDB records behind them, and the threads that run LIST commands *)
(* (the refresh thread among them: a timeout is a DEL).                    *)
(*                                                                         *)
(* A command is find_is_create, then init (a touch of the object's         *)
(* lifetime outside its lock, then the load under the lock), then a body   *)
(* that holds the lock, which makes the body one step.  A body changes the *)
(* object first and writes one LevelDB batch last; nothing is put back     *)
(* when the batch fails.                                                   *)
(***************************************************************************)
EXTENDS Integers, Sequences

CONSTANTS
    Threads,            \* network threads and the refresh thread
    Objects,            \* identities a c_list object can have
    None,               \* no object
    Data,               \* payloads clients push
    Updates,            \* the value sequences clients pass to UPDATE
    ExpireArgs,         \* the numbers clients pass to EXPIRE
    ObjectEffective,    \* config.xml: object_effective, in seconds
    ListMaxCount,       \* config.xml: list_max_count
    U16,                \* 2^16 in the code: the modulus of uint16
    U32,                \* 2^32 in the code: the modulus of uint32
    MaxTime,            \* bound: clock
    Faults              \* which of "write", "read" and "evict" may happen

ASSUME ConstantsAssumption ==
    /\ None \notin Objects
    /\ {ObjectEffective, MaxTime} \subseteq Nat
    /\ {U16, U32} \subseteq Nat \ {0, 1}
    /\ ListMaxCount \in 1..(U16 - 1)
    /\ Updates \subseteq Seq(Data)
    /\ \A s \in Updates : Len(s) < U16
    /\ ExpireArgs \subseteq 0..(U32 - 1)
    /\ Faults \subseteq {"write", "read", "evict"}

VARIABLES
    now,        \* time(0)
    cur,        \* c_list_admin::m_list[key], or None
    list,       \* per object: m_list, the ids of its values in order
    expiry,     \* per object: m_head.m_effective
    loaded,     \* the objects whose m_init is true
    eff,        \* per object: m_effective
    dbType,     \* what LevelDB holds under the key: "absent", "list" or "other"
    dbList,     \* the ids in the header stored under the key (<<>> if none)
    dbExpiry,   \* the m_effective of that header (0 if none)
    items,      \* the records stored under key@id: id -> value
    pc,         \* per thread: where it is in the command it runs
    held        \* per thread: the object its wisdom_list points to, or None

memory == <<list, expiry, loaded, eff>>
disk == <<dbType, dbList, dbExpiry, items>>
vars == <<now, cur, memory, disk, pc, held>>

Ids == 0..(U16 - 1)

IdsOf(s) == {s[i] : i \in 1..Len(s)}

(* c_list::c_list.  The c_base constructor zeroes the header. *)
Construct(o) ==
    /\ list' = [list EXCEPT ![o] = <<>>]
    /\ expiry' = [expiry EXCEPT ![o] = 0]
    /\ loaded' = loaded \ {o}
    /\ eff' = [eff EXCEPT ![o] = now + ObjectEffective]

WriteMayFail == "write" \in Faults

Init ==
    /\ now = 0
    /\ cur = None
    /\ list = [o \in Objects |-> <<>>]
    /\ expiry = [o \in Objects |-> 0]
    /\ loaded = {}
    /\ eff = [o \in Objects |-> 0]
    /\ dbType \in {"absent", "other"}
    /\ dbList = <<>>
    /\ dbExpiry = 0
    /\ items = [k \in {} |-> k]
    /\ pc = [t \in Threads |-> "idle"]
    /\ held = [t \in Threads |-> None]

-----------------------------------------------------------------------------
(* The way into a command. *)

Goto(t, label) == pc' = [pc EXCEPT ![t] = label]

(* The reply is sent and the command's reference to the object is dropped. *)
Return(t) == Goto(t, "idle") /\ held' = [held EXCEPT ![t] = None]

Referenced(o) == o = cur \/ \E t \in Threads : held[t] = o

(* c_list_admin::find_is_create: the object in the map, or a new one. *)
find_is_create(t) ==
    /\ pc[t] = "idle"
    /\ \E o \in Objects :
         /\ \/ o = cur /\ UNCHANGED memory
            \/ /\ cur = None
               /\ ~Referenced(o)
               /\ Construct(o)
         /\ cur' = o
         /\ held' = [held EXCEPT ![t] = o]
    /\ Goto(t, "found")
    /\ UNCHANGED <<now, disk>>

(* init(), first line: the object's lifetime is renewed outside its lock. *)
Touch(t) ==
    /\ pc[t] = "found"
    /\ eff' = [eff EXCEPT ![held[t]] = now + ObjectEffective]
    /\ Goto(t, "touched")
    /\ UNCHANGED <<now, cur, list, expiry, loaded, disk, held>>

(* What init() takes from the record under the key: nothing when get_value() *)
(* fails, as it does for a header without ids; an error for another type.   *)
Load(o) ==
    \/ /\ dbType = "list" /\ dbList # <<>>
       /\ list' = [list EXCEPT ![o] = dbList]
       /\ expiry' = [expiry EXCEPT ![o] = dbExpiry]
    \/ /\ (dbType # "other" /\ dbList = <<>>) \/ "read" \in Faults
       /\ UNCHANGED <<list, expiry>>

(* c_list::init under the lock: the header is loaded. *)
init(t) ==
    LET o == held[t] IN
    /\ pc[t] = "touched"
    /\ \/ /\ o \in loaded
          /\ Goto(t, "ready")
          /\ UNCHANGED <<list, expiry, loaded, held>>
       \/ /\ o \notin loaded
          /\ Load(o)
          /\ loaded' = loaded \cup {o}
          /\ Goto(t, "ready")
          /\ UNCHANGED held
       \/ /\ o \notin loaded
          /\ dbType = "other"
          /\ Return(t)
          /\ UNCHANGED <<list, expiry, loaded>>
    /\ UNCHANGED <<now, cur, eff, disk>>

-----------------------------------------------------------------------------
(* The commands. *)

(* The records after a batch that deletes the ids dels, then puts puts. *)
Batch(dels, puts) ==
    [k \in (DOMAIN items \ dels) \cup DOMAIN puts |->
        IF k \in DOMAIN puts THEN puts[k] ELSE items[k]]

(* c_base::write of the header and of the changed values: all or nothing. *)
Write(type, s, e, dels, puts) ==
    \/ /\ dbType' = type
       /\ dbList' = s
       /\ dbExpiry' = e
       /\ items' = Batch(dels, puts)
    \/ WriteMayFail /\ UNCHANGED disk

NoItems == [k \in {} |-> k]

(* Faulty variant: ids count from the length of the list. *)
list_get_keyId_ByLength(s) == (Len(s) + 1) % U16

(* The id a pushed value gets: one more than the last one, in 16 bits. *)
list_get_keyId(s) == IF s = <<>> THEN 1 ELSE (s[Len(s)] + 1) % U16

(* Faulty variant: one value too many before the oldest goes. *)
Trim_OffByOne(s) == IF Len(s) > ListMaxCount THEN Tail(s) ELSE s

(* A full list loses its oldest value. *)
Trim(s) == IF Len(s) >= ListMaxCount THEN Tail(s) ELSE s

(* LIST PUSH *)
push(t) ==
    LET o == held[t]
        s == Trim(list[o])
        k == list_get_keyId(s)
        dels == IdsOf(list[o]) \ IdsOf(s)
    IN
    /\ pc[t] = "ready"
    /\ list' = [list EXCEPT ![o] = Append(s, k)]
    /\ \E v \in Data : Write("list", Append(s, k), expiry[o], dels, [i \in {k} |-> v])
    /\ Return(t)
    /\ UNCHANGED <<now, cur, expiry, loaded, eff>>

(* Faulty variant: POP leaves the record of the value it takes. *)
Popped_KeepsItem(s) == {}

(* The record that POP deletes. *)
Popped(s) == {s[1]}

(* LIST POP.  The id leaves the cached list before its value is read, and   *)
(* stays away when the value is missing or the write fails.                 *)
pop(t) ==
    LET o == held[t]
        s == list[o]
    IN
    /\ pc[t] = "ready"
    /\ \/ s = <<>> /\ UNCHANGED <<list, disk>>
       \/ /\ s # <<>>
          /\ list' = [list EXCEPT ![o] = Tail(s)]
          /\ \/ s[1] \notin DOMAIN items /\ UNCHANGED disk
             \/ /\ s[1] \in DOMAIN items
                /\ Write("list", Tail(s), expiry[o], Popped(s), NoItems)
    /\ Return(t)
    /\ UNCHANGED <<now, cur, expiry, loaded, eff>>

(* The ids list_push gives to the values of an UPDATE: from 1 on. *)
Renumbered(vs) == [i \in 1..Len(vs) |-> i % U16]

(* LIST UPDATE: all values are replaced, whatever their number. *)
update(t) ==
    LET o == held[t] IN
    /\ pc[t] = "ready"
    /\ \E vs \in Updates :
         LET s == Renumbered(vs)
             puts == [k \in IdsOf(s) |-> vs[CHOOSE i \in 1..Len(vs) : s[i] = k]]
         IN  /\ list' = [list EXCEPT ![o] = s]
             /\ Write("list", s, expiry[o], IdsOf(list[o]), puts)
    /\ Return(t)
    /\ UNCHANGED <<now, cur, expiry, loaded, eff>>

(* LIST EXPIRE, in seconds; the timer it starts is the subject of KeyExpiry. *)
expire(t) ==
    LET o == held[t] IN
    /\ pc[t] = "ready"
    /\ \E ms \in ExpireArgs :
         /\ expiry' = [expiry EXCEPT ![o] = (now + ms) % U32]
         /\ Write("list", list[o], (now + ms) % U32, {}, NoItems)
    /\ Return(t)
    /\ UNCHANGED <<now, cur, list, loaded, eff>>

(* LIST DEL, and DEL on the key.  The cached header keeps its expiry. *)
remove(t) ==
    LET o == held[t] IN
    /\ pc[t] = "ready"
    /\ list' = [list EXCEPT ![o] = <<>>]
    /\ Write("absent", <<>>, 0, IdsOf(list[o]), NoItems)
    /\ Return(t)
    /\ UNCHANGED <<now, cur, expiry, loaded, eff>>

(* The values at the ids of s, those that cannot be read left out. *)
Values(s) ==
    LET found == SelectSeq(s, LAMBDA k : k \in DOMAIN items)
    IN  [i \in 1..Len(found) |-> items[found[i]]]

(* Faulty variant: a negative count lists nothing. *)
limit_Signed(s, num) == Values(SubSeq(s, 1, IF num < Len(s) THEN num ELSE Len(s)))

(* LIST LIMIT: the values at the first ids; the count is a uint32.          *)
limit(s, num) ==
    LET count == num % U32
    IN  Values(SubSeq(s, 1, IF count < Len(s) THEN count ELSE Len(s)))

(* LIST SEEK: up to ilimit values after the first iseek ids.  A negative    *)
(* iseek is compared with the length as an unsigned number.                 *)
seek(s, iseek, ilimit) ==
    LET after == Values(SubSeq(s, iseek + 1, Len(s)))
        count == ilimit % U32
    IN  IF iseek < 0 \/ Len(s) <= iseek THEN <<>>
        ELSE SubSeq(after, 1, IF count < Len(after) THEN count ELSE Len(after))

(* LIMIT, SEEK, SIZE and TIME hold the shared lock and change nothing. *)
Read(t) ==
    /\ pc[t] = "ready"
    /\ Return(t)
    /\ UNCHANGED <<now, cur, memory, disk>>

-----------------------------------------------------------------------------
(* The refresh thread, the clock, and the end of the process. *)

(* c_list_admin::check erases an object whose lifetime is over.  Without    *)
(* the "evict" fault it only meets objects that no command is using.        *)
check ==
    /\ cur # None
    /\ now > eff[cur]
    /\ "evict" \in Faults \/ \A t \in Threads : held[t] # cur
    /\ cur' = None
    /\ UNCHANGED <<now, memory, disk, pc, held>>

Tick ==
    /\ now < MaxTime
    /\ now' = now + 1
    /\ UNCHANGED <<cur, memory, disk, pc, held>>

(* The process dies and is started again: memory is lost, the records stay. *)
Restart ==
    /\ cur' = None
    /\ pc' = [t \in Threads |-> "idle"]
    /\ held' = [t \in Threads |-> None]
    /\ UNCHANGED <<now, memory, disk>>

Next ==
    \/ \E t \in Threads :
         \/ find_is_create(t) \/ Touch(t) \/ init(t)
         \/ push(t) \/ pop(t) \/ update(t) \/ expire(t) \/ remove(t) \/ Read(t)
    \/ check
    \/ Tick
    \/ Restart

Spec == Init /\ [][Next]_vars
-----------------------------------------------------------------------------
(* Properties. *)

(* Every variable has its type; a running command holds an object. *)
TypeOK ==
    /\ now \in Nat
    /\ cur \in Objects \cup {None}
    /\ list \in [Objects -> Seq(Ids)]
    /\ expiry \in [Objects -> 0..(U32 - 1)]
    /\ loaded \subseteq Objects
    /\ eff \in [Objects -> Nat]
    /\ dbType \in {"absent", "list", "other"}
    /\ dbList \in Seq(Ids)
    /\ dbExpiry \in 0..(U32 - 1)
    /\ DOMAIN items \subseteq Ids
    /\ \A k \in DOMAIN items : items[k] \in Data
    /\ pc \in [Threads -> {"idle", "found", "touched", "ready"}]
    /\ held \in [Threads -> Objects \cup {None}]
    /\ \A t \in Threads : pc[t] = "idle" <=> held[t] = None

(* "key [1][2][3][4]...: 2 bytes each; key1 data; key2 data" (c_list.h:9-13). *)
(* The ids in the stored header are those of the stored values, none missing *)
(* and none left over: a value out of the header could never be read, nor    *)
(* deleted, and an id without a value counts in SIZE but not in LIMIT.       *)
HeaderListsItems == IdsOf(dbList) = DOMAIN items

(* No id is in a list twice, in memory or on disk: list_get_keyId reuses     *)
(* the numbers after 16 bits, and must not meet the oldest of a full list.   *)
DistinctIds ==
    \A s \in {dbList} \cup {list[o] : o \in Objects} :
        \A i, j \in 1..Len(s) : i # j => s[i] # s[j]

(* An object that a later command may use without loading it again has the   *)
(* ids of the stored header, evictions, reloads and restarts included.       *)
CacheMatchesStore == cur \in loaded => list[cur] = dbList

(* The values on disk in the order of the header. *)
queue == [i \in 1..Len(dbList) |-> items[dbList[i]]]

Queue == INSTANCE BoundedQueue WITH Limit <- ListMaxCount

(* The records implement the queue: PUSH appends and drops the oldest value  *)
(* of a full list, POP takes the oldest, UPDATE replaces all, DEL empties,   *)
(* and nothing else, an eviction or a restart, changes what the list holds.  *)
ImplementsQueue == Queue!Spec

(* "num < 0 returns all values of the queue, otherwise the first num" (LIST  *)
(* LIMIT) and "sum records from record start_num + 1 on" (LIST SEEK), for a  *)
(* command that is past init().                                              *)
ReadersSeeQueue ==
    \A t \in Threads, n \in -1..(U16 - 1), m \in 0..(U16 - 1) :
        pc[t] = "ready" =>
            LET s == list[held[t]]
            IN  /\ limit(s, n) = SubSeq(queue, 1, IF n < 0 \/ n > Len(queue) THEN Len(queue) ELSE n)
                /\ seek(s, m, n) = IF n < 0 \/ m + n > Len(queue) THEN SubSeq(queue, m + 1, Len(queue))
                                   ELSE SubSeq(queue, m + 1, m + n)
=============================================================================
