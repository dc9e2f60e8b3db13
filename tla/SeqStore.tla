------------------------------ MODULE SeqStore ------------------------------
(***************************************************************************)
(* One SEQ key of the storage server: the c_seq objects that cache its     *)
(* head, the registry c_seq_admin that finds, creates and evicts them, the *)
(* LevelDB records behind them, and the network threads that run the SEQ   *)
(* commands.  Sequences of different keys share nothing but the clock, so  *)
(* one key is the general case.                                            *)
(*                                                                         *)
(* Every command is find_is_create, then init (a touch of the object's     *)
(* lifetime outside its lock, then the load under the lock), then a body   *)
(* that holds the object's lock; the lock makes each body one step.  The   *)
(* commands that read (INDEX, SIZE, SEEK, QUERY) first look at the clean   *)
(* time without the lock, and may run remove() before they read.           *)
(***************************************************************************)
EXTENDS Integers, FiniteSets

CONSTANTS
    Threads,            \* network threads
    Objects,            \* identities a c_seq object can have
    None,               \* no object
    Data,               \* payloads clients push
    Empty,              \* the payload of length 0 (a member of Data or not)
    DelayArgs,          \* the numbers clients pass as a delay
    SeqValidTime,       \* config.xml: seq_valid_time
    SeqClearTime,       \* config.xml: seq_clear_time
    ObjectEffective,    \* config.xml: object_effective
    Minute,             \* 60 in the code
    U32,                \* 2^32 in the code: the modulus of uint32
    MaxId,              \* bound: messages pushed
    MaxTime,            \* bound: clock
    Faults              \* which of "write", "read" and "evict" may happen

ASSUME ConstantsAssumption ==
    /\ None \notin Objects
    /\ {SeqValidTime, SeqClearTime, ObjectEffective, MaxTime} \subseteq Nat
    /\ {Minute, MaxId, U32} \subseteq Nat \ {0}
    /\ MaxId + 1 < U32
    /\ DelayArgs \subseteq 0..(U32 - 1)
    /\ Faults \subseteq {"write", "read", "evict"}

VARIABLES
    now,        \* time(0)
    cur,        \* c_seq_admin::m_list[key], or None
    head,       \* per object: m_seq_head
    loaded,     \* the objects whose m_init is true
    eff,        \* per object: m_effective
    dbType,     \* what LevelDB holds under the key: "absent", "seq" or "other"
    dbHead,     \* the _SEQ_HEAD stored under the key (all 0 unless dbType = "seq")
    msgs,       \* the records stored under key@id: id -> [time, data]
    pc,         \* per thread: where it is in the command it runs
    held        \* per thread: the object its wisdom_seq points to, or None

memory == <<head, loaded, eff>>
disk == <<dbType, dbHead, msgs>>
vars == <<now, cur, memory, disk, pc, held>>

seq_valid_time == SeqValidTime * Minute
seq_clear_time == SeqClearTime * Minute
object_effective == ObjectEffective * Minute

Heads == [count : 0..(U32 - 1), index : 0..(U32 - 1), delay : 0..(U32 - 1), cleantime : Nat]

(* The head of a freshly constructed object. *)
ZeroHead(time) == [count |-> 0, index |-> 0, delay |-> 0, cleantime |-> time]

(* c_seq::c_seq *)
Construct(o) ==
    /\ head' = [head EXCEPT ![o] = ZeroHead(now)]
    /\ loaded' = loaded \ {o}
    /\ eff' = [eff EXCEPT ![o] = now + object_effective]

seq_begin_index(h) == (h.index - h.count + 1) % U32

(* get_value() refuses a record no longer than its own header. *)
Readable(i) == i \in DOMAIN msgs /\ msgs[i].data # Empty

WriteMayFail == "write" \in Faults

Init ==
    /\ now = 0
    /\ cur = None
    /\ head = [o \in Objects |-> ZeroHead(0)]
    /\ loaded = {}
    /\ eff = [o \in Objects |-> 0]
    /\ dbType \in {"absent", "other"}
    /\ dbHead = ZeroHead(0)
    /\ msgs = [i \in {} |-> i]
    /\ pc = [t \in Threads |-> "idle"]
    /\ held = [t \in Threads |-> None]

-----------------------------------------------------------------------------
(* The way into a command. *)

Goto(t, label) == pc' = [pc EXCEPT ![t] = label]

(* The reply is sent and the command's reference to the object is dropped. *)
Return(t) == Goto(t, "idle") /\ held' = [held EXCEPT ![t] = None]

Referenced(o) == o = cur \/ \E t \in Threads : held[t] = o

(* c_seq_admin::find_is_create: the object in the map, or a new one. *)
find_is_create(t) ==
    /\ pc[t] = "idle"
    /\ \E o \in Objects :
         /\ \/ o = cur /\ UNCHANGED memory
            \/ /\ cur = None
               /\ ~Referenced(o)
               /\ Construct(o)
         /\ cur' = o
         /\ held' = [held EXCEPT ![t] = o]
    /\ Goto(t, "found")
    /\ UNCHANGED <<now, disk>>

(* init(), first line: the object's lifetime is renewed outside its lock. *)
Touch(t) ==
    /\ pc[t] = "found"
    /\ eff' = [eff EXCEPT ![held[t]] = now + object_effective]
    /\ Goto(t, "touched")
    /\ UNCHANGED <<now, cur, head, loaded, disk, held>>

(* init() under the lock.  Any get_value() error counts as "no record": the *)
(* object then keeps its zero head.  A record of another type is an error.  *)
Load(t) ==
    LET o == held[t] IN
    /\ pc[t] = "touched"
    /\ \/ /\ o \in loaded
          /\ Goto(t, "ready")
          /\ UNCHANGED <<head, loaded, held>>
       \/ /\ o \notin loaded
          /\ dbType = "seq"
          /\ head' = [head EXCEPT ![o] = dbHead]
          /\ loaded' = loaded \cup {o}
          /\ Goto(t, "ready")
          /\ UNCHANGED held
       \/ /\ o \notin loaded
          /\ dbType = "absent" \/ "read" \in Faults
          /\ loaded' = loaded \cup {o}
          /\ Goto(t, "ready")
          /\ UNCHANGED <<head, held>>
       \/ /\ o \notin loaded
          /\ dbType = "other"
          /\ Return(t)
          /\ UNCHANGED <<head, loaded>>
    /\ UNCHANGED <<now, cur, eff, disk>>

-----------------------------------------------------------------------------
(* The commands that write. *)

(* c_base::write: one atomic LevelDB batch with the head and the messages. *)
WriteHead(o, h) ==
    /\ head' = [head EXCEPT ![o] = h]
    /\ dbType' = "seq"
    /\ dbHead' = h

(* Faulty variant: messages are numbered by how many there are. *)
PushedHead_NumberedByCount(h, idelay) ==
    [count |-> (h.count + 1) % U32,
     index |-> (h.count + 1) % U32,
     delay |-> IF idelay > 0 THEN idelay ELSE h.delay,
     cleantime |-> h.cleantime]

(* seq_set: the head and the message record that a PUSH writes. *)
PushedHead(h, idelay) ==
    [count |-> (h.count + 1) % U32,
     index |-> (h.index + 1) % U32,
     delay |-> IF idelay > 0 THEN idelay ELSE h.delay,
     cleantime |-> h.cleantime]

PushedMsgs(k, v) ==
    [i \in DOMAIN msgs \cup {k} |->
        IF i = k THEN [time |-> now, data |-> v] ELSE msgs[i]]

(* SEQ PUSH.  Its optional delay is in minutes.  A failed write puts count, *)
(* index and delay of the cached head back.                                 *)
push(t) ==
    LET o == held[t]
        h == head[o]
    IN
    /\ pc[t] = "ready"
    /\ h.index < MaxId
    /\ \/ \E v \in Data, a \in DelayArgs :
            /\ WriteHead(o, PushedHead(h, (a * Minute) % U32))
            /\ msgs' = PushedMsgs((h.index + 1) % U32, v)
       \/ WriteMayFail /\ UNCHANGED <<head, disk>>
    /\ Return(t)
    /\ UNCHANGED <<now, cur, loaded, eff>>

DelayedHead(h, idelay) ==
    [count |-> h.count, index |-> h.index, delay |-> idelay, cleantime |-> h.cleantime]

(* SEQ DELAY, in seconds.  A failed write puts the old delay back. *)
delay(t) ==
    LET o == held[t]
        h == head[o]
    IN
    /\ pc[t] = "ready"
    /\ \/ \E a \in DelayArgs : WriteHead(o, DelayedHead(h, a))
       \/ WriteMayFail /\ UNCHANGED <<head, dbType, dbHead>>
    /\ Return(t)
    /\ UNCHANGED <<now, cur, loaded, eff, msgs>>

-----------------------------------------------------------------------------
(* The commands that read, and the clean-up they may start. *)

Window(h) == IF h.delay = 0 THEN seq_valid_time ELSE h.delay

(* SEQ LOOKDELAY replies Window and changes nothing. *)
lookdelay(t) ==
    /\ pc[t] = "ready"
    /\ Return(t)
    /\ UNCHANGED <<now, cur, memory, disk>>

is_clean(h) == now - h.cleantime > seq_clear_time

(* INDEX, SIZE, SEEK, QUERY: the first look at the clean time, unlocked. *)
CheckClean(t) ==
    /\ pc[t] = "ready"
    /\ Goto(t, IF is_clean(head[held[t]]) THEN "enter" ELSE "read")
    /\ UNCHANGED <<now, cur, memory, disk, held>>

(* remove() up to its lock: init() again, and the second unlocked look. *)
EnterRemove(t) ==
    /\ pc[t] = "enter"
    /\ eff' = [eff EXCEPT ![held[t]] = now + object_effective]
    /\ Goto(t, IF is_clean(head[held[t]]) THEN "remove" ELSE "read")
    /\ UNCHANGED <<now, cur, head, loaded, disk, held>>

(* Faulty variant: a message stored for exactly the delay is kept. *)
Removable_OffByOne(h, i) == Readable(i) /\ (msgs[i].time + Window(h)) % U32 < now

(* The loop of remove() goes on over message i (uint32 arithmetic). *)
Removable(h, i) == Readable(i) /\ (msgs[i].time + Window(h)) % U32 <= now

(* Faulty variant: seq_del does not count down. *)
RemovedHead_KeepsCount(h, first) ==
    [count |-> h.count, index |-> h.index, delay |-> h.delay, cleantime |-> now]

(* The head after the messages from the begin index up to first were deleted. *)
RemovedHead(h, first) ==
    [count |-> (h.count - (first - seq_begin_index(h))) % U32,
     index |-> h.index,
     delay |-> h.delay,
     cleantime |-> now]

(* Faulty variant: the count of the failed deletions is not put back. *)
UncleanedHead_CountLost(h) ==
    [count |-> (h.count - 1) % U32, index |-> h.index, delay |-> h.delay, cleantime |-> now]

(* The head a failed clean-up leaves in memory. *)
UncleanedHead(h) ==
    [count |-> h.count, index |-> h.index, delay |-> h.delay, cleantime |-> now]

(* remove() under the lock: the longest removable prefix goes.  A failed    *)
(* write puts count back, but not the clean time.                           *)
remove(t) ==
    LET o == held[t]
        h == head[o]
        begin == seq_begin_index(h)
    IN
    /\ pc[t] = "remove"
    /\ \/ \E first \in begin..(begin + MaxId) :
            /\ \A i \in begin..(first - 1) : Removable(h, i)
            /\ ~Removable(h, first)
            /\ WriteHead(o, RemovedHead(h, first))
            /\ msgs' = [i \in DOMAIN msgs \ (begin..(first - 1)) |-> msgs[i]]
       \/ /\ WriteMayFail
          /\ head' = [head EXCEPT ![o] = UncleanedHead(h)]
          /\ UNCHANGED disk
    /\ Goto(t, "read")
    /\ UNCHANGED <<now, cur, loaded, eff, held>>

(* Faulty variant: the newest message is looked for at count. *)
seek_FromCount(h, keyId, n) ==
    LET from == IF keyId = 0 THEN h.count ELSE keyId
        at(k) == IF n > 0 THEN from + k - 1 ELSE from - k + 1
        wanted == 1..(IF n > 0 THEN n ELSE -n)
        listed == {k \in wanted : \A j \in 1..k : Readable(at(j))}
    IN  [k \in listed |-> at(k)]

(* The ids SEEK lists: |n| of them up or down from keyId, 0 meaning the      *)
(* newest, stopping at the first that cannot be read.                        *)
seek(h, keyId, n) ==
    LET from == IF keyId = 0 THEN h.index ELSE keyId
        at(k) == IF n > 0 THEN from + k - 1 ELSE from - k + 1
        wanted == 1..(IF n > 0 THEN n ELSE -n)
        listed == {k \in wanted : \A j \in 1..k : Readable(at(j))}
    IN  [k \in listed |-> at(k)]

(* The read itself, under the shared lock: INDEX and SIZE reply index and   *)
(* count of the cached head, SEEK the messages of seek, QUERY searches (see *)
(* SeqQuery).  None of them changes the state.                              *)
Read(t) ==
    /\ pc[t] = "read"
    /\ Return(t)
    /\ UNCHANGED <<now, cur, memory, disk>>

-----------------------------------------------------------------------------
(* The refresh thread, the clock, and the end of the process. *)

(* c_seq_admin::check erases an object whose lifetime is over.  Without the *)
(* "evict" fault it only meets objects that no command is using.            *)
check ==
    /\ cur # None
    /\ now > eff[cur]
    /\ "evict" \in Faults \/ \A t \in Threads : held[t] # cur
    /\ cur' = None
    /\ UNCHANGED <<now, memory, disk, pc, held>>

Tick ==
    /\ now < MaxTime
    /\ now' = now + 1
    /\ UNCHANGED <<cur, memory, disk, pc, held>>

(* The process dies and guard_process starts it again: memory is lost, the  *)
(* LevelDB records are not.                                                 *)
Restart ==
    /\ cur' = None
    /\ pc' = [t \in Threads |-> "idle"]
    /\ held' = [t \in Threads |-> None]
    /\ UNCHANGED <<now, memory, disk>>

Next ==
    \/ \E t \in Threads :
         \/ find_is_create(t) \/ Touch(t) \/ Load(t)
         \/ push(t) \/ delay(t) \/ lookdelay(t)
         \/ CheckClean(t) \/ EnterRemove(t) \/ remove(t) \/ Read(t)
    \/ check
    \/ Tick
    \/ Restart

Spec == Init /\ [][Next]_vars

-----------------------------------------------------------------------------
(* Properties. *)

(* Every variable has its type; a running command holds an object. *)
TypeOK ==
    /\ now \in Nat
    /\ cur \in Objects \cup {None}
    /\ head \in [Objects -> Heads]
    /\ loaded \subseteq Objects
    /\ eff \in [Objects -> Nat]
    /\ dbType \in {"absent", "seq", "other"}
    /\ dbHead \in Heads
    /\ DOMAIN msgs \subseteq 0..(U32 - 1)
    /\ \A i \in DOMAIN msgs : msgs[i] \in [time : Nat, data : Data]
    /\ pc \in [Threads -> {"idle", "found", "touched", "ready", "enter", "remove", "read"}]
    /\ held \in [Threads -> Objects \cup {None}]
    /\ \A t \in Threads : pc[t] = "idle" <=> held[t] = None

(* "key count@begin@end: size of the container, first index, last index;    *)
(* key+index value: the content" (c_seq.h:7-8).  The head stored under the  *)
(* key describes the messages stored under key@index: they are exactly the  *)
(* count ones that end at index, whatever writes failed in between.         *)
HeadDescribesValues ==
    DOMAIN msgs = seq_begin_index(dbHead)..dbHead.index

(* An object that a later command may use without loading it again agrees   *)
(* with the disk in all that push, remove, SIZE, INDEX and LOOKDELAY read,   *)
(* after failed writes too (the rollbacks of push, delay and remove).       *)
CacheMatchesStore ==
    cur \in loaded =>
        LET h == head[cur]
        IN  <<h.count, h.index, h.delay>> = <<dbHead.count, dbHead.index, dbHead.delay>>

(* Message numbers follow time: what remove() relies on to stop at the      *)
(* first young message, and query() to search by halving.                   *)
TimesOrdered ==
    \A i, j \in DOMAIN msgs : i < j => msgs[i].time <= msgs[j].time

(* A reader that is past its clean-up finds everything: SEEK 0 -n from the  *)
(* cached index lists the newest n messages on disk, all of them when there *)
(* are fewer, newest first.                                                 *)
SeekFindsNewest ==
    \A t \in Threads, n \in 1..MaxId :
        pc[t] = "read" =>
            LET found == seek(head[held[t]], 0, -n)
            IN  /\ {found[k] : k \in DOMAIN found}
                     = {i \in DOMAIN msgs : Cardinality({j \in DOMAIN msgs : j > i}) < n}
                /\ \A k \in DOMAIN found : k > 1 => found[k] = found[k - 1] - 1

(* A stored message is never rewritten and a number never used twice, over  *)
(* evictions, reloads, failed writes and restarts (seq_set's index + 1).    *)
NeverRewritten ==
    [][/\ \A i \in DOMAIN msgs \cap DOMAIN msgs' : msgs'[i] = msgs[i]
       /\ \A i \in DOMAIN msgs' \ DOMAIN msgs : i > dbHead.index
       /\ dbHead'.index >= dbHead.index]_vars

(* The records on disk, read as the abstract log. *)
Log == INSTANCE SeqLog WITH
    last <- dbHead.index,
    kept <- msgs,
    window <- dbHead.delay,
    PushDelays <- {(a * Minute) % U32 : a \in DelayArgs},
    SetDelays <- DelayArgs,
    DefaultDelay <- seq_valid_time

(* The store implements the log: each batch that c_seq writes is one        *)
(* numbered append, one clean-up that takes exactly the expired messages,   *)
(* or one change of the delay.                                              *)
ImplementsLog == Log!Spec
=============================================================================
