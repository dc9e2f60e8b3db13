-------------------------- MODULE SeqStoreInvProofs --------------------------
(* The inductive invariant of SeqStore, for every value of its constants. *)
EXTENDS SeqStoreTypeProofs

-----------------------------------------------------------------------------
(* The inductive invariant.  Writes may fail at any time; reads of LevelDB  *)
(* succeed, and check() meets no object in use.                             *)

OnlyWriteFaults == Faults \subseteq {"write"}

(* What is on disk, at any time. *)
DiskInv ==
    /\ HeadDescribesValues
    /\ TimesOrdered
    /\ \A i \in DOMAIN msgs : msgs[i].time <= now
    /\ dbHead.count <= dbHead.index /\ dbHead.index <= MaxId
    /\ dbType # "seq" => dbHead.index = 0 /\ dbHead.delay = 0
    /\ now <= MaxTime

(* What is in memory: there is one object, it agrees with the disk once it  *)
(* is loaded, and it is still as constructed before that.                   *)
MemoryInv ==
    /\ CacheMatchesStore
    /\ (cur # None /\ cur \notin loaded) =>
            head[cur].count = 0 /\ head[cur].index = 0 /\ head[cur].delay = 0
    /\ \A t \in Threads : pc[t] # "idle" => held[t] = cur
    /\ \A t \in Threads :
            pc[t] \in {"ready", "enter", "remove", "read"} => cur \in loaded

IInv == TypeOK /\ DiskInv /\ MemoryInv

LEMMA BeginIndex ==
    ASSUME NEW h \in Heads, h.count <= h.index, h.index <= MaxId
    PROVE  seq_begin_index(h) = h.index - h.count + 1
  <1>1. h.index - h.count + 1 \in 0..(U32 - 1)
    BY ConstTypes DEF Heads
  <1>2. QED
    BY <1>1, ModSmall, ConstTypes DEF seq_begin_index

LEMMA InvInit == Init => IInv
  <1> SUFFICES ASSUME Init PROVE IInv
    OBVIOUS
  <1>1. TypeOK
    BY TypeInit
  <1>2. DiskInv
    <2>1. seq_begin_index(dbHead) = 1
      BY BeginIndex, ConstTypes, <1>1 DEF Init, ZeroHead, TypeOK
    <2>2. QED
      BY <2>1, ConstTypes DEF Init, DiskInv, HeadDescribesValues, TimesOrdered, ZeroHead
  <1>3. MemoryInv
    BY ConstTypes DEF Init, MemoryInv, CacheMatchesStore
  <1>4. QED
    BY <1>1, <1>2, <1>3 DEF IInv

(* A step that leaves the disk alone and does not turn the clock back. *)
LEMMA DiskUnchanged ==
    ASSUME IInv, UNCHANGED disk, now' \in Nat, now <= now', now' <= MaxTime
    PROVE  DiskInv'
  BY DEF IInv, TypeOK, DiskInv, HeadDescribesValues, TimesOrdered, disk, seq_begin_index

(* What push writes: the next number, and no other message is touched. *)
LEMMA PushPreserves ==
    ASSUME OnlyWriteFaults, IInv, TypeOK', NEW t \in Threads, push(t)
    PROVE  IInv'
  <1> DEFINE o == held[t]
             h == head[o]
  <1>1. /\ o = cur /\ cur \in Objects /\ cur \in loaded
        /\ h \in Heads /\ dbHead \in Heads
        /\ h.count = dbHead.count /\ h.index = dbHead.index /\ h.delay = dbHead.delay
    BY DEF IInv, TypeOK, MemoryInv, CacheMatchesStore, push
  <1>2. CASE UNCHANGED <<head, disk>>
    <2>1. DiskInv'
      BY <1>2, DiskUnchanged DEF push, disk, IInv, TypeOK, DiskInv
    <2>2. MemoryInv'
      BY <1>1, <1>2 DEF IInv, TypeOK, MemoryInv, CacheMatchesStore, push, Return, Goto, disk
    <2>3. QED
      BY <2>1, <2>2 DEF IInv
  <1>3. CASE \E v \in Data, a \in DelayArgs :
                /\ WriteHead(o, PushedHead(h, (a * Minute) % U32))
                /\ msgs' = PushedMsgs((h.index + 1) % U32, v)
    <2>1. PICK v \in Data, a \in DelayArgs :
                /\ WriteHead(o, PushedHead(h, (a * Minute) % U32))
                /\ msgs' = PushedMsgs((h.index + 1) % U32, v)
      BY <1>3
    <2>2. /\ h.count <= h.index /\ h.index + 1 <= MaxId
          /\ (h.index + 1) % U32 = h.index + 1
          /\ (h.count + 1) % U32 = h.count + 1
      <3>1. h.count <= h.index /\ h.index < MaxId
        BY <1>1 DEF push, IInv, DiskInv
      <3>2. h.index + 1 \in 0..(U32 - 1) /\ h.count + 1 \in 0..(U32 - 1)
        BY ConstTypes, <1>1, <3>1 DEF Heads
      <3>3. QED
        BY ConstTypes, <1>1, <3>1, <3>2, ModSmall DEF Heads
    <2>3. /\ dbHead' = head'[o]
          /\ dbHead'.count = h.count + 1 /\ dbHead'.index = h.index + 1
      BY <1>1, <2>1, <2>2 DEF WriteHead, PushedHead, IInv, TypeOK
    <2>4. DOMAIN msgs = (h.index - h.count + 1)..h.index
      BY <1>1, <2>2, BeginIndex DEF IInv, DiskInv, HeadDescribesValues
    <2>5. /\ DOMAIN msgs' = DOMAIN msgs \cup {h.index + 1}
          /\ msgs'[h.index + 1].time = now
          /\ \A i \in DOMAIN msgs : msgs'[i] = msgs[i]
      BY <1>1, <2>1, <2>2, <2>4 DEF PushedMsgs, Heads
    <2>6. HeadDescribesValues'
      <3>1. dbHead' \in Heads /\ dbHead'.count <= dbHead'.index /\ dbHead'.index <= MaxId
        BY <1>1, <2>2, <2>3 DEF TypeOK, Heads
      <3>2. seq_begin_index(dbHead') = dbHead'.index - dbHead'.count + 1
        BY <3>1, BeginIndex
      <3>3. seq_begin_index(dbHead)' = h.index - h.count + 1
        BY <1>1, <2>3, <3>2, SMTT(30) DEF seq_begin_index, Heads
      <3>4. DOMAIN msgs' = (h.index - h.count + 1)..(h.index + 1)
        <4>1. h.index \in Int /\ h.count \in Int /\ h.count >= 0
          BY <1>1 DEF Heads
        <4>2. h.index - h.count + 1 \in Int /\ h.index - h.count + 1 <= h.index + 1
          BY <4>1
        <4>3. ((h.index - h.count + 1)..h.index) \cup {h.index + 1}
                 = (h.index - h.count + 1)..(h.index + 1)
          BY <4>1, <4>2, IntervalGrows
        <4>4. QED
          BY <2>4, <2>5, <4>3
      <3>5. QED
        BY <2>3, <3>3, <3>4 DEF HeadDescribesValues
    <2>7. now' = now
      BY DEF push
    <2>8. DiskInv'
      <3>1. \A i \in DOMAIN msgs : i < h.index + 1 /\ i \in Int /\ msgs[i].time <= now
        BY <1>1, <2>4 DEF Heads, IInv, DiskInv
      <3>2. TimesOrdered'
        <4>1. SUFFICES ASSUME NEW i \in DOMAIN msgs', NEW j \in DOMAIN msgs', i < j
                       PROVE  msgs'[i].time <= msgs'[j].time
          BY DEF TimesOrdered
        <4>2. CASE j \in DOMAIN msgs
          <5>1. i \in DOMAIN msgs
            BY <1>1, <2>5, <3>1, <4>1, <4>2 DEF Heads
          <5>2. QED
            BY <2>5, <4>1, <4>2, <5>1 DEF TimesOrdered, IInv, DiskInv
        <4>3. CASE j = h.index + 1
          <5>1. i \in DOMAIN msgs
            BY <1>1, <2>5, <4>1, <4>3 DEF Heads
          <5>2. QED
            BY <2>5, <3>1, <4>3, <5>1
        <4>4. QED
          BY <2>5, <4>2, <4>3
      <3>3. dbType' = "seq"
        BY <2>1 DEF WriteHead
      <3>4. \A i \in DOMAIN msgs' : msgs'[i].time <= now'
        BY <2>5, <2>7, <3>1 DEF IInv, TypeOK
      <3>5. QED
        BY <1>1, <2>2, <2>3, <2>6, <2>7, <3>2, <3>3, <3>4 DEF DiskInv, IInv, Heads
    <2>9. MemoryInv'
      BY <1>1, <2>3 DEF IInv, TypeOK, MemoryInv, CacheMatchesStore, push, Return, Goto
    <2>10. QED
      BY <2>8, <2>9 DEF IInv
  <1>4. QED
    BY <1>2, <1>3 DEF push

LEMMA DelayPreserves ==
    ASSUME OnlyWriteFaults, IInv, TypeOK', NEW t \in Threads, delay(t)
    PROVE  IInv'
  <1> DEFINE h == head[held[t]]
  <1>1. /\ held[t] = cur /\ cur \in Objects /\ cur \in loaded
        /\ h.count = dbHead.count /\ h.index = dbHead.index /\ h.delay = dbHead.delay
    BY DEF IInv, TypeOK, MemoryInv, CacheMatchesStore, delay
  <1>2. CASE UNCHANGED <<head, dbType, dbHead>>
    <2>1. DiskInv'
      BY <1>2, DiskUnchanged DEF delay, disk, IInv, TypeOK, DiskInv
    <2>2. MemoryInv'
      BY <1>1, <1>2 DEF IInv, TypeOK, MemoryInv, CacheMatchesStore, delay, Return, Goto
    <2>3. QED
      BY <2>1, <2>2 DEF IInv
  <1>3. CASE \E a \in DelayArgs : WriteHead(held[t], DelayedHead(h, a))
    <2>1. /\ dbHead' = head'[cur] /\ dbType' = "seq"
          /\ dbHead'.count = dbHead.count /\ dbHead'.index = dbHead.index
      BY <1>1, <1>3 DEF WriteHead, DelayedHead, IInv, TypeOK
    <2>2. seq_begin_index(dbHead)' = seq_begin_index(dbHead)
      BY <2>1 DEF seq_begin_index
    <2>3. DiskInv'
      BY <2>1, <2>2 DEF delay, IInv, DiskInv, HeadDescribesValues, TimesOrdered
    <2>4. MemoryInv'
      BY <1>1, <2>1 DEF IInv, TypeOK, MemoryInv, CacheMatchesStore, delay, Return, Goto
    <2>5. QED
      BY <2>3, <2>4 DEF IInv
  <1>4. QED
    BY <1>2, <1>3 DEF delay

(* A prefix leaves an interval of numbers. *)
LEMMA IntervalShrinks ==
    ASSUME NEW a \in Int, NEW b \in Int, NEW f \in Int, a <= f
    PROVE  (a..b) \ (a..(f - 1)) = f..b
  OBVIOUS

(* What a clean-up that succeeds does to the disk. *)
LEMMA RemoveEffect ==
    ASSUME IInv, NEW h \in Heads,
           h.count = dbHead.count, h.index = dbHead.index,
           NEW first \in seq_begin_index(h)..(seq_begin_index(h) + MaxId),
           \A i \in seq_begin_index(h)..(first - 1) : Removable(h, i)
    PROVE  /\ seq_begin_index(h) = h.index - h.count + 1
           /\ DOMAIN msgs = seq_begin_index(h)..h.index
           /\ first <= h.index + 1
           /\ RemovedHead(h, first).count = h.index - first + 1
           /\ DOMAIN msgs \ (seq_begin_index(h)..(first - 1)) = first..h.index
  <1> DEFINE begin == seq_begin_index(h)
  <1>1. /\ h.count \in Nat /\ h.index \in Nat
        /\ h.count <= h.index /\ h.index <= MaxId /\ h.index < U32
    BY ConstTypes DEF Heads, IInv, DiskInv
  <1>2. begin = h.index - h.count + 1
    BY <1>1, BeginIndex
  <1>3. DOMAIN msgs = begin..h.index
    <2>1. seq_begin_index(dbHead) = begin
      BY DEF seq_begin_index
    <2>2. QED
      BY <2>1 DEF IInv, DiskInv, HeadDescribesValues
  <1>4. first \in Int /\ begin \in Int /\ begin <= first
    BY <1>1, <1>2
  <1>5. first <= h.index + 1
    <2>1. CASE first = begin
      BY <1>1, <1>2, <2>1
    <2>2. CASE begin < first
      <3>1. first - 1 \in begin..(first - 1)
        BY <1>4, <2>2
      <3>2. first - 1 \in DOMAIN msgs
        BY <3>1 DEF Removable, Readable
      <3>3. QED
        BY <1>1, <1>3, <1>4, <3>2
    <2>3. QED
      BY <1>4, <2>1, <2>2
  <1>6. RemovedHead(h, first).count = h.index - first + 1
    <2>1. h.count - (first - begin) = h.index - first + 1
      BY <1>1, <1>2, <1>4
    <2>2. h.index - first + 1 \in 0..(U32 - 1)
      BY ConstTypes, <1>1, <1>2, <1>4, <1>5
    <2>3. (h.index - first + 1) % U32 = h.index - first + 1
      BY ConstTypes, <2>2, ModSmall
    <2>4. QED
      BY <2>1, <2>3 DEF RemovedHead
  <1>7. DOMAIN msgs \ (begin..(first - 1)) = first..h.index
    BY <1>1, <1>3, <1>4, IntervalShrinks
  <1>8. QED
    BY <1>2, <1>3, <1>5, <1>6, <1>7

LEMMA RemovePreserves ==
    ASSUME OnlyWriteFaults, IInv, TypeOK', NEW t \in Threads, remove(t)
    PROVE  IInv'
  <1> DEFINE o == held[t]
             h == head[o]
             begin == seq_begin_index(h)
  <1>1. /\ o = cur /\ cur \in Objects /\ cur \in loaded
        /\ h \in Heads /\ dbHead \in Heads /\ now \in Nat
        /\ h.count = dbHead.count /\ h.index = dbHead.index /\ h.delay = dbHead.delay
    BY SMTT(30) DEF IInv, TypeOK, MemoryInv, CacheMatchesStore, remove
  <1>2. CASE head' = [head EXCEPT ![o] = UncleanedHead(h)] /\ UNCHANGED disk
    <2>1. DiskInv'
      BY <1>2, DiskUnchanged DEF remove, IInv, TypeOK, DiskInv
    <2>2. head'[cur] = UncleanedHead(h)
      BY <1>1, <1>2 DEF IInv, TypeOK
    <2>3. MemoryInv'
      BY <1>1, <1>2, <2>2
         DEF IInv, TypeOK, MemoryInv, CacheMatchesStore, UncleanedHead, remove, Goto, disk
    <2>4. QED
      BY <2>1, <2>3 DEF IInv
  <1>3. CASE \E first \in begin..(begin + MaxId) :
                /\ \A i \in begin..(first - 1) : Removable(h, i)
                /\ WriteHead(o, RemovedHead(h, first))
                /\ msgs' = [i \in DOMAIN msgs \ (begin..(first - 1)) |-> msgs[i]]
    <2>1. PICK first \in begin..(begin + MaxId) :
                /\ \A i \in begin..(first - 1) : Removable(h, i)
                /\ WriteHead(o, RemovedHead(h, first))
                /\ msgs' = [i \in DOMAIN msgs \ (begin..(first - 1)) |-> msgs[i]]
      BY <1>3, SMTT(30)
    <2>2. /\ begin = h.index - h.count + 1
          /\ first <= h.index + 1
          /\ RemovedHead(h, first).count = h.index - first + 1
          /\ DOMAIN msgs' = first..h.index
      BY <1>1, <2>1, RemoveEffect
    <2>3. /\ dbHead' = head'[cur] /\ dbType' = "seq"
          /\ dbHead'.count = h.index - first + 1 /\ dbHead'.index = h.index
      BY <1>1, <2>1, <2>2 DEF WriteHead, RemovedHead, IInv, TypeOK
    <2>4. h.index \in Nat /\ h.count \in Nat /\ h.count <= h.index /\ h.index <= MaxId
      BY <1>1, SMTT(30) DEF Heads, IInv, DiskInv
    <2>5. first \in Int /\ 1 <= first
      BY <2>2, <2>4, SMTT(30)
    <2>6. HeadDescribesValues'
      <3>1. dbHead' \in Heads /\ dbHead'.count <= dbHead'.index /\ dbHead'.index <= MaxId
        BY <2>3, <2>4, <2>5 DEF TypeOK
      <3>2. seq_begin_index(dbHead') = dbHead'.index - dbHead'.count + 1
        BY <3>1, BeginIndex
      <3>3. seq_begin_index(dbHead)' = first
        BY <2>3, <2>4, <2>5, <3>2 DEF seq_begin_index
      <3>4. QED
        BY <2>2, <2>3, <3>3 DEF HeadDescribesValues
    <2>7. DiskInv'
      <3>1. now' = now
        BY DEF remove
      <3>2. DOMAIN msgs' \subseteq DOMAIN msgs /\ \A i \in DOMAIN msgs' : msgs'[i] = msgs[i]
        BY <2>1
      <3>3. TimesOrdered'
        BY <3>2 DEF IInv, DiskInv, TimesOrdered
      <3>4. \A i \in DOMAIN msgs' : msgs'[i].time <= now'
        BY <3>1, <3>2 DEF IInv, DiskInv
      <3>5. dbHead'.count <= dbHead'.index /\ dbHead'.index <= MaxId
        BY <2>3, <2>4, <2>5
      <3>6. now' <= MaxTime
        BY <3>1, SMTT(30) DEF IInv, DiskInv
      <3>7. QED
        BY <2>3, <2>6, <3>3, <3>4, <3>5, <3>6 DEF DiskInv
    <2>8. MemoryInv'
      BY <1>1, <2>3 DEF IInv, TypeOK, MemoryInv, CacheMatchesStore, remove, Goto
    <2>9. QED
      BY <2>7, <2>8 DEF IInv
  <1>4. QED
    BY <1>2, <1>3, Zenon DEF remove

LEMMA InvNext == ASSUME OnlyWriteFaults PROVE IInv /\ [Next]_vars => IInv'
  <1> SUFFICES ASSUME IInv, [Next]_vars PROVE IInv'
    OBVIOUS
  <1>0. TypeOK'
    BY TypeNext DEF IInv
  <1>a. now \in Nat /\ now <= MaxTime
    BY DEF IInv, TypeOK, DiskInv
  <1>c. None \notin Objects /\ MaxTime \in Nat
    BY ConstTypes
  <1>b. ASSUME UNCHANGED <<now, disk>> PROVE DiskInv'
    BY <1>a, <1>b, DiskUnchanged
  <1>1. ASSUME NEW t \in Threads, find_is_create(t) PROVE IInv'
    <2>1. DiskInv'
      BY <1>b, <1>1 DEF find_is_create
    <2>2. PICK o \in Objects :
                 /\ \/ o = cur /\ UNCHANGED memory
                    \/ /\ cur = None
                       /\ ~Referenced(o)
                       /\ Construct(o)
                 /\ cur' = o
                 /\ held' = [held EXCEPT ![t] = o]
      BY <1>1, Zenon DEF find_is_create
    <2>3. \A s \in Threads : pc[s] # "idle" => cur # None
      BY DEF IInv, TypeOK, MemoryInv
    <2>4. pc' = [pc EXCEPT ![t] = "found"] /\ UNCHANGED disk
      BY <1>1, SMTT(30) DEF find_is_create, Goto, disk
    <2>5. CASE o = cur /\ UNCHANGED memory
      BY <1>0, <2>1, <2>2, <2>4, <2>5
         DEF IInv, TypeOK, MemoryInv, CacheMatchesStore, disk, memory
    <2>6. CASE cur = None /\ Construct(o)
      <3>1. head'[o] = ZeroHead(now) /\ o \notin loaded'
        BY <2>6, SMTT(30) DEF Construct, IInv, TypeOK
      <3>2. \A s \in Threads : pc'[s] # "idle" => s = t
        BY <2>3, <2>4, <2>6, SMTT(30) DEF IInv, TypeOK
      <3>3. MemoryInv'
        <4>1. cur' = o /\ held'[t] = o /\ pc'[t] = "found"
          BY <2>2, <2>4 DEF IInv, TypeOK
        <4>2. CacheMatchesStore'
          BY <3>1, <4>1 DEF CacheMatchesStore
        <4>3. head'[cur'].count = 0 /\ head'[cur'].index = 0 /\ head'[cur'].delay = 0
          BY <3>1, <4>1 DEF ZeroHead
        <4>4. QED
          BY <3>2, <4>1, <4>2, <4>3, SMTT(30) DEF MemoryInv
      <3>4. QED
        BY <1>0, <2>1, <3>3 DEF IInv
    <2>7. QED
      BY <2>2, <2>5, <2>6
  <1>2. ASSUME NEW t \in Threads, Touch(t) PROVE IInv'
    <2>1. DiskInv'
      BY <1>b, <1>2, SMTT(30) DEF Touch
    <2>2. MemoryInv'
      BY <1>2, SMTT(30) DEF IInv, TypeOK, MemoryInv, CacheMatchesStore, Touch, Goto, disk
    <2>3. QED
      BY <1>0, <2>1, <2>2 DEF IInv
  <1>3. ASSUME NEW t \in Threads, Load(t) PROVE IInv'
    <2>1. DiskInv'
      BY <1>b, <1>3, SMTT(30) DEF Load
    <2>2. held[t] = cur /\ cur \in Objects
      BY <1>3 DEF IInv, TypeOK, MemoryInv, Load
    <2>3. "read" \notin Faults
      BY DEF OnlyWriteFaults
    <2>4. dbType # "seq" => dbHead.count = 0 /\ dbHead.index = 0 /\ dbHead.delay = 0
      BY SMTT(30) DEF IInv, DiskInv, TypeOK, Heads
    <2>5. CASE cur \in loaded
      BY <1>0, <1>3, <2>1, <2>2, <2>5, SMTT(30)
         DEF IInv, TypeOK, MemoryInv, CacheMatchesStore, Load, Goto, disk
    <2>6. CASE cur \notin loaded /\ dbType = "seq"
      BY <1>0, <1>3, <2>1, <2>2, <2>3, <2>6, SMTT(30)
         DEF IInv, TypeOK, MemoryInv, CacheMatchesStore, Load, Goto, disk
    <2>7. CASE cur \notin loaded /\ dbType = "absent"
      BY <1>0, <1>3, <2>1, <2>2, <2>3, <2>4, <2>7, SMTT(30)
         DEF IInv, TypeOK, MemoryInv, CacheMatchesStore, Load, Goto, disk
    <2>8. CASE cur \notin loaded /\ dbType = "other"
      BY <1>0, <1>3, <2>1, <2>2, <2>3, <2>8
         DEF IInv, TypeOK, MemoryInv, CacheMatchesStore, Load, Goto, Return, disk
    <2>9. QED
      BY <2>5, <2>6, <2>7, <2>8 DEF IInv, TypeOK
  <1>4. ASSUME NEW t \in Threads, push(t) PROVE IInv'
    BY <1>0, <1>4, PushPreserves
  <1>5. ASSUME NEW t \in Threads, delay(t) PROVE IInv'
    BY <1>0, <1>5, DelayPreserves
  <1>6. ASSUME NEW t \in Threads, lookdelay(t) \/ Read(t) PROVE IInv'
    <2>1. DiskInv'
      BY <1>b, <1>6 DEF lookdelay, Read
    <2>2. MemoryInv'
      BY <1>6 DEF IInv, TypeOK, MemoryInv, CacheMatchesStore, lookdelay, Read, Return, Goto,
                  disk, memory
    <2>3. QED
      BY <1>0, <2>1, <2>2 DEF IInv
  <1>7. ASSUME NEW t \in Threads, CheckClean(t) PROVE IInv'
    <2>1. DiskInv'
      BY <1>b, <1>7, SMTT(30) DEF CheckClean
    <2>2. MemoryInv'
      BY <1>7 DEF IInv, TypeOK, MemoryInv, CacheMatchesStore, CheckClean, Goto, disk, memory
    <2>3. QED
      BY <1>0, <2>1, <2>2 DEF IInv
  <1>8. ASSUME NEW t \in Threads, EnterRemove(t) PROVE IInv'
    <2>1. DiskInv'
      BY <1>b, <1>8, SMTT(30) DEF EnterRemove
    <2>2. MemoryInv'
      BY <1>8 DEF IInv, TypeOK, MemoryInv, CacheMatchesStore, EnterRemove, Goto, disk
    <2>3. QED
      BY <1>0, <2>1, <2>2 DEF IInv
  <1>9. ASSUME NEW t \in Threads, remove(t) PROVE IInv'
    BY <1>0, <1>9, RemovePreserves
  <1>10. CASE check
    <2>1. DiskInv'
      BY <1>b, <1>10 DEF check
    <2>2. \A t \in Threads : held[t] # cur
      BY <1>10 DEF check, OnlyWriteFaults
    <2>3. \A t \in Threads : pc[t] = "idle"
      BY <2>2 DEF IInv, MemoryInv
    <2>4. MemoryInv'
      BY <1>c, <1>10, <2>3 DEF check, IInv, TypeOK, MemoryInv, CacheMatchesStore, disk, memory
    <2>5. QED
      BY <1>0, <2>1, <2>4 DEF IInv
  <1>11. CASE Tick
    <2>1. DiskInv'
      BY <1>a, <1>c, <1>11, DiskUnchanged, SMTT(30) DEF Tick
    <2>2. MemoryInv'
      BY <1>11 DEF Tick, IInv, MemoryInv, CacheMatchesStore, disk, memory
    <2>3. QED
      BY <1>0, <2>1, <2>2 DEF IInv
  <1>12. CASE Restart
    <2>1. DiskInv'
      BY <1>b, <1>12, SMTT(30) DEF Restart
    <2>2. MemoryInv'
      BY <1>c, <1>12 DEF Restart, IInv, TypeOK, MemoryInv, CacheMatchesStore, disk, memory
    <2>3. QED
      BY <1>0, <2>1, <2>2 DEF IInv
  <1>13. CASE UNCHANGED vars
    <2>1. DiskInv'
      BY <1>b, <1>13, SMTT(30) DEF vars
    <2>2. MemoryInv'
      BY <1>13 DEF vars, IInv, MemoryInv, CacheMatchesStore, disk, memory
    <2>3. QED
      BY <1>0, <2>1, <2>2 DEF IInv
  <1>14. QED
    BY <1>1, <1>2, <1>3, <1>4, <1>5, <1>6, <1>7, <1>8, <1>9, <1>10, <1>11, <1>12, <1>13
       DEF Next

(* The stored head always describes the stored messages, the cached head    *)
(* agrees with it and the messages are in order of time: for any number of  *)
(* threads, any delays and payloads, with failing writes and restarts.      *)
THEOREM Consistent ==
    ASSUME OnlyWriteFaults
    PROVE  Spec => [](HeadDescribesValues /\ CacheMatchesStore /\ TimesOrdered)
  <1>1. Init => IInv
    BY InvInit
  <1>2. IInv /\ [Next]_vars => IInv'
    BY InvNext
  <1>3. IInv => HeadDescribesValues /\ CacheMatchesStore /\ TimesOrdered
    BY DEF IInv, DiskInv, MemoryInv
  <1>4. QED
    BY <1>1, <1>2, <1>3, PTL DEF Spec

(* A failed write never leaves the cached head different from the stored one *)
(* once the object is free (the rollbacks of push, remove and delay).        *)
COROLLARY CacheStaysTrue ==
    ASSUME OnlyWriteFaults
    PROVE  Spec => []CacheMatchesStore
  <1>1. Spec => [](HeadDescribesValues /\ CacheMatchesStore /\ TimesOrdered)
    BY Consistent
  <1>2. QED
    BY <1>1, PTL
=============================================================================
