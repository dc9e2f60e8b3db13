-------------------------- MODULE SeqStoreLogProofs --------------------------
(* SeqStore implements SeqLog, for every value of its constants. *)
EXTENDS SeqStoreInvProofs

-----------------------------------------------------------------------------
(* The store implements the log. *)

(* No delay in use reaches past the end of uint32 while the clock runs. *)
NoOverflow ==
    /\ MaxTime + seq_valid_time < U32
    /\ \A a \in DelayArgs : MaxTime + a < U32 /\ MaxTime + ((a * Minute) % U32) < U32

WindowInv == MaxTime + Window(dbHead) < U32

(* The effect of a write on what the log can see. *)
LEMMA PushIsAppend ==
    ASSUME IInv, NEW t \in Threads, push(t), dbHead' # dbHead \/ msgs' # msgs
    PROVE  \E v \in Data, a \in DelayArgs : Log!Append(v, (a * Minute) % U32)
  <1> DEFINE h == head[held[t]]
  <1>1. /\ held[t] = cur /\ cur \in Objects
        /\ h \in Heads /\ h.index = dbHead.index /\ h.delay = dbHead.delay
    BY DEF IInv, TypeOK, MemoryInv, CacheMatchesStore, push
  <1>2. PICK v \in Data, a \in DelayArgs :
              /\ WriteHead(held[t], PushedHead(h, (a * Minute) % U32))
              /\ msgs' = PushedMsgs((h.index + 1) % U32, v)
    BY DEF push, disk
  <1>3. (h.index + 1) % U32 = dbHead.index + 1
    <2>1. h.index + 1 \in 0..(U32 - 1)
      BY ConstTypes, <1>1 DEF push, Heads
    <2>2. QED
      BY ConstTypes, <1>1, <2>1, ModSmall
  <1>4. /\ dbHead'.index = dbHead.index + 1
        /\ dbHead'.delay = IF (a * Minute) % U32 > 0 THEN (a * Minute) % U32 ELSE dbHead.delay
    BY <1>1, <1>2, <1>3, SMTT(30) DEF WriteHead, PushedHead
  <1>5. msgs' = [i \in DOMAIN msgs \cup {dbHead.index + 1} |->
                    IF i = dbHead.index + 1 THEN [time |-> now, data |-> v] ELSE msgs[i]]
    BY <1>2, <1>3 DEF PushedMsgs
  <1>6. now' = now
    BY DEF push
  <1>7. QED
    BY <1>4, <1>5, <1>6 DEF Log!Append

LEMMA RemoveIsClean ==
    ASSUME IInv, WindowInv, Empty \notin Data,
           NEW t \in Threads, remove(t), dbHead' # dbHead \/ msgs' # msgs
    PROVE  Log!Clean
  <1> DEFINE h == head[held[t]]
             begin == seq_begin_index(h)
  <1>1. /\ held[t] = cur /\ cur \in Objects
        /\ h \in Heads /\ h.count = dbHead.count /\ h.index = dbHead.index /\ h.delay = dbHead.delay
    BY DEF IInv, TypeOK, MemoryInv, CacheMatchesStore, remove
  <1>2. PICK first \in begin..(begin + MaxId) :
              /\ \A i \in begin..(first - 1) : Removable(h, i)
              /\ ~Removable(h, first)
              /\ WriteHead(held[t], RemovedHead(h, first))
              /\ msgs' = [i \in DOMAIN msgs \ (begin..(first - 1)) |-> msgs[i]]
    BY Zenon DEF remove, disk
  <1>3. /\ DOMAIN msgs = begin..h.index
        /\ begin = h.index - h.count + 1
        /\ DOMAIN msgs \ (begin..(first - 1)) = first..h.index
    BY <1>1, <1>2, RemoveEffect
  <1>4. dbHead'.index = dbHead.index /\ dbHead'.delay = dbHead.delay /\ now' = now
    BY <1>1, <1>2 DEF remove, WriteHead, RemovedHead
  <1>5. Window(h) = Window(dbHead) /\ Window(h) \in Nat /\ Log!InForce = Window(h)
    BY ConstTypes, <1>1 DEF Window, Log!InForce, Heads
  <1>6. \A i \in DOMAIN msgs :
            /\ i \in Int /\ msgs[i].time \in Nat /\ msgs[i].time <= MaxTime
            /\ msgs[i].data # Empty /\ now \in Nat
    <2>1. \A i \in DOMAIN msgs : msgs[i] \in [time : Nat, data : Data] /\ i \in 0..(U32 - 1)
      BY DEF IInv, TypeOK
    <2>2. \A i \in DOMAIN msgs : msgs[i].time <= now
      BY DEF IInv, DiskInv
    <2>3. now \in Nat /\ now <= MaxTime
      BY DEF IInv, DiskInv, TypeOK
    <2>4. QED
      BY ConstTypes, <2>1, <2>2, <2>3
  <1>7. \A i \in DOMAIN msgs : Removable(h, i) <=> msgs[i].time + Window(h) <= now
    <2>1. SUFFICES ASSUME NEW i \in DOMAIN msgs
                   PROVE  Removable(h, i) <=> msgs[i].time + Window(h) <= now
      OBVIOUS
    <2>2. msgs[i].time + Window(h) \in 0..(U32 - 1)
      BY ConstTypes, <1>5, <1>6 DEF WindowInv
    <2>3. (msgs[i].time + Window(h)) % U32 = msgs[i].time + Window(h)
      BY ConstTypes, <2>2, ModSmall
    <2>4. QED
      BY <1>6, <2>3 DEF Removable, Readable
  <1>8. \A i \in DOMAIN msgs : i >= first <=> ~Log!Expired(msgs[i])
    <2>1. SUFFICES ASSUME NEW i \in DOMAIN msgs
                   PROVE  i >= first <=> ~(msgs[i].time + Window(h) <= now)
      BY <1>5 DEF Log!Expired
    <2>2. CASE i < first
      <3>1. i \in begin..(first - 1)
        BY <1>1, <1>3, <1>6, <2>2 DEF Heads
      <3>2. Removable(h, i)
        BY <1>2, <3>1
      <3>3. first \in Int
        BY <1>1, <1>3 DEF Heads
      <3>4. QED
        BY <1>6, <1>7, <2>2, <3>2, <3>3
    <2>3. CASE i >= first
      <3>1. first \in DOMAIN msgs
        <4>1. /\ begin \in Int /\ h.index \in Int /\ first \in Int
              /\ begin <= first /\ i \in Int /\ i <= h.index
          BY <1>1, <1>3, <1>6 DEF Heads
        <4>2. QED
          BY <1>3, <2>3, <4>1
      <3>2. msgs[first].time <= msgs[i].time
        BY <1>6, <2>3, <3>1 DEF IInv, DiskInv, TimesOrdered
      <3>3. ~(msgs[first].time + Window(h) <= now)
        BY <1>2, <1>7, <3>1
      <3>4. QED
        BY <1>5, <1>6, <2>3, <3>1, <3>2, <3>3
    <2>4. QED
      BY <1>1, <1>3, <1>6, <2>2, <2>3 DEF Heads
  <1>9. {j \in DOMAIN msgs : ~Log!Expired(msgs[j])} = first..h.index
    <2>1. h.index \in Int /\ begin \in Int /\ first \in Int /\ begin <= first
      BY <1>1, <1>3, <1>6 DEF Heads
    <2>2. first..h.index \subseteq DOMAIN msgs
      BY <1>3, <2>1
    <2>3. ASSUME NEW j \in DOMAIN msgs PROVE j >= first <=> j \in first..h.index
      <3>1. j \in Int /\ j <= h.index
        BY <1>3, <2>1, SMTT(30)
      <3>2. QED
        BY <2>1, <3>1
    <2>4. QED
      BY <1>8, <2>2, <2>3
  <1>10. msgs' = [i \in {j \in DOMAIN msgs : ~Log!Expired(msgs[j])} |-> msgs[i]]
    BY <1>2, <1>3, <1>9
  <1>11. QED
    BY <1>4, <1>10 DEF Log!Clean

(* Only push, delay, remove and the clock are visible in the log. *)
LEMMA StepIsLogStep ==
    ASSUME OnlyWriteFaults, NoOverflow, Empty \notin Data, IInv, WindowInv, [Next]_vars
    PROVE  WindowInv' /\ [Log!Next]_(Log!vars)
  <1>1. ASSUME UNCHANGED <<now, disk>> PROVE WindowInv' /\ UNCHANGED Log!vars
    BY <1>1 DEF WindowInv, Window, Log!vars, disk
  <1>2. ASSUME NEW t \in Threads, push(t) PROVE WindowInv' /\ [Log!Next]_(Log!vars)
    <2>1. CASE dbHead' = dbHead /\ msgs' = msgs
      BY <1>2, <2>1 DEF WindowInv, Window, Log!vars, push
    <2>2. CASE dbHead' # dbHead \/ msgs' # msgs
      <3>1. PICK v \in Data, a \in DelayArgs : Log!Append(v, (a * Minute) % U32)
        BY <1>2, <2>2, PushIsAppend
      <3>2. Log!Next
        BY <3>1 DEF Log!Next
      <3>3. dbHead'.delay = IF (a * Minute) % U32 > 0 THEN (a * Minute) % U32 ELSE dbHead.delay
        BY <3>1 DEF Log!Append
      <3>4. MaxTime + ((a * Minute) % U32) < U32 /\ MaxTime + seq_valid_time < U32
        BY DEF NoOverflow
      <3>5. WindowInv'
        <4>1. dbHead.delay \in Nat
          BY DEF IInv, TypeOK, Heads
        <4> DEFINE d == (a * Minute) % U32
        <4>2. d \in Nat
          <5>1. a * Minute \in Int
            <6>1. a \in Int /\ Minute \in Int
              BY ConstTypes
            <6>2. QED
              BY <6>1
          <5>2. QED
            BY ConstTypes, <5>1, ModRange
        <4>3. dbHead'.delay = (IF d > 0 THEN d ELSE dbHead.delay) /\ MaxTime + d < U32
          BY <3>3, <3>4, Zenon
        <4> HIDE DEF d
        <4>4. QED
          BY <3>4, <4>1, <4>2, <4>3 DEF WindowInv, Window
      <3>6. QED
        BY <3>2, <3>5
    <2>3. QED
      BY <2>1, <2>2
  <1>3. ASSUME NEW t \in Threads, delay(t) PROVE WindowInv' /\ [Log!Next]_(Log!vars)
    <2>1. held[t] \in Objects /\ held[t] = cur /\ head[cur].index = dbHead.index
      BY <1>3 DEF IInv, TypeOK, MemoryInv, CacheMatchesStore, delay
    <2>2. CASE \E a \in DelayArgs : WriteHead(held[t], DelayedHead(head[held[t]], a))
      <3>1. PICK a \in DelayArgs : WriteHead(held[t], DelayedHead(head[held[t]], a))
        BY <2>2
      <3>2. dbHead'.index = dbHead.index /\ dbHead'.delay = a
        BY <2>1, <3>1 DEF WriteHead, DelayedHead
      <3>3. Log!SetDelay(a)
        BY <1>3, <3>2 DEF Log!SetDelay, delay
      <3>4. WindowInv'
        BY <3>2 DEF WindowInv, Window, NoOverflow
      <3>5. QED
        BY <3>3, <3>4 DEF Log!Next
    <2>3. CASE UNCHANGED <<head, dbType, dbHead>>
      BY <1>1, <1>3, <2>3 DEF delay, disk
    <2>4. QED
      BY <1>3, <2>2, <2>3 DEF delay
  <1>4. ASSUME NEW t \in Threads, remove(t) PROVE WindowInv' /\ [Log!Next]_(Log!vars)
    <2>1. CASE dbHead' = dbHead /\ msgs' = msgs
      BY <1>4, <2>1 DEF WindowInv, Window, Log!vars, remove
    <2>2. CASE dbHead' # dbHead \/ msgs' # msgs
      <3>1. Log!Clean
        BY <1>4, <2>2, RemoveIsClean
      <3>2. WindowInv'
        BY <3>1 DEF Log!Clean, WindowInv, Window
      <3>3. QED
        BY <3>1, <3>2 DEF Log!Next
    <2>3. QED
      BY <2>1, <2>2
  <1>5. CASE Tick
    <2>1. Log!Tick
      BY <1>5 DEF Tick, Log!Tick, disk
    <2>2. WindowInv'
      BY <1>5 DEF Tick, WindowInv, Window, disk
    <2>3. QED
      BY <2>1, <2>2 DEF Log!Next
  <1>6. ASSUME NEW t \in Threads,
               \/ find_is_create(t) \/ Touch(t) \/ Load(t) \/ lookdelay(t)
               \/ CheckClean(t) \/ EnterRemove(t) \/ Read(t)
        PROVE  UNCHANGED <<now, disk>>
    BY <1>6 DEF find_is_create, Touch, Load, lookdelay, CheckClean, EnterRemove, Read
  <1>7. ASSUME check \/ Restart \/ UNCHANGED vars PROVE UNCHANGED <<now, disk>>
    BY <1>7 DEF check, Restart, vars
  <1>8. QED
    BY <1>1, <1>2, <1>3, <1>4, <1>5, <1>6, <1>7 DEF Next

(* SeqStore implements SeqLog: failed writes, evictions, reloads, restarts  *)
(* and interleavings of any number of threads never show in the log, as     *)
(* long as no payload is empty and no delay wraps around.                   *)
THEOREM Implementation ==
    ASSUME OnlyWriteFaults, NoOverflow, Empty \notin Data
    PROVE  Spec => ImplementsLog
  <1>1. Init => IInv /\ WindowInv /\ Log!Init
    <2>1. Init => WindowInv
      BY ConstTypes DEF Init, ZeroHead, WindowInv, Window, NoOverflow
    <2>2. Init => Log!Init
      BY DEF Init, ZeroHead, Log!Init
    <2>3. QED
      BY <2>1, <2>2, InvInit
  <1>2. IInv /\ WindowInv /\ [Next]_vars => IInv' /\ WindowInv' /\ [Log!Next]_(Log!vars)
    BY InvNext, StepIsLogStep
  <1>3. QED
    BY <1>1, <1>2, PTL DEF Spec, ImplementsLog, Log!Spec

(* No stored message is rewritten and no number is used twice; empty        *)
(* payloads and overflowing delays make no difference here.                 *)
THEOREM StoredOnce ==
    ASSUME OnlyWriteFaults
    PROVE  Spec => NeverRewritten
  <1> DEFINE A == /\ \A i \in DOMAIN msgs \cap DOMAIN msgs' : msgs'[i] = msgs[i]
                  /\ \A i \in DOMAIN msgs' \ DOMAIN msgs : i > dbHead.index
                  /\ dbHead'.index >= dbHead.index
  <1>1. ASSUME IInv, [Next]_vars PROVE [A]_vars
    <2>0. dbHead.index \in Nat /\ (DOMAIN msgs = seq_begin_index(dbHead)..dbHead.index)
      BY <1>1 DEF IInv, TypeOK, Heads, DiskInv, HeadDescribesValues
    <2>1. ASSUME UNCHANGED msgs, dbHead'.index = dbHead.index PROVE A
      BY <2>0, <2>1
    <2>2. ASSUME NEW t \in Threads, push(t) PROVE A
      <3>1. CASE dbHead' = dbHead /\ msgs' = msgs
        BY <2>1, <3>1
      <3>2. CASE dbHead' # dbHead \/ msgs' # msgs
        <4>1. PICK v \in Data, a \in DelayArgs : Log!Append(v, (a * Minute) % U32)
          BY <1>1, <2>2, <3>2, PushIsAppend
        <4>2. /\ dbHead'.index = dbHead.index + 1
              /\ DOMAIN msgs' = DOMAIN msgs \cup {dbHead.index + 1}
              /\ \A i \in DOMAIN msgs : i # dbHead.index + 1 => msgs'[i] = msgs[i]
          BY <4>1 DEF Log!Append
        <4>3. dbHead.index + 1 \notin DOMAIN msgs
          BY <2>0
        <4>4. QED
          BY <2>0, <4>2, <4>3
      <3>3. QED
        BY <3>1, <3>2
    <2>3. ASSUME NEW t \in Threads, delay(t) PROVE A
      <3>1. held[t] \in Objects /\ held[t] = cur /\ head[cur].index = dbHead.index
        BY <1>1, <2>3 DEF IInv, TypeOK, MemoryInv, CacheMatchesStore, delay
      <3>2. UNCHANGED msgs /\ dbHead'.index = dbHead.index
        BY <2>3, <3>1 DEF delay, WriteHead, DelayedHead
      <3>3. QED
        BY <2>1, <3>2
    <2>4. ASSUME NEW t \in Threads, remove(t) PROVE A
      <3>1. held[t] \in Objects /\ held[t] = cur /\ head[cur].index = dbHead.index
        BY <1>1, <2>4 DEF IInv, TypeOK, MemoryInv, CacheMatchesStore, remove
      <3>2. CASE UNCHANGED disk
        BY <2>1, <3>2 DEF disk
      <3>3. CASE \E f \in Int, S \in SUBSET DOMAIN msgs :
                    /\ dbHead' = RemovedHead(head[cur], f)
                    /\ msgs' = [i \in S |-> msgs[i]]
        <4>1. PICK f \in Int, S \in SUBSET DOMAIN msgs :
                    /\ dbHead' = RemovedHead(head[cur], f)
                    /\ msgs' = [i \in S |-> msgs[i]]
          BY <3>3
        <4>2. dbHead'.index = dbHead.index
          BY <3>1, <4>1 DEF RemovedHead
        <4>3. DOMAIN msgs' = S /\ \A i \in S : msgs'[i] = msgs[i]
          BY <4>1
        <4>4. QED
          BY <2>0, <4>2, <4>3
      <3>4. CASE ~UNCHANGED disk
        <4> DEFINE h == head[held[t]]
                   begin == seq_begin_index(h)
        <4>1. PICK first \in begin..(begin + MaxId) :
                    /\ WriteHead(held[t], RemovedHead(h, first))
                    /\ msgs' = [i \in DOMAIN msgs \ (begin..(first - 1)) |-> msgs[i]]
          BY <2>4, <3>4 DEF remove
        <4>2. h \in Heads
          BY <1>1, <3>1 DEF IInv, TypeOK
        <4>3. first \in Int
          BY ConstTypes, <4>2, HeadTypes, 0 \in 0..(U32 - 1)
        <4>4. DOMAIN msgs \ (begin..(first - 1)) \in SUBSET DOMAIN msgs
          OBVIOUS
        <4>5. QED
          BY <3>1, <3>3, <4>1, <4>3, <4>4, Zenon DEF WriteHead
      <3>5. QED
        BY <3>2, <3>4, SMTT(30)
    <2>5. ASSUME NEW t \in Threads,
                 \/ find_is_create(t) \/ Touch(t) \/ Load(t) \/ lookdelay(t)
                 \/ CheckClean(t) \/ EnterRemove(t) \/ Read(t)
          PROVE  A
      BY <2>1, <2>5 DEF find_is_create, Touch, Load, lookdelay, CheckClean, EnterRemove, Read, disk
    <2>6. ASSUME check \/ Restart \/ Tick PROVE A
      BY <2>1, <2>6 DEF check, Restart, Tick, disk
    <2>7. QED
      BY <1>1, <2>2, <2>3, <2>4, <2>5, <2>6 DEF Next
  <1>2. Init => IInv
    BY InvInit
  <1>3. IInv /\ [Next]_vars => IInv'
    BY InvNext
  <1>4. QED
    BY <1>1, <1>2, <1>3, PTL DEF Spec, NeverRewritten
=============================================================================
