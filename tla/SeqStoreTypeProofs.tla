------------------------- MODULE SeqStoreTypeProofs -------------------------
(* Type correctness of SeqStore, for every value of its constants. *)
EXTENDS SeqStore, TLAPS

LEMMA ModRange ==
    ASSUME NEW x \in Int, NEW m \in Nat \ {0}
    PROVE  x % m \in 0..(m - 1)
  BY SMT

LEMMA ModSmall ==
    ASSUME NEW m \in Nat \ {0}, NEW x \in 0..(m - 1)
    PROVE  x % m = x
  BY SMT

LEMMA IntervalGrows ==
    ASSUME NEW a \in Int, NEW b \in Int, a <= b + 1
    PROVE  (a..b) \cup {b + 1} = a..(b + 1)
  OBVIOUS

LEMMA ConstTypes ==
    /\ None \notin Objects
    /\ seq_valid_time \in Nat /\ seq_clear_time \in Nat /\ object_effective \in Nat
    /\ U32 \in Nat \ {0} /\ MaxId \in Nat \ {0} /\ MaxTime \in Nat /\ Minute \in Nat \ {0}
    /\ MaxId + 1 < U32
    /\ DelayArgs \subseteq 0..(U32 - 1)
  BY ConstantsAssumption DEF seq_valid_time, seq_clear_time, object_effective

-----------------------------------------------------------------------------
(* Type correctness, whatever faults may happen. *)

LEMMA TypeInit == Init => TypeOK
  BY ConstTypes DEF Init, TypeOK, Heads, ZeroHead

(* A head that push, delay or remove builds is a head. *)
LEMMA HeadTypes ==
    ASSUME NEW h \in Heads, NEW d \in 0..(U32 - 1)
    PROVE  /\ PushedHead(h, d) \in Heads
           /\ DelayedHead(h, d) \in Heads
           /\ seq_begin_index(h) \in 0..(U32 - 1)
           /\ now \in Nat => /\ \A k \in Int : RemovedHead(h, k) \in Heads
                            /\ UncleanedHead(h) \in Heads
  <1>1. \A x \in Int : x % U32 \in 0..(U32 - 1)
    BY ModRange, ConstTypes
  <1>2. seq_begin_index(h) \in 0..(U32 - 1)
    BY <1>1 DEF Heads, seq_begin_index
  <1>3. PushedHead(h, d) \in Heads
    BY <1>1 DEF Heads, PushedHead
  <1>4. ASSUME now \in Nat PROVE \A k \in Int : RemovedHead(h, k) \in Heads
    BY <1>1, <1>2, <1>4 DEF Heads, RemovedHead
  <1>5. QED
    BY <1>2, <1>3, <1>4 DEF Heads, DelayedHead, UncleanedHead

LEMMA TypeNext == TypeOK /\ [Next]_vars => TypeOK'
  <1> SUFFICES ASSUME TypeOK, [Next]_vars PROVE TypeOK'
    OBVIOUS
  <1> USE ConstTypes
  <1>0. ZeroHead(now) \in Heads
    BY DEF TypeOK, Heads, ZeroHead
  <1>h. \A t \in Threads : pc[t] # "idle" => held[t] \in Objects
    BY DEF TypeOK
  <1>1. ASSUME NEW t \in Threads, find_is_create(t) PROVE TypeOK'
    BY <1>0, <1>1 DEF TypeOK, find_is_create, Goto, Construct, memory, disk
  <1>2. ASSUME NEW t \in Threads, Touch(t) PROVE TypeOK'
    BY <1>h, <1>2 DEF TypeOK, Touch, Goto, disk
  <1>3. ASSUME NEW t \in Threads, Load(t) PROVE TypeOK'
    BY <1>h, <1>3 DEF TypeOK, Load, Goto, Return, disk
  <1>4. ASSUME NEW t \in Threads, push(t) PROVE TypeOK'
    <2> DEFINE o == held[t]
               h == head[o]
               k == (h.index + 1) % U32
    <2>1. o \in Objects /\ h \in Heads
      BY <1>h, <1>4 DEF TypeOK, push
    <2>2. k \in 0..(U32 - 1)
      <3>1. h.index + 1 \in Int
        BY <2>1 DEF Heads
      <3>2. QED
        BY <3>1, ModRange
    <2>3. CASE \E v \in Data, a \in DelayArgs :
                  /\ WriteHead(o, PushedHead(h, (a * Minute) % U32))
                  /\ msgs' = PushedMsgs(k, v)
      <3>1. PICK v \in Data, a \in DelayArgs :
                  /\ WriteHead(o, PushedHead(h, (a * Minute) % U32))
                  /\ msgs' = PushedMsgs(k, v)
        BY <2>3
      <3>2. (a * Minute) % U32 \in 0..(U32 - 1)
        <4>1. a \in Int /\ a * Minute \in Int
          OBVIOUS
        <4>2. QED
          BY <4>1, ModRange
      <3>3. PushedHead(h, (a * Minute) % U32) \in Heads
        BY <2>1, <3>2, HeadTypes
      <3>4. head' \in [Objects -> Heads] /\ dbType' = "seq" /\ dbHead' \in Heads
        BY <2>1, <3>1, <3>3 DEF TypeOK, WriteHead
      <3>5. /\ DOMAIN msgs' \subseteq 0..(U32 - 1)
            /\ \A i \in DOMAIN msgs' : msgs'[i] \in [time : Nat, data : Data]
        BY <2>2, <3>1 DEF TypeOK, PushedMsgs
      <3>6. QED
        BY <1>4, <3>4, <3>5 DEF TypeOK, push, Return, Goto
    <2>4. CASE UNCHANGED <<head, disk>>
      BY <1>4, <2>1, <2>4 DEF TypeOK, push, Return, Goto, disk
    <2>5. QED
      BY <1>4, <2>3, <2>4 DEF push
  <1>5. ASSUME NEW t \in Threads, delay(t) PROVE TypeOK'
    <2>1. held[t] \in Objects /\ head[held[t]] \in Heads
      BY <1>h, <1>5 DEF TypeOK, delay
    <2>2. \A a \in DelayArgs : DelayedHead(head[held[t]], a) \in Heads
      BY <2>1 DEF Heads, DelayedHead
    <2>3. QED
      BY <1>5, <2>1, <2>2 DEF TypeOK, delay, Return, Goto, WriteHead
  <1>6. ASSUME NEW t \in Threads, lookdelay(t) PROVE TypeOK'
    BY <1>h, <1>6 DEF TypeOK, lookdelay, Goto, Return, memory, disk
  <1>7. ASSUME NEW t \in Threads, CheckClean(t) PROVE TypeOK'
    BY <1>h, <1>7 DEF TypeOK, CheckClean, Goto, memory, disk
  <1>8. ASSUME NEW t \in Threads, EnterRemove(t) PROVE TypeOK'
    BY <1>h, <1>8 DEF TypeOK, EnterRemove, Goto, memory, disk
  <1>9. ASSUME NEW t \in Threads, remove(t) PROVE TypeOK'
    <2> DEFINE o == held[t]
               h == head[o]
               begin == seq_begin_index(h)
    <2>1. o \in Objects /\ h \in Heads /\ now \in Nat
      BY <1>h, <1>9 DEF TypeOK, remove
    <2>2. begin \in 0..(U32 - 1) /\ UncleanedHead(h) \in Heads
      BY <2>1, HeadTypes, 0 \in 0..(U32 - 1)
    <2>3. CASE \E first \in begin..(begin + MaxId) :
                  /\ WriteHead(o, RemovedHead(h, first))
                  /\ msgs' = [i \in DOMAIN msgs \ (begin..(first - 1)) |-> msgs[i]]
      <3>1. PICK first \in begin..(begin + MaxId) :
                  /\ WriteHead(o, RemovedHead(h, first))
                  /\ msgs' = [i \in DOMAIN msgs \ (begin..(first - 1)) |-> msgs[i]]
        BY <2>3
      <3>2. RemovedHead(h, first) \in Heads
        BY <2>1, <2>2, HeadTypes, 0 \in 0..(U32 - 1)
      <3>3. head' \in [Objects -> Heads] /\ dbType' = "seq" /\ dbHead' \in Heads
        BY <2>1, <3>1, <3>2 DEF TypeOK, WriteHead
      <3>4. /\ DOMAIN msgs' \subseteq 0..(U32 - 1)
            /\ \A i \in DOMAIN msgs' : msgs'[i] \in [time : Nat, data : Data]
        BY <3>1 DEF TypeOK
      <3>5. QED
        BY <1>9, <3>3, <3>4 DEF TypeOK, remove, Goto
    <2>4. CASE head' = [head EXCEPT ![o] = UncleanedHead(h)] /\ UNCHANGED disk
      BY <1>9, <2>1, <2>2, <2>4 DEF TypeOK, remove, Goto, disk
    <2>5. QED
      BY <1>9, <2>3, <2>4, Zenon DEF remove
  <1>10. ASSUME NEW t \in Threads, Read(t) PROVE TypeOK'
    BY <1>h, <1>10 DEF TypeOK, Read, Goto, Return, memory, disk
  <1>11. CASE check
    BY <1>11 DEF TypeOK, check, memory, disk
  <1>12. CASE Tick
    BY <1>12 DEF TypeOK, Tick, memory, disk
  <1>13. CASE Restart
    BY <1>13 DEF TypeOK, Restart, memory, disk
  <1>14. CASE UNCHANGED vars
    BY <1>14 DEF TypeOK, vars, memory, disk
  <1>15. QED
    BY <1>1, <1>2, <1>3, <1>4, <1>5, <1>6, <1>7, <1>8, <1>9, <1>10, <1>11, <1>12, <1>13, <1>14
       DEF Next

(* Every reachable state is well typed, with any faults. *)
THEOREM TypeCorrect == Spec => []TypeOK
  BY TypeInit, TypeNext, PTL DEF Spec
=============================================================================
