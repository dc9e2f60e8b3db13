--------------------------- MODULE KeyExpiryProofs ---------------------------
(* The key and its timers, for every value of the constants: long timers are *)
(* looked at in time, and what one network thread stores can be read back.   *)
EXTENDS KeyExpiry, TLAPS

(* What the timers are made of, whatever the clients do. *)
TimersTyped ==
    /\ now \in Nat
    /\ m_temp \in Seq(Nat)
    /\ m_immediately \in Nat \cup {None}
    /\ m_long \in Nat \cup {None}
    /\ m_check_long \in Nat
    /\ job \in [Clients -> [value : Values \cup {NoValue}, timeout : 0..(U32 - 1),
                            due : Nat \cup {Never}]]

(* LongTimersWait is not inductive: a timer that comes to m_long is at least *)
(* Soon seconds away, and the next look at most LongPeriod seconds.          *)
TimersInv ==
    /\ TimersTyped
    /\ m_check_long <= now + LongPeriod
    /\ m_long # None => m_check_long + Soon <= m_long + LongPeriod

LEMMA Constants ==
    /\ Soon \in Nat /\ LongPeriod \in Nat /\ LongPeriod <= Soon
    /\ U32 \in Nat /\ U32 > 0
    /\ ExpireArgs \subseteq 0..(U32 - 1)
  BY ConstantsAssumption

LEMMA TimersInit == Init => TimersInv
  BY Constants DEF Init, TimersInv, TimersTyped, None, Never, NoJob

LEMMA TimersNext == TimersInv /\ [Next]_vars => TimersInv'
  <1> SUFFICES ASSUME TimersInv, [Next]_vars PROVE TimersInv'
    OBVIOUS
  <1> USE DEF TimersInv, TimersTyped, None, Never
  <1>1. ASSUME NEW t \in Clients, set(t) PROVE TimersInv'
    <2>1. PICK v \in Values, ms \in ExpireArgs :
             job' = [job EXCEPT ![t] = [value |-> v, timeout |-> Timeout(ms), due |-> DueAt(ms)]]
      BY <1>1 DEF set
    <2>2. Timeout(ms) \in 0..(U32 - 1) /\ DueAt(ms) \in Nat \cup {Never}
      BY Constants DEF Timeout, DueAt, PERMANENT_BASE
    <2>3. UNCHANGED <<now, m_temp, m_immediately, m_long, m_check_long>>
      BY <1>1 DEF set, timers
    <2>4. QED
      BY <2>1, <2>2, <2>3
  <1>2. ASSUME NEW t \in Clients, set_crc(t) \/ del(t) \/ recycle(t) \/ remove(t)
        PROVE  TimersInv'
    BY <1>2 DEF set_crc, del, recycle, remove, timers
  <1>3. ASSUME NEW t \in Clients, put(t) PROVE TimersInv'
    <2>1. NoJob \in [value : Values \cup {NoValue}, timeout : 0..(U32 - 1),
                     due : Nat \cup {Never}]
      BY Constants DEF NoJob
    <2>2. QED
      BY <1>3, <2>1 DEF put, timers
  <1>4. ASSUME NEW t \in Clients, push(t) PROVE TimersInv'
    <2>1. NoJob \in [value : Values \cup {NoValue}, timeout : 0..(U32 - 1),
                     due : Nat \cup {Never}]
      BY Constants DEF NoJob
    <2>2. now + job[t].timeout \in Nat
      BY <1>4
    <2>3. m_temp' \in Seq(Nat)
      <3>1. m_temp' = m_temp \/ m_temp' = Append(m_temp, now + job[t].timeout)
        BY <1>4 DEF push
      <3>2. m_temp \in Seq(Nat)
        OBVIOUS
      <3>3. \A n \in Nat : Append(m_temp, n) \in Seq(Nat)
        BY <3>2
      <3>4. QED
        BY <2>2, <3>1, <3>2, <3>3, Zenon
    <2>4. QED
      BY <1>4, <2>1, <2>3 DEF push
  <1>5. CASE exec_temp
    <2>1. Head(m_temp) \in Nat /\ m_temp' \in Seq(Nat)
      BY <1>5 DEF exec_temp
    <2>2. QED
      BY <1>5, <2>1, Constants DEF exec_temp, immediate
  <1>6. CASE timeout_scan
    BY <1>6, Constants DEF timeout_scan, check_long, immediate
  <1>7. CASE timeout_fire
    BY <1>7 DEF timeout_fire
  <1>8. CASE timeout_remove
    BY <1>8 DEF timeout_remove, timers
  <1>9. CASE Tick
    BY <1>9, Constants DEF Tick, timers
  <1>10. CASE Restart
    <2>1. NoJob \in [value : Values \cup {NoValue}, timeout : 0..(U32 - 1),
                     due : Nat \cup {Never}]
      BY Constants DEF NoJob
    <2>2. QED
      BY <1>10, <2>1, Constants DEF Restart
  <1>11. CASE UNCHANGED vars
    BY <1>11 DEF vars, timers
  <1>12. QED
    BY <1>1, <1>2, <1>3, <1>4, <1>5, <1>6, <1>7, <1>8, <1>9, <1>10, <1>11
       DEF Next, Finish, RefreshStep

(* A timer in m_long never runs out before m_long is looked at again, for    *)
(* any look-ahead no shorter than the period of the looks, any timers, and   *)
(* however late the refresh thread runs, over restarts and failed writes.    *)
THEOREM LongTimersAreInTime == Spec => []LongTimersWait
  <1>1. Init => TimersInv
    BY TimersInit
  <1>2. TimersInv /\ [Next]_vars => TimersInv'
    BY TimersNext
  <1>3. TimersInv => LongTimersWait
    BY Constants DEF TimersInv, TimersTyped, LongTimersWait, None
  <1>4. QED
    BY <1>1, <1>2, <1>3, PTL DEF Spec

-----------------------------------------------------------------------------
(* The record, the shared header and where the threads are. *)
RecordTyped ==
    /\ value \in Values \cup {NoValue} /\ crc \in Values \cup {NoValue}
    /\ effective \in 0..(U32 - 1)
    /\ headEff \in 0..(U32 - 1) /\ headCrc \in Values \cup {NoValue}
    /\ pc \in [Clients \cup {Refresh} ->
                 {"idle", "crc", "put", "timer", "del", "recycle", "scan", "remove"}]
    /\ due \in Nat \cup {Never}

LEMMA EffectiveInRange ==
    ASSUME NEW timeout \in Nat, now \in Nat
    PROVE  Effective(timeout) \in 0..(U32 - 1)
  BY Constants DEF Effective

LEMMA RecordNext == TimersTyped /\ RecordTyped /\ [Next]_vars => RecordTyped'
  <1> SUFFICES ASSUME TimersTyped, RecordTyped, [Next]_vars PROVE RecordTyped'
    OBVIOUS
  <1> USE DEF RecordTyped, TimersTyped, Goto
  <1>1. ASSUME NEW t \in Clients, set(t) PROVE RecordTyped'
    <2>1. PICK v \in Values, ms \in ExpireArgs : headEff' = Effective(Timeout(ms))
      BY <1>1 DEF set
    <2>2. Timeout(ms) \in Nat
      BY Constants DEF Timeout, PERMANENT_BASE
    <2>3. headEff' \in 0..(U32 - 1)
      BY <2>1, <2>2, EffectiveInRange
    <2>4. QED
      BY <1>1, <2>3 DEF set, record
  <1>2. ASSUME NEW t \in Clients, set_crc(t) PROVE RecordTyped'
    BY <1>2 DEF set_crc, record
  <1>3. ASSUME NEW t \in Clients, del(t) \/ recycle(t) PROVE RecordTyped'
    BY <1>3 DEF del, recycle, record, head
  <1>4. ASSUME NEW t \in Clients, remove(t) PROVE RecordTyped'
    BY <1>4, Constants DEF remove, Removed, record, head, Never
  <1>5. ASSUME NEW t \in Clients, put(t) PROVE RecordTyped'
    BY <1>5 DEF put, record, head
  <1>6. ASSUME NEW t \in Clients, push(t) PROVE RecordTyped'
    BY <1>6 DEF push, record, head
  <1>7. CASE exec_temp
    BY <1>7 DEF exec_temp, record, head
  <1>8. CASE timeout_scan
    BY <1>8 DEF timeout_scan, record, head
  <1>9. CASE timeout_fire
    BY <1>9 DEF timeout_fire, record, head
  <1>10. CASE timeout_remove
    BY <1>10, Constants DEF timeout_remove, Removed, record, head, Never
  <1>11. CASE Tick
    BY <1>11 DEF Tick, record, head
  <1>12. CASE Restart
    BY <1>12, Constants DEF Restart, record, head
  <1>13. CASE UNCHANGED vars
    BY <1>13 DEF vars, record, head
  <1>14. QED
    BY <1>1, <1>2, <1>3, <1>4, <1>5, <1>6, <1>7, <1>8, <1>9, <1>10, <1>11, <1>12, <1>13
       DEF Next, Finish, RefreshStep

(* Every variable of the key and its timers keeps its type, whatever fails:  *)
(* effective times stay within 32 bits.                                      *)
THEOREM KeyTypeCorrect == Spec => []TypeOK
  <1>1. Init => RecordTyped
    BY Constants DEF Init, RecordTyped, Never
  <1>2. TimersInv => TimersTyped
    BY DEF TimersInv
  <1>3. TimersTyped /\ RecordTyped => TypeOK
    BY DEF TimersTyped, RecordTyped, TypeOK
  <1>4. QED
    BY <1>1, <1>2, <1>3, TimersInit, TimersNext, RecordNext, PTL DEF Spec

-----------------------------------------------------------------------------
(* RecordReadable is not inductive: when the record is about to be written,  *)
(* the shared header must hold the checksum of the client's own value.       *)
ReadableInv ==
    /\ value # NoValue => crc = value
    /\ \A t \in Clients : pc[t] = "put" => headCrc = job[t].value

LEMMA ReadableNext ==
    ASSUME NEW c, Clients = {c}
    PROVE  TimersTyped /\ RecordTyped /\ ReadableInv /\ [Next]_vars => ReadableInv'
  <1> SUFFICES ASSUME TimersTyped, RecordTyped, ReadableInv, [Next]_vars PROVE ReadableInv'
    OBVIOUS
  <1>0. Refresh # c
    BY ConstantsAssumption
  <1> USE <1>0 DEF RecordTyped, TimersTyped, ReadableInv, Goto
  <1>1. ASSUME NEW t \in Clients, set(t) PROVE ReadableInv'
    BY <1>1 DEF set, record
  <1>2. ASSUME NEW t \in Clients, set_crc(t) PROVE ReadableInv'
    BY <1>2 DEF set_crc, record
  <1>3. ASSUME NEW t \in Clients, del(t) \/ recycle(t) PROVE ReadableInv'
    BY <1>3 DEF del, recycle, record, head
  <1>4. ASSUME NEW t \in Clients, remove(t) PROVE ReadableInv'
    BY <1>4 DEF remove, Removed, record, head
  <1>5. ASSUME NEW t \in Clients, put(t) PROVE ReadableInv'
    BY <1>5 DEF put, record, head
  <1>6. ASSUME NEW t \in Clients, push(t) PROVE ReadableInv'
    BY <1>6 DEF push, record, head
  <1>7. CASE exec_temp
    BY <1>7 DEF exec_temp, record, head
  <1>8. CASE timeout_scan
    BY <1>8 DEF timeout_scan, record, head
  <1>9. CASE timeout_fire
    BY <1>9 DEF timeout_fire, record, head
  <1>10. CASE timeout_remove
    BY <1>10 DEF timeout_remove, Removed, record, head
  <1>11. CASE Tick
    BY <1>11 DEF Tick, record, head
  <1>12. CASE Restart
    BY <1>12 DEF Restart, record, head
  <1>13. CASE UNCHANGED vars
    BY <1>13 DEF vars, record, head
  <1>14. QED
    BY <1>1, <1>2, <1>3, <1>4, <1>5, <1>6, <1>7, <1>8, <1>9, <1>10, <1>11, <1>12, <1>13
       DEF Next, Finish, RefreshStep

(* With one network thread every stored record can be read back, over failed *)
(* writes, restarts and the refresh thread's deletions; with two, the header *)
(* they share (_set::m_head) breaks this.                                    *)
THEOREM OneThreadReadsBack ==
    ASSUME NEW c, Clients = {c}
    PROVE  Spec => []RecordReadable
  <1>1. Init => RecordTyped /\ ReadableInv
    BY Constants DEF Init, RecordTyped, ReadableInv, Never
  <1>2. TimersInv => TimersTyped
    BY DEF TimersInv
  <1>3. ReadableInv => RecordReadable
    BY DEF ReadableInv, RecordReadable, get_value
  <1>4. QED
    BY <1>1, <1>2, <1>3, TimersInit, TimersNext, RecordNext, ReadableNext, PTL DEF Spec
=============================================================================
