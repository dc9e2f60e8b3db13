------------------------------ MODULE KeyExpiry ------------------------------
(***************************************************************************)
(* One plain key of the storage server and the ways it disappears: SET     *)
(* with and without EXPIRE, GET, DEL and RECYCLE on the network threads,   *)
(* the timers of c_timeout, and the refresh thread that runs them.         *)
(*                                                                         *)
(* There is one _set object for all threads, and the record header it      *)
(* fills in (m_head) has no lock: the effective time, the checksum and the *)
(* copy into the record are separate steps.  The timer of a SET is queued  *)
(* after the record is written, and a DEL looks at the record's type       *)
(* before it deletes.                                                      *)
(***************************************************************************)
EXTENDS Integers, Sequences

CONSTANTS
    Clients,        \* network threads
    Refresh,        \* the refresh thread
    Values,         \* the values clients store; a value is its own checksum
    ExpireArgs,     \* the numbers clients pass to EXPIRE, 0 when there is none
    NoValue,        \* no value, no record and no timer
    Soon,           \* 300 in the code: what m_immediately looks ahead
    LongPeriod,     \* 120 in the code: how often m_long is looked at
    MaxTimer,       \* 72 hours in the code: the longest timer
    U32,            \* 2^32 in the code: the modulus of uint32
    MaxTime,        \* bound: the clock when no timer is running
    MaxTemp,        \* bound: timers waiting in m_temp
    Faults          \* which of "write" and "restart" may happen

ASSUME ConstantsAssumption ==
    /\ Refresh \notin Clients
    /\ NoValue \notin Values
    /\ {Soon, LongPeriod, MaxTimer, MaxTime, MaxTemp} \subseteq Nat
    /\ LongPeriod <= Soon
    /\ U32 \in Nat /\ U32 > MaxTime
    /\ ExpireArgs \subseteq 0..(U32 - 1)
    /\ Faults \subseteq {"write", "restart"}

VARIABLES
    now,            \* time(0)
    value,          \* the value stored under the key, or NoValue
    crc,            \* the checksum in the header of its record
    effective,      \* the effective time in that header
    headEff,        \* _set::m_head.m_effective
    headCrc,        \* _set::m_head.m_crc
    m_temp,         \* the timers on their way to the refresh thread
    m_immediately,  \* the key's timer in m_immediately, or None
    m_long,         \* the key's timer in m_long, or None
    m_check_long,   \* when m_long is looked at again
    pc,             \* per thread: where it is
    job,            \* per client: value and timeout of its SET, and when the key is to go
    due             \* history: when the stored value was asked to go, or Never

record == <<value, crc, effective>>
head == <<headEff, headCrc>>
timers == <<m_temp, m_immediately, m_long, m_check_long>>
vars == <<now, record, head, timers, pc, job, due>>

PERMANENT_BASE == U32 - 1

(* No timer, and no time at which the value goes. *)
None == -1
Never == -1

NoJob == [value |-> NoValue, timeout |-> 0, due |-> Never]

WriteMayFail == "write" \in Faults

Init ==
    /\ now = 1
    /\ value = NoValue /\ crc = NoValue /\ effective = 0
    /\ headEff = 0 /\ headCrc = NoValue
    /\ m_temp = <<>> /\ m_immediately = None /\ m_long = None
    /\ m_check_long = 1
    /\ pc = [t \in Clients \cup {Refresh} |-> "idle"]
    /\ job = [t \in Clients |-> NoJob]
    /\ due = Never

Goto(t, label) == pc' = [pc EXCEPT ![t] = label]

-----------------------------------------------------------------------------
(* SET *)

(* SET without EXPIRE, and EXPIRE 0, ask for the permanent timeout. *)
Timeout(ms) == IF ms = 0 THEN PERMANENT_BASE ELSE ms

(* When the key of such a SET is to go. *)
DueAt(ms) == IF ms = 0 THEN Never ELSE now + ms

(* The effective time of a record, in 32 bits. *)
Effective(timeout) == (now + timeout) % U32

(* SET, up to the first change of the shared header in get_Slice. *)
set(t) ==
    /\ pc[t] = "idle"
    /\ now < MaxTime
    /\ \E v \in Values, ms \in ExpireArgs :
         /\ job' = [job EXCEPT ![t] = [value |-> v, timeout |-> Timeout(ms), due |-> DueAt(ms)]]
         /\ headEff' = Effective(Timeout(ms))
    /\ Goto(t, "crc")
    /\ UNCHANGED <<now, record, headCrc, timers, due>>

(* Faulty variant: the header keeps the checksum of the last value. *)
set_crc_Skipped(t) ==
    /\ pc[t] = "crc"
    /\ Goto(t, "put")
    /\ UNCHANGED <<now, record, head, timers, job, due>>

(* get_Slice: the checksum of the value. *)
set_crc(t) ==
    /\ pc[t] = "crc"
    /\ headCrc' = job[t].value
    /\ Goto(t, "put")
    /\ UNCHANGED <<now, record, headEff, timers, job, due>>

(* get_Slice copies the header in front of the value; LevelDB stores both.  *)
put(t) ==
    /\ pc[t] = "put"
    /\ \/ /\ value' = job[t].value
          /\ crc' = headCrc
          /\ effective' = headEff
          /\ due' = job[t].due
          /\ Goto(t, "timer")
          /\ UNCHANGED job
       \/ /\ WriteMayFail
          /\ Goto(t, "idle")
          /\ job' = [job EXCEPT ![t] = NoJob]
          /\ UNCHANGED <<record, due>>
    /\ UNCHANGED <<now, head, timers>>

(* c_timeout::push: no timer beyond 72 hours. *)
push(t) ==
    LET timeout == job[t].timeout IN
    /\ pc[t] = "timer"
    /\ \/ timeout > MaxTimer /\ UNCHANGED m_temp
       \/ /\ timeout <= MaxTimer
          /\ Len(m_temp) < MaxTemp
          /\ m_temp' = Append(m_temp, now + timeout)
    /\ Goto(t, "idle")
    /\ job' = [job EXCEPT ![t] = NoJob]
    /\ UNCHANGED <<now, record, head, m_immediately, m_long, m_check_long, due>>

-----------------------------------------------------------------------------
(* GET, DEL and RECYCLE *)

(* c_base::get_value, as GET and RECYCLE see the record. *)
get_value == IF value # NoValue /\ crc = value THEN value ELSE NoValue

(* _del::exec up to the dispatch on the type: nothing to do without a record. *)
del(t) ==
    /\ pc[t] = "idle"
    /\ value # NoValue
    /\ Goto(t, "del")
    /\ UNCHANGED <<now, record, head, timers, job, due>>

(* c_recycle::read goes on to DEL. *)
Recyclable == get_value # NoValue /\ effective <= now

recycle(t) ==
    /\ pc[t] = "idle"
    /\ Recyclable
    /\ Goto(t, "recycle")
    /\ UNCHANGED <<now, record, head, timers, job, due>>

(* _del::remove: whatever is there goes. *)
Removed ==
    \/ value' = NoValue /\ crc' = NoValue /\ effective' = 0 /\ due' = Never
    \/ WriteMayFail /\ UNCHANGED <<record, due>>

remove(t) ==
    /\ pc[t] \in {"del", "recycle"}
    /\ Removed
    /\ Goto(t, "idle")
    /\ UNCHANGED <<now, head, timers, job>>

-----------------------------------------------------------------------------
(* The refresh thread: c_timeout::timeout once a second. *)

(* Faulty variant: only what is already due is looked at every second. *)
immediate_DueOnly(e) == e < now

(* immediately_set takes the timer. *)
immediate(e) == e < now + Soon

(* One round of exec_temp: a timer replaces the one its map holds. *)
exec_temp ==
    /\ pc[Refresh] = "idle"
    /\ m_temp # <<>>
    /\ m_temp' = Tail(m_temp)
    /\ LET e == Head(m_temp)
       IN  \/ immediate(e) /\ m_immediately' = e /\ UNCHANGED m_long
           \/ ~immediate(e) /\ m_long' = e /\ UNCHANGED m_immediately
    /\ UNCHANGED <<now, record, head, m_check_long, pc, job, due>>

(* Faulty variant: a long timer is left where it is. *)
check_long_Keeps ==
    /\ UNCHANGED <<m_immediately, m_long>>
    /\ m_check_long' = now + LongPeriod

(* The look at m_long, every LongPeriod seconds. *)
check_long ==
    /\ \/ /\ m_long # None /\ immediate(m_long)
          /\ m_immediately' = m_long
          /\ m_long' = None
       \/ /\ m_long = None \/ ~immediate(m_long)
          /\ UNCHANGED <<m_immediately, m_long>>
    /\ m_check_long' = now + LongPeriod

(* m_temp is empty: m_long if it is time, then the timers. *)
timeout_scan ==
    /\ pc[Refresh] = "idle"
    /\ m_temp = <<>>
    /\ \/ now > m_check_long /\ check_long
       \/ now <= m_check_long /\ UNCHANGED <<m_immediately, m_long, m_check_long>>
    /\ Goto(Refresh, "scan")
    /\ UNCHANGED <<now, record, head, m_temp, job, due>>

(* The timer has run out: DEL, which first reads the record. *)
timeout_fire ==
    /\ pc[Refresh] = "scan"
    /\ \/ /\ m_immediately # None /\ m_immediately < now
          /\ m_immediately' = None
          /\ Goto(Refresh, IF value # NoValue THEN "remove" ELSE "idle")
       \/ /\ m_immediately = None \/ m_immediately >= now
          /\ Goto(Refresh, "idle")
          /\ UNCHANGED m_immediately
    /\ UNCHANGED <<now, record, head, m_temp, m_long, m_check_long, job, due>>

timeout_remove ==
    /\ pc[Refresh] = "remove"
    /\ Removed
    /\ Goto(Refresh, "idle")
    /\ UNCHANGED <<now, head, timers, job>>

-----------------------------------------------------------------------------
TimerRunning ==
    \E e \in {m_temp[i] : i \in 1..Len(m_temp)} \cup {m_immediately, m_long} : now <= e

Tick ==
    /\ now < MaxTime \/ TimerRunning
    /\ now' = now + 1
    /\ UNCHANGED <<record, head, timers, pc, job, due>>

(* The process dies and is started again: the record stays, timers do not. *)
Restart ==
    /\ "restart" \in Faults
    /\ headEff' = 0 /\ headCrc' = NoValue
    /\ m_temp' = <<>> /\ m_immediately' = None /\ m_long' = None
    /\ m_check_long' = now
    /\ pc' = [t \in Clients \cup {Refresh} |-> "idle"]
    /\ job' = [t \in Clients |-> NoJob]
    /\ UNCHANGED <<now, record, due>>

Finish(t) == set_crc(t) \/ put(t) \/ push(t) \/ remove(t)

RefreshStep == exec_temp \/ timeout_scan \/ timeout_fire \/ timeout_remove

Next ==
    \/ \E t \in Clients : set(t) \/ del(t) \/ recycle(t) \/ Finish(t)
    \/ RefreshStep
    \/ Tick
    \/ Restart

(* A command that has begun ends, the refresh thread keeps looping, and time *)
(* passes.  Nobody has to send another command.                              *)
Fairness ==
    /\ \A t \in Clients : WF_vars(Finish(t))
    /\ WF_vars(RefreshStep)
    /\ WF_vars(Tick)

Spec == Init /\ [][Next]_vars /\ Fairness
-----------------------------------------------------------------------------
(* Properties. *)

(* Every variable has its type. *)
TypeOK ==
    /\ now \in Nat
    /\ value \in Values \cup {NoValue} /\ crc \in Values \cup {NoValue}
    /\ effective \in 0..(U32 - 1)
    /\ headEff \in 0..(U32 - 1) /\ headCrc \in Values \cup {NoValue}
    /\ m_temp \in Seq(Nat)
    /\ m_immediately \in Nat \cup {None} /\ m_long \in Nat \cup {None}
    /\ m_check_long \in Nat
    /\ pc \in [Clients \cup {Refresh} ->
                 {"idle", "crc", "put", "timer", "del", "recycle", "scan", "remove"}]
    /\ job \in [Clients -> [value : Values \cup {NoValue}, timeout : 0..(U32 - 1),
                            due : Nat \cup {Never}]]
    /\ due \in Nat \cup {Never}

(* A timer in m_long does not run out before m_long is looked at again: the  *)
(* two constants of c_timeout, 300 and 120 seconds, fit together for timers  *)
(* of any length, however late the refresh thread is.                        *)
LongTimersWait == m_long # None => m_long >= m_check_long

(* "Set the keyword's value; cleared automatically after time_value seconds" *)
(* (SET EXPIRE): the key goes, or is set again, after every SET EXPIRE whose *)
(* record was written, wherever its timer and those of other SETs are then.  *)
ClearedAutomatically ==
    \A d \in {i + ms : i \in 1..MaxTime, ms \in ExpireArgs \ {0}} : (value # NoValue /\ due = d) ~> (value = NoValue \/ due # d)

(* "Get the value of the keyword" (GET): a stored record can be read back,   *)
(* its checksum is that of its value.                                        *)
RecordReadable == value # NoValue => get_value = value

(* "Cleared automatically after time_value seconds": the refresh thread does *)
(* not delete a value before its time.                                       *)
TimerWaits ==
    [][(value # NoValue /\ value' = NoValue /\ pc[Refresh] = "remove" /\ pc'[Refresh] = "idle") =>
          due # Never /\ due <= now]_vars

(* PERMANENT_BASE (zbase.h:8): RECYCLE does not delete a value before its    *)
(* time, and never one that was stored without EXPIRE.                       *)
RecycleSpares ==
    [][\A t \in Clients :
          (value # NoValue /\ value' = NoValue /\ pc[t] = "recycle" /\ pc'[t] = "idle") =>
              due # Never /\ due <= now]_vars
=============================================================================
