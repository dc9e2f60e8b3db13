------------------------------- MODULE Cloud -------------------------------
(***************************************************************************)
(* The CLOUD commands for one friend's messages: a SEQ key that c_cloud    *)
(* uses through its interface only (SeqLog, which SeqStore implements),    *)
(* and a marker record under key@READ@keyword that remembers how far the   *)
(* user has read.  c_cloud takes no lock of its own: the calls a command   *)
(* makes to the sequence and to LevelDB are its steps.                     *)
(* LIMIT, QUERY, SIZE and INDEX change nothing but what a clean-up of the  *)
(* sequence changes, and clean-ups happen at any time here.                *)
(***************************************************************************)
EXTENDS Integers, FiniteSets

CONSTANTS
    Threads,        \* network threads
    ReadIds,        \* the numbers clients pass to READ
    DefaultDelay,   \* how long a message is kept
    U32,            \* 2^32 in the code: the modulus of uint32
    MaxId,          \* bound: messages pushed
    MaxTime         \* bound: clock

VARIABLES
    now, last, kept, window,    \* the sequence, as SeqLog has it
    marker,         \* the number stored under key@READ@keyword, 0 if none
    acked,          \* history: the highest number READ has stored and ONLINE kept
    loc,            \* per thread: [pc, id, begin, end, unread]
    between         \* history, per thread: PUSHes since ONLINE read the index

log == <<now, last, kept, window>>
vars == <<log, marker, acked, loc, between>>

Log == INSTANCE SeqLog WITH Data <- {"v"}, PushDelays <- {0}, SetDelays <- {}

Idle == [pc |-> "idle", id |-> 0, begin |-> 0, end |-> 0, unread |-> 0]

Init ==
    /\ now = 0
    /\ last = 0
    /\ kept = [i \in {} |-> i]
    /\ window = 0
    /\ marker = 0
    /\ acked = 0
    /\ loc = [t \in Threads |-> Idle]
    /\ between = [t \in Threads |-> 0]

Set(t, r) == loc' = [loc EXCEPT ![t] = r]

(* get_read: the marker, or 0 when the record cannot be read. *)
get_read(old) == old \in {marker, 0}

-----------------------------------------------------------------------------
(* PUSH: seq->push.  The index it replies with is read afterwards, when     *)
(* other PUSHes may have come; nothing here depends on the reply.           *)
push ==
    /\ last < MaxId
    /\ Log!Append("v", 0)
    /\ between' = [t \in Threads |->
                    between[t] + (IF loc[t].pc \in {"index", "size"} THEN 1 ELSE 0)]
    /\ UNCHANGED <<marker, acked, loc>>

(* READ: the marker is read, and a number that is not above it ends the     *)
(* command.                                                                 *)
ReadOld(t, id) ==
    /\ loc[t].pc \in {"idle", "answered"}
    /\ \E old \in {marker, 0} :
         /\ get_read(old)
         /\ Set(t, IF id <= old THEN Idle ELSE [Idle EXCEPT !.pc = "read", !.id = id])
    /\ UNCHANGED <<log, marker, acked, between>>

(* READ: the marker is written, whatever it is by now. *)
ReadPut(t) ==
    /\ loc[t].pc = "read"
    /\ \/ /\ marker' = loc[t].id
          /\ acked' = IF loc[t].id > acked THEN loc[t].id ELSE acked
       \/ UNCHANGED <<marker, acked>>
    /\ Set(t, Idle)
    /\ UNCHANGED <<log, between>>

(* ONLINE: seq->index_. *)
OnlineIndex(t) ==
    /\ loc[t].pc \in {"idle", "answered"}
    /\ Set(t, [Idle EXCEPT !.pc = "index", !.end = last])
    /\ between' = [between EXCEPT ![t] = 0]
    /\ UNCHANGED <<log, marker, acked>>

(* Faulty variant: what ONLINE reports counts as read. *)
OnlineMarker_MarksRead(t) ==
    LET end == loc[t].end IN
    /\ loc[t].pc = "index"
    /\ \E begin \in {marker, 0} :
         /\ get_read(begin)
         /\ marker' = end
         /\ UNCHANGED acked
         /\ Set(t, IF begin = 0
                   THEN [Idle EXCEPT !.pc = "size", !.end = end]
                   ELSE [Idle EXCEPT !.pc = "answered", !.begin = begin, !.end = end,
                                     !.unread = (end - begin) % U32])
    /\ UNCHANGED <<log, between>>

(* ONLINE: the marker; one beyond the end is pulled back to it, in the      *)
(* store too if the write succeeds.                                         *)
OnlineMarker(t) ==
    LET end == loc[t].end IN
    /\ loc[t].pc = "index"
    /\ \E old \in {marker, 0} :
         LET begin == IF old > end THEN end ELSE old
         IN  /\ get_read(old)
             /\ \/ /\ old > end
                   /\ marker' = end
                   /\ acked' = end
                \/ UNCHANGED <<marker, acked>>
             /\ Set(t, IF begin = 0
                       THEN [Idle EXCEPT !.pc = "size", !.end = end]
                       ELSE [Idle EXCEPT !.pc = "answered", !.begin = begin, !.end = end,
                                         !.unread = end - begin])
    /\ UNCHANGED <<log, between>>

(* ONLINE without a marker: seq->size, and the range is counted back from   *)
(* the index that was read before, in uint32.                               *)
OnlineSize(t) ==
    LET end   == loc[t].end
        usize == Cardinality(DOMAIN kept)
        begin == (end - usize + 1) % U32
    IN  /\ loc[t].pc = "size"
        /\ Set(t, [Idle EXCEPT !.pc = "answered", !.end = end, !.unread = usize,
                               !.begin = IF begin > end THEN end ELSE begin])
        /\ UNCHANGED <<log, marker, acked, between>>

(* The sequence drops what it has kept long enough; time passes. *)
Clean ==
    /\ Log!Clean
    /\ UNCHANGED <<marker, acked, loc, between>>

Tick ==
    /\ now < MaxTime
    /\ Log!Tick
    /\ UNCHANGED <<marker, acked, loc, between>>

Next ==
    \/ push
    \/ \E t \in Threads, id \in ReadIds : ReadOld(t, id)
    \/ \E t \in Threads : ReadPut(t)
    \/ \E t \in Threads : OnlineIndex(t)
    \/ \E t \in Threads : OnlineMarker(t)
    \/ \E t \in Threads : OnlineSize(t)
    \/ Clean
    \/ Tick

Spec == Init /\ [][Next]_vars

-----------------------------------------------------------------------------
(* Properties. *)

(* Thread t completes an ONLINE. *)
Answers(t) == loc[t].pc \in {"index", "size"} /\ loc'[t].pc = "answered"

(* The messages that are stored, not read and not newer than the end. *)
Unread(end) == {i \in DOMAIN kept : i > acked' /\ i <= end}

Covers(r) ==
    /\ \A i \in Unread(r.end) : i \in r.begin..r.end
    /\ r.unread >= Cardinality(Unread(r.end))

(* ONLINE never hides an unread message: every message that is stored, that  *)
(* no READ has covered and that is not newer than the end it reports lies in *)
(* the range it reports and is counted, as long as at most one PUSH comes    *)
(* between its two looks at the sequence (c_cloud::online, c_cloud::read).   *)
UnreadNotHidden ==
    [][\A t \in Threads : Answers(t) /\ between[t] <= 1 => Covers(loc'[t])]_vars
=============================================================================
