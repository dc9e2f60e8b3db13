------------------------------- MODULE SeqLog -------------------------------
(***************************************************************************)
(* What a SEQ key promises its clients: a log of messages numbered 1, 2,   *)
(* 3, ... in the order they were pushed, from which a message disappears   *)
(* only once it has been stored for the sequence's delay, and a clean-up   *)
(* takes every such message.  There are no objects, caches, threads,       *)
(* failures or restarts at this level; SeqStore (c_seq.cpp, c_seq.h) is    *)
(* shown to implement it.                                                  *)
(***************************************************************************)
EXTENDS Integers

CONSTANTS
    Data,           \* the payloads a client may push
    PushDelays,     \* the delays, in seconds, a PUSH may set (0: none given)
    SetDelays,      \* the delays, in seconds, a DELAY may set
    DefaultDelay    \* the delay in force while none has been set

VARIABLES
    now,            \* wall-clock time
    last,           \* the number of the newest message ever pushed
    kept,           \* the messages still stored: number -> [time, data]
    window          \* the delay set by the clients, 0 for the default

vars == <<now, last, kept, window>>

(* The delay in force. *)
InForce == IF window = 0 THEN DefaultDelay ELSE window

(* A message that has been stored for the whole delay. *)
Expired(m) == m.time + InForce <= now

Init ==
    /\ now \in Nat
    /\ last = 0
    /\ kept = [i \in {} |-> i]
    /\ window = 0

(* PUSH numbers the message and may set the delay. *)
Append(v, d) ==
    /\ last' = last + 1
    /\ kept' = [i \in DOMAIN kept \cup {last + 1} |->
                    IF i = last + 1 THEN [time |-> now, data |-> v] ELSE kept[i]]
    /\ window' = IF d > 0 THEN d ELSE window
    /\ UNCHANGED now

(* A clean-up takes the expired messages, all of them and nothing else. *)
Clean ==
    /\ kept' = [i \in {j \in DOMAIN kept : ~Expired(kept[j])} |-> kept[i]]
    /\ UNCHANGED <<now, last, window>>

SetDelay(d) ==
    /\ window' = d
    /\ UNCHANGED <<now, last, kept>>

Tick ==
    /\ now' = now + 1
    /\ UNCHANGED <<last, kept, window>>

Next ==
    \/ \E v \in Data, d \in PushDelays : Append(v, d)
    \/ Clean
    \/ \E d \in SetDelays : SetDelay(d)
    \/ Tick

Spec == Init /\ [][Next]_vars
=============================================================================
