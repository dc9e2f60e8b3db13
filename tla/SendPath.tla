------------------------------ MODULE SendPath ------------------------------
(***************************************************************************)
(* How a server's replies leave on one connection.  Any thread appends to  *)
(* the ring of the c_zredis_connect; only the connection's own thread runs *)
(* on_transmit, which moves the bytes in pieces to the send buffer of the  *)
(* CRawTcpConnection, from where do_send gives them to the kernel.  The    *)
(* own thread transmits after its own replies, when another thread has     *)
(* signalled it, and when the socket becomes writable.  Bytes are numbered *)
(* in the order in which the replies were appended.                        *)
(***************************************************************************)
EXTENDS RingQueue

CONSTANTS
    Replies,        \* the lengths of the replies, in order
    Window,         \* the bytes on_transmit moves at once (1024)
    MaxSend,        \* OPT_NETWORK_LOCAL_SET_SENDBUFFER: m_max_send
    MaxBuffer       \* g_max_send_buffer

VARIABLES
    replied,        \* how many replies have been appended
    ring,           \* c_zredis_connect::m_ring
    other,          \* another thread is between ring_Append and _signal
    signals,        \* the connection is in its thread's list of signals
    asyn,           \* m_asyn_disconnect
    buffer,         \* CRawTcpConnection::m_send_ring
    armed,          \* ev_write is registered
    received,       \* the bytes the kernel has taken, as the client gets them
    reordered,      \* history: a piece over three blocks was not sent
    pc,             \* the own thread: "idle", "transmit", "loop", "attached" or "closed"
    piece           \* what ring_Attach returned

vars == <<replied, ring, other, signals, asyn, buffer, armed, received, reordered, pc, piece>>

Init ==
    /\ replied = 0
    /\ ring = <<>>
    /\ other = FALSE
    /\ signals = FALSE
    /\ asyn = FALSE
    /\ buffer = <<>>
    /\ armed = FALSE
    /\ received = <<>>
    /\ reordered = FALSE
    /\ pc = "idle"
    /\ piece = <<>>

(* The bytes of the next reply. *)
NextReply ==
    LET from == FoldLeft(+, 0, SubSeq(Replies, 1, replied))
    IN  [i \in 1..Replies[replied + 1] |-> from + i]

(* ring_Append *)
AppendReply ==
    /\ replied < Len(Replies)
    /\ ring' = AppendBytes(ring, NextReply)
    /\ replied' = replied + 1

(* send() on the connection's own thread: on_transmit follows. *)
SendOwn ==
    /\ pc = "idle"
    /\ AppendReply
    /\ pc' = "transmit"
    /\ UNCHANGED <<other, signals, asyn, buffer, armed, received, reordered, piece>>

(* asyn_send() on another thread: a broadcast, or a reply from there. *)
SendOther ==
    /\ ~other /\ pc # "closed"
    /\ AppendReply
    /\ other' = TRUE
    /\ UNCHANGED <<signals, asyn, buffer, armed, received, reordered, pc, piece>>

(* Faulty variant: a reply from another thread waits for the next event. *)
Signal_Skipped ==
    /\ other
    /\ other' = FALSE
    /\ UNCHANGED <<replied, ring, signals, asyn, buffer, armed, received, reordered, pc, piece>>

(* m_con->_signal() *)
Signal ==
    /\ other
    /\ other' = FALSE
    /\ signals' = TRUE
    /\ UNCHANGED <<replied, ring, asyn, buffer, armed, received, reordered, pc, piece>>

-----------------------------------------------------------------------------
(* on_transmit: too much waiting disconnects the client, by a signal. *)
GiveUp ==
    /\ pc = "transmit"
    /\ Count(ring) > MaxBuffer
    /\ asyn' = TRUE
    /\ signals' = TRUE
    /\ pc' = "idle"
    /\ UNCHANGED <<replied, ring, other, buffer, armed, received, reordered, piece>>

Begin ==
    /\ pc = "transmit"
    /\ Count(ring) <= MaxBuffer
    /\ pc' = "loop"
    /\ UNCHANGED <<replied, ring, other, signals, asyn, buffer, armed, received, reordered, piece>>

Transmitted ==
    /\ pc = "loop"
    /\ ring = <<>>
    /\ pc' = "idle"
    /\ UNCHANGED <<replied, ring, other, signals, asyn, buffer, armed, received, reordered, piece>>

(* The next piece, by ring_Attach. *)
Attach ==
    /\ pc = "loop"
    /\ ring # <<>>
    /\ LET n == Min({Count(ring), Window})
       IN  /\ piece' = Attached(ring, n)
           /\ ring' = AfterAttach(ring, n)
    /\ pc' = "attached"
    /\ UNCHANGED <<replied, other, signals, asyn, buffer, armed, received, reordered>>

(* do_send: the event is registered, and the kernel takes what it can. *)
do_send(b) ==
    \E k \in 0..Len(b) :
        /\ received' = received \o SubSeq(b, 1, k)
        /\ buffer' = SubSeq(b, k + 1, Len(b))

(* Faulty variant: the bytes of a refused piece are dropped all the same. *)
Refused_Advances ==
    /\ pc = "attached"
    /\ Len(buffer) > MaxSend
    /\ ring' = Advance(ring, Len(piece))
    /\ reordered' = (reordered \/ Passed(ring, Len(piece)) > 1)
    /\ pc' = "idle"
    /\ piece' = <<>>
    /\ UNCHANGED <<replied, other, signals, asyn, buffer, armed, received>>

(* _send refuses while the send buffer is full: on_transmit stops. *)
Refused ==
    /\ pc = "attached"
    /\ Len(buffer) > MaxSend
    /\ reordered' = (reordered \/ Passed(ring, Len(piece)) > 1)
    /\ pc' = "idle"
    /\ piece' = <<>>
    /\ UNCHANGED <<replied, ring, other, signals, asyn, buffer, armed, received>>

(* _send takes the piece, and on_transmit goes on. *)
Taken ==
    /\ pc = "attached"
    /\ Len(buffer) <= MaxSend
    /\ armed' = TRUE
    /\ do_send(buffer \o piece)
    /\ ring' = Advance(ring, Len(piece))
    /\ pc' = "loop"
    /\ piece' = <<>>
    /\ UNCHANGED <<replied, other, signals, asyn, reordered>>

-----------------------------------------------------------------------------
(* The events of the own thread. *)

(* on_send, when the socket is writable: do_send, then on_write. *)
OnWrite ==
    /\ pc = "idle"
    /\ armed
    /\ armed' = (buffer # <<>>)
    /\ do_send(buffer)
    /\ buffer # <<>> => buffer' # buffer
    /\ pc' = "transmit"
    /\ UNCHANGED <<replied, ring, other, signals, asyn, reordered, piece>>

(* on_signal: a disconnect that was asked for, or on_transmit. *)
OnSignal ==
    /\ pc = "idle"
    /\ signals
    /\ signals' = FALSE
    /\ asyn' = FALSE
    /\ pc' = IF asyn THEN "closed" ELSE "transmit"
    /\ UNCHANGED <<replied, ring, other, buffer, armed, received, reordered, piece>>

(* recv or send reports that the client has gone. *)
Lost ==
    /\ pc = "idle"
    /\ pc' = "closed"
    /\ UNCHANGED <<replied, ring, other, signals, asyn, buffer, armed, received, reordered, piece>>

Next ==
    \/ SendOwn \/ SendOther \/ Signal
    \/ GiveUp \/ Begin \/ Transmitted \/ Attach \/ Refused \/ Taken
    \/ OnWrite \/ OnSignal \/ Lost

(* Threads go on, a signal is delivered, and a client that stays connected  *)
(* reads, so that the socket becomes writable again and again.              *)
Fairness ==
    /\ WF_vars(Signal)
    /\ WF_vars(GiveUp \/ Begin \/ Transmitted \/ Attach \/ Refused \/ Taken)
    /\ WF_vars(OnWrite \/ OnSignal)

Spec == Init /\ [][Next]_vars /\ Fairness

-----------------------------------------------------------------------------
(* Properties. *)

(* The client gets the bytes of the replies in the order in which they were *)
(* appended, none twice and none left out ("the protocol is the redis        *)
(* protocol", the test notes: replies answer commands in order).             *)
BytesInOrder ==
    \A i \in 1..Len(received) : received[i] = i

(* The same, as long as no piece that lay in three blocks was refused        *)
(* (on_transmit, CRingQueue::Attach).                                        *)
RepliesInOrder == ~reordered => BytesInOrder

(* No wake-up is lost: a reply that has been appended is sent, or the        *)
(* connection closes (asyn_send, _signal, event_add in do_send).             *)
RepliesLeave ==
    ring # <<>> \/ buffer # <<>> ~> (ring = <<>> /\ buffer = <<>>) \/ pc = "closed"
=============================================================================
