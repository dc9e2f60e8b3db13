----------------------------- MODULE Connection -----------------------------
(***************************************************************************)
(* The life of a server's client connections: accepted by the listening    *)
(* thread, taken by one of the event threads, closed there for any reason, *)
(* subscribed to a broadcast that any thread may send, and deleted.        *)
(* A connection is the CRawTcpConnection with the c_zredis_connect behind  *)
(* it; descriptors and addresses are reused.  Everything that happens to a *)
(* connection happens on its own thread, except that a broadcasting thread *)
(* appends to its ring and signals it.                                     *)
(***************************************************************************)
EXTENDS Integers, Sequences, SequencesExt

CONSTANTS
    Threads,        \* the event threads, each with its c_basis
    Conns,          \* addresses a connection can have
    Fds,            \* descriptors
    Commands,       \* the commands that subscribe: "MONITOR", and "DELAY" in the proxy
    NoCon           \* no connection

VARIABLES
    accepted,       \* libevent::m_qfd
    owner,          \* per connection: its thread
    fdOf,           \* per connection: m_fd
    life,           \* per connection: "free", "open", "closing" (m_onclose) or "released"
    refs,           \* per connection: CRef::m_ref
    asyn,           \* the connections whose m_asyn_disconnect is set
    socket,         \* per thread: m_mSocket, fd -> connection
    qclose,         \* per thread: m_qclose
    fds,            \* per thread: m_fds, the descriptors signalled (one that is signalled
                    \* twice counts once: its second on_signal has nothing to do)
    notified,       \* the threads with a byte in their pipe
    topic,          \* c_broadcast::m_mc
    subscribed,     \* the connections whose m_subscribe names the topic
    step,           \* per thread: where it is in on_process
    sending         \* per thread: the subscribers its broadcast has not reached

vars == <<accepted, owner, fdOf, life, refs, asyn, socket, qclose, fds, notified,
          topic, subscribed, step, sending>>
socks == <<owner, fdOf, life, refs>>

Init ==
    /\ accepted = <<>>
    /\ owner = [c \in Conns |-> CHOOSE t \in Threads : TRUE]
    /\ fdOf = [c \in Conns |-> CHOOSE f \in Fds : TRUE]
    /\ life = [c \in Conns |-> "free"]
    /\ refs = [c \in Conns |-> 0]
    /\ asyn = {}
    /\ socket = [t \in Threads |-> [f \in {} |-> f]]
    /\ qclose = [t \in Threads |-> <<>>]
    /\ fds = [t \in Threads |-> {}]
    /\ notified = {}
    /\ topic = {}
    /\ subscribed = {}
    /\ step = [t \in Threads |-> "idle"]
    /\ sending = [t \in Threads |-> {}]

(* The thread is in its event loop, or between two handlers of it. *)
Free(t) == step[t] = "idle" /\ sending[t] = {}

Mine(t) == {c \in Conns : owner[c] = t /\ life[c] \in {"open", "closing"}}

FdInUse(f) ==
    \/ \E i \in 1..Len(accepted) : accepted[i] = f
    \/ \E c \in Conns : life[c] \in {"open", "closing"} /\ fdOf[c] = f

Goto(t, s) == step' = [step EXCEPT ![t] = s]

Without(f, k) == [x \in DOMAIN f \ {k} |-> f[x]]

-----------------------------------------------------------------------------
(* The events of an open connection. *)

(* The listening thread: libevent::p_fd queues a connection for any thread. *)
(* Bound: one of the addresses is left for it.                              *)
Accept(f) ==
    /\ ~FdInUse(f)
    /\ Len(accepted) < Cardinality({c \in Conns : life[c] = "free"})
    /\ accepted' = Append(accepted, f)
    /\ notified' = Threads
    /\ UNCHANGED <<socks, asyn, socket, qclose, fds, topic, subscribed, step, sending>>

(* Faulty variant: the check that the socket is being closed is missing. *)
close_socket_Again(c) ==
    /\ refs' = [refs EXCEPT ![c] = @ + 1]
    /\ life' = [life EXCEPT ![c] = "closing"]
    /\ qclose' = [qclose EXCEPT ![owner[c]] = Append(@, fdOf[c])]
    /\ notified' = notified \cup {owner[c]}

(* Faulty variant: the thread is not told. *)
close_socket_Silent(c) ==
    IF life[c] = "closing"
    THEN UNCHANGED <<refs, life, qclose, notified>>
    ELSE /\ refs' = [refs EXCEPT ![c] = @ + 1]
         /\ life' = [life EXCEPT ![c] = "closing"]
         /\ qclose' = [qclose EXCEPT ![owner[c]] = Append(@, fdOf[c])]
         /\ UNCHANGED notified

(* libevent::close_socket, on the connection's own thread. *)
close_socket(c) ==
    IF life[c] = "closing"
    THEN UNCHANGED <<refs, life, qclose, notified>>
    ELSE /\ refs' = [refs EXCEPT ![c] = @ + 1]
         /\ life' = [life EXCEPT ![c] = "closing"]
         /\ qclose' = [qclose EXCEPT ![owner[c]] = Append(@, fdOf[c])]
         /\ notified' = notified \cup {owner[c]}

(* on_recv and do_send see an error or the end, or on_timer a timeout; a    *)
(* connection that is already closing can still be read from.               *)
Broken(t, c) ==
    /\ Free(t)
    /\ c \in Mine(t)
    /\ close_socket(c)
    /\ UNCHANGED <<accepted, owner, fdOf, asyn, socket, fds, topic, subscribed, step, sending>>

(* libevent::signal *)
signal(c) ==
    /\ fds' = [fds EXCEPT ![owner[c]] = @ \cup {fdOf[c]}]
    /\ notified' = notified \cup {owner[c]}

(* EXIT, or more than g_max_send_buffer to send: ansy_disconnect. *)
ansy_disconnect(t, c) ==
    /\ Free(t)
    /\ c \in Mine(t)
    /\ asyn' = asyn \cup {c}
    /\ signal(c)
    /\ UNCHANGED <<accepted, socks, socket, qclose, topic, subscribed, step, sending>>

(* A subscription.  MONITOR goes through c_zredis_connect::subscribe, which *)
(* remembers it; the proxy's DELAY joins the broadcast directly.            *)
Subscribe(t, c, command) ==
    /\ Free(t)
    /\ c \in Mine(t)
    /\ c \notin topic
    /\ \A u \in Threads : sending[u] = {}
    /\ topic' = topic \cup {c}
    /\ subscribed' = IF command = "MONITOR" THEN subscribed \cup {c} ELSE subscribed
    /\ UNCHANGED <<accepted, socks, asyn, socket, qclose, fds, notified, step, sending>>

(* c_broadcast::broadcast takes the read lock ... *)
Broadcast(t) ==
    /\ Free(t)
    /\ topic # {}
    /\ sending' = [sending EXCEPT ![t] = topic]
    /\ UNCHANGED <<accepted, socks, asyn, socket, qclose, fds, notified, topic, subscribed, step>>

(* ... and calls asyn_send of every subscriber: one of another thread is    *)
(* signalled.                                                               *)
asyn_send(t, c) ==
    /\ c \in sending[t]
    /\ sending' = [sending EXCEPT ![t] = @ \ {c}]
    /\ IF owner[c] = t THEN UNCHANGED <<fds, notified>> ELSE signal(c)
    /\ UNCHANGED <<accepted, socks, asyn, socket, qclose, topic, subscribed, step>>

-----------------------------------------------------------------------------
(* c_basis::on_process: what a thread does when its pipe has a byte. *)

OnProcess(t) ==
    /\ Free(t)
    /\ t \in notified
    /\ notified' = notified \ {t}
    /\ Goto(t, "close")
    /\ UNCHANGED <<accepted, socks, asyn, socket, qclose, fds, topic, subscribed, sending>>

(* A queued close.  The connection the map has for the descriptor loses the *)
(* descriptor, its signals and two references, the last of which calls      *)
(* on_release (on_close); a descriptor that is not in the map is dropped.   *)
OnClose(t) ==
    LET f == Head(qclose[t])
        c == socket[t][f]
    IN  /\ step[t] = "close"
        /\ qclose[t] # <<>>
        /\ qclose' = [qclose EXCEPT ![t] = Tail(@)]
        /\ IF f \in DOMAIN socket[t]
           THEN /\ socket' = [socket EXCEPT ![t] = Without(@, f)]
                /\ fds' = [fds EXCEPT ![t] = @ \ {f}]
                /\ refs' = [refs EXCEPT ![c] = @ - 2]
                /\ life' = [life EXCEPT ![c] = "released"]
                /\ step' = [step EXCEPT ![t] = IF refs[c] = 2 THEN "release" ELSE @]
           ELSE UNCHANGED <<socket, fds, refs, life, step>>
        /\ UNCHANGED <<accepted, owner, fdOf, asyn, notified, topic, subscribed, sending>>

(* Faulty variant: the subscriptions are not cancelled. *)
OnRelease_Subscribed(t) ==
    /\ step[t] = "release"
    /\ \E c \in Conns :
         /\ owner[c] = t /\ life[c] = "released"
         /\ life' = [life EXCEPT ![c] = "free"]
         /\ subscribed' = subscribed \ {c}
         /\ asyn' = asyn \ {c}
    /\ Goto(t, "close")
    /\ UNCHANGED <<accepted, owner, fdOf, refs, socket, qclose, fds, notified, topic, sending>>

(* c_zredis_connect::on_release: Leave waits until no broadcast is running,  *)
(* then both objects are deleted.                                            *)
OnRelease(t) ==
    /\ step[t] = "release"
    /\ \E c \in Conns :
         /\ owner[c] = t /\ life[c] = "released"
         /\ c \in subscribed => \A u \in Threads : sending[u] = {}
         /\ topic' = IF c \in subscribed THEN topic \ {c} ELSE topic
         /\ subscribed' = subscribed \ {c}
         /\ asyn' = asyn \ {c}
         /\ life' = [life EXCEPT ![c] = "free"]
    /\ Goto(t, "close")
    /\ UNCHANGED <<accepted, owner, fdOf, refs, socket, qclose, fds, notified, sending>>

Closed(t) ==
    /\ step[t] = "close"
    /\ qclose[t] = <<>>
    /\ Goto(t, "accept")
    /\ UNCHANGED <<accepted, socks, asyn, socket, qclose, fds, notified, topic, subscribed, sending>>

(* A queued connection, of which a thread takes as many as there are. *)
OnAccept(t) ==
    /\ step[t] = "accept"
    /\ accepted # <<>>
    /\ \E c \in Conns :
         LET f == Head(accepted)
         IN  /\ life[c] = "free"
             /\ owner' = [owner EXCEPT ![c] = t]
             /\ fdOf' = [fdOf EXCEPT ![c] = f]
             /\ life' = [life EXCEPT ![c] = "open"]
             /\ refs' = [refs EXCEPT ![c] = 1]
             /\ socket' = [socket EXCEPT ![t] =
                    [g \in DOMAIN @ \cup {f} |-> IF g \in DOMAIN @ THEN @[g] ELSE c]]
    /\ accepted' = Tail(accepted)
    /\ UNCHANGED <<asyn, qclose, fds, notified, topic, subscribed, step, sending>>

Accepted(t) ==
    /\ step[t] = "accept"
    /\ accepted = <<>>
    /\ Goto(t, "signal")
    /\ UNCHANGED <<accepted, socks, asyn, socket, qclose, fds, notified, topic, subscribed, sending>>

(* A signal: on_signal disconnects when that was asked for; otherwise it    *)
(* transmits, which changes nothing here.                                   *)
OnSignal(t) ==
    \E f \in fds[t] :
        LET c == IF f \in DOMAIN socket[t] THEN socket[t][f] ELSE NoCon IN
        /\ step[t] = "signal"
        /\ fds' = [fds EXCEPT ![t] = @ \ {f}]
        /\ IF c \in asyn
           THEN close_socket(c) /\ asyn' = asyn \ {c}
           ELSE UNCHANGED <<refs, life, qclose, notified, asyn>>
        /\ UNCHANGED <<accepted, owner, fdOf, socket, topic, subscribed, step, sending>>

Processed(t) ==
    /\ step[t] = "signal"
    /\ fds[t] = {}
    /\ Goto(t, "idle")
    /\ UNCHANGED <<accepted, socks, asyn, socket, qclose, fds, notified, topic, subscribed, sending>>

-----------------------------------------------------------------------------
Process(t) ==
    \/ OnProcess(t) \/ OnClose(t) \/ OnRelease(t) \/ Closed(t)
    \/ OnAccept(t) \/ Accepted(t) \/ OnSignal(t) \/ Processed(t)

Next ==
    \/ \E f \in Fds : Accept(f)
    \/ \E t \in Threads, c \in Conns : Broken(t, c)
    \/ \E t \in Threads, c \in Conns : ansy_disconnect(t, c)
    \/ \E t \in Threads, c \in Conns, k \in Commands : Subscribe(t, c, k)
    \/ \E t \in Threads : Broadcast(t)
    \/ \E t \in Threads, c \in Conns : asyn_send(t, c)
    \/ \E t \in Threads : Process(t)

(* A thread whose pipe has a byte gets to it, and a broadcast ends. *)
Fairness ==
    \A t \in Threads :
        /\ WF_vars(Process(t))
        /\ WF_vars(\E c \in Conns : asyn_send(t, c))

Spec == Init /\ [][Next]_vars /\ Fairness

-----------------------------------------------------------------------------
(* Properties. *)

(* A broadcast never reaches a deleted connection: "if there are             *)
(* subscriptions, cancel them" (c_zredis_connect::on_release).               *)
SubscribersLive ==
    \A c \in Conns : life[c] = "free" => c \notin topic /\ \A t \in Threads : c \notin sending[t]

(* A close that was asked for finds its own connection, once: the descriptor *)
(* in the queue is not that of a newer connection, and the object is         *)
(* released exactly when its last reference goes (close_socket, on_close).   *)
CloseFindsItsConnection ==
    \A t \in Threads :
        /\ \A c \in Conns : owner[c] = t /\ life[c] = "closing" =>
             Cardinality({i \in 1..Len(qclose[t]) : qclose[t][i] = fdOf[c]}) = 1
        /\ \A i \in 1..Len(qclose[t]) :
             /\ qclose[t][i] \in DOMAIN socket[t]
             /\ LET c == socket[t][qclose[t][i]]
                IN  life[c] = "closing" /\ fdOf[c] = qclose[t][i] /\ refs[c] = 2

(* Once no more broadcasts come, a connection that is being closed is        *)
(* deleted (the pipes' notifications, the lock of c_broadcast).  While they   *)
(* keep coming, the loop over the signals in on_process may go on for ever.   *)
ClosingEnds ==
    <>[](\A t \in Threads : sending[t] = {})
        => \A c \in Conns : life[c] = "closing" ~> life[c] = "free"
=============================================================================
