------------------------------- MODULE Proxy -------------------------------
(***************************************************************************)
(* One thread of the proxy zcloud: the clients' connections, the           *)
(* _container that remembers who asked for what under a serial number, and *)
(* the thread's c_zclient, which sends the commands to a storage server    *)
(* over one connection and opens it again when it is lost.  Connection     *)
(* objects are deleted and their addresses reused while answers are on     *)
(* their way.  A command is sent in pieces, because the blocks of the      *)
(* client's ring do not end where commands do; two pieces stand for it.    *)
(***************************************************************************)
EXTENDS Integers, Sequences

CONSTANTS
    Slots,          \* addresses of client connections
    MaxClients,     \* bound: clients that ever connect
    MaxRequests,    \* bound: commands (fewer than 2^32, so m_index does not wrap)
    MaxRing         \* g_max_send_buffer, in pieces

VARIABLES
    clients,        \* how many clients have connected
    who,            \* per address: the client behind it, 0 when it is free
    leaving,        \* the addresses whose connection is closed and not yet released
    asked,          \* history: the client behind each serial number; m_index is its length
    serials,        \* _container::m_serial: serial -> address
    zcon,           \* c_zclient::m_zcon: "none", "connecting" or "up"
    ring,           \* c_zclient::m_ring, as pieces
    wire,           \* pieces the storage server has not read
    answers,        \* serials of the answers the proxy has not read
    heard,          \* history: the answers delivered, [client, serial]
    cut             \* history: a ring was cleared that began inside a command

NoSerial == -1

upstream == <<zcon, ring, wire, answers, cut>>
vars == <<clients, who, leaving, asked, serials, heard, upstream>>

Init ==
    /\ clients = 0
    /\ who = [s \in Slots |-> 0]
    /\ leaving = {}
    /\ asked = <<>>
    /\ serials = [n \in {} |-> n]
    /\ zcon = "none"
    /\ ring = <<>>
    /\ wire = <<>>
    /\ answers = <<>>
    /\ heard = {}
    /\ cut = FALSE

-----------------------------------------------------------------------------
(* c_zclient *)

(* doWrite: the connection takes whole blocks until it refuses one; one that *)
(* is not connected refuses the first.                                       *)
doWrite(r, state) ==
    \E k \in 0..(IF state = "up" THEN Len(r) ELSE 0) :
        /\ wire' = wire \o SubSeq(r, 1, k)
        /\ ring' = SubSeq(r, k + 1, Len(r))

(* send: a ring that has grown too large is cleared first; without a        *)
(* connection one is opened, which may fail at once, and onRelease then     *)
(* clears the ring.                                                         *)
send(command) ==
    LET over == Len(ring) > MaxRing
        r    == (IF over THEN <<>> ELSE ring) \o command
    IN  /\ cut' = (cut \/ (over /\ ring[1].part = 2))
        /\ \/ /\ zcon # "none"
              /\ doWrite(r, zcon)
              /\ UNCHANGED zcon
           \/ /\ zcon = "none"
              /\ zcon' = "connecting"
              /\ ring' = r
              /\ UNCHANGED wire
           \/ /\ zcon = "none"
              /\ ring' = <<>>
              /\ UNCHANGED <<zcon, wire>>
        /\ UNCHANGED answers

(* onConnect and onWrite: the connection is made, or takes bytes again, and  *)
(* the queued commands are sent.  AUTH goes before them; its answer is a     *)
(* status and reaches no client.                                             *)
onWrite ==
    /\ zcon = "connecting" \/ (zcon = "up" /\ ring # <<>>)
    /\ zcon' = "up"
    /\ doWrite(ring, "up")
    /\ UNCHANGED <<clients, who, leaving, asked, serials, heard, answers, cut>>

(* Faulty variant: what was not sent waits for the next connection. *)
onRelease_KeepsRing ==
    /\ zcon # "none"
    /\ zcon' = "none"
    /\ wire' = <<>>
    /\ answers' = <<>>
    /\ UNCHANGED <<clients, who, leaving, asked, serials, heard, ring, cut>>

(* The connection is lost or never came about: what was on its way is lost,  *)
(* and onRelease forgets what was not sent.                                  *)
onRelease ==
    /\ zcon # "none"
    /\ zcon' = "none"
    /\ ring' = <<>>
    /\ wire' = <<>>
    /\ answers' = <<>>
    /\ UNCHANGED <<clients, who, leaving, asked, serials, heard, cut>>

-----------------------------------------------------------------------------
(* The clients. *)

on_accept(s) ==
    /\ who[s] = 0
    /\ clients < MaxClients
    /\ clients' = clients + 1
    /\ who' = [who EXCEPT ![s] = clients + 1]
    /\ UNCHANGED <<leaving, asked, serials, heard, upstream>>

(* TTL and GET: the request is recorded under the next serial number, which  *)
(* goes to the storage server in place of the client's.                      *)
execute(s) ==
    LET n == Len(asked)
    IN  /\ who[s] # 0 /\ s \notin leaving
        /\ n < MaxRequests
        /\ asked' = Append(asked, who[s])
        /\ serials' = [m \in DOMAIN serials \cup {n} |->
                            IF m \in DOMAIN serials THEN serials[m] ELSE s]
        /\ send(<<[serial |-> n, part |-> 1], [serial |-> n, part |-> 2]>>)
        /\ UNCHANGED <<clients, who, leaving, heard>>

on_disconnect(s) ==
    /\ who[s] # 0 /\ s \notin leaving
    /\ leaving' = leaving \cup {s}
    /\ UNCHANGED <<clients, who, asked, serials, heard, upstream>>

(* Faulty variant: the requests of the connection stay. *)
on_release_Bound(s) ==
    /\ s \in leaving
    /\ leaving' = leaving \ {s}
    /\ who' = [who EXCEPT ![s] = 0]
    /\ UNCHANGED <<clients, asked, serials, heard, upstream>>

(* c_zredis_connect::on_release: unbind forgets the connection's requests,   *)
(* and the connection is deleted.                                            *)
on_release(s) ==
    /\ s \in leaving
    /\ leaving' = leaving \ {s}
    /\ who' = [who EXCEPT ![s] = 0]
    /\ serials' = [n \in {m \in DOMAIN serials : serials[m] # s} |-> serials[n]]
    /\ UNCHANGED <<clients, asked, heard, upstream>>

(* _container::on_timer: the older requests are forgotten. *)
on_timer(n) ==
    /\ serials' = [m \in {k \in DOMAIN serials : k >= n} |-> serials[m]]
    /\ serials' # serials
    /\ UNCHANGED <<clients, who, leaving, asked, heard, upstream>>

-----------------------------------------------------------------------------
(* The storage server answers the commands it reads, one after the other;  *)
(* an error names no serial number.                                        *)
Answer ==
    /\ Len(wire) >= 2
    /\ \E n \in {wire[1].serial, NoSerial} : answers' = Append(answers, n)
    /\ wire' = SubSeq(wire, 3, Len(wire))
    /\ UNCHANGED <<clients, who, leaving, asked, serials, heard, zcon, ring, cut>>

(* _storage_cb::onData: the answer goes to the connection that is recorded   *)
(* for its serial number, if there is one; the record stays.  An error is    *)
(* logged, and the client that asked hears nothing.                          *)
onData ==
    /\ answers # <<>>
    /\ answers' = Tail(answers)
    /\ LET n == Head(answers)
       IN  heard' = IF n \in DOMAIN serials
                    THEN heard \cup {[client |-> who[serials[n]], serial |-> n]}
                    ELSE heard
    /\ UNCHANGED <<clients, who, leaving, asked, serials, zcon, ring, wire, cut>>

Next ==
    \/ onWrite \/ onRelease \/ Answer \/ onData
    \/ \E s \in Slots : on_accept(s)
    \/ \E s \in Slots : execute(s)
    \/ \E s \in Slots : on_disconnect(s)
    \/ \E s \in Slots : on_release(s)
    \/ \E n \in 1..MaxRequests : on_timer(n)

Spec == Init /\ [][Next]_vars

-----------------------------------------------------------------------------
(* Properties. *)

(* An answer reaches the client that asked, or nobody: never a client whose  *)
(* connection took over the address of an earlier one, and never a deleted   *)
(* connection (_container::unbind, _storage_cb::onData).                     *)
ReplyReachesAsker ==
    \A h \in heard : h.client = asked[h.serial + 1]

(* The storage server reads whole commands: a piece is followed by the rest  *)
(* of its command, also after the connection was lost in the middle of one   *)
(* (onRelease), unless send() cleared a ring that began inside a command.    *)
WholeCommands ==
    ~cut => \A i \in 1..Len(wire) :
                IF i % 2 = 1 THEN wire[i].part = 1
                ELSE wire[i] = [serial |-> wire[i - 1].serial, part |-> 2]
=============================================================================
