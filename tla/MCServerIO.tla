----------------------------- MODULE MCServerIO -----------------------------
(***************************************************************************)
(* What has to come to an end: the search of SEQ QUERY, the sending of     *)
(* replies, and the closing of a connection.  A behaviour is one of one    *)
(* part; the variables of the others stay idle.                            *)
(***************************************************************************)
EXTENDS SeqQuery

CONSTANTS
    Parts,          \* the parts that are explored
    Subscriptions,  \* the commands that subscribe to a broadcast
    th1, th2,       \* threads
    con1, con2, none,   \* connections
    fd1, fd2        \* descriptors

VARIABLES
    part,
    replied, out, other, signals, leave, buffer, armed, received,
    reordered, transmit, piece,                                         \* SendPath
    accepted, owner, fdOf, life, refs, asyn, socket, qclose, fds,
    notified, topic, subscribed, step, sending                          \* Connection

query_vars == vars
send_vars == <<replied, out, other, signals, leave, buffer, armed, received, reordered,
               transmit, piece>>
con_vars == <<accepted, owner, fdOf, life, refs, asyn, socket, qclose, fds, notified,
              topic, subscribed, step, sending>>
all_vars == <<part, query_vars, send_vars, con_vars>>

Out == INSTANCE SendPath
         WITH T <- 8, Window <- 4, Replies <- <<6, 7, 2, 7>>, MaxSend <- 4, MaxBuffer <- 20,
              ring <- out, asyn <- leave, pc <- transmit

Con == INSTANCE Connection
         WITH Threads <- {th1, th2}, Conns <- {con1, con2}, Fds <- {fd1, fd2}, Commands <- Subscriptions,
              NoCon <- none

-----------------------------------------------------------------------------
NoQuery ==
    /\ begin_index = 1 /\ end_index = 0 /\ time = [i \in {} |-> 0] /\ datetime = 1
    /\ ibegin = 0 /\ iend = 0 /\ diff = 0 /\ mfind = [i \in {} |-> 0] /\ reply = 0
    /\ pc = "done"

(* Where a part idles, no fair action of it is enabled. *)
MCInit ==
    /\ part \in Parts
    /\ IF part = "query" THEN Init ELSE NoQuery
    /\ Out!Init
    /\ Con!Init

MCNext ==
    \/ /\ part = "query" /\ Next
       /\ UNCHANGED <<part, send_vars, con_vars>>
    \/ /\ part = "send" /\ Out!Next
       /\ UNCHANGED <<part, query_vars, con_vars>>
    \/ /\ part = "connection" /\ Con!Next
       /\ UNCHANGED <<part, query_vars, send_vars>>

MCSpec ==
    /\ MCInit /\ [][MCNext]_all_vars
    /\ WF_vars(halve \/ probe) /\ Out!Fairness /\ Con!Fairness

-----------------------------------------------------------------------------
(* Properties; those of SeqQuery hold of its idle state. *)

(* SendPath: the client gets the bytes in the order of the replies. *)
BytesInOrder == part = "send" => Out!BytesInOrder

(* SendPath: as BytesInOrder, as long as no piece over three blocks was refused. *)
RepliesInOrder == part = "send" => Out!RepliesInOrder

(* SendPath: what was appended is sent, or the connection is closed. *)
RepliesLeave == Out!RepliesLeave

(* Connection: a broadcast never reaches a deleted connection. *)
SubscribersLive == part = "connection" => Con!SubscribersLive

(* Connection: a close that was asked for finds its own connection, once. *)
CloseFindsItsConnection == part = "connection" => Con!CloseFindsItsConnection

(* Connection: once no more broadcasts come, a closing connection is deleted. *)
ClosingEnds == Con!ClosingEnds
=============================================================================
