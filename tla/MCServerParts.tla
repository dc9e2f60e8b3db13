--------------------------- MODULE MCServerParts ---------------------------
(***************************************************************************)
(* What commands do that the other runs leave out: MLIST, CLOUD, the       *)
(* proxy's requests, and the bytes that commands and answers are read      *)
(* from.  A behaviour is one of one part; the variables of the others stay *)
(* idle.                                                                   *)
(***************************************************************************)
EXTENDS Proxy

CONSTANTS
    Parts,          \* the parts that are explored
    th1, th2        \* threads

VARIABLES
    part,
    loaded, mlist, mexpiry, stored, items, exact, repeated,             \* MList
    now, last, kept, window, marker, acked, loc, between,               \* Cloud
    sent, bytes, mode, unread, param, word, parsed, pc,                 \* CommandStream
    replies, reply_bytes, inbox, os, decoded, closing, rpc              \* ReplyStream

mlist_vars == <<loaded, mlist, mexpiry, stored, items, exact, repeated>>
cloud_vars == <<now, last, kept, window, marker, acked, loc, between>>
proxy_vars == vars
stream_vars == <<sent, bytes, mode, unread, param, word, parsed, pc>>
reply_vars == <<replies, reply_bytes, inbox, os, decoded, closing, rpc>>
all_vars == <<part, mlist_vars, cloud_vars, proxy_vars, stream_vars, reply_vars>>

List == INSTANCE MList
          WITH KeyIds <- {<<7>>, <<8>>, <<7, 8>>}, Data <- {1}, Times <- {1},
               MaxList <- 3, Counts <- 1..4, U32 <- 16

CloudSeq == INSTANCE Cloud
              WITH Threads <- {th1, th2}, ReadIds <- {2, 5}, DefaultDelay <- 1, U32 <- 16,
                   MaxId <- 3, MaxTime <- 1

Stream == INSTANCE CommandStream
            WITH T <- 12, Window <- 4, wire <- bytes, ring <- unread,
                 Scripts <- {<<<<<<"a">>, <<"b">>>>, <<<<"c">>>>>>,
                             <<<<<<>>, <<"r", "n">>>>>>,
                             <<<<<<"r", "n", "*">>>>, <<<<"a", "b">>>>>>}

OneLine(type, text) == [type |-> type, parts |-> <<text>>]
Array(parts) == [type |-> "*", parts |-> parts]

(* AUTH is answered by a line.  A part may look like the protocol. *)
Reply == INSTANCE ReplyStream
           WITH T <- 8, Window <- 5, sent <- replies, wire <- reply_bytes, ring <- inbox,
                heard <- decoded, pc <- rpc,
                Scripts <- {<<OneLine("+", <<"o">>), Array(<<<<"a">>, <<"r", "n", "$">>>>),
                              OneLine("-", <<>>)>>,
                            <<OneLine("$", <<"*", "1", "r", "n">>), Array(<<<<"b">>>>)>>,
                            <<Array(<<<<"a">>, <<>>>>), Array(<<<<"b">>>>)>>}

-----------------------------------------------------------------------------
NoList ==
    /\ loaded = 0 /\ mlist = 0 /\ mexpiry = 0 /\ stored = 0 /\ items = 0
    /\ exact = 0 /\ repeated = 0

NoStream ==
    /\ sent = 0 /\ bytes = 0 /\ mode = 0 /\ unread = 0 /\ param = 0 /\ word = 0
    /\ parsed = 0 /\ pc = 0

NoReply ==
    /\ replies = 0 /\ reply_bytes = 0 /\ inbox = 0 /\ os = 0 /\ decoded = 0
    /\ closing = 0 /\ rpc = 0

(* Proxy, and the part with an action property, idle in their initial states. *)
MCInit ==
    /\ part \in Parts
    /\ IF part = "mlist" THEN List!Init ELSE NoList
    /\ IF part = "stream" THEN Stream!Init ELSE NoStream
    /\ IF part = "reply" THEN Reply!Init ELSE NoReply
    /\ CloudSeq!Init
    /\ Init

MCNext ==
    \/ /\ part = "mlist" /\ List!Next
       /\ UNCHANGED <<part, cloud_vars, proxy_vars, stream_vars, reply_vars>>
    \/ /\ part = "cloud" /\ CloudSeq!Next
       /\ UNCHANGED <<part, mlist_vars, proxy_vars, stream_vars, reply_vars>>
    \/ /\ part = "proxy" /\ Next
       /\ UNCHANGED <<part, mlist_vars, cloud_vars, stream_vars, reply_vars>>
    \/ /\ part = "stream" /\ Stream!Next
       /\ UNCHANGED <<part, mlist_vars, cloud_vars, proxy_vars, reply_vars>>
    \/ /\ part = "reply" /\ Reply!Next
       /\ UNCHANGED <<part, mlist_vars, cloud_vars, proxy_vars, stream_vars>>

MCSpec == MCInit /\ [][MCNext]_all_vars

-----------------------------------------------------------------------------
(* Properties; those of Proxy hold of its idle state. *)

(* MList: what is stored is what is listed. *)
StoreMatchesList == part = "mlist" => List!StoreMatchesList

(* MList: SEEK returns what it promises. *)
SeekAnswers == part = "mlist" => List!SeekAnswers

(* MList: a list is the same after its record was loaded again. *)
ReloadKeepsList == part = "mlist" => List!ReloadKeepsList

(* Cloud: ONLINE hides no unread message. *)
UnreadNotHidden == CloudSeq!UnreadNotHidden

(* CommandStream: the commands are parsed as they were sent. *)
CommandsArriveAsSent == part = "stream" => Stream!CommandsArriveAsSent

(* ReplyStream: the answers are decoded as they were sent. *)
AnswersArriveAsSent == part = "reply" => Reply!AnswersArriveAsSent
=============================================================================
