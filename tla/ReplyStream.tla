----------------------------- MODULE ReplyStream -----------------------------
(***************************************************************************)
(* How the asynchronous client reads answers off its connection:           *)
(* c_zconnect::on_read shows a window of the connection's ring to          *)
(* ZIOStream::input until too little is left.  The decoder keeps what it   *)
(* has of an answer (m_os) from one call to the next; TCP may cut the      *)
(* bytes anywhere.  A line of the protocol is shorter than the window.     *)
(***************************************************************************)
EXTENDS RedisFormat

CONSTANTS
    Scripts,        \* what servers send: sequences of answers
    Window          \* READ_LEN, the bytes the decoder sees in one turn (2048)

VARIABLES
    sent,           \* the answers the server sends
    wire,           \* the bytes of them that have not been delivered
    ring,           \* CRawTcpConnection::m_recv_ring
    os,             \* ZIOStream::m_os: what has been read of an answer
    heard,          \* the answers given to onData
    closing,        \* _disconnect was called
    pc              \* "wait", "read" or "closed"

vars == <<sent, wire, ring, os, heard, closing, pc>>

Lines == {"+", "-", ":"}

(* c_ostream_success, c_ostream_error, c_ostream_data and c_ostream_array. *)
Serialized(a) ==
    CASE a.type \in Lines -> <<a.type>> \o a.parts[1] \o CRLF
      [] a.type = "$" -> Bulk(a.parts[1])
      [] a.type = "*" -> Redis(a.parts)

NoAnswer == [type |-> "none", size |-> 0, packets |-> <<>>]

Init ==
    /\ sent \in Scripts
    /\ wire = FlattenSeq([i \in 1..Len(sent) |-> Serialized(sent[i])])
    /\ ring = <<>>
    /\ os = NoAnswer
    /\ heard = <<>>
    /\ closing = FALSE
    /\ pc = "wait"

-----------------------------------------------------------------------------
(* ZIOStream::input and IOData::input: the status, the bytes taken and what *)
(* has been read.                                                           *)

Result(status, adv, o) == [status |-> status, adv |-> adv, os |-> o]

(* Faulty variant: the line end after the data is not part of the packet. *)
NewPacket_Bare(n) == [len |-> n, str |-> <<>>]

(* IOZPACKET *)
NewPacket(n) == [len |-> n + 2, str |-> <<>>]

(* IOZPACKET_WRITE: as much as is there and the packet takes. *)
Written(pk, data) == [pk EXCEPT !.str = @ \o SubSeq(data, 1, Min({Len(data), pk.len - Len(@)}))]

(* IOZPACKET_OK, IOZPACKET_CHECK *)
Full(pk) == Len(pk.str) = pk.len
EndsLine(pk) == SubSeq(pk.str, pk.len - 1, pk.len) = CRLF

(* A packet was filled as far as the data went; the last full one of an     *)
(* answer completes it.                                                     *)
Filled(o, packets, adv) ==
    LET read == [o EXCEPT !.packets = packets]
        pk == Last(packets)
    IN  CASE ~Full(pk) -> Result("receive", adv, read)
          [] Full(pk) /\ ~EndsLine(pk) -> Result("azerror", adv, read)
          [] OTHER -> Result(IF Len(packets) = o.size THEN "success" ELSE "continue", adv, read)

(* The line at the start of the data, n bytes with its end, starts an       *)
(* array or a packet.                                                       *)
InputHead(o, data, n) ==
    LET k == atoi(data[2])
        rest == SubSeq(data, n + 1, Len(data))
        pk == Written(NewPacket(k), rest)
    IN  IF k <= 0 THEN Result("azerror", 0, o)
        ELSE IF o.size = 0 THEN Result("continue", n, [o EXCEPT !.size = k])
        ELSE Filled(o, Append(o.packets, pk), n + Len(pk.str))

InputPacket(o, data) ==
    LET old == Last(o.packets)
        pk == Written(old, data)
    IN  Filled(o, [o.packets EXCEPT ![Len(o.packets)] = pk], Len(pk.str) - Len(old.str))

(* Status, error and integer are one line; an integer is kept as its text. *)
InputLine(o, data, n) ==
    Result("success", n, [o EXCEPT !.packets = <<[len |-> n, str |-> SubSeq(data, 2, n)]>>])

(* Bytes go to the packet begun; an array goes on with another packet. *)
InPacket(o) == o.packets # <<>> /\ (o.type = "$" \/ ~Full(Last(o.packets)))

InputData(o, data) ==
    IF InPacket(o) THEN InputPacket(o, data)
    ELSE IF o.type = "*" /\ o.size > 0 /\ data[1] # "$" THEN Result("azerror", 0, o)
    ELSE IF LineEnds(data) = {} THEN Result("receive", 0, o)
    ELSE LET n == Min(LineEnds(data)) + 1
         IN  IF o.type \in Lines THEN InputLine(o, data, n) ELSE InputHead(o, data, n)

(* The first byte of an answer tells its type; data is one packet. *)
input(o, data) ==
    IF o # NoAnswer THEN InputData(o, data)
    ELSE IF data[1] \notin Lines \cup {"$", "*"} THEN Result("unknown", 0, o)
    ELSE InputData([NoAnswer EXCEPT !.type = data[1], !.size = IF data[1] = "$" THEN 1 ELSE 0],
                   data)

(* What onData is given: the packets without their line ends. *)
Answer(o) ==
    [type |-> o.type,
     parts |-> [i \in 1..Len(o.packets) |->
                  SubSeq(o.packets[i].str, 1, Len(o.packets[i].str) - 2)]]

-----------------------------------------------------------------------------
(* on_recv: n more bytes, at most a block, go into the ring.  Those the     *)
(* kernel already holds are read even after _disconnect.                    *)
Receive(n) ==
    /\ pc = "wait"
    /\ ring' = AppendBytes(ring, SubSeq(wire, 1, n))
    /\ wire' = SubSeq(wire, n + 1, Len(wire))
    /\ pc' = "read"
    /\ UNCHANGED <<sent, os, heard, closing>>

(* One turn of the loop of on_read.  An error clears the ring and closes    *)
(* the connection; the loop ends when all that is there has been shown to   *)
(* the decoder, or taken.                                                   *)
OnRead ==
    /\ pc = "read"
    /\ LET count == Count(ring)
           len == Min({Window, count})
           r == input(os, Attached(ring, len))
           error == r.status \in {"azerror", "unknown"}
       IN  /\ ring' = IF error THEN <<>> ELSE Advance(AfterAttach(ring, len), r.adv)
           /\ os' = IF r.status = "success" THEN NoAnswer ELSE r.os
           /\ heard' = IF r.status = "success" THEN Append(heard, Answer(r.os)) ELSE heard
           /\ closing' = (closing \/ error)
           /\ pc' = IF ring' = <<>> \/ (r.status = "receive" /\ count = len) THEN "wait" ELSE pc
    /\ UNCHANGED <<sent, wire>>

(* The event thread closes the descriptor. *)
Close ==
    /\ closing /\ pc = "wait"
    /\ pc' = "closed"
    /\ UNCHANGED <<sent, wire, ring, os, heard, closing>>

Next ==
    \/ \E n \in 1..Min({Len(wire), T}) : Receive(n)
    \/ OnRead
    \/ Close

Spec == Init /\ [][Next]_vars

-----------------------------------------------------------------------------
(* An answer with an empty part is an error to the decoder. *)
Decodable(s) == \A i \in 1..Len(s) : s[i].type \in Lines \/ <<>> \notin Range(s[i].parts)

(* Wherever TCP cuts the bytes, the client hears the answers the server      *)
(* sent, whole and in order, and keeps the connection; when all bytes have   *)
(* come it has heard them all or closes, and never waits for the rest of an  *)
(* answer that it has (ZIOStream::input, c_zconnect::on_read).               *)
AnswersArriveAsSent ==
    /\ Decodable(sent) => IsPrefix(heard, sent) /\ ~closing
    /\ (wire = <<>> /\ pc = "wait" /\ ~closing) => heard = sent
=============================================================================
