---------------------------- MODULE RedisFormat ----------------------------
(***************************************************************************)
(* The redis protocol on the wire, as both ends of a connection write and  *)
(* take it apart.  A number is one byte here, CR and LF are "r" and "n".   *)
(***************************************************************************)
EXTENDS RingQueue

Digit == <<"0", "1", "2", "3", "4">>
CRLF == <<"r", "n">>

atoi(c) == IF c \in Range(Digit) THEN CHOOSE k \in 0..4 : Digit[k + 1] = c ELSE 0

(* c_ostream_array: the words of a command, the parts of an answer. *)
Bulk(w) == <<"$", Digit[Len(w) + 1]>> \o CRLF \o w \o CRLF
Redis(cmd) ==
    <<"*", Digit[Len(cmd) + 1]>> \o CRLF \o FlattenSeq([i \in 1..Len(cmd) |-> Bulk(cmd[i])])

(* zstrstr for CR LF: where line ends start. *)
LineEnds(ptr) == {i \in 1..(Len(ptr) - 1) : SubSeq(ptr, i, i + 1) = CRLF}
=============================================================================
