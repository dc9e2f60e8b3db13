---------------------------- MODULE CommandStream ----------------------------
(***************************************************************************)
(* How a server reads commands off a connection: c_zredis_connect::on_read *)
(* puts what TCP delivered into the ring of a c_stream and calls analyze() *)
(* until no whole command is left.  The first byte of a connection decides *)
(* between the redis protocol and typed command lines.  TCP may cut the    *)
(* bytes anywhere.  A number is one byte here, CR and LF are "r" and "n".  *)
(***************************************************************************)
EXTENDS RedisFormat

CONSTANTS
    Scripts,        \* what clients send: sequences of commands, each of words
    Window          \* the bytes analyze() looks at in one turn (1024)

VARIABLES
    sent,           \* the commands the client sends
    wire,           \* the bytes of them that have not been delivered
    mode,           \* m_commandline
    ring,           \* c_stream::m_ring
    param,          \* c_stream::m_param: what has been read of a command
    word,           \* m_vparam: the word being typed (command line mode)
    parsed,         \* the commands given to on_command
    pc              \* "wait", "analyze" or "closed"

vars == <<sent, wire, mode, ring, param, word, parsed, pc>>

(* A command as a typed line. *)
Line(cmd) ==
    FlattenSeq([i \in 1..Len(cmd) |-> IF i = 1 THEN cmd[i] ELSE <<" ">> \o cmd[i]]) \o CRLF

(* A line can only carry words of visible characters. *)
Typeable(s) ==
    \A i \in 1..Len(s) : \A j \in 1..Len(s[i]) :
        s[i][j] # <<>> /\ Range(s[i][j]) \cap {"r", "n", " "} = {}

NoParam == [count |-> 0, units |-> <<>>, line |-> TRUE]

Init ==
    /\ sent \in Scripts
    /\ \/ wire = FlattenSeq([i \in 1..Len(sent) |-> Redis(sent[i])])
       \/ Typeable(sent) /\ wire = FlattenSeq([i \in 1..Len(sent) |-> Line(sent[i])])
    /\ mode = "default"
    /\ ring = <<>>
    /\ param = NoParam
    /\ word = <<>>
    /\ parsed = <<>>
    /\ pc = "wait"

-----------------------------------------------------------------------------
(* c_istream: each operator gives how many bytes it took (-1: the line is    *)
(* not complete, -2: an error) and the command read so far.                  *)

(* Faulty variant: the line end after the data is not counted. *)
NewUnit_Bare(n) == [len |-> n, str |-> <<>>]

(* c_punit::c_punit *)
NewUnit(n) == [len |-> n + 2, str |-> <<>>]

Failed(p) == [took |-> -2, param |-> p]

read_param(p, ptr, n) ==
    IF p.count = 0
    THEN IF ptr[1] # "*" \/ atoi(ptr[2]) <= 0 THEN Failed(p)
         ELSE [took |-> n, param |-> [p EXCEPT !.count = atoi(ptr[2])]]
    ELSE IF ptr[1] # "$" THEN Failed(p)
         ELSE [took |-> n,
               param |-> [p EXCEPT !.units = Append(@, NewUnit(atoi(ptr[2]))),
                                   !.line = FALSE]]

(* read_data fills the last unit; when it is full a line comes next. *)
read_data(p, ptr) ==
    LET unit == Last(p.units)
        n == Min({unit.len - Len(unit.str), Len(ptr)})
        str == unit.str \o SubSeq(ptr, 1, n)
    IN  [took |-> n,
         param |-> [p EXCEPT !.units[Len(p.units)].str = str,
                             !.line = (Len(str) = unit.len)]]

read(p, ptr) ==
    IF ~p.line THEN read_data(p, ptr)
    ELSE IF LineEnds(ptr) = {} THEN [took |-> -1, param |-> p]
    ELSE read_param(p, ptr, Min(LineEnds(ptr)) + 1)

finish(p) ==
    /\ Len(p.units) = p.count
    /\ Len(Last(p.units).str) = Last(p.units).len

(* What get() hands out: the units without their line ends. *)
Words(p) == [i \in 1..Len(p.units) |-> SubSeq(p.units[i].str, 1, Len(p.units[i].str) - 2)]

-----------------------------------------------------------------------------
(* on_read, first part: n more bytes have arrived and go into the ring. *)
Receive(n) ==
    /\ pc = "wait"
    /\ ring' = AppendBytes(ring, SubSeq(wire, 1, n))
    /\ wire' = SubSeq(wire, n + 1, Len(wire))
    /\ mode' = IF mode # "default" THEN mode
               ELSE IF wire[1] = "*" THEN "redis" ELSE "commandline"
    /\ pc' = "analyze"
    /\ UNCHANGED <<sent, param, word, parsed>>

(* analyze() finds the ring empty: STREAM_PARTIAL. *)
Drained ==
    /\ pc = "analyze" /\ ring = <<>>
    /\ pc' = "wait"
    /\ UNCHANGED <<sent, wire, mode, ring, param, word, parsed>>

(* One turn of analyze() in the redis protocol; a finished command goes to  *)
(* on_command, and an error closes the connection.                          *)
AnalyzeRedis ==
    /\ pc = "analyze" /\ mode = "redis" /\ ring # <<>>
    /\ LET n == Min({Count(ring), Window})
           r == read(param, Attached(ring, n))
           kept == AfterAttach(ring, n)
       IN  /\ ring' = IF r.took < 0 THEN kept ELSE Advance(kept, r.took)
           /\ IF r.took >= 0 /\ finish(r.param)
              THEN param' = NoParam /\ parsed' = Append(parsed, Words(r.param))
              ELSE param' = r.param /\ UNCHANGED parsed
           /\ pc' = CASE r.took = -1 -> "wait" [] r.took = -2 -> "closed" [] OTHER -> pc
    /\ UNCHANGED <<sent, wire, mode, word>>

EndWord == param' = [param EXCEPT !.units = Append(@, [len |-> Len(word) + 2, str |-> word \o CRLF])]

(* One byte of a typed line: blanks and line ends before a word are skipped, *)
(* a blank ends the word, a line end the word and the command.               *)
AnalyzeLine ==
    LET c == ring[1].data[1] IN
    /\ pc = "analyze" /\ mode = "commandline" /\ ring # <<>>
    /\ ring' = Advance(ring, 1)
    /\ \/ /\ word = <<>> /\ c \in {" ", "r", "n"}
          /\ UNCHANGED <<param, word, parsed>>
       \/ /\ word # <<>> /\ c = " "
          /\ EndWord
          /\ word' = <<>>
          /\ UNCHANGED parsed
       \/ /\ word # <<>> /\ c \in {"r", "n"}
          /\ parsed' = Append(parsed, Append(Words(param), word))
          /\ param' = NoParam
          /\ word' = <<>>
       \/ /\ c \notin {" ", "r", "n"}
          /\ word' = Append(word, c)
          /\ UNCHANGED <<param, parsed>>
    /\ UNCHANGED <<sent, wire, mode, pc>>

Next ==
    \/ \E n \in 1..Len(wire) : Receive(n)
    \/ Drained
    \/ AnalyzeRedis
    \/ AnalyzeLine

Spec == Init /\ [][Next]_vars

-----------------------------------------------------------------------------
(* Properties. *)

(* "As the standard redis protocol is used, redis clients can be used"       *)
(* (the test notes): the commands executed are the commands sent, in order,  *)
(* none is left over when all bytes have arrived, and no command sent        *)
(* properly closes the connection, wherever TCP cuts the bytes.              *)
CommandsArriveAsSent ==
    /\ IsPrefix(parsed, sent)
    /\ pc # "closed"
    /\ (wire = <<>> /\ pc = "wait") => parsed = sent
=============================================================================
