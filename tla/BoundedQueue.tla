---------------------------- MODULE BoundedQueue ----------------------------
(***************************************************************************)
(* What a LIST promises: a first-in first-out queue.  A push to a queue    *)
(* that has reached its limit drops the oldest value; an update replaces   *)
(* the whole queue, and is not subject to the limit.                       *)
(***************************************************************************)
EXTENDS Naturals, Sequences

CONSTANTS
    Data,       \* the values clients store
    Limit,      \* the length at which a push drops the oldest value
    Updates     \* the sequences of values that an update can bring

VARIABLE queue

Room(q) == IF Len(q) >= Limit THEN Tail(q) ELSE q

Init == queue = <<>>

Push(v) == queue' = Append(Room(queue), v)

Pop ==
    /\ queue # <<>>
    /\ queue' = Tail(queue)

Update(s) == queue' = s

Delete == queue' = <<>>

Next ==
    \/ \E v \in Data : Push(v)
    \/ Pop
    \/ \E s \in Updates : Update(s)
    \/ Delete

Spec == Init /\ [][Next]_queue
=============================================================================
