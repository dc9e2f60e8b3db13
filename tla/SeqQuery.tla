------------------------------ MODULE SeqQuery ------------------------------
(***************************************************************************)
(* SEQ QUERY: the search for a message by time that c_seq::query does on   *)
(* the stored messages, by halving, under the shared lock of the sequence. *)
(* The messages are those a sequence can hold (see SeqStore): consecutive  *)
(* ids, times that do not decrease, and gaps where an empty message cannot *)
(* be read back.                                                           *)
(***************************************************************************)
EXTENDS Integers, FiniteSets

CONSTANTS
    MaxCount,       \* bound: messages in the sequence
    MaxBegin,       \* bound: id of the oldest message
    Times,          \* the times messages and queries can have
    MaxGaps,        \* bound: messages that cannot be read
    U32             \* 2^32 in the code: the modulus of uint32

ASSUME ConstantsAssumption ==
    /\ {MaxCount, MaxBegin, MaxGaps} \subseteq Nat
    /\ Times \subseteq Nat
    /\ U32 \in Nat /\ U32 > 2 * (MaxBegin + MaxCount)

VARIABLES
    begin_index, end_index,     \* seq_begin_index() and m_seq_head.g_index()
    time,                       \* id -> time, for the messages that can be read
    datetime,                   \* the time asked for
    ibegin, iend,               \* the ends of the search
    diff,                       \* time of the last probe minus datetime
    mfind,                      \* the probes so far: diff -> id
    reply,                      \* the id in the reply; 0 for ERROR
    pc                          \* "halve", "probe" or "done"

input == <<begin_index, end_index, time, datetime>>
vars == <<input, ibegin, iend, diff, mfind, reply, pc>>

Init ==
    /\ begin_index \in 1..MaxBegin
    /\ end_index \in (begin_index - 1)..(begin_index + MaxCount - 1)
    /\ \E gaps \in SUBSET (begin_index..end_index) :
         /\ Cardinality(gaps) <= MaxGaps
         /\ time \in [(begin_index..end_index) \ gaps -> Times]
    /\ \A i, j \in DOMAIN time : i < j => time[i] <= time[j]
    /\ datetime \in Times
    /\ ibegin = 0 /\ iend = 0
    /\ diff = 0
    /\ mfind = [d \in {} |-> 0]
    /\ reply = 0
    /\ pc = "halve"

Half(x, y) == (x + (((y - x) % U32) \div 2)) % U32

(* Faulty variant: both halves keep the end they should give up. *)
halve_KeepsEnds ==
    /\ pc = "halve"
    /\ \/ diff # 0 /\ UNCHANGED <<ibegin, iend>>
       \/ diff = 0 /\ ibegin' = begin_index /\ iend' = end_index
    /\ pc' = "probe"
    /\ UNCHANGED <<input, diff, mfind, reply>>

(* The top of the loop: which half is searched next. *)
halve ==
    /\ pc = "halve"
    /\ \/ diff > 0 /\ iend' = Half(ibegin, iend) /\ UNCHANGED ibegin
       \/ diff < 0 /\ ibegin' = Half(ibegin, iend) /\ UNCHANGED iend
       \/ diff = 0 /\ ibegin' = begin_index /\ iend' = end_index
    /\ pc' = "probe"
    /\ UNCHANGED <<input, diff, mfind, reply>>

(* dichotomy: the id to look at. *)
Probe == IF diff < 0 THEN Half(ibegin, iend) + 1 ELSE Half(ibegin, iend)

(* map::insert keeps the id that a diff already has. *)
Found(d, k) == [x \in DOMAIN mfind \cup {d} |-> IF x \in DOMAIN mfind THEN mfind[x] ELSE k]

(* Faulty variant: the earliest probe is preferred. *)
Answer_Earliest(m) ==
    IF DOMAIN m = {} THEN 0
    ELSE m[CHOOSE d \in DOMAIN m : \A e \in DOMAIN m : d <= e]

(* After the loop: the probe with the smallest positive diff, or with the    *)
(* largest diff when none is positive, or ERROR.                             *)
Answer(m) ==
    LET after == {d \in DOMAIN m : d > 0}
    IN  IF DOMAIN m = {} THEN 0
        ELSE IF after # {} THEN m[CHOOSE d \in after : \A e \in after : d <= e]
        ELSE m[CHOOSE d \in DOMAIN m : \A e \in DOMAIN m : e <= d]

Finish(m) == reply' = Answer(m) /\ pc' = "done"

(* The rest of the loop: read the probe, then stop or go on. *)
probe ==
    LET keyId == Probe
        d == time[keyId] - datetime
    IN
    /\ pc = "probe"
    /\ \/ /\ keyId \notin DOMAIN time
          /\ Finish(mfind)
          /\ UNCHANGED <<diff, mfind>>
       \/ /\ keyId \in DOMAIN time
          /\ d = 0
          /\ diff' = 0 /\ reply' = keyId /\ pc' = "done"
          /\ UNCHANGED mfind
       \/ /\ keyId \in DOMAIN time
          /\ d # 0
          /\ diff' = d
          /\ mfind' = Found(d, keyId)
          /\ \/ keyId \in {ibegin, iend} /\ Finish(Found(d, keyId))
             \/ keyId \notin {ibegin, iend} /\ pc' = "halve" /\ UNCHANGED reply
    /\ UNCHANGED <<input, ibegin, iend>>

Done == pc = "done" /\ UNCHANGED vars

Next == halve \/ probe \/ Done

(* The search runs in one thread that nothing blocks. *)
Spec == Init /\ [][Next]_vars /\ WF_vars(halve \/ probe)
-----------------------------------------------------------------------------
(* Properties. *)

(* The while (true) of query() ends, gaps or not. *)
Terminates == <>(pc = "done")

IdsAfter == {i \in DOMAIN time : time[i] >= datetime}

(* The id that QUERY promises. *)
Nearest == CHOOSE i \in IdsAfter : \A j \in IdsAfter : i <= j

Last == CHOOSE i \in DOMAIN time : \A j \in DOMAIN time : j <= i

(* What the search does find in a sequence without gaps: some message, and    *)
(* one that is at most one place from the first one after datetime (or from   *)
(* the last one, when all are older) as long as no two have the same time.    *)
NearMiss ==
    (/\ pc = "done" /\ DOMAIN time = begin_index..end_index /\ DOMAIN time # {}
     /\ \A i, j \in DOMAIN time : i # j => time[i] # time[j]) =>
        LET wanted == IF IdsAfter # {} THEN Nearest ELSE Last
        IN  reply \in (wanted - 1)..(wanted + 1)

(* "The id of the message nearest to the time asked for, among those after    *)
(* it" (SEQ QUERY).                                                           *)
FindsNearest == (pc = "done" /\ IdsAfter # {}) => time[reply] = time[Nearest]
=============================================================================
