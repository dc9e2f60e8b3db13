---------------------------- MODULE RecordStore ----------------------------
(***************************************************************************)
(* What the storage server expects of its database (c_leavedb::write, get):*)
(* a map from keys to values on which batches act atomically.  A batch     *)
(* that is acknowledged stays, also when the process dies.  A batch that   *)
(* was in progress then, or that failed earlier and has not been           *)
(* overwritten since, may turn out to have been applied.                   *)
(***************************************************************************)
EXTENDS Integers, Sequences, FiniteSets

CONSTANTS Key, Clients, None

VARIABLES
    kv,         \* key -> value, 0 when absent
    flight,     \* per client: the batch it is writing (key -> value), or None
    limbo,      \* pairs <<key, value>> a failed batch may still store
    open        \* the process runs

vars == <<kv, flight, limbo, open>>

Begin(c, batch) ==
    /\ open /\ flight[c] = None
    /\ flight' = [flight EXCEPT ![c] = batch]
    /\ UNCHANGED <<limbo, open, kv>>

(* The clients of S whose batches touch the key, and what they store. *)
Stored(S, k) == {flight[c][k] : c \in {d \in S : k \in DOMAIN flight[d]}}

(* Every batch of the clients S is applied, and of the rest only what may   *)
(* come back: where two of them store the same key, one is the last.       *)
Applied(S, comeback) ==
    \A k \in Key :
        IF Stored(S, k) # {} THEN kv'[k] \in Stored(S, k)
        ELSE kv'[k] = kv[k] \/ <<k, kv'[k]>> \in comeback

Busy == {c \in DOMAIN flight : flight[c] # None}

Finished(S) == flight' = [c \in DOMAIN flight |-> IF c \in S THEN None ELSE flight[c]]

Commit ==
    /\ open /\ open'
    /\ \E S \in SUBSET Busy \ {{}} :
         /\ Finished(S)
         /\ limbo' = {p \in limbo : Stored(S, p[1]) = {}}
         /\ Applied(S, {})

(* The batches reach the log, but their writers will be told they failed. *)
Misreport ==
    /\ open
    /\ limbo' # limbo
    /\ \E S \in SUBSET Busy :
         limbo' = limbo \cup UNION {{<<k, flight[c][k]>> : k \in DOMAIN flight[c]} : c \in S}
    /\ UNCHANGED <<flight, open, kv>>

Fail ==
    /\ open
    /\ \E S \in SUBSET Busy \ {{}} : Finished(S)
    /\ UNCHANGED <<limbo, open, kv>>

(* The process dies: the batches in progress that were applied are applied *)
(* as a whole, and failed ones may come back over the key they stored.     *)
Crash ==
    /\ open /\ ~open'
    /\ flight' = [c \in DOMAIN flight |-> None]
    /\ limbo' = {}
    /\ \E S \in SUBSET Busy : Applied(S, limbo)

Restart ==
    /\ ~open /\ open'
    /\ UNCHANGED <<flight, limbo, kv>>

Init ==
    /\ kv \in [Key -> Nat]
    /\ flight = [c \in Clients |-> None]
    /\ limbo = {}
    /\ ~open

Next ==
    \/ \E c \in Clients : flight'[c] # None /\ Begin(c, flight'[c])
    \/ Commit \/ Misreport \/ Fail \/ Crash \/ Restart

Spec == Init /\ [][Next]_vars
=============================================================================
