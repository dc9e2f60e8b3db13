---------------------------- MODULE MCLevelStore ----------------------------
(* LevelStore on a small instance. *)
EXTENDS LevelStore, TLC

CONSTANTS w1, w2, r1

MCBatches == {(1 :> "del") @@ (2 :> "put"), 3 :> "put"}

Put(key, seq) == [key |-> key, seq |-> seq, val |-> 10 + seq]
Del(key, seq) == [key |-> key, seq |-> seq, val |-> Deleted]
File(num, ents) == [num |-> num, ents |-> ents]

(* A version whose upper levels hide what lower ones hold. *)
Layered == 0 :> {} @@ 1 :> {File(4, {Put(1, 3), Put(3, 4)})}
                   @@ 2 :> {File(3, {Put(1, 1), Put(2, 2)})}

(* A new database, and ones whose last run crashed with one or with two    *)
(* memtables not yet flushed.                                              *)
MCDatabases ==
    {[ver |-> EmptyVersion, logs |-> [n \in {} |-> {}]],
     [ver |-> 0 :> {} @@ 1 :> {File(4, {Put(1, 2)})} @@ 2 :> {File(3, {Put(1, 1)})},
      logs |-> 7 :> {Del(1, 3)}],
     [ver |-> Layered, logs |-> 7 :> {Del(1, 5)} @@ 8 :> {Put(1, 6)}]}

Symmetry == Permutations(Writers)
=============================================================================
