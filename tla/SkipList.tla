------------------------------ MODULE SkipList ------------------------------
(***************************************************************************)
(* The skip list behind a LevelDB memtable.  One thread inserts (the       *)
(* writer at the front of the queue), any number of threads search and     *)
(* iterate at the same time without a lock.  A step is one load or the     *)
(* publication of one link; the acquire loads and release stores of the    *)
(* links are taken as sequentially consistent.                             *)
(*                                                                         *)
(* The key of a node names it.  The head is 0, and NULL is N + 1: it sorts *)
(* after all keys.  Links of a node that are not set yet hold junk.        *)
(***************************************************************************)
EXTENDS Integers

CONSTANTS
    N,              \* keys are 1..N
    kMaxHeight,
    Readers,
    Writer,
    Junk            \* what uninitialised links may hold

Keys == 1..N
Head == 0
NULL == N + 1
Nodes == 0..N
Level == 0..(kMaxHeight - 1)
Threads == Readers \cup {Writer}

ASSUME ListAssumption ==
    /\ N \in Nat
    /\ kMaxHeight \in Nat \ {0}
    /\ Writer \notin Readers
    /\ Junk \in 0..(N + 1)

VARIABLES
    next,       \* node -> level -> node: next_
    max_height, \* max_height_
    doing,      \* per thread: "idle", "ge", "lt", and for the writer also "link"
    key,        \* per thread: the key searched for
    x,          \* per thread: x of the search
    level,      \* per thread: level of the search; the next level to link
    node,       \* per reader: node_ of its iterator
    prev,       \* prev of Insert
    height,     \* height of Insert
    linked      \* history: level -> keys whose node can be reached there

vars == <<next, max_height, doing, key, x, level, node, prev, height, linked>>

Init ==
    /\ next = [n \in Nodes |-> [l \in Level |-> IF n = Head THEN NULL ELSE Junk]]
    /\ max_height = 1
    /\ doing = [t \in Threads |-> "idle"]
    /\ key = [t \in Threads |-> 1]
    /\ x = [t \in Threads |-> Head]
    /\ level = [t \in Threads |-> 0]
    /\ node = [r \in Readers |-> NULL]
    /\ prev = [l \in Level |-> Head]
    /\ height = 1
    /\ linked = [l \in Level |-> {}]

-----------------------------------------------------------------------------
(* The walk of FindGreaterOrEqual, FindLessThan and FindLast: the same one, *)
(* FindLast being FindLessThan for NULL.                                   *)

(* A walk starts at the head, on the top level or, when the thread sees an *)
(* old max_height_, lower.                                                 *)
StartWalk(t, what, k, top) ==
    /\ doing' = [doing EXCEPT ![t] = what]
    /\ key' = [key EXCEPT ![t] = k]
    /\ x' = [x EXCEPT ![t] = Head]
    /\ level' = [level EXCEPT ![t] = top]

Following(t) == next[x[t]][level[t]]

(* Faulty variant: a node with the key itself is passed too. *)
KeyIsAfterNode_OrAt(t, n) == n # NULL /\ n <= key[t]

(* KeyIsAfterNode *)
KeyIsAfterNode(t, n) == n < key[t]

Walking(t) == doing[t] \in {"ge", "lt"}

(* Keep searching in this list. *)
Advance(t) ==
    /\ Walking(t) /\ KeyIsAfterNode(t, Following(t))
    /\ x' = [x EXCEPT ![t] = Following(t)]
    /\ UNCHANGED <<next, max_height, doing, key, level, node, prev, height, linked>>

(* Switch to the next list; an insertion remembers where it came from. *)
Descend(t) ==
    /\ Walking(t) /\ ~KeyIsAfterNode(t, Following(t))
    /\ level[t] > 0
    /\ level' = [level EXCEPT ![t] = @ - 1]
    /\ prev' = IF t = Writer THEN [prev EXCEPT ![level[t]] = x[t]] ELSE prev
    /\ UNCHANGED <<next, max_height, doing, key, x, node, height, linked>>

Stopped(t) == Walking(t) /\ ~KeyIsAfterNode(t, Following(t)) /\ level[t] = 0

-----------------------------------------------------------------------------
(* Iterator *)

(* Seek and Contains look for a key; Prev looks for the node before the    *)
(* present one, and SeekToLast for the last node of all.                   *)
StartSearch(r) ==
    /\ doing[r] = "idle"
    /\ \E top \in 0..(max_height - 1) :
         \/ \E k \in Keys : StartWalk(r, "ge", k, top)
         \/ node[r] # NULL /\ StartWalk(r, "lt", node[r], top)
         \/ StartWalk(r, "lt", NULL, top)
    /\ UNCHANGED <<next, max_height, node, prev, height, linked>>

(* The search returns; the head is no position of an iterator. *)
FinishSearch(r) ==
    /\ Stopped(r)
    /\ node' = [node EXCEPT ![r] = IF doing[r] = "ge" THEN Following(r)
                                   ELSE IF x[r] = Head THEN NULL ELSE x[r]]
    /\ doing' = [doing EXCEPT ![r] = "idle"]
    /\ UNCHANGED <<next, max_height, key, x, level, prev, height, linked>>

(* SeekToFirst, and Next of a valid iterator: one load. *)
FollowLink(r) ==
    /\ doing[r] = "idle"
    /\ \E n \in {Head, node[r]} \ {NULL} : node' = [node EXCEPT ![r] = next[n][0]]
    /\ UNCHANGED <<next, max_height, doing, key, x, level, prev, height, linked>>

-----------------------------------------------------------------------------
(* Insert *)

(* The key is not in the list. *)
StartInsert(k) ==
    /\ doing[Writer] = "idle"
    /\ k \notin linked[0]
    /\ StartWalk(Writer, "ge", k, max_height - 1)
    /\ UNCHANGED <<next, max_height, node, prev, height, linked>>

(* The place is found and RandomHeight draws a height; new levels start at *)
(* the head.                                                               *)
ChooseHeight(h) ==
    /\ Stopped(Writer)
    /\ height' = h
    /\ max_height' = IF h > max_height THEN h ELSE max_height
    /\ prev' = [l \in Level |-> IF l >= max_height THEN Head
                                ELSE IF l = 0 THEN x[Writer] ELSE prev[l]]
    /\ doing' = [doing EXCEPT ![Writer] = "link"]
    /\ UNCHANGED <<next, key, x, level, node, linked>>

(* Faulty variant: the node is published on a level without its own link. *)
LinkLevel_Unset ==
    LET k == key[Writer]
        l == level[Writer]
    IN  /\ doing[Writer] = "link"
        /\ next' = [next EXCEPT ![prev[l]][l] = k]
        /\ linked' = [linked EXCEPT ![l] = @ \cup {k}]
        /\ level' = [level EXCEPT ![Writer] = IF l + 1 < height THEN l + 1 ELSE 0]
        /\ doing' = [doing EXCEPT ![Writer] = IF l + 1 < height THEN "link" ELSE "idle"]
        /\ UNCHANGED <<max_height, key, x, node, prev, height>>

(* One turn of the loop, from the bottom up: the node's own link, which    *)
(* nobody can see yet, then the link that publishes it on this level.      *)
LinkLevel ==
    LET k == key[Writer]
        l == level[Writer]
    IN  /\ doing[Writer] = "link"
        /\ next' = [next EXCEPT ![k][l] = next[prev[l]][l], ![prev[l]][l] = k]
        /\ linked' = [linked EXCEPT ![l] = @ \cup {k}]
        /\ level' = [level EXCEPT ![Writer] = IF l + 1 < height THEN l + 1 ELSE 0]
        /\ doing' = [doing EXCEPT ![Writer] = IF l + 1 < height THEN "link" ELSE "idle"]
        /\ UNCHANGED <<max_height, key, x, node, prev, height>>

Next ==
    \/ \E t \in Threads : Advance(t) \/ Descend(t)
    \/ \E r \in Readers : StartSearch(r) \/ FinishSearch(r) \/ FollowLink(r)
    \/ \E k \in Keys : StartInsert(k)
    \/ \E h \in 1..kMaxHeight : ChooseHeight(h)
    \/ LinkLevel

Spec == Init /\ [][Next]_vars

-----------------------------------------------------------------------------
(* m is the first of the keys S behind n. *)
IsNext(S, n, m) ==
    /\ m \in S \cup {NULL} /\ n < m
    /\ \A k \in S : n < k => m <= k

(* Every level is a sorted list of some of the nodes of the level below,   *)
(* also while Insert is linking a node level by level.                     *)
LevelsNested ==
    /\ \A l \in Level : \A n \in linked[l] \cup {Head} : IsNext(linked[l], n, next[n][l])
    /\ \A l \in Level : l > 0 => linked[l] \subseteq linked[l - 1]

(* What is right for reader r when its search returns. *)
SearchAnswer(r) ==
    (doing[r] # "idle" /\ doing'[r] = "idle") =>
        IF doing[r] = "ge" THEN IsNext(linked[0], key[r] - 1, node'[r])
        ELSE IF node'[r] = NULL THEN \A k \in linked[0] : key[r] <= k
        ELSE /\ node'[r] \in linked[0] /\ node'[r] < key[r]
             /\ \A k \in linked[0] : node'[r] < k => key[r] <= k

(* A search beside a running insertion answers exactly: at the moment it   *)
(* returns, Seek stands at the first key not before its target, Prev and   *)
(* SeekToLast at the last key before it, and no key of the list was missed *)
(* (FindGreaterOrEqual, FindLessThan, FindLast).                           *)
SearchesExact == [][\A r \in Readers : SearchAnswer(r)]_vars
=============================================================================
