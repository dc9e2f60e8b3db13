------------------------------ MODULE LruCache ------------------------------
(***************************************************************************)
(* One shard of LevelDB's LRU cache (open tables, blocks) and the threads  *)
(* that use it: look up, open on a miss with no lock held, insert, use,    *)
(* release; an obsolete file is erased at any time.  The chains of the     *)
(* hash table are abstracted to a map.                                     *)
(***************************************************************************)
EXTENDS Integers, Sequences, SequencesExt, FiniteSets, FiniteSetsExt

CONSTANTS
    CacheKey,
    Clients,        \* threads
    Handle,         \* memory for entries, 1..n
    capacity,       \* capacity_ of the shard
    Charge,         \* key -> charge of its entry
    NoKey

VARIABLES
    refs,       \* handle -> refs, 0 when not allocated
    keyOf,      \* handle -> key of the entry
    table,      \* table_: key -> handle or 0
    lru,        \* the list, oldest first
    usage,      \* usage_
    wants,      \* client -> key it opens after a miss, or NoKey
    holds       \* client -> the key and the handle it uses; handle 0: none

vars == <<refs, keyOf, table, lru, usage, wants, holds>>

shard == [refs |-> refs, key |-> keyOf, table |-> table, lru |-> lru, usage |-> usage]

(* Faulty variant: an entry is freed when the cache drops it. *)
Unref_Frees(s, e) ==
    [s EXCEPT !.refs[e] = 0, !.usage = @ - Charge[s.key[e]]]

(* LRUCache::Unref: the last reference frees the entry. *)
Unref(s, e) ==
    [s EXCEPT !.refs[e] = @ - 1,
              !.usage = IF s.refs[e] = 1 THEN @ - Charge[s.key[e]] ELSE @]

(* LRU_Remove, with the cache's own reference. *)
Drop(s, e) == Unref([s EXCEPT !.lru = SelectSeq(@, LAMBDA h : h # e)], e)

(* The loop of Insert: the oldest entry goes while there is too much. *)
EvictOldest(s, e) ==
    IF s.usage > capacity THEN Drop([s EXCEPT !.table[s.key[e]] = 0], e) ELSE s

Become(s) ==
    /\ refs' = s.refs /\ keyOf' = s.key
    /\ table' = s.table /\ lru' = s.lru /\ usage' = s.usage

(* Lookup: a hit is referenced and becomes the newest; a miss is opened. *)
Lookup(c, k) ==
    /\ wants[c] = NoKey /\ holds[c].handle = 0
    /\ LET e == table[k]
       IN  IF e # 0
           THEN /\ refs' = [refs EXCEPT ![e] = @ + 1]
                /\ lru' = Append(SelectSeq(lru, LAMBDA h : h # e), e)
                /\ holds' = [holds EXCEPT ![c] = [key |-> k, handle |-> e]]
                /\ UNCHANGED wants
           ELSE /\ wants' = [wants EXCEPT ![c] = k]
                /\ UNCHANGED <<refs, lru, holds>>
    /\ UNCHANGED <<keyOf, table, usage>>

(* FindTable could not open the file: nothing is cached. *)
OpenFails(c) ==
    /\ wants[c] # NoKey
    /\ wants' = [wants EXCEPT ![c] = NoKey]
    /\ UNCHANGED <<refs, keyOf, table, lru, usage, holds>>

(* Insert: a new entry with two references replaces one that another       *)
(* thread inserted meanwhile, and the oldest entries make room.            *)
Insert(c) ==
    /\ wants[c] # NoKey
    /\ LET k == wants[c]
           e == Min({h \in Handle : refs[h] = 0})
           old == table[k]
           added == [shard EXCEPT !.refs[e] = 2, !.key[e] = k, !.table[k] = e,
                                  !.lru = Append(@, e), !.usage = @ + Charge[k]]
           replaced == IF old = 0 THEN added ELSE Drop(added, old)
       IN  /\ Become(FoldLeft(EvictOldest, replaced, replaced.lru))
           /\ holds' = [holds EXCEPT ![c] = [key |-> k, handle |-> e]]
           /\ wants' = [wants EXCEPT ![c] = NoKey]

(* Release *)
Release(c) ==
    /\ holds[c].handle # 0
    /\ Become(Unref(shard, holds[c].handle))
    /\ holds' = [holds EXCEPT ![c] = [key |-> NoKey, handle |-> 0]]
    /\ UNCHANGED wants

(* Erase, called for a file that is deleted. *)
Erase(k) ==
    /\ table[k] # 0
    /\ Become(Drop([shard EXCEPT !.table[k] = 0], table[k]))
    /\ UNCHANGED <<wants, holds>>

Init ==
    /\ refs = [h \in Handle |-> 0]
    /\ keyOf = [h \in Handle |-> NoKey]
    /\ table = [k \in CacheKey |-> 0]
    /\ lru = <<>>
    /\ usage = 0
    /\ wants = [c \in Clients |-> NoKey]
    /\ holds = [c \in Clients |-> [key |-> NoKey, handle |-> 0]]

Next ==
    \/ \E c \in Clients : OpenFails(c) \/ Insert(c) \/ Release(c)
    \/ \E c \in Clients, k \in CacheKey : Lookup(c, k)
    \/ \E k \in CacheKey : Erase(k)

Spec == Init /\ [][Next]_vars

-----------------------------------------------------------------------------
Users(h) == {c \in Clients : holds[c].handle = h}

(* What a thread uses stays allocated and stays the entry of the key it    *)
(* asked for, whatever is inserted, replaced, evicted or erased meanwhile; *)
(* an entry is freed exactly when no thread and no list refers to it.      *)
EntriesLiveWhileUsed ==
    /\ \A c \in Clients : holds[c].handle # 0 => keyOf[holds[c].handle] = holds[c].key
    /\ \A h \in Handle :
         refs[h] = Cardinality(Users(h)) + Cardinality({i \in DOMAIN lru : lru[i] = h})
=============================================================================
