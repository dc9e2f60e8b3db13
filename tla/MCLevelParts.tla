---------------------------- MODULE MCLevelParts ----------------------------
(***************************************************************************)
(* The parts of LevelDB that stand on their own, each with its callers:    *)
(* the memtable's skip list, the log format, the table format, the block   *)
(* and table cache, and the iterators of a database.  A behaviour is one   *)
(* of one part; the variables of the others stay idle.                     *)
(***************************************************************************)
EXTENDS SkipList, TLC

CONSTANTS ka, kb, kc, p, q, none

VARIABLES
    part,
    file, block_offset, lens, left, ends, faults,               \* LogFormat
    keys, interval, blocks, index, iter, at,                    \* TableFormat
    refs, keyOf, table, lru, usage, wants, holds,               \* LruCache
    lists, sequence, merge, walk, cursor                        \* DBIterator

log_vars == <<file, block_offset, lens, left, ends, faults>>
table_vars == <<keys, interval, blocks, index, iter, at>>
cache_vars == <<refs, keyOf, table, lru, usage, wants, holds>>
walk_vars == <<lists, sequence, merge, walk, cursor>>
list_vars == vars
all_vars == <<part, log_vars, table_vars, cache_vars, walk_vars, list_vars>>

Log == INSTANCE LogFormat
         WITH kBlockSize <- 6, kHeaderSize <- 2, Lengths <- {0, 3, 9},
              MaxRecords <- 3, MaxFaults <- 1

Table == INSTANCE TableFormat
           WITH UserKeys <- {<<0, 0>>, <<0, 2>>, <<2>>, <<3, 3>>},
                Tags <- {1, 2}, MaxTag <- 3, MaxByte <- 3,
                MaxEntries <- 4, Intervals <- {1, 2}

Cache == INSTANCE LruCache
           WITH CacheKey <- {ka, kb, kc}, Clients <- {p, q}, Handle <- 1..5,
                capacity <- 2, Charge <- ka :> 1 @@ kb :> 1 @@ kc :> 2, NoKey <- none

Walk == INSTANCE DBIterator
          WITH Key <- 1..3, Children <- {1, 2}, Entries <- 3, iter <- walk, at <- cursor

NoLog ==
    /\ file = 0 /\ block_offset = 0 /\ lens = 0 /\ left = 0 /\ ends = 0
    /\ faults = 0

NoTable ==
    /\ keys = 0 /\ interval = 0 /\ blocks = 0 /\ index = 0 /\ iter = 0
    /\ at = 0

NoCache ==
    /\ refs = 0 /\ keyOf = 0 /\ table = 0 /\ lru = 0 /\ usage = 0 /\ wants = 0
    /\ holds = 0

NoWalk ==
    /\ lists = 0 /\ sequence = 0 /\ merge = 0 /\ walk = 0 /\ cursor = 0

MCInit ==
    /\ Init
    /\ \/ part = "log" /\ Log!Init /\ NoTable /\ NoCache /\ NoWalk
       \/ part = "table" /\ Table!Init /\ NoLog /\ NoCache /\ NoWalk
       \/ part = "cache" /\ Cache!Init /\ NoLog /\ NoTable /\ NoWalk
       \/ part = "walk" /\ Walk!Init /\ NoLog /\ NoTable /\ NoCache
       \/ part = "list" /\ NoLog /\ NoTable /\ NoCache /\ NoWalk

MCNext ==
    \/ part = "log" /\ Log!Next /\ UNCHANGED <<part, table_vars, cache_vars, walk_vars, list_vars>>
    \/ part = "table" /\ Table!Next /\ UNCHANGED <<part, log_vars, cache_vars, walk_vars, list_vars>>
    \/ part = "cache" /\ Cache!Next /\ UNCHANGED <<part, log_vars, table_vars, walk_vars, list_vars>>
    \/ part = "walk" /\ Walk!Next /\ UNCHANGED <<part, log_vars, table_vars, cache_vars, list_vars>>
    \/ part = "list" /\ Next /\ UNCHANGED <<part, log_vars, table_vars, cache_vars, walk_vars>>

MCSpec == MCInit /\ [][MCNext]_all_vars

-----------------------------------------------------------------------------
(* The properties of the parts, each for the behaviours of its part. *)

(* Without failed appends a crash costs only the log records that were not *)
(* complete (log::Reader::ReadRecord on what log::Writer wrote).           *)
CompleteRecordsSurvive == part = "log" => Log!CompleteRecordsSurvive

(* The log reader never returns a record put together from two, twice or   *)
(* out of order, whatever append failed (log::Reader::ReadRecord).         *)
NothingSpliced == part = "log" => Log!NothingSpliced

(* A table's iterator stands where a cursor over its sorted keys stands    *)
(* (Block::Iter, TwoLevelIterator).                                        *)
WalksTheTable == part = "table" => Table!WalksTheTable

(* A point lookup reads one block and finds the newest visible entry       *)
(* (Table::InternalGet).                                                   *)
GetFindsNewest == part = "table" => Table!GetFindsNewest

(* A cached table or block lives exactly as long as someone refers to it   *)
(* (LRUCache::Unref).                                                      *)
EntriesLiveWhileUsed == part = "cache" => Cache!EntriesLiveWhileUsed

(* The iterator of a database shows what a plain cursor over the visible   *)
(* values shows (DBIter, MergingIterator).                                 *)
ShowsWhatIsVisible == part = "walk" => Walk!ShowsWhatIsVisible
=============================================================================
