# TLA+ models of zstorage

zstorage is a key-value server with typed values (plain keys, LIST, MLIST, SEQ,
CLOUD) over LevelDB, a proxy (zcloud) that spreads keys over several storage
servers, a redis-like protocol library (zredis) and an event library (Network).
This directory models the parts where concurrency, failures, restarts and
integer widths decide whether the data stay right, checks the models with TLC
on small instances, and proves the central properties with TLAPS for every
value of the constants.

Sources are cited as `file:line`. `docx:N` is the N-th paragraph of the
operations manual, `src/zstorage云存储服务器操作设计说明.docx`.

## 1. The system

| Part | Sources (`src/`) | State | What is hard | Module |
|---|---|---|---|---|
| SEQ | `zcloud/zstorage/zstorage/c_seq.*` | cached head per object, registry, records `key`, `key@id` | eviction racing a command, unlocked look at the clean time, rollback after failed writes, uint32 | `SeqStore`, `SeqQuery` |
| LIST | `c_list.*` | cached list of 16-bit ids, registry, records | the same races, no rollback, ids that wrap | `ListStore` |
| MLIST | `c_mlist.*` | as LIST, ids are strings | encoding and decoding of the header, ids pushed twice | `MList` |
| CLOUD | `c_cloud.*` | read markers over sequences | several unlocked steps per command | `Cloud` |
| Plain keys | `_cmd.*` | one shared record header for all threads | the header has no lock | `KeyExpiry` |
| Timers, RECYCLE | `c_timeout.h`, `c_thread_refresh.h`, `c_recycle.h` | `m_temp`, `m_immediately`, `m_long` | stale timers, restarts, 32-bit times | `KeyExpiry` |
| LevelDB, database | `zcloud/leveldb/db/` | memtables, logs, tables, manifest, writer queue | group commit, background thread, crashes, failed writes | `LevelStore`, `LevelVersions` |
| LevelDB, log and table files | `db/log_*`, `table/` | bytes of a file | crashes at any byte, shared prefixes, short index keys | `LogFormat`, `TableFormat` |
| LevelDB, memory | `db/skiplist.h`, `util/cache.cc`, `table/merger.cc`, `db/db_iter.cc` | links, references, cursors | reads without locks, eviction of what is in use, turning round | `SkipList`, `LruCache`, `DBIterator` |
| Proxy | `zcloud/zcloud/zcloud/`, `zredis/zredis/c_zclient.*` | requests in flight, ring of the client | late answers, reused addresses, lost connections | `Proxy` |
| zredis, reading commands | `zredis/zredis/c_resolver.*`, `include/zredis/c_resolver.h` | ring and parser | input cut at any byte | `CommandStream`, `RedisFormat`, `RingQueue` |
| zredis, reading answers | `zredis/zredis/c_zconnect.*`, `zredis/zredis/c_zclient_public.*` | ring of the connection, the answer read so far | input cut at any byte, errors | `ReplyStream`, `RedisFormat`, `RingQueue` |
| zredis, writing | `zredis/zredis/c_zredis_connect.*`, `Network/` | ring of replies, send buffer | two threads append, wake-ups | `SendPath`, `RingQueue` |
| Network | `Network/network/network/` | connections, close and signal queues, pipes | descriptors reused, release beside a broadcast | `Connection` |

A network thread (`<threads>` of config.xml, 9 by default) runs a command from
its first byte to its reply. A SEQ or LIST command looks its object up in a
registry (`find_is_create`), initialises it (`init`: the lifetime is renewed
without the lock, the record is loaded under it) and then runs a body under the
object's lock, which ends with one LevelDB batch. The refresh thread runs the
timers every second and, every 300 seconds, `check()` on the registries, which
drops objects whose lifetime is over.

The models meet at their interfaces. `SeqStore` is shown to implement `SeqLog`,
and `Cloud` is built on the actions of `SeqLog`. The stores take one LevelDB
batch as an atomic step that may fail; `LevelStore` is shown to implement
`RecordStore`, which says that. `LevelStore` takes a log as the records its
reader returns; `LogFormat` shows which these are. `SendPath`, `CommandStream`
and `ReplyStream` run on the operators of `RingQueue`.

## 2. Modules

| Module | Models |
|---|---|
| `SeqStore` | one SEQ key: objects, registry, records, threads, refresh thread, clock, restart |
| `SeqLog` | what a SEQ promises: a numbered log with a time window |
| `SeqQuery` | the search loop of SEQ QUERY |
| `ListStore` | one LIST key, in the same way as `SeqStore` |
| `BoundedQueue` | what a LIST promises: a bounded first-in first-out queue |
| `MList` | one MLIST key, its header byte by byte |
| `Cloud` | CLOUD PUSH, READ and ONLINE of one friend's messages |
| `KeyExpiry` | one plain key: SET, DEL, RECYCLE, timers, refresh thread |
| `LevelVersions` | files and levels: lookup, placing a flush, choosing and merging a compaction |
| `LevelStore` | the database: writers, memtables, background thread, manifest, files, readers, crash, recovery |
| `RecordStore` | what the server expects of it: atomic batches, acknowledged ones survive |
| `LogFormat` | fragments and blocks of a log, writer and reader |
| `TableFormat` | blocks, restart points, index keys, point lookups and iterators |
| `SkipList` | insertion and searches link by link |
| `LruCache` | one shard with references, eviction, erasure |
| `DBIterator` | `MergingIterator` and `DBIter` in both directions |
| `RingQueue` | the byte queue `CRingQueue` as operators |
| `RedisFormat` | the redis protocol on the wire, as operators |
| `CommandStream` | the server's parser of commands over pieces of input |
| `ReplyStream` | the asynchronous client's decoder of answers over pieces of input |
| `SendPath` | the way of a reply from the ring to the kernel |
| `Connection` | accept, subscribe, broadcast, signal, close and release over several event threads |
| `Proxy` | one thread of the proxy: clients, serial numbers, the client to a storage server |
| `MC...` | instances for TLC |
| `...Proofs` | proofs about the module of that name |

Keys share nothing but the clock and, for plain keys, the record header, so one
key is the general case of the stores.

**SeqStore, ListStore.** `cur` is the registry's entry for the key, `held[t]`
the counted reference of a command, `pc[t]` its place. Per object there are the
cached head or list, whether it is loaded (`m_init`), and its lifetime `eff`.
The disk is the type under the key, the stored head or header, and the records
`key@id`. A body is one step, because it holds the object's lock and ends with
an atomic batch. Steps without the lock are steps of their own: the lookup,
`Touch`, and in SeqStore the two looks at the clean time (`CheckClean`,
`EnterRemove`). SEQ REMOVE is the path through `EnterRemove` and `remove`
without the read at its end. `Restart` is the death of the process at any
point (`guard_process` starts it again).

The constant `Faults` says which faults an instance has:

- `"write"`: a LevelDB batch may fail. Memory is then as the error path leaves
  it (SEQ puts most of it back, LIST nothing).
- `"read"`: the read in `init()` may fail; the code takes that for "no record".
- `"evict"`: `check()` may meet an object that a command is using. It can,
  because `is_release` looks only at the lifetime: a thread that is delayed for
  longer than `object_effective` (5 minutes by default) between lookup and
  body, or a clock that jumps. Without the fault, `check` meets only unused
  objects.

**SeqQuery.** The program is sequential; `Init` enumerates every sequence of
messages within the bounds. `halve` is the top of the loop, `probe` the rest.

**MList.** A command is one step, under the object's lock. An id is its bytes,
and `load_value` decodes the stored header the way the code does. `exact` and
`repeated` are history: no read or write failed and no header was loaded back;
an id was pushed while it was listed.

**Cloud.** Every call of `c_cloud` to the sequence or to LevelDB is a step;
`loc[t]` holds what a command has read so far. `acked` is the highest number a
READ covered, `between[t]` counts the PUSHes during an ONLINE.

**KeyExpiry.** A value is its own checksum. SET is four steps (`set`, `set_crc`,
`put`, `push`), because `m_head` of the one `_set` object is changed and copied
without a lock. `job` holds the thread's own arguments, `due` is a history
variable: when the stored value was asked to go. The refresh thread takes the
timers out of `m_temp` one by one, looks at `m_long` if it is time
(`check_long`), and fires the timer; its DEL is two steps, as a client's is.
GET and EXISTS change nothing; `get_value` is what GET returns.

**LevelStore.** A step is what a thread does between taking and releasing
`mutex_`, or one piece of I/O with `mutex_` released. Writers queue up
(`queue`), the one in front makes room, joins batches (`BuildBatchGroup`), logs,
inserts and publishes. The background thread flushes `imm` or compacts and
hands its edit to `LogAndApply` (`WriteManifest`, then `InstallFlush` or
`InstallCompaction`, with `DeleteObsoleteFiles` inside). `Crash` leaves the
files; `Recover`, `NewManifest`, `SetCurrentFile` and `Open` bring the database
back and may be interrupted as well. The faults `"log"`, `"table"` and
`"manifest"` are writes that fail, with or without their record in the file.
`store` is a history variable, the map the database stands for; `limbo` holds
what failed but may be found after a restart.

**LogFormat.** A byte is named by the fragment it belongs to and its place in
it, so that a checksum matches exactly when a whole fragment stands in a row.
`Images` are the files a crash may leave.

**SkipList.** A step is one load or the publication of one link. Loads and
stores are sequentially consistent in the model; the acquire and release
ordering of the code is what allows this for one writer.

**TableFormat, DBIterator.** `Init` enumerates every small table, or every
distribution of entries over the merged iterators; then any sequence of seeks
and steps follows. Beside the iterator walks a plain cursor over the visible
entries (`at`), which is the reference.

**Proxy.** Connection objects live at addresses (`Slots`) that are reused.
`asked` and `heard` are history. A command is two pieces, because the blocks of
the ring do not end where commands do.

**CommandStream, ReplyStream, SendPath, Connection.** The ring is a sequence of
blocks, as `CRingQueue` keeps it. In `ReplyStream` `os` is the answer the
decoder has begun (`m_os`); a step is one turn of the loop of `on_read`, and
`closing` says that an error called `_disconnect`. `onData` never refuses an
answer, because the one implementation returns 0 (_storage_cb.h:58). In
`SendPath` bytes carry their number. `Connection` follows `c_basis::on_process`
queue by queue; `refs` is the reference count.

## 3. Runs

Passing runs:

| Run | States | Shows |
|---|---|---|
| `seq_store` | 182 000 | two threads, failing writes, eviction of unused objects, restarts. Head and messages agree (`HeadDescribesValues`), the cache agrees with the disk after every rollback (`CacheMatchesStore`), SEEK finds the newest, no number is used twice (`NeverRewritten`), the records implement `SeqLog` |
| `list_store` | 18 000 | two threads, eviction of unused objects, restarts: header and values agree, LIMIT and SEEK return what the manual says, the records implement `BoundedQueue` |
| `list_failures` | 1 338 000 | failing writes, failing reads and evictions under a running command: no id is in a list twice |
| `key_expiry` | 43 000 | every value stored with EXPIRE goes or is overwritten (liveness) |
| `key_expiry_faults` | 737 000 | failing writes and restarts: timers in `m_long` are moved in time; one client's records can be read back |
| `level_store` | 251 000 | two writers, a reader, the background thread, one failed operation, one crash: `LevelStore` implements `RecordStore`, a read sees its snapshot (`ReadersUndisturbed`), needed files exist (`FilesPresent`), files overlap only as copies (`OnlyCopiesOverlap`), what is found is what was written (`HoldsWhatWasWritten`), a waiting writer has a background thread at work for it (`WaitersAreServed`) |
| `level_parts` | 82 000 | log: complete records survive a crash at any byte, nothing is spliced; table: walks and lookups agree with the sorted keys; cache: entries live while used; iterators: they show what is visible; skip list: levels are nested, searches are exact |
| `server_parts` | 294 000 | MLIST: header and records agree, SEEK; CLOUD: ONLINE hides no unread message; proxy: answers reach their askers, commands stay whole; parser and decoder: commands and answers arrive as sent |
| `server_io` | 384 000 | QUERY ends and is at most one place off (`Terminates`, `NearMiss`); replies leave in order and all of them (`RepliesInOrder`, `RepliesLeave`); broadcasts reach no deleted connection, a close finds its own connection and ends (`SubscribersLive`, `CloseFindsItsConnection`, `ClosingEnds`) |

`level_parts`, `server_parts` and `server_io` hold several models that do not
interact. A behaviour is one of one model (`part`); the variables of the others
idle, so the states are the sum and not the product. A model with an action or
liveness property idles in its own initial state.

Runs whose counterexample shows a disagreement between the code and what the
repository says of it:

| Run | What happens |
|---|---|
| `key_stale` | the timer of an overwritten value deletes the new one (docx:158) |
| `send_order` | a piece over three blocks of the ring that the socket refuses comes back with its blocks reversed (RingQueue.h:161); the bytes leave out of order |
| `mlist_reload` | `load_value` never moves past the first length byte (c_mlist.cpp:44); a list of two ids is loaded back as another one (c_mlist.h:10) |

### Other known disagreements

These have a property in the modules and no run. Each is reproduced with the
configuration named, changed as said, and the property as INVARIANT or PROPERTY.

| Property | Configuration | What happens |
|---|---|---|
| `SeqStore!HeadDescribesValues` | `SeqStore.cfg`: `Faults = {"evict"}`, three objects, `SeqClearTime = 4`, `DelayArgs = {0}` | a command holds an evicted object, a second one is created, both write their own head (c_seq.h:87; "key count@begin@end", c_seq.h:7) |
| `SeqQuery!FindsNearest` | `ServerIO.cfg`: `Parts = {"query"}`, `MaxGaps = 0` | times 1, 2 and a query for 2: the answer is message 1 (docx:398) |
| `ListStore!HeaderListsItems` | `ListStore.cfg`: `Faults = {"write"}` | a failed batch, then a successful one: a header without its value (c_list.cpp:91; c_list.h:9-13) |
| `KeyExpiry!RecordReadable` | `KeyExpiryFaults.cfg`: two clients, `ExpireArgs = {0}`, `Faults = {}` | two SETs: a value with the checksum of the other; GET finds nothing (c_base.cpp:37; docx:170) |
| `KeyExpiry!RecycleSpares` | `KeyExpiryFaults.cfg`: `ExpireArgs = {0}` | SET without EXPIRE stores now - 1 as effective time: RECYCLE deletes it (c_base.cpp:21; zbase.h:8) |
| `LevelStore!LevelsDisjoint` | `LevelStore.cfg`: `Faults = {"manifest"}` | a manifest record whose write failed is found after a restart, and its flush is repeated: two copies at a level (version_set.cc:747, a check of debug builds) |
| `LogFormat!AcknowledgedRecordsSurvive` | `LevelParts.cfg`, with `Log!AcknowledgedRecordsSurvive` for `part = "log"` | records acknowledged after a failed append stand in a damaged block and are skipped (leveldb/options.h:176) |
| `ReplyStream!AnswersArriveAsSent` | `ServerParts.cfg`: `Parts = {"reply"}`, without its premise `Decodable(sent)` | an answer with an empty part, which `c_ostream_array` sends as `$0`, is an error to the decoder (c_zclient_public.cpp:155) and closes the connection; bytes that the kernel already holds are still decoded then (rawtcpconnect.cpp:184), and part of the next answer can be taken for the rest of the broken one |
| `Connection!SubscribersLive` | `ServerIO.cfg`: `Parts = {"connection"}`, `Subscriptions = {"DELAY"}` | the proxy's DELAY joins a broadcast without telling the connection (z_command.cpp:198), which stays in it when it is deleted |

Further conditions of the properties are constants or history variables of the
models, and assumptions of the theorems: a read error while an object is loaded
(`"read"`), an eviction under a LIST command (`"evict"`), a delay that wraps
(`NoOverflow`), an empty message (`Empty`), a restart or an EXPIRE beyond 72
hours for `ClearedAutomatically`, an id pushed twice into an MLIST
(`repeated`), two PUSHes during one ONLINE (`between`), a ring of the proxy
that is cleared in the middle of a command (`cut`).

### Bounds

- Two threads: every race found here is between two commands, or a command and
  the refresh thread. For SEQ, LIST, the skip list and the proxy the proofs cover
  any number.
- SEQ, LIST: one object where no object is evicted under a command (a second
  one cannot exist then), two in `list_failures`. `MaxId` 3 messages, clock to 4,
  window of 1 or 2: messages expire one by one, all at once, and not at all.
  `U32` = 16 leaves room above all other values. `list_max_count` 2 with
  `U16` = 4 (3 in `list_failures`): a list fills up and ids wrap; UPDATE brings
  up to three values, more than the limit.
- QUERY: every sequence of up to six messages with times 1..6 and at most one
  unreadable message; six is three halvings.
- KeyExpiry: look-ahead 2, period 1 and timeouts 1 and 3: a timer goes to
  `m_immediately` at once, or through `m_long`. SET stops at `MaxTime`; the
  clock goes on while a timer runs, so that the bound does not stop a timer.
- LevelStore: three keys, three levels, two batches, one of them over two keys
  with a deletion; a memtable holds one entry more than `WriteBuffer` 1, so
  every batch causes a flush and two make a compaction. It starts on an empty
  database and on two that crashed with one or two logs to replay and files at
  two levels that hide each other; one of them lets a flush go below level 0
  beside a compaction, so that copies which overlap do occur. One crash and one failed operation.
- LogFormat: blocks of six bytes, headers of two, records of 0, 3 and 9 bytes:
  a record of every fragment type, padding, and an empty record. Three records,
  one failed append.
- TableFormat: up to four entries over four user keys, with the greatest byte,
  a common prefix and one key in two versions; restart intervals 1 and 2.
- LruCache: three keys, one of them as large as the cache; five handles.
  DBIterator: three entries over three keys in two children, in every
  distribution. SkipList: three keys, two levels, one reader.
- MList: three ids, one the concatenation of the others; three places. Cloud:
  three messages, two threads. Proxy: two addresses, two clients, three
  commands, a ring of two pieces. CommandStream: three scripts, with empty
  words and words that look like protocol, cut at every byte. ReplyStream: three
  scripts with every kind of answer a server sends, over blocks of eight bytes
  and a window of five. The scripts have no line longer than the window: with
  more bytes behind it, such a line would keep `on_read` in its loop for ever.
- SendPath: four replies over blocks of eight bytes, pieces of four. Connection:
  two threads, two connections, two descriptors.
- Thread identities (and in `MCListStore` objects) are symmetric. No liveness
  property is checked with symmetry.

Deadlock is not checked where the bounds stop every action (writes, messages,
records) or the program ends (QUERY).

### Fairness

`SeqQuery`: the loop runs in one thread that nothing blocks. `KeyExpiry`: a
command that has begun ends, the refresh thread keeps looping
(c_thread_refresh.h:33), time passes. `SendPath`: a thread that has appended
gets to its signal, the own thread finishes `on_transmit`, and it handles its
events; a client that stays connected reads, so that the socket becomes
writable again. `Connection`: a thread whose pipe has a byte runs
`on_process`, and a broadcast ends. No client has to send another command, and
broadcasts may stop or not: `ClosingEnds` is stated for when they stop, because
the loop over signals runs as long as new ones come. The stores and LevelDB have
no fairness; only safety is checked there.

## 4. Proofs

All theorems hold for every number of threads, objects, messages, keys or
clients, and all values of the configuration that satisfy the assumption of the
module.

| Theorem | Says | Assumes |
|---|---|---|
| `SeqStoreTypeProofs!TypeCorrect` | `Spec => []TypeOK` | nothing: all faults |
| `SeqStoreInvProofs!Consistent` | `HeadDescribesValues`, `CacheMatchesStore`, `TimesOrdered` always (`CacheStaysTrue`: the second by itself) | failing writes only |
| `SeqStoreLogProofs!StoredOnce` | `NeverRewritten` | failing writes only |
| `SeqStoreLogProofs!Implementation` | `SeqStore` implements `SeqLog` | failing writes only, no delay that overflows, no empty message |
| `ListStoreProofs!ListTypeCorrect` | `Spec => []TypeOK` | nothing: all faults |
| `ListStoreProofs!IdsStayDistinct` | no id twice in a list | nothing: all faults |
| `ListStoreQueueProofs!ListConsistent` | `HeaderListsItems`, `CacheMatchesStore` always | no faults |
| `ListStoreQueueProofs!QueueImplementation` | `ListStore` implements `BoundedQueue` | no faults |
| `KeyExpiryProofs!KeyTypeCorrect` | `Spec => []TypeOK` | nothing: all faults |
| `KeyExpiryProofs!LongTimersAreInTime` | a timer in `m_long` waits for the next look | nothing: all faults |
| `KeyExpiryProofs!OneThreadReadsBack` | `RecordReadable` | one network thread; all faults |
| `SkipListProofs!ListWellFormed` | `LevelsNested` | nothing |
| `SkipListProofs!SearchesAreExact` | `SearchesExact` | nothing |
| `ProxyProofs!AnswersReachTheirAskers` | `ReplyReachesAsker` | nothing |
| `ProxyProofs!ServerReadsWholeCommands` | `WholeCommands` | the ring's limit is a number |

The type invariants, `TimesOrdered` and ListStore's `CacheMatchesStore` are
proved and are in no run; they hold of the instances too. The assumptions on
faults and threads are needed: the properties fail without them (section 3).

*SEQ.* `HeadDescribesValues` alone is not inductive: a body writes the head it
has in its object. The invariant adds that all commands use the registered
object, that this object is zero until loaded and agrees with the disk after
that, and that a command past `init()` finds it loaded. `remove` then deletes a
prefix, because the times are ordered; `first - begin` is its length without
wrap-around, because `MaxId + 1 < U32`. The proof that the log is implemented
maps each batch to an append, a clean-up or a change of the window.

*LIST.* `DistinctIds` needs a shape: the ids of a list are consecutive modulo
2^16 and fewer than 2^16 (`Cyclic`). Taking the first away, appending the last
plus one, and numbering from 1 keep it, in memory and on disk, whatever is lost
in between. The queue proof adds the same facts about the registered object as
for SEQ; distinct ids make `items[dbList[i]]` a sequence on which the batches
act as `Append` and `Tail`.

*Keys and timers.* A timer put into `m_long` is at least the look-ahead away,
the next look at most the period, and the period is at most the look-ahead. A
record is readable because the header holds the checksum of the client's own
value when it is copied; a second client can change it in between.

*Skip list.* The invariant says where every walk stands (a node of its level,
before the key), which places Insert remembers on the levels it has left
(`Place`), and on which levels the new node is linked. A node is linked from
below, so that a walk that descends from it finds it on the lower level; a
reader that stops has therefore passed every smaller key at that moment.

*Proxy.* An answer reaches its asker because the address recorded for a serial
number always belongs to the client that asked: `on_release` forgets the
records of an address before it can be reused. `WholeCommands` is not
inductive, as half of a command may be sent: the invariant is that wire and
ring together are a stream of whole commands (`Paired`), which sending moves
along, a new command extends, an answer shortens, and a loss empties.

Only model-checked: `SeekFindsNewest`, `ReadersSeeQueue`, `NearMiss`, the
properties of `MList`, `Cloud`, `LevelStore`, `LogFormat`, `TableFormat`,
`LruCache`, `DBIterator`, `CommandStream`, `ReplyStream`, `SendPath` and
`Connection`; and
liveness (`ClearedAutomatically`, `Terminates`, `RepliesLeave`, `ClosingEnds`),
which is out of the prover's reach, as is what recursive functions and folds
compute for every input (the readers of logs and tables, the iterators).

## 5. Not modelled

- **Several types under one key**: SET over a LIST, DEL by the stored type
  while an object of another type is cached, RECYCLE over LIST and MLIST
  headers. The stores know a record of another type (`"other"`) only as
  something they find.
- **Proxy**: the choice of the storage server by key and the reload of that
  table (LOAD), and the information commands; a request to one server is the
  general case of what is checked here.
- **zredis**: the synchronous client, the waits by sequence number (`m_waits`),
  authorisation.
- **Network**: outgoing connections, UDP, re-binding a connection to another
  thread.
- **LevelDB**: snapshots, manual compaction, sync and repair, which the server
  does not use; compression, checksums, footer and filters; the hash chains of
  the cache; loss of unsynced writes at a power failure; weak memory ordering.
- **libevent**, JSON, XML, UUID and string helpers, configuration, wording and
  layout of replies: third-party code or pure conversions.

Most of the repository's lines belong to the last group, to the vendored
libevent, and to the tests, ports, benchmarks and tools of LevelDB. The models
stand for about one line in eleven of all the code, and for most of the code of
the storage server that changes state.
