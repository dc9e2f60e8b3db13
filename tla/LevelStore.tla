----------------------------- MODULE LevelStore -----------------------------
(***************************************************************************)
(* The LevelDB database of the storage server (DBImpl and VersionSet): the *)
(* writer queue with its group commit, the memtables and their log files,  *)
(* the background thread that flushes and compacts, the manifest, readers  *)
(* that hold on to what they started with, crashes of the process and      *)
(* recovery.  A step is what one thread does between taking and releasing  *)
(* mutex_, or one piece of I/O done while mutex_ is released.              *)
(*                                                                         *)
(* Abstracted: a log or manifest file is the set of records its reader     *)
(* returns (a torn tail is dropped whole, see LogFormat), so a manifest is *)
(* the state its edits add up to; a memtable is named by the number of its *)
(* log.  The server never asks for snapshots, manual compaction or sync.   *)
(***************************************************************************)
EXTENDS LevelVersions, Sequences, SequencesExt

CONSTANTS
    Writers,            \* threads that call Write
    Readers,            \* threads that call Get
    Batches,            \* what they write: functions from keys to "put" or "del"
    Databases,          \* what the server may be started on: a version and log files
    None,
    WriteBuffer,        \* options_.write_buffer_size, in entries
    GroupBytes,         \* max_size of BuildBatchGroup, in entries
    MaxFileSize,        \* MaxFileSizeForLevel, in entries
    kL0_StopWritesTrigger,
    MaxWrites,          \* bound: calls of Write
    MaxCrashes,         \* bound: crashes
    MaxFaults,          \* bound: operations that fail
    Faults              \* which of "log", "table" and "manifest" writes may fail

ASSUME StoreAssumption ==
    /\ {WriteBuffer, GroupBytes, MaxFileSize, kL0_StopWritesTrigger} \subseteq Nat \ {0}
    /\ {MaxWrites, MaxCrashes, MaxFaults} \subseteq Nat
    /\ kL0_CompactionTrigger <= kL0_StopWritesTrigger
    /\ Faults \subseteq {"log", "table", "manifest"}

VARIABLES
    phase,      \* of the process: "down", "replayed", "manifest", "current" or "up"
    memtab,     \* memtables: log number -> entries
    mem,        \* mem_ and logfile_number_
    imm,        \* imm_, or 0
    lastSeq,    \* versions_->last_sequence_
    queue,      \* writers_
    op,         \* per writer: the effect of its batch (key -> value), or None
    commit,     \* what the writer at the front is doing with mutex_ released
    current,    \* versions_->current_
    seek,       \* current_->file_to_compact_ and its level: {} or one pair
    logNo,      \* versions_->log_number_
    nextFile,   \* versions_->next_file_number_
    manifestNo, \* versions_->manifest_file_number_
    pending,    \* pending_outputs_
    bg,         \* where the background thread is
    flush,      \* the memtable compaction it runs: number of its table, or 0
    job,        \* the compaction it runs, or None
    edit,       \* the VersionEdit handed to LogAndApply, or None
    bgError,    \* bg_error_ is set
    view,       \* per reader: the memtables and version it holds, or None
    logs,       \* log files: number -> entries
    tables,     \* table files
    manifests,  \* descriptor files: number -> the state they describe
    CURRENT,    \* the descriptor file CURRENT names
    limbo,      \* history: effects of writes that failed after reaching the log
    writes,     \* calls of Write so far; also the value the next one stores
    store,      \* history: the values the database stands for
    crashes,    \* crashes so far
    faults      \* failed operations so far

writing == <<queue, op, commit, writes, limbo, store>>
memory == <<memtab, mem, imm, lastSeq>>
versions == <<current, seek, logNo, manifestNo>>
background == <<bg, flush, job, edit, bgError, pending>>
bounds == <<crashes, faults>>
disk == <<logs, tables, manifests, CURRENT>>
vars == <<phase, memory, writing, versions, nextFile, background, view, disk, bounds>>

-----------------------------------------------------------------------------
(* What a reader finds. *)

(* DBImpl::Get: the memtable, then the one being flushed, then the files. *)
Get(m, i, ver, key, snapshot) ==
    LET inMem == NewestIn(memtab[m], key, snapshot)
        inImm == IF i = 0 THEN NoEntry ELSE NewestIn(memtab[i], key, snapshot)
    IN  IF inMem # NoEntry THEN inMem.val
        ELSE IF inImm # NoEntry THEN inImm.val
        ELSE VersionGet(ver, key, snapshot).val

Visible == [key \in Key |-> Get(mem, imm, current, key, lastSeq)]

(* What a recovery will find: the files and logs the manifest points to. *)
Recoverable(files) ==
    LET m == manifests[CURRENT]
        ents == UNION {f.ents : f \in FilesOf(m.ver)}
                \cup UNION {files[n] : n \in {l \in DOMAIN files : l >= m.log}}
    IN  [key \in Key |-> NewestIn(ents, key, Max({0} \cup {e.seq : e \in ents})).val]

-----------------------------------------------------------------------------
(* Scheduling and garbage. *)

NeedsCompaction(ver, s) == size_compaction(ver) \/ s # {}

(* Faulty variant: only a memtable to flush counts as work. *)
MaybeScheduleCompaction_ImmOnly(state, i, ver, s, err) ==
    IF state = "idle" /\ ~err /\ i # 0 THEN "sched" ELSE state

(* DBImpl::MaybeScheduleCompaction: the next state of the background thread. *)
MaybeScheduleCompaction(state, i, ver, s, err) ==
    IF state = "idle" /\ ~err /\ (i # 0 \/ NeedsCompaction(ver, s)) THEN "sched" ELSE state

HeldVersions == {view[r].ver : r \in {q \in Readers : view[q] # None}}

Numbers(files) == {f.num : f \in files}

(* Faulty variant: the versions readers hold are forgotten. *)
LiveFiles_CurrentOnly(ver, j, held) == Numbers(FilesOf(ver))

(* VersionSet::AddLiveFiles: the files of every version still referenced. *)
LiveFiles(ver, j, held) ==
    Numbers(FilesOf(ver) \cup UNION {FilesOf(v) : v \in held}
            \cup (IF j = None THEN {} ELSE FilesOf(j.ver)))

Keep(f, S) == [n \in DOMAIN f \cap S |-> f[n]]

(* Faulty variant: files are collected after a failed manifest write too. *)
DeleteObsoleteFiles_Always(err, ver, j, pend, log, descriptor) ==
    /\ tables' = {f \in tables : f.num \in pend \cup LiveFiles(ver, j, HeldVersions)}
    /\ logs' = Keep(logs, {n \in DOMAIN logs : n >= log})
    /\ manifests' = Keep(manifests, {n \in DOMAIN manifests : n >= descriptor})

(* DBImpl::DeleteObsoleteFiles *)
DeleteObsoleteFiles(err, ver, j, pend, log, descriptor) ==
    IF err THEN UNCHANGED <<tables, logs, manifests>>
    ELSE /\ tables' = {f \in tables : f.num \in pend \cup LiveFiles(ver, j, HeldVersions)}
         /\ logs' = Keep(logs, {n \in DOMAIN logs : n >= log})
         /\ manifests' = Keep(manifests, {n \in DOMAIN manifests : n >= descriptor})

-----------------------------------------------------------------------------
(* Writing. *)

(* DBImpl::Write: a writer joins the queue. *)
Write(w, batch) ==
    /\ phase = "up"
    /\ op[w] = None
    /\ writes < MaxWrites
    /\ writes' = writes + 1
    /\ op' = [op EXCEPT ![w] = [k \in DOMAIN batch |->
                                  IF batch[k] = "put" THEN writes + 1 ELSE Deleted]]
    /\ queue' = Append(queue, w)
    /\ UNCHANGED <<phase, memory, commit, limbo, store, versions, nextFile, background, view,
                   disk, bounds>>

AtFront == phase = "up" /\ queue # <<>> /\ commit = None

HasRoom == Cardinality(memtab[mem]) < WriteBuffer

(* MakeRoomForWrite: the memtable is full and the previous one is flushed. *)
MustSwitch ==
    /\ ~bgError /\ ~HasRoom
    /\ imm = 0
    /\ Cardinality(current[0]) < kL0_StopWritesTrigger

(* MakeRoomForWrite: a new log file and an empty memtable. *)
SwitchMemTable ==
    /\ AtFront /\ MustSwitch
    /\ logs' = [n \in DOMAIN logs \cup {nextFile} |-> IF n = nextFile THEN {} ELSE logs[n]]
    /\ memtab' = [n \in DOMAIN memtab \cup {nextFile} |->
                    IF n = nextFile THEN {} ELSE memtab[n]]
    /\ imm' = mem
    /\ mem' = nextFile
    /\ nextFile' = nextFile + 1
    /\ bg' = MaybeScheduleCompaction(bg, mem, current, seek, bgError)
    /\ UNCHANGED <<phase, lastSeq, writing, versions, flush, job, edit, bgError, pending,
                   view, tables, manifests, CURRENT, bounds>>

CanFail(what) ==
    /\ what \in Faults /\ faults < MaxFaults
    /\ faults' = faults + 1
    /\ UNCHANGED crashes

(* The writer at the front leaves alone, with an error: bg_error_ is set,  *)
(* or the new log file cannot be created (its number is given back).       *)
RefuseWrite ==
    /\ AtFront
    /\ \/ bgError /\ UNCHANGED bounds
       \/ MustSwitch /\ CanFail("log")
    /\ op' = [op EXCEPT ![Head(queue)] = None]
    /\ queue' = Tail(queue)
    /\ UNCHANGED <<phase, memory, commit, writes, limbo, store, versions, nextFile, background,
                   view, disk>>

GroupSize(n) == MapThenSumSet(LAMBDA i : Cardinality(DOMAIN op[queue[i]]), 1..n)

(* BuildBatchGroup: how many writers at the front are taken along. *)
GroupLength == Max({1} \cup {n \in 1..Len(queue) : GroupSize(n) <= GroupBytes})

(* The entries of the group: consecutive sequence numbers after last_sequence. *)
GroupEntries(n) ==
    UNION {{[key |-> k,
             seq |-> lastSeq + GroupSize(i - 1)
                       + Cardinality({j \in DOMAIN op[queue[i]] : j <= k}),
             val |-> op[queue[i]][k]] : k \in DOMAIN op[queue[i]]} : i \in 1..n}

(* Write, with room made: the group is formed and mutex_ is released. *)
BuildBatchGroup ==
    /\ AtFront
    /\ ~bgError /\ HasRoom
    /\ commit' = [at |-> "append", count |-> GroupLength, ents |-> GroupEntries(GroupLength)]
    /\ UNCHANGED <<phase, memory, queue, op, writes, limbo, store, versions, nextFile, background,
                   view, disk, bounds>>

AppendToLog == logs' = [logs EXCEPT ![mem] = @ \cup commit.ents]

(* Faulty variant: the group goes to the memtable without the log. *)
AddRecord_Skipped ==
    /\ commit # None /\ commit.at = "append"
    /\ commit' = [commit EXCEPT !.at = "insert"]
    /\ UNCHANGED <<phase, memory, queue, op, writes, limbo, store, versions, nextFile, background,
                   view, disk, bounds>>

(* log_->AddRecord: the whole group is one record of the log. *)
AddRecord ==
    /\ commit # None /\ commit.at = "append"
    /\ AppendToLog
    /\ commit' = [commit EXCEPT !.at = "insert"]
    /\ UNCHANGED <<phase, memory, queue, op, writes, limbo, store, versions, nextFile, background,
                   view, tables, manifests, CURRENT, bounds>>

(* AddRecord returns an error; what reached the file may be all of it. *)
AddRecordFails ==
    /\ commit # None /\ commit.at = "append"
    /\ CanFail("log")
    /\ \/ AppendToLog /\ limbo' = limbo \cup {<<e.key, e.val>> : e \in commit.ents}
       \/ UNCHANGED <<logs, limbo>>
    /\ commit' = [commit EXCEPT !.at = "failed"]
    /\ UNCHANGED <<phase, memory, queue, op, writes, store, versions, nextFile, background, view,
                   tables, manifests, CURRENT>>

(* WriteBatchInternal::InsertInto *)
InsertInto ==
    /\ commit # None /\ commit.at = "insert"
    /\ memtab' = [memtab EXCEPT ![mem] = @ \cup commit.ents]
    /\ commit' = [commit EXCEPT !.at = "publish"]
    /\ UNCHANGED <<phase, mem, imm, lastSeq, queue, op, writes, limbo, store, versions, nextFile,
                   background, view, disk, bounds>>

(* mutex_ is taken again: the sequence numbers are used up, whatever the   *)
(* status, and every writer of the group returns with it.                  *)
Publish ==
    /\ commit # None /\ commit.at \in {"publish", "failed"}
    /\ lastSeq' = Max({e.seq : e \in commit.ents})
    /\ limbo' = IF commit.at = "failed" THEN limbo
                ELSE {p \in limbo : \A e \in commit.ents : e.key # p[1]}
    /\ op' = [w \in Writers |-> IF \E i \in 1..commit.count : queue[i] = w THEN None ELSE op[w]]
    /\ store' = IF commit.at = "failed" THEN store
                ELSE [k \in Key |-> IF \E e \in commit.ents : e.key = k
                                   THEN NewestIn(commit.ents, k, lastSeq').val ELSE store[k]]
    /\ queue' = SubSeq(queue, commit.count + 1, Len(queue))
    /\ commit' = None
    /\ UNCHANGED <<phase, memtab, mem, imm, writes, versions, nextFile, background, view,
                   disk, bounds>>
-----------------------------------------------------------------------------
(* Reading. *)

(* Memtables nobody references are freed (MemTable::Unref). *)
FreeMemTables(i, views) ==
    LET held == UNION {{views[r].mem, views[r].imm} : r \in {q \in Readers : views[q] # None}}
    IN  memtab' = Keep(memtab, {mem, i} \cup held)

(* DBImpl::Get up to the release of mutex_: snapshot and references taken. *)
(* The values the reader is to find are kept as history.                   *)
StartGet(r) ==
    /\ phase = "up" /\ view[r] = None
    /\ view' = [view EXCEPT ![r] = [seq |-> lastSeq, mem |-> mem, imm |-> imm,
                                   ver |-> current, sees |-> Visible]]
    /\ UNCHANGED <<phase, memory, writing, versions, nextFile, background, disk, bounds>>

(* The rest of DBImpl::Get: UpdateStats may find that a file has used up   *)
(* its seeks (allowed_seeks is abstracted), and the references are dropped. *)
FinishGet(r) ==
    /\ view[r] # None
    /\ \/ UNCHANGED <<seek, bg>>
       \/ /\ view[r].ver = current /\ seek = {}
          /\ \E key \in Key :
               \E c \in ChargedFiles(current, key, view[r].seq) :
                 /\ \A n \in {view[r].mem, view[r].imm} \ {0} :
                       NewestIn(memtab[n], key, view[r].seq) = NoEntry
                 /\ seek' = {c}
                 /\ bg' = MaybeScheduleCompaction(bg, imm, current, {c}, bgError)
    /\ view' = [view EXCEPT ![r] = None]
    /\ FreeMemTables(imm, view')
    /\ UNCHANGED <<phase, mem, imm, lastSeq, writing, current, logNo, manifestNo, nextFile,
                   flush, job, edit, bgError, pending, disk, bounds>>

-----------------------------------------------------------------------------
(* The background thread. *)

(* BackgroundCall, at its end: compact again if there is more to do.  It   *)
(* never starts in vain: only this thread sets bg_error_ (Write does so    *)
(* after a failed sync, which the server never asks for) or ends work.     *)
EndOfCall(i, ver, s, err) == bg' = MaybeScheduleCompaction("idle", i, ver, s, err)

(* CompactMemTable and WriteLevel0Table up to the release of mutex_; also  *)
(* from the loop of DoCompactionWork, which looks at has_imm_ first.       *)
StartFlush ==
    /\ bg = "work" \/ (bg = "sched" /\ ~bgError)
    /\ imm # 0
    /\ flush' = nextFile
    /\ pending' = pending \cup {nextFile}
    /\ nextFile' = nextFile + 1
    /\ bg' = "build"
    /\ UNCHANGED <<phase, memory, writing, versions, job, edit, bgError, view, disk, bounds>>

(* LogAndApply up to the release of mutex_. *)
HandToManifest(added, deleted, log, what) ==
    /\ edit' = [added |-> added, deleted |-> deleted, log |-> log, next |-> nextFile,
                last |-> lastSeq, what |-> what]
    /\ bg' = "log"

TableOnDisk(f) == tables' = {g \in tables : g.num # f.num} \cup {f}

(* WriteLevel0Table: the table is built with mutex_ released, then its     *)
(* level is chosen in the version current at the start and the edit is     *)
(* handed over.  Nothing changes the version in between.                   *)
BuildTable ==
    /\ bg = "build"
    /\ LET f == [num |-> flush, ents |-> memtab[imm]]
       IN  /\ TableOnDisk(f)
           /\ HandToManifest({<<PickLevelForMemTableOutput(current, smallest(f), largest(f)), f>>},
                             {}, mem, "flush")
    /\ pending' = pending \ {flush}
    /\ UNCHANGED <<phase, memory, writing, versions, nextFile, flush, job, bgError, view,
                   logs, manifests, CURRENT, bounds>>

(* The thread leaves a memtable compaction: back to the compaction it      *)
(* interrupted, which goes on even after an error, or to the end.          *)
LeaveFlush(i, ver, s, err) ==
    IF job = None THEN EndOfCall(i, ver, s, err) ELSE bg' = "work"

(* BuildTable fails; the file is removed. *)
BuildTableFails ==
    /\ bg = "build" /\ CanFail("table")
    /\ bgError' = TRUE
    /\ pending' = pending \ {flush}
    /\ flush' = 0
    /\ LeaveFlush(imm, current, seek, TRUE)
    /\ UNCHANGED <<phase, memory, writing, versions, nextFile, job, edit, view, disk>>

(* VersionSet::Recover reads back what the edits of a manifest add up to. *)
Described(ver, e) == [ver |-> ApplyEdit(ver, e), log |-> e.log, next |-> e.next, last |-> e.last]

AppendToManifest ==
    manifests' = [manifests EXCEPT ![manifestNo] = Described(manifests[manifestNo].ver, edit)]

(* LogAndApply with mutex_ released: the edit becomes a manifest record. *)
WriteManifest ==
    /\ bg = "log"
    /\ AppendToManifest
    /\ bg' = "install"
    /\ UNCHANGED <<phase, memory, writing, versions, nextFile, flush, job, edit, bgError,
                   pending, view, logs, tables, CURRENT, bounds>>

(* The record cannot be written or synced; it may be in the file all the   *)
(* same.  The version is not installed and bg_error_ stops all later work. *)
WriteManifestFails ==
    /\ bg = "log" /\ CanFail("manifest")
    /\ AppendToManifest \/ UNCHANGED manifests
    /\ bgError' = TRUE
    /\ edit' = None
    /\ IF edit.what = "flush"
       THEN flush' = 0 /\ LeaveFlush(imm, current, seek, TRUE) /\ UNCHANGED <<job, pending>>
       ELSE /\ EndOfCall(imm, current, seek, TRUE)
            /\ pending' = pending \ Numbers({a[2] : a \in edit.added})
            /\ job' = None
            /\ UNCHANGED flush
    /\ UNCHANGED <<phase, memory, writing, versions, nextFile, view, logs, tables, CURRENT>>

Install ==
    /\ current' = ApplyEdit(current, edit)
    /\ seek' = {}
    /\ logNo' = edit.log
    /\ edit' = None

(* CompactMemTable after LogAndApply: imm_ is dropped and files collected. *)
InstallFlush ==
    /\ bg = "install" /\ edit.what = "flush"
    /\ Install
    /\ imm' = 0
    /\ flush' = 0
    /\ FreeMemTables(0, view)
    /\ DeleteObsoleteFiles(bgError, current', job, pending, logNo', manifestNo)
    /\ LeaveFlush(0, current', {}, bgError)
    /\ UNCHANGED <<phase, mem, lastSeq, writing, manifestNo, nextFile, job, bgError, pending,
                   view, CURRENT, bounds>>

(* BackgroundCompaction: the files are picked; a single file that meets    *)
(* none on the next level is only moved.                                   *)
StartCompaction ==
    /\ bg = "sched" /\ ~bgError
    /\ imm = 0
    /\ \E c \in PickCompaction(current, seek) :
         IF IsTrivialMove(current, c)
         THEN /\ HandToManifest({<<c.level + 1, f>> : f \in c.in0},
                                {<<c.level, f.num>> : f \in c.in0}, logNo, "move")
              /\ job' = [c |-> c, ver |-> current, rest |-> {}, outs |-> {}]
         ELSE /\ job' = [c |-> c, ver |-> current, rest |-> Merged(current, c, lastSeq),
                         outs |-> {}]
              /\ bg' = "work"
              /\ UNCHANGED edit
    /\ UNCHANGED <<phase, memory, writing, versions, nextFile, flush, bgError, pending, view,
                   disk, bounds>>

(* The next output file takes entries up to some key: as many as a file    *)
(* holds, or fewer where ShouldStopBefore cuts it.                         *)
OutputCuts ==
    {k \in Key : LET out == {e \in job.rest : e.key <= k}
                 IN  out # {} /\ Cardinality(out) <= MaxFileSize /\ \E e \in out : e.key = k}

(* DoCompactionWork: one output file is opened, filled and finished. *)
WriteOutput ==
    /\ bg = "work"
    /\ \E k \in OutputCuts :
         LET f == [num |-> nextFile, ents |-> {e \in job.rest : e.key <= k}]
         IN  /\ TableOnDisk(f)
             /\ job' = [job EXCEPT !.rest = @ \ f.ents, !.outs = @ \cup {f}]
    /\ pending' = pending \cup {nextFile}
    /\ nextFile' = nextFile + 1
    /\ UNCHANGED <<phase, memory, writing, versions, bg, flush, edit, bgError, view, logs,
                   manifests, CURRENT, bounds>>

(* An output file cannot be written: CleanupCompaction, nothing installed. *)
WriteOutputFails ==
    /\ bg = "work" /\ job.rest # {}
    /\ CanFail("table")
    /\ bgError' = TRUE
    /\ pending' = pending \ Numbers(job.outs)
    /\ job' = None
    /\ EndOfCall(imm, current, seek, TRUE)
    /\ UNCHANGED <<phase, memory, writing, versions, nextFile, flush, edit, view, disk>>

(* InstallCompactionResults: inputs out, outputs in. *)
InstallCompactionResults ==
    /\ bg = "work"
    /\ job.rest = {}
    /\ HandToManifest({<<job.c.level + 1, f>> : f \in job.outs},
                      {<<job.c.level, f.num>> : f \in job.c.in0}
                      \cup {<<job.c.level + 1, f.num>> : f \in job.c.in1}, logNo, "compact")
    /\ UNCHANGED <<phase, memory, writing, versions, nextFile, flush, job, bgError, pending,
                   view, disk, bounds>>

(* The end of a compaction: installed, cleaned up, inputs released, files  *)
(* collected (a move collects nothing).                                    *)
InstallCompaction ==
    /\ bg = "install" /\ edit.what # "flush"
    /\ Install
    /\ pending' = pending \ Numbers(job.outs)
    /\ job' = None
    /\ IF edit.what = "move" THEN UNCHANGED <<logs, tables, manifests>>
       ELSE DeleteObsoleteFiles(bgError, current', None, pending', logNo', manifestNo)
    /\ EndOfCall(imm, current', {}, bgError)
    /\ UNCHANGED <<phase, memory, writing, manifestNo, nextFile, flush, bgError, view,
                   CURRENT, bounds>>
-----------------------------------------------------------------------------
(* Crash and recovery. *)

ForgetMemory ==
    /\ memtab' = [n \in {} |-> {}]
    /\ mem' = 0 /\ imm' = 0
    /\ queue' = <<>>
    /\ op' = [w \in Writers |-> None]
    /\ commit' = None
    /\ limbo' = {}
    /\ lastSeq' = 0
    /\ current' = EmptyVersion
    /\ seek' = {}
    /\ logNo' = 0 /\ manifestNo' = 0 /\ nextFile' = 0
    /\ pending' = {}
    /\ bg' = "idle"
    /\ flush' = 0
    /\ job' = None /\ edit' = None
    /\ bgError' = FALSE
    /\ view' = [r \in Readers |-> None]

(* The process dies.  What reached a file stays; a record being appended   *)
(* is there completely or, to a reader of the log, not at all.             *)
Crash ==
    /\ phase # "down"
    /\ crashes < MaxCrashes
    /\ crashes' = crashes + 1
    /\ phase' = "down"
    /\ \/ UNCHANGED logs
       \/ commit # None /\ commit.at = "append" /\ AppendToLog
    /\ store' = Recoverable(logs')
    /\ ForgetMemory
    /\ UNCHANGED <<tables, manifests, CURRENT, writes, faults>>

(* DBImpl::RecoverLogFile for one log, folded over the logs in order: a    *)
(* table for what it holds, then the log's own number counts as used.      *)
RecoverLogFile(acc, log) ==
    LET table == IF logs[log] = {} THEN {} ELSE {[num |-> acc.next, ents |-> logs[log]]}
    IN  [files |-> acc.files \cup table,
         next |-> Max({acc.next + Cardinality(table), log + 1})]

(* DBImpl::Recover and DB::Open up to LogAndApply: the manifest is read    *)
(* back, the logs it does not cover become tables of level 0, and a new    *)
(* log file is created.                                                    *)
Recover ==
    /\ phase = "down"
    /\ LET m == manifests[CURRENT]
           newer == SetToSortSeq({n \in DOMAIN logs : n >= m.log}, LAMBDA x, y : x < y)
           r == FoldLeft(RecoverLogFile, [files |-> {}, next |-> m.next + 1], newer)
           replayed == UNION {logs[n] : n \in {l \in DOMAIN logs : l >= m.log}}
       IN  /\ current' = m.ver
           /\ logNo' = m.log
           /\ manifestNo' = m.next
           /\ lastSeq' = Max({m.last} \cup {e.seq : e \in replayed})
           /\ tables' = {f \in tables : f.num \notin Numbers(r.files)} \cup r.files
           /\ mem' = r.next
           /\ nextFile' = r.next + 1
           /\ logs' = [n \in DOMAIN logs \cup {r.next} |-> IF n = r.next THEN {} ELSE logs[n]]
           /\ memtab' = [n \in {r.next} |-> {}]
           /\ edit' = [added |-> {<<0, f>> : f \in r.files}, deleted |-> {}, log |-> r.next,
                       next |-> r.next + 1, last |-> lastSeq', what |-> "open"]
    /\ phase' = "replayed"
    /\ UNCHANGED <<imm, writing, seek, bg, flush, job, bgError, pending, view, manifests,
                   CURRENT, bounds>>

(* LogAndApply, first call: a new manifest with a snapshot and the edit. *)
NewManifest ==
    /\ phase = "replayed"
    /\ manifests' = [n \in DOMAIN manifests \cup {manifestNo} |->
                        IF n = manifestNo THEN Described(current, edit) ELSE manifests[n]]
    /\ phase' = "manifest"
    /\ UNCHANGED <<memory, writing, versions, nextFile, background, view, logs, tables,
                   CURRENT, bounds>>

(* SetCurrentFile: the rename makes the new manifest the one that counts. *)
SetCurrentFile ==
    /\ phase = "manifest"
    /\ CURRENT' = manifestNo
    /\ phase' = "current"
    /\ UNCHANGED <<memory, writing, versions, nextFile, background, view, logs, tables,
                   manifests, bounds>>

(* The end of DB::Open: installed, collected, a compaction scheduled. *)
Open ==
    /\ phase = "current"
    /\ Install
    /\ DeleteObsoleteFiles(bgError, current', None, pending, logNo', manifestNo)
    /\ bg' = MaybeScheduleCompaction("idle", imm, current', {}, bgError)
    /\ phase' = "up"
    /\ UNCHANGED <<memory, writing, manifestNo, nextFile, flush, job, bgError, pending, view,
                   CURRENT, bounds>>

-----------------------------------------------------------------------------
(* The state an earlier run left: CURRENT names a manifest, its tables     *)
(* exist, and so may a log that was created after the last manifest record *)
(* and is to be replayed.  NewDB leaves the empty version and no log.      *)
Init ==
    /\ phase = "down"
    /\ memtab = [n \in {} |-> {}]
    /\ mem = 0 /\ imm = 0
    /\ queue = <<>>
    /\ op = [w \in Writers |-> None]
    /\ commit = None
    /\ limbo = {}
    /\ lastSeq = 0
    /\ current = EmptyVersion
    /\ seek = {}
    /\ logNo = 0 /\ manifestNo = 0 /\ nextFile = 0
    /\ pending = {}
    /\ bg = "idle"
    /\ flush = 0
    /\ job = None /\ edit = None
    /\ bgError = FALSE
    /\ view = [r \in Readers |-> None]
    /\ \E db \in Databases :
         LET files == FilesOf(db.ver)
             number == Max({1} \cup Numbers(files)) + 1
             last == Max({0} \cup UNION {{e.seq : e \in f.ents} : f \in files})
         IN  /\ tables = files
             /\ CURRENT = number
             /\ manifests = [n \in {number} |->
                               [ver |-> db.ver, log |-> 0, next |-> number + 1, last |-> last]]
             /\ logs = db.logs
    /\ store = Recoverable(logs)
    /\ writes = 0
    /\ crashes = 0
    /\ faults = 0

WriterSteps ==
    \/ SwitchMemTable \/ RefuseWrite \/ BuildBatchGroup
    \/ AddRecord \/ AddRecordFails \/ InsertInto \/ Publish

BackgroundSteps ==
    \/ StartFlush \/ BuildTable \/ BuildTableFails
    \/ WriteManifest \/ WriteManifestFails \/ InstallFlush
    \/ StartCompaction \/ WriteOutput \/ WriteOutputFails
    \/ InstallCompactionResults \/ InstallCompaction

OpenSteps == Recover \/ NewManifest \/ SetCurrentFile \/ Open

Next ==
    \/ \E w \in Writers : \E b \in Batches : Write(w, b)
    \/ \E r \in Readers : StartGet(r) \/ FinishGet(r)
    \/ WriterSteps
    \/ BackgroundSteps
    \/ OpenSteps
    \/ Crash

Spec == Init /\ [][Next]_vars

-----------------------------------------------------------------------------
(* LevelStore as the atomic store of RecordStore. *)
Store == INSTANCE RecordStore WITH
    Clients <- Writers,
    kv <- store,
    flight <- op,
    limbo <- limbo,
    open <- phase = "up"

(* Every batch is applied at one moment and completely, writes that were    *)
(* acknowledged survive a crash of the process, and neither flushes nor    *)
(* compactions nor recovery change what a reader finds (DBImpl::Write,     *)
(* DBImpl::Recover, DoCompactionWork).                                     *)
ImplementsRecordStore == Store!Spec

(* A read in progress finds the values of its snapshot however the         *)
(* memtables and the files change under it (DBImpl::Get).                  *)
ReadersUndisturbed ==
    \A r \in Readers : view[r] # None =>
        /\ \A k \in Key : Get(view[r].mem, view[r].imm, view[r].ver, k, view[r].seq)
                            = view[r].sees[k]
        /\ FilesOf(view[r].ver) \subseteq tables

(* The files of the current version, of a running compaction and of the    *)
(* manifest a restart would read are on disk with their own contents: no   *)
(* collection deletes them and no new file takes their number              *)
(* (DeleteObsoleteFiles, NewFileNumber, MarkFileNumberUsed).               *)
FilesPresent ==
    /\ FilesOf(current) \subseteq tables
    /\ FilesOf(manifests[CURRENT].ver) \subseteq tables
    /\ job # None => job.outs \subseteq tables /\ FilesOf(job.ver) \subseteq tables

(* Below level 0 the files of a level never overlap (Builder::SaveTo says  *)
(* so and a debug build checks it).                                        *)
LevelsDisjoint ==
    \A level \in Levels \ {0} : \A f, g \in current[level] :
        f # g => ~Overlaps(f, smallest(g), largest(g))

(* Files of a level below 0 that overlap are copies of one flush, written  *)
(* again because its manifest record failed but stayed in the file: no     *)
(* other mixture of flushes, compactions and restarts makes files overlap. *)
OnlyCopiesOverlap ==
    \A level \in Levels \ {0} : \A f, g \in current[level] :
        f.ents # g.ents => ~Overlaps(f, smallest(g), largest(g))

(* What the database holds is what the finished writes stored: the lookup  *)
(* through memtables and levels while it runs, and what recovery would     *)
(* rebuild while it does not (DBImpl::Get, Version::Get, DBImpl::Recover). *)
HoldsWhatWasWritten == store = IF phase = "up" THEN Visible ELSE Recoverable(logs)

(* A writer that MakeRoomForWrite makes wait, for the flush of imm_ or for *)
(* fewer files at level 0, has a background thread at work for it.         *)
WaitersAreServed ==
    AtFront /\ ~bgError /\ ~HasRoom /\ ~MustSwitch => bg # "idle"
=============================================================================
