--------------------------- MODULE LevelVersions ---------------------------
(***************************************************************************)
(* The versions of the LevelDB database behind every record of the storage *)
(* server: which table files stand at which level, how a key is looked up  *)
(* in them, where a flushed memtable goes, which files a compaction takes  *)
(* and what it keeps of them.  Everything here is a pure function of a     *)
(* version; LevelStore runs it.                                            *)
(*                                                                         *)
(* A table file carries its number and its entries.  Sizes are counted in  *)
(* entries.  compact_pointer_, which makes compactions of a level take     *)
(* turns over the key space, is abstracted: any file of the level may be   *)
(* next.                                                                   *)
(***************************************************************************)
EXTENDS Integers, FiniteSets, FiniteSetsExt

CONSTANTS
    Key,                            \* user keys, numbered in comparator order
    kNumLevels,
    kL0_CompactionTrigger,
    kMaxMemCompactLevel,
    kMaxGrandParentOverlapBytes,    \* 10 target files in the code
    kExpandedCompactionByteSizeLimit, \* 25 target files in the code
    Level1Bytes                     \* MaxBytesForLevel(1), 10 MB in the code

ASSUME VersionsAssumption ==
    /\ Key \subseteq Nat
    /\ kNumLevels \in Nat /\ kMaxMemCompactLevel \in 0..(kNumLevels - 1)
    /\ {kL0_CompactionTrigger, Level1Bytes} \subseteq Nat \ {0}

Levels == 0..(kNumLevels - 1)

(* A value that no Put stores: the entry is a kTypeDeletion. *)
Deleted == 0

NoEntry == [key |-> 0, seq |-> 0, val |-> Deleted]

EmptyVersion == [level \in Levels |-> {}]

smallest(f) == Min({e.key : e \in f.ents})

largest(f) == Max({e.key : e \in f.ents})

TotalFileSize(files) == MapThenSumSet(LAMBDA f : Cardinality(f.ents), files)

MaxBytesForLevel(level) == Level1Bytes * 10 ^ (level - 1)

Overlaps(f, begin, end) == largest(f) >= begin /\ smallest(f) <= end

FilesOf(ver) == UNION {ver[level] : level \in Levels}

-----------------------------------------------------------------------------
(* Reading. *)

(* The newest entry of the key that the snapshot sees. *)
NewestIn(ents, key, snapshot) ==
    LET seen == {e \in ents : e.key = key /\ e.seq <= snapshot}
    IN  IF seen = {} THEN NoEntry ELSE CHOOSE e \in seen : \A d \in seen : d.seq <= e.seq

(* FindFile: the first file of a sorted level that does not end before key. *)
FindFile(files, key) ==
    LET reach == {f \in files : largest(f) >= key}
        first == {f \in reach : \A g \in reach :
                    largest(f) < largest(g) \/ (largest(f) = largest(g) /\ f.num <= g.num)}
    IN  {f \in first : smallest(f) <= key}

(* The files Version::Get consults: every file of level 0 whose range holds *)
(* the key, and at most one of each other level.                           *)
Candidates(ver, key) ==
    {<<0, f>> : f \in {g \in ver[0] : Overlaps(g, key, key)}}
    \cup UNION {{<<level, f>> : f \in FindFile(ver[level], key)} : level \in Levels \ {0}}

(* The order it consults them in: the newest of level 0 first, then deeper. *)
Before(c, d) ==
    \/ c[1] < d[1]
    \/ c[1] = 0 /\ d[1] = 0 /\ c[2].num > d[2].num

(* Version::Get: the first consulted file that has the key answers. *)
VersionGet(ver, key, snapshot) ==
    LET hit == {c \in Candidates(ver, key) : NewestIn(c[2].ents, key, snapshot) # NoEntry}
        first == {c \in hit : \A d \in hit : d = c \/ Before(c, d)}
    IN  IF first = {} THEN NoEntry
        ELSE NewestIn((CHOOSE c \in first : TRUE)[2].ents, key, snapshot)

(* The file a read charges with a seek (GetStats): the first one consulted, *)
(* when it did not answer by itself.                                       *)
ChargedFiles(ver, key, snapshot) ==
    LET c == Candidates(ver, key)
    IN  {f \in c : /\ \A d \in c : d = f \/ Before(f, d)
                   /\ Cardinality(c) > 1
                   /\ NewestIn(f[2].ents, key, snapshot) = NoEntry}

-----------------------------------------------------------------------------
(* Editing. *)

(* VersionSet::Builder: the files of an edit taken out and put in. *)
ApplyEdit(ver, edit) ==
    [level \in Levels |->
        {f \in ver[level] : <<level, f.num>> \notin edit.deleted}
        \cup {a[2] : a \in {b \in edit.added : b[1] = level}}]

(* Version::OverlapInLevel *)
OverlapInLevel(ver, level, begin, end) == \E f \in ver[level] : Overlaps(f, begin, end)

(* Version::GetOverlappingInputs: at level 0, where files overlap each      *)
(* other, the range first grows to the least one that cuts no file.        *)
GetOverlappingInputs(ver, level, begin, end) ==
    LET touching(l, h) == {f \in ver[level] : Overlaps(f, l, h)}
        closed == {r \in Key \X Key :
                     /\ r[1] <= begin /\ end <= r[2]
                     /\ \A f \in touching(r[1], r[2]) : r[1] <= smallest(f) /\ largest(f) <= r[2]}
    IN  IF level > 0 THEN touching(begin, end)
        ELSE touching(Max({r[1] : r \in closed}), Min({r[2] : r \in closed}))

(* A level the memtable of this range can be pushed past. *)
CanPass(ver, level, begin, end) ==
    /\ ~OverlapInLevel(ver, level + 1, begin, end)
    /\ level + 2 < kNumLevels =>
         TotalFileSize(GetOverlappingInputs(ver, level + 2, begin, end))
           <= kMaxGrandParentOverlapBytes

(* Faulty variant: the levels passed on the way down are not looked at. *)
PickLevelForMemTableOutput_Unchecked(ver, begin, end) == kMaxMemCompactLevel

(* Version::PickLevelForMemTableOutput *)
PickLevelForMemTableOutput(ver, begin, end) ==
    IF OverlapInLevel(ver, 0, begin, end) THEN 0
    ELSE Max({level \in 0..kMaxMemCompactLevel :
                \A l \in 0..(level - 1) : CanPass(ver, l, begin, end)})

-----------------------------------------------------------------------------
(* Choosing and merging a compaction. *)

(* VersionSet::Finalize: how full a level is, as a fraction. *)
Score(ver, level) ==
    IF level = 0 THEN [size |-> Cardinality(ver[0]), limit |-> kL0_CompactionTrigger]
    ELSE [size |-> TotalFileSize(ver[level]), limit |-> MaxBytesForLevel(level)]

Fuller(s, t) == s.size * t.limit > t.size * s.limit

(* The fullest level, the upper one of two that are as full. *)
compaction_level(ver) ==
    CHOOSE level \in 0..(kNumLevels - 2) :
        \A l \in 0..(kNumLevels - 2) :
            l # level => \/ Fuller(Score(ver, level), Score(ver, l))
                         \/ ~Fuller(Score(ver, l), Score(ver, level)) /\ level < l

size_compaction(ver) ==
    LET s == Score(ver, compaction_level(ver)) IN s.size >= s.limit

(* GetRange *)
RangeOf(files) == <<Min({smallest(f) : f \in files}), Max({largest(f) : f \in files})>>

Over(ver, level, files) ==
    LET r == RangeOf(files) IN GetOverlappingInputs(ver, level, r[1], r[2])

(* VersionSet::SetupOtherInputs: the files of the next level, and more of  *)
(* this one when that brings in no further file of the next.               *)
SetupOtherInputs(ver, level, base) ==
    LET next == Over(ver, level + 1, base)
        expanded == Over(ver, level, base \cup next)
        grow == /\ next # {}
                /\ Cardinality(expanded) > Cardinality(base)
                /\ TotalFileSize(next) + TotalFileSize(expanded)
                     < kExpandedCompactionByteSizeLimit
                /\ Cardinality(Over(ver, level + 1, expanded)) = Cardinality(next)
    IN  [level |-> level, in0 |-> IF grow THEN expanded ELSE base,
         in1 |-> IF grow THEN Over(ver, level + 1, expanded) ELSE next]

InputsFrom(ver, level, f) ==
    SetupOtherInputs(ver, level, IF level = 0 THEN Over(ver, 0, {f}) ELSE {f})

(* VersionSet::PickCompaction: a level that is too full goes before the    *)
(* file seek names.                                                        *)
PickCompaction(ver, seek) ==
    IF size_compaction(ver)
    THEN {InputsFrom(ver, compaction_level(ver), f) : f \in ver[compaction_level(ver)]}
    ELSE {InputsFrom(ver, s[1], s[2]) : s \in seek}

(* Compaction::IsTrivialMove *)
IsTrivialMove(ver, c) ==
    /\ Cardinality(c.in0) = 1 /\ c.in1 = {}
    /\ c.level + 2 < kNumLevels =>
         TotalFileSize(Over(ver, c.level + 2, c.in0)) <= kMaxGrandParentOverlapBytes

(* Faulty variant: the levels below the output are not looked at. *)
IsBaseLevelForKey_Always(ver, level, key) == TRUE

(* Compaction::IsBaseLevelForKey: no file below the output can hold key. *)
IsBaseLevelForKey(ver, level, key) ==
    \A l \in (level + 2)..(kNumLevels - 1) : \A f \in ver[l] : ~Overlaps(f, key, key)

(* DBImpl::DoCompactionWork: of each key the newest entry, and no deletion *)
(* marker that has nothing left to hide.  The server takes no snapshots,   *)
(* so smallest_snapshot is the last sequence and hides every older entry.  *)
Merged(ver, c, smallest_snapshot) ==
    LET ents == UNION {f.ents : f \in c.in0 \cup c.in1}
        hidden(e) == \E d \in ents : /\ d.key = e.key /\ d.seq > e.seq
                                     /\ d.seq <= smallest_snapshot
        spent(e) == /\ e.val = Deleted /\ e.seq <= smallest_snapshot
                    /\ IsBaseLevelForKey(ver, c.level, e.key)
    IN  {e \in ents : ~hidden(e) /\ ~spent(e)}
=============================================================================
