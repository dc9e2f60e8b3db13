------------------------------ MODULE LogFormat ------------------------------
(***************************************************************************)
(* The record format of LevelDB's log and manifest files: log::Writer cuts *)
(* a record into fragments that never cross a block boundary, log::Reader  *)
(* puts them together again after a crash.  A byte is named by the         *)
(* fragment it belongs to and its place in it, so that a checksum matches  *)
(* exactly when all bytes of one fragment stand in a row.                  *)
(***************************************************************************)
EXTENDS Integers, Sequences, SequencesExt, FiniteSets

CONSTANTS
    kBlockSize,
    kHeaderSize,
    Lengths,        \* lengths of the records that are written
    MaxRecords,     \* bound: calls of AddRecord
    MaxFaults       \* bound: appends that fail

VARIABLES
    file,           \* the bytes that reached the file
    block_offset,   \* block_offset_
    lens,           \* lengths of the records handed to AddRecord, in order
    left,           \* bytes of the last record still to be emitted, or Idle
    ends,           \* history: record -> length of the file when AddRecord returned OK
    faults

vars == <<file, block_offset, lens, left, ends, faults>>

Idle == -1

None == [rec |-> 0, from |-> 0, len |-> 0, type |-> "zero"]

Zeros(n) == [i \in 1..n |-> [frag |-> None, at |-> 0]]

BytesOf(f) == [i \in 1..(kHeaderSize + f.len) |-> [frag |-> f, at |-> i - 1]]

Lesser(a, b) == IF a < b THEN a ELSE b

-----------------------------------------------------------------------------
(* log::Writer *)

(* AddRecord is called. *)
StartRecord(n) ==
    /\ left = Idle /\ Len(lens) < MaxRecords
    /\ lens' = Append(lens, n)
    /\ left' = n
    /\ UNCHANGED <<file, block_offset, ends, faults>>

leftover == kBlockSize - block_offset

(* Faulty variant: a header may be split over two blocks. *)
MustSwitch_WhenFull == leftover = 0

(* No room for a header: the rest of the block is filled with zeros. *)
MustSwitch == leftover < kHeaderSize

(* The next fragment of the record: as much as the block takes. *)
NextFragment ==
    LET start == IF MustSwitch THEN 0 ELSE block_offset
        begin == left = Last(lens)
        n == Lesser(left, kBlockSize - start - kHeaderSize)
        end == left = n
    IN  [rec |-> Len(lens), from |-> Last(lens) - left, len |-> n,
         type |-> IF begin /\ end THEN "full" ELSE IF begin THEN "first"
                  ELSE IF end THEN "last" ELSE "middle"]

(* What one turn of the loop of AddRecord sends to the file. *)
Emitted == (IF MustSwitch THEN Zeros(leftover) ELSE <<>>) \o BytesOf(NextFragment)

(* The writer's own idea of the block, right or wrong. *)
MoveOffset ==
    block_offset' = (IF MustSwitch THEN 0 ELSE block_offset) + kHeaderSize + NextFragment.len

(* EmitPhysicalRecord; after the last fragment AddRecord returns OK. *)
EmitPhysicalRecord ==
    /\ left # Idle
    /\ file' = file \o Emitted
    /\ MoveOffset
    /\ LET rest == left - NextFragment.len
       IN  /\ left' = IF rest > 0 THEN rest ELSE Idle
           /\ ends' = IF rest > 0 THEN ends
                      ELSE [r \in DOMAIN ends \cup {Len(lens)} |->
                              IF r = Len(lens) THEN Len(file') ELSE ends[r]]
    /\ UNCHANGED <<lens, faults>>

(* An append or the flush fails with some of the bytes in the file: the    *)
(* offset moves on all the same, and the log stays in use.                 *)
EmitFails ==
    /\ left # Idle /\ faults < MaxFaults
    /\ \E k \in 0..Len(Emitted) : file' = file \o SubSeq(Emitted, 1, k)
    /\ MoveOffset
    /\ left' = Idle
    /\ faults' = faults + 1
    /\ UNCHANGED <<lens, ends>>

Init ==
    /\ file = <<>> /\ block_offset = 0
    /\ lens = <<>> /\ left = Idle
    /\ ends = <<>>
    /\ faults = 0

Next == (\E n \in Lengths : StartRecord(n)) \/ EmitPhysicalRecord \/ EmitFails

Spec == Init /\ [][Next]_vars

-----------------------------------------------------------------------------
(* log::Reader, on what a crash left of the file. *)

(* ReadPhysicalRecord at offset p of the image: the fragment there, or a   *)
(* bad record, with the rest of its block dropped.                         *)
ReadPhysicalRecord(image, p, end) ==
    LET f == image[p + 1].frag
        whole == /\ f # None
                 /\ p + kHeaderSize + f.len <= end
                 /\ SubSeq(image, p + 1, p + kHeaderSize + f.len) = BytesOf(f)
    IN  IF whole THEN [frag |-> f, next |-> p + kHeaderSize + f.len]
        ELSE [frag |-> None, next |-> end]

(* All fragments and bad records from the start to the end of the file; a  *)
(* block tail or file tail too short for a header is passed over.          *)
Fragments(image) ==
    LET frags[p \in 0..Len(image)] ==
            LET end == Lesser(Len(image), (p \div kBlockSize + 1) * kBlockSize)
                r == ReadPhysicalRecord(image, p, end)
            IN  IF p = Len(image) THEN <<>>
                ELSE IF end - p < kHeaderSize THEN frags[end]
                ELSE <<r.frag>> \o frags[r.next]
    IN  frags[0]

(* Faulty variant: a first fragment does not discard an unfinished record. *)
ReadFragment_Appends(acc, f) ==
    CASE f.type = "zero" -> [acc EXCEPT !.scratch = <<>>]
      [] f.type = "full" -> [out |-> Append(acc.out, <<f>>), scratch |-> <<>>]
      [] f.type = "first" -> [acc EXCEPT !.scratch = Append(@, f)]
      [] acc.scratch = <<>> -> acc
      [] f.type = "middle" -> [acc EXCEPT !.scratch = Append(@, f)]
      [] f.type = "last" -> [out |-> Append(acc.out, Append(acc.scratch, f)), scratch |-> <<>>]

(* ReadRecord: what one fragment does to the record being put together.    *)
ReadFragment(acc, f) ==
    CASE f.type = "zero" -> [acc EXCEPT !.scratch = <<>>]
      [] f.type = "full" -> [out |-> Append(acc.out, <<f>>), scratch |-> <<>>]
      [] f.type = "first" -> [acc EXCEPT !.scratch = <<f>>]
      [] acc.scratch = <<>> -> acc
      [] f.type = "middle" -> [acc EXCEPT !.scratch = Append(@, f)]
      [] f.type = "last" -> [out |-> Append(acc.out, Append(acc.scratch, f)), scratch |-> <<>>]

(* The records a reader of the image returns, each as its fragments. *)
Records(image) == FoldLeft(ReadFragment, [out |-> <<>>, scratch |-> <<>>], Fragments(image)).out

(* The record these fragments are, or 0 when they are no record. *)
RecordOf(frags) ==
    LET r == frags[1].rec
        covered == FoldLeft(LAMBDA at, f : IF f.rec = r /\ f.from = at THEN at + f.len ELSE -1,
                            0, frags)
    IN  IF covered = lens[r] THEN r ELSE 0

ReadBack(image) == LET rs == Records(image) IN [i \in 1..Len(rs) |-> RecordOf(rs[i])]

(* What a crash may leave: the file cut anywhere, and zeros behind it      *)
(* where the file is mapped and was extended in advance (Win32MapFile).    *)
Images == {SubSeq(file, 1, k) \o Zeros(z) : k \in 0..Len(file), z \in {0, 1, kBlockSize}}

(* As long as no append failed, a crash at any byte costs only the records *)
(* that were not complete there: the reader returns the others, in order   *)
(* and unchanged, and nothing else.                                        *)
CompleteRecordsSurvive ==
    faults = 0 =>
        \A k \in 0..Len(file), z \in {0, 1, kBlockSize} :
            LET complete == Cardinality({r \in DOMAIN ends : ends[r] <= k})
            IN  ReadBack(SubSeq(file, 1, k) \o Zeros(z)) = [i \in 1..complete |-> i]

(* Whatever failed and wherever the crash cuts the file, the reader never  *)
(* returns a record put together from pieces of two, never one twice and   *)
(* never out of order.                                                     *)
NothingSpliced ==
    \A image \in Images :
        LET rs == ReadBack(image)
        IN  \A i \in 1..Len(rs) : rs[i] > (IF i = 1 THEN 0 ELSE rs[i - 1])

(* Every record AddRecord returned OK for is read back, when the process   *)
(* dies and all that was written to the file stays.                        *)
AcknowledgedRecordsSurvive == DOMAIN ends \subseteq ToSet(ReadBack(file))
=============================================================================
