---------------------------- MODULE NotifyRecords ----------------------------
(***************************************************************************)
(* DirectoryChangesIterator (read_directory_changes.h) over the records    *)
(* FILE_NOTIFY_INFORMATION that ReadDirectoryChangesW leaves in a buffer.  *)
(* A record is a header, a name and, but for the last one, padding to a    *)
(* DWORD.  The records are given by the sequence lens of the lengths of    *)
(* their names, in bytes; a pointer is an offset into the buffer.          *)
(***************************************************************************)
EXTENDS Offsets, SequencesExt

SizeofDWORD == 4
SizeofInfo == 4 * SizeofDWORD  \* the first character of the name is in it, padded
nullptr == -1

Pad(n) == SizeofDWORD * ((n + SizeofDWORD - 1) \div SizeofDWORD)

\* Bug: the padded FileName[1] of the struct is counted as well as the name.
GetInfoSize_WholeStruct(len) == SizeofInfo + len

GetInfoSize(len) == SizeofInfo - SizeofDWORD + len

----------------------------------------------------------------------------
(* What the kernel writes *)

RecordSize(len) == 3 * SizeofDWORD + len

NextEntryOffset(lens, k) == IF k = Len(lens) THEN 0 ELSE Pad(RecordSize(lens[k]))

RecordStart(lens, k) == Offsets(0, [j \in 1..Len(lens) |-> Pad(RecordSize(lens[j]))])[k]

BytesTransferred(lens) ==
    IF lens = <<>> THEN 0 ELSE RecordStart(lens, Len(lens)) + RecordSize(Last(lens))

\* The number of the record at an offset; 0 if no record begins there.
RecordAt(lens, offset) ==
    IF \E k \in 1..Len(lens) : RecordStart(lens, k) = offset
    THEN CHOOSE k \in 1..Len(lens) : RecordStart(lens, k) = offset
    ELSE 0

----------------------------------------------------------------------------
(* The iterator *)

Iterator(current, size) ==
    [current |-> IF size = 0 THEN nullptr ELSE current, consumed |-> 0, max |-> size]

AvailableSize(it) == it.max - it.consumed

\* move_to_next(), on the k-th record
MoveToNext(it, lens, k) ==
    LET offset == NextEntryOffset(lens, k) IN
    [it EXCEPT !.consumed = @ + GetInfoSize(lens[k]),
               !.current = IF offset = 0 THEN nullptr ELSE @ + offset]

\* What ++it and it++ return: an iterator that counts from there on.
Copy(it) == Iterator(it.current, AvailableSize(it))

\* The assertions of the constructor, move_to_next() and available_size().
AssertionsHold(it, lens) ==
    /\ it.consumed <= it.max
    /\ it.current # nullptr =>
          LET k == RecordAt(lens, it.current) IN
          k # 0 /\ it.consumed + GetInfoSize(lens[k]) <= it.max
=============================================================================
