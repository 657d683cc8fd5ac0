----------------------------- MODULE FlatFiles -----------------------------
(***************************************************************************)
(* The flat block files of qubitcoin-storage (block_file.rs) and the reader *)
(* that maps them into memory (qubitcoin-node mmap_storage.rs). Files are   *)
(* sequences of words, a record is a header of two words (magic and size)   *)
(* and its data, and one of the blocks has data that look like a header.    *)
(* Only record boundaries and whole words are told apart: a magic number    *)
(* that straddles words is outside the model. A write and a restart of the  *)
(* manager are one step each (a mutex); readers take their locks one after  *)
(* the other. A mapping shows the file's words as they are now, up to the   *)
(* length the file had when it was mapped.                                  *)
(***************************************************************************)
EXTENDS Integers, Sequences, FiniteSets, FiniteSetsExt, SequencesExt

CONSTANTS Readers,
          MaxFileSize,     \* max_file_size, in words
          MaxMappedFiles,  \* max_mapped_files
          LastFile,        \* bound: file numbers
          MaxWrites, MaxFaults, MaxReads  \* bounds: write calls, failed writes and restarts, reads

VARIABLES disk,      \* per file its words; a file without words does not exist
          info,      \* per file [n_blocks, n_size]
          current,   \* current_file
          stored,    \* history: the positions write_block returned in this run, with the block
          older,     \* history: those of earlier runs
          mapped,    \* files of the MmapBlockReader: file number -> length of the mapping
          reader,    \* per thread its read_block_data call
          writes, faults, reads

fileVars == <<disk, info, current, stored, older, mapped, reader, writes, faults, reads>>

Magic == 9
STORAGE_HEADER_BYTES == 2
Blocks == {<<>>, <<0>>, <<Magic, 1>>, <<Magic, 0, 0, 0>>}
Files == 0..LastFile

Entry(b) == <<Magic, Len(b)>> \o b
BlockFileInfo == [n_blocks |-> 0, n_size |-> 0]

\* What a file holds after words are written at an offset.
Written(file, offset, words) ==
    SubSeq(file, 1, offset) \o words \o SubSeq(file, offset + Len(words) + 1, Len(file))

\* The file the next entry goes to: the current one, or the next when it would not fit.
Target(b) == IF info[current].n_size + Len(Entry(b)) > MaxFileSize THEN current + 1 ELSE current

\* A block that does not fit a fresh file is refused before anything is touched.
TooLarge(b) == Len(Entry(b)) > MaxFileSize

\* write_block: the bookkeeping follows the write and its sync.
Bug_write_block(b) ==
    LET f == Target(b) off == info[f].n_size IN
    /\ ~TooLarge(b) /\ f \in Files
    /\ disk' = [disk EXCEPT ![f] = Written(@, off, Entry(b))]
    /\ current' = f
    /\ info' = [info EXCEPT ![f] = [n_blocks |-> @.n_blocks + 1, n_size |-> @.n_size + Len(b)]]
    /\ stored' = stored \union {[file |-> f, pos |-> off + STORAGE_HEADER_BYTES, block |-> b]}
    /\ UNCHANGED <<older, mapped, reader, faults>>
write_block(b) ==
    LET f == Target(b) off == info[f].n_size IN
    /\ ~TooLarge(b) /\ f \in Files
    /\ disk' = [disk EXCEPT ![f] = Written(@, off, Entry(b))]
    /\ current' = f
    /\ info' = [info EXCEPT ![f] = [n_blocks |-> @.n_blocks + 1, n_size |-> @.n_size + Len(Entry(b))]]
    /\ stored' = stored \union {[file |-> f, pos |-> off + STORAGE_HEADER_BYTES, block |-> b]}
    /\ UNCHANGED <<older, mapped, reader, faults>>

\* write_block with an error after some of the words: the file may have been rolled over, the
\* sizes stay, and the next entry overwrites what was left.
write_fails(b, n) ==
    LET f == Target(b) IN
    /\ ~TooLarge(b) /\ f \in Files /\ n \in 0..Len(Entry(b))
    /\ faults < MaxFaults /\ faults' = faults + 1
    /\ disk' = [disk EXCEPT ![f] = Written(@, info[f].n_size, SubSeq(Entry(b), 1, n))]
    /\ current' = f
    /\ UNCHANGED <<info, stored, older, mapped, reader>>

\* read_block at a position: the magic number and the size are read back from before it.
read_block(f, pos) ==
    IF Len(disk[f]) < pos \/ disk[f][pos - 1] # Magic \/ Len(disk[f]) < pos + disk[f][pos]
    THEN [ok |-> FALSE, data |-> <<>>]
    ELSE [ok |-> TRUE, data |-> SubSeq(disk[f], pos + 1, pos + disk[f][pos])]

Idle == [pc |-> "idle"]

\* A new process: with_params starts from Inner::new and does not look at the files.
with_params ==
    /\ faults < MaxFaults /\ faults' = faults + 1
    /\ info' = [f \in Files |-> BlockFileInfo]
    /\ current' = 0
    /\ older' = older \union stored
    /\ stored' = {}
    /\ mapped' = <<>>
    /\ reader' = [r \in Readers |-> Idle]
    /\ UNCHANGED disk

-----------------------------------------------------------------------------
(* MmapBlockReader::read_block_data, by several threads.                    *)

Become(r, s) == reader' = [reader EXCEPT ![r] = s]
Finish(r, result, data) == Become(r, [pc |-> "done", want |-> reader[r].want, result |-> result, data |-> data])

read_block_data(r, want) ==
    /\ reader[r].pc \in {"idle", "done"}
    /\ Become(r, [pc |-> "check", want |-> want])
    /\ UNCHANGED <<disk, info, current, stored, older, mapped, faults>>

\* ensure_mapped, up to the mapping of the file; the read lock is released before it.
ensure_mapped(r) ==
    /\ reader[r].pc = "check"
    /\ LET f == reader[r].want.file IN
       IF f \in DOMAIN mapped THEN Become(r, [pc |-> "get", want |-> reader[r].want])
       ELSE IF disk[f] = <<>> THEN Finish(r, "FileNotFound", <<>>)
       ELSE Become(r, [pc |-> "insert", want |-> reader[r].want, len |-> Len(disk[f])])
    /\ UNCHANGED <<disk, info, current, stored, older, mapped, faults>>

Without(fs) == [f \in (DOMAIN mapped) \ fs |-> mapped[f]]

\* Under the write lock: the lowest file number is evicted when the table is full.
Bug_Evicted == IF Cardinality(DOMAIN mapped) > MaxMappedFiles THEN {Min(DOMAIN mapped)} ELSE {}
Evicted == IF Cardinality(DOMAIN mapped) >= MaxMappedFiles THEN {Min(DOMAIN mapped)} ELSE {}

Insert(r) ==
    /\ reader[r].pc = "insert"
    /\ mapped' = [f \in ((DOMAIN mapped) \ Evicted) \union {reader[r].want.file} |->
                    IF f = reader[r].want.file THEN reader[r].len ELSE mapped[f]]
    /\ Become(r, [pc |-> "get", want |-> reader[r].want])
    /\ UNCHANGED <<disk, info, current, stored, older, faults>>

\* Under the read lock. A slice past the end of the mapping panics.
Sliced(f, off, n) ==
    IF off + n > mapped[f] THEN [result |-> "panic", data |-> <<>>]
    ELSE [result |-> "ok", data |-> SubSeq(disk[f], off + 1, off + n)]

Bug_Get(f, off, n) ==
    IF f \notin DOMAIN mapped THEN [result |-> "FileNotFound", data |-> <<>>]
    ELSE IF off > mapped[f] THEN [result |-> "OutOfBounds", data |-> <<>>]
    ELSE Sliced(f, off, n)
Get(f, off, n) ==
    IF f \notin DOMAIN mapped THEN [result |-> "FileNotFound", data |-> <<>>]
    ELSE IF off + n > mapped[f] THEN [result |-> "OutOfBounds", data |-> <<>>]
    ELSE Sliced(f, off, n)

Read(r) ==
    /\ reader[r].pc = "get"
    /\ LET want == reader[r].want
           got == Get(want.file, want.pos, Len(want.block))
       IN Finish(r, got.result, got.data)
    /\ UNCHANGED <<disk, info, current, stored, older, mapped, faults>>

unmap_file(f) ==
    /\ f \in DOMAIN mapped
    /\ mapped' = Without({f})
    /\ UNCHANGED <<disk, info, current, stored, older, reader, faults>>

unmap_all ==
    /\ DOMAIN mapped # {}
    /\ mapped' = <<>>
    /\ UNCHANGED <<disk, info, current, stored, older, reader, faults>>

\* scan_block_offsets over the first len words: past a record that is all there, past the
\* header alone of one that is not, past one word that is no magic number.
Bug_Steps(words, p) ==
    IF words[p + 1] # Magic THEN 1
    ELSE IF words[p + 2] > 0 /\ p + 2 + words[p + 2] < Len(words) THEN 2 + words[p + 2] ELSE 2
Steps(words, p) ==
    IF words[p + 1] # Magic THEN 1
    ELSE IF words[p + 2] > 0 /\ p + 2 + words[p + 2] <= Len(words) THEN 2 + words[p + 2] ELSE 2

scan_block_offsets(f, len) ==
    LET words == SubSeq(disk[f], 1, len)
        scan[p \in 0..(len + 8)] ==
            IF p + 2 > len THEN <<>>
            ELSE (IF words[p + 1] = Magic THEN <<p + 2>> ELSE <<>>) \o scan[p + Steps(words, p)]
    IN scan[0]

-----------------------------------------------------------------------------
Init ==
    /\ disk = [f \in Files |-> <<>>]
    /\ info = [f \in Files |-> BlockFileInfo]
    /\ current = 0
    /\ stored = {} /\ older = {}
    /\ mapped = <<>>
    /\ reader = [r \in Readers |-> Idle]
    /\ writes = 0 /\ faults = 0 /\ reads = 0

Next ==
    \/ /\ writes < MaxWrites /\ writes' = writes + 1 /\ UNCHANGED reads
       /\ \E b \in Blocks : write_block(b) \/ \E n \in 0..Len(Entry(b)) : write_fails(b, n)
    \/ UNCHANGED <<writes, reads>> /\ with_params
    \/ /\ reads < MaxReads /\ reads' = reads + 1 /\ UNCHANGED writes
       /\ \E r \in Readers, want \in stored : read_block_data(r, want)
    \/ /\ UNCHANGED <<writes, reads>>
       /\ \E r \in Readers : ensure_mapped(r) \/ Insert(r) \/ Read(r)
    \/ /\ reads < MaxReads /\ reads' = reads + 1 /\ UNCHANGED writes
       /\ (\E f \in Files : unmap_file(f)) \/ unmap_all

Spec == Init /\ [][Next]_fileVars

-----------------------------------------------------------------------------
(* Properties.                                                              *)

\* Every position write_block returned since the manager was opened reads back its block,
\* whatever writes failed before, between or after, and the sizes are the sum of the entries.
PositionsReadBack ==
    /\ \A s \in stored : read_block(s.file, s.pos) = [ok |-> TRUE, data |-> s.block]
    /\ \A f \in Files :
          /\ info[f].n_size = MapThenSumSet(LAMBDA s : Len(Entry(s.block)), {s \in stored : s.file = f})
          /\ info[f].n_size <= MaxFileSize

\* A thread that reads through the mappings gets the block it asked for or an error, never
\* other bytes and never a panic, whatever was appended, evicted or unmapped meanwhile.
MappedReadsTrue ==
    \A r \in Readers : reader[r].pc = "done" =>
        /\ reader[r].result # "panic"
        /\ reader[r].result = "ok" => reader[r].data = reader[r].want.block

\* Threads that map files at the same time never exceed the number of mapped files.
MappingsBounded == Cardinality(DOMAIN mapped) <= MaxMappedFiles

Inside(f, len) == {s.pos : s \in {s \in stored : s.file = f /\ s.pos + Len(s.block) <= len}}

\* A scan finds the records that are whole, in order and before anything else, and nothing
\* else when the file ends with the last of them, even where data look like a header.
ScanFindsBlocks ==
    \A f \in Files : \A len \in {mapped[g] : g \in (DOMAIN mapped) \intersect {f}} \union {Len(disk[f])} :
        LET found == scan_block_offsets(f, len)
            whole == SetToSortSeq(Inside(f, len), <)
        IN /\ IsPrefix(whole, found)
           /\ len = info[f].n_size => found = whole

-----------------------------------------------------------------------------
(* What the comments say of the code, and further configurations refute.    *)

\* "Flat-file block storage manager ... persisting raw block data": positions of an earlier run.
EarlierReadBack == \A s \in older : read_block(s.file, s.pos) = [ok |-> TRUE, data |-> s.block]

\* A stored block can be read through the mapping of its file.
MappedReadsFind == \A r \in Readers : reader[r].pc = "done" => reader[r].result = "ok"
=============================================================================
