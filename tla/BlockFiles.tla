------------------------------ MODULE BlockFiles ------------------------------
(***************************************************************************)
(* BlockFileManager (qubitcoin-node/src/block_storage.rs): blocks appended *)
(* to blk*.dat and undo data to rev*.dat, and the positions process_block  *)
(* (qubitcoind/src/main.rs) records for them in the block index.           *)
(*                                                                         *)
(* The manager keeps its own write offsets; the files are opened in append *)
(* mode, so data lands at the end of the file whatever those say.          *)
(***************************************************************************)
EXTENDS Integers

CONSTANTS
  Blocks,
  Writers,               \* threads inside process_block or generatetoaddress
  BlockSize, UndoSize,   \* serialized sizes
  MAX_BLOCKFILE_SIZE,
  MaxFile                \* bound: last file number

ASSUME SizesAssumption ==
  /\ BlockSize \in [Blocks -> Nat]
  /\ UndoSize \in [Blocks -> Nat]
  /\ MAX_BLOCKFILE_SIZE \in Nat
  /\ MaxFile \in Nat

VARIABLES
  current_file, current_pos, current_undo_pos,   \* BlockFileManager
  blkLen, blkData,   \* bytes in each blk file; what is stored where
  revLen, revData,   \* the same for the rev files
  index,             \* of each BlockIndex: whether there is one, and its
                     \* file, data_pos and undo_pos
  writer             \* where each thread is in process_block

manager == <<current_file, current_pos, current_undo_pos>>
vars == <<manager, blkLen, blkData, revLen, revData, index, writer>>

Files == 0 .. MaxFile
Place == [file : Files, pos : Nat, block : Blocks]

Idle(b) == [pc |-> "idle", block |-> b, file |-> 0, pos |-> 0]

TypeOK ==
  /\ current_file \in Files
  /\ current_pos \in Nat
  /\ current_undo_pos \in Nat
  /\ blkLen \in [Files -> Nat]
  /\ revLen \in [Files -> Nat]
  /\ blkData \subseteq Place
  /\ revData \subseteq Place
  /\ index \in [Blocks -> [known : BOOLEAN, file : Files,
                          data_pos : Nat, undo_pos : Nat]]
  /\ writer \in [Writers -> [pc : {"idle", "append", "locate", "undo"},
                             block : Blocks, file : Files, pos : Nat]]

\* A fresh data directory; position 0 is BlockIndex's default, "none".
Init ==
  /\ current_file = 0 /\ current_pos = 0 /\ current_undo_pos = 0
  /\ blkLen = [f \in Files |-> 0] /\ blkData = {}
  /\ revLen = [f \in Files |-> 0] /\ revData = {}
  /\ index = [b \in Blocks |->
       [known |-> FALSE, file |-> 0, data_pos |-> 0, undo_pos |-> 0]]
  /\ \E b \in Blocks : writer = [w \in Writers |-> Idle(b)]

\* magic, size, data; size, data
BlockBytes(b) == 8 + BlockSize[b]
UndoBytes(b) == 4 + UndoSize[b]

RollsOver(b) == current_pos + BlockBytes(b) > MAX_BLOCKFILE_SIZE /\ current_pos > 0

\* Slip: the undo offset is carried over into the new file.
Bug_start_file ==
  /\ current_file < MaxFile
  /\ current_file' = current_file + 1
  /\ current_pos' = 0
  /\ UNCHANGED current_undo_pos

\* A new file, of blocks and of undo data.
start_file ==
  /\ current_file < MaxFile
  /\ current_file' = current_file + 1
  /\ current_pos' = 0
  /\ current_undo_pos' = 0

\* write_block reads the offsets, under locks it lets go of again, after
\* starting a new file if this one is full.
write_block_begin(w, b) ==
  /\ writer[w].pc = "idle"
  /\ IF RollsOver(b) THEN start_file ELSE UNCHANGED manager
  /\ writer' = [writer EXCEPT ![w] =
       [pc |-> "append", block |-> b,
        file |-> current_file', pos |-> current_pos']]
  /\ UNCHANGED <<blkLen, blkData, revLen, revData, index>>

\* Slip: the offset moves on by the block alone, without its 8 byte prefix.
Bug_Advance(pos, b) == pos + BlockSize[b]

Advance(pos, b) == pos + BlockBytes(b)

\* Slip: the prefix is taken off where it has to be added.
Bug_DataPos(pos) == pos - 8

\* Where the block itself starts, behind magic and size.
DataPos(pos) == pos + 8

\* write_block appends, then sets the offset from what it read.
write_block_end(w) ==
  LET b == writer[w].block
      f == writer[w].file
  IN /\ writer[w].pc = "append"
     /\ blkData' = blkData \cup {[file |-> f, pos |-> blkLen[f] + 8, block |-> b]}
     /\ blkLen' = [blkLen EXCEPT ![f] = @ + BlockBytes(b)]
     /\ current_pos' = Advance(writer[w].pos, b)
     /\ writer' = [writer EXCEPT ![w] =
          [pc |-> "locate", block |-> b, file |-> f, pos |-> DataPos(@.pos)]]
     /\ UNCHANGED <<current_file, current_undo_pos, revLen, revData, index>>

\* A write_all fails after n bytes; process_block gives up on the block.
write_block_fails(w, n) ==
  LET f == writer[w].file
  IN /\ writer[w].pc = "append"
     /\ blkLen' = [blkLen EXCEPT ![f] = @ + n]
     /\ writer' = [writer EXCEPT ![w].pc = "idle"]
     /\ UNCHANGED <<manager, blkData, revLen, revData, index>>

\* accept_block_header, from a headers message.
accept_block_header(b) ==
  /\ ~index[b].known
  /\ index' = [index EXCEPT ![b].known = TRUE]
  /\ UNCHANGED <<manager, blkLen, blkData, revLen, revData, writer>>

\* process_block records the position if the header is indexed already, and
\* runs process_new_block, which indexes it and hands back undo data if the
\* block connects.
locate(w, connects) ==
  LET b == writer[w].block
  IN /\ writer[w].pc = "locate"
     /\ index' = [index EXCEPT ![b] =
          [known    |-> TRUE,
           file     |-> IF @.known THEN writer[w].file ELSE @.file,
           data_pos |-> IF @.known THEN writer[w].pos ELSE @.data_pos,
           undo_pos |-> @.undo_pos]]
     /\ writer' = [writer EXCEPT ![w].pc = IF connects THEN "undo" ELSE "idle"]
     /\ UNCHANGED <<manager, blkLen, blkData, revLen, revData>>

\* The block has connected before.
HasUndo(b) == index[b].undo_pos # 0

\* write_undo, into the rev file the block's file number names but at the
\* manager's one undo offset, and set_undo_pos.
write_undo(w) ==
  LET b == writer[w].block
      f == writer[w].file
  IN /\ writer[w].pc = "undo"
     /\ revData' = revData \cup {[file |-> f, pos |-> revLen[f] + 4, block |-> b]}
     /\ revLen' = [revLen EXCEPT ![f] = @ + UndoBytes(b)]
     /\ current_undo_pos' = current_undo_pos + UndoBytes(b)
     /\ index' = [index EXCEPT ![b].undo_pos = current_undo_pos + 4]
     /\ writer' = [writer EXCEPT ![w].pc = "idle"]
     /\ UNCHANGED <<current_file, current_pos, blkLen, blkData>>

\* An orderly shutdown, which saves the index, and BlockFileManager::new over
\* the files as they are: every offset starts at zero.
Restart ==
  /\ \A w \in Writers : writer[w].pc = "idle"
  /\ current_file' = 0 /\ current_pos' = 0 /\ current_undo_pos' = 0
  /\ UNCHANGED <<blkLen, blkData, revLen, revData, index, writer>>

\* Each block is new, or is delivered again after an earlier copy failed.
Next ==
  \/ \E b \in Blocks : accept_block_header(b)
  \/ \E w \in Writers :
       \/ \E b \in Blocks : ~HasUndo(b) /\ write_block_begin(w, b)
       \/ write_block_end(w)
       \/ \E connects \in BOOLEAN : locate(w, connects)
       \/ write_undo(w)

Spec == Init /\ [][Next]_vars

NextRestart == Next \/ Restart
SpecRestart == Init /\ [][NextRestart]_vars

NextIoError ==
  \/ Next
  \/ \E w \in Writers : \E n \in 0 .. BlockBytes(writer[w].block) - 1 :
       write_block_fails(w, n)
SpecIoError == Init /\ [][NextIoError]_vars

\* A block that has connected is delivered again: a second copy is written
\* and located, and no undo data comes with it when it is active.
NextRedelivered ==
  \/ Next
  \/ \E w \in Writers, b \in Blocks : HasUndo(b) /\ write_block_begin(w, b)
SpecRedelivered == Init /\ [][NextRedelivered]_vars

\* read_block at the position an index entry holds yields the entry's block,
\* whatever was written and rolled over since: the manager's own offsets and
\* the ends of the append-only files agree.
BlockReadsBack ==
  \A b \in Blocks : index[b].data_pos # 0 =>
    [file |-> index[b].file, pos |-> index[b].data_pos, block |-> b] \in blkData

\* What block_reader takes for a block's undo data is that block's: the index
\* has one file number for both, so undo data must be in the rev file that
\* goes with the blk file of the copy last located.
UndoReadsBack ==
  \A b \in Blocks : (index[b].data_pos # 0 /\ index[b].undo_pos # 0) =>
    [file |-> index[b].file, pos |-> index[b].undo_pos, block |-> b] \in revData

\* The manager's offsets are the ends of the current files, and the files to
\* come are empty: what makes a position right when it is handed out.
OffsetsAreEnds ==
  /\ current_pos = blkLen[current_file]
  /\ current_undo_pos = revLen[current_file]
  /\ \A f \in Files : f > current_file => blkLen[f] = 0 /\ revLen[f] = 0
==============================================================================
