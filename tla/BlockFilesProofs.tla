-------------------------- MODULE BlockFilesProofs ----------------------------
(***************************************************************************)
(* With one thread in process_block at a time, every position the block    *)
(* index holds reads back what was written there: for any block sizes, any *)
(* file size and any number of files.                                      *)
(***************************************************************************)
EXTENDS BlockFiles, TLAPS

SingleWriter == \A v, w \in Writers : v = w

\* Where the one thread is: what it has read of the offsets, or been given as
\* a position, still holds.
WriterInStep ==
  \A w \in Writers :
    LET t == writer[w]
    IN /\ t.pc # "idle" => t.file = current_file /\ ~HasUndo(t.block)
       /\ t.pc = "append" => t.pos = current_pos
       /\ t.pc = "locate" =>
            [file |-> t.file, pos |-> t.pos, block |-> t.block] \in blkData
       /\ (t.pc = "undo" /\ index[t.block].data_pos # 0) =>
            index[t.block].file = t.file

UnknownHasNoPosition == \A b \in Blocks : ~index[b].known => index[b].data_pos = 0

IInv ==
  /\ TypeOK
  /\ OffsetsAreEnds
  /\ WriterInStep
  /\ UnknownHasNoPosition
  /\ BlockReadsBack
  /\ UndoReadsBack

LEMMA BytesAreNat ==
  \A b \in Blocks : BlockBytes(b) \in Nat /\ UndoBytes(b) \in Nat
BY SizesAssumption DEF BlockBytes, UndoBytes

LEMMA InitIInv == Init => IInv
BY SizesAssumption DEF Init, IInv, TypeOK, OffsetsAreEnds, WriterInStep,
  UnknownHasNoPosition, BlockReadsBack, UndoReadsBack, Idle, Files, HasUndo

LEMMA BeginStep ==
  ASSUME IInv, SingleWriter, NEW w \in Writers, NEW b \in Blocks,
         ~HasUndo(b), write_block_begin(w, b)
  PROVE  IInv'
<1>1. \A v \in Writers : v = w
  BY DEF SingleWriter
<1>2. /\ current_file' \in Files /\ current_pos' \in Nat /\ current_undo_pos' \in Nat
      /\ OffsetsAreEnds'
  <2>1. CASE RollsOver(b)
    <3>1. start_file /\ UNCHANGED <<blkLen, revLen>>
      BY <2>1 DEF write_block_begin
    <3>2. current_file \in Nat /\ current_file' = current_file + 1 /\ current_file' \in Files
      BY <3>1, SizesAssumption DEF IInv, TypeOK, start_file, Files
    <3>. QED BY <3>1, <3>2 DEF IInv, TypeOK, OffsetsAreEnds, start_file, Files
  <2>2. CASE ~RollsOver(b)
    BY <2>2 DEF IInv, TypeOK, OffsetsAreEnds, write_block_begin, manager
  <2>. QED BY <2>1, <2>2
<1>3. TypeOK'
  BY <1>2 DEF IInv, TypeOK, write_block_begin
<1>4. WriterInStep'
  BY <1>1, <1>2 DEF IInv, TypeOK, WriterInStep, write_block_begin, HasUndo
<1>5. BlockReadsBack' /\ UndoReadsBack' /\ UnknownHasNoPosition'
  BY DEF IInv, BlockReadsBack, UndoReadsBack, UnknownHasNoPosition, write_block_begin
<1>. QED BY <1>2, <1>3, <1>4, <1>5 DEF IInv

LEMMA EndStep ==
  ASSUME IInv, SingleWriter, NEW w \in Writers, write_block_end(w)
  PROVE  IInv'
<1>1. \A v \in Writers : v = w
  BY DEF SingleWriter
<1>2. writer[w].block \in Blocks /\ BlockBytes(writer[w].block) \in Nat
  BY BytesAreNat DEF IInv, TypeOK
<1>3. writer[w].file = current_file /\ writer[w].pos = current_pos
  BY DEF IInv, WriterInStep, write_block_end
<1>4. TypeOK'
  BY <1>2 DEF IInv, TypeOK, write_block_end, Advance, DataPos, Place
<1>5. OffsetsAreEnds'
  BY <1>2, <1>3 DEF IInv, TypeOK, OffsetsAreEnds, write_block_end, Advance, Files
<1>6. WriterInStep'
  BY <1>1, <1>2, <1>3 DEF IInv, TypeOK, WriterInStep, OffsetsAreEnds,
     write_block_end, DataPos, HasUndo
<1>7. BlockReadsBack' /\ UndoReadsBack' /\ UnknownHasNoPosition'
  BY DEF IInv, BlockReadsBack, UndoReadsBack, UnknownHasNoPosition, write_block_end
<1>. QED BY <1>4, <1>5, <1>6, <1>7 DEF IInv

LEMMA HeaderStep ==
  ASSUME IInv, NEW b \in Blocks, accept_block_header(b)
  PROVE  IInv'
<1>1. TypeOK' /\ OffsetsAreEnds'
  BY DEF IInv, TypeOK, OffsetsAreEnds, accept_block_header, manager
<1>2. WriterInStep'
  BY DEF IInv, TypeOK, WriterInStep, accept_block_header, manager, HasUndo
<1>3. BlockReadsBack' /\ UndoReadsBack' /\ UnknownHasNoPosition'
  BY DEF IInv, TypeOK, BlockReadsBack, UndoReadsBack, UnknownHasNoPosition,
     accept_block_header
<1>. QED BY <1>1, <1>2, <1>3 DEF IInv

LEMMA LocateStep ==
  ASSUME IInv, SingleWriter, NEW w \in Writers, NEW connects \in BOOLEAN,
         locate(w, connects)
  PROVE  IInv'
<1>1. \A v \in Writers : v = w
  BY DEF SingleWriter
<1>2. /\ writer[w].block \in Blocks /\ ~HasUndo(writer[w].block)
      /\ writer[w].file = current_file
  BY DEF IInv, TypeOK, WriterInStep, locate
<1>. DEFINE b == writer[w].block
            t == writer[w]
<1>3. writer' = [writer EXCEPT ![w].pc = "undo"] \/ writer' = [writer EXCEPT ![w].pc = "idle"]
  BY DEF locate
<1>. DEFINE e == [known    |-> TRUE,
                  file     |-> IF index[b].known THEN t.file ELSE index[b].file,
                  data_pos |-> IF index[b].known THEN t.pos ELSE index[b].data_pos,
                  undo_pos |-> index[b].undo_pos]
<1>4. /\ index' = [index EXCEPT ![b] = e]
      /\ e \in [known : BOOLEAN, file : Files, data_pos : Nat, undo_pos : Nat]
      /\ e.known
      /\ e.undo_pos = index[b].undo_pos
      /\ \/ e.file = t.file /\ e.data_pos = t.pos
         \/ e.file = index[b].file /\ e.data_pos = 0
  <2>1. index' = [index EXCEPT ![b] = e]
    BY DEF locate
  <2>2. CASE index[b].known
    BY <1>2, <2>1, <2>2 DEF IInv, TypeOK
  <2>3. CASE ~index[b].known
    BY <1>2, <2>1, <2>3 DEF IInv, TypeOK, UnknownHasNoPosition
  <2>. QED BY <2>2, <2>3
<1>. HIDE DEF e
<1>5. TypeOK' /\ OffsetsAreEnds'
  BY <1>2, <1>3, <1>4 DEF IInv, TypeOK, OffsetsAreEnds, locate, manager
<1>6. BlockReadsBack'
  BY <1>2, <1>4 DEF IInv, TypeOK, WriterInStep, BlockReadsBack, locate
<1>7. UndoReadsBack' /\ UnknownHasNoPosition'
  BY <1>2, <1>4 DEF IInv, TypeOK, UndoReadsBack, UnknownHasNoPosition, locate, HasUndo
<1>8. WriterInStep'
  BY <1>1, <1>2, <1>3, <1>4 DEF IInv, TypeOK, WriterInStep, locate, manager, HasUndo
<1>. QED BY <1>5, <1>6, <1>7, <1>8 DEF IInv

LEMMA UndoStep ==
  ASSUME IInv, SingleWriter, NEW w \in Writers, write_undo(w)
  PROVE  IInv'
<1>1. \A v \in Writers : v = w
  BY DEF SingleWriter
<1>2. /\ writer[w].block \in Blocks /\ UndoBytes(writer[w].block) \in Nat
      /\ writer[w].file = current_file
  BY BytesAreNat DEF IInv, TypeOK, WriterInStep, write_undo
<1>3. TypeOK'
  BY <1>2 DEF IInv, TypeOK, write_undo, Place
<1>4. OffsetsAreEnds'
  BY <1>2 DEF IInv, TypeOK, OffsetsAreEnds, write_undo, Files
<1>5. BlockReadsBack' /\ UnknownHasNoPosition'
  BY <1>2 DEF IInv, TypeOK, BlockReadsBack, UnknownHasNoPosition, write_undo
<1>6. UndoReadsBack'
  BY <1>2 DEF IInv, TypeOK, UndoReadsBack, OffsetsAreEnds, WriterInStep, write_undo
<1>7. WriterInStep'
  BY <1>1 DEF IInv, TypeOK, WriterInStep, write_undo
<1>. QED BY <1>3, <1>4, <1>5, <1>6, <1>7 DEF IInv

LEMMA StutterStep == IInv /\ UNCHANGED vars => IInv'
BY DEF IInv, TypeOK, OffsetsAreEnds, WriterInStep, UnknownHasNoPosition,
  BlockReadsBack, UndoReadsBack, vars, manager, HasUndo

\* With one writer the inductive invariant holds: offsets are the ends of the files,
\* and an offset read by write_block is still the end when it writes.
THEOREM FilesInvariant ==
  ASSUME SingleWriter
  PROVE  Spec => []IInv
<1>1. IInv /\ [Next]_vars => IInv'
  BY BeginStep, EndStep, HeaderStep, LocateStep, UndoStep, StutterStep DEF Next
<1>. QED BY InitIInv, <1>1, PTL DEF Spec

\* The manager's offsets, the files, the positions and the writer's stage keep their
\* types.
THEOREM TypeCorrect ==
  ASSUME SingleWriter
  PROVE  Spec => []TypeOK
<1>1. IInv => TypeOK
  BY DEF IInv
<1>. QED BY FilesInvariant, <1>1, PTL


\* One writer at a time: the manager's offsets stay the ends of the append-only
\* files, and so read_block and read_undo find, at every position that
\* process_block recorded, the block and the undo data it is recorded for.
THEOREM PositionsReadBack ==
  ASSUME SingleWriter
  PROVE  Spec => [](OffsetsAreEnds /\ BlockReadsBack /\ UndoReadsBack)
<1>1. IInv => OffsetsAreEnds /\ BlockReadsBack /\ UndoReadsBack
  BY DEF IInv
<1>. QED BY FilesInvariant, <1>1, PTL

\* With one writer, the file number and the undo offset of an index entry read back
\* the undo data of its block, also when the file was full in between.
THEOREM UndoPositions ==
  ASSUME SingleWriter
  PROVE  Spec => []UndoReadsBack
  BY PositionsReadBack, PTL
==============================================================================
