---------------------------- MODULE MCBlockFiles ------------------------------
(***************************************************************************)
(* BlockFiles for TLC: blocks of two sizes, so that a file holds one large *)
(* block or two small ones before the next one starts a new file.          *)
(***************************************************************************)
EXTENDS BlockFiles

CONSTANTS b1, b2, b3

MCBlockSize == [b \in Blocks |-> IF b = b2 THEN 12 ELSE 4]
MCUndoSize == [b \in Blocks |-> IF b = b2 THEN 3 ELSE 1]
==============================================================================
