------------------------------ MODULE MCBTree ------------------------------
(* The B-tree model for TLC: keys are 1..NumBKeys. *)
EXTENDS BTree

CONSTANT NumBKeys

MCBKeys == 1..NumBKeys

=============================================================================
