----------------------------- MODULE MCSkipList -----------------------------
(* Keys 1..NumSKeys stand for strings in their order; 0 is "".             *)
EXTENDS SkipList

CONSTANT NumSKeys

MCKeys == 1..NumSKeys

=============================================================================
