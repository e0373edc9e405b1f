----------------------------- MODULE MCLSMTree -----------------------------
(***************************************************************************)
(* Model-checking instances of LSMTree.  Keys are 1..NumKeys; the bounds   *)
(* are given in the .cfg files.                                            *)
(***************************************************************************)
EXTENDS LSMTree

CONSTANT NumKeys

MCKeys == 1..NumKeys

=============================================================================
