------------------------------ MODULE MCInode ------------------------------
(***************************************************************************)
(* Instances of Inode for TLC.  The open files are interchangeable.        *)
(***************************************************************************)
EXTENDS Inode, TLC
Symmetry == Permutations(Files)
=============================================================================
