--------------------------- MODULE MCInodeManager ---------------------------
(***************************************************************************)
(* Instances of InodeManager for TLC.                                      *)
(***************************************************************************)
EXTENDS InodeManagerInv

\* The ends of a block, of an inode and of a chain of two, and one byte more.
MCSizes == {0, 1, 4, 5, 8, 9}
=============================================================================
