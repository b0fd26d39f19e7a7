---------------------------- MODULE MCFileRestore ----------------------------
(* Instances of FileRestore for TLC.                                       *)
EXTENDS FileRestore, TLC
CONSTANTS e1, e2
Symmetric == Permutations(Edits)
=============================================================================
