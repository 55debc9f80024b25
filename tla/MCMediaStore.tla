---------------------------- MODULE MCMediaStore ----------------------------
(* Small instances of MediaStore for TLC.                                  *)
EXTENDS MediaStore, TLC

Symmetry == Permutations(Callers) \cup Permutations(Texts)
=============================================================================
