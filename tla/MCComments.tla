----------------------------- MODULE MCComments -----------------------------
(* Small instances of Comments for TLC.                                    *)
EXTENDS Comments, TLC

Symmetry == Permutations(Handlers)
=============================================================================
