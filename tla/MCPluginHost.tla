---------------------------- MODULE MCPluginHost ----------------------------
(* Small instances of PluginHost for TLC.                                  *)
EXTENDS PluginHost, TLC

Symmetry == Permutations(Workers) \cup Permutations(Slots)
=============================================================================
