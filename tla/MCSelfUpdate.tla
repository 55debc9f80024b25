---------------------------- MODULE MCSelfUpdate ----------------------------
(* A small instance of SelfUpdate for TLC.                                 *)
EXTENDS SelfUpdate
=============================================================================
