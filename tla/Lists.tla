------------------------------- MODULE Lists -------------------------------
(***************************************************************************)
(* The loop that appends to a new list what belongs there. It is SelectSeq *)
(* as a recursive function, which a proof can expand.                      *)
(***************************************************************************)
EXTENDS Integers, Sequences

Where(s, S) ==
    LET taken[n \in 0..Len(s)] == IF n = 0 THEN <<>>
                                  ELSE IF s[n] \in S THEN Append(taken[n - 1], s[n])
                                  ELSE taken[n - 1]
    IN taken[Len(s)]
=============================================================================
