----------------------------- MODULE SeqFilter -----------------------------
(***************************************************************************)
(* The elements of a list that a loop of the code keeps, in their order.    *)
(* (SelectSeq for a set instead of a test, in a form that can be proved     *)
(* about.)                                                                  *)
(***************************************************************************)
EXTENDS Integers, Sequences

Only(s, S) ==
    LET kept[i \in 0..Len(s)] ==
            IF i = 0 THEN <<>>
            ELSE IF s[i] \in S THEN Append(kept[i - 1], s[i]) ELSE kept[i - 1]
    IN  kept[Len(s)]
=============================================================================
