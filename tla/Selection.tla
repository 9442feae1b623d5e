----------------------------- MODULE Selection -----------------------------
(***************************************************************************)
(* The members of a sequence that are in a set, in order: what SelectSeq   *)
(* computes, as a recursive function that a proof can unfold.              *)
(***************************************************************************)
EXTENDS Naturals, Sequences

Picked(s, T) ==
    LET picked[i \in 0..Len(s)] ==
            IF i = 0 THEN <<>>
            ELSE IF s[i] \in T THEN Append(picked[i-1], s[i]) ELSE picked[i-1]
    IN  picked

Selected(s, T) == Picked(s, T)[Len(s)]
=============================================================================
