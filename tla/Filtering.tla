------------------------------ MODULE Filtering ------------------------------
(***************************************************************************)
(* The elements of a sequence that stand at some of its positions, in      *)
(* their order.  It is SelectSeq by positions, as a recursive function, so *)
(* that what it returns can be proved (FilteringProofs).                   *)
(***************************************************************************)
EXTENDS Naturals, Sequences

Kept(q, at) ==
    LET kept[n \in 0..Len(q)] ==
            IF n = 0 THEN <<>>
            ELSE IF n \in at THEN Append(kept[n - 1], q[n]) ELSE kept[n - 1]
    IN kept[Len(q)]
=============================================================================
