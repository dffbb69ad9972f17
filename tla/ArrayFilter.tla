------------------------------ MODULE ArrayFilter ------------------------------
(* Array.filter() of the page's code, as a recursive function.             *)
EXTENDS Integers, Sequences

(* The elements of q that are in S, in their order.                        *)
Filter(q, S) ==
    LET kept[k \in 0..Len(q)] ==
            IF k = 0 THEN <<>>
            ELSE IF q[k] \in S THEN Append(kept[k - 1], q[k]) ELSE kept[k - 1]
    IN kept[Len(q)]
=============================================================================
