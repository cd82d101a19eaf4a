------------------------------- MODULE Common -------------------------------
(***************************************************************************)
(* What the modules share: the value that stands for null, undefined, nil  *)
(* and the empty string where the code means nothing by them; and the      *)
(* elements a filter leaves, as a function the provers can reason about.   *)
(***************************************************************************)
LOCAL INSTANCE Naturals
LOCAL INSTANCE Sequences

CONSTANT None

\* The elements of q that are not in gone, in their order.
Remaining(q, gone) ==
    LET left[i \in 0..Len(q)] ==
            IF i = 0 THEN <<>>
            ELSE IF q[i] \in gone THEN left[i - 1]
            ELSE Append(left[i - 1], q[i])
    IN  left[Len(q)]
=============================================================================
