------------------------------- MODULE Positions -------------------------------
(***************************************************************************)
(* The members of a sequence at some of its positions: what a Python       *)
(* comprehension with a condition keeps of a list, in the list's order.    *)
(***************************************************************************)
EXTENDS Naturals, Sequences

\* The members of a subset of 1..n, in order.
Ascending(positions, n) ==
    LET upto[i \in 0..n] == IF i = 0 THEN <<>>
                            ELSE IF i \in positions THEN Append(upto[i - 1], i)
                            ELSE upto[i - 1]
    IN  upto[n]

\* The elements of seq at the given positions, in order.
Pick(seq, positions) ==
    LET at == Ascending(positions, Len(seq))
    IN  [k \in 1..Len(at) |-> seq[at[k]]]
=============================================================================
