------------------------------ MODULE Arranged ------------------------------
(***************************************************************************)
(* What the program's filtering loops and its calls of sort.Slice return.  *)
(* Written with a fold and with ranks, and not with SelectSeq and SortSeq, *)
(* because the provers know nothing of those two.                          *)
(***************************************************************************)
EXTENDS Integers, FiniteSets, SequencesExt

\* The entries at some positions, in their order.
Only(seq, positions) ==
    FoldLeftDomain(LAMBDA kept, i : IF i \in positions THEN Append(kept, seq[i]) ELSE kept, <<>>, seq)

\* Each entry goes to the place its rank gives it; Before is transitive, and
\* entries of which neither is before the other stay in their order.
SortedBy(seq, Before(_, _)) ==
    LET rank == [i \in DOMAIN seq |->
                   Cardinality({j \in DOMAIN seq : \/ Before(seq[j], seq[i])
                                                   \/ ~Before(seq[i], seq[j]) /\ j <= i})]
    IN [k \in DOMAIN seq |-> seq[CHOOSE i \in DOMAIN seq : rank[i] = k]]

Sorted(values) == SortedBy(values, LAMBDA a, b : a < b)
=============================================================================
