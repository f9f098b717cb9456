------------------------------- MODULE Loops --------------------------------
(***************************************************************************)
(* Loops, and the sequences they run over, for the modules that TLC alone  *)
(* reads.                                                                  *)
(***************************************************************************)
EXTENDS Words

(* FoldLeft, with each step done before the next is begun: the comparison  *)
(* has TLC evaluate it.                                                    *)
RECURSIVE Each(_, _, _)
Each(Op(_, _), s, ks) ==
    IF ks = <<>> THEN s
    ELSE LET t == Op(s, Head(ks)) IN IF t = s THEN Each(Op, s, Tail(ks)) ELSE Each(Op, t, Tail(ks))
(* n numbers from first on.                                                *)
Upto(first, step, n) == [k \in 1..n |-> first + step * (k - 1)]
(* The sequence of Item(1) to Item(n), made at once.                       *)
Listed(Item(_), n) == SubSeq([k \in 1..n |-> Item(k)], 1, n)
=============================================================================
