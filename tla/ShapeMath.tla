---------------------------------- MODULE ShapeMath ----------------------------------
(***************************************************************************)
(* What the dimensions of a tensor say about its elements (shape.cc): how  *)
(* many there are, and how far apart they lie when the last dimension is   *)
(* the fastest.  The product is a recursive function and not a fold, so    *)
(* that it can be reasoned about for shapes of every rank.                 *)
(***************************************************************************)
EXTENDS Integers, Sequences

\* ValidateShape: a dimension is positive.
Dimension == Nat \ {0}

Product(s) ==
  LET upTo[n \in 0 .. Len(s)] == IF n = 0 THEN 1 ELSE upTo[n - 1] * s[n]
  IN upTo[Len(s)]

SumOf(s) ==
  LET upTo[n \in 0 .. Len(s)] == IF n = 0 THEN 0 ELSE upTo[n - 1] + s[n]
  IN upTo[Len(s)]

\* ValidateShape: the stride of a dimension is the product of those after it.
RowMajor(d) == [i \in DOMAIN d |-> Product(SubSeq(d, i + 1, Len(d)))]
===================================================================================
