---------------------------- MODULE MCAutograd ----------------------------
(* Model-checking instances of Autograd. *)
EXTENDS Autograd

CONSTANTS t1, t2

MCSymmetry == Permutations({t1, t2})
=============================================================================
