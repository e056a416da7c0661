------------------------------- MODULE MCOptimizer -------------------------------
(* Two optimizers over two parameters. *)
EXTENDS Optimizer, TLC

CONSTANTS p1, p2, o1, o2
MCSymmetry == Permutations(Parameter) \cup Permutations(Optimizer)
==================================================================================
