-------------------------- MODULE MCHandleRegistry --------------------------
(* Model-checking instances of HandleRegistry. *)
EXTENDS HandleRegistry, TLC

CONSTANTS t1, t2, x1, x2, s1, s2, z1

MCSymmetry == Permutations({t1, t2}) \cup Permutations({x1, x2})
                \cup Permutations({s1, s2})
=============================================================================
