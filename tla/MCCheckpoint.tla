---- MODULE MCCheckpoint ----
(* Two modules of one structure, and one of another shape without a bias. *)
EXTENDS Checkpoint, TLC
CONSTANTS t1, t2, m1, m2, m3

MCConfig ==
     m1 :> [shape |-> "small", use_bias |-> TRUE]
  @@ m2 :> [shape |-> "small", use_bias |-> TRUE]
  @@ m3 :> [shape |-> "large", use_bias |-> FALSE]
====
