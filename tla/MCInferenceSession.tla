---------------------------- MODULE MCInferenceSession ----------------------------
(* Two callers of one session. *)
EXTENDS InferenceSession, TLC

CallerSymmetry == Permutations(Caller)
===================================================================================
