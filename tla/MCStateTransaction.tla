---------------------------- MODULE MCStateTransaction ----------------------------
(* Two CPU cells, one of them with a view, and two LibTorch cells, one of  *)
(* them with a second handle.                                              *)
EXTENDS StateTransaction, TLC

CONSTANTS a, view, b, x, again, y

MCTensor == {a, view, b, x, again, y}
MCCell == {1, 2, 3, 4}
MCCellOf == a :> 1 @@ view :> 1 @@ b :> 2 @@ x :> 3 @@ again :> 3 @@ y :> 4
MCIdentityOf == MCCellOf
MCTorch == {3, 4}
MCShape == [t \in MCTensor |-> IF t = view THEN "flat" ELSE "s"]

(* Bound: gradients set at one time. *)
OneGradient == \A t, u \in Tensor : gradient[t] /\ gradient[u] => t = u
===================================================================================
