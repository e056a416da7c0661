------------------------------ MODULE MCTensorLayout ------------------------------
(* Six elements in one and in two dimensions. *)
EXTENDS TensorLayout

Few == {<<2, 3>>, <<6>>}
===================================================================================
