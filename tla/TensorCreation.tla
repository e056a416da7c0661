------------------------------ MODULE TensorCreation ------------------------------
(***************************************************************************)
(* Making tensors from outside (ts_tensor_from_f32 in c_api.cc):           *)
(* ValidateShape takes the dimensions in hand, one turn of a loop at a     *)
(* time; nothing is made before it has accepted them, and the tensor it    *)
(* lets through is the first of those that views and copies start from.    *)
(***************************************************************************)
EXTENDS ShapeValidation, TensorLayout

creation_vars == <<shape_vars, layout_vars>>

CreationInit == ShapeInit /\ LayoutInit

\* The shape is looked at, with no tensor made.
Validate == ShapeNext /\ UNCHANGED layout_vars

\* The data, of as many elements as the shape was found to have, become a tensor.
Create ==
  /\ at = "accepted" /\ tensors = <<>>
  /\ dims \in Dimensions /\ FromData(dims)
  /\ UNCHANGED shape_vars

\* Everything the program does with tensors from then on.
Use == tensors # <<>> /\ LayoutNext /\ UNCHANGED shape_vars

CreationNext == Validate \/ Create \/ Use

\* ValidateShape does not stop half way.
CreationSpec ==
  CreationInit /\ [][CreationNext]_creation_vars /\ WF_shape_vars(ShapeNext)
===================================================================================
