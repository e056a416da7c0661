---------------------------- MODULE MCTensorCreation ----------------------------
(* Shapes of up to four dimensions around zero and around the limits of six-bit
   words, where a count of 31 elements is representable and a size of 16 elements
   is not.  Tensors of six elements in one, two and three dimensions, some of length
   one; of four; of one. *)
EXTENDS TensorCreation

Given == {-1, 0, 1, 2, 3, 5, 6, 7, 15, 16, 31}
MCShapes == UNION {[1 .. n -> Given] : n \in 0 .. 4}
MCDimensions ==
  {<<6>>, <<2, 3>>, <<3, 2>>, <<1, 6>>, <<6, 1>>, <<1, 2, 3>>, <<3, 1, 2>>, <<2, 2>>, <<1>>, <<>>}
=================================================================================
