------------------------------- MODULE TensorLayout -------------------------------
(***************************************************************************)
(* Views of CPU tensors: a tensor reads the storage it shares with others  *)
(* through dimensions and strides (tensor.h, tensor.cc, cpu_backend.cc),   *)
(* and everything that leaves the runtime has to be in logical order, the  *)
(* last dimension fastest.                                                 *)
(*                                                                         *)
(* The position of an element in its storage stands for the element; every *)
(* write gives a storage new contents.  The storage offset is left out: no *)
(* operation makes it other than 0.                                        *)
(***************************************************************************)
EXTENDS ShapeMath

CONSTANTS
  Dimensions, \* the shapes of the program
  MaxMade,    \* tensors made
  MaxWritten  \* values written in place

ASSUME TensorLayoutAssumption ==
  /\ Dimensions \subseteq Seq(Dimension)
  /\ MaxMade \in Nat /\ MaxWritten \in Nat

VARIABLES
  tensors,  \* the tensors made: dimensions, strides and storage
  storages, \* the contents of each storage
  order,    \* history: each tensor's elements in logical order, as places of its storage
  written,  \* writes made
  given     \* what was last read from a tensor, and by whom

layout_vars == <<tensors, storages, order, written, given>>

Made == DOMAIN tensors
Numel(t) == Product(tensors[t].dimensions)
Identity(n) == [k \in 1 .. n |-> k]

\* What a program that reads tensor t has to get.
Logical(t) == [k \in 1 .. Numel(t) |-> storages[tensors[t].storage][order[t][k]]]

\* The contents a storage of n elements gets by write w.
Contents(w, n) == [k \in 1 .. n |-> <<w, k>>]

LayoutTypeOK ==
  /\ Len(tensors) <= MaxMade /\ Len(order) = Len(tensors)
  /\ \A t \in Made :
       LET x == tensors[t] IN
       /\ Len(x.strides) = Len(x.dimensions)
       /\ x.storage \in DOMAIN storages
       /\ Len(storages[x.storage]) = Numel(t)
  /\ written \in 0 .. MaxWritten
  /\ given.reader \in {"none", "host", "onnx", "torch"}

LayoutInit ==
  /\ tensors = <<>> /\ storages = <<>> /\ order = <<>>
  /\ written = 0
  /\ given = [reader |-> "none", tensor |-> 1, values |-> <<>>]

-----------------------------------------------------------------------------
(***************************************************************************)
(* Shapes and strides.                                                     *)
(***************************************************************************)

\* A tensor with neighbours somewhere.
IsContiguous_UnitStride(t) == \E i \in DOMAIN tensors[t].strides : tensors[t].strides[i] = 1

IsContiguous(t) == tensors[t].strides = RowMajor(tensors[t].dimensions)

\* logical_storage_index: the coordinates of logical index k, counted from 0,
\* are its digits in the mixed radix of the dimensions.
StorageIndex(t, k) ==
  LET x == tensors[t]
      digit(i) == (k \div RowMajor(x.dimensions)[i]) % x.dimensions[i]
  IN SumOf([i \in DOMAIN x.dimensions |-> digit(i) * x.strides[i]])

RawValues(t) == storages[tensors[t].storage]

\* Tensor::CopyToHostF32: a contiguous tensor is its storage, from first to last.
CopyToHost(t) ==
  IF IsContiguous(t) THEN RawValues(t)
  ELSE [k \in 1 .. Numel(t) |-> RawValues(t)[StorageIndex(t, k - 1) + 1]]

-----------------------------------------------------------------------------
(***************************************************************************)
(* Operations.                                                             *)
(***************************************************************************)
Add(d, s, st, o) ==
  /\ tensors' = Append(tensors, [dimensions |-> d, strides |-> s, storage |-> st])
  /\ order' = Append(order, o)

\* A tensor of shape d with storage of its own.
Materialize(d, values) ==
  /\ storages' = Append(storages, values)
  /\ Add(d, RowMajor(d), Len(storages) + 1, Identity(Product(d)))

FromData(d) ==
  /\ Len(tensors) < MaxMade
  /\ Materialize(d, Contents(0, Product(d)))
  /\ UNCHANGED <<written, given>>

\* Any shape is taken.
Fits_Any(t, d) == TRUE

\* A reshape preserves the element count.
Fits(t, d) == Product(d) = Numel(t)

\* Reshape: a view if the tensor is contiguous, otherwise a copy in logical
\* order.
Reshape(t, d) ==
  /\ Len(tensors) < MaxMade /\ Fits(t, d)
  /\ IF IsContiguous(t)
     THEN /\ Add(d, RowMajor(d), tensors[t].storage, order[t])
          /\ UNCHANGED storages
     ELSE Materialize(d, CopyToHost(t))
  /\ UNCHANGED <<written, given>>

Swap(s) == <<s[2], s[1]>>

\* The k-th element of the transpose is the element its coordinates, swapped,
\* had in t.
TransposedOrder(t) ==
  LET rows == tensors[t].dimensions[1]
      columns == tensors[t].dimensions[2]
  IN [k \in 1 .. Numel(t) |->
        order[t][((k - 1) % rows) * columns + (k - 1) \div rows + 1]]

TransposedStrides(t) == Swap(tensors[t].strides)

Transpose2D(t) ==
  /\ Len(tensors) < MaxMade /\ Len(tensors[t].dimensions) = 2
  /\ Add(Swap(tensors[t].dimensions), TransposedStrides(t), tensors[t].storage,
         TransposedOrder(t))
  /\ UNCHANGED <<storages, written, given>>

\* Element by element on LogicalValues; so are to() and withRequiresGrad().
Elementwise(t) ==
  /\ Len(tensors) < MaxMade
  /\ Materialize(tensors[t].dimensions, CopyToHost(t))
  /\ UNCHANGED <<written, given>>

\* Any tensor of its storage's size may be written.
Mutable_Any(t) == TRUE

\* MutableCpuValues.
Mutable(t) == IsContiguous(t)

\* An optimizer or AssignMany writes the values of t, in its logical order,
\* from the first place of the storage on.
Write(t) ==
  /\ written < MaxWritten /\ Mutable(t)
  /\ written' = written + 1
  /\ storages' = [storages EXCEPT ![tensors[t].storage] = Contents(written', Numel(t))]
  /\ UNCHANGED <<tensors, order, given>>

Give(reader, t, values) ==
  /\ given' = [reader |-> reader, tensor |-> t, values |-> values]
  /\ UNCHANGED <<tensors, storages, order, written>>

ToHost(t) == Give("host", t, CopyToHost(t))

\* TensorToHost copies the storage as it lies; so does TensorToTorch.
ToOnnx(t) == Give("onnx", t, RawValues(t))
ToTorch(t) == Give("torch", t, RawValues(t))

LayoutNext ==
  \/ \E d \in Dimensions : FromData(d)
  \/ \E t \in Made :
       \/ \E d \in Dimensions : Reshape(t, d)
       \/ Transpose2D(t) \/ Elementwise(t) \/ Write(t)
       \/ ToHost(t) \/ ToOnnx(t) \/ ToTorch(t)

LayoutSpec == LayoutInit /\ [][LayoutNext]_layout_vars

-----------------------------------------------------------------------------
(***************************************************************************)
(* Properties                                                              *)
(***************************************************************************)

\* Whatever views and copies led to a tensor, and whoever wrote its storage
\* since, copying it to the host gives its elements in logical order
\* (CopyToHostF32, logical_storage_index, Reshape, Transpose2D).
LogicalOrder == \A t \in Made : CopyToHost(t) = Logical(t)

\* Values written in place through a tensor are read back through it, however
\* the tensor came about (MutableCpuValues).
WrittenReadsBack ==
  [][\A t \in Made : Write(t) => Logical(t)' = Contents(written', Numel(t))]_layout_vars

\* TRAINING_ENGINE_V1_STATUS.md: "non-contiguous operations consume logical
\* tensor order rather than raw backing-storage order": so should ONNX Runtime
\* and LibTorch (TensorToHost, TensorToTorch).
ReadersGetLogicalOrder ==
  [][given' # given => given'.values = Logical(given'.tensor)]_layout_vars
===================================================================================
