----------------------------- MODULE ShapeValidation ------------------------------
(***************************************************************************)
(* ValidateShape (native/src/tensor/shape.cc) in machine integers: the     *)
(* element count, the size in bytes and the strides of a shape that comes  *)
(* from outside, computed modulo the size of their types, one turn of a    *)
(* loop at a time.  Null pointers are left out.                            *)
(***************************************************************************)
EXTENDS ShapeMath

CONSTANTS
  Shapes,      \* the dimensions callers pass
  MaxRank,     \* kMaxTensorRank
  MaxNumel,    \* kMaxNumel: the largest int64_t
  MaxSize,     \* the largest size_t
  ElementSize  \* sizeof(float)

\* uint64_t and size_t are counted modulo these.
Word == 2 * (MaxNumel + 1)
SizeWord == MaxSize + 1

ASSUME ShapeAssumption ==
  /\ Shapes \subseteq Seq(-MaxNumel - 1 .. MaxNumel)
  /\ MaxRank \in Nat
  /\ MaxNumel \in Nat \ {0} /\ MaxSize \in Nat \ {0} /\ ElementSize \in Nat \ {0}

VARIABLES
  dims,      \* the argument
  at,        \* the loop it is in, or the result
  done,      \* dimensions the loop is through with
  numel,
  stride,
  strides,
  byte_size,
  exact      \* history: the product, not reduced, of the dimensions counted

shape_vars == <<dims, at, done, numel, stride, strides, byte_size, exact>>

rank == Len(dims)

ShapeInit ==
  /\ dims \in Shapes
  /\ at = "rank" /\ done = 0
  /\ numel = 1 /\ stride = 1 /\ strides = [i \in DOMAIN dims |-> 1]
  /\ byte_size = 0
  /\ exact = 1

Goto(place) == at' = place /\ done' = 0

Reject ==
  /\ Goto("rejected")
  /\ UNCHANGED <<dims, numel, stride, strides, byte_size, exact>>

CheckRank ==
  /\ at = "rank"
  /\ IF rank > MaxRank THEN Reject
     ELSE /\ Goto("count")
          /\ UNCHANGED <<dims, numel, stride, strides, byte_size, exact>>

\* The product is looked at after it was reduced.
Overflows_Wrapped(n, d) == (n * d) % Word > MaxNumel
Overflows(n, d) == n > MaxNumel \div d

Count ==
  LET d == dims[done + 1] IN
  /\ at = "count" /\ done < rank
  /\ IF d <= 0 THEN Reject
     ELSE IF Overflows(numel, d) THEN Reject
     ELSE /\ numel' = (numel * d) % Word
          /\ exact' = exact * d
          /\ done' = done + 1
          /\ UNCHANGED <<dims, at, stride, strides, byte_size>>

\* The check compares elements with bytes, or refuses the largest size there is.
TooLarge_Elements(n) == n > MaxSize
TooLarge_AtLimit(n) == n >= MaxSize \div ElementSize
TooLarge(n) == n > MaxSize \div ElementSize

CheckSize ==
  /\ at = "count" /\ done = rank
  /\ IF TooLarge(numel) THEN Reject
     ELSE /\ Goto("strides")
          /\ UNCHANGED <<dims, numel, stride, strides, byte_size, exact>>

\* The stride of a dimension takes the dimension itself in.
StrideOf_Inclusive(i) == (stride * dims[i]) % Word
StrideOf(i) == stride

\* From the last dimension to the first, which multiplies no stride.
Stride ==
  LET i == rank - done IN
  /\ at = "strides" /\ done < rank
  /\ strides' = [strides EXCEPT ![i] = StrideOf(i)]
  /\ stride' = IF i > 1 THEN (stride * dims[i]) % Word ELSE stride
  /\ done' = done + 1
  /\ UNCHANGED <<dims, at, numel, byte_size, exact>>

Accept ==
  /\ at = "strides" /\ done = rank
  /\ Goto("accepted")
  /\ byte_size' = ((numel % SizeWord) * ElementSize) % SizeWord
  /\ UNCHANGED <<dims, numel, stride, strides, exact>>

ShapeNext == CheckRank \/ Count \/ CheckSize \/ Stride \/ Accept

ShapeSpec == ShapeInit /\ [][ShapeNext]_shape_vars /\ WF_shape_vars(ShapeNext)

-----------------------------------------------------------------------------
(***************************************************************************)
(* Properties                                                              *)
(***************************************************************************)
Place == {"rank", "count", "strides", "accepted", "rejected"}

ShapeTypeOK ==
  /\ dims \in Shapes /\ at \in Place
  /\ done \in 0 .. rank
  /\ numel \in 1 .. MaxNumel /\ exact \in Nat
  /\ byte_size \in 0 .. MaxSize
  /\ stride \in 0 .. Word - 1 /\ strides \in [DOMAIN dims -> 0 .. Word - 1]

Representable(s) ==
  /\ Len(s) <= MaxRank
  /\ \A i \in DOMAIN s : s[i] > 0
  /\ Product(s) <= MaxNumel /\ ElementSize * Product(s) <= MaxSize

\* No count wraps: whatever the loop has counted so far is the product of the
\* dimensions, and the size in bytes of an accepted shape is that of its elements
\* (ValidateShape).
CountsExact ==
  /\ at \in {"count", "strides"} => numel = exact
  /\ at = "accepted" => byte_size = ElementSize * exact

RightAnswer ==
  IF Representable(dims)
  THEN at = "accepted" /\ numel = Product(dims) /\ strides = RowMajor(dims)
  ELSE at = "rejected"

\* A shape is rejected only if it cannot be represented, and accepted only with its
\* element count and with the row-major strides, which reach every element once
\* (ValidateShape).
NeverWrong == at \in {"accepted", "rejected"} => RightAnswer

\* Every shape gets the right answer in the end (ValidateShape).
AnswersRight == <>RightAnswer
===================================================================================
