------------------------------- MODULE Gradients -------------------------------
(***************************************************************************)
(* What the CPU autograd computes (cpu_backend.cc, training_bridge_stub.cc,*)
(* nn_v2_runtime.h, autograd.h): a program applies kernels to tensors,     *)
(* each result remembers its kernel and operands, and Backward walks the   *)
(* results from last to first, giving the gradient rule of each kernel     *)
(* (ApplyNode) what it has gathered for its result.                        *)
(*                                                                         *)
(* A float is an element of the field of P elements, where the sums,       *)
(* products and quotients of kernels and rules are exact; rounding is left *)
(* out.  exp, log and erf are tables, known by their derivatives alone.    *)
(* Kernels are written over dual numbers <<v, d>>, v + d*e with e*e = 0:   *)
(* with d = 0 they are the kernels of the code, and with one input moved by*)
(* e they give its derivative without any gradient rule.                   *)
(***************************************************************************)
EXTENDS ShapeMath, SequencesExt

CONSTANTS
  P,                    \* an odd prime
  Exp, Log, Erf,        \* the tables of std::exp, std::log and std::erf
  InvSqrt2, InvSqrtPi,  \* constants of gelu
  Programs,             \* leaves a program starts from, kernels it uses, and
                        \* how many tensors it makes at most
  Reshapes,             \* shapes a program reshapes to
  MaxBackwards          \* bound: calls of Backward

Field == 0 .. P - 1

\* A program starts from tensors of its own, without an operation.
Leaves ==
  {leaf \in [operation : {"leaf"}, parents : {<<>>}, dimensions : Seq(Dimension),
             strides : Seq(Nat), values : Seq(Field), requires_grad : BOOLEAN,
             internal : {FALSE}] : Len(leaf.values) = Product(leaf.dimensions)}

ASSUME GradientsAssumption ==
  /\ P \in Nat /\ P > 2 /\ InvSqrt2 \in Int /\ InvSqrtPi \in Int
  /\ \A start \in Programs : start.leaves \in Seq(Leaves)
  /\ Reshapes \subseteq Seq(Dimension)
  /\ \A x \in Field \ {0} : \E y \in Field : (x * y) % P = 1
  /\ Exp \in [Field -> Field \ {0}] /\ Log \in [Field -> Field] /\ Erf \in [Field -> Field]
  /\ \A x \in Field : (Exp[x] * Exp[(-x) % P]) % P = 1 /\ (Exp[x] + 1) % P # 0
  /\ (2 * InvSqrt2 * InvSqrt2) % P = 1

VARIABLES
  program,  \* one of the programs
  tape,     \* tensors in the order they were made
  gradient, \* AutogradMeta::gradient of each: its elements, <<>> for none
  roots     \* history: the tensors Backward was called on

program_vars == <<program, tape, gradient, roots>>

-----------------------------------------------------------------------------
(***************************************************************************)
(* Dual numbers.                                                           *)
(***************************************************************************)
Reciprocal == [x \in Field \ {0} |-> CHOOSE y \in Field : (x * y) % P = 1]

Lift(x) == <<x, 0>>
Lifted(s) == [k \in DOMAIN s |-> Lift(s[k])]
Plus(a, b) == <<(a[1] + b[1]) % P, (a[2] + b[2]) % P>>
Negated(a) == <<(-a[1]) % P, (-a[2]) % P>>
Minus(a, b) == Plus(a, Negated(b))
Times(a, b) == <<(a[1] * b[1]) % P, (a[1] * b[2] + a[2] * b[1]) % P>>
Over(a, b) ==
  LET r == Reciprocal[b[1]]
  IN <<(a[1] * r) % P, (r * (a[2] - a[1] * r * b[2])) % P>>
Total(s) ==
  LET size == Len(s)
      upTo[n \in 0 .. size] == IF n = 0 THEN Lift(0) ELSE Plus(upTo[n - 1], s[n])
  IN upTo[size]
Sum(s) == Total(Lifted(s))[1]

exp(a) == <<Exp[a[1]], (Exp[a[1]] * a[2]) % P>>
log(a) == <<Log[a[1]], (Reciprocal[a[1]] * a[2]) % P>>
erf(a) == <<Erf[a[1]], (2 * InvSqrtPi * Exp[(-a[1] * a[1]) % P] * a[2]) % P>>

\* What a sum of n numbers is divided by for their mean: the field has no mean
\* of as many numbers as its elements.
Averaged(n) == n % P # 0
Divisor(n) == Lift(n % P)

\* Numbers above the middle of the field stand for negative ones.
Positive(x) == x \in 1 .. P \div 2
Negative(x) == x > P \div 2
Signed(x) == IF Negative(x) THEN x - P ELSE x

-----------------------------------------------------------------------------
(***************************************************************************)
(* The kernels.                                                            *)
(***************************************************************************)
Contiguous(t) == tape[t].strides = RowMajor(tape[t].dimensions)

\* Row and column, counted from 0, of the k-th element of a matrix, and back.
RowOf(k, columns) == (k - 1) \div columns
ColumnOf(k, columns) == (k - 1) % columns
ElementAt(row, column, columns) == row * columns + column + 1

\* The elements of a matrix of dimensions d, column by column.
Transposed(d, s) ==
  [k \in DOMAIN s |-> s[ElementAt(ColumnOf(k, d[1]), RowOf(k, d[1]), d[2])]]

sigmoid(a) ==
  IF Negative(a[1]) THEN Over(exp(a), Plus(Lift(1), exp(a)))
  ELSE Over(Lift(1), Plus(Lift(1), exp(Negated(a))))

relu(a) == IF Positive(a[1]) THEN a ELSE Lift(0)

tanh(a) ==
  LET u == exp(Plus(a, a)) IN Over(Minus(u, Lift(1)), Plus(u, Lift(1)))

GeluForward(x) ==
  Over(Times(x, Plus(Lift(1), erf(Times(x, Lift(InvSqrt2))))), Lift(2))

SiluForward(x) ==
  Times(x, Over(Lift(1), Plus(Lift(1), exp(Negated(x)))))

MakeActivation(op, a) ==
  CASE op = "relu" -> relu(a) [] op = "sigmoid" -> sigmoid(a) [] op = "tanh" -> tanh(a)

CpuUnary(op, a) == CASE op = "gelu" -> GeluForward(a) [] op = "silu" -> SiluForward(a)

\* silu of the left half of each row, times the right half.
CpuSwiGlu(width, s) ==
  LET half == width \div 2
      left(k) == ElementAt(RowOf(k, half), ColumnOf(k, half), width)
  IN [k \in 1 .. Len(s) \div 2 |-> Times(SiluForward(s[left(k)]), s[left(k) + half])]

Matmul(d, e, s, r) ==
  [k \in 1 .. d[1] * e[2] |->
     Total([i \in 1 .. d[2] |-> Times(s[ElementAt(RowOf(k, e[2]), i - 1, d[2])],
                                      r[ElementAt(i - 1, ColumnOf(k, e[2]), e[2])])])]

AddBias(columns, s, b) ==
  [k \in DOMAIN s |-> Plus(s[k], b[ColumnOf(k, columns) + 1])]

MseLoss(s, t) ==
  LET difference(k) == Minus(s[k], t[k]) IN
  <<Over(Total([k \in DOMAIN s |-> Times(difference(k), difference(k))]), Divisor(Len(s)))>>

\* The places of the row of a matrix, and the largest logit of a row.
Row(row, columns) == [c \in 1 .. columns |-> ElementAt(row, c - 1, columns)]
MaxLogit(s, places) ==
  s[CHOOSE k \in ToSet(places) :
      \A j \in ToSet(places) : Signed(s[j][1]) <= Signed(s[k][1])]

Denominator(s, places) ==
  Total([c \in DOMAIN places |-> exp(Minus(s[places[c]], MaxLogit(s, places)))])
LogDenominator(s, places) == Plus(log(Denominator(s, places)), MaxLogit(s, places))

CrossEntropyLoss(d, s, t) ==
  LET loss(row) ==
        Total([c \in 1 .. d[2] |->
                 LET k == ElementAt(row, c - 1, d[2])
                 IN Times(t[k], Minus(LogDenominator(s, Row(row, d[2])), s[k]))])
  IN <<Over(Total([row \in 1 .. d[1] |-> loss(row - 1)]), Divisor(d[1]))>>

\* The elements of a result, from the dimensions d and the elements s of its
\* operands.
Kernel(op, d, s) ==
  CASE op \in {"identity", "reshape"} -> s[1]
    [] op = "transpose" -> Transposed(d[1], s[1])
    [] op \in {"relu", "sigmoid", "tanh"} ->
         [k \in DOMAIN s[1] |-> MakeActivation(op, s[1][k])]
    [] op \in {"gelu", "silu"} -> [k \in DOMAIN s[1] |-> CpuUnary(op, s[1][k])]
    [] op = "swiglu" -> CpuSwiGlu(d[1][Len(d[1])], s[1])
    [] op = "add" -> [k \in DOMAIN s[1] |-> Plus(s[1][k], s[2][k])]
    [] op = "multiply" -> [k \in DOMAIN s[1] |-> Times(s[1][k], s[2][k])]
    [] op = "sum" -> <<Total(s[1])>>
    [] op = "matmul" -> Matmul(d[1], d[2], s[1], s[2])
    [] op = "bias_add" -> AddBias(d[1][2], s[1], s[2])
    [] op = "mse" -> MseLoss(s[1], s[2])
    [] op = "cross_entropy" -> CrossEntropyLoss(d[1], s[1], s[2])

-----------------------------------------------------------------------------
(***************************************************************************)
(* ApplyNode: what each operand gets of the gradient g of a result.        *)
(***************************************************************************)
Half == Reciprocal[2]
Sigma(x) == Reciprocal[(1 + Exp[(-x) % P]) % P]

LocalDerivative(op, x) ==
  CASE op = "relu" -> IF Positive(x) THEN 1 ELSE 0
    [] op = "sigmoid" -> Sigma(x) * (1 - Sigma(x))
    [] op = "tanh" -> 1 - tanh(Lift(x))[1] * tanh(Lift(x))[1]
    [] op = "gelu" -> Half * (1 + Erf[(x * InvSqrt2) % P])
                        + x * Exp[(-Half * x * x) % P] * InvSqrt2 * InvSqrtPi
    [] op = "silu" -> Sigma(x) * (1 + x * (1 - Sigma(x)))

\* The elements as they lie.
TransposeGradient_Same(d, g) == g
TransposeGradient(d, g) == Transposed(d, g)

SwiGluGradient(width, s, g) ==
  LET half == width \div 2 IN
  [k \in DOMAIN s |->
     LET row == RowOf(k, width)
         column == ColumnOf(k, width) % half
         a == s[ElementAt(row, column, width)]
         b == s[ElementAt(row, column + half, width)]
         upstream == g[ElementAt(row, column, half)]
     IN IF ColumnOf(k, width) < half
        THEN (upstream * b * LocalDerivative("silu", a)) % P
        ELSE (upstream * a * Sigma(a)) % P]

MatmulGradient(d, e, s, r, g) ==
  << [k \in DOMAIN s |->
        Sum([c \in 1 .. e[2] |-> g[ElementAt(RowOf(k, d[2]), c - 1, e[2])]
                                   * r[ElementAt(ColumnOf(k, d[2]), c - 1, e[2])]])],
     [k \in DOMAIN r |->
        Sum([c \in 1 .. d[1] |-> s[ElementAt(c - 1, RowOf(k, e[2]), d[2])]
                                   * g[ElementAt(c - 1, ColumnOf(k, e[2]), e[2])]])] >>

\* One number per row.
BiasGradient_PerRow(columns, g) == g

BiasGradient(columns, g) ==
  [c \in 1 .. columns |->
     Sum([row \in 1 .. Len(g) \div columns |-> g[ElementAt(row - 1, c - 1, columns)]])]

MseGradient(s, t, g) ==
  LET scale == 2 * g * Reciprocal[Len(s) % P] IN
  << [k \in DOMAIN s |-> (scale * (s[k] - t[k])) % P],
     [k \in DOMAIN s |-> (-scale * (s[k] - t[k])) % P] >>

CrossEntropyGradient(d, s, t, g) ==
  LET scale == g * Reciprocal[d[1] % P]
      places(k) == Row(RowOf(k, d[2]), d[2])
      probability(k) ==
        Over(exp(Minus(Lift(s[k]), MaxLogit(Lifted(s), places(k)))),
             Denominator(Lifted(s), places(k)))[1]
  IN << [k \in DOMAIN s |-> (scale * (probability(k) - t[k])) % P],
        [k \in DOMAIN s |->
           (-scale * (s[k] - LogDenominator(Lifted(s), places(k))[1])) % P] >>

ApplyNode(op, d, s, g) ==
  CASE op \in {"identity", "reshape"} -> <<g>>
    [] op = "transpose" -> <<TransposeGradient(<<d[1][2], d[1][1]>>, g)>>
    [] op \in {"relu", "sigmoid", "tanh", "gelu", "silu"} ->
         <<[k \in DOMAIN g |-> (g[k] * LocalDerivative(op, s[1][k])) % P]>>
    [] op = "swiglu" -> <<SwiGluGradient(d[1][Len(d[1])], s[1], g)>>
    [] op = "add" -> <<g, g>>
    [] op = "multiply" -> << [k \in DOMAIN g |-> (g[k] * s[2][k]) % P],
                             [k \in DOMAIN g |-> (g[k] * s[1][k]) % P] >>
    [] op = "sum" -> <<[k \in DOMAIN s[1] |-> g[1]]>>
    [] op = "matmul" -> MatmulGradient(d[1], d[2], s[1], s[2], g)
    [] op = "bias_add" -> <<g, BiasGradient(d[1][2], g)>>
    [] op = "mse" -> MseGradient(s[1], s[2], g[1])
    [] op = "cross_entropy" -> CrossEntropyGradient(d[1], s[1], s[2], g[1])

-----------------------------------------------------------------------------
(***************************************************************************)
(* Programs.                                                               *)
(***************************************************************************)
Tensors == DOMAIN tape
ShapeOf(t) == tape[t].dimensions

Leaf(d, values, requires_grad) ==
  [operation |-> "leaf", parents |-> <<>>, dimensions |-> d, strides |-> RowMajor(d),
   values |-> values, requires_grad |-> requires_grad, internal |-> FALSE]

ProgramTypeOK ==
  /\ \A t \in Tensors :
       /\ tape[t].values \in [1 .. Product(ShapeOf(t)) -> Field]
       /\ \A i \in DOMAIN tape[t].parents : tape[t].parents[i] < t
       /\ gradient[t] \in {<<>>} \cup [1 .. Product(ShapeOf(t)) -> Field]
  /\ DOMAIN gradient = Tensors

ProgramInit ==
  /\ program \in Programs
  /\ tape = program.leaves
  /\ gradient = [t \in Tensors |-> <<>>]
  /\ roots = <<>>

Operand == {t \in Tensors : ~tape[t].internal}

\* RecordUnary, RecordBinary: a result of tensors made before requires a gradient
\* if one of its operands does.
Result(made, op, parents, d, strides, internal) ==
  LET operand(i) == made[parents[i]]
      result == Kernel(op, [i \in DOMAIN parents |-> operand(i).dimensions],
                           [i \in DOMAIN parents |-> Lifted(operand(i).values)])
  IN [operation |-> op, parents |-> parents, dimensions |-> d, strides |-> strides,
      values |-> [k \in DOMAIN result |-> result[k][1]],
      requires_grad |-> \E i \in DOMAIN parents : operand(i).requires_grad,
      internal |-> internal]

\* Bounds: nothing is computed after the first Backward, and room is kept for a
\* scalar that Backward can be called on.
Room(n, d) ==
  roots = <<>> /\ Len(tape) + n + (IF d = <<>> THEN 0 ELSE 1) <= program.most

Uses(op) == op \in program.kernels

Extend(tensor) ==
  /\ Room(1, tensor.dimensions)
  /\ tape' = Append(tape, tensor)
  /\ gradient' = Append(gradient, <<>>)
  /\ UNCHANGED <<program, roots>>

Record(op, parents, d) ==
  Uses(op) /\ Extend(Result(tape, op, parents, d, RowMajor(d), FALSE))

\* Transfer: a copy on the same device.
Transfer(t) == Record("identity", <<t>>, ShapeOf(t))

\* CloneAsLeaf: a copy that remembers nothing.
WithRequiresGrad(t, flag) ==
  Uses("leaf") /\ Extend(Leaf(ShapeOf(t), tape[t].values, flag))

ReshapeTo(t, d) == Product(d) = Product(ShapeOf(t)) /\ Record("reshape", <<t>>, d)

Swapped(s) == <<s[2], s[1]>>

TransposeMatrix(t) ==
  /\ Uses("transpose") /\ Len(ShapeOf(t)) = 2
  /\ Extend(Result(tape, "transpose", <<t>>, Swapped(ShapeOf(t)), Swapped(tape[t].strides), FALSE))

SameShape(l, r) == ShapeOf(l) = ShapeOf(r)

Entrywise(op, l, r) == SameShape(l, r) /\ Record(op, <<l, r>>, ShapeOf(l))

SumAll(t) == Record("sum", <<t>>, <<>>)

Multipliable(d, e) == Len(d) = 2 /\ Len(e) = 2 /\ d[2] = e[1]

MatrixProduct(l, r) ==
  /\ Multipliable(ShapeOf(l), ShapeOf(r))
  /\ Record("matmul", <<l, r>>, <<ShapeOf(l)[1], ShapeOf(r)[2]>>)

\* Relu, Sigmoid, Tanh read the storage of a tensor: CpuValues refuses a view
\* that is not contiguous.
StableActivation(op, t) == Contiguous(t) /\ Record(op, <<t>>, ShapeOf(t))

GeluOrSilu(op, t) == Record(op, <<t>>, ShapeOf(t))

SwiGlu(t) ==
  LET d == ShapeOf(t) IN
  /\ d # <<>> /\ d[Len(d)] % 2 = 0
  /\ Record("swiglu", <<t>>, [d EXCEPT ![Len(d)] = @ \div 2])

IsLeaf(t) == tape[t].operation = "leaf"
Parameter(t) == IsLeaf(t) /\ tape[t].requires_grad

\* ModuleForward of a Linear with weight w and bias b, each of which may be frozen;
\* the product is internal.
LinearForward(t, w, b) ==
  /\ Uses("bias_add") /\ Room(2, ShapeOf(t)) /\ IsLeaf(w) /\ IsLeaf(b)
  /\ Multipliable(ShapeOf(t), ShapeOf(w))
  /\ ShapeOf(b) = <<ShapeOf(w)[2]>>
  /\ LET d == <<ShapeOf(t)[1], ShapeOf(w)[2]>>
         made == Append(tape, Result(tape, "matmul", <<t, w>>, d, RowMajor(d), TRUE))
     IN tape' = Append(made, Result(made, "bias_add", <<Len(made), b>>, d, RowMajor(d), FALSE))
  /\ gradient' = gradient \o << <<>>, <<>> >>
  /\ UNCHANGED <<program, roots>>

SquaredError(l, r) ==
  /\ SameShape(l, r) /\ Contiguous(l) /\ Contiguous(r) /\ Averaged(Product(ShapeOf(l)))
  /\ Record("mse", <<l, r>>, <<>>)

\* A sum of exponentials is never zero.
Summable(d, s) ==
  \A row \in 0 .. d[1] - 1 : Denominator(Lifted(s), Row(row, d[2]))[1] # 0

CrossEntropy(l, r) ==
  /\ SameShape(l, r) /\ Len(ShapeOf(l)) = 2 /\ Contiguous(l) /\ Contiguous(r)
  /\ Summable(ShapeOf(l), tape[l].values) /\ Averaged(ShapeOf(l)[1])
  /\ Record("cross_entropy", <<l, r>>, <<>>)

-----------------------------------------------------------------------------
(***************************************************************************)
(* Backward.                                                               *)
(***************************************************************************)

\* A gradient of nothing so far is replaced, any other is added to.
Accumulate(sum, g) ==
  IF sum = <<>> THEN g ELSE [k \in DOMAIN g |-> (sum[k] + g[k]) % P]

\* What tensor t has gathered goes to those of its operands that require it, the
\* first one first.
Distribute(gathered, t) ==
  LET node == tape[t]
      contribution ==
        ApplyNode(node.operation,
                  [i \in DOMAIN node.parents |-> ShapeOf(node.parents[i])],
                  [i \in DOMAIN node.parents |-> tape[node.parents[i]].values],
                  gathered[t])
      give(g, i) ==
        IF i \in DOMAIN node.parents /\ tape[node.parents[i]].requires_grad
        THEN [g EXCEPT ![node.parents[i]] = Accumulate(@, contribution[i])] ELSE g
  IN IF gathered[t] = <<>> \/ ~node.requires_grad \/ node.operation = "leaf" THEN gathered
     ELSE give(give(gathered, 1), 2)

\* The main loop, from the last tensor made to the first: an order in which
\* results come before their operands.  That the depth-first search of the code
\* finds one is shown in Autograd.
Gathered(root) ==
  LET walked[n \in 0 .. Len(tape)] ==
        IF n = 0 THEN [t \in Tensors |-> IF t = root THEN <<1>> ELSE <<>>]
        ELSE Distribute(walked[n - 1], Len(tape) + 1 - n)
  IN walked[Len(tape)]

Backward(root) ==
  /\ Len(roots) < MaxBackwards
  /\ Product(ShapeOf(root)) = 1 /\ tape[root].requires_grad
  /\ LET gathered == Gathered(root) IN
     gradient' = [t \in Tensors |->
                    IF Parameter(t) /\ gathered[t] # <<>>
                    THEN Accumulate(gradient[t], gathered[t]) ELSE gradient[t]]
  /\ roots' = Append(roots, root)
  /\ UNCHANGED <<program, tape>>

Compute(t) ==
  \/ Transfer(t) \/ (\E flag \in BOOLEAN : WithRequiresGrad(t, flag))
  \/ (\E d \in Reshapes : ReshapeTo(t, d)) \/ TransposeMatrix(t)
  \/ \E op \in {"relu", "sigmoid", "tanh"} : StableActivation(op, t)
  \/ \E op \in {"gelu", "silu"} : GeluOrSilu(op, t)
  \/ SwiGlu(t) \/ SumAll(t)

Combine(l, r) ==
  \/ \E op \in {"add", "multiply"} : Entrywise(op, l, r)
  \/ MatrixProduct(l, r) \/ (\E b \in Operand : LinearForward(l, r, b))
  \/ SquaredError(l, r) \/ CrossEntropy(l, r)

ProgramNext ==
  \/ \E t \in Operand : Compute(t) \/ Backward(t)
  \/ \E l, r \in Operand : Combine(l, r)

ProgramSpec == ProgramInit /\ [][ProgramNext]_program_vars

-----------------------------------------------------------------------------
(***************************************************************************)
(* Properties                                                              *)
(***************************************************************************)

\* The tape computed over again, with element k of leaf l moved by e.
Moved(l, k) ==
  LET replay(done, t) ==
        LET node == tape[t]
            operands == [i \in DOMAIN node.parents |-> done[node.parents[i]]]
            dimensions == [i \in DOMAIN node.parents |-> ShapeOf(node.parents[i])]
        IN Append(done,
             IF node.operation # "leaf" THEN Kernel(node.operation, dimensions, operands)
             ELSE [j \in DOMAIN node.values |->
                     <<node.values[j], IF t = l /\ j = k THEN 1 ELSE 0>>])
  IN FoldLeft(replay, <<>>, [t \in Tensors |-> t])

\* How much the tensors Backward was called on move, all together.
Derivative(l, k) ==
  LET moved == Moved(l, k)
  IN Sum([i \in DOMAIN roots |-> moved[roots[i]][1][2]])

\* The rows of each target of cross entropy sum to one, as one-hot rows do.
TargetsNormalized ==
  \A t \in Tensors :
    tape[t].operation = "cross_entropy" =>
      LET target == tape[t].parents[2] IN
      \A row \in 0 .. ShapeOf(target)[1] - 1 :
        Sum([c \in 1 .. ShapeOf(target)[2] |->
               tape[target].values[ElementAt(row, c - 1, ShapeOf(target)[2])]]) = 1

\* However kernels, views and shared operands are put together, Backward leaves
\* each leaf that requires one the derivative of the tensors it was called on
\* with respect to each of its elements, and no other tensor a gradient
\* (Backward, ApplyNode, Accumulate).
GradientsExact ==
  roots # <<>> /\ TargetsNormalized =>
    \A t \in Tensors :
      IF Parameter(t)
      THEN \A k \in DOMAIN tape[t].values :
             Derivative(t, k) = IF gradient[t] = <<>> THEN 0 ELSE gradient[t][k]
      ELSE gradient[t] = <<>>
=================================================================================
