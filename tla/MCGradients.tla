------------------------------- MODULE MCGradients -------------------------------
(* The field of 23 elements; a matrix x, a Linear of weight w and bias b, and a
   target y, in variants of what requires a gradient. *)
EXTENDS Gradients

MCP == 23
MCExp ==
  [x \in 0 .. 22 |-> IF x = 0 THEN 1
                     ELSE IF x <= 11 THEN x + 1
                     ELSE CHOOSE y \in 1 .. 22 : (y * (24 - x)) % 23 = 1]
MCLog == [x \in 0 .. 22 |-> (x * x + 3) % 23]
MCErf == [x \in 0 .. 22 |-> (5 * x * x * x + x) % 23]

x(flag) == Leaf(<<2, 1>>, <<3, 20>>, flag)
w(flag) == Leaf(<<1, 2>>, <<5, 21>>, flag)
b(flag) == Leaf(<<2>>, <<2, 19>>, flag)
m == Leaf(<<2, 3>>, <<1, 4, 22, 7, 2, 11>>, TRUE)
v == Leaf(<<3, 2>>, <<3, 18, 0, 9, 6, 14>>, TRUE)
y(flag) == Leaf(<<2, 2>>, <<0, 1, 7, 17>>, flag)

Kernels ==
  {"leaf", "identity", "reshape", "transpose", "relu", "sigmoid", "tanh", "gelu", "silu",
   "swiglu", "sum", "add", "multiply", "matmul", "bias_add", "mse", "cross_entropy"}

Program(leaves, kernels, most) == [leaves |-> leaves, kernels |-> kernels, most |-> most]

\* Every kernel between the leaves and a scalar; then a few of them, more of each.
MCPrograms ==
  {Program(<<x(TRUE), w(TRUE), b(TRUE), y(FALSE)>>, Kernels, 6),
   Program(<<x(FALSE), w(TRUE), b(TRUE), y(TRUE)>>, Kernels, 6),
   Program(<<m, v>>, {"transpose", "reshape", "matmul", "multiply", "sum", "mse"}, 5),
   Program(<<x(FALSE), w(TRUE), b(TRUE), y(FALSE)>>,
           {"bias_add", "swiglu", "cross_entropy"}, 8),
   Program(<<x(TRUE), w(FALSE), b(TRUE)>>, {"bias_add", "tanh", "multiply", "sum"}, 6),
   Program(<<x(FALSE), w(TRUE), b(FALSE)>>, {"bias_add", "tanh", "multiply", "sum"}, 6),
   Program(<<x(TRUE)>>, {"leaf", "identity", "add", "sum"}, 5)}
MCReshapes == {<<2>>, <<4>>, <<2, 2>>, <<3, 2>>}
===================================================================================
