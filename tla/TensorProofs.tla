---------------------------- MODULE TensorProofs ----------------------------
(***************************************************************************)
(* What is proved of tensors, for shapes of every rank: views and copies   *)
(* keep their elements in logical order (TensorLayout), shapes from        *)
(* outside get the right answer (ShapeValidation), so do tensors made of    *)
(* them (TensorCreation), and the kernels and gradient rules give tensors  *)
(* of the shapes they say (Gradients).                                     *)
(***************************************************************************)
EXTENDS TensorCreation, Gradients, NaturalsInduction,
        WellFoundedInduction, FiniteSetTheorems, SequenceTheorems, TLAPS
-----------------------------------------------------------------------------
(***************************************************************************)
(* Products of dimensions, for shapes of every rank: induction over the    *)
(* number of dimensions.  And the arithmetic of quotients and remainders   *)
(* that the coordinates of a matrix need.                                  *)
(***************************************************************************)
\* Every nonempty set of numbers has a least one.
LEMMA LeastElement ==
  ASSUME NEW T, T \subseteq Nat, T # {}
  PROVE  \E n \in T : \A m \in T : n <= m
<1>1. \E n \in T : \A m \in T : ~(<<m, n>> \in OpToRel(<, Nat))
  BY NatLessThanWellFounded, WFMin, Zenon
<1>2. \E n \in T : \A m \in T : ~(m < n)
  BY <1>1, Zenon DEF OpToRel
<1>3. QED
  BY <1>2

\* Induction over the numbers up to N.
LEMMA UpToInduction ==
  ASSUME NEW N \in Nat, NEW T, 0 \in T,
         \A n \in 0 .. N - 1 : n \in T => n + 1 \in T
  PROVE  \A n \in 0 .. N : n \in T
<1> SUFFICES ASSUME (0 .. N) \ T # {} PROVE FALSE
  OBVIOUS
<1>1. PICK n \in (0 .. N) \ T : \A m \in (0 .. N) \ T : n <= m
  <2>1. (0 .. N) \ T \subseteq Nat
    OBVIOUS
  <2>2. QED
    BY <2>1, LeastElement
<1>2. n # 0 /\ n - 1 \in 0 .. N - 1 /\ (n - 1) + 1 = n
  BY <1>1
<1>3. n - 1 \in T
  BY <1>1, <1>2
<1>4. QED
  BY <1>1, <1>2, <1>3

\* A function on the numbers from 1 to n is a list of n elements.
LEMMA LengthOf ==
  ASSUME NEW s, NEW n \in Nat, DOMAIN s = 1 .. n
  PROVE  Len(s) = n
OBVIOUS

ProductStep(s, f) ==
  [n \in 0 .. Len(s) |-> IF n = 0 THEN 1 ELSE f[n - 1] * s[n]]

\* The products of the first dimensions.
UpTo(s) == CHOOSE f : f = ProductStep(s, f)

\* Product is a recursive function.
LEMMA ProductUnfolds ==
  ASSUME NEW s
  PROVE  Product(s) = UpTo(s)[Len(s)]
BY Zenon DEF Product, UpTo, ProductStep

\* The recursion of Product is well founded, and its values are numbers.
LEMMA UpToExists ==
  ASSUME NEW s \in Seq(Int)
  PROVE  \E f \in [0 .. Len(s) -> Int] : f = ProductStep(s, f)
<1> DEFINE N == Len(s)
           Solves(n, f) ==
             \A m \in 0 .. n : f[m] = IF m = 0 THEN 1 ELSE f[m - 1] * s[m]
           T == {n \in 0 .. N : \E f \in [0 .. N -> Int] : Solves(n, f)}
<1>1. N \in Nat /\ \A n \in 1 .. N : s[n] \in Int
  OBVIOUS
<1>2. 0 \in T
  <2> DEFINE f == [m \in 0 .. N |-> 1]
  <2>1. f \in [0 .. N -> Int] /\ f[0] = 1
    BY <1>1
  <2>2. \A m \in 0 .. 0 : m = 0
    OBVIOUS
  <2> HIDE DEF f
  <2>3. Solves(0, f)
    BY <2>1, <2>2
  <2>4. QED
    BY <1>1, <2>1, <2>3
<1>3. ASSUME NEW n \in 0 .. N - 1, n \in T
      PROVE  n + 1 \in T
  <2>1. PICK f \in [0 .. N -> Int] : Solves(n, f)
    BY <1>3
  <2> DEFINE g == [f EXCEPT ![n + 1] = f[n] * s[n + 1]]
  <2>2. f[n] * s[n + 1] \in Int /\ n + 1 \in 0 .. N
    <3>1. n \in 0 .. N /\ n + 1 \in 1 .. N
      BY <1>1
    <3>2. f[n] \in Int /\ s[n + 1] \in Int
      BY <1>1, <2>1, <3>1
    <3>3. QED
      BY <3>1, <3>2
  <2>3. g \in [0 .. N -> Int] /\ g[n + 1] = f[n] * s[n + 1]
        /\ \A m \in 0 .. n : g[m] = f[m]
    BY <1>1, <2>1, <2>2
  <2>4. ASSUME NEW m \in 0 .. n + 1
        PROVE  g[m] = IF m = 0 THEN 1 ELSE g[m - 1] * s[m]
    <3>1. CASE m \in 0 .. n
      <4>1. m = 0 \/ m - 1 \in 0 .. n
        BY <3>1
      <4>2. QED
        BY <2>1, <2>3, <3>1, <4>1
    <3>2. CASE m = n + 1
      <4>1. m # 0 /\ m - 1 = n /\ n \in 0 .. n
        BY <1>1, <3>2
      <4>2. QED
        BY <2>3, <3>2, <4>1
    <3>3. QED
      BY <1>1, <3>1, <3>2
  <2>5. QED
    BY <2>2, <2>3, <2>4
<1>4. N \in T
  <2> HIDE DEF T, N
  <2>1. \A n \in 0 .. N : n \in T
    BY <1>1, <1>2, <1>3, UpToInduction
  <2>2. QED
    BY <1>1, <2>1
<1>5. PICK f \in [0 .. N -> Int] : Solves(N, f)
  BY <1>4
<1>6. f = ProductStep(s, f)
  BY <1>5 DEF ProductStep
<1>7. QED
  BY <1>6

\* What the recursion of Product says.
LEMMA UpToIs ==
  ASSUME NEW s \in Seq(Int)
  PROVE  /\ UpTo(s) \in [0 .. Len(s) -> Int] /\ UpTo(s)[0] = 1
         /\ \A n \in 1 .. Len(s) : UpTo(s)[n] = UpTo(s)[n - 1] * s[n]
<1> DEFINE f == UpTo(s)
<1>1. f = ProductStep(s, f)
  BY UpToExists, Zenon DEF UpTo
<1>2. Len(s) \in Nat /\ \A n \in 1 .. Len(s) : s[n] \in Int
  OBVIOUS
<1> HIDE DEF f
<1>3. /\ f = [n \in 0 .. Len(s) |-> f[n]]
      /\ f[0] = 1 /\ \A n \in 1 .. Len(s) : f[n] = f[n - 1] * s[n]
  BY <1>1, <1>2 DEF ProductStep
<1> DEFINE T == {n \in 0 .. Len(s) : f[n] \in Int}
<1>4. \A n \in 0 .. Len(s) : n \in T
  <2>1. 0 \in T
    BY <1>2, <1>3
  <2>2. \A n \in 0 .. Len(s) - 1 : n \in T => n + 1 \in T
    <3>1. ASSUME NEW n \in 0 .. Len(s) - 1, n \in T PROVE n + 1 \in T
      <4>1. n + 1 \in 1 .. Len(s) /\ (n + 1) - 1 = n
        BY <1>2
      <4>2. f[n + 1] = f[n] * s[n + 1] /\ f[n] \in Int /\ s[n + 1] \in Int
        BY <1>2, <1>3, <3>1, <4>1
      <4>3. QED
        BY <4>1, <4>2
    <3>2. QED
      BY <3>1
  <2> HIDE DEF T
  <2>3. QED
    BY <1>2, <2>1, <2>2, UpToInduction
<1>5. f \in [0 .. Len(s) -> Int]
  BY <1>3, <1>4
<1>6. QED
  BY <1>3, <1>5 DEF f

\* A product is a number; of no dimensions it is 1, of more it takes in the last.
LEMMA ProductType ==
  ASSUME NEW s \in Seq(Int)
  PROVE  /\ Product(s) \in Int
         /\ Len(s) = 0 => Product(s) = 1
<1>1. Len(s) \in Nat
  OBVIOUS
<1>2. QED
  BY <1>1, ProductUnfolds, UpToIs

\* The first dimension may be taken out.
LEMMA ProductOfTail ==
  ASSUME NEW s \in Seq(Int), Len(s) > 0
  PROVE  Product(s) = s[1] * Product(Tail(s))
<1> DEFINE t == Tail(s)
           N == Len(t)
           T == {n \in 0 .. N : UpTo(s)[n + 1] = s[1] * UpTo(t)[n]}
<1>1. /\ t \in Seq(Int) /\ N \in Nat /\ Len(s) = N + 1 /\ s[1] \in Int
      /\ \A n \in 1 .. N : t[n] = s[n + 1] /\ t[n] \in Int
  OBVIOUS
<1> HIDE DEF t, N
<1>2. /\ UpTo(s) \in [0 .. N + 1 -> Int] /\ UpTo(s)[0] = 1
      /\ \A n \in 1 .. N + 1 : UpTo(s)[n] = UpTo(s)[n - 1] * s[n]
  BY <1>1, UpToIs
<1>3. /\ UpTo(t) \in [0 .. N -> Int] /\ UpTo(t)[0] = 1
      /\ \A n \in 1 .. N : UpTo(t)[n] = UpTo(t)[n - 1] * t[n]
  BY <1>1, UpToIs DEF N
<1>4. 0 \in T
  <2>1. UpTo(s)[1] = UpTo(s)[1 - 1] * s[1]
    BY <1>1, <1>2
  <2>2. UpTo(s)[0 + 1] = s[1] /\ s[1] * UpTo(t)[0] = s[1]
    BY <1>1, <1>2, <1>3, <2>1
  <2>3. QED
    BY <1>1, <2>2
<1>5. ASSUME NEW n \in 0 .. N - 1, n \in T PROVE n + 1 \in T
  <2>1. /\ n + 1 \in 1 .. N /\ n + 2 \in 1 .. N + 1 /\ n \in 0 .. N
        /\ (n + 2) - 1 = n + 1 /\ (n + 1) - 1 = n /\ (n + 1) + 1 = n + 2
    BY <1>1
  <2>2. /\ UpTo(s)[n + 2] = UpTo(s)[n + 1] * s[n + 2]
        /\ UpTo(t)[n + 1] = UpTo(t)[n] * t[n + 1]
        /\ t[n + 1] = s[n + 2] /\ t[n + 1] \in Int
    BY <1>1, <1>2, <1>3, <2>1
  <2>3. PICK a \in Int : a = UpTo(t)[n]
    BY <1>3, <2>1
  <2>4. PICK d \in Int : d = t[n + 1]
    BY <2>2
  <2>5. PICK b \in Int : b = s[1]
    BY <1>1
  <2>6. UpTo(s)[n + 2] = (b * a) * d /\ UpTo(t)[n + 1] = a * d
    BY <1>5, <2>2, <2>3, <2>4, <2>5
  <2>7. (b * a) * d = b * (a * d)
    OBVIOUS
  <2>8. QED
    BY <2>1, <2>5, <2>6, <2>7
<1>6. N \in T
  <2> HIDE DEF T
  <2>1. \A n \in 0 .. N : n \in T
    BY <1>1, <1>4, <1>5, UpToInduction
  <2>2. QED
    BY <1>1, <2>1
<1>7. UpTo(s)[N + 1] = s[1] * UpTo(t)[N]
  BY <1>6
<1>8. QED
  BY <1>1, <1>7, ProductUnfolds DEF t, N

\* The products of no, one and two dimensions.
LEMMA ProductOfTwo ==
  ASSUME NEW a \in Int, NEW b \in Int
  PROVE  Product(<<>>) = 1 /\ Product(<<a>>) = a /\ Product(<<a, b>>) = a * b
<1>1. Product(<<>>) = 1
  <2>1. <<>> \in Seq(Int) /\ Len(<<>>) = 0
    OBVIOUS
  <2>2. QED
    BY <2>1, ProductType
<1>2. \A d \in Int : Product(<<d>>) = d
  <2>1. ASSUME NEW d \in Int PROVE Product(<<d>>) = d
    <3>1. <<d>> \in Seq(Int) /\ Len(<<d>>) > 0 /\ <<d>>[1] = d /\ Tail(<<d>>) = <<>>
      OBVIOUS
    <3>2. Product(<<d>>) = <<d>>[1] * Product(Tail(<<d>>))
      BY <3>1, ProductOfTail
    <3>3. QED
      BY <1>1, <3>1, <3>2
  <2>2. QED
    BY <2>1
<1>3. <<a, b>> \in Seq(Int) /\ Len(<<a, b>>) > 0 /\ <<a, b>>[1] = a /\ Tail(<<a, b>>) = <<b>>
  OBVIOUS
<1>4. Product(<<a, b>>) = <<a, b>>[1] * Product(Tail(<<a, b>>))
  BY <1>3, ProductOfTail
<1>5. QED
  BY <1>1, <1>2, <1>3, <1>4

\* Products of positive dimensions are positive and grow.
LEMMA ProductGrows ==
  ASSUME NEW s \in Seq(Int), \A i \in 1 .. Len(s) : s[i] > 0
  PROVE  /\ \A n \in 0 .. Len(s) : UpTo(s)[n] \in Nat \ {0}
         /\ \A n \in 0 .. Len(s) : UpTo(s)[n] <= Product(s)
         /\ Product(s) \in Nat \ {0}
<1> DEFINE N == Len(s)
           f == UpTo(s)
           T == {n \in 0 .. N : f[n] \in Nat \ {0} /\ \A m \in 0 .. n : f[m] \in Int /\ f[m] <= f[n]}
<1>1. /\ N \in Nat /\ \A n \in 1 .. N : s[n] \in Nat \ {0}
      /\ f[0] = 1 /\ \A n \in 1 .. N : f[n] = f[n - 1] * s[n]
  BY UpToIs
<1> HIDE DEF f, N
<1>2. 0 \in T
  BY <1>1
<1>3. ASSUME NEW n \in 0 .. N - 1, n \in T PROVE n + 1 \in T
  <2>1. n + 1 \in 1 .. N /\ (n + 1) - 1 = n
    BY <1>1
  <2>2. f[n + 1] = f[n] * s[n + 1]
    BY <1>1, <2>1
  <2>3. PICK a \in Nat \ {0} : a = f[n]
    BY <1>3
  <2>4. PICK d \in Nat \ {0} : d = s[n + 1]
    BY <1>1, <2>1
  <2>5. a * d \in Nat \ {0} /\ a <= a * d
    <3>1. PICK e \in Nat : d = e + 1
      BY <2>4
    <3>2. a * d = a * e + a /\ a * e \in Nat
      BY <3>1
    <3>3. QED
      BY <3>2
  <2>6. f[n + 1] = a * d
    BY <2>2, <2>3, <2>4
  <2>7. \A m \in 0 .. n : f[m] <= a /\ f[m] \in Int
    BY <1>3, <2>3
  <2>8. QED
    BY <2>1, <2>3, <2>5, <2>6, <2>7
<1>4. \A n \in 0 .. N : n \in T
  <2> HIDE DEF T
  <2>1. QED
    BY <1>1, <1>2, <1>3, UpToInduction
<1>5. Product(s) = f[N] /\ N \in 0 .. N
  BY <1>1, ProductUnfolds DEF f, N
<1>6. QED
  BY <1>4, <1>5 DEF f, N

\* A number is its quotient and its remainder.
LEMMA QuotientRemainder ==
  ASSUME NEW n \in Nat, NEW q \in Nat \ {0}
  PROVE  /\ n \div q \in Nat /\ n % q \in 0 .. q - 1
         /\ n = (n \div q) * q + (n % q)
OBVIOUS

\* A number is put together from a quotient and a remainder in one way.
LEMMA Digits ==
  ASSUME NEW q \in Nat \ {0}, NEW a \in Nat, NEW b \in 0 .. q - 1
  PROVE  (a * q + b) \div q = a /\ (a * q + b) % q = b
<1> DEFINE n == a * q + b
<1>1. n \in Nat
  <2>1. a * q \in Nat
    OBVIOUS
  <2>2. QED
    BY <2>1
<1>2. PICK c \in Nat : c = n \div q
  BY <1>1, QuotientRemainder
<1>3. PICK d \in 0 .. q - 1 : d = n % q
  BY <1>1, QuotientRemainder
<1>4. a * q + b = c * q + d
  BY <1>1, <1>2, <1>3, QuotientRemainder
<1>5. a = c
  <2>1. CASE a < c
    <3>1. PICK e \in Nat : c = a + e + 1
      <4>1. c - a - 1 \in Nat /\ c = a + (c - a - 1) + 1
        BY <2>1, <1>2
      <4>2. QED
        BY <4>1
    <3>2. c * q = a * q + e * q + q /\ e * q \in Nat /\ a * q \in Nat
      BY <3>1
    <3>3. QED
      BY <1>3, <1>4, <3>2
  <2>2. CASE c < a
    <3>1. PICK e \in Nat : a = c + e + 1
      <4>1. a - c - 1 \in Nat /\ a = c + (a - c - 1) + 1
        BY <2>2, <1>2
      <4>2. QED
        BY <4>1
    <3>2. a * q = c * q + e * q + q /\ e * q \in Nat /\ c * q \in Nat
      BY <3>1
    <3>3. QED
      BY <1>3, <1>4, <3>2
  <2>3. QED
    BY <1>2, <2>1, <2>2
<1>6. b = d
  <2>1. a * q \in Nat /\ c * q = a * q
    BY <1>5
  <2>2. QED
    BY <1>3, <1>4, <2>1
<1>7. QED
  BY <1>2, <1>3, <1>5, <1>6

\* The coordinates of a number below p * q, and the numbers with such coordinates.
LEMMA Coordinates ==
  ASSUME NEW p \in Nat \ {0}, NEW q \in Nat \ {0}
  PROVE  /\ \A n \in 0 .. p * q - 1 : n \div q \in 0 .. p - 1 /\ n % q \in 0 .. q - 1
         /\ \A a \in 0 .. p - 1 : \A b \in 0 .. q - 1 : a * q + b \in 0 .. p * q - 1
         /\ p * q \in Nat \ {0} /\ p * q = q * p
<1>1. p * q \in Nat \ {0} /\ p * q = q * p
  OBVIOUS
<1>2. ASSUME NEW n \in 0 .. p * q - 1
      PROVE  n \div q \in 0 .. p - 1 /\ n % q \in 0 .. q - 1
  <2>1. n \in Nat
    BY <1>1
  <2>2. PICK c \in Nat : c = n \div q
    BY <2>1, QuotientRemainder
  <2>3. PICK d \in 0 .. q - 1 : d = n % q
    BY <2>1, QuotientRemainder
  <2>4. n = c * q + d
    BY <2>1, <2>2, <2>3, QuotientRemainder
  <2>5. ~(c >= p)
    <3>1. ASSUME c >= p PROVE FALSE
      <4>1. PICK e \in Nat : c = p + e
        <5>1. c - p \in Nat /\ c = p + (c - p)
          BY <3>1, <2>2
        <5>2. QED
          BY <5>1
      <4>2. c * q = p * q + e * q /\ e * q \in Nat
        BY <4>1
      <4>3. QED
        BY <1>1, <2>3, <2>4, <4>2
    <3>2. QED
      BY <3>1
  <2>6. c \in 0 .. p - 1
    BY <2>2, <2>5
  <2>7. QED
    BY <2>2, <2>3, <2>6
<1>3. ASSUME NEW a \in 0 .. p - 1, NEW b \in 0 .. q - 1
      PROVE  a * q + b \in 0 .. p * q - 1
  <2>1. PICK e \in Nat : p = a + 1 + e
    <3>1. p - a - 1 \in Nat /\ p = a + 1 + (p - a - 1)
      OBVIOUS
    <3>2. QED
      BY <3>1
  <2>2. p * q = a * q + q + e * q /\ e * q \in Nat /\ a * q \in Nat
    BY <2>1
  <2>3. QED
    BY <1>1, <2>2
<1>4. QED
  BY <1>1, <1>2, <1>3

-----------------------------------------------------------------------------
(***************************************************************************)
(* Views and copies of CPU tensors, for shapes of every rank.  The         *)
(* argument: a tensor that has not been transposed has row-major strides   *)
(* and lies in logical order, whatever its rank; a transposed one is a     *)
(* matrix that lies column by column, and transposing it again undoes that.*)
(* A tensor whose strides happen to be row-major lies in logical order     *)
(* however it came about, which is why reshapes may share its storage and  *)
(* writes may go through it from end to end.                               *)
(***************************************************************************)
Layout == [dimensions : Seq(Dimension), strides : Seq(Nat), storage : Nat]

\* A tensor that lies in logical order.
Straight(x, o) ==
  /\ x.strides = RowMajor(x.dimensions)
  /\ o = Identity(Product(x.dimensions))

\* A matrix of p rows and q columns that lies column by column.
Across(x, o) ==
  \E p, q \in Dimension :
    /\ x.dimensions = <<p, q>> /\ x.strides = <<1, p>>
    /\ o = [k \in 1 .. p * q |-> ((k - 1) % q) * p + (k - 1) \div q + 1]

Laid(x, o) == Straight(x, o) \/ Across(x, o)

\* The strides and the element count of a matrix.
LEMMA RowMajorOfTwo ==
  ASSUME NEW p \in Dimension, NEW q \in Dimension
  PROVE  /\ RowMajor(<<p, q>>) = <<q, 1>>
         /\ Product(<<p, q>>) = p * q
         /\ p * q \in Dimension
<1> DEFINE d == <<p, q>>
<1>1. d \in Seq(Int) /\ Len(d) = 2 /\ DOMAIN d = {1, 2}
  BY DEF Dimension
<1>2. SubSeq(d, 1 + 1, 2) = <<q>> /\ SubSeq(d, 2 + 1, 2) = <<>>
  <2>1. PICK e \in Seq(Int) : e = d /\ Len(e) = 2 /\ e[2] = q
    BY <1>1
  <2>2. /\ SubSeq(e, 2, 2) \in Seq(Int) /\ Len(SubSeq(e, 2, 2)) = 1
        /\ SubSeq(e, 2, 2)[1] = e[2]
    <3>1. \A i \in 2 .. 2 : e[i] \in Int
      BY <2>1
    <3>2. PICK m \in Int : m = 2
      OBVIOUS
    <3>3. \A i \in m .. m : e[i] \in Int
      BY <3>1, <3>2
    <3>4. /\ SubSeq(e, m, m) \in Seq(Int)
          /\ Len(SubSeq(e, m, m)) = IF m <= m THEN m - m + 1 ELSE 0
          /\ \A i \in 1 .. m - m + 1 : SubSeq(e, m, m)[i] = e[m + i - 1]
      BY <3>3, SubSeqProperties
    <3>5. m - m + 1 = 1 /\ m <= m /\ m + 1 - 1 = m
      OBVIOUS
    <3>6. QED
      BY <3>2, <3>4, <3>5
  <2>3. PICK f \in Seq(Int) : f = SubSeq(e, 2, 2) /\ Len(f) = 1 /\ f[1] = q
    BY <2>1, <2>2
  <2>4. f = <<q>>
    <3>1. <<q>> \in Seq(Int) /\ Len(<<q>>) = 1 /\ <<q>>[1] = q
      BY DEF Dimension
    <3>2. \A i \in 1 .. Len(f) : f[i] = <<q>>[i]
      BY <2>3, <3>1
    <3>3. QED
      BY <2>3, <3>1, <3>2, SeqEqual
  <2>5. SubSeq(e, 3, 2) = <<>>
    BY SubSeqEmpty
  <2>6. 1 + 1 = 2 /\ 2 + 1 = 3
    OBVIOUS
  <2>7. QED
    BY <2>1, <2>3, <2>4, <2>5, <2>6
<1>3. Product(<<q>>) = q /\ Product(<<>>) = 1 /\ Product(<<p, q>>) = p * q
  <2>1. p \in Int /\ q \in Int
    BY DEF Dimension
  <2>2. QED
    BY <2>1, ProductOfTwo
<1>4. RowMajor(d) = [i \in {1, 2} |-> Product(SubSeq(d, i + 1, 2))]
  BY <1>1 DEF RowMajor
<1>5. [i \in {1, 2} |-> Product(SubSeq(d, i + 1, 2))] = <<q, 1>>
  <2>1. /\ [i \in {1, 2} |-> Product(SubSeq(d, i + 1, 2))][1] = q
        /\ [i \in {1, 2} |-> Product(SubSeq(d, i + 1, 2))][2] = 1
    BY <1>2, <1>3
  <2> DEFINE f == [i \in {1, 2} |-> Product(SubSeq(d, i + 1, 2))]
  <2>2. f = [i \in {1, 2} |-> f[i]] /\ f[1] = q /\ f[2] = 1
    BY <2>1
  <2> HIDE DEF f
  <2>3. f = <<q, 1>>
    BY <2>2
  <2>4. QED
    BY <2>3 DEF f
<1>6. p * q \in Dimension
  BY Coordinates DEF Dimension
<1>7. QED
  BY <1>3, <1>4, <1>5, <1>6

\* Transposing a matrix that lies row by row gives one that lies column by column, and
\* the other way round.
LEMMA TransposeIsLaid ==
  ASSUME NEW x \in Layout, NEW o, Laid(x, o), Len(x.dimensions) = 2, NEW y, NEW w,
         y.dimensions = Swap(x.dimensions), y.strides = Swap(x.strides),
         w = [k \in 1 .. Product(x.dimensions) |->
                o[((k - 1) % x.dimensions[1]) * x.dimensions[2]
                    + (k - 1) \div x.dimensions[1] + 1]]
  PROVE  Laid(y, w)
<1>1. PICK p \in Dimension, q \in Dimension : x.dimensions = <<p, q>>
  <2>1. x.dimensions[1] \in Dimension /\ x.dimensions[2] \in Dimension
    BY DEF Layout
  <2>2. x.dimensions = <<x.dimensions[1], x.dimensions[2]>>
    BY DEF Layout
  <2>3. QED
    BY <2>1, <2>2
<1>2. /\ p \in Nat \ {0} /\ q \in Nat \ {0} /\ p \in Int /\ q \in Int
      /\ p * q \in Nat \ {0} /\ p * q = q * p
  BY Coordinates DEF Dimension
<1>3. /\ y.dimensions = <<q, p>>
      /\ w = [k \in 1 .. p * q |-> o[((k - 1) % p) * q + (k - 1) \div p + 1]]
  BY <1>1, RowMajorOfTwo DEF Swap
<1>4. ASSUME NEW k \in 1 .. p * q
      PROVE  /\ (k - 1) \div p \in 0 .. q - 1 /\ (k - 1) % p \in 0 .. p - 1
             /\ ((k - 1) % p) * q + (k - 1) \div p + 1 \in 1 .. p * q
             /\ k = ((k - 1) \div p) * p + ((k - 1) % p) + 1
  <2>1. k - 1 \in 0 .. q * p - 1 /\ k - 1 \in Nat
    BY <1>2
  <2>2. PICK a : a = (k - 1) \div p
    OBVIOUS
  <2>3. PICK b : b = (k - 1) % p
    OBVIOUS
  <2>4. a \in 0 .. q - 1 /\ b \in 0 .. p - 1
    BY <1>2, <2>1, <2>2, <2>3, Coordinates
  <2>5. b * q + a \in 0 .. p * q - 1
    BY <1>2, <2>4, Coordinates
  <2>6. k - 1 = a * p + b
    BY <1>2, <2>1, <2>2, <2>3, QuotientRemainder
  <2>7. b * q + a + 1 \in 1 .. p * q /\ k = a * p + b + 1
    <3>1. PICK u \in Int : u = b * q
      BY <1>2, <2>4
    <3>2. PICK v \in Int : v = a * p
      BY <1>2, <2>4
    <3>3. QED
      BY <1>2, <2>4, <2>5, <2>6, <3>1, <3>2
  <2>8. QED
    BY <2>2, <2>3, <2>4, <2>7
<1>5. CASE Straight(x, o)
  <2>1. x.strides = <<q, 1>> /\ o = [k \in 1 .. p * q |-> k]
    BY <1>1, <1>5, RowMajorOfTwo DEF Straight, Identity
  <2>2. y.strides = <<1, q>>
    BY <2>1 DEF Swap
  <2>3. w = [k \in 1 .. q * p |-> ((k - 1) % p) * q + (k - 1) \div p + 1]
    BY <1>2, <1>3, <1>4, <2>1
  <2>4. QED
    BY <1>3, <2>2, <2>3 DEF Laid, Across
<1>6. CASE Across(x, o)
  <2>1. /\ x.strides = <<1, p>>
        /\ o = [k \in 1 .. p * q |-> ((k - 1) % q) * p + (k - 1) \div q + 1]
    BY <1>1, <1>6 DEF Across
  <2>2. y.strides = RowMajor(y.dimensions)
    <3>1. y.strides = <<p, 1>>
      BY <2>1 DEF Swap
    <3>2. QED
      BY <1>3, <3>1, RowMajorOfTwo
  <2>3. ASSUME NEW k \in 1 .. p * q
        PROVE  o[((k - 1) % p) * q + (k - 1) \div p + 1] = k
    <3>1. PICK a \in 0 .. q - 1 : a = (k - 1) \div p
      BY <1>4
    <3>2. PICK b \in 0 .. p - 1 : b = (k - 1) % p
      BY <1>4
    <3>3. PICK j : j = b * q + a + 1
      OBVIOUS
    <3>4. j \in 1 .. p * q /\ k = a * p + b + 1
      BY <1>4, <3>1, <3>2, <3>3
    <3>5. j - 1 = b * q + a
      <4>1. b * q \in Int
        BY <1>2
      <4>2. QED
        BY <3>3, <4>1
    <3>6. (j - 1) % q = a /\ (j - 1) \div q = b
      <4>1. b \in Nat
        OBVIOUS
      <4>2. QED
        BY <1>2, <3>5, <4>1, Digits
    <3>7. o[j] = a * p + b + 1
      BY <2>1, <3>4, <3>6
    <3>8. QED
      BY <3>1, <3>2, <3>3, <3>4, <3>7
  <2>4. w = Identity(Product(y.dimensions))
    <3>1. Product(y.dimensions) = p * q
      BY <1>2, <1>3, RowMajorOfTwo
    <3>2. w = [k \in 1 .. p * q |-> k]
      BY <1>3, <2>3
    <3>3. QED
      BY <3>1, <3>2 DEF Identity
  <2>5. QED
    BY <2>2, <2>4 DEF Laid, Straight
<1>7. QED
  BY <1>5, <1>6 DEF Laid

Value == Nat \X Nat

\* What tensors, storages and logical orders have to do with each other.
Sound(T, S, O) ==
  /\ T \in Seq(Layout) /\ O \in Seq(Seq(Nat)) /\ Len(O) = Len(T)
  /\ S \in Seq(Seq(Value))
  /\ \A t \in DOMAIN T :
       /\ T[t].storage \in DOMAIN S
       /\ Len(S[T[t].storage]) = Product(T[t].dimensions)
       /\ Laid(T[t], O[t])

LayoutIInv ==
  /\ Sound(tensors, storages, order)
  /\ Len(tensors) <= MaxMade /\ written \in 0 .. MaxWritten
  /\ given.reader \in {"none", "host", "onnx", "torch"}

\* The logical order of a tensor visits places of its storage.
LEMMA OrderType ==
  ASSUME NEW x \in Layout, NEW o, Laid(x, o)
  PROVE  /\ Product(x.dimensions) \in Dimension
         /\ o \in [1 .. Product(x.dimensions) -> 1 .. Product(x.dimensions)]
         /\ o \in Seq(Nat)
<1>1. Product(x.dimensions) \in Dimension
  <2>1. x.dimensions \in Seq(Int) /\ \A i \in 1 .. Len(x.dimensions) : x.dimensions[i] > 0
    <3>1. x.dimensions \in Seq(Dimension) /\ Dimension \subseteq Int
          /\ \A d \in Dimension : d > 0
      BY DEF Layout, Dimension
    <3>2. \A i \in 1 .. Len(x.dimensions) : x.dimensions[i] \in Dimension
      BY <3>1
    <3>3. x.dimensions \in Seq(Int)
      <4>1. PICK n \in Nat : n = Len(x.dimensions) /\ x.dimensions \in [1 .. n -> Dimension]
        BY <3>1
      <4>2. x.dimensions \in [1 .. n -> Int]
        BY <3>1, <4>1
      <4>3. QED
        BY <4>2
    <3>4. QED
      BY <3>1, <3>2, <3>3
  <2>2. QED
    BY <2>1, ProductGrows DEF Dimension
<1>2. PICK n \in Dimension : n = Product(x.dimensions)
  BY <1>1
<1>3. o \in [1 .. n -> 1 .. n]
  <2>1. CASE Straight(x, o)
    BY <1>2, <2>1 DEF Straight, Identity
  <2>2. CASE Across(x, o)
    <3>1. PICK p \in Dimension, q \in Dimension :
            /\ x.dimensions = <<p, q>>
            /\ o = [k \in 1 .. p * q |-> ((k - 1) % q) * p + (k - 1) \div q + 1]
      BY <2>2 DEF Across
    <3>2. n = p * q /\ p * q = q * p /\ p * q \in Nat \ {0}
          /\ p \in Nat \ {0} /\ q \in Nat \ {0}
      BY <1>2, <3>1, RowMajorOfTwo, Coordinates DEF Dimension
    <3>3. ASSUME NEW k \in 1 .. p * q
          PROVE  ((k - 1) % q) * p + (k - 1) \div q + 1 \in 1 .. p * q
      <4>1. k - 1 \in 0 .. p * q - 1
        BY <3>2
      <4>2. (k - 1) \div q \in 0 .. p - 1 /\ (k - 1) % q \in 0 .. q - 1
        BY <3>2, <4>1, Coordinates
      <4>3. ((k - 1) % q) * p + (k - 1) \div q \in 0 .. q * p - 1
        BY <3>2, <4>2, Coordinates
      <4>4. PICK m \in 0 .. q * p - 1 : m = ((k - 1) % q) * p + (k - 1) \div q
        BY <4>3
      <4>5. QED
        BY <3>2, <4>4
    <3>4. QED
      BY <3>1, <3>2, <3>3
  <2>3. QED
    BY <2>1, <2>2 DEF Laid
<1>4. o \in Seq(Nat)
  <2>1. o \in [1 .. n -> Nat] /\ n \in Nat
    BY <1>3 DEF Dimension
  <2>2. QED
    BY <2>1
<1>5. QED
  BY <1>1, <1>2, <1>3, <1>4

SumStep(s, f) ==
  [n \in 0 .. Len(s) |-> IF n = 0 THEN 0 ELSE f[n - 1] + s[n]]

\* The sum of two numbers, as StorageIndex takes it.
LEMMA SumOfTwo ==
  ASSUME NEW f, DOMAIN f = {1, 2}
  PROVE  SumOf(f) = (0 + f[1]) + f[2]
<1> DEFINE u == [n \in 0 .. 2 |->
                   IF n = 0 THEN 0 ELSE IF n = 1 THEN 0 + f[1] ELSE (0 + f[1]) + f[2]]
<1>1. Len(f) = 2
  BY LengthOf
<1>2. u = SumStep(f, u)
  BY <1>1 DEF SumStep
<1>3. SumOf(f) = (CHOOSE r : r = SumStep(f, r))[Len(f)]
  BY Zenon DEF SumOf, SumStep
<1>4. PICK r : r = SumStep(f, r) /\ SumOf(f) = r[2]
  BY <1>1, <1>2, <1>3, Zenon
<1>5. \A n \in 0 .. 2 : r[n] = IF n = 0 THEN 0 ELSE r[n - 1] + f[n]
  BY <1>1, <1>4 DEF SumStep
<1>6. r[0] = 0 /\ r[1] = r[0] + f[1] /\ r[2] = r[1] + f[2]
  BY <1>5
<1>7. QED
  BY <1>4, <1>6

\* The index of a matrix that lies column by column.
LEMMA IndexAcross ==
  ASSUME NEW t, NEW p \in Dimension, NEW q \in Dimension,
         tensors[t].dimensions = <<p, q>>, tensors[t].strides = <<1, p>>,
         NEW k \in 1 .. p * q
  PROVE  StorageIndex(t, k - 1) + 1 = ((k - 1) % q) * p + (k - 1) \div q + 1
<1> DEFINE f == [i \in {1, 2} |->
                   (((k - 1) \div RowMajor(<<p, q>>)[i]) % <<p, q>>[i]) * <<1, p>>[i]]
<1>1. p \in Nat \ {0} /\ q \in Nat \ {0} /\ p * q \in Nat \ {0}
  BY Coordinates DEF Dimension
<1>2. k - 1 \in 0 .. p * q - 1 /\ k - 1 \in Nat
  BY <1>1
<1>3. PICK a \in 0 .. p - 1 : a = (k - 1) \div q
  BY <1>1, <1>2, Coordinates
<1>4. PICK b \in 0 .. q - 1 : b = (k - 1) % q
  BY <1>1, <1>2, Coordinates
<1>5. f[1] = a
  <2>1. RowMajor(<<p, q>>)[1] = q /\ <<p, q>>[1] = p /\ <<1, p>>[1] = 1
    BY RowMajorOfTwo
  <2>2. f[1] = (a % p) * 1
    BY <1>3, <2>1
  <2>3. a % p = a
    BY <1>1
  <2>4. QED
    BY <2>2, <2>3
<1>6. f[2] = b * p
  <2>1. RowMajor(<<p, q>>)[2] = 1 /\ <<p, q>>[2] = q /\ <<1, p>>[2] = p
    BY RowMajorOfTwo
  <2>2. (k - 1) \div 1 = k - 1
    BY <1>2
  <2>3. QED
    BY <1>4, <2>1, <2>2
<1>7. DOMAIN f = {1, 2}
  OBVIOUS
<1>8. DOMAIN <<p, q>> = {1, 2}
  OBVIOUS
<1>9. StorageIndex(t, k - 1) = SumOf(f)
  BY <1>8, Zenon DEF StorageIndex
<1> HIDE DEF f
<1>10. StorageIndex(t, k - 1) = (0 + f[1]) + f[2]
  BY <1>7, <1>9, SumOfTwo, Zenon
<1>11. QED
  <2>1. PICK c \in Int : c = b * p
    BY <1>1
  <2>2. QED
    BY <1>3, <1>4, <1>5, <1>6, <1>10, <2>1

\* In a sound state the host reads logical order.
LEMMA HostReadsLogical ==
  ASSUME Sound(tensors, storages, order), NEW t \in Made
  PROVE  /\ CopyToHost(t) = Logical(t)
         /\ Numel(t) \in Dimension
         /\ CopyToHost(t) \in Seq(Value) /\ Len(CopyToHost(t)) = Numel(t)
<1> DEFINE x == tensors[t]
           v == storages[x.storage]
           n == Product(x.dimensions)
<1>1. /\ x \in Layout /\ Laid(x, order[t])
      /\ v \in Seq(Value) /\ Len(v) = n
  BY DEF Sound, Made
<1>2. n \in Dimension /\ order[t] \in [1 .. n -> 1 .. n]
  BY <1>1, OrderType
<1>3. v \in [1 .. n -> Value] /\ n \in Nat
  BY <1>1, <1>2 DEF Dimension
<1>4. Logical(t) = [k \in 1 .. n |-> v[order[t][k]]]
  BY DEF Logical, Numel
<1>5. CopyToHost(t) = IF IsContiguous(t) THEN v
                      ELSE [k \in 1 .. n |-> v[StorageIndex(t, k - 1) + 1]]
  BY DEF CopyToHost, RawValues, Numel
<1> HIDE DEF v, n
<1>6. ASSUME Straight(x, order[t]) PROVE CopyToHost(t) = Logical(t)
  <2>1. IsContiguous(t) /\ order[t] = [k \in 1 .. n |-> k]
    BY <1>6 DEF Straight, IsContiguous, Identity, n
  <2>2. Logical(t) = [k \in 1 .. n |-> v[k]]
    BY <1>4, <2>1
  <2>3. QED
    BY <1>3, <1>5, <2>1, <2>2
<1>7. ASSUME Across(x, order[t]) PROVE CopyToHost(t) = Logical(t)
  <2>1. PICK p \in Dimension, q \in Dimension :
          /\ x.dimensions = <<p, q>> /\ x.strides = <<1, p>>
          /\ order[t] = [k \in 1 .. p * q |-> ((k - 1) % q) * p + (k - 1) \div q + 1]
    BY <1>7 DEF Across
  <2>2. n = p * q
    BY <2>1, RowMajorOfTwo DEF n
  <2>3. CASE IsContiguous(t)
    <3>1. <<1, p>> = <<q, 1>>
      BY <2>1, <2>3, RowMajorOfTwo DEF IsContiguous
    <3>2. p = 1 /\ q = 1
      BY <3>1
    <3>3. n = 1 /\ order[t][1] = 1
      BY <1>2, <2>2, <3>2
    <3>4. QED
      BY <1>3, <1>4, <1>5, <2>3, <3>3
  <2>4. CASE ~IsContiguous(t)
    <3>1. \A k \in 1 .. n : StorageIndex(t, k - 1) + 1 = order[t][k]
      BY <2>1, <2>2, IndexAcross
    <3>2. QED
      BY <1>4, <1>5, <2>4, <3>1
  <2>5. QED
    BY <2>3, <2>4
<1>8. CopyToHost(t) = Logical(t)
  BY <1>1, <1>6, <1>7 DEF Laid
<1>9. CopyToHost(t) \in [1 .. n -> Value]
  BY <1>2, <1>3, <1>4, <1>8
<1>10. n = Numel(t)
  BY DEF n, Numel
<1>11. CopyToHost(t) \in Seq(Value) /\ Len(CopyToHost(t)) = n
  BY <1>3, <1>9
<1>12. QED
  BY <1>2, <1>8, <1>10, <1>11

\* A tensor more.
LEMMA SoundWithTensor ==
  ASSUME NEW T, NEW S, NEW O, Sound(T, S, O), NEW x \in Layout, NEW o, Laid(x, o),
         x.storage \in DOMAIN S, Len(S[x.storage]) = Product(x.dimensions)
  PROVE  Sound(Append(T, x), S, Append(O, o))
<1>1. /\ T \in Seq(Layout) /\ O \in Seq(Seq(Nat)) /\ Len(O) = Len(T)
      /\ o \in Seq(Nat)
  BY OrderType DEF Sound
<1>2. PICK U : U = Append(T, x)
  OBVIOUS
<1>3. PICK Q : Q = Append(O, o)
  OBVIOUS
<1>4. /\ U \in Seq(Layout) /\ Q \in Seq(Seq(Nat)) /\ Len(Q) = Len(U)
      /\ \A t \in DOMAIN U :
           \/ t \in DOMAIN T /\ U[t] = T[t] /\ Q[t] = O[t]
           \/ U[t] = x /\ Q[t] = o
  BY <1>1, <1>2, <1>3
<1>5. \A t \in DOMAIN U :
        /\ U[t].storage \in DOMAIN S
        /\ Len(S[U[t].storage]) = Product(U[t].dimensions)
        /\ Laid(U[t], Q[t])
  <2>1. ASSUME NEW t \in DOMAIN U
        PROVE  /\ U[t].storage \in DOMAIN S
               /\ Len(S[U[t].storage]) = Product(U[t].dimensions)
               /\ Laid(U[t], Q[t])
    <3>1. CASE t \in DOMAIN T /\ U[t] = T[t] /\ Q[t] = O[t]
      BY <3>1 DEF Sound
    <3>2. CASE U[t] = x /\ Q[t] = o
      BY <3>2
    <3>3. QED
      BY <1>4, <3>1, <3>2
  <2>2. QED
    BY <2>1
<1>6. S \in Seq(Seq(Value))
  BY DEF Sound
<1>7. QED
  BY <1>2, <1>3, <1>4, <1>5, <1>6 DEF Sound

\* A storage more.
LEMMA SoundWithStorage ==
  ASSUME NEW T, NEW S, NEW O, Sound(T, S, O), NEW v \in Seq(Value)
  PROVE  /\ Sound(T, Append(S, v), O)
         /\ Len(S) + 1 \in DOMAIN Append(S, v) /\ Len(S) + 1 \in Nat
         /\ Append(S, v)[Len(S) + 1] = v
<1>1. S \in Seq(Seq(Value))
  BY DEF Sound
<1>2. PICK R : R = Append(S, v)
  OBVIOUS
<1>3. /\ R \in Seq(Seq(Value))
      /\ \A s \in DOMAIN S : s \in DOMAIN R /\ R[s] = S[s]
      /\ Len(S) + 1 \in DOMAIN R /\ Len(S) + 1 \in Nat /\ R[Len(S) + 1] = v
  BY <1>1, <1>2
<1>4. Sound(T, R, O)
  BY <1>3 DEF Sound
<1>5. QED
  BY <1>2, <1>3, <1>4

\* A storage written from end to end.
LEMMA SoundAfterWrite ==
  ASSUME NEW T, NEW S, NEW O, Sound(T, S, O), NEW s \in DOMAIN S,
         NEW v \in Seq(Value), Len(v) = Len(S[s])
  PROVE  Sound(T, [S EXCEPT ![s] = v], O) /\ [S EXCEPT ![s] = v][s] = v
<1>1. S \in Seq(Seq(Value))
  BY DEF Sound
<1>2. PICK R : R = [S EXCEPT ![s] = v]
  OBVIOUS
<1>3. R \in Seq(Seq(Value)) /\ DOMAIN R = DOMAIN S /\ R[s] = v /\ \A u \in DOMAIN S : Len(R[u]) = Len(S[u])
  BY <1>1, <1>2
<1>4. Sound(T, R, O)
  BY <1>3 DEF Sound
<1>5. QED
  BY <1>2, <1>3, <1>4

\* Row-major strides put the elements in logical order.
LEMMA RowMajorIsLaid ==
  ASSUME NEW d \in Seq(Dimension), NEW n \in Nat, NEW x,
         x = [dimensions |-> d, strides |-> RowMajor(d), storage |-> n]
  PROVE  /\ x \in Layout /\ Laid(x, Identity(Product(d)))
         /\ Product(d) \in Dimension
<1>1. DOMAIN d = 1 .. Len(d) /\ Len(d) \in Nat
  OBVIOUS
<1>2. \A s \in Seq(Dimension) : Product(s) \in Dimension
  <2>1. ASSUME NEW s \in Seq(Dimension) PROVE Product(s) \in Dimension
    <3>1. PICK m \in Nat : m = Len(s) /\ s \in [1 .. m -> Dimension]
      OBVIOUS
    <3>2. s \in [1 .. m -> Int] /\ \A i \in 1 .. Len(s) : s[i] > 0
      BY <3>1 DEF Dimension
    <3>3. s \in Seq(Int)
      BY <3>2
    <3>4. QED
      BY <3>2, <3>3, ProductGrows DEF Dimension
  <2>2. QED
    BY <2>1
<1>3. ASSUME NEW i \in DOMAIN d PROVE Product(SubSeq(d, i + 1, Len(d))) \in Nat
  <2>1. PICK j \in Int : j = i + 1 /\ j \in 1 .. Len(d) + 1
    BY <1>1
  <2>2. PICK m \in Int : m = Len(d)
    <3>1. Len(d) \in Int
      BY <1>1
    <3>2. QED
      BY <3>1, Zenon
  <2>3. \A k \in j .. m : d[k] \in Dimension
    BY <1>1, <2>1, <2>2
  <2>4. SubSeq(d, j, m) \in Seq(Dimension)
    BY <2>3, SubSeqProperties
  <2>5. QED
    BY <1>2, <2>1, <2>2, <2>4 DEF Dimension
<1>4. RowMajor(d) \in Seq(Nat)
  <2>1. RowMajor(d) \in [1 .. Len(d) -> Nat]
    BY <1>1, <1>3 DEF RowMajor
  <2>2. QED
    BY <1>1, <2>1
<1>5. x \in Layout
  BY <1>4 DEF Layout
<1>6. Straight(x, Identity(Product(d)))
  BY DEF Straight
<1>7. QED
  BY <1>2, <1>5, <1>6 DEF Laid

\* A contiguous tensor is in logical order.
LEMMA ContiguousOrder ==
  ASSUME NEW x \in Layout, NEW o, Laid(x, o), x.strides = RowMajor(x.dimensions)
  PROVE  o = Identity(Product(x.dimensions))
<1>1. CASE Straight(x, o)
  BY <1>1 DEF Straight
<1>2. CASE Across(x, o)
  <2>1. PICK p \in Dimension, q \in Dimension :
          /\ x.dimensions = <<p, q>> /\ x.strides = <<1, p>>
          /\ o = [k \in 1 .. p * q |-> ((k - 1) % q) * p + (k - 1) \div q + 1]
    BY <1>2 DEF Across
  <2>2. <<1, p>> = <<q, 1>> /\ Product(x.dimensions) = p * q
    BY <2>1, RowMajorOfTwo
  <2>3. p = 1 /\ q = 1
    BY <2>2
  <2>4. Product(x.dimensions) = 1 /\ DOMAIN o = 1 .. 1 /\ o[1] = 1
    BY <2>1, <2>2, <2>3
  <2>5. o = [k \in 1 .. 1 |-> k]
    <3>1. o = [k \in 1 .. 1 |-> o[k]] /\ \A k \in 1 .. 1 : o[k] = k
      BY <2>1, <2>2, <2>3, <2>4
    <3>2. QED
      BY <3>1
  <2>6. QED
    BY <2>4, <2>5 DEF Identity
<1>3. QED
  BY <1>1, <1>2 DEF Laid

\* A write fills a storage.
LEMMA ContentsType ==
  ASSUME NEW w \in Nat, NEW n \in Dimension
  PROVE  Contents(w, n) \in Seq(Value) /\ Len(Contents(w, n)) = n
<1>1. n \in Nat /\ \A k \in 1 .. n : <<w, k>> \in Value
  BY DEF Dimension, Value
<1>2. Contents(w, n) \in [1 .. n -> Value]
  BY <1>1 DEF Contents
<1>3. QED
  BY <1>1, <1>2

\* Nothing is made yet.
LEMMA InitLayout == LayoutInit => LayoutIInv
BY TensorLayoutAssumption DEF LayoutInit, LayoutIInv, Sound

\* A tensor with storage of its own.
LEMMA MaterializeSound ==
  ASSUME Sound(tensors, storages, order), NEW d \in Seq(Dimension),
         NEW v \in Seq(Value), Len(v) = Product(d), Materialize(d, v)
  PROVE  Sound(tensors, storages, order)' /\ Len(tensors') = Len(tensors) + 1
<1>1. PICK n \in Nat : n = Len(storages) + 1
  BY SoundWithStorage
<1>2. PICK x : x = [dimensions |-> d, strides |-> RowMajor(d), storage |-> n]
  OBVIOUS
<1>3. PICK o : o = Identity(Product(d))
  OBVIOUS
<1>4. x \in Layout /\ Laid(x, o)
  BY <1>2, <1>3, RowMajorIsLaid
<1>5. storages' = Append(storages, v) /\ tensors' = Append(tensors, x) /\ order' = Append(order, o)
  BY <1>1, <1>2, <1>3 DEF Materialize, Add
<1>6. PICK S : S = Append(storages, v)
  OBVIOUS
<1>7. Sound(tensors, S, order) /\ n \in DOMAIN S /\ S[n] = v
  BY <1>1, <1>6, SoundWithStorage
<1>8. x.storage = n /\ x.dimensions = d
  BY <1>2
<1>9. Sound(Append(tensors, x), S, Append(order, o))
  BY <1>4, <1>7, <1>8, SoundWithTensor
<1>10. Len(tensors') = Len(tensors) + 1
  BY <1>4, <1>5 DEF Sound
<1>11. QED
  BY <1>5, <1>6, <1>9, <1>10

\* A tensor has a stride for each of its dimensions.
LEMMA LayoutRank ==
  ASSUME NEW x \in Layout, NEW o, Laid(x, o)
  PROVE  /\ Len(x.strides) = Len(x.dimensions)
         /\ \A i \in 1 .. Len(x.strides) : x.strides[i] \in Nat
<1>1. x.dimensions \in Seq(Dimension) /\ x.strides \in Seq(Nat)
  BY DEF Layout
<1>2. CASE Straight(x, o)
  <2>1. DOMAIN x.strides = DOMAIN x.dimensions
    BY <1>2 DEF Straight, RowMajor
  <2>2. QED
    BY <1>1, <2>1
<1>3. CASE Across(x, o)
  BY <1>1, <1>3 DEF Across
<1>4. QED
  BY <1>2, <1>3 DEF Laid

\* FromData keeps the invariant.
LEMMA NewTensorStep ==
  ASSUME LayoutIInv, NEW d \in Dimensions, FromData(d)
  PROVE  LayoutIInv'
<1>1. d \in Seq(Dimension)
  BY TensorLayoutAssumption DEF Dimension
<1>2. Product(d) \in Dimension
  <2>1. PICK x : x = [dimensions |-> d, strides |-> RowMajor(d), storage |-> 0]
    OBVIOUS
  <2>2. QED
    BY <1>1, <2>1, RowMajorIsLaid
<1>3. PICK v : v = Contents(0, Product(d))
  OBVIOUS
<1>4. v \in Seq(Value) /\ Len(v) = Product(d)
  BY <1>2, <1>3, ContentsType
<1>5. /\ Sound(tensors, storages, order) /\ Len(tensors) < MaxMade
      /\ Materialize(d, v) /\ UNCHANGED <<written, given>>
  BY <1>3 DEF LayoutIInv, FromData
<1>6. Sound(tensors, storages, order)' /\ Len(tensors') = Len(tensors) + 1
  BY <1>1, <1>4, <1>5, MaterializeSound
<1>7. Len(tensors') <= MaxMade
  BY <1>5, <1>6, TensorLayoutAssumption DEF Sound, TensorLayoutAssumption
<1>8. QED
  BY <1>5, <1>6, <1>7 DEF LayoutIInv

\* So does a copy in logical order, of the same or another shape.
LEMMA CopyStep ==
  ASSUME LayoutIInv, NEW t \in Made, NEW d \in Seq(Dimension), Product(d) = Numel(t),
         Len(tensors) < MaxMade, Materialize(d, CopyToHost(t)),
         UNCHANGED <<written, given>>
  PROVE  LayoutIInv'
<1>1. PICK v : v = CopyToHost(t)
  OBVIOUS
<1>2. Sound(tensors, storages, order) /\ v \in Seq(Value) /\ Len(v) = Product(d)
      /\ Materialize(d, v)
  BY <1>1, HostReadsLogical DEF LayoutIInv
<1>3. Sound(tensors, storages, order)' /\ Len(tensors') = Len(tensors) + 1
  BY <1>2, MaterializeSound
<1>4. Len(tensors') <= MaxMade
  BY <1>2, <1>3, TensorLayoutAssumption DEF Sound, TensorLayoutAssumption
<1>5. QED
  BY <1>3, <1>4 DEF LayoutIInv

\* So does a view of as many elements that is laid out.
LEMMA ViewStep ==
  ASSUME LayoutIInv, NEW t \in Made, NEW x \in Layout, NEW o, Laid(x, o),
         x.storage = tensors[t].storage, Product(x.dimensions) = Numel(t),
         Len(tensors) < MaxMade,
         tensors' = Append(tensors, x), order' = Append(order, o),
         UNCHANGED <<storages, written, given>>
  PROVE  LayoutIInv'
<1>1. /\ Sound(tensors, storages, order) /\ x.storage \in DOMAIN storages
      /\ Len(storages[x.storage]) = Product(x.dimensions)
  BY DEF LayoutIInv, Sound, Made, Numel
<1>2. Sound(Append(tensors, x), storages, Append(order, o))
  BY <1>1, SoundWithTensor
<1>3. Sound(tensors, storages, order)'
  BY <1>2
<1>4. Len(tensors') <= MaxMade
  <2>1. Len(tensors') = Len(tensors) + 1 /\ Len(tensors) \in Nat
    BY <1>1 DEF Sound
  <2>2. QED
    BY <2>1, TensorLayoutAssumption DEF TensorLayoutAssumption
<1>5. QED
  BY <1>3, <1>4 DEF LayoutIInv

\* Reshape makes a view of a contiguous tensor, whose order is that of its storage, and
\* a copy of any other.
LEMMA ReshapeStep ==
  ASSUME LayoutIInv, NEW t \in Made, NEW d \in Dimensions, Reshape(t, d)
  PROVE  LayoutIInv'
<1>1. d \in Seq(Dimension) /\ Product(d) = Numel(t) /\ Len(tensors) < MaxMade
      /\ UNCHANGED <<written, given>>
  BY TensorLayoutAssumption DEF Reshape, Fits, Dimension
<1>2. tensors[t] \in Layout /\ Laid(tensors[t], order[t]) /\ tensors[t].storage \in Nat
  <2>1. tensors[t] \in Layout /\ Laid(tensors[t], order[t])
    BY DEF LayoutIInv, Sound, Made
  <2>2. QED
    BY <2>1 DEF Layout
<1>3. CASE IsContiguous(t)
  <2>1. PICK x : x = [dimensions |-> d, strides |-> RowMajor(d),
                      storage |-> tensors[t].storage]
    OBVIOUS
  <2>2. order[t] = Identity(Product(d))
    BY <1>1, <1>2, <1>3, ContiguousOrder DEF IsContiguous, Numel
  <2>3. x \in Layout /\ Laid(x, order[t])
    BY <1>1, <1>2, <2>1, <2>2, RowMajorIsLaid
  <2>4. tensors' = Append(tensors, x) /\ order' = Append(order, order[t])
        /\ UNCHANGED storages
    BY <1>3, <2>1 DEF Reshape, Add
  <2>5. x.storage = tensors[t].storage /\ Product(x.dimensions) = Numel(t)
    BY <1>1, <2>1
  <2>6. QED
    BY <1>1, <2>3, <2>4, <2>5, ViewStep
<1>4. CASE ~IsContiguous(t)
  <2>1. Materialize(d, CopyToHost(t))
    BY <1>4 DEF Reshape
  <2>2. QED
    BY <1>1, <2>1, CopyStep
<1>5. QED
  BY <1>3, <1>4

\* Transpose2D makes a view.
LEMMA Transpose2DStep ==
  ASSUME LayoutIInv, NEW t \in Made, Transpose2D(t)
  PROVE  LayoutIInv'
<1>1. PICK x : x = tensors[t]
  OBVIOUS
<1>2. PICK o : o = order[t]
  OBVIOUS
<1>3. x \in Layout /\ Laid(x, o) /\ Len(x.dimensions) = 2 /\ Len(tensors) < MaxMade
  BY <1>1, <1>2 DEF LayoutIInv, Sound, Made, Transpose2D
<1>4. PICK y : y = [dimensions |-> Swap(x.dimensions), strides |-> Swap(x.strides),
                    storage |-> x.storage]
  OBVIOUS
<1>5. PICK w : w = [k \in 1 .. Product(x.dimensions) |->
                     o[((k - 1) % x.dimensions[1]) * x.dimensions[2]
                         + (k - 1) \div x.dimensions[1] + 1]]
  OBVIOUS
<1>6. y.dimensions = Swap(x.dimensions) /\ y.strides = Swap(x.strides)
      /\ y.storage = x.storage
  BY <1>4
<1>7. Laid(y, w)
  BY <1>3, <1>5, <1>6, TransposeIsLaid
<1>8. /\ tensors' = Append(tensors, y) /\ order' = Append(order, w)
      /\ UNCHANGED <<storages, written, given>>
  BY <1>1, <1>2, <1>4, <1>5
  DEF Transpose2D, Add, TransposedStrides, TransposedOrder, Numel
<1>9. y \in Layout
  <2>1. x.dimensions[1] \in Dimension /\ x.dimensions[2] \in Dimension
    BY <1>3 DEF Layout
  <2>2. Len(x.strides) = 2 /\ x.strides[1] \in Nat /\ x.strides[2] \in Nat
    BY <1>3, LayoutRank
  <2>3. Swap(x.dimensions) \in Seq(Dimension) /\ Swap(x.strides) \in Seq(Nat)
    BY <2>1, <2>2 DEF Swap
  <2>4. x.storage \in Nat
    BY <1>3 DEF Layout
  <2>5. QED
    BY <1>4, <2>3, <2>4 DEF Layout
<1>10. Product(y.dimensions) = Product(x.dimensions)
  <2>1. PICK p \in Dimension : p = x.dimensions[1]
    BY <1>3 DEF Layout
  <2>2. PICK q \in Dimension : q = x.dimensions[2]
    BY <1>3 DEF Layout
  <2>3. x.dimensions = <<p, q>>
    BY <1>3, <2>1, <2>2 DEF Layout
  <2>4. y.dimensions = <<q, p>>
    BY <1>6, <2>3 DEF Swap
  <2>5. p * q = q * p
    BY Coordinates DEF Dimension
  <2>6. QED
    BY <2>3, <2>4, <2>5, RowMajorOfTwo
<1>11. y.storage = tensors[t].storage /\ Product(y.dimensions) = Numel(t)
  BY <1>1, <1>6, <1>10 DEF Numel
<1>12. QED
  BY <1>3, <1>7, <1>8, <1>9, <1>11, ViewStep

\* A write in place goes through a contiguous tensor, whose order is that of its storage.
LEMMA WriteStep ==
  ASSUME LayoutIInv, NEW t \in Made, Write(t)
  PROVE  /\ LayoutIInv'
         /\ Logical(t)' = Contents(written', Numel(t))
<1>1. /\ Sound(tensors, storages, order)
      /\ tensors[t] \in Layout /\ Laid(tensors[t], order[t])
      /\ tensors[t].storage \in DOMAIN storages
      /\ Len(storages[tensors[t].storage]) = Numel(t)
  BY DEF LayoutIInv, Sound, Made, Numel
<1>2. PICK s \in DOMAIN storages : s = tensors[t].storage
  BY <1>1
<1>3. PICK n : n = Numel(t)
  OBVIOUS
<1>4. n \in Dimension /\ order[t] \in [1 .. n -> 1 .. n]
  BY <1>1, <1>3, OrderType DEF Numel
<1>5. written' \in Nat /\ written' \in 0 .. MaxWritten
  BY TensorLayoutAssumption DEF Write, LayoutIInv, TensorLayoutAssumption
<1>6. PICK v : v = Contents(written', n)
  OBVIOUS
<1>7. v \in Seq(Value) /\ Len(v) = n
  BY <1>4, <1>5, <1>6, ContentsType
<1>8. storages' = [storages EXCEPT ![s] = v] /\ UNCHANGED <<tensors, order, given>>
      /\ IsContiguous(t)
  BY <1>2, <1>3, <1>6 DEF Write, Mutable
<1>9. PICK S : S = [storages EXCEPT ![s] = v]
  OBVIOUS
<1>10. Sound(tensors, S, order) /\ S[s] = v
  <2>1. Len(v) = Len(storages[s])
    BY <1>1, <1>2, <1>3, <1>7
  <2>2. Sound(tensors, [storages EXCEPT ![s] = v], order)
        /\ [storages EXCEPT ![s] = v][s] = v
    BY <1>1, <1>7, <2>1, SoundAfterWrite
  <2>3. QED
    BY <1>9, <2>2
<1>11. LayoutIInv'
  BY <1>5, <1>8, <1>9, <1>10 DEF LayoutIInv
<1>12. order[t] = Identity(n)
  BY <1>1, <1>3, <1>8, ContiguousOrder DEF IsContiguous, Numel
<1>13. Logical(t)' = [k \in 1 .. n |-> v[order[t][k]]]
  <2>1. Logical(t)' = [k \in 1 .. Numel(t)' |-> storages'[tensors'[t].storage][order'[t][k]]]
    BY DEF Logical
  <2>2. Numel(t)' = n
    BY <1>3, <1>8 DEF Numel
  <2>3. storages'[tensors'[t].storage] = v /\ order' = order
    BY <1>2, <1>8, <1>9, <1>10
  <2>4. QED
    BY <2>1, <2>2, <2>3
<1>14. [k \in 1 .. n |-> v[order[t][k]]] = v
  <2>1. v \in [1 .. n -> Value]
    BY <1>4, <1>7 DEF Dimension
  <2>2. \A k \in 1 .. n : order[t][k] = k
    BY <1>12 DEF Identity
  <2>3. QED
    BY <2>1, <2>2
<1>15. QED
  BY <1>3, <1>6, <1>11, <1>13, <1>14

\* Readers change nothing.
LEMMA ReadStep ==
  ASSUME LayoutIInv, NEW t \in Made, ToHost(t) \/ ToOnnx(t) \/ ToTorch(t)
  PROVE  LayoutIInv'
<1>1. UNCHANGED <<tensors, storages, order, written>>
      /\ given'.reader \in {"host", "onnx", "torch"}
  BY DEF ToHost, ToOnnx, ToTorch, Give
<1>2. QED
  BY <1>1 DEF LayoutIInv

\* Every step keeps the invariant.
LEMMA LayoutStep ==
  ASSUME LayoutIInv, [LayoutNext]_layout_vars
  PROVE  LayoutIInv'
<1>1. CASE UNCHANGED layout_vars
  BY <1>1 DEF layout_vars, LayoutIInv
<1>2. ASSUME NEW t \in Made, Elementwise(t) PROVE LayoutIInv'
  <2>1. tensors[t].dimensions \in Seq(Dimension)
    <3>1. tensors[t] \in Layout
      BY DEF LayoutIInv, Sound, Made
    <3>2. QED
      BY <3>1 DEF Layout
  <2>2. /\ Len(tensors) < MaxMade /\ Materialize(tensors[t].dimensions, CopyToHost(t))
        /\ UNCHANGED <<written, given>> /\ Product(tensors[t].dimensions) = Numel(t)
    BY <1>2 DEF Elementwise, Numel
  <2>3. QED
    BY <2>1, <2>2, CopyStep
<1>3. QED
  BY <1>1, <1>2, NewTensorStep, ReshapeStep, Transpose2DStep, WriteStep, ReadStep
  DEF LayoutNext

\* In every reachable state storages are as long as their tensors, and a tensor lies
\* in logical order or, a matrix, column by column.
THEOREM LayoutInvariance == LayoutSpec => []LayoutIInv
<1>1. LayoutInit => LayoutIInv
  BY InitLayout
<1>2. LayoutIInv /\ [LayoutNext]_layout_vars => LayoutIInv'
  BY LayoutStep
<1>3. QED
  BY <1>1, <1>2, PTL DEF LayoutSpec

\* Whatever views and copies are made, a tensor has as many elements as its storage
\* (MakeTensor, MakeView, Reshape).
THEOREM LayoutsAreTyped == LayoutSpec => []LayoutTypeOK
<1>1. LayoutIInv => LayoutTypeOK
  BY LayoutRank DEF LayoutIInv, LayoutTypeOK, Sound, Made, Numel
<1>2. QED
  BY <1>1, LayoutInvariance, PTL

\* For shapes of every rank and any sequence of reshapes, transposes, copies and
\* writes, CopyToHostF32 gives the elements in logical order.
THEOREM HostReadsLogicalOrder == LayoutSpec => []LogicalOrder
<1>1. LayoutIInv => LogicalOrder
  BY HostReadsLogical DEF LayoutIInv, LogicalOrder
<1>2. QED
  BY <1>1, LayoutInvariance, PTL

\* What an optimizer or AssignMany writes through a tensor is read back through it,
\* because MutableCpuValues refuses tensors that are not contiguous.
THEOREM WritesAreReadBack == LayoutSpec => WrittenReadsBack
<1>1. LayoutIInv /\ [LayoutNext]_layout_vars =>
        [\A t \in Made : Write(t) => Logical(t)' = Contents(written', Numel(t))]_layout_vars
  BY WriteStep
<1>2. QED
  BY <1>1, LayoutInvariance, PTL DEF LayoutSpec, WrittenReadsBack

-----------------------------------------------------------------------------
(***************************************************************************)
(* The counts of ValidateShape, for words of every width and shapes of     *)
(* every rank.  The argument: the loop divides before it multiplies, so    *)
(* neither the element count nor its size in bytes reaches its modulus.    *)
(***************************************************************************)
Counted ==
  /\ at = "rank" => numel = 1 /\ exact = 1
  /\ at = "strides" => numel <= MaxSize \div ElementSize

SizeInv == ShapeTypeOK /\ Counted /\ CountsExact

\* What the checks before the multiplications of ValidateShape establish.
LEMMA QuotientBounds ==
  ASSUME NEW m \in Nat, NEW v \in Nat \ {0}, NEW n \in Nat, n <= m \div v
  PROVE  n * v <= m
<1> DEFINE q == m \div v
<1>1. q \in Nat /\ q * v <= m
  OBVIOUS
<1>2. n * v <= q * v
  <2>1. PICK d \in Nat : q = n + d
    BY <1>1 DEF q
  <2>2. q * v = n * v + d * v
    BY <2>1
  <2>3. d * v \in Nat
    BY <2>1
  <2> QED
    BY <2>2, <2>3
<1> QED
  BY <1>1, <1>2

\* A number below its modulus is left alone.
LEMMA NoWrap ==
  ASSUME NEW m \in Nat, NEW n \in Nat, n <= m
  PROVE  n % (m + 1) = n
OBVIOUS

\* A shape is a list of integers.
LEMMA DimensionType ==
  ASSUME ShapeTypeOK
  PROVE  /\ rank \in Nat /\ DOMAIN dims = 1 .. rank
         /\ \A i \in 1 .. rank : dims[i] \in Int
<1>1. dims \in Seq(Int)
  <2>1. \A s \in Seq(-MaxNumel - 1 .. MaxNumel) : s \in Seq(Int)
    BY ShapeAssumption DEF ShapeAssumption
  <2> QED
    BY <2>1, ShapeAssumption DEF ShapeAssumption, ShapeTypeOK
<1> QED
  BY <1>1 DEF rank

\* ValidateShape starts with a count of one.
LEMMA InitSizeInv ==
  ASSUME ShapeInit
  PROVE  SizeInv
<1>1. dims \in Seq(Int)
  <2>1. \A s \in Seq(-MaxNumel - 1 .. MaxNumel) : s \in Seq(Int)
    BY ShapeAssumption DEF ShapeAssumption
  <2> QED
    BY <2>1, ShapeAssumption DEF ShapeAssumption, ShapeInit
<1>2. rank \in Nat /\ DOMAIN dims = 1 .. rank
  BY <1>1 DEF rank
<1>3. ShapeTypeOK
  BY <1>1, <1>2, ShapeAssumption
  DEF ShapeAssumption, ShapeInit, ShapeTypeOK, Place, Word
<1> QED
  BY <1>3 DEF ShapeInit, SizeInv, Counted, CountsExact

\* Counting a dimension: the count stays the product, and below its modulus.
LEMMA CountSizeInv ==
  ASSUME SizeInv, Count
  PROVE  SizeInv'
<1> DEFINE d == dims[done + 1]
<1>1. rank \in Nat /\ d \in Int /\ done + 1 \in 1 .. rank
  BY DimensionType DEF SizeInv, ShapeTypeOK, Count
<1>2. CASE d > 0 /\ ~Overflows(numel, d)
  <2>1. numel * d <= MaxNumel /\ numel * d \in Nat \ {0}
    <3>1. numel \in Nat \ {0} /\ MaxNumel \in Nat /\ d \in Nat \ {0}
      BY <1>1, <1>2, ShapeAssumption DEF ShapeAssumption, SizeInv, ShapeTypeOK
    <3>2. numel <= MaxNumel \div d
      BY <1>2, <3>1 DEF Overflows
    <3>3. numel * d <= MaxNumel
      BY <3>1, <3>2, QuotientBounds
    <3> QED
      BY <3>1, <3>3
  <2>2. (numel * d) % Word = numel * d
    <3>1. /\ MaxNumel \in Nat /\ numel * d <= 2 * MaxNumel + 1
          /\ Word = 2 * MaxNumel + 1 + 1
      BY <2>1, ShapeAssumption DEF ShapeAssumption, Word
    <3> HIDE DEF d
    <3> QED
      BY <2>1, <3>1, NoWrap
  <2>3. numel' = numel * d /\ exact' = numel * d /\ done' = done + 1
        /\ UNCHANGED <<dims, at, stride, strides, byte_size>> /\ at = "count"
    BY <1>1, <1>2, <2>2 DEF Count, SizeInv, CountsExact
  <2> HIDE DEF d
  <2> QED
    BY <1>1, <2>1, <2>3
    DEF SizeInv, ShapeTypeOK, Counted, CountsExact, rank, Place
<1>3. CASE ~(d > 0 /\ ~Overflows(numel, d))
  <2>1. Reject
    BY <1>1, <1>3 DEF Count
  <2> QED
    BY <1>1, <2>1
    DEF Reject, Goto, SizeInv, ShapeTypeOK, Counted, CountsExact,
        rank, Place
<1> QED
  BY <1>2, <1>3

\* The size in bytes of an accepted shape is computed without wrapping.
LEMMA AcceptSizeInv ==
  ASSUME SizeInv, Accept
  PROVE  SizeInv'
<1>1. numel \in Nat /\ ElementSize \in Nat \ {0} /\ MaxSize \in Nat
      /\ numel <= MaxSize \div ElementSize /\ numel = exact
  BY ShapeAssumption
  DEF ShapeAssumption, SizeInv, ShapeTypeOK, Accept, Counted, CountsExact
<1>2. numel * ElementSize <= MaxSize /\ numel * ElementSize \in Nat
  BY <1>1, QuotientBounds
<1>3. numel <= MaxSize
  <2>1. numel <= numel * ElementSize
    <3>1. PICK k \in Nat : ElementSize = 1 + k
      BY <1>1
    <3>2. numel * ElementSize = numel + numel * k /\ numel * k \in Nat
      BY <1>1, <3>1
    <3> QED
      BY <1>1, <3>2
  <2> QED
    BY <1>1, <1>2, <2>1
<1>4. byte_size' = numel * ElementSize
  <2>1. numel % SizeWord = numel
    BY <1>1, <1>3, NoWrap DEF SizeWord
  <2>2. (numel * ElementSize) % SizeWord = numel * ElementSize
    BY <1>1, <1>2, NoWrap DEF SizeWord
  <2> QED
    BY <2>1, <2>2 DEF Accept
<1>5. byte_size' = ElementSize * exact'
  BY <1>1, <1>4 DEF Accept
<1> QED
  BY <1>1, <1>2, <1>4, <1>5, DimensionType
  DEF Accept, Goto, SizeInv, ShapeTypeOK, Counted, CountsExact,
      rank, Place

\* Strides are words.
LEMMA StrideSizeInv ==
  ASSUME SizeInv, Stride
  PROVE  SizeInv'
<1> DEFINE i == rank - done
<1>1. /\ rank \in Nat /\ i \in 1 .. rank
      /\ dims[i] \in Int /\ DOMAIN dims = 1 .. rank
  BY DimensionType DEF SizeInv, ShapeTypeOK, Stride
<1>2. Word \in Nat \ {0}
  BY ShapeAssumption DEF ShapeAssumption, Word
<1>3. (stride * dims[i]) % Word \in 0 .. Word - 1
  <2>1. stride * dims[i] \in Int
    BY <1>1, <1>2 DEF SizeInv, ShapeTypeOK
  <2> HIDE DEF i
  <2> QED
    BY <1>2, <2>1
<1>4. stride' \in 0 .. Word - 1
  BY <1>1, <1>3 DEF Stride, SizeInv, ShapeTypeOK
<1>5. strides' \in [DOMAIN dims -> 0 .. Word - 1]
  BY <1>1 DEF Stride, StrideOf, SizeInv, ShapeTypeOK
<1> QED
  BY <1>1, <1>4, <1>5
  DEF Stride, SizeInv, ShapeTypeOK, Counted, CountsExact, rank, Place

\* The other steps multiply nothing.
LEMMA OtherStepsSizeInv ==
  ASSUME SizeInv,
         CheckRank \/ CheckSize \/ UNCHANGED shape_vars
  PROVE  SizeInv'
<1>1. rank \in Nat
  BY DimensionType DEF SizeInv
<1>2. CASE CheckRank
  BY <1>1, <1>2
  DEF CheckRank, Reject, Goto, SizeInv,
      ShapeTypeOK, Counted, CountsExact, rank, Place
<1>3. CASE CheckSize
  <2>1. MaxSize \div ElementSize \in Int
    BY ShapeAssumption DEF ShapeAssumption
  <2>2. at = "count" /\ numel \in Int
        /\ UNCHANGED <<dims, numel, stride, strides, byte_size, exact>>
    BY <1>3 DEF CheckSize, Reject, SizeInv, ShapeTypeOK
  <2>3. done' = 0 /\ at' \in {"rejected", "strides"}
        /\ (at' = "strides" => numel <= MaxSize \div ElementSize)
    BY <1>3, <2>1, <2>2 DEF CheckSize, TooLarge, Reject, Goto
  <2> QED
    BY <1>1, <2>2, <2>3
    DEF SizeInv, ShapeTypeOK, Counted, CountsExact, rank, Place
<1>4. CASE UNCHANGED shape_vars
  BY <1>4 DEF shape_vars, SizeInv, ShapeTypeOK, Counted, CountsExact, rank
<1> QED
  BY <1>2, <1>3, <1>4

\* The inductive invariant of ValidateShape: the counts and what its checks let
\* through.
LEMMA SizeInvHolds == ShapeSpec => []SizeInv
<1>1. ShapeInit => SizeInv
  BY InitSizeInv
<1>2. SizeInv /\ [ShapeNext]_shape_vars => SizeInv'
  BY CountSizeInv, AcceptSizeInv, StrideSizeInv, OtherStepsSizeInv DEF ShapeNext
<1>3. QED
  BY <1>1, <1>2, PTL DEF ShapeSpec

\* The element count of ValidateShape is never 0 and never beyond int64_t, and
\* its strides are words, for words of every width.
THEOREM ShapeIsTyped == ShapeSpec => []ShapeTypeOK
BY SizeInvHolds, PTL DEF SizeInv

\* For words of every width, every element size and shapes of every rank, no
\* multiplication of ValidateShape wraps.
THEOREM CountsAreExact == ShapeSpec => []CountsExact
BY SizeInvHolds, PTL DEF SizeInv

-----------------------------------------------------------------------------
(***************************************************************************)
(* The answers of ValidateShape.  The argument: the loops have multiplied  *)
(* the first dimensions and then the last ones; both products grow, so     *)
(* that one that is too large refuses the shape rightly, and a stride of a *)
(* shape that fits never reaches the modulus of its word.                  *)
(***************************************************************************)
\* The dimensions from i on.
From(s, i) == SubSeq(s, i, Len(s))

\* What the loops of ValidateShape have found out when they get where they are.
Progress ==
  /\ at \in {"rank", "count"} => stride = 1
  /\ at \in {"count", "strides"} => rank <= MaxRank
  /\ at = "count" => /\ \A i \in 1 .. done : dims[i] > 0
                     /\ numel = UpTo(dims)[done]
  /\ at = "strides" =>
       /\ Representable(dims) /\ numel = Product(dims)
       /\ \A i \in rank - done + 1 .. rank : strides[i] = Product(From(dims, i + 1))
       /\ done < rank => stride = Product(From(dims, rank - done + 1))

AnswerInv == SizeInv /\ Progress /\ NeverWrong

\* What a refusal before a multiplication says.
LEMMA QuotientExceeded ==
  ASSUME NEW m \in Nat, NEW v \in Nat \ {0}, NEW n \in Nat, n > m \div v
  PROVE  n * v > m
<1> DEFINE q == m \div v
<1>1. q \in Nat /\ m < q * v + v
  BY QuotientRemainder
<1>2. PICK e \in Nat : n = q + 1 + e
  <2>1. n - q - 1 \in Nat /\ n = q + 1 + (n - q - 1)
    BY <1>1
  <2>2. QED
    BY <2>1
<1> HIDE DEF q
<1>3. n * v = q * v + v + e * v /\ e * v \in Nat /\ q * v \in Nat
  BY <1>1, <1>2
<1>4. QED
  BY <1>1, <1>3

\* The products of the last dimensions: each is the one after it times a dimension,
\* and they grow.
LEMMA FromIs ==
  ASSUME NEW s \in Seq(Int)
  PROVE  /\ From(s, 1) = s /\ From(s, Len(s) + 1) = <<>>
         /\ \A i \in 1 .. Len(s) :
              /\ From(s, i) \in Seq(Int)
              /\ Product(From(s, i)) = s[i] * Product(From(s, i + 1))
<1>1. Len(s) \in Nat /\ From(s, 1) = s
  BY SubSeqFull DEF From
<1>2. From(s, Len(s) + 1) = <<>>
  <2>1. PICK n \in Nat : n = Len(s)
    BY <1>1
  <2>2. n + 1 \in Int /\ n \in Int /\ n < n + 1
    OBVIOUS
  <2>3. SubSeq(s, n + 1, n) = <<>>
    BY <2>2, SubSeqEmpty
  <2>4. QED
    BY <2>1, <2>3 DEF From
<1>3. ASSUME NEW i \in 1 .. Len(s)
      PROVE  /\ From(s, i) \in Seq(Int)
             /\ Product(From(s, i)) = s[i] * Product(From(s, i + 1))
  <2>1. PICK n \in Nat : n = Len(s)
    BY <1>1
  <2>2. n \in i .. Len(s) /\ i \in Int /\ i <= n /\ n - i + 1 > 0
    BY <2>1
  <2>3. /\ Head(SubSeq(s, i, n)) = s[i]
        /\ Tail(SubSeq(s, i, n)) = SubSeq(s, i + 1, n)
    BY <2>2, HeadTailOfSubSeq
  <2>4. \A k \in i .. n : s[k] \in Int
    BY <2>1
  <2>5. /\ SubSeq(s, i, n) \in Seq(Int)
        /\ Len(SubSeq(s, i, n)) = IF i <= n THEN n - i + 1 ELSE 0
    BY <2>2, <2>4, SubSeqProperties
  <2>6. PICK t \in Seq(Int) : t = SubSeq(s, i, n)
    BY <2>5
  <2>7. Len(t) > 0
    BY <2>2, <2>5, <2>6
  <2>8. Product(t) = t[1] * Product(Tail(t))
    BY <2>7, ProductOfTail
  <2>9. t[1] = Head(t)
    BY <2>7
  <2>10. QED
    BY <2>1, <2>3, <2>6, <2>8, <2>9 DEF From
<1>4. QED
  BY <1>1, <1>2, <1>3

\* The products of the last dimensions are below the product of all.
LEMMA FromGrows ==
  ASSUME NEW s \in Seq(Int), \A i \in 1 .. Len(s) : s[i] > 0
  PROVE  \A i \in 1 .. Len(s) + 1 :
           Product(From(s, i)) \in Nat \ {0} /\ Product(From(s, i)) <= Product(s)
<1> DEFINE N == Len(s)
           f(i) == Product(From(s, i + 1))
           T == {i \in 0 .. N : f(i) \in Nat \ {0} /\ f(i) <= f(0)}
<1>1. N \in Nat /\ \A i \in 1 .. N : s[i] \in Nat \ {0}
  OBVIOUS
<1>2. f(0) = Product(s) /\ f(0) \in Nat \ {0}
  BY FromIs, ProductGrows
<1>3. \A i \in 0 .. N - 1 : f(i) = s[i + 1] * f(i + 1) /\ f(i + 1) \in Int
  <2>1. ASSUME NEW i \in 0 .. N - 1
        PROVE  f(i) = s[i + 1] * f(i + 1) /\ f(i + 1) \in Int
    <3>1. i + 1 \in 1 .. Len(s)
      BY <1>1
    <3>2. Product(From(s, i + 1)) = s[i + 1] * Product(From(s, (i + 1) + 1))
      BY <3>1, FromIs
    <3>3. From(s, (i + 1) + 1) \in Seq(Int)
      <4>1. CASE i + 1 = Len(s)
        <5>1. From(s, (i + 1) + 1) = <<>>
          BY <4>1, FromIs
        <5>2. <<>> \in Seq(Int)
          OBVIOUS
        <5>3. QED
          BY <5>1, <5>2, Zenon
      <4>2. CASE i + 1 # Len(s)
        <5>1. (i + 1) + 1 \in 1 .. Len(s)
          BY <1>1, <3>1, <4>2
        <5>2. \A k \in 1 .. Len(s) : From(s, k) \in Seq(Int)
          BY FromIs
        <5>3. QED
          BY <5>1, <5>2
      <4>3. QED
        BY <4>1, <4>2
    <3>4. QED
      BY <3>2, <3>3, ProductType
  <2>2. QED
    BY <2>1
<1> HIDE DEF f, N
<1>4. 0 \in T
  BY <1>1, <1>2
<1>5. ASSUME NEW i \in 0 .. N - 1, i \in T PROVE i + 1 \in T
  <2>1. f(i) = s[i + 1] * f(i + 1) /\ f(i + 1) \in Int /\ s[i + 1] \in Nat \ {0}
        /\ f(i) \in Nat \ {0} /\ f(i) <= f(0) /\ i + 1 \in 0 .. N
    BY <1>1, <1>3, <1>5
  <2>2. PICK d \in Nat : s[i + 1] = d + 1
    <3>1. PICK c \in Nat \ {0} : c = s[i + 1]
      BY <2>1
    <3>2. c - 1 \in Nat /\ c = (c - 1) + 1
      OBVIOUS
    <3>3. QED
      BY <3>1, <3>2
  <2>3. PICK a \in Int : a = f(i + 1)
    BY <2>1
  <2>4. f(i) = d * a + a
    BY <2>1, <2>2, <2>3
  <2>5. a > 0
    <3>1. ASSUME a <= 0 PROVE FALSE
      <4>1. d * a <= 0
        BY <3>1
      <4>2. QED
        BY <2>1, <2>4, <3>1, <4>1
    <3>2. QED
      BY <3>1
  <2>6. d * a \in Nat
    BY <2>5
  <2>7. a <= f(i) /\ a \in Nat \ {0}
    BY <2>4, <2>5, <2>6
  <2>8. a <= f(0)
    BY <1>2, <2>1, <2>7
  <2>9. QED
    BY <2>1, <2>3, <2>7, <2>8
<1>6. \A i \in 0 .. N : i \in T
  <2> HIDE DEF T
  <2>1. QED
    BY <1>1, <1>4, <1>5, UpToInduction
<1>7. ASSUME NEW i \in 1 .. N + 1
      PROVE  Product(From(s, i)) \in Nat \ {0} /\ Product(From(s, i)) <= Product(s)
  <2>1. i - 1 \in 0 .. N /\ (i - 1) + 1 = i
    BY <1>1
  <2>2. f(i - 1) \in Nat \ {0} /\ f(i - 1) <= f(0)
    BY <1>6, <2>1
  <2>3. f(i - 1) = Product(From(s, i))
    BY <2>1 DEF f
  <2>4. QED
    BY <1>2, <2>2, <2>3
<1>8. QED
  BY <1>7 DEF N

\* ValidateShape has not looked at anything yet.
LEMMA InitAnswer == ShapeInit => AnswerInv
<1> SUFFICES ASSUME ShapeInit PROVE AnswerInv
  OBVIOUS
<1>1. at = "rank" /\ stride = 1
  BY DEF ShapeInit
<1>2. QED
  BY <1>1, InitSizeInv DEF AnswerInv, Progress, NeverWrong

\* The dimensions, and the products of the first of them.
LEMMA DimensionsAre ==
  ASSUME ShapeTypeOK
  PROVE  /\ dims \in Seq(Int) /\ rank = Len(dims) /\ rank \in Nat /\ DOMAIN dims = 1 .. rank
         /\ done \in 0 .. rank
         /\ UpTo(dims)[0] = 1 /\ UpTo(dims)[rank] = Product(dims)
         /\ \A n \in 1 .. rank : UpTo(dims)[n] = UpTo(dims)[n - 1] * dims[n]
<1>1. dims \in Seq(Int)
  <2>1. \A s \in Seq(-MaxNumel - 1 .. MaxNumel) : s \in Seq(Int)
    BY ShapeAssumption DEF ShapeAssumption
  <2>2. QED
    BY <2>1, ShapeAssumption DEF ShapeAssumption, ShapeTypeOK
<1>2. rank = Len(dims) /\ rank \in Nat /\ DOMAIN dims = 1 .. rank
  BY <1>1 DEF rank
<1>3. done \in 0 .. rank
  BY DEF ShapeTypeOK
<1>4. QED
  BY <1>1, <1>2, <1>3, UpToIs, ProductUnfolds

\* A shape that is refused cannot be represented.
LEMMA RejectAnswer ==
  ASSUME AnswerInv, Reject, ~Representable(dims), SizeInv'
  PROVE  AnswerInv'
<1>1. at' = "rejected" /\ dims' = dims
  BY DEF Reject, Goto
<1>2. Progress'
  BY <1>1 DEF Progress
<1>3. ~Representable(dims')
  BY <1>1
<1>4. NeverWrong'
  BY <1>1, <1>3 DEF NeverWrong, RightAnswer, Representable
<1>5. QED
  BY <1>2, <1>4 DEF AnswerInv

\* A rank that is refused is too large.
LEMMA RankAnswer ==
  ASSUME AnswerInv, CheckRank, SizeInv'
  PROVE  AnswerInv'
<1>1. CASE rank > MaxRank
  <2>1. ~Representable(dims) /\ Reject
    BY <1>1, DimensionsAre, ShapeAssumption
    DEF AnswerInv, SizeInv, CheckRank, Representable, ShapeAssumption
  <2>2. QED
    BY <2>1, RejectAnswer
<1>2. CASE ~(rank > MaxRank)
  <2>1. /\ at' = "count" /\ done' = 0 /\ at = "rank"
        /\ UNCHANGED <<dims, numel, stride, strides, byte_size, exact>>
    BY <1>2 DEF CheckRank, Goto
  <2>2. rank <= MaxRank /\ numel = 1 /\ stride = 1 /\ UpTo(dims)[0] = 1
    BY <1>2, <2>1, DimensionsAre, ShapeAssumption
    DEF AnswerInv, SizeInv, Counted, Progress, ShapeAssumption
  <2>3. Progress'
    BY <2>1, <2>2 DEF Progress, rank
  <2>4. QED
    BY <2>1, <2>3 DEF AnswerInv, NeverWrong
<1>3. QED
  BY <1>1, <1>2

\* A dimension that is not positive, or a product that is too large already.
LEMMA CountAnswer ==
  ASSUME AnswerInv, Count, SizeInv'
  PROVE  AnswerInv'
<1>1. PICK n : n = done + 1
  OBVIOUS
<1>2. PICK d : d = dims[n]
  OBVIOUS
<1>3. /\ dims \in Seq(Int) /\ rank = Len(dims) /\ DOMAIN dims = 1 .. rank
      /\ rank \in Nat /\ n \in 1 .. rank /\ n - 1 = done /\ d \in Int
      /\ MaxNumel \in Nat /\ numel \in Nat \ {0}
  <2>1. /\ dims \in Seq(Int) /\ rank = Len(dims) /\ DOMAIN dims = 1 .. rank
        /\ rank \in Nat /\ done \in 0 .. rank /\ done < rank
    BY DimensionsAre DEF AnswerInv, SizeInv, Count
  <2>2. MaxNumel \in Nat /\ numel \in Nat \ {0}
    BY ShapeAssumption DEF AnswerInv, SizeInv, ShapeTypeOK, ShapeAssumption
  <2>3. n \in 1 .. rank /\ n - 1 = done
    BY <1>1, <2>1
  <2>4. d \in Int
    BY <1>2, <2>1, <2>3
  <2>5. QED
    BY <2>1, <2>2, <2>3, <2>4
<1>4. /\ at = "count" /\ rank <= MaxRank /\ stride = 1
      /\ \A i \in 1 .. done : dims[i] > 0
      /\ numel = UpTo(dims)[done] /\ UpTo(dims)[n] = numel * d
  BY <1>2, <1>3, DimensionsAre DEF AnswerInv, SizeInv, Progress, Count
<1>5. CASE d <= 0
  <2>1. ~Representable(dims) /\ Reject
    BY <1>1, <1>2, <1>3, <1>5 DEF Representable, Count
  <2>2. QED
    BY <2>1, RejectAnswer
<1>6. CASE d > 0 /\ Overflows(numel, d)
  <2>1. d \in Nat \ {0} /\ numel > MaxNumel \div d
    BY <1>3, <1>6 DEF Overflows
  <2>2. numel * d > MaxNumel
    BY <1>3, <2>1, QuotientExceeded
  <2>3. ASSUME Representable(dims) PROVE FALSE
    <3>1. \A i \in 1 .. Len(dims) : dims[i] > 0
      BY <1>3, <2>3 DEF Representable
    <3>2. UpTo(dims)[n] <= Product(dims) /\ Product(dims) \in Int /\ n \in 0 .. Len(dims)
      BY <1>3, <3>1, ProductGrows
    <3>3. Product(dims) <= MaxNumel
      BY <2>3 DEF Representable
    <3>4. PICK a \in Int : a = numel * d
      BY <1>3
    <3>5. QED
      BY <1>3, <1>4, <2>2, <3>2, <3>3, <3>4
  <2>4. Reject
    BY <1>1, <1>2, <1>6 DEF Count
  <2>5. QED
    BY <2>3, <2>4, RejectAnswer
<1>7. CASE d > 0 /\ ~Overflows(numel, d)
  <2>1. /\ at' = "count" /\ done' = n /\ exact' = exact * d
        /\ UNCHANGED <<dims, stride>>
    BY <1>1, <1>2, <1>3, <1>4, <1>7 DEF Count
  <2>2. numel' = numel * d
    BY <1>4, <2>1 DEF AnswerInv, SizeInv, CountsExact
  <2>3. \A i \in 1 .. n : dims[i] > 0
    BY <1>1, <1>2, <1>3, <1>4, <1>7
  <2>4. Progress'
    BY <1>4, <2>1, <2>2, <2>3 DEF Progress, rank
  <2>5. QED
    BY <2>1, <2>4 DEF AnswerInv, NeverWrong
<1>8. QED
  BY <1>3, <1>5, <1>6, <1>7

\* Too many bytes.
LEMMA SizeAnswer ==
  ASSUME AnswerInv, CheckSize, SizeInv'
  PROVE  AnswerInv'
<1>1. /\ dims \in Seq(Int) /\ rank = Len(dims) /\ DOMAIN dims = 1 .. rank /\ rank \in Nat
      /\ at = "count" /\ done = rank /\ rank <= MaxRank /\ stride = 1
      /\ \A i \in 1 .. rank : dims[i] > 0
      /\ numel = Product(dims) /\ numel \in Nat /\ numel <= MaxNumel
      /\ MaxSize \in Nat /\ ElementSize \in Nat \ {0} /\ MaxNumel \in Nat
  BY DimensionsAre, ShapeAssumption
  DEF AnswerInv, SizeInv, Progress, CheckSize, ShapeTypeOK, ShapeAssumption
<1>2. ElementSize * numel = numel * ElementSize
  BY <1>1
<1>3. CASE TooLarge(numel)
  <2>1. numel * ElementSize > MaxSize
    BY <1>1, <1>3, QuotientExceeded DEF TooLarge
  <2>2. ASSUME Representable(dims) PROVE FALSE
    <3>1. ElementSize * numel <= MaxSize
      BY <1>1, <2>2 DEF Representable
    <3>2. PICK a \in Int : a = numel * ElementSize
      BY <1>1
    <3>3. QED
      BY <1>1, <1>2, <2>1, <3>1, <3>2
  <2>3. Reject
    BY <1>3 DEF CheckSize
  <2>4. QED
    BY <2>2, <2>3, RejectAnswer
<1>4. CASE ~TooLarge(numel)
  <2>1. at' = "strides" /\ done' = 0
        /\ UNCHANGED <<dims, numel, stride, strides, byte_size, exact>>
    BY <1>4 DEF CheckSize, Goto
  <2>2. numel * ElementSize <= MaxSize
    <3>1. MaxSize \div ElementSize \in Nat
      BY <1>1, QuotientRemainder
    <3>2. numel <= MaxSize \div ElementSize
      BY <1>1, <1>4, <3>1 DEF TooLarge
    <3>3. QED
      BY <1>1, <3>2, QuotientBounds
  <2>3. Representable(dims)
    BY <1>1, <1>2, <2>2 DEF Representable
  <2>4. Product(From(dims, rank - 0 + 1)) = 1
    <3>1. From(dims, rank + 1) = <<>> /\ rank - 0 + 1 = rank + 1
      BY <1>1, FromIs
    <3>2. Product(<<>>) = 1
      <4>1. <<>> \in Seq(Int) /\ Len(<<>>) = 0
        OBVIOUS
      <4>2. QED
        BY <4>1, ProductType
    <3>3. QED
      BY <3>1, <3>2
  <2>5. \A i \in rank - 0 + 1 .. rank : FALSE
    BY <1>1
  <2>6. Representable(dims)' <=> Representable(dims)
    BY <2>1 DEF Representable
  <2>7. rank' = rank
    BY <2>1 DEF rank
  <2>8. Progress'
    BY <1>1, <2>1, <2>3, <2>4, <2>5, <2>6, <2>7 DEF Progress
  <2>9. QED
    BY <2>1, <2>8 DEF AnswerInv, NeverWrong
<1>5. QED
  BY <1>3, <1>4

\* A stride.
LEMMA StrideAnswer ==
  ASSUME AnswerInv, Stride, SizeInv'
  PROVE  AnswerInv'
<1>1. /\ dims \in Seq(Int) /\ rank = Len(dims) /\ DOMAIN dims = 1 .. rank /\ rank \in Nat
      /\ at = "strides" /\ done \in Nat /\ done < rank /\ rank <= MaxRank
      /\ Representable(dims) /\ numel = Product(dims)
      /\ stride = Product(From(dims, rank - done + 1))
      /\ \A j \in rank - done + 1 .. rank : strides[j] = Product(From(dims, j + 1))
      /\ DOMAIN strides = 1 .. rank
  BY DimensionsAre DEF AnswerInv, SizeInv, Progress, Stride, ShapeTypeOK
<1>2. PICK i \in 1 .. rank : i = rank - done
  <2>1. rank - done \in 1 .. rank
    BY <1>1
  <2>2. QED
    BY <2>1, Zenon
<1>3. /\ at' = "strides" /\ done' = done + 1
      /\ strides' = [strides EXCEPT ![i] = stride]
      /\ stride' = IF i > 1 THEN (stride * dims[i]) % Word ELSE stride
      /\ UNCHANGED <<dims, numel, byte_size, exact>>
  BY <1>1, <1>2 DEF Stride, StrideOf
<1>4. /\ rank - done + 1 = i + 1 /\ rank - (done + 1) + 1 = i
      /\ (done + 1 < rank <=> i > 1)
  BY <1>1, <1>2
<1>5. ASSUME NEW j \in i .. rank PROVE strides'[j] = Product(From(dims, j + 1))
  <2>1. CASE j = i
    <3>1. strides'[j] = stride
      BY <1>1, <1>2, <1>3, <2>1
    <3>2. stride = Product(From(dims, i + 1))
      BY <1>1, <1>4
    <3>3. QED
      BY <2>1, <3>1, <3>2
  <2>2. CASE j # i
    <3>1. j \in rank - done + 1 .. rank /\ j \in 1 .. rank
      BY <1>1, <1>2, <1>4, <2>2
    <3>2. strides'[j] = strides[j]
      BY <1>1, <1>3, <2>2, <3>1
    <3>3. QED
      BY <1>1, <3>1, <3>2
  <2>3. QED
    BY <2>1, <2>2
<1>6. (stride * dims[i]) % Word = Product(From(dims, i))
  <2>1. \A j \in 1 .. Len(dims) : dims[j] > 0
    BY <1>1 DEF Representable
  <2>2. i \in 1 .. Len(dims) /\ i \in 1 .. Len(dims) + 1 /\ i + 1 \in 1 .. Len(dims) + 1
    BY <1>1, <1>2
  <2>3. PICK a \in Nat : a = Product(From(dims, i)) /\ a <= Product(dims)
    BY <1>1, <2>1, <2>2, FromGrows
  <2>4. PICK b \in Nat : b = Product(From(dims, i + 1))
    BY <1>1, <2>1, <2>2, FromGrows
  <2>5. a = dims[i] * b
    BY <1>1, <2>2, <2>3, <2>4, FromIs
  <2>6. dims[i] \in Int
    BY <1>1, <1>2
  <2>7. stride * dims[i] = a
    <3>1. stride = b
      BY <1>1, <1>4, <2>4
    <3>2. PICK c \in Int : c = dims[i]
      BY <2>6
    <3>3. b * c = c * b
      OBVIOUS
    <3>4. QED
      BY <2>5, <3>1, <3>2, <3>3
  <2>8. a <= MaxNumel /\ MaxNumel \in Nat /\ Product(dims) \in Int
    BY <1>1, <2>3, ProductType, ShapeAssumption DEF Representable, ShapeAssumption
  <2>9. a % (2 * MaxNumel + 1 + 1) = a
    <3>1. 2 * MaxNumel + 1 \in Nat /\ a <= 2 * MaxNumel + 1
      BY <2>8
    <3>2. QED
      BY <3>1, NoWrap
  <2>10. Word = 2 * MaxNumel + 1 + 1
    BY <2>8 DEF Word
  <2>11. QED
    BY <2>3, <2>7, <2>9, <2>10
<1>7. Representable(dims)' <=> Representable(dims)
  BY <1>3 DEF Representable
<1>8. rank' = rank
  BY <1>3 DEF rank
<1>9. Progress'
  BY <1>1, <1>3, <1>4, <1>5, <1>6, <1>7, <1>8 DEF Progress
<1>10. QED
  BY <1>3, <1>9 DEF AnswerInv, NeverWrong

\* The answer.
LEMMA AcceptAnswer ==
  ASSUME AnswerInv, Accept, SizeInv'
  PROVE  AnswerInv'
<1>1. /\ dims \in Seq(Int) /\ rank = Len(dims) /\ DOMAIN dims = 1 .. rank /\ rank \in Nat
      /\ at = "strides" /\ done = rank
      /\ Representable(dims) /\ numel = Product(dims)
      /\ \A j \in rank - done + 1 .. rank : strides[j] = Product(From(dims, j + 1))
      /\ strides = [j \in 1 .. rank |-> strides[j]]
  BY DimensionsAre DEF AnswerInv, SizeInv, Progress, Accept, ShapeTypeOK
<1>2. rank - done + 1 = 1
  BY <1>1
<1>3. strides = RowMajor(dims)
  BY <1>1, <1>2 DEF RowMajor, From
<1>4. at' = "accepted" /\ UNCHANGED <<dims, numel, stride, strides, exact>>
  BY DEF Accept, Goto
<1>5. RightAnswer'
  <2>1. Representable(dims)' <=> Representable(dims)
    BY <1>4 DEF Representable
  <2>2. QED
    BY <1>1, <1>3, <1>4, <2>1 DEF RightAnswer
<1>6. Progress'
  BY <1>4 DEF Progress
<1>7. QED
  BY <1>5, <1>6 DEF AnswerInv, NeverWrong

\* Every step keeps the invariant.
LEMMA AnswerStep ==
  ASSUME AnswerInv, [ShapeNext]_shape_vars
  PROVE  AnswerInv'
<1>1. SizeInv'
  BY CountSizeInv, AcceptSizeInv, StrideSizeInv, OtherStepsSizeInv DEF AnswerInv, ShapeNext
<1>2. CASE UNCHANGED shape_vars
  <2>1. Progress'
    BY <1>2 DEF shape_vars, AnswerInv, Progress, Representable, rank
  <2>2. NeverWrong'
    BY <1>2 DEF shape_vars, AnswerInv, NeverWrong, RightAnswer, Representable
  <2>3. QED
    BY <1>1, <2>1, <2>2 DEF AnswerInv
<1>3. QED
  BY <1>1, <1>2, RankAnswer, CountAnswer, SizeAnswer, StrideAnswer, AcceptAnswer
  DEF ShapeNext

\* For words of every width and shapes of every rank: what ValidateShape refuses
\* cannot be represented, and what it accepts gets its count and row-major strides.
THEOREM AnswersAreRight == ShapeSpec => []NeverWrong
<1>1. ShapeInit => AnswerInv
  BY InitAnswer
<1>2. AnswerInv /\ [ShapeNext]_shape_vars => AnswerInv'
  BY AnswerStep
<1>3. AnswerInv => NeverWrong
  BY DEF AnswerInv
<1>4. QED
  BY <1>1, <1>2, <1>3, PTL DEF ShapeSpec

-----------------------------------------------------------------------------
(***************************************************************************)
(* Numbers: remainders by P and quotients stay in the field.               *)
(***************************************************************************)
\* P is more than two.
LEMMA FieldType ==
  /\ P \in Nat /\ P > 2
  /\ 0 \in Field /\ 1 \in Field /\ 2 \in Field \ {0}
  /\ \A x \in Field : x \in Int /\ x \in Nat
  /\ \A x \in Int : x % P \in Field
<1>1. P \in Nat /\ P > 2
  BY GradientsAssumption
<1>2. \A x \in Int : x % P \in 0 .. P - 1
  BY <1>1
<1>3. QED
  BY <1>1, <1>2 DEF Field

\* Whatever is not zero has a reciprocal.
LEMMA ReciprocalType ==
  ASSUME NEW x \in Field \ {0}
  PROVE  Reciprocal[x] \in Field
<1>1. \E y \in Field : (x * y) % P = 1
  BY GradientsAssumption
<1>2. Reciprocal[x] = CHOOSE y \in Field : (x * y) % P = 1
  BY Zenon DEF Reciprocal
<1>3. QED
  BY <1>1, <1>2, Zenon

\* The first components of what dual numbers are put together from.
LEMMA DualType ==
  ASSUME NEW a, NEW b, a[1] \in Field, b[1] \in Field
  PROVE  /\ Plus(a, b)[1] \in Field /\ Minus(a, b)[1] \in Field
         /\ Times(a, b)[1] \in Field /\ Negated(a)[1] \in Field
         /\ b[1] # 0 => Over(a, b)[1] \in Field
<1>1. a[1] \in Int /\ b[1] \in Int
  BY FieldType
<1>2. Plus(a, b)[1] \in Field /\ Times(a, b)[1] \in Field /\ Negated(a)[1] \in Field
  BY <1>1, FieldType DEF Plus, Times, Negated
<1>3. Minus(a, b)[1] \in Field
  <2>1. Negated(b)[1] \in Field
    BY <1>1, FieldType DEF Negated
  <2>2. Negated(b)[1] \in Int
    BY <2>1, FieldType
  <2>3. Minus(a, b)[1] = (a[1] + Negated(b)[1]) % P
    BY DEF Minus, Plus
  <2>4. QED
    BY <1>1, <2>2, <2>3, FieldType
<1>4. ASSUME b[1] # 0 PROVE Over(a, b)[1] \in Field
  <2>1. Reciprocal[b[1]] \in Int
    BY <1>4, ReciprocalType, FieldType
  <2>2. Over(a, b)[1] = (a[1] * Reciprocal[b[1]]) % P
    BY DEF Over
  <2>3. QED
    BY <1>1, <2>1, <2>2, FieldType
<1>5. QED
  BY <1>2, <1>3, <1>4

\* And of the tables.
LEMMA TableType ==
  ASSUME NEW a, a[1] \in Field
  PROVE  /\ exp(a)[1] \in Field \ {0} /\ exp(a)[1] = Exp[a[1]]
         /\ log(a)[1] \in Field /\ erf(a)[1] \in Field
         /\ Plus(Lift(1), exp(a))[1] \in Field \ {0}
         /\ Plus(exp(a), Lift(1))[1] \in Field \ {0}
<1>1. /\ exp(a)[1] = Exp[a[1]] /\ log(a)[1] = Log[a[1]] /\ erf(a)[1] = Erf[a[1]]
      /\ Lift(1)[1] = 1
  BY DEF exp, log, erf, Lift
<1>2. /\ Exp[a[1]] \in Field \ {0} /\ Log[a[1]] \in Field /\ Erf[a[1]] \in Field
      /\ (Exp[a[1]] + 1) % P # 0
  BY GradientsAssumption
<1>3. /\ Plus(Lift(1), exp(a))[1] = (1 + Exp[a[1]]) % P
      /\ Plus(exp(a), Lift(1))[1] = (Exp[a[1]] + 1) % P
  BY <1>1 DEF Plus
<1>4. Exp[a[1]] \in Int /\ 1 + Exp[a[1]] = Exp[a[1]] + 1
  BY <1>2, FieldType
<1>5. (Exp[a[1]] + 1) % P \in Field
  BY <1>4, FieldType
<1>6. QED
  BY <1>1, <1>2, <1>3, <1>4, <1>5

\* Numbers are lifted to dual numbers.
LEMMA LiftType ==
  ASSUME NEW x \in Field
  PROVE  Lift(x)[1] \in Field /\ Lift(x)[1] = x
BY DEF Lift

\* A count that can be averaged over is not zero.
LEMMA CountType ==
  ASSUME NEW n \in Nat, Averaged(n)
  PROVE  Divisor(n)[1] \in Field \ {0} /\ n % P \in Field \ {0}
<1>1. n % P \in Field
  BY FieldType
<1>2. Divisor(n)[1] = n % P
  BY DEF Divisor, Lift
<1>3. QED
  BY <1>1, <1>2 DEF Averaged

\* The activations.
LEMMA ActivationType ==
  ASSUME NEW a, a[1] \in Field
  PROVE  /\ \A op \in {"relu", "sigmoid", "tanh"} : MakeActivation(op, a)[1] \in Field
         /\ \A op \in {"gelu", "silu"} : CpuUnary(op, a)[1] \in Field
         /\ SiluForward(a)[1] \in Field
<1>1. relu(a)[1] \in Field
  BY LiftType, FieldType DEF relu
<1>2. /\ Lift(1)[1] \in Field /\ Lift(2)[1] \in Field \ {0} /\ Negated(a)[1] \in Field
      /\ Lift(InvSqrt2)[1] \in Int /\ a[1] \in Int
  BY LiftType, FieldType, DualType, GradientsAssumption DEF Lift
<1>3. sigmoid(a)[1] \in Field
  <2>1. CASE Negative(a[1])
    <3>1. sigmoid(a) = Over(exp(a), Plus(Lift(1), exp(a)))
      BY <2>1 DEF sigmoid
    <3>2. exp(a)[1] \in Field /\ Plus(Lift(1), exp(a))[1] \in Field \ {0}
      BY TableType
    <3>3. QED
      BY <3>1, <3>2, DualType
  <2>2. CASE ~Negative(a[1])
    <3>1. sigmoid(a) = Over(Lift(1), Plus(Lift(1), exp(Negated(a))))
      BY <2>2 DEF sigmoid
    <3>2. Plus(Lift(1), exp(Negated(a)))[1] \in Field \ {0}
      BY <1>2, TableType
    <3>3. QED
      BY <1>2, <3>1, <3>2, DualType
  <2>3. QED
    BY <2>1, <2>2
<1>4. tanh(a)[1] \in Field
  <2> DEFINE u == exp(Plus(a, a))
  <2>1. Plus(a, a)[1] \in Field
    BY DualType
  <2>2. u[1] \in Field /\ Plus(u, Lift(1))[1] \in Field \ {0}
    BY <2>1, TableType
  <2>3. Minus(u, Lift(1))[1] \in Field
    BY <1>2, <2>2, DualType
  <2>4. tanh(a) = Over(Minus(u, Lift(1)), Plus(u, Lift(1)))
    BY DEF tanh
  <2> HIDE DEF u
  <2>5. QED
    BY <2>2, <2>3, <2>4, DualType
<1>5. GeluForward(a)[1] \in Field
  <2> DEFINE c == Times(a, Lift(InvSqrt2))
             d == Times(a, Plus(Lift(1), erf(c)))
  <2>1. c[1] \in Field
    <3>1. c[1] = (a[1] * Lift(InvSqrt2)[1]) % P
      BY DEF Times
    <3>2. QED
      BY <1>2, <3>1, FieldType
  <2>2. erf(c)[1] \in Field
    BY <2>1, TableType
  <2>3. d[1] \in Field
    <3>1. Plus(Lift(1), erf(c))[1] \in Field
      BY <1>2, <2>2, DualType
    <3>2. QED
      BY <3>1, DualType
  <2>4. GeluForward(a) = Over(d, Lift(2))
    BY DEF GeluForward
  <2> HIDE DEF d
  <2>5. QED
    BY <1>2, <2>3, <2>4, DualType
<1>6. SiluForward(a)[1] \in Field
  <2> DEFINE e == Over(Lift(1), Plus(Lift(1), exp(Negated(a))))
  <2>1. Plus(Lift(1), exp(Negated(a)))[1] \in Field \ {0}
    BY <1>2, TableType
  <2>2. e[1] \in Field
    BY <1>2, <2>1, DualType
  <2>3. SiluForward(a) = Times(a, e)
    BY DEF SiluForward
  <2> HIDE DEF e
  <2>4. QED
    BY <2>2, <2>3, DualType
<1>7. QED
  BY <1>1, <1>3, <1>4, <1>5, <1>6 DEF MakeActivation, CpuUnary

\* Total is a recursive function of the number of summands.
TotalStep(s, f) ==
  [n \in 0 .. Len(s) |-> IF n = 0 THEN Lift(0) ELSE Plus(f[n - 1], s[n])]
Totals(s) == CHOOSE f : f = TotalStep(s, f)

LEMMA TotalUnfolds ==
  ASSUME NEW s
  PROVE  Total(s) = Totals(s)[Len(s)]
BY Zenon DEF Total, Totals, TotalStep

\* The recursion of Total is well founded.
LEMMA TotalsExist ==
  ASSUME NEW s, NEW N \in Nat, Len(s) = N
  PROVE  \E f : f = TotalStep(s, f)
<1> DEFINE Solves(n, f) ==
             \A m \in 0 .. n : f[m] = IF m = 0 THEN Lift(0) ELSE Plus(f[m - 1], s[m])
           T == {n \in 0 .. N : \E f : f = [m \in 0 .. N |-> f[m]] /\ Solves(n, f)}
<1>1. 0 \in T
  <2> DEFINE f == [m \in 0 .. N |-> Lift(0)]
  <2>1. f = [m \in 0 .. N |-> f[m]] /\ f[0] = Lift(0)
    OBVIOUS
  <2>2. \A m \in 0 .. 0 : m = 0
    OBVIOUS
  <2> HIDE DEF f
  <2>3. Solves(0, f)
    BY <2>1, <2>2
  <2>4. QED
    BY <2>1, <2>3
<1>2. ASSUME NEW n \in 0 .. N - 1, n \in T
      PROVE  n + 1 \in T
  <2>1. PICK f : f = [m \in 0 .. N |-> f[m]] /\ Solves(n, f)
    BY <1>2
  <2> DEFINE last == Plus(f[n], s[n + 1])
             g == [m \in 0 .. N |-> IF m = n + 1 THEN last ELSE f[m]]
  <2>2. n + 1 \in 0 .. N /\ \A m \in 0 .. n : m \in 0 .. N /\ m # n + 1
    OBVIOUS
  <2> HIDE DEF last
  <2>3. g = [m \in 0 .. N |-> g[m]] /\ g[n + 1] = last /\ \A m \in 0 .. n : g[m] = f[m]
    BY <2>2
  <2> HIDE DEF g
  <2>4. ASSUME NEW m \in 0 .. n + 1
        PROVE  g[m] = IF m = 0 THEN Lift(0) ELSE Plus(g[m - 1], s[m])
    <3>1. CASE m \in 0 .. n
      <4>1. m = 0 \/ m - 1 \in 0 .. n
        BY <3>1
      <4>2. g[m] = f[m] /\ (m = 0 \/ g[m - 1] = f[m - 1])
        BY <2>3, <3>1, <4>1
      <4>3. f[m] = IF m = 0 THEN Lift(0) ELSE Plus(f[m - 1], s[m])
        BY <2>1, <3>1
      <4>4. QED
        BY <4>2, <4>3, Zenon
    <3>2. CASE m = n + 1
      <4>1. m # 0 /\ m - 1 = n /\ n \in 0 .. n
        BY <3>2
      <4>2. g[m] = Plus(f[n], s[m]) /\ g[m - 1] = f[n]
        BY <2>3, <3>2, <4>1 DEF last
      <4>3. QED
        BY <4>1, <4>2, Zenon
    <3>3. QED
      BY <3>1, <3>2
  <2>5. Solves(n + 1, g)
    BY <2>4
  <2>6. QED
    BY <2>2, <2>3, <2>5
<1>3. N \in T
  <2> HIDE DEF T
  <2>1. \A n \in 0 .. N : n \in T
    BY <1>1, <1>2, UpToInduction
  <2>2. QED
    BY <2>1
<1>4. PICK f : f = [m \in 0 .. N |-> f[m]] /\ Solves(N, f)
  BY <1>3
<1>5. f = TotalStep(s, f)
  BY <1>4, Zenon DEF TotalStep
<1>6. QED
  BY <1>5

\* A total of numbers is in the field.
LEMMA TotalType ==
  ASSUME NEW s, NEW N \in Nat, DOMAIN s = 1 .. N, \A n \in 1 .. N : s[n][1] \in Int
  PROVE  Total(s)[1] \in Field
<1> DEFINE f == Totals(s)
<1>1. Len(s) = N
  BY LengthOf
<1>2. f = TotalStep(s, f)
  BY <1>1, TotalsExist, Zenon DEF Totals
<1> HIDE DEF f
<1>3. f[0] = Lift(0) /\ \A n \in 1 .. N : f[n] = Plus(f[n - 1], s[n])
  <2>1. \A n \in 0 .. N : f[n] = IF n = 0 THEN Lift(0) ELSE Plus(f[n - 1], s[n])
    BY <1>1, <1>2, Zenon DEF TotalStep
  <2>2. 0 \in 0 .. N /\ \A n \in 1 .. N : n \in 0 .. N /\ n # 0
    OBVIOUS
  <2>3. QED
    BY <2>1, <2>2, Zenon
<1> DEFINE T == {n \in 0 .. N : f[n][1] \in Field}
<1>4. 0 \in T
  <2>1. Lift(0)[1] = 0 /\ 0 \in 0 .. N
    BY DEF Lift
  <2>2. f[0][1] = 0
    BY <1>3, <2>1, Zenon
  <2>3. f[0][1] \in Field
    BY <2>2, FieldType, Zenon
  <2>4. QED
    BY <2>1, <2>3, Zenon
<1>5. ASSUME NEW n \in 0 .. N - 1, n \in T PROVE n + 1 \in T
  <2>1. n + 1 \in 1 .. N /\ (n + 1) - 1 = n
    OBVIOUS
  <2>2. f[n + 1] = Plus(f[n], s[n + 1]) /\ s[n + 1][1] \in Int
    BY <1>3, <2>1
  <2>3. f[n][1] \in Int
    BY <1>5, FieldType
  <2>4. f[n + 1][1] = (f[n][1] + s[n + 1][1]) % P
    BY <2>2 DEF Plus
  <2>5. f[n][1] + s[n + 1][1] \in Int /\ n + 1 \in 0 .. N
    BY <2>1, <2>2, <2>3
  <2>6. f[n + 1][1] \in Field
    BY <2>4, <2>5, FieldType
  <2>7. QED
    BY <2>5, <2>6, Zenon
<1>6. N \in T
  <2> HIDE DEF T
  <2>1. \A n \in 0 .. N : n \in T
    BY <1>4, <1>5, UpToInduction
  <2>2. QED
    BY <2>1
<1>7. QED
  BY <1>1, <1>6, TotalUnfolds DEF f

\* So is a sum of integers.
LEMMA SumType ==
  ASSUME NEW s, NEW N \in Nat, DOMAIN s = 1 .. N, \A n \in 1 .. N : s[n] \in Int
  PROVE  Sum(s) \in Field
<1>1. DOMAIN Lifted(s) = 1 .. N /\ \A n \in 1 .. N : Lifted(s)[n][1] = s[n]
  BY DEF Lifted, Lift
<1>2. QED
  BY <1>1, TotalType DEF Sum

\* Rows and columns of a matrix are within its bounds, and so are the elements there.
LEMMA ElementBounds ==
  ASSUME NEW p \in Dimension, NEW q \in Dimension
  PROVE  /\ \A k \in 1 .. p * q : RowOf(k, q) \in 0 .. p - 1 /\ ColumnOf(k, q) \in 0 .. q - 1
         /\ \A row \in 0 .. p - 1 : \A column \in 0 .. q - 1 :
              ElementAt(row, column, q) \in 1 .. p * q
         /\ p * q \in Dimension /\ p * q = q * p
<1>1. /\ \A n \in 0 .. p * q - 1 : n \div q \in 0 .. p - 1 /\ n % q \in 0 .. q - 1
      /\ \A a \in 0 .. p - 1 : \A b \in 0 .. q - 1 : a * q + b \in 0 .. p * q - 1
      /\ p * q \in Nat \ {0} /\ p * q = q * p
  BY Coordinates DEF Dimension
<1>2. \A k \in 1 .. p * q : k - 1 \in 0 .. p * q - 1
  BY <1>1
<1>3. ASSUME NEW a \in 0 .. p - 1, NEW b \in 0 .. q - 1
      PROVE  a * q + b + 1 \in 1 .. p * q
  <2>1. a * q + b \in 0 .. p * q - 1
    BY <1>1
  <2>2. QED
    BY <1>1, <2>1
<1>4. QED
  BY <1>1, <1>2, <1>3 DEF RowOf, ColumnOf, ElementAt, Dimension

\* A list of n numbers, some of them lifted.
Duals(r, n) == DOMAIN r = 1 .. n /\ \A k \in 1 .. n : r[k][1] \in Field

\* Transposing only puts elements elsewhere.
LEMMA TransposedType ==
  ASSUME NEW p \in Dimension, NEW q \in Dimension, NEW n, n = p * q,
         NEW s, DOMAIN s = 1 .. n, NEW V, \A j \in 1 .. n : s[j] \in V
  PROVE  Transposed(<<p, q>>, s) \in [1 .. n -> V]
<1>1. ASSUME NEW k \in 1 .. n
      PROVE  ElementAt(ColumnOf(k, p), RowOf(k, p), q) \in 1 .. n
  <2>1. p * q = q * p
    BY ElementBounds
  <2>2. RowOf(k, p) \in 0 .. q - 1 /\ ColumnOf(k, p) \in 0 .. p - 1
    BY <2>1, ElementBounds
  <2>3. QED
    BY <2>2, ElementBounds
<1>2. <<p, q>>[1] = p /\ <<p, q>>[2] = q
  OBVIOUS
<1>3. QED
  BY <1>1, <1>2 DEF Transposed

\* The last dimension may be replaced.
LEMMA LastDimension ==
  ASSUME NEW d \in Seq(Dimension), Len(d) > 0, NEW h \in Dimension
  PROVE  \E m \in Dimension :
           /\ Product(d) = m * d[Len(d)]
           /\ Product([d EXCEPT ![Len(d)] = h]) = m * h
<1> DEFINE N == Len(d)
           e == [d EXCEPT ![N] = h]
           T == {n \in 0 .. N - 1 : UpTo(e)[n] = UpTo(d)[n]}
<1>1. /\ N \in Nat \ {0} /\ d \in Seq(Int) /\ e \in Seq(Int) /\ Len(e) = N /\ e[N] = h
      /\ \A n \in 1 .. N : d[n] > 0
      /\ \A n \in 1 .. N - 1 : e[n] = d[n]
  BY DEF Dimension
<1> HIDE DEF e, N
<1>2. /\ UpTo(d)[0] = 1 /\ UpTo(e)[0] = 1
      /\ \A n \in 1 .. N : UpTo(d)[n] = UpTo(d)[n - 1] * d[n]
                           /\ UpTo(e)[n] = UpTo(e)[n - 1] * e[n]
  BY <1>1, UpToIs DEF N
<1>3. 0 \in T
  BY <1>1, <1>2
<1>4. ASSUME NEW n \in 0 .. (N - 1) - 1, n \in T PROVE n + 1 \in T
  <2>1. n + 1 \in 1 .. N - 1 /\ n + 1 \in 1 .. N /\ (n + 1) - 1 = n /\ n + 1 \in 0 .. N - 1
    BY <1>1
  <2>2. QED
    BY <1>1, <1>2, <1>4, <2>1
<1>5. UpTo(e)[N - 1] = UpTo(d)[N - 1]
  <2> HIDE DEF T
  <2>1. N - 1 \in Nat
    BY <1>1
  <2>2. \A n \in 0 .. N - 1 : n \in T
    BY <1>3, <1>4, <2>1, UpToInduction
  <2>3. N - 1 \in T
    BY <2>1, <2>2
  <2>4. QED
    BY <2>3 DEF T
<1>6. UpTo(d)[N - 1] \in Dimension
  <2>1. N - 1 \in 0 .. N
    BY <1>1
  <2>2. QED
    BY <1>1, <2>1, ProductGrows DEF N, Dimension
<1>7. N \in 1 .. N
  BY <1>1
<1>8. Product(d) = UpTo(d)[N - 1] * d[N] /\ Product(e) = UpTo(e)[N - 1] * e[N]
  BY <1>1, <1>2, <1>7, ProductUnfolds DEF N
<1>9. QED
  BY <1>1, <1>5, <1>6, <1>8 DEF e, N

-----------------------------------------------------------------------------
(***************************************************************************)
(* Kernels: the result has the elements its dimensions ask for.            *)
(***************************************************************************)
\* silu and its product with the other half.
LEMMA SwiGluType ==
  ASSUME NEW m \in Dimension, NEW h \in Dimension, NEW s, Duals(s, m * (2 * h))
  PROVE  Duals(CpuSwiGlu(2 * h, s), m * h)
<1> DEFINE left(k) == ElementAt(RowOf(k, h), ColumnOf(k, h), 2 * h)
<1>1. 2 * h \in Dimension /\ m * h \in Dimension /\ m * (2 * h) = 2 * (m * h)
  <2>1. 2 * h \in Dimension
    BY DEF Dimension
  <2>2. m * h \in Dimension
    BY ElementBounds
  <2>3. m * (2 * h) = 2 * (m * h)
    BY DEF Dimension
  <2>4. QED
    BY <2>1, <2>2, <2>3
<1>2. Len(s) = 2 * (m * h) /\ Len(s) \div 2 = m * h
  <2>1. 2 * (m * h) \in Nat /\ (2 * (m * h)) \div 2 = m * h
    BY <1>1 DEF Dimension
  <2>2. DOMAIN s = 1 .. 2 * (m * h)
    BY <1>1 DEF Duals
  <2>3. QED
    BY <2>1, <2>2, LengthOf
<1>3. (2 * h) \div 2 = h
  BY DEF Dimension
<1>4. ASSUME NEW k \in 1 .. m * h
      PROVE  left(k) \in 1 .. m * (2 * h) /\ left(k) + h \in 1 .. m * (2 * h)
  <2>1. RowOf(k, h) \in 0 .. m - 1 /\ ColumnOf(k, h) \in 0 .. h - 1
    BY ElementBounds
  <2>2. ColumnOf(k, h) \in 0 .. 2 * h - 1 /\ ColumnOf(k, h) + h \in 0 .. 2 * h - 1
    BY <2>1 DEF Dimension
  <2>3. /\ left(k) \in 1 .. m * (2 * h)
        /\ ElementAt(RowOf(k, h), ColumnOf(k, h) + h, 2 * h) \in 1 .. m * (2 * h)
    BY <1>1, <2>1, <2>2, ElementBounds
  <2>4. ElementAt(RowOf(k, h), ColumnOf(k, h) + h, 2 * h) = left(k) + h
    <3>1. PICK r \in Nat, c \in Nat : r = RowOf(k, h) /\ c = ColumnOf(k, h)
      BY <2>1
    <3>2. r * (2 * h) \in Nat
      BY <1>1, <3>1 DEF Dimension
    <3>3. r * (2 * h) + (c + h) + 1 = (r * (2 * h) + c + 1) + h
      BY <3>1, <3>2 DEF Dimension
    <3>4. QED
      BY <3>1, <3>3 DEF ElementAt
  <2>5. QED
    BY <2>3, <2>4
<1>5. CpuSwiGlu(2 * h, s)
        = [k \in 1 .. m * h |-> Times(SiluForward(s[left(k)]), s[left(k) + h])]
  BY <1>2, <1>3 DEF CpuSwiGlu
<1>6. ASSUME NEW k \in 1 .. m * h
      PROVE  Times(SiluForward(s[left(k)]), s[left(k) + h])[1] \in Field
  <2>1. s[left(k)][1] \in Field /\ s[left(k) + h][1] \in Field
    BY <1>4, Zenon DEF Duals
  <2> HIDE DEF left
  <2>2. SiluForward(s[left(k)])[1] \in Field
    BY <2>1, ActivationType
  <2>3. QED
    BY <2>1, <2>2, DualType
<1> HIDE DEF left
<1>7. QED
  BY <1>5, <1>6 DEF Duals

\* The sums of a product of matrices.
LEMMA MatmulType ==
  ASSUME NEW p \in Dimension, NEW q \in Dimension, NEW v \in Dimension, NEW s, NEW r,
         Duals(s, p * q), Duals(r, q * v)
  PROVE  Duals(Matmul(<<p, q>>, <<q, v>>, s, r), p * v)
<1> DEFINE term(k, i) == Times(s[ElementAt(RowOf(k, v), i - 1, q)],
                               r[ElementAt(i - 1, ColumnOf(k, v), v)])
           total(k) == Total([i \in 1 .. q |-> term(k, i)])
<1>1. ASSUME NEW k \in 1 .. p * v, NEW i \in 1 .. q
      PROVE  term(k, i)[1] \in Int
  <2>1. /\ RowOf(k, v) \in 0 .. p - 1 /\ ColumnOf(k, v) \in 0 .. v - 1
        /\ i - 1 \in 0 .. q - 1
    <3>1. i - 1 \in 0 .. q - 1
      BY DEF Dimension
    <3>2. QED
      BY <3>1, ElementBounds
  <2>2. /\ ElementAt(RowOf(k, v), i - 1, q) \in 1 .. p * q
        /\ ElementAt(i - 1, ColumnOf(k, v), v) \in 1 .. q * v
    BY <2>1, ElementBounds
  <2>3. /\ s[ElementAt(RowOf(k, v), i - 1, q)][1] \in Field
        /\ r[ElementAt(i - 1, ColumnOf(k, v), v)][1] \in Field
    BY <2>2 DEF Duals
  <2>4. QED
    BY <2>3, DualType, FieldType
<1>2. ASSUME NEW k \in 1 .. p * v PROVE total(k)[1] \in Field
  <2> DEFINE t == [i \in 1 .. q |-> term(k, i)]
  <2>1. DOMAIN t = 1 .. q /\ \A i \in 1 .. q : t[i] = term(k, i)
    OBVIOUS
  <2>2. q \in Nat /\ \A i \in 1 .. q : t[i][1] \in Int
    BY <1>1, <2>1 DEF Dimension
  <2> HIDE DEF t
  <2>3. Total(t)[1] \in Field
    BY <2>1, <2>2, TotalType
  <2>4. QED
    BY <2>3 DEF t
<1>3. Matmul(<<p, q>>, <<q, v>>, s, r) = [k \in 1 .. p * v |-> total(k)]
  BY DEF Matmul
<1> HIDE DEF total
<1>4. QED
  BY <1>2, <1>3 DEF Duals

\* A bias added to each row.
LEMMA AddBiasType ==
  ASSUME NEW p \in Dimension, NEW q \in Dimension, NEW s, NEW r, Duals(s, p * q), Duals(r, q)
  PROVE  Duals(AddBias(q, s, r), p * q)
<1>1. ASSUME NEW k \in 1 .. p * q
      PROVE  Plus(s[k], r[ColumnOf(k, q) + 1])[1] \in Field
  <2>1. ColumnOf(k, q) + 1 \in 1 .. q
    <3>1. ColumnOf(k, q) \in 0 .. q - 1
      BY ElementBounds
    <3>2. QED
      BY <3>1 DEF Dimension
  <2>2. s[k][1] \in Field /\ r[ColumnOf(k, q) + 1][1] \in Field
    BY <2>1 DEF Duals
  <2>3. QED
    BY <2>2, DualType
<1>2. QED
  BY <1>1 DEF AddBias, Duals

\* The mean of the squares of differences.
LEMMA MseLossType ==
  ASSUME NEW n \in Dimension, NEW s, NEW t, Duals(s, n), Duals(t, n), Averaged(n)
  PROVE  Duals(MseLoss(s, t), 1)
<1> DEFINE difference(k) == Minus(s[k], t[k])
           square(k) == Times(difference(k), difference(k))
           squares == [k \in 1 .. n |-> square(k)]
<1>1. n \in Nat /\ DOMAIN s = 1 .. n /\ Len(s) = n
  BY LengthOf DEF Duals, Dimension
<1>2. ASSUME NEW k \in 1 .. n PROVE square(k)[1] \in Int
  <2>1. s[k][1] \in Field /\ t[k][1] \in Field
    BY DEF Duals
  <2>2. difference(k)[1] \in Field
    BY <2>1, DualType
  <2>3. QED
    BY <2>2, DualType, FieldType
<1>3. Total(squares)[1] \in Field
  <2>1. DOMAIN squares = 1 .. n /\ \A k \in 1 .. n : squares[k] = square(k)
    OBVIOUS
  <2>2. \A k \in 1 .. n : squares[k][1] \in Int
    BY <1>2, <2>1
  <2> HIDE DEF squares
  <2>3. QED
    BY <1>1, <2>1, <2>2, TotalType
<1>4. MseLoss(s, t) = <<Over(Total(squares), Divisor(n))>>
  BY <1>1 DEF MseLoss
<1>5. Over(Total(squares), Divisor(n))[1] \in Field
  BY <1>1, <1>3, CountType, DualType
<1> HIDE DEF squares
<1>6. QED
  BY <1>4, <1>5 DEF Duals

\* The largest logit of a row is one of them.
LEMMA MaxLogitType ==
  ASSUME NEW q \in Dimension, NEW s, NEW places, DOMAIN places = 1 .. q,
         \A c \in 1 .. q : s[places[c]][1] \in Field
  PROVE  MaxLogit(s, places)[1] \in Field
<1> DEFINE largest(k) == \A j \in ToSet(places) : Signed(s[j][1]) <= Signed(s[k][1])
           below(k) == P - Signed(s[k][1])
           T == {below(k) : k \in ToSet(places)}
<1>1. ToSet(places) = {places[c] : c \in 1 .. q} /\ 1 \in 1 .. q
  BY DEF ToSet, Dimension
<1>2. \A k \in ToSet(places) : s[k][1] \in Field
  BY <1>1
<1>3. ASSUME NEW x \in Field PROVE Signed(x) \in Int /\ P - Signed(x) \in Nat
  <2>1. P \in Nat /\ x \in Nat /\ x < P
    BY FieldType DEF Field
  <2>2. Signed(x) = x \/ Signed(x) = x - P
    BY DEF Signed
  <2>3. QED
    BY <2>1, <2>2
<1>4. T \subseteq Nat /\ T # {}
  <2>1. \A k \in ToSet(places) : below(k) \in Nat
    BY <1>2, <1>3
  <2>2. places[1] \in ToSet(places)
    BY <1>1
  <2> HIDE DEF below
  <2>3. QED
    BY <2>1, <2>2
<1> HIDE DEF T
<1>5. PICK n \in T : \A m \in T : n <= m
  BY <1>4, LeastElement
<1>6. PICK k \in ToSet(places) : n = below(k)
  BY <1>5 DEF T
<1>7. ASSUME NEW j \in ToSet(places) PROVE Signed(s[j][1]) <= Signed(s[k][1])
  <2>1. below(k) <= below(j)
    BY <1>5, <1>6 DEF T
  <2>2. Signed(s[j][1]) \in Int /\ Signed(s[k][1]) \in Int /\ P \in Nat
    BY <1>2, <1>3, FieldType
  <2>3. QED
    BY <2>1, <2>2
<1>8. (CHOOSE i \in ToSet(places) : largest(i)) \in ToSet(places)
  BY <1>7
<1> HIDE DEF largest
<1>9. MaxLogit(s, places) = s[CHOOSE i \in ToSet(places) : largest(i)]
  BY DEF MaxLogit, largest
<1>10. QED
  BY <1>2, <1>8, <1>9

\* A row of logits, the sum of their exponentials and its logarithm.
LEMMA DenominatorType ==
  ASSUME NEW q \in Dimension, NEW s, NEW places, DOMAIN places = 1 .. q,
         \A c \in 1 .. q : s[places[c]][1] \in Field
  PROVE  Denominator(s, places)[1] \in Field /\ LogDenominator(s, places)[1] \in Field
<1> DEFINE term(c) == exp(Minus(s[places[c]], MaxLogit(s, places)))
           terms == [c \in 1 .. q |-> term(c)]
<1>1. MaxLogit(s, places)[1] \in Field
  BY MaxLogitType
<1>2. ASSUME NEW c \in 1 .. q PROVE term(c)[1] \in Int
  <2>1. Minus(s[places[c]], MaxLogit(s, places))[1] \in Field
    BY <1>1, DualType
  <2>2. QED
    BY <2>1, TableType, FieldType
<1>3. Total(terms)[1] \in Field
  <2>1. DOMAIN terms = 1 .. q /\ \A c \in 1 .. q : terms[c] = term(c)
    OBVIOUS
  <2>2. q \in Nat /\ \A c \in 1 .. q : terms[c][1] \in Int
    BY <1>2, <2>1 DEF Dimension
  <2> HIDE DEF terms
  <2>3. QED
    BY <2>1, <2>2, TotalType
<1>4. Denominator(s, places) = Total(terms)
  BY DEF Denominator
<1> HIDE DEF terms
<1>5. log(Denominator(s, places))[1] \in Field
  BY <1>3, <1>4, TableType
<1>6. QED
  BY <1>1, <1>3, <1>4, <1>5, DualType DEF LogDenominator

\* The places of a row of a matrix.
LEMMA RowType ==
  ASSUME NEW p \in Dimension, NEW q \in Dimension, NEW row \in 0 .. p - 1
  PROVE  DOMAIN Row(row, q) = 1 .. q /\ \A c \in 1 .. q : Row(row, q)[c] \in 1 .. p * q
<1>1. \A c \in 1 .. q : c - 1 \in 0 .. q - 1
  BY DEF Dimension
<1>2. QED
  BY <1>1, ElementBounds DEF Row

\* The mean over the rows of a matrix.
LEMMA CrossEntropyLossType ==
  ASSUME NEW p \in Dimension, NEW q \in Dimension, NEW s, NEW t,
         Duals(s, p * q), Duals(t, p * q), Averaged(p)
  PROVE  Duals(CrossEntropyLoss(<<p, q>>, s, t), 1)
<1> DEFINE term(row, c) ==
             Times(t[ElementAt(row, c - 1, q)],
                   Minus(LogDenominator(s, Row(row, q)), s[ElementAt(row, c - 1, q)]))
           loss(row) == Total([c \in 1 .. q |-> term(row, c)])
           losses == [row \in 1 .. p |-> loss(row - 1)]
<1>1. p \in Nat /\ q \in Nat
  BY DEF Dimension
<1>2. ASSUME NEW row \in 0 .. p - 1 PROVE loss(row)[1] \in Int
  <2> DEFINE terms == [c \in 1 .. q |-> term(row, c)]
  <2>1. LogDenominator(s, Row(row, q))[1] \in Field
    <3>1. DOMAIN Row(row, q) = 1 .. q /\ \A c \in 1 .. q : Row(row, q)[c] \in 1 .. p * q
      BY RowType
    <3>2. \A c \in 1 .. q : s[Row(row, q)[c]][1] \in Field
      BY <3>1 DEF Duals
    <3>3. QED
      BY <3>1, <3>2, DenominatorType
  <2>2. ASSUME NEW c \in 1 .. q PROVE term(row, c)[1] \in Int
    <3>1. c - 1 \in 0 .. q - 1
      BY <1>1
    <3>2. ElementAt(row, c - 1, q) \in 1 .. p * q
      BY <3>1, ElementBounds
    <3>3. /\ s[ElementAt(row, c - 1, q)][1] \in Field
          /\ t[ElementAt(row, c - 1, q)][1] \in Field
      BY <3>2 DEF Duals
    <3>4. Minus(LogDenominator(s, Row(row, q)), s[ElementAt(row, c - 1, q)])[1] \in Field
      BY <2>1, <3>3, DualType
    <3>5. QED
      BY <3>3, <3>4, DualType, FieldType
  <2>3. DOMAIN terms = 1 .. q /\ \A c \in 1 .. q : terms[c][1] \in Int
    BY <2>2
  <2>4. loss(row) = Total(terms)
    OBVIOUS
  <2> HIDE DEF terms, loss
  <2>5. QED
    BY <1>1, <2>3, <2>4, TotalType, FieldType
<1>3. Total(losses)[1] \in Field
  <2> HIDE DEF loss
  <2>1. \A row \in 1 .. p : row - 1 \in 0 .. p - 1
    BY <1>1
  <2>2. DOMAIN losses = 1 .. p /\ \A row \in 1 .. p : losses[row][1] \in Int
    BY <1>2, <2>1
  <2> HIDE DEF losses
  <2>3. QED
    BY <1>1, <2>2, TotalType
<1>4. CrossEntropyLoss(<<p, q>>, s, t) = <<Over(Total(losses), Divisor(p))>>
  BY DEF CrossEntropyLoss
<1>5. Over(Total(losses), Divisor(p))[1] \in Field
  BY <1>1, <1>3, CountType, DualType
<1> HIDE DEF losses
<1>6. QED
  BY <1>4, <1>5 DEF Duals

-----------------------------------------------------------------------------
(***************************************************************************)
(* Gradient rules: an operand gets as many numbers as it has elements.     *)
(***************************************************************************)
List(n) == [1 .. n -> Field]

\* Lists may be lifted.
LEMMA LiftedType ==
  ASSUME NEW n, NEW s \in List(n)
  PROVE  Duals(Lifted(s), n) /\ \A k \in 1 .. n : Lifted(s)[k] = Lift(s[k]) /\ s[k] \in Int
BY FieldType DEF List, Duals, Lifted, Lift

\* A product in the field.
LEMMA ProductInField ==
  ASSUME NEW x \in Int, NEW y \in Int, NEW z \in Int
  PROVE  (x * y) % P \in Field /\ (x * y * z) % P \in Field /\ (-x * y) % P \in Field
<1>1. x * y \in Int /\ x * y * z \in Int /\ -x * y \in Int
  OBVIOUS
<1>2. QED
  BY <1>1, FieldType

\* The derivatives of the activations.
LEMMA DerivativeType ==
  ASSUME NEW x \in Field
  PROVE  /\ Sigma(x) \in Int
         /\ \A op \in {"relu", "sigmoid", "tanh", "gelu", "silu"} :
              LocalDerivative(op, x) \in Int
<1>1. x \in Int /\ InvSqrt2 \in Int /\ InvSqrtPi \in Int /\ Half \in Int
  BY FieldType, ReciprocalType, GradientsAssumption DEF Half
<1>2. Sigma(x) \in Int
  <2>1. (-x) % P \in Field
    BY <1>1, FieldType
  <2>2. Lift((-x) % P)[1] = (-x) % P
    BY DEF Lift
  <2>3. exp(Lift((-x) % P))[1] = Exp[(-x) % P]
    BY <2>2 DEF exp
  <2>4. Plus(Lift(1), exp(Lift((-x) % P)))[1] \in Field \ {0}
    BY <2>1, <2>2, TableType
  <2>5. Plus(Lift(1), exp(Lift((-x) % P)))[1] = (1 + Exp[(-x) % P]) % P
    BY <2>3 DEF Plus, Lift
  <2>6. QED
    BY <2>4, <2>5, ReciprocalType, FieldType DEF Sigma
<1>3. tanh(Lift(x))[1] \in Int
  <2>1. Lift(x)[1] \in Field
    BY LiftType
  <2>2. MakeActivation("tanh", Lift(x))[1] \in Field
    BY <2>1, ActivationType
  <2>3. QED
    BY <2>2, FieldType DEF MakeActivation
<1>4. LocalDerivative("relu", x) \in Int
  BY DEF LocalDerivative
<1>5. LocalDerivative("sigmoid", x) \in Int
  BY <1>2 DEF LocalDerivative
<1>6. LocalDerivative("tanh", x) \in Int
  BY <1>3 DEF LocalDerivative
<1>7. LocalDerivative("silu", x) \in Int
  BY <1>1, <1>2 DEF LocalDerivative
<1>8. LocalDerivative("gelu", x) \in Int
  <2> DEFINE e == Erf[(x * InvSqrt2) % P]
             f == Exp[(-Half * x * x) % P]
  <2>1. e \in Int
    <3>1. (x * InvSqrt2) % P \in Field
      BY <1>1, ProductInField
    <3>2. QED
      BY <3>1, FieldType, GradientsAssumption
  <2>2. f \in Int
    <3>1. (-Half * x * x) % P \in Field
      BY <1>1, FieldType
    <3>2. QED
      BY <3>1, FieldType, GradientsAssumption
  <2>3. LocalDerivative("gelu", x) = Half * (1 + e) + x * f * InvSqrt2 * InvSqrtPi
    BY DEF LocalDerivative
  <2> HIDE DEF e, f
  <2>4. QED
    BY <1>1, <2>1, <2>2, <2>3
<1>9. QED
  BY <1>2, <1>4, <1>5, <1>6, <1>7, <1>8

\* The rule of swiglu.
LEMMA SwiGluGradientType ==
  ASSUME NEW m \in Dimension, NEW h \in Dimension,
         NEW s \in List(m * (2 * h)), NEW g \in List(m * h)
  PROVE  SwiGluGradient(2 * h, s, g) \in List(m * (2 * h))
<1> DEFINE row(k) == RowOf(k, 2 * h)
           column(k) == ColumnOf(k, 2 * h) % h
           a(k) == s[ElementAt(row(k), column(k), 2 * h)]
           b(k) == s[ElementAt(row(k), column(k) + h, 2 * h)]
           upstream(k) == g[ElementAt(row(k), column(k), h)]
           value(k) == IF ColumnOf(k, 2 * h) < h
                       THEN (upstream(k) * b(k) * LocalDerivative("silu", a(k))) % P
                       ELSE (upstream(k) * a(k) * Sigma(a(k))) % P
<1>1. 2 * h \in Dimension /\ h \in Nat \ {0} /\ (2 * h) \div 2 = h
  BY DEF Dimension
<1>2. ASSUME NEW k \in 1 .. m * (2 * h)
      PROVE  a(k) \in Field /\ b(k) \in Field /\ upstream(k) \in Field
  <2>1. row(k) \in 0 .. m - 1 /\ ColumnOf(k, 2 * h) \in 0 .. 2 * h - 1
    BY <1>1, ElementBounds
  <2>2. column(k) \in 0 .. h - 1
    BY <1>1, <2>1
  <2>3. column(k) \in 0 .. 2 * h - 1 /\ column(k) + h \in 0 .. 2 * h - 1
    BY <1>1, <2>2
  <2> HIDE DEF row, column
  <2>4. /\ ElementAt(row(k), column(k), 2 * h) \in 1 .. m * (2 * h)
        /\ ElementAt(row(k), column(k) + h, 2 * h) \in 1 .. m * (2 * h)
        /\ ElementAt(row(k), column(k), h) \in 1 .. m * h
    BY <1>1, <2>1, <2>2, <2>3, ElementBounds
  <2>5. QED
    BY <2>4 DEF List
<1>3. SwiGluGradient(2 * h, s, g) = [k \in 1 .. m * (2 * h) |-> value(k)]
  BY <1>1 DEF SwiGluGradient, List
<1> HIDE DEF a, b, upstream
<1>4. ASSUME NEW k \in 1 .. m * (2 * h) PROVE value(k) \in Field
  <2>1. /\ a(k) \in Int /\ b(k) \in Int /\ upstream(k) \in Int
        /\ LocalDerivative("silu", a(k)) \in Int /\ Sigma(a(k)) \in Int
    BY <1>2, FieldType, DerivativeType
  <2>2. QED
    BY <2>1, ProductInField
<1> HIDE DEF value
<1>5. QED
  BY <1>3, <1>4 DEF List

\* The rules of a product of matrices.
LEMMA MatmulGradientType ==
  ASSUME NEW p \in Dimension, NEW q \in Dimension, NEW v \in Dimension,
         NEW s \in List(p * q), NEW r \in List(q * v), NEW g \in List(p * v)
  PROVE  /\ MatmulGradient(<<p, q>>, <<q, v>>, s, r, g)[1] \in List(p * q)
         /\ MatmulGradient(<<p, q>>, <<q, v>>, s, r, g)[2] \in List(q * v)
<1> DEFINE left(k, c) == g[ElementAt(RowOf(k, q), c - 1, v)] * r[ElementAt(ColumnOf(k, q), c - 1, v)]
           right(k, c) == s[ElementAt(c - 1, RowOf(k, v), q)] * g[ElementAt(c - 1, ColumnOf(k, v), v)]
           lefts(k) == [c \in 1 .. v |-> left(k, c)]
           rights(k) == [c \in 1 .. p |-> right(k, c)]
<1>1. p \in Nat /\ v \in Nat /\ \A n \in {p, q, v} : \A c \in 1 .. n : c - 1 \in 0 .. n - 1
  BY DEF Dimension
<1>2. ASSUME NEW k \in 1 .. p * q PROVE Sum(lefts(k)) \in Field
  <2>1. ASSUME NEW c \in 1 .. v PROVE left(k, c) \in Int
    <3>1. RowOf(k, q) \in 0 .. p - 1 /\ ColumnOf(k, q) \in 0 .. q - 1 /\ c - 1 \in 0 .. v - 1
      BY <1>1, ElementBounds
    <3>2. /\ ElementAt(RowOf(k, q), c - 1, v) \in 1 .. p * v
          /\ ElementAt(ColumnOf(k, q), c - 1, v) \in 1 .. q * v
      BY <3>1, ElementBounds
    <3>3. /\ g[ElementAt(RowOf(k, q), c - 1, v)] \in Int
          /\ r[ElementAt(ColumnOf(k, q), c - 1, v)] \in Int
      BY <3>2, FieldType DEF List
    <3>4. QED
      BY <3>3
  <2>2. DOMAIN lefts(k) = 1 .. v /\ \A c \in 1 .. v : lefts(k)[c] \in Int
    BY <2>1
  <2> HIDE DEF lefts
  <2>3. QED
    BY <1>1, <2>2, SumType
<1>3. ASSUME NEW k \in 1 .. q * v PROVE Sum(rights(k)) \in Field
  <2>1. ASSUME NEW c \in 1 .. p PROVE right(k, c) \in Int
    <3>1. RowOf(k, v) \in 0 .. q - 1 /\ ColumnOf(k, v) \in 0 .. v - 1 /\ c - 1 \in 0 .. p - 1
      BY <1>1, ElementBounds
    <3>2. /\ ElementAt(c - 1, RowOf(k, v), q) \in 1 .. p * q
          /\ ElementAt(c - 1, ColumnOf(k, v), v) \in 1 .. p * v
      BY <3>1, ElementBounds
    <3>3. /\ s[ElementAt(c - 1, RowOf(k, v), q)] \in Int
          /\ g[ElementAt(c - 1, ColumnOf(k, v), v)] \in Int
      BY <3>2, FieldType DEF List
    <3>4. QED
      BY <3>3
  <2>2. DOMAIN rights(k) = 1 .. p /\ \A c \in 1 .. p : rights(k)[c] \in Int
    BY <2>1
  <2> HIDE DEF rights
  <2>3. QED
    BY <1>1, <2>2, SumType
<1>4. MatmulGradient(<<p, q>>, <<q, v>>, s, r, g)
        = << [k \in 1 .. p * q |-> Sum(lefts(k))], [k \in 1 .. q * v |-> Sum(rights(k))] >>
  BY DEF MatmulGradient, List
<1> HIDE DEF lefts, rights
<1>5. [k \in 1 .. p * q |-> Sum(lefts(k))] \in List(p * q)
  BY <1>2 DEF List
<1>6. [k \in 1 .. q * v |-> Sum(rights(k))] \in List(q * v)
  BY <1>3 DEF List
<1>7. QED
  BY <1>4, <1>5, <1>6

\* The rule of a bias: one number per column.
LEMMA BiasGradientType ==
  ASSUME NEW p \in Dimension, NEW q \in Dimension, NEW g \in List(p * q)
  PROVE  BiasGradient(q, g) \in List(q)
<1> DEFINE column(c) == [row \in 1 .. p |-> g[ElementAt(row - 1, c - 1, q)]]
<1>1. p \in Nat /\ q \in Nat \ {0} /\ p * q \in Nat
      /\ \A n \in {p, q} : \A c \in 1 .. n : c - 1 \in 0 .. n - 1
  BY DEF Dimension
<1>2. ASSUME NEW c \in 1 .. q PROVE Sum(column(c)) \in Field
  <2>1. ASSUME NEW row \in 1 .. p PROVE g[ElementAt(row - 1, c - 1, q)] \in Int
    <3>1. ElementAt(row - 1, c - 1, q) \in 1 .. p * q
      BY <1>1, ElementBounds
    <3>2. QED
      BY <3>1, FieldType DEF List
  <2>2. DOMAIN column(c) = 1 .. p /\ \A row \in 1 .. p : column(c)[row] \in Int
    BY <2>1
  <2> HIDE DEF column
  <2>3. QED
    BY <1>1, <2>2, SumType
<1>3. Len(g) \div q = p
  <2>1. Len(g) = p * q
    BY <1>1, LengthOf DEF List
  <2>2. (p * q + 0) \div q = p
    BY <1>1, Digits
  <2>3. QED
    BY <1>1, <2>1, <2>2
<1>4. BiasGradient(q, g) = [c \in 1 .. q |-> Sum(column(c))]
  BY <1>3 DEF BiasGradient
<1> HIDE DEF column
<1>5. QED
  BY <1>2, <1>4 DEF List

\* The rule of the mean of squares.
LEMMA MseGradientType ==
  ASSUME NEW n \in Dimension, NEW s \in List(n), NEW t \in List(n), NEW g \in Field, Averaged(n)
  PROVE  MseGradient(s, t, g)[1] \in List(n) /\ MseGradient(s, t, g)[2] \in List(n)
<1> DEFINE scale == 2 * g * Reciprocal[n % P]
<1>1. n \in Nat /\ DOMAIN s = 1 .. n /\ Len(s) = n
  BY LengthOf DEF List, Dimension
<1>2. scale \in Int
  <2>1. Reciprocal[n % P] \in Field
    BY <1>1, CountType, ReciprocalType
  <2>2. Reciprocal[n % P] \in Int /\ g \in Int
    BY <2>1, FieldType
  <2>3. QED
    BY <2>2
<1>3. MseGradient(s, t, g) = << [k \in 1 .. n |-> (scale * (s[k] - t[k])) % P],
                                [k \in 1 .. n |-> (-scale * (s[k] - t[k])) % P] >>
  BY <1>1 DEF MseGradient
<1> HIDE DEF scale
<1>4. ASSUME NEW k \in 1 .. n
      PROVE  (scale * (s[k] - t[k])) % P \in Field /\ (-scale * (s[k] - t[k])) % P \in Field
  <2>1. s[k] - t[k] \in Int
    BY LiftedType
  <2>2. QED
    BY <1>2, <2>1, ProductInField
<1>5. QED
  BY <1>3, <1>4 DEF List

\* The rules of cross entropy.
LEMMA CrossEntropyGradientType ==
  ASSUME NEW p \in Dimension, NEW q \in Dimension, NEW s \in List(p * q),
         NEW t \in List(p * q), NEW g \in Field, Averaged(p), Summable(<<p, q>>, s)
  PROVE  /\ CrossEntropyGradient(<<p, q>>, s, t, g)[1] \in List(p * q)
         /\ CrossEntropyGradient(<<p, q>>, s, t, g)[2] \in List(p * q)
<1> DEFINE scale == g * Reciprocal[p % P]
           places(k) == Row(RowOf(k, q), q)
           part(k) == exp(Minus(Lift(s[k]), MaxLogit(Lifted(s), places(k))))
           probability(k) == Over(part(k), Denominator(Lifted(s), places(k)))[1]
           logarithm(k) == LogDenominator(Lifted(s), places(k))[1]
<1>1. scale \in Int
  <2>1. p \in Nat
    BY DEF Dimension
  <2>2. Reciprocal[p % P] \in Field
    BY <2>1, CountType, ReciprocalType
  <2>3. Reciprocal[p % P] \in Int /\ g \in Int
    BY <2>2, FieldType
  <2>4. QED
    BY <2>3
<1>2. ASSUME NEW k \in 1 .. p * q PROVE probability(k) \in Int /\ logarithm(k) \in Int
  <2>1. RowOf(k, q) \in 0 .. p - 1
    BY ElementBounds
  <2>2. DOMAIN places(k) = 1 .. q /\ \A c \in 1 .. q : places(k)[c] \in 1 .. p * q
    BY <2>1, RowType
  <2>3. Denominator(Lifted(s), places(k))[1] # 0
    BY <2>1 DEF Summable
  <2> HIDE DEF places
  <2>4. \A c \in 1 .. q : Lifted(s)[places(k)[c]][1] \in Field
    BY <2>2, LiftedType DEF Duals
  <2>5. /\ MaxLogit(Lifted(s), places(k))[1] \in Field
        /\ Denominator(Lifted(s), places(k))[1] \in Field /\ logarithm(k) \in Field
    BY <2>2, <2>4, MaxLogitType, DenominatorType
  <2>6. part(k)[1] \in Field
    <3>1. Lift(s[k])[1] \in Field
      BY LiftType DEF List
    <3>2. QED
      BY <2>5, <3>1, DualType, TableType
  <2>7. probability(k) \in Field
    BY <2>3, <2>5, <2>6, DualType
  <2>8. QED
    BY <2>5, <2>7, FieldType
<1>3. CrossEntropyGradient(<<p, q>>, s, t, g)
        = << [k \in 1 .. p * q |-> (scale * (probability(k) - t[k])) % P],
             [k \in 1 .. p * q |-> (-scale * (s[k] - logarithm(k))) % P] >>
  BY DEF CrossEntropyGradient, List
<1> HIDE DEF scale, probability, logarithm
<1>4. ASSUME NEW k \in 1 .. p * q
      PROVE  /\ (scale * (probability(k) - t[k])) % P \in Field
             /\ (-scale * (s[k] - logarithm(k))) % P \in Field
  <2>1. probability(k) - t[k] \in Int /\ s[k] - logarithm(k) \in Int
    BY <1>2, LiftedType
  <2>2. QED
    BY <1>1, <2>1, ProductInField
<1>5. QED
  BY <1>3, <1>4 DEF List

-----------------------------------------------------------------------------
(***************************************************************************)
(* Operations and the dimensions d of their operands and e of their        *)
(* results.                                                                *)
(***************************************************************************)
Copying == {"identity", "reshape"}
Activations == {"relu", "sigmoid", "tanh", "gelu", "silu"}

Halved(d) == [d EXCEPT ![Len(d)] = @ \div 2]
Unary(d) == DOMAIN d = 1 .. 1
Binary(d) == DOMAIN d = 1 .. 2

Agrees(op, d, e) ==
  \/ op \in Copying \cup Activations /\ Unary(d) /\ Product(d[1]) = Product(e)
  \/ op = "transpose" /\ Unary(d) /\ Len(d[1]) = 2 /\ e = Swapped(d[1])
  \/ op = "swiglu" /\ Unary(d) /\ d[1] # <<>> /\ d[1][Len(d[1])] % 2 = 0 /\ e = Halved(d[1])
  \/ op = "sum" /\ Unary(d) /\ e = <<>>
  \/ op \in {"add", "multiply"} /\ Binary(d) /\ d[1] = e /\ d[2] = e
  \/ op = "matmul" /\ Binary(d) /\ Multipliable(d[1], d[2]) /\ e = <<d[1][1], d[2][2]>>
  \/ op = "bias_add" /\ Binary(d) /\ Len(d[1]) = 2 /\ d[2] = <<d[1][2]>> /\ e = d[1]
  \/ op = "mse" /\ Binary(d) /\ d[1] = d[2] /\ e = <<>> /\ Averaged(Product(d[1]))
  \/ op = "cross_entropy" /\ Binary(d) /\ d[1] = d[2] /\ Len(d[1]) = 2 /\ e = <<>>
     /\ Averaged(d[1][1])

\* Either one operand or two.
LEMMA OneOrTwo ==
  ASSUME NEW d
  PROVE  ~(Unary(d) /\ Binary(d))
<1>1. 2 \in 1 .. 2 /\ 2 \notin 1 .. 1
  OBVIOUS
<1>2. QED
  BY <1>1, Zenon DEF Unary, Binary

\* A shape of two dimensions.
LEMMA MatrixIs ==
  ASSUME NEW x \in Seq(Dimension), Len(x) = 2
  PROVE  \E p, q \in Dimension :
           x = <<p, q>> /\ x[1] = p /\ x[2] = q /\ Product(x) = p * q
<1>1. x = <<x[1], x[2]>> /\ x[1] \in Dimension /\ x[2] \in Dimension
  OBVIOUS
<1>2. Product(<<x[1], x[2]>>) = x[1] * x[2]
  <2>1. x[1] \in Int /\ x[2] \in Int
    BY <1>1 DEF Dimension
  <2>2. QED
    BY <2>1, ProductOfTwo
<1>3. QED
  BY <1>1, <1>2

\* There are elements in a tensor, and one in a scalar.
LEMMA CountOfShape ==
  ASSUME NEW d \in Seq(Dimension)
  PROVE  Product(d) \in Dimension /\ Product(<<>>) = 1
<1>1. d \in Seq(Int) /\ \A i \in 1 .. Len(d) : d[i] > 0
  BY DEF Dimension
<1>2. Product(d) \in Nat \ {0}
  BY <1>1, ProductGrows
<1>3. Product(<<>>) = 1
  <2>1. <<>> \in Seq(Int) /\ Len(<<>>) = 0
    OBVIOUS
  <2>2. QED
    BY <2>1, ProductType
<1>4. QED
  BY <1>2, <1>3 DEF Dimension

\* A shape whose last dimension can be halved.
LEMMA HalvedIs ==
  ASSUME NEW d \in Seq(Dimension), d # <<>>, d[Len(d)] % 2 = 0
  PROVE  \E m, h \in Dimension :
           /\ d[Len(d)] = 2 * h /\ Product(d) = m * (2 * h)
           /\ Halved(d) \in Seq(Dimension) /\ Product(Halved(d)) = m * h
<1> DEFINE N == Len(d)
           h == d[N] \div 2
<1>1. N \in Nat /\ N > 0 /\ d[N] \in Nat \ {0}
  BY DEF Dimension
<1>2. d[N] = 2 * h /\ h \in Dimension
  BY <1>1 DEF Dimension
<1>3. Halved(d) = [d EXCEPT ![N] = h]
  BY DEF Halved
<1> HIDE DEF h
<1>4. PICK m \in Dimension : Product(d) = m * d[N] /\ Product([d EXCEPT ![N] = h]) = m * h
  BY <1>1, <1>2, LastDimension
<1>5. Halved(d) \in Seq(Dimension)
  BY <1>1, <1>2, <1>3
<1>6. QED
  BY <1>2, <1>3, <1>4, <1>5

\* The elements of a result.
LEMMA KernelType ==
  ASSUME NEW op, NEW d, NEW e \in Seq(Dimension), NEW s, Agrees(op, d, e),
         \A i \in DOMAIN d : d[i] \in Seq(Dimension) /\ Duals(s[i], Product(d[i]))
  PROVE  Duals(Kernel(op, d, s), Product(e))
<1>1. CASE Unary(d)
  <2>1. /\ d[1] \in Seq(Dimension) /\ Duals(s[1], Product(d[1]))
        /\ Product(d[1]) \in Dimension /\ Product(<<>>) = 1
    BY <1>1, CountOfShape DEF Unary
  <2>2. CASE op \in Copying /\ Product(d[1]) = Product(e)
    <3>1. Kernel(op, d, s) = s[1]
      BY <2>2 DEF Kernel, Copying
    <3>2. QED
      BY <2>1, <2>2, <3>1
  <2>3. CASE op \in Activations /\ Product(d[1]) = Product(e)
    <3>1. \A k \in 1 .. Product(e) : s[1][k][1] \in Field
      BY <2>1, <2>3 DEF Duals
    <3>2. CASE op \in {"relu", "sigmoid", "tanh"}
      <4>1. Kernel(op, d, s) = [k \in 1 .. Product(e) |-> MakeActivation(op, s[1][k])]
        BY <2>1, <2>3, <3>2 DEF Kernel, Duals
      <4>2. \A k \in 1 .. Product(e) : MakeActivation(op, s[1][k])[1] \in Field
        BY <3>1, <3>2, ActivationType
      <4>3. QED
        BY <4>1, <4>2 DEF Duals
    <3>3. CASE op \in {"gelu", "silu"}
      <4>1. Kernel(op, d, s) = [k \in 1 .. Product(e) |-> CpuUnary(op, s[1][k])]
        BY <2>1, <2>3, <3>3 DEF Kernel, Duals
      <4>2. \A k \in 1 .. Product(e) : CpuUnary(op, s[1][k])[1] \in Field
        BY <3>1, <3>3, ActivationType
      <4>3. QED
        BY <4>1, <4>2 DEF Duals
    <3>4. QED
      BY <2>3, <3>2, <3>3 DEF Activations
  <2>4. CASE op = "transpose" /\ Len(d[1]) = 2 /\ e = Swapped(d[1])
    <3>1. PICK p, q \in Dimension :
            d[1] = <<p, q>> /\ d[1][1] = p /\ d[1][2] = q /\ Product(d[1]) = p * q
      BY <2>1, <2>4, MatrixIs
    <3>2. Kernel(op, d, s) = Transposed(<<p, q>>, s[1])
      BY <2>4, <3>1 DEF Kernel
    <3>3. Duals(Transposed(<<p, q>>, s[1]), p * q)
      <4> DEFINE V == {s[1][k] : k \in 1 .. p * q}
                 r == Transposed(<<p, q>>, s[1])
      <4>1. DOMAIN s[1] = 1 .. p * q /\ \A k \in 1 .. p * q : s[1][k] \in V
        BY <2>1, <3>1 DEF Duals
      <4>2. \A a \in V : a[1] \in Field
        BY <2>1, <3>1 DEF Duals
      <4> HIDE DEF V
      <4>3. r \in [1 .. p * q -> V]
        BY <4>1, TransposedType
      <4> HIDE DEF r
      <4>4. QED
        BY <4>2, <4>3 DEF Duals, r
    <3>4. Product(e) = p * q
      <4>1. e = <<q, p>> /\ p \in Int /\ q \in Int
        BY <2>4, <3>1 DEF Swapped, Dimension
      <4>2. Product(<<q, p>>) = q * p
        BY <4>1, ProductOfTwo
      <4>3. QED
        BY <4>1, <4>2, ElementBounds
    <3>5. QED
      BY <3>2, <3>3, <3>4
  <2>5. CASE op = "swiglu" /\ d[1] # <<>> /\ d[1][Len(d[1])] % 2 = 0 /\ e = Halved(d[1])
    <3>1. PICK m, h \in Dimension :
            /\ d[1][Len(d[1])] = 2 * h /\ Product(d[1]) = m * (2 * h)
            /\ Product(Halved(d[1])) = m * h
      BY <2>1, <2>5, HalvedIs
    <3>2. Kernel(op, d, s) = CpuSwiGlu(2 * h, s[1])
      BY <2>5, <3>1 DEF Kernel
    <3>3. Duals(CpuSwiGlu(2 * h, s[1]), m * h)
      BY <2>1, <3>1, SwiGluType
    <3>4. QED
      BY <2>5, <3>1, <3>2, <3>3
  <2>6. CASE op = "sum" /\ e = <<>>
    <3>1. Kernel(op, d, s) = <<Total(s[1])>>
      BY <2>6 DEF Kernel
    <3>2. Total(s[1])[1] \in Field
      <4> DEFINE n == Product(d[1])
      <4>1. n \in Nat
        BY <2>1 DEF Dimension
      <4> HIDE DEF n
      <4>2. DOMAIN s[1] = 1 .. n /\ \A k \in 1 .. n : s[1][k][1] \in Int
        BY <2>1, FieldType DEF Duals, n
      <4>3. QED
        BY <4>1, <4>2, TotalType
    <3>3. Duals(<<Total(s[1])>>, 1)
      BY <3>2 DEF Duals
    <3>4. QED
      BY <2>1, <2>6, <3>1, <3>3
  <2>7. QED
    BY <1>1, <2>2, <2>3, <2>4, <2>5, <2>6, OneOrTwo DEF Agrees
<1>2. CASE Binary(d)
  <2>1. /\ d[1] \in Seq(Dimension) /\ Duals(s[1], Product(d[1]))
        /\ d[2] \in Seq(Dimension) /\ Duals(s[2], Product(d[2]))
        /\ Product(d[1]) \in Dimension /\ Product(<<>>) = 1
    BY <1>2, CountOfShape DEF Binary
  <2>2. CASE op \in {"add", "multiply"} /\ d[1] = e /\ d[2] = e
    <3>1. \A k \in 1 .. Product(e) : s[1][k][1] \in Field /\ s[2][k][1] \in Field
      BY <2>1, <2>2 DEF Duals
    <3>2. CASE op = "add"
      <4>1. Kernel(op, d, s) = [k \in 1 .. Product(e) |-> Plus(s[1][k], s[2][k])]
        BY <2>1, <2>2, <3>2 DEF Kernel, Duals
      <4>2. QED
        BY <3>1, <4>1, DualType DEF Duals
    <3>3. CASE op = "multiply"
      <4>1. Kernel(op, d, s) = [k \in 1 .. Product(e) |-> Times(s[1][k], s[2][k])]
        BY <2>1, <2>2, <3>3 DEF Kernel, Duals
      <4>2. QED
        BY <3>1, <4>1, DualType DEF Duals
    <3>4. QED
      BY <2>2, <3>2, <3>3
  <2>3. CASE op = "matmul" /\ Multipliable(d[1], d[2]) /\ e = <<d[1][1], d[2][2]>>
    <3>1. PICK p, q \in Dimension :
            d[1] = <<p, q>> /\ d[1][1] = p /\ d[1][2] = q /\ Product(d[1]) = p * q
      BY <2>1, <2>3, MatrixIs DEF Multipliable
    <3>2. PICK u, v \in Dimension :
            d[2] = <<u, v>> /\ d[2][1] = u /\ d[2][2] = v /\ Product(d[2]) = u * v
      BY <2>1, <2>3, MatrixIs DEF Multipliable
    <3>3. u = q /\ e = <<p, v>> /\ p \in Int /\ v \in Int
      BY <2>3, <3>1, <3>2 DEF Multipliable, Dimension
    <3>4. Kernel(op, d, s) = Matmul(<<p, q>>, <<q, v>>, s[1], s[2])
      BY <2>3, <3>1, <3>2, <3>3 DEF Kernel
    <3>5. Duals(Matmul(<<p, q>>, <<q, v>>, s[1], s[2]), p * v)
      BY <2>1, <3>1, <3>2, <3>3, MatmulType
    <3>6. Product(e) = p * v
      BY <3>3, ProductOfTwo
    <3>7. QED
      BY <3>4, <3>5, <3>6
  <2>4. CASE op = "bias_add" /\ Len(d[1]) = 2 /\ d[2] = <<d[1][2]>> /\ e = d[1]
    <3>1. PICK p, q \in Dimension :
            d[1] = <<p, q>> /\ d[1][1] = p /\ d[1][2] = q /\ Product(d[1]) = p * q
      BY <2>1, <2>4, MatrixIs
    <3>2. Product(d[2]) = q
      <4>1. d[2] = <<q>> /\ q \in Int
        BY <2>4, <3>1 DEF Dimension
      <4>2. Product(<<q>>) = q
        BY <4>1, ProductOfTwo
      <4>3. QED
        BY <4>1, <4>2
    <3>3. Kernel(op, d, s) = AddBias(q, s[1], s[2])
      BY <2>4, <3>1 DEF Kernel
    <3>4. QED
      BY <2>1, <2>4, <3>1, <3>2, <3>3, AddBiasType
  <2>5. CASE op = "mse" /\ d[1] = d[2] /\ e = <<>> /\ Averaged(Product(d[1]))
    <3>1. Kernel(op, d, s) = MseLoss(s[1], s[2])
      BY <2>5 DEF Kernel
    <3>2. QED
      BY <2>1, <2>5, <3>1, MseLossType
  <2>6. CASE op = "cross_entropy" /\ d[1] = d[2] /\ Len(d[1]) = 2 /\ e = <<>> /\ Averaged(d[1][1])
    <3>1. PICK p, q \in Dimension :
            d[1] = <<p, q>> /\ d[1][1] = p /\ d[1][2] = q /\ Product(d[1]) = p * q
      BY <2>1, <2>6, MatrixIs
    <3>2. Kernel(op, d, s) = CrossEntropyLoss(<<p, q>>, s[1], s[2])
      BY <2>6, <3>1 DEF Kernel
    <3>3. QED
      BY <2>1, <2>6, <3>1, <3>2, CrossEntropyLossType
  <2>7. QED
    BY <1>2, <2>2, <2>3, <2>4, <2>5, <2>6, OneOrTwo DEF Agrees
<1>3. QED
  BY <1>1, <1>2 DEF Agrees

\* The gradients of the operands.
LEMMA RuleType ==
  ASSUME NEW op, NEW d, NEW e \in Seq(Dimension), NEW s, Agrees(op, d, e),
         \A i \in DOMAIN d : d[i] \in Seq(Dimension) /\ s[i] \in List(Product(d[i])),
         op = "cross_entropy" => Summable(d[1], s[1]),
         NEW g \in List(Product(e))
  PROVE  \A i \in DOMAIN d : ApplyNode(op, d, s, g)[i] \in List(Product(d[i]))
<1> DEFINE rule == ApplyNode(op, d, s, g)
<1>1. CASE Unary(d)
  <2>1. /\ d[1] \in Seq(Dimension) /\ s[1] \in List(Product(d[1]))
        /\ Product(d[1]) \in Dimension /\ Product(<<>>) = 1
    BY <1>1, CountOfShape DEF Unary
  <2> SUFFICES rule[1] \in List(Product(d[1]))
    BY <1>1 DEF Unary
  <2>2. CASE op \in Copying /\ Product(d[1]) = Product(e)
    <3>1. rule = <<g>>
      BY <2>2 DEF ApplyNode, Copying
    <3>2. QED
      BY <2>2, <3>1
  <2>3. CASE op \in Activations /\ Product(d[1]) = Product(e)
    <3> DEFINE value(k) == (g[k] * LocalDerivative(op, s[1][k])) % P
    <3>1. rule = <<[k \in 1 .. Product(e) |-> value(k)]>>
      BY <2>3 DEF ApplyNode, Activations, List
    <3>2. ASSUME NEW k \in 1 .. Product(e) PROVE value(k) \in Field
      <4>1. g[k] \in Field /\ s[1][k] \in Field
        BY <2>1, <2>3 DEF List
      <4>2. g[k] \in Int /\ LocalDerivative(op, s[1][k]) \in Int
        BY <2>3, <4>1, FieldType, DerivativeType DEF Activations
      <4>3. QED
        BY <4>2, ProductInField
    <3> HIDE DEF value
    <3>3. [k \in 1 .. Product(e) |-> value(k)] \in List(Product(e))
      BY <3>2 DEF List
    <3>4. QED
      BY <2>3, <3>1, <3>3
  <2>4. CASE op = "transpose" /\ Len(d[1]) = 2 /\ e = Swapped(d[1])
    <3>1. PICK p, q \in Dimension :
            d[1] = <<p, q>> /\ d[1][1] = p /\ d[1][2] = q /\ Product(d[1]) = p * q
      BY <2>1, <2>4, MatrixIs
    <3>2. rule = <<Transposed(<<q, p>>, g)>>
      BY <2>4, <3>1 DEF ApplyNode, TransposeGradient
    <3>3. Product(e) = q * p /\ q * p = p * q
      <4>1. e = <<q, p>> /\ p \in Int /\ q \in Int
        BY <2>4, <3>1 DEF Swapped, Dimension
      <4>2. Product(<<q, p>>) = q * p
        BY <4>1, ProductOfTwo
      <4>3. QED
        BY <4>1, <4>2, ElementBounds
    <3>4. Transposed(<<q, p>>, g) \in List(Product(e))
      BY <3>3, TransposedType DEF List
    <3>5. QED
      BY <3>1, <3>2, <3>3, <3>4
  <2>5. CASE op = "swiglu" /\ d[1] # <<>> /\ d[1][Len(d[1])] % 2 = 0 /\ e = Halved(d[1])
    <3>1. PICK m, h \in Dimension :
            /\ d[1][Len(d[1])] = 2 * h /\ Product(d[1]) = m * (2 * h)
            /\ Product(Halved(d[1])) = m * h
      BY <2>1, <2>5, HalvedIs
    <3>2. rule = <<SwiGluGradient(2 * h, s[1], g)>>
      BY <2>5, <3>1 DEF ApplyNode
    <3>3. SwiGluGradient(2 * h, s[1], g) \in List(m * (2 * h))
      BY <2>1, <2>5, <3>1, SwiGluGradientType
    <3>4. QED
      BY <3>1, <3>2, <3>3
  <2>6. CASE op = "sum" /\ e = <<>>
    <3>1. g[1] \in Field
      BY <2>1, <2>6 DEF List
    <3>2. rule = <<[k \in 1 .. Product(d[1]) |-> g[1]]>>
      BY <2>1, <2>6 DEF ApplyNode, List
    <3>3. [k \in 1 .. Product(d[1]) |-> g[1]] \in List(Product(d[1]))
      BY <3>1 DEF List
    <3>4. QED
      BY <3>2, <3>3
  <2>7. QED
    BY <1>1, <2>2, <2>3, <2>4, <2>5, <2>6, OneOrTwo DEF Agrees
<1>2. CASE Binary(d)
  <2>1. /\ d[1] \in Seq(Dimension) /\ s[1] \in List(Product(d[1]))
        /\ d[2] \in Seq(Dimension) /\ s[2] \in List(Product(d[2]))
        /\ Product(d[1]) \in Dimension /\ Product(<<>>) = 1
    BY <1>2, CountOfShape DEF Binary
  <2> SUFFICES rule[1] \in List(Product(d[1])) /\ rule[2] \in List(Product(d[2]))
    BY <1>2 DEF Binary
  <2>2. CASE op \in {"add", "multiply"} /\ d[1] = e /\ d[2] = e
    <3>1. CASE op = "add"
      <4>1. rule = <<g, g>>
        BY <3>1 DEF ApplyNode
      <4>2. QED
        BY <2>2, <4>1
    <3>2. CASE op = "multiply"
      <4> DEFINE value(k, i) == (g[k] * s[i][k]) % P
                 handed(i) == [k \in 1 .. Product(e) |-> value(k, i)]
      <4>1. rule = <<handed(2), handed(1)>>
        BY <3>2 DEF ApplyNode, List
      <4>2. ASSUME NEW k \in 1 .. Product(e), NEW i \in {1, 2} PROVE value(k, i) \in Field
        <5>1. g[k] \in Int /\ s[i][k] \in Int
          BY <2>1, <2>2, FieldType DEF List
        <5>2. QED
          BY <5>1, ProductInField
      <4> HIDE DEF value
      <4>3. handed(1) \in List(Product(e)) /\ handed(2) \in List(Product(e))
        BY <4>2 DEF List
      <4> HIDE DEF handed
      <4>4. QED
        BY <2>2, <4>1, <4>3
    <3>3. QED
      BY <2>2, <3>1, <3>2
  <2>3. CASE op = "matmul" /\ Multipliable(d[1], d[2]) /\ e = <<d[1][1], d[2][2]>>
    <3>1. PICK p, q \in Dimension :
            d[1] = <<p, q>> /\ d[1][1] = p /\ d[1][2] = q /\ Product(d[1]) = p * q
      BY <2>1, <2>3, MatrixIs DEF Multipliable
    <3>2. PICK u, v \in Dimension :
            d[2] = <<u, v>> /\ d[2][1] = u /\ d[2][2] = v /\ Product(d[2]) = u * v
      BY <2>1, <2>3, MatrixIs DEF Multipliable
    <3>3. u = q /\ e = <<p, v>> /\ p \in Int /\ v \in Int
      BY <2>3, <3>1, <3>2 DEF Multipliable, Dimension
    <3>4. rule = MatmulGradient(<<p, q>>, <<q, v>>, s[1], s[2], g)
      BY <2>3, <3>1, <3>2, <3>3 DEF ApplyNode
    <3>5. Product(e) = p * v
      BY <3>3, ProductOfTwo
    <3> HIDE DEF rule
    <3>6. s[1] \in List(p * q) /\ s[2] \in List(q * v) /\ g \in List(p * v)
      BY <2>1, <3>1, <3>2, <3>3, <3>5
    <3>7. rule[1] \in List(p * q) /\ rule[2] \in List(q * v)
      BY <3>4, <3>6, MatmulGradientType
    <3>8. QED
      BY <3>1, <3>2, <3>3, <3>7
  <2>4. CASE op = "bias_add" /\ Len(d[1]) = 2 /\ d[2] = <<d[1][2]>> /\ e = d[1]
    <3>1. PICK p, q \in Dimension :
            d[1] = <<p, q>> /\ d[1][1] = p /\ d[1][2] = q /\ Product(d[1]) = p * q
      BY <2>1, <2>4, MatrixIs
    <3>2. Product(d[2]) = q
      <4>1. d[2] = <<q>> /\ q \in Int
        BY <2>4, <3>1 DEF Dimension
      <4>2. Product(<<q>>) = q
        BY <4>1, ProductOfTwo
      <4>3. QED
        BY <4>1, <4>2
    <3>3. rule = <<g, BiasGradient(q, g)>>
      BY <2>4, <3>1 DEF ApplyNode
    <3>4. BiasGradient(q, g) \in List(q)
      BY <2>4, <3>1, BiasGradientType
    <3>5. QED
      BY <2>4, <3>2, <3>3, <3>4
  <2>5. CASE op = "mse" /\ d[1] = d[2] /\ e = <<>> /\ Averaged(Product(d[1]))
    <3>1. rule = MseGradient(s[1], s[2], g[1])
      BY <2>5 DEF ApplyNode
    <3>2. g[1] \in Field
      BY <2>1, <2>5 DEF List
    <3> HIDE DEF rule
    <3>3. rule[1] \in List(Product(d[1])) /\ rule[2] \in List(Product(d[1]))
      BY <2>1, <2>5, <3>1, <3>2, MseGradientType
    <3>4. QED
      BY <2>5, <3>3
  <2>6. CASE op = "cross_entropy" /\ d[1] = d[2] /\ Len(d[1]) = 2 /\ e = <<>> /\ Averaged(d[1][1])
    <3>1. PICK p, q \in Dimension :
            d[1] = <<p, q>> /\ d[1][1] = p /\ d[1][2] = q /\ Product(d[1]) = p * q
      BY <2>1, <2>6, MatrixIs
    <3>2. rule = CrossEntropyGradient(<<p, q>>, s[1], s[2], g[1])
      BY <2>6, <3>1 DEF ApplyNode
    <3>3. g[1] \in Field
      BY <2>1, <2>6 DEF List
    <3> HIDE DEF rule
    <3>4. Summable(<<p, q>>, s[1]) /\ Averaged(p)
          /\ s[1] \in List(p * q) /\ s[2] \in List(p * q)
      BY <2>1, <2>6, <3>1
    <3>5. rule[1] \in List(p * q) /\ rule[2] \in List(p * q)
      BY <3>2, <3>3, <3>4, CrossEntropyGradientType
    <3>6. QED
      BY <2>6, <3>1, <3>5
  <2>7. QED
    BY <1>2, <2>2, <2>3, <2>4, <2>5, <2>6, OneOrTwo DEF Agrees
<1>3. QED
  BY <1>1, <1>2 DEF Agrees

-----------------------------------------------------------------------------
(***************************************************************************)
(* The tape.                                                               *)
(***************************************************************************)
OperandShapes(made, parents) == [i \in DOMAIN parents |-> made[parents[i]].dimensions]
OperandValues(made, parents) == [i \in DOMAIN parents |-> made[parents[i]].values]

\* Node x, made after the tensors of made, is of the right size for its operands.
Recorded(made, n, x) ==
  /\ x.dimensions \in Seq(Dimension) /\ x.values \in List(Product(x.dimensions))
  /\ \A i \in DOMAIN x.parents : x.parents[i] \in 1 .. n
  /\ x.operation = "leaf"
     \/ Agrees(x.operation, OperandShapes(made, x.parents), x.dimensions)
  /\ x.operation = "cross_entropy" =>
       Summable(OperandShapes(made, x.parents)[1], OperandValues(made, x.parents)[1])

Taped(made) ==
  /\ \E S : made \in Seq(S)
  /\ \A t \in 1 .. Len(made) : Recorded(made, t - 1, made[t])

\* What is appended leaves the rest of a list alone.
LEMMA Appended ==
  ASSUME NEW s, NEW x, \E S : s \in Seq(S)
  PROVE  /\ Len(s) \in Nat /\ DOMAIN s = 1 .. Len(s) /\ \E S : Append(s, x) \in Seq(S)
         /\ Len(Append(s, x)) = Len(s) + 1 /\ Append(s, x)[Len(s) + 1] = x
         /\ \A i \in 1 .. Len(s) : Append(s, x)[i] = s[i]
         /\ DOMAIN Append(s, x) = 1 .. Len(s) + 1
<1>1. PICK S : s \in Seq(S)
  OBVIOUS
<1>2. s \in Seq(S \cup {x})
  BY <1>1
<1>3. Append(s, x) \in Seq(S \cup {x})
  BY <1>2
<1>4. QED
  BY <1>2, <1>3

\* The operands of a node are not changed by what is made after them.
LEMMA RecordedStays ==
  ASSUME NEW made, NEW x, NEW n \in Nat, NEW later, Recorded(made, n, x),
         \A i \in 1 .. n : later[i] = made[i]
  PROVE  Recorded(later, n, x)
<1>1. \A i \in DOMAIN x.parents : later[x.parents[i]] = made[x.parents[i]]
  BY DEF Recorded
<1>2. /\ OperandShapes(later, x.parents) = OperandShapes(made, x.parents)
      /\ OperandValues(later, x.parents) = OperandValues(made, x.parents)
  BY <1>1 DEF OperandShapes, OperandValues
<1>3. QED
  BY <1>2, Zenon DEF Recorded

\* A node may be added.
LEMMA TapedAppend ==
  ASSUME NEW made, Taped(made), NEW x, Recorded(made, Len(made), x)
  PROVE  Taped(Append(made, x))
<1> DEFINE later == Append(made, x)
           n == Len(made)
<1>1. /\ n \in Nat /\ (\E S : later \in Seq(S)) /\ Len(later) = n + 1 /\ later[n + 1] = x
      /\ \A i \in 1 .. n : later[i] = made[i]
  <2>1. \E S : made \in Seq(S)
    BY DEF Taped
  <2>2. n \in Nat /\ Len(later) = n + 1 /\ later[n + 1] = x
    BY <2>1, Appended
  <2>3. \E S : later \in Seq(S)
    BY <2>1, Appended
  <2>4. \A i \in 1 .. n : later[i] = made[i]
    BY <2>1, Appended
  <2>5. QED
    BY <2>2, <2>3, <2>4
<1> HIDE DEF later, n
<1>2. ASSUME NEW t \in 1 .. n + 1 PROVE Recorded(later, t - 1, later[t])
  <2>1. CASE t \in 1 .. n
    <3>1. /\ Recorded(made, t - 1, made[t]) /\ later[t] = made[t] /\ t - 1 \in Nat
          /\ \A i \in 1 .. t - 1 : later[i] = made[i]
      BY <1>1, <2>1 DEF Taped, n
    <3>2. QED
      BY <3>1, RecordedStays
  <2>2. CASE t = n + 1
    <3>1. Recorded(made, n, x) /\ t - 1 = n
      BY <1>1, <2>2 DEF n
    <3>2. QED
      BY <1>1, <2>2, <3>1, RecordedStays
  <2>3. QED
    BY <1>1, <2>1, <2>2
<1>3. QED
  BY <1>1, <1>2 DEF Taped, later

\* The shapes and elements of the tensors on the tape.
LEMMA TapedType ==
  ASSUME NEW made, Taped(made), NEW t \in 1 .. Len(made)
  PROVE  /\ made[t].dimensions \in Seq(Dimension)
         /\ made[t].values \in List(Product(made[t].dimensions))
         /\ Product(made[t].dimensions) \in Dimension
<1>1. /\ made[t].dimensions \in Seq(Dimension)
      /\ made[t].values \in List(Product(made[t].dimensions))
  BY DEF Taped, Recorded
<1>2. QED
  BY <1>1, CountOfShape

\* The result of a kernel may be.
LEMMA ResultRecorded ==
  ASSUME NEW made, Taped(made), NEW op, NEW parents, NEW d \in Seq(Dimension),
         NEW laid, NEW internal, \A i \in DOMAIN parents : parents[i] \in 1 .. Len(made),
         Agrees(op, OperandShapes(made, parents), d),
         op = "cross_entropy" =>
           Summable(OperandShapes(made, parents)[1], OperandValues(made, parents)[1])
  PROVE  Recorded(made, Len(made), Result(made, op, parents, d, laid, internal))
<1> DEFINE s == [i \in DOMAIN parents |-> Lifted(made[parents[i]].values)]
           shapes == OperandShapes(made, parents)
           result == Kernel(op, shapes, s)
           x == Result(made, op, parents, d, laid, internal)
<1>1. ASSUME NEW i \in DOMAIN shapes
      PROVE  shapes[i] \in Seq(Dimension) /\ Duals(s[i], Product(shapes[i]))
  <2>1. i \in DOMAIN parents /\ parents[i] \in 1 .. Len(made)
        /\ shapes[i] = made[parents[i]].dimensions /\ s[i] = Lifted(made[parents[i]].values)
    BY DEF OperandShapes
  <2> HIDE DEF shapes, s
  <2>2. shapes[i] \in Seq(Dimension) /\ made[parents[i]].values \in List(Product(shapes[i]))
    BY <2>1, TapedType
  <2>3. QED
    BY <2>1, <2>2, LiftedType
<1> HIDE DEF s
<1>2. Duals(result, Product(d))
  BY <1>1, KernelType
<1>3. x = [operation |-> op, parents |-> parents, dimensions |-> d, strides |-> laid,
           values |-> [k \in DOMAIN result |-> result[k][1]],
           requires_grad |-> \E i \in DOMAIN parents : made[parents[i]].requires_grad,
           internal |-> internal]
  BY Zenon DEF Result, s, OperandShapes
<1> HIDE DEF result
<1>4. [k \in DOMAIN result |-> result[k][1]] \in List(Product(d))
  BY <1>2 DEF Duals, List
<1>5. /\ x.operation = op /\ x.parents = parents /\ x.dimensions = d
      /\ x.values = [k \in DOMAIN result |-> result[k][1]]
  BY <1>3
<1> HIDE DEF x, shapes
<1>6. QED
  BY <1>4, <1>5, Zenon DEF Recorded, x, shapes

-----------------------------------------------------------------------------
(***************************************************************************)
(* The inductive invariant.                                                *)
(***************************************************************************)
Sized(d, g) == g \in {<<>>} \cup List(Product(d))

ProgramInv ==
  /\ Taped(tape)
  /\ gradient \in Seq(Seq(Field)) /\ Len(gradient) = Len(tape)
  /\ \A t \in 1 .. Len(tape) : Sized(tape[t].dimensions, gradient[t])

\* It implies the types the run checks.
LEMMA ProgramInvTypes ==
  ASSUME ProgramInv
  PROVE  ProgramTypeOK
<1>1. DOMAIN tape = 1 .. Len(tape) /\ DOMAIN gradient = 1 .. Len(tape)
  BY Appended DEF ProgramInv, Taped
<1>2. ASSUME NEW t \in 1 .. Len(tape)
      PROVE  /\ tape[t].values \in [1 .. Product(ShapeOf(t)) -> Field]
             /\ \A i \in DOMAIN tape[t].parents : tape[t].parents[i] < t
             /\ gradient[t] \in {<<>>} \cup [1 .. Product(ShapeOf(t)) -> Field]
  <2>1. Recorded(tape, t - 1, tape[t]) /\ Sized(tape[t].dimensions, gradient[t])
    BY DEF ProgramInv, Taped
  <2>2. \A i \in DOMAIN tape[t].parents : tape[t].parents[i] < t
    BY <2>1 DEF Recorded
  <2>3. QED
    BY <2>1, <2>2 DEF Recorded, Sized, List, ShapeOf
<1>3. QED
  BY <1>1, <1>2 DEF ProgramTypeOK, Tensors

\* The leaves of a program satisfy it.
LEMMA InitProgramInv ==
  ASSUME ProgramInit
  PROVE  ProgramInv
<1>1. tape \in Seq(Leaves) /\ gradient = [t \in Tensors |-> <<>>]
  BY GradientsAssumption DEF ProgramInit
<1>2. Tensors = 1 .. Len(tape) /\ Len(tape) \in Nat
  BY <1>1 DEF Tensors
<1>3. ASSUME NEW t \in 1 .. Len(tape) PROVE Recorded(tape, t - 1, tape[t])
  <2>1. tape[t] \in Leaves
    BY <1>1
  <2>2. /\ tape[t].operation = "leaf" /\ tape[t].parents = <<>>
        /\ tape[t].dimensions \in Seq(Dimension) /\ tape[t].values \in Seq(Field)
        /\ Len(tape[t].values) = Product(tape[t].dimensions)
    BY <2>1 DEF Leaves
  <2>3. tape[t].values \in List(Product(tape[t].dimensions))
    BY <2>2 DEF List
  <2>4. QED
    BY <2>2, <2>3 DEF Recorded
<1>4. gradient \in Seq(Seq(Field)) /\ Len(gradient) = Len(tape)
  BY <1>1, <1>2
<1>5. QED
  BY <1>1, <1>2, <1>3, <1>4 DEF ProgramInv, Taped, Sized

\* A step that makes one tensor keeps it.
LEMMA ExtendStep ==
  ASSUME ProgramInv, NEW tensor, Recorded(tape, Len(tape), tensor), Extend(tensor)
  PROVE  ProgramInv'
<1>1. /\ tape' = Append(tape, tensor) /\ gradient' = Append(gradient, <<>>)
      /\ Taped(tape) /\ gradient \in Seq(Seq(Field)) /\ Len(gradient) = Len(tape)
  BY DEF Extend, ProgramInv
<1>2. Taped(tape')
  BY <1>1, TapedAppend
<1>3. /\ Len(tape) \in Nat /\ Len(tape') = Len(tape) + 1
      /\ \A t \in 1 .. Len(tape) : tape'[t] = tape[t]
  BY <1>1, Appended DEF Taped
<1>4. /\ gradient' \in Seq(Seq(Field)) /\ Len(gradient') = Len(tape')
      /\ gradient'[Len(tape) + 1] = <<>>
      /\ \A t \in 1 .. Len(tape) : gradient'[t] = gradient[t]
  <2>1. <<>> \in Seq(Field)
    OBVIOUS
  <2>2. QED
    BY <1>1, <1>3, <2>1
<1>5. ASSUME NEW t \in 1 .. Len(tape') PROVE Sized(tape'[t].dimensions, gradient'[t])
  <2>1. CASE t \in 1 .. Len(tape)
    BY <1>3, <1>4, <2>1 DEF ProgramInv
  <2>2. CASE t = Len(tape) + 1
    BY <1>4, <2>2 DEF Sized
  <2>3. QED
    BY <1>3, <2>1, <2>2
<1>6. QED
  BY <1>2, <1>4, <1>5 DEF ProgramInv

\* The tensors on the tape are where they were made.
LEMMA TensorsAre ==
  ASSUME ProgramInv
  PROVE  /\ Tensors = 1 .. Len(tape) /\ Len(tape) \in Nat /\ Taped(tape)
         /\ \A t \in Tensors : /\ ShapeOf(t) \in Seq(Dimension)
                               /\ Product(ShapeOf(t)) \in Dimension
                               /\ tape[t].values \in List(Product(ShapeOf(t)))
<1>1. Taped(tape) /\ Tensors = 1 .. Len(tape) /\ Len(tape) \in Nat
  BY Appended DEF ProgramInv, Taped, Tensors
<1>2. QED
  BY <1>1, TapedType DEF ShapeOf

\* A step that records a kernel keeps the invariant.
LEMMA RecordStep ==
  ASSUME ProgramInv, NEW op, NEW parents, NEW d \in Seq(Dimension), NEW laid,
         \A i \in DOMAIN parents : parents[i] \in Tensors,
         Agrees(op, OperandShapes(tape, parents), d),
         op = "cross_entropy" =>
           Summable(OperandShapes(tape, parents)[1], OperandValues(tape, parents)[1]),
         Extend(Result(tape, op, parents, d, laid, FALSE))
  PROVE  ProgramInv'
<1>1. Taped(tape) /\ \A i \in DOMAIN parents : parents[i] \in 1 .. Len(tape)
  BY TensorsAre
<1>2. Recorded(tape, Len(tape), Result(tape, op, parents, d, laid, FALSE))
  BY <1>1, ResultRecorded
<1>3. QED
  BY <1>2, ExtendStep

\* Kernels of one operand.
LEMMA ComputeStep ==
  ASSUME ProgramInv, NEW t \in Operand, Compute(t)
  PROVE  ProgramInv'
<1> DEFINE shapes == OperandShapes(tape, <<t>>)
           d == ShapeOf(t)
<1>1. /\ t \in Tensors /\ d \in Seq(Dimension) /\ Unary(shapes) /\ shapes[1] = d
      /\ \A i \in DOMAIN <<t>> : <<t>>[i] \in Tensors
      /\ <<>> \in Seq(Dimension)
  <2>1. t \in Tensors /\ d \in Seq(Dimension)
    BY TensorsAre DEF Operand
  <2>2. Unary(shapes) /\ shapes[1] = d
    BY DEF OperandShapes, Unary, ShapeOf
  <2>3. QED
    BY <2>1, <2>2
<1>2. ASSUME NEW op, op # "cross_entropy", NEW e \in Seq(Dimension), Agrees(op, shapes, e),
             Record(op, <<t>>, e)
      PROVE  ProgramInv'
  BY <1>1, <1>2, RecordStep DEF Record
<1>3. CASE Transfer(t)
  <2>1. Agrees("identity", shapes, d)
    BY <1>1 DEF Agrees, Copying
  <2>2. QED
    BY <1>1, <1>2, <1>3, <2>1 DEF Transfer
<1>4. ASSUME NEW flag \in BOOLEAN, WithRequiresGrad(t, flag) PROVE ProgramInv'
  <2> DEFINE x == Leaf(d, tape[t].values, flag)
  <2>1. /\ x.operation = "leaf" /\ x.parents = <<>> /\ x.dimensions = d
        /\ x.values = tape[t].values
    BY DEF Leaf
  <2>2. Extend(x) /\ tape[t].values \in List(Product(d))
    BY <1>1, <1>4, TensorsAre DEF WithRequiresGrad
  <2> HIDE DEF x
  <2>3. Recorded(tape, Len(tape), x)
    BY <1>1, <2>1, <2>2 DEF Recorded
  <2>4. QED
    BY <2>2, <2>3, ExtendStep
<1>5. ASSUME NEW e \in Reshapes, ReshapeTo(t, e) PROVE ProgramInv'
  <2>1. e \in Seq(Dimension)
    BY GradientsAssumption
  <2>2. Agrees("reshape", shapes, e)
    BY <1>1, <1>5 DEF Agrees, Copying, ReshapeTo
  <2>3. QED
    BY <1>2, <1>5, <2>1, <2>2 DEF ReshapeTo
<1>6. CASE TransposeMatrix(t)
  <2>1. /\ Len(d) = 2
        /\ Extend(Result(tape, "transpose", <<t>>, Swapped(d), Swapped(tape[t].strides), FALSE))
    BY <1>6 DEF TransposeMatrix
  <2>2. Swapped(d) \in Seq(Dimension)
    <3>1. PICK p, q \in Dimension : d[1] = p /\ d[2] = q
      BY <1>1, <2>1, MatrixIs
    <3>2. <<d[2], d[1]>> \in Seq(Dimension)
      BY <3>1
    <3>3. QED
      BY <3>2 DEF Swapped
  <2>3. Agrees("transpose", shapes, Swapped(d))
    BY <1>1, <2>1 DEF Agrees
  <2>4. QED
    BY <1>1, <2>1, <2>2, <2>3, RecordStep
<1>7. ASSUME NEW op \in Activations, Record(op, <<t>>, d) PROVE ProgramInv'
  <2>1. Agrees(op, shapes, d)
    BY <1>1 DEF Agrees
  <2>2. op # "cross_entropy"
    BY DEF Activations
  <2>3. QED
    BY <1>1, <1>2, <1>7, <2>1, <2>2
<1>8. CASE SwiGlu(t)
  <2>1. d # <<>> /\ d[Len(d)] % 2 = 0 /\ Record("swiglu", <<t>>, Halved(d))
    BY <1>8 DEF SwiGlu, Halved
  <2>2. Halved(d) \in Seq(Dimension)
    BY <1>1, <2>1, HalvedIs
  <2>3. Agrees("swiglu", shapes, Halved(d))
    BY <1>1, <2>1 DEF Agrees
  <2>4. QED
    BY <1>2, <2>1, <2>2, <2>3
<1>9. CASE SumAll(t)
  <2>1. Agrees("sum", shapes, <<>>)
    BY <1>1 DEF Agrees
  <2>2. QED
    BY <1>1, <1>2, <1>9, <2>1 DEF SumAll
<1>10. QED
  BY <1>3, <1>4, <1>5, <1>6, <1>7, <1>8, <1>9
  DEF Compute, StableActivation, GeluOrSilu, Activations

\* Two tensors without a gradient.
LEMMA AddedTwo ==
  ASSUME NEW T, <<>> \in T, NEW s \in Seq(T), NEW n \in Nat, Len(s) = n
  PROVE  LET u == s \o << <<>>, <<>> >> IN
         /\ u \in Seq(T) /\ Len(u) = n + 2 /\ u[n + 1] = <<>> /\ u[n + 2] = <<>>
         /\ \A i \in 1 .. n : u[i] = s[i]
<1> DEFINE none == << >>
<1> HIDE DEF none
<1>1. none \in T
  BY DEF none
<1>2. <<none, none>> \in Seq(T)
  BY <1>1
<1> DEFINE two == <<none, none>>
           u == s \o two
<1>3. Len(two) = 2 /\ two[1] = none /\ two[2] = none
  OBVIOUS
<1> HIDE DEF two
<1>4. u \in Seq(T) /\ Len(u) = n + 2
  BY <1>2, <1>3 DEF two
<1>5. \A i \in 1 .. n : u[i] = s[i]
  BY <1>2, <1>3 DEF two
<1>6. u[n + 1] = two[1] /\ u[n + 2] = two[2]
  BY <1>2, <1>3 DEF two
<1>7. QED
  BY <1>3, <1>4, <1>5, <1>6 DEF two, none

\* A Linear records two.
LEMMA LinearStep ==
  ASSUME ProgramInv, NEW t \in Tensors, NEW w \in Tensors, NEW b \in Tensors,
         LinearForward(t, w, b)
  PROVE  ProgramInv'
<1> DEFINE d == <<ShapeOf(t)[1], ShapeOf(w)[2]>>
           x == Result(tape, "matmul", <<t, w>>, d, RowMajor(d), TRUE)
           made == Append(tape, x)
           n == Len(tape)
           y == Result(made, "bias_add", <<Len(made), b>>, d, RowMajor(d), FALSE)
<1>1. /\ Tensors = 1 .. n /\ n \in Nat /\ Taped(tape)
      /\ ShapeOf(t) \in Seq(Dimension) /\ ShapeOf(w) \in Seq(Dimension)
  BY TensorsAre
<1>2. /\ Multipliable(ShapeOf(t), ShapeOf(w)) /\ ShapeOf(b) = <<ShapeOf(w)[2]>>
      /\ tape' = Append(made, y) /\ gradient' = gradient \o << <<>>, <<>> >>
  BY DEF LinearForward
<1>3. d \in Seq(Dimension) /\ Len(d) = 2 /\ d[2] = ShapeOf(w)[2]
  BY <1>1, <1>2 DEF Multipliable
<1> HIDE DEF d
<1>4. Agrees("matmul", OperandShapes(tape, <<t, w>>), d)
  <2>1. /\ Binary(OperandShapes(tape, <<t, w>>))
        /\ OperandShapes(tape, <<t, w>>)[1] = ShapeOf(t)
        /\ OperandShapes(tape, <<t, w>>)[2] = ShapeOf(w)
    BY DEF OperandShapes, Binary, ShapeOf
  <2>2. QED
    BY <1>2, <2>1 DEF Agrees, d
<1>5. Recorded(tape, n, x)
  <2>1. \A i \in DOMAIN <<t, w>> : <<t, w>>[i] \in 1 .. n
    BY <1>1
  <2>2. QED
    BY <1>1, <1>3, <1>4, <2>1, ResultRecorded
<1>6. x.dimensions = d
  BY DEF Result
<1> HIDE DEF x
<1>7. /\ Taped(made) /\ Len(made) = n + 1 /\ made[n + 1] = x /\ made[b] = tape[b]
      /\ \A i \in 1 .. n : made[i] = tape[i]
  <2>1. Taped(made)
    BY <1>1, <1>5, TapedAppend
  <2>2. \E S : tape \in Seq(S)
    BY <1>1 DEF Taped
  <2>3. Len(made) = n + 1 /\ made[n + 1] = x
    BY <2>2, Appended
  <2>4. \A i \in 1 .. n : made[i] = tape[i]
    BY <2>2, Appended
  <2>5. QED
    BY <1>1, <2>1, <2>3, <2>4
<1> HIDE DEF made
<1>8. Agrees("bias_add", OperandShapes(made, <<Len(made), b>>), d)
  <2>1. /\ Binary(OperandShapes(made, <<Len(made), b>>))
        /\ OperandShapes(made, <<Len(made), b>>)[1] = d
        /\ OperandShapes(made, <<Len(made), b>>)[2] = <<d[2]>>
    <3>1. OperandShapes(made, <<Len(made), b>>)[1] = made[n + 1].dimensions
      BY <1>7 DEF OperandShapes
    <3>2. OperandShapes(made, <<Len(made), b>>)[2] = ShapeOf(b)
      BY <1>7 DEF OperandShapes, ShapeOf
    <3>3. Binary(OperandShapes(made, <<Len(made), b>>))
      BY DEF OperandShapes, Binary
    <3>4. QED
      BY <1>2, <1>3, <1>6, <1>7, <3>1, <3>2, <3>3
  <2>2. QED
    BY <1>3, <2>1 DEF Agrees
<1>9. Recorded(made, Len(made), y)
  <2>1. \A i \in DOMAIN <<Len(made), b>> : <<Len(made), b>>[i] \in 1 .. Len(made)
    BY <1>1, <1>7
  <2>2. QED
    BY <1>3, <1>7, <1>8, <2>1, ResultRecorded
<1> HIDE DEF y
<1>10. Taped(tape') /\ Len(tape') = n + 2 /\ \A i \in 1 .. n : tape'[i] = tape[i]
  <2>1. Taped(tape')
    BY <1>2, <1>7, <1>9, TapedAppend
  <2>2. \E S : made \in Seq(S)
    BY <1>7 DEF Taped
  <2>3. Len(tape') = Len(made) + 1
    BY <1>2, <2>2, Appended
  <2>4. \A i \in 1 .. Len(made) : tape'[i] = made[i]
    BY <1>2, <2>2, Appended
  <2>5. QED
    BY <1>1, <1>7, <2>1, <2>3, <2>4
<1>11. /\ gradient' \in Seq(Seq(Field)) /\ Len(gradient') = n + 2
       /\ \A i \in 1 .. n : gradient'[i] = gradient[i]
       /\ gradient'[n + 1] = <<>> /\ gradient'[n + 2] = <<>>
  <2>1. gradient \in Seq(Seq(Field)) /\ Len(gradient) = n /\ <<>> \in Seq(Field)
    BY DEF ProgramInv
  <2>2. QED
    BY <1>1, <1>2, <2>1, AddedTwo
<1>12. ASSUME NEW i \in 1 .. n + 2 PROVE Sized(tape'[i].dimensions, gradient'[i])
  <2>1. CASE i \in 1 .. n
    BY <1>10, <1>11, <2>1 DEF ProgramInv
  <2>2. CASE i = n + 1 \/ i = n + 2
    BY <1>11, <2>2 DEF Sized
  <2>3. QED
    BY <1>1, <2>1, <2>2
<1>13. QED
  BY <1>10, <1>11, <1>12 DEF ProgramInv

\* Kernels of two operands.
LEMMA CombineStep ==
  ASSUME ProgramInv, NEW l \in Operand, NEW r \in Operand, Combine(l, r)
  PROVE  ProgramInv'
<1> DEFINE shapes == OperandShapes(tape, <<l, r>>)
           d == ShapeOf(l)
           f == ShapeOf(r)
<1>1. /\ l \in Tensors /\ r \in Tensors /\ d \in Seq(Dimension) /\ f \in Seq(Dimension)
      /\ Binary(shapes) /\ shapes[1] = d /\ shapes[2] = f
      /\ OperandValues(tape, <<l, r>>)[1] = tape[l].values
      /\ \A i \in DOMAIN <<l, r>> : <<l, r>>[i] \in Tensors
      /\ <<>> \in Seq(Dimension)
  <2>1. l \in Tensors /\ r \in Tensors /\ d \in Seq(Dimension) /\ f \in Seq(Dimension)
    BY TensorsAre DEF Operand
  <2>2. Binary(shapes) /\ shapes[1] = d /\ shapes[2] = f
    BY DEF OperandShapes, Binary, ShapeOf
  <2>3. OperandValues(tape, <<l, r>>)[1] = tape[l].values
    BY DEF OperandValues
  <2>4. QED
    BY <2>1, <2>2, <2>3
<1>2. ASSUME NEW op, NEW e \in Seq(Dimension), Agrees(op, shapes, e), Record(op, <<l, r>>, e),
             op = "cross_entropy" => Summable(d, tape[l].values)
      PROVE  ProgramInv'
  <2>1. Extend(Result(tape, op, <<l, r>>, e, RowMajor(e), FALSE))
    BY <1>2 DEF Record
  <2>2. QED
    BY <1>1, <1>2, <2>1, RecordStep
<1> HIDE DEF shapes
<1>3. ASSUME NEW op \in {"add", "multiply"}, Entrywise(op, l, r) PROVE ProgramInv'
  <2>1. d = f /\ Record(op, <<l, r>>, d)
    BY <1>3 DEF Entrywise, SameShape
  <2>2. Agrees(op, shapes, d)
    BY <1>1, <2>1 DEF Agrees
  <2>3. op # "cross_entropy"
    OBVIOUS
  <2>4. QED
    BY <1>1, <1>2, <2>1, <2>2, <2>3
<1>4. CASE MatrixProduct(l, r)
  <2>1. Multipliable(d, f) /\ Record("matmul", <<l, r>>, <<d[1], f[2]>>)
    BY <1>4 DEF MatrixProduct
  <2>2. Agrees("matmul", shapes, <<d[1], f[2]>>)
    BY <1>1, <2>1 DEF Agrees
  <2>3. <<d[1], f[2]>> \in Seq(Dimension)
    BY <1>1, <2>1 DEF Multipliable
  <2> DEFINE e == <<d[1], f[2]>>
  <2> HIDE DEF e
  <2>4. Record("matmul", <<l, r>>, e) /\ Agrees("matmul", shapes, e) /\ e \in Seq(Dimension)
    BY <2>1, <2>2, <2>3 DEF e
  <2>5. QED
    BY <1>2, <2>4
<1>5. ASSUME NEW b \in Operand, LinearForward(l, r, b) PROVE ProgramInv'
  BY <1>1, <1>5, LinearStep DEF Operand
<1>6. CASE SquaredError(l, r)
  <2>1. d = f /\ Averaged(Product(d)) /\ Record("mse", <<l, r>>, <<>>)
    BY <1>6 DEF SquaredError, SameShape
  <2>2. Agrees("mse", shapes, <<>>)
    BY <1>1, <2>1 DEF Agrees
  <2>3. QED
    BY <1>1, <1>2, <2>1, <2>2
<1>7. CASE CrossEntropy(l, r)
  <2>1. /\ d = f /\ Len(d) = 2 /\ Averaged(d[1]) /\ Summable(d, tape[l].values)
        /\ Record("cross_entropy", <<l, r>>, <<>>)
    BY <1>7 DEF CrossEntropy, SameShape
  <2>2. Agrees("cross_entropy", shapes, <<>>)
    BY <1>1, <2>1 DEF Agrees
  <2>3. QED
    BY <1>1, <1>2, <2>1, <2>2
<1>8. QED
  BY <1>3, <1>4, <1>5, <1>6, <1>7 DEF Combine

-----------------------------------------------------------------------------
(***************************************************************************)
(* Backward.                                                               *)
(***************************************************************************)
\* What each tensor may have gathered.
Loads ==
  {g \in [1 .. Len(tape) -> Seq(Field)] :
     \A t \in 1 .. Len(tape) : Sized(tape[t].dimensions, g[t])}

\* Lists of the elements of a tensor are sequences.
LEMMA ListIsSequence ==
  ASSUME NEW n \in Dimension
  PROVE  List(n) \subseteq Seq(Field) /\ <<>> \in Seq(Field)
<1>1. ASSUME NEW s \in List(n) PROVE s \in Seq(Field)
  <2>1. n \in Nat /\ s \in [1 .. n -> Field]
    BY DEF List, Dimension
  <2>2. QED
    BY <2>1
<1>2. QED
  BY <1>1

\* A gradient and what is added to it are of one size.
LEMMA AccumulateType ==
  ASSUME NEW n, NEW sum \in {<<>>} \cup List(n), NEW g \in List(n)
  PROVE  Accumulate(sum, g) \in List(n)
<1>1. CASE sum = <<>>
  BY <1>1 DEF Accumulate
<1>2. CASE sum # <<>>
  <2>1. Accumulate(sum, g) = [k \in 1 .. n |-> (sum[k] + g[k]) % P]
    BY <1>2 DEF Accumulate, List
  <2>2. ASSUME NEW k \in 1 .. n PROVE (sum[k] + g[k]) % P \in Field
    <3>1. sum[k] \in Int /\ g[k] \in Int
      BY <1>2, FieldType DEF List
    <3>2. sum[k] + g[k] \in Int
      BY <3>1
    <3>3. QED
      BY <3>2, FieldType
  <2>3. QED
    BY <2>1, <2>2 DEF List
<1>3. QED
  BY <1>1, <1>2

\* A tensor is handed a gradient of its own size.
LEMMA GivenType ==
  ASSUME ProgramInv, NEW g \in Loads, NEW p \in 1 .. Len(tape),
         NEW c \in List(Product(tape[p].dimensions))
  PROVE  [g EXCEPT ![p] = Accumulate(@, c)] \in Loads
<1> DEFINE a == Accumulate(g[p], c)
<1>1. g \in [1 .. Len(tape) -> Seq(Field)]
      /\ \A t \in 1 .. Len(tape) : Sized(tape[t].dimensions, g[t])
  BY DEF Loads
<1>2. a \in List(Product(tape[p].dimensions))
  BY <1>1, AccumulateType DEF Sized
<1>3. a \in Seq(Field)
  <2>1. Product(tape[p].dimensions) \in Dimension
    BY TapedType DEF ProgramInv
  <2>2. QED
    BY <1>2, <2>1, ListIsSequence
<1> HIDE DEF a
<1>4. Sized(tape[p].dimensions, a)
  BY <1>2 DEF Sized
<1>5. [g EXCEPT ![p] = a] \in Loads
  BY <1>1, <1>3, <1>4 DEF Loads
<1>6. QED
  BY <1>5 DEF a

\* The operands of a tensor get gradients of their sizes.
LEMMA DistributeType ==
  ASSUME ProgramInv, NEW g \in Loads, NEW t \in 1 .. Len(tape)
  PROVE  Distribute(g, t) \in Loads
<1> DEFINE node == tape[t]
           shapes == OperandShapes(tape, node.parents)
           values == OperandValues(tape, node.parents)
           contribution == ApplyNode(node.operation, shapes, values, g[t])
           give(h, i) ==
             IF i \in DOMAIN node.parents /\ tape[node.parents[i]].requires_grad
             THEN [h EXCEPT ![node.parents[i]] = Accumulate(@, contribution[i])] ELSE h
<1>1. CASE g[t] = <<>> \/ ~node.requires_grad \/ node.operation = "leaf"
  BY <1>1 DEF Distribute
<1>2. CASE ~(g[t] = <<>> \/ ~node.requires_grad \/ node.operation = "leaf")
  <2>1. Recorded(tape, t - 1, node) /\ Taped(tape)
    BY DEF ProgramInv, Taped
  <2>2. \A i \in DOMAIN node.parents : node.parents[i] \in 1 .. Len(tape)
    <3>1. Len(tape) \in Nat
      BY TensorsAre
    <3>2. \A i \in DOMAIN node.parents : node.parents[i] \in 1 .. t - 1
      BY <2>1 DEF Recorded
    <3>3. QED
      BY <3>1, <3>2
  <2>3. /\ DOMAIN shapes = DOMAIN node.parents
        /\ \A i \in DOMAIN shapes : /\ shapes[i] = tape[node.parents[i]].dimensions
                                    /\ values[i] = tape[node.parents[i]].values
    BY DEF OperandShapes, OperandValues
  <2>4. /\ Agrees(node.operation, shapes, node.dimensions) /\ node.dimensions \in Seq(Dimension)
        /\ node.operation = "cross_entropy" => Summable(shapes[1], values[1])
    BY <1>2, <2>1 DEF Recorded
  <2>5. g[t] \in List(Product(node.dimensions))
    BY <1>2 DEF Loads, Sized
  <2>6. Distribute(g, t) = give(give(g, 1), 2)
    BY <1>2, Zenon DEF Distribute, OperandShapes, OperandValues, ShapeOf
  <2> HIDE DEF shapes, values
  <2>7. \A i \in DOMAIN shapes :
          shapes[i] \in Seq(Dimension) /\ values[i] \in List(Product(shapes[i]))
    BY <2>1, <2>2, <2>3, TapedType
  <2>8. \A i \in DOMAIN shapes : contribution[i] \in List(Product(shapes[i]))
    BY <2>4, <2>5, <2>7, RuleType
  <2> HIDE DEF node, contribution
  <2>9. ASSUME NEW h \in Loads, NEW i PROVE give(h, i) \in Loads
    <3>1. CASE i \in DOMAIN node.parents /\ tape[node.parents[i]].requires_grad
      <4>1. /\ node.parents[i] \in 1 .. Len(tape)
            /\ contribution[i] \in List(Product(tape[node.parents[i]].dimensions))
        BY <2>2, <2>3, <2>8, <3>1
      <4>2. [h EXCEPT ![node.parents[i]] = Accumulate(@, contribution[i])] \in Loads
        BY <4>1, GivenType
      <4>3. QED
        BY <3>1, <4>2
    <3>2. QED
      BY <3>1
  <2> HIDE DEF give
  <2>10. QED
    BY <2>6, <2>9
<1>3. QED
  BY <1>1, <1>2

\* Gathered is a recursive function of the number of tensors visited.
WalkBegin(root) == [t \in Tensors |-> IF t = root THEN <<1>> ELSE <<>>]
GatherStep(root, f) ==
  [n \in 0 .. Len(tape) |->
     IF n = 0 THEN WalkBegin(root) ELSE Distribute(f[n - 1], Len(tape) + 1 - n)]
Gathering(root) == CHOOSE f : f = GatherStep(root, f)

LEMMA GatheredUnfolds ==
  ASSUME NEW root
  PROVE  Gathered(root) = Gathering(root)[Len(tape)]
BY Zenon DEF Gathered, Gathering, GatherStep, WalkBegin

\* The recursion of Gathered is well founded, and keeps to the sizes of tensors.
LEMMA GatheringExists ==
  ASSUME ProgramInv, NEW root, WalkBegin(root) \in Loads
  PROVE  \E f \in [0 .. Len(tape) -> Loads] : f = GatherStep(root, f)
<1> DEFINE N == Len(tape)
           first == WalkBegin(root)
           next(h, m) == Distribute(h, N + 1 - m)
           Solves(n, f) == \A m \in 0 .. n : f[m] = IF m = 0 THEN first ELSE next(f[m - 1], m)
           T == {n \in 0 .. N : \E f \in [0 .. N -> Loads] : Solves(n, f)}
<1>1. N \in Nat /\ first \in Loads
  BY TensorsAre
<1>2. ASSUME NEW h \in Loads, NEW m \in 1 .. N PROVE next(h, m) \in Loads
  <2>1. N + 1 - m \in 1 .. Len(tape)
    BY <1>1
  <2>2. QED
    BY <2>1, DistributeType
<1> HIDE DEF N, first, next
<1>3. 0 \in T
  <2> DEFINE f == [m \in 0 .. N |-> first]
  <2>1. f \in [0 .. N -> Loads] /\ f[0] = first /\ 0 \in 0 .. N
    BY <1>1
  <2>2. \A m \in 0 .. 0 : m = 0
    OBVIOUS
  <2> HIDE DEF f
  <2>3. Solves(0, f)
    BY <2>1, <2>2
  <2>4. QED
    BY <2>1, <2>3
<1>4. ASSUME NEW n \in 0 .. N - 1, n \in T PROVE n + 1 \in T
  <2>1. PICK f \in [0 .. N -> Loads] : Solves(n, f)
    BY <1>4
  <2>2. n + 1 \in 1 .. N /\ n + 1 \in 0 .. N /\ n \in 0 .. N
        /\ \A m \in 0 .. n : m \in 0 .. N /\ m # n + 1
    BY <1>1
  <2> DEFINE last == next(f[n], n + 1)
             g == [f EXCEPT ![n + 1] = last]
  <2>3. last \in Loads
    BY <1>2, <2>2
  <2> HIDE DEF last
  <2>4. g \in [0 .. N -> Loads] /\ g[n + 1] = last /\ \A m \in 0 .. n : g[m] = f[m]
    BY <2>2, <2>3
  <2> HIDE DEF g
  <2>5. ASSUME NEW m \in 0 .. n + 1
        PROVE  g[m] = IF m = 0 THEN first ELSE next(g[m - 1], m)
    <3>1. CASE m \in 0 .. n
      <4>1. m = 0 \/ m - 1 \in 0 .. n
        BY <3>1
      <4>2. g[m] = f[m] /\ (m = 0 \/ g[m - 1] = f[m - 1])
        BY <2>4, <3>1, <4>1
      <4>3. f[m] = IF m = 0 THEN first ELSE next(f[m - 1], m)
        BY <2>1, <3>1
      <4>4. QED
        BY <4>2, <4>3, Zenon
    <3>2. CASE m = n + 1
      <4>1. m # 0 /\ m - 1 = n /\ n \in 0 .. n
        BY <1>1, <3>2
      <4>2. g[m] = next(f[n], m) /\ g[m - 1] = f[n]
        BY <2>4, <3>2, <4>1 DEF last
      <4>3. QED
        BY <4>1, <4>2, Zenon
    <3>3. QED
      BY <1>1, <3>1, <3>2
  <2>6. Solves(n + 1, g)
    BY <2>5
  <2>7. QED
    BY <2>2, <2>4, <2>6
<1>5. N \in T
  <2> HIDE DEF T
  <2>1. \A n \in 0 .. N : n \in T
    BY <1>1, <1>3, <1>4, UpToInduction
  <2>2. QED
    BY <1>1, <2>1
<1>6. PICK f \in [0 .. N -> Loads] : Solves(N, f)
  BY <1>5
<1>7. f = [m \in 0 .. N |-> f[m]]
  OBVIOUS
<1>8. f = GatherStep(root, f)
  BY <1>6, <1>7, Zenon DEF GatherStep, N, first, next
<1>9. QED
  BY <1>6, <1>8 DEF N

\* What Backward has gathered from a tensor of one element.
LEMMA GatheredType ==
  ASSUME ProgramInv, NEW root \in Tensors, Product(ShapeOf(root)) = 1
  PROVE  Gathered(root) \in Loads
<1>1. Tensors = 1 .. Len(tape) /\ Len(tape) \in Nat
  BY TensorsAre
<1>2. <<1>> \in List(1) /\ <<1>> \in Seq(Field) /\ <<>> \in Seq(Field)
  <2>1. 1 \in Field
    BY FieldType
  <2>2. QED
    BY <2>1 DEF List
<1>3. WalkBegin(root) \in Loads
  <2>1. ASSUME NEW t \in Tensors
        PROVE  WalkBegin(root)[t] \in Seq(Field)
               /\ Sized(tape[t].dimensions, WalkBegin(root)[t])
    <3>1. CASE t = root
      BY <1>2, <3>1 DEF WalkBegin, Sized, ShapeOf
    <3>2. CASE t # root
      BY <1>2, <3>2 DEF WalkBegin, Sized
    <3>3. QED
      BY <3>1, <3>2
  <2>2. WalkBegin(root) = [t \in Tensors |-> WalkBegin(root)[t]]
    BY DEF WalkBegin
  <2>3. QED
    BY <1>1, <2>1, <2>2 DEF Loads
<1> DEFINE f == Gathering(root)
<1>4. PICK h \in [0 .. Len(tape) -> Loads] : h = GatherStep(root, h)
  BY <1>3, GatheringExists
<1>5. f = GatherStep(root, f)
  BY <1>4, Zenon DEF Gathering
<1> HIDE DEF f
<1>6. f[0] = WalkBegin(root)
      /\ \A n \in 1 .. Len(tape) : f[n] = Distribute(f[n - 1], Len(tape) + 1 - n)
  <2>1. \A n \in 0 .. Len(tape) :
          f[n] = IF n = 0 THEN WalkBegin(root) ELSE Distribute(f[n - 1], Len(tape) + 1 - n)
    BY <1>5, Zenon DEF GatherStep
  <2>2. 0 \in 0 .. Len(tape) /\ \A n \in 1 .. Len(tape) : n \in 0 .. Len(tape) /\ n # 0
    BY <1>1
  <2>3. QED
    BY <2>1, <2>2, Zenon
<1> DEFINE T == {n \in 0 .. Len(tape) : f[n] \in Loads}
<1>7. 0 \in T
  BY <1>1, <1>3, <1>6
<1>8. ASSUME NEW n \in 0 .. Len(tape) - 1, n \in T PROVE n + 1 \in T
  <2>1. n + 1 \in 1 .. Len(tape) /\ (n + 1) - 1 = n
        /\ Len(tape) + 1 - (n + 1) \in 1 .. Len(tape) /\ n + 1 \in 0 .. Len(tape)
    BY <1>1
  <2>2. f[n + 1] = Distribute(f[n], Len(tape) + 1 - (n + 1)) /\ f[n] \in Loads
    BY <1>6, <1>8, <2>1
  <2>3. f[n + 1] \in Loads
    BY <2>1, <2>2, DistributeType
  <2>4. QED
    BY <2>1, <2>3
<1>9. Len(tape) \in T
  <2> HIDE DEF T
  <2>1. \A n \in 0 .. Len(tape) : n \in T
    BY <1>1, <1>7, <1>8, UpToInduction
  <2>2. QED
    BY <1>1, <2>1
<1>10. QED
  BY <1>9, GatheredUnfolds DEF f

\* Backward keeps the invariant.
LEMMA BackwardKeepsSizes ==
  ASSUME ProgramInv, NEW root \in Operand, Backward(root)
  PROVE  ProgramInv'
<1> DEFINE gathered == Gathered(root)
           handed(t) == IF Parameter(t) /\ gathered[t] # <<>>
                       THEN Accumulate(gradient[t], gathered[t]) ELSE gradient[t]
<1>1. /\ Tensors = 1 .. Len(tape) /\ Len(tape) \in Nat /\ root \in Tensors
      /\ Product(ShapeOf(root)) = 1
      /\ gradient' = [t \in Tensors |-> handed(t)] /\ tape' = tape
      /\ gradient \in Seq(Seq(Field)) /\ Len(gradient) = Len(tape)
  BY TensorsAre DEF Backward, Operand, ProgramInv
<1>2. gathered \in Loads
  BY <1>1, GatheredType
<1> HIDE DEF gathered
<1>3. ASSUME NEW t \in 1 .. Len(tape)
      PROVE  handed(t) \in Seq(Field) /\ Sized(tape[t].dimensions, handed(t))
  <2>1. /\ Sized(tape[t].dimensions, gradient[t]) /\ gradient[t] \in Seq(Field)
        /\ Product(tape[t].dimensions) \in Dimension
    BY <1>1, TapedType DEF ProgramInv
  <2>2. CASE Parameter(t) /\ gathered[t] # <<>>
    <3>1. gathered[t] \in List(Product(tape[t].dimensions))
      BY <1>2, <2>2 DEF Loads, Sized
    <3>2. handed(t) \in List(Product(tape[t].dimensions))
      BY <2>1, <2>2, <3>1, AccumulateType DEF Sized
    <3> HIDE DEF handed
    <3>3. QED
      BY <2>1, <3>2, ListIsSequence DEF Sized
  <2>3. QED
    BY <2>1, <2>2
<1> HIDE DEF handed
<1>4. /\ gradient' \in Seq(Seq(Field)) /\ Len(gradient') = Len(tape')
      /\ \A t \in 1 .. Len(tape) : gradient'[t] = handed(t)
  BY <1>1, <1>3
<1>5. QED
  BY <1>1, <1>3, <1>4 DEF ProgramInv

-----------------------------------------------------------------------------
\* Every step keeps it.
LEMMA ProgramStep ==
  ASSUME ProgramInv, [ProgramNext]_program_vars
  PROVE  ProgramInv'
<1>1. CASE UNCHANGED program_vars
  BY <1>1 DEF program_vars, ProgramInv, Taped, Recorded, Sized, OperandShapes, OperandValues
<1>2. ASSUME NEW t \in Operand, Compute(t) PROVE ProgramInv'
  BY <1>2, ComputeStep
<1>3. ASSUME NEW t \in Operand, Backward(t) PROVE ProgramInv'
  BY <1>3, BackwardKeepsSizes
<1>4. ASSUME NEW l \in Operand, NEW r \in Operand, Combine(l, r) PROVE ProgramInv'
  BY <1>4, CombineStep
<1>5. QED
  BY <1>1, <1>2, <1>3, <1>4 DEF ProgramNext

\* Every tensor holds as many numbers as its shape asks for, and so does its
\* gradient, whatever kernels a program puts together and however often Backward
\* is called: each kernel gives its result, and each rule of ApplyNode each
\* operand, numbers for all of its elements and for no others.
THEOREM ProgramsAreTyped ==
  ProgramSpec => []ProgramTypeOK
<1>1. ProgramInit => ProgramInv
  BY InitProgramInv
<1>2. ProgramInv /\ [ProgramNext]_program_vars => ProgramInv'
  BY ProgramStep
<1>3. ProgramInv => ProgramTypeOK
  BY ProgramInvTypes
<1>4. QED
  BY <1>1, <1>2, <1>3, PTL DEF ProgramSpec
-----------------------------------------------------------------------------
(***************************************************************************)
(* Making tensors of shapes from outside.                                  *)
(***************************************************************************)

\* A call that makes a tensor validates as ValidateShape does alone, and whatever is
\* made is made as the operations on layouts make it: what is proved of each holds of
\* tensors from outside (ts_tensor_from_f32).
THEOREM CreationHasBothParts == CreationSpec => ShapeSpec /\ LayoutSpec
<1>1. CreationInit => ShapeInit /\ LayoutInit
  BY DEF CreationInit
<1>2. [CreationNext]_creation_vars => [ShapeNext]_shape_vars /\ [LayoutNext]_layout_vars
  <2>1. CASE Validate
    BY <2>1 DEF Validate
  <2>2. CASE Create
    BY <2>2 DEF Create, LayoutNext
  <2>3. CASE Use
    BY <2>3 DEF Use
  <2>4. CASE UNCHANGED creation_vars
    BY <2>4 DEF creation_vars
  <2>5. QED
    BY <2>1, <2>2, <2>3, <2>4 DEF CreationNext
<1>3. QED
  BY <1>1, <1>2, PTL DEF CreationSpec, ShapeSpec, LayoutSpec
=============================================================================
