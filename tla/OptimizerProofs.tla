------------------------------ MODULE OptimizerProofs ------------------------------
(***************************************************************************)
(* Proofs about Optimizer, for any parameters, optimizers and groups:      *)
(* freezing a parameter keeps every optimizer off it, no native optimizer  *)
(* is leaked or released twice, and a step applies each gradient once.     *)
(***************************************************************************)
EXTENDS Optimizer, FiniteSetTheorems, SequenceTheorems, WellFoundedInduction, TLAPS

\* The part of the state the steps of an optimizer read and write.
ParametersTyped ==
  /\ trainable \in [Parameter -> BOOLEAN]
  /\ gradient \in [Parameter -> BOOLEAN]
  /\ updates = [p \in Parameter |-> updates[p]]

\* What step() relies on in place of requires_grad: a frozen parameter has no
\* gradient, whichever of freezing, Backward and zero_grad came last.
GradientsAreTrainable == \A p \in Parameter : gradient[p] => trainable[p]

IInv == ParametersTyped /\ GradientsAreTrainable

LEMMA InitIInv == Init => IInv
<1> SUFFICES ASSUME Init PROVE IInv
  OBVIOUS
<1>1. ParametersTyped
  BY DEF Init, ParametersTyped, Zero
<1>2. GradientsAreTrainable
  BY DEF Init, GradientsAreTrainable
<1>3. QED
  BY <1>1, <1>2 DEF IInv

\* backward(), zeroGrad() and freezing: gradients appear only where they may.
LEMMA TrainingLoopKeepsIInv ==
  ASSUME IInv,
         \/ \E S \in SUBSET Parameter : Backward(S)
         \/ \E o \in Optimizer : ZeroGrad(o)
         \/ \E p \in Parameter, flag \in BOOLEAN : SetRequiresGrad(p, flag)
  PROVE  IInv' /\ UNCHANGED updates
<1> USE DEF IInv, ParametersTyped, GradientsAreTrainable
<1>1. ASSUME NEW S \in SUBSET Parameter, Backward(S)
      PROVE  IInv' /\ UNCHANGED updates
  BY <1>1 DEF Backward
<1>2. ASSUME NEW o \in Optimizer, ZeroGrad(o)
      PROVE  IInv' /\ UNCHANGED updates
  BY <1>2 DEF ZeroGrad
<1>3. ASSUME NEW p \in Parameter, NEW flag \in BOOLEAN, SetRequiresGrad(p, flag)
      PROVE  IInv' /\ UNCHANGED updates
  <2>1. GradientWhenSet(p, flag) \in BOOLEAN /\ (GradientWhenSet(p, flag) => flag)
    BY DEF GradientWhenSet
  <2>2. QED
    BY <1>3, <2>1 DEF SetRequiresGrad
<1>4. QED
  BY <1>1, <1>2, <1>3

\* The only step that changes the value of a parameter changes that of the
\* parameter the loop of CpuStep is at, which has a gradient.
LEMMA UpdateKeepsIInv ==
  ASSUME IInv, UpdateParameter
  PROVE  /\ IInv'
         /\ \A p \in Parameter : updates'[p] # updates[p] => trainable[p]
<1>1. /\ updates' = [updates EXCEPT ![This] = @ + 1]
      /\ gradient[This] /\ UNCHANGED <<trainable, gradient>>
  BY DEF UpdateParameter
<1>2. \A p \in Parameter : updates'[p] # updates[p] => p = This
  BY <1>1 DEF IInv, ParametersTyped
<1>3. QED
  BY <1>1, <1>2 DEF IInv, ParametersTyped, GradientsAreTrainable

\* Everything else leaves the parameters alone.
LEMMA OthersKeepParameters ==
  ASSUME \/ \E o \in Optimizer, gs \in Groups : Create(o, gs)
         \/ CreateNative \/ Created \/ CreateFails
         \/ \E o \in Optimizer : Dispose(o) \/ BeginStep(o)
         \/ SkipParameter \/ NextNative \/ StepFails \/ StepReturns
         \/ UNCHANGED vars
  PROVE  UNCHANGED <<trainable, gradient, updates>>
  BY DEF Create, CreateNative, Created, CreateFails, Dispose, BeginStep,
         SkipParameter, NextNative, StepFails, StepReturns, vars, parameters

LEMMA NextIInv ==
  ASSUME IInv, [Next]_vars
  PROVE  /\ IInv'
         /\ \A p \in Parameter : updates'[p] # updates[p] => trainable[p]
<1>1. CASE UpdateParameter
  BY <1>1, UpdateKeepsIInv
<1>2. CASE \/ \E S \in SUBSET Parameter : Backward(S)
           \/ \E o \in Optimizer : ZeroGrad(o)
           \/ \E p \in Parameter, flag \in BOOLEAN : SetRequiresGrad(p, flag)
  BY <1>2, TrainingLoopKeepsIInv
<1>3. CASE UNCHANGED <<trainable, gradient, updates>>
  BY <1>3 DEF IInv, ParametersTyped, GradientsAreTrainable
<1>4. QED
  BY <1>1, <1>2, <1>3, OthersKeepParameters DEF Next

\* The invariant holds of every behaviour of the optimizers.
THEOREM InvariantHolds == Spec => []IInv
<1>1. Init => IInv
  BY InitIInv
<1>2. IInv /\ [Next]_vars => IInv'
  BY NextIInv
<1>3. QED
  BY <1>1, <1>2, PTL DEF Spec

\* No optimizer ever moves a frozen parameter, though neither Optimizer.step nor
\* CpuStep looks at requires_grad (nn_v2_optimizer.h:341): what it relies on is
\* that SetCoreRequiresGrad drops the gradient of what it freezes.
THEOREM FrozenStaysPut == Spec => FrozenNeverMoves
<1>1. IInv /\ [Next]_vars =>
        [\A p \in Parameter : updates'[p] # updates[p] => trainable[p]]_vars
  BY NextIInv
<1>2. QED
  BY <1>1, InvariantHolds, PTL DEF Spec, FrozenNeverMoves

-----------------------------------------------------------------------------
(***************************************************************************)
(* The parameters a native optimizer is made with.                         *)
(***************************************************************************)

\* A set of numbers has a least one.
LEMMA LeastNumber ==
  ASSUME NEW T \in SUBSET Nat, T # {}
  PROVE  \E x \in T : \A y \in T : x <= y
<1> DEFINE R == OpToRel(<, Nat)
<1>1. IsWellFoundedOn(R, Nat)
  BY NatLessThanWellFounded
<1>2. PICK x \in T : \A y \in T : <<y, x>> \notin R
  BY <1>1, WFMin
<1>3. ASSUME NEW y \in T PROVE x <= y
  <2>1. <<y, x>> \notin R
    BY <1>2
  <2>2. ~(y < x)
    BY <2>1 DEF OpToRel
  <2>3. QED
    BY <2>2
<1>4. QED
  BY <1>3

\* Each parameter listed adds itself, if it is not frozen.
LEMMA KeptCounts ==
  ASSUME NEW group, NEW i \in Nat
  PROVE  /\ Kept(group, i) \in Nat
         /\ i = 0 => Kept(group, i) = 0
         /\ i # 0 => Kept(group, i) = IF trainable[group[i]] THEN Kept(group, i - 1) + 1
                                                           ELSE Kept(group, i - 1)
<1> DEFINE K(n) == {j \in 1 .. n : trainable[group[j]]}
<1>1. ASSUME NEW n \in Nat PROVE IsFiniteSet(K(n)) /\ Cardinality(K(n)) \in Nat
  <2>1. IsFiniteSet(1 .. n)
    BY FS_Interval
  <2>2. IsFiniteSet(K(n))
    BY <2>1, FS_Subset
  <2>3. QED
    BY <2>2, FS_CardinalityType
<1>2. CASE i = 0
  <2>1. K(i) = {}
    BY <1>2
  <2>2. QED
    BY <1>2, <2>1, FS_EmptySet DEF Kept
<1>3. CASE i # 0
  <2>1. i - 1 \in Nat
    BY <1>3
  <2>2. i \notin K(i - 1) /\ IsFiniteSet(K(i - 1)) /\ Cardinality(K(i - 1)) \in Nat
    BY <1>1, <2>1
  <2>3. CASE trainable[group[i]]
    <3>1. K(i) = K(i - 1) \cup {i}
      BY <1>3, <2>1, <2>3
    <3>2. Cardinality(K(i)) = Cardinality(K(i - 1)) + 1
      <4> HIDE DEF K
      <4>1. QED
        BY <2>2, <3>1, FS_AddElement
    <3>3. QED
      BY <1>3, <2>2, <2>3, <3>2 DEF Kept
  <2>4. CASE ~trainable[group[i]]
    <3>1. K(i) = K(i - 1)
      BY <1>3, <2>1, <2>4
    <3>2. QED
      BY <1>3, <2>2, <2>4, <3>1 DEF Kept
  <2>5. QED
    BY <2>3, <2>4
<1>4. QED
  BY <1>2, <1>3

\* There is a k-th trainable parameter for every k up to their number.
LEMMA KthTrainable ==
  ASSUME NEW group, NEW n \in Nat, NEW k \in 1 .. Kept(group, n)
  PROVE  \E i \in 1 .. n : trainable[group[i]] /\ Kept(group, i) = k
<1> DEFINE T == {i \in 0 .. n : Kept(group, i) >= k}
<1>1. Kept(group, n) \in Nat
  BY KeptCounts
<1>2. T \in SUBSET Nat /\ n \in T
  BY <1>1
<1>3. PICK i \in T : \A j \in T : i <= j
  <2> HIDE DEF T
  <2>1. T # {}
    BY <1>2
  <2>2. QED
    BY <1>2, <2>1, LeastNumber
<1>4. i \in 0 .. n /\ Kept(group, i) >= k
  OBVIOUS
<1>5. i # 0
  BY <1>1, <1>4, KeptCounts
<1>6. i - 1 \in 0 .. n /\ i - 1 \notin T
  BY <1>3, <1>4, <1>5
<1>7. Kept(group, i - 1) < k /\ Kept(group, i - 1) \in Nat
  BY <1>1, <1>6, KeptCounts
<1>8. Kept(group, i) \in Nat
      /\ Kept(group, i) = IF trainable[group[i]] THEN Kept(group, i - 1) + 1
                                                ELSE Kept(group, i - 1)
  BY <1>4, <1>5, KeptCounts
<1>9. trainable[group[i]] /\ Kept(group, i) = k
  BY <1>1, <1>4, <1>7, <1>8
<1>10. QED
  BY <1>4, <1>5, <1>9

\* The native optimizer of a group holds parameters of the group, and lists none
\* twice if the group does not.
LEMMA TrainableIs ==
  ASSUME NEW group \in Seq(Parameter)
  PROVE  /\ Trainable(group) \in Seq(Parameter)
         /\ Elements(Trainable(group)) \subseteq Elements(group)
         /\ NoDuplicates(group) => NoDuplicates(Trainable(group))
<1> DEFINE n == Len(group)
           t == Trainable(group)
           At(k) == CHOOSE i \in DOMAIN group : trainable[group[i]] /\ Kept(group, i) = k
<1>1. n \in Nat /\ DOMAIN group = 1 .. n /\ \A i \in 1 .. n : group[i] \in Parameter
  BY LenProperties, ElementOfSeq
<1>2. Kept(group, n) \in Nat
  BY <1>1, KeptCounts
<1>3. ASSUME NEW k \in 1 .. Kept(group, n)
      PROVE  At(k) \in 1 .. n /\ Kept(group, At(k)) = k
  <2>1. \E i \in DOMAIN group : trainable[group[i]] /\ Kept(group, i) = k
    BY <1>1, KthTrainable
  <2>2. QED
    BY <1>1, <2>1
<1>4. /\ DOMAIN t = 1 .. Kept(group, n)
      /\ \A k \in 1 .. Kept(group, n) : t[k] = group[At(k)]
  BY DEF Trainable
<1>5. t \in [1 .. Kept(group, n) -> Parameter]
  <2>1. t = [k \in 1 .. Kept(group, n) |-> group[At(k)]]
    BY DEF Trainable
  <2>2. \A k \in 1 .. Kept(group, n) : group[At(k)] \in Parameter
    BY <1>1, <1>3
  <2>3. QED
    BY <2>1, <2>2
<1> HIDE DEF t, At
<1>6. t \in Seq(Parameter)
  BY <1>2, <1>5, SeqDef
<1>7. Elements(t) \subseteq Elements(group)
  BY <1>1, <1>3, <1>4 DEF Elements
<1>8. ASSUME NoDuplicates(group) PROVE NoDuplicates(t)
  <2>1. ASSUME NEW j \in DOMAIN t, NEW k \in DOMAIN t, t[j] = t[k] PROVE j = k
    <3>1. group[At(j)] = group[At(k)] /\ At(j) \in DOMAIN group /\ At(k) \in DOMAIN group
      BY <1>1, <1>3, <1>4, <2>1
    <3>2. At(j) = At(k)
      BY <1>8, <3>1 DEF NoDuplicates
    <3>3. QED
      BY <1>3, <1>4, <3>2
  <2>2. QED
    BY <2>1 DEF NoDuplicates
<1>9. QED
  BY <1>6, <1>7, <1>8 DEF t

-----------------------------------------------------------------------------
(***************************************************************************)
(* The invariant of the native optimizers.                                 *)
(***************************************************************************)

\* Native optimizers alive: the g-th of o for each such pair.
Held(ns) == {x \in Optimizer \X (1 .. MaxGroups) : x[2] \in DOMAIN ns[x[1]]}

\* The native optimizers made so far for the groups gs: each holds some of the
\* parameters of its group, none of them twice.
MadeFor(ns, gs) ==
  /\ ns \in Seq(Seq(Parameter)) /\ Len(ns) <= Len(gs)
  /\ \A g \in DOMAIN ns : NoDuplicates(ns[g]) /\ Elements(ns[g]) \subseteq Elements(gs[g])

Owned == \A o \in Optimizer : MadeFor(natives[o], groups[o]) /\ Valid(groups[o])

Counted == IsFiniteSet(Held(natives)) /\ handles = Cardinality(Held(natives))

Phases ==
  /\ \A o \in Optimizer : status[o] \in {"none", "gone"} => natives[o] = <<>>
  /\ pc = "create" => status[current] = "creating"

Bookkeeping ==
  /\ natives = [o \in Optimizer |-> natives[o]]
  /\ Owned /\ Counted /\ Phases

NativesInv == TypeOK /\ Bookkeeping

\* Groups and the parameters in them are sequences.
LEMMA GroupsAre ==
  ASSUME NEW gs \in Groups \cup {<<>>}
  PROVE  /\ Len(gs) \in Nat /\ Len(gs) <= MaxGroups /\ DOMAIN gs = 1 .. Len(gs)
         /\ \A g \in 1 .. Len(gs) : gs[g] \in Seq(Parameter)
<1>1. CASE gs = <<>>
  BY <1>1, OptimizerAssumption
<1>2. CASE gs \in Groups
  <2>1. PICK n \in 1 .. MaxGroups : gs \in [1 .. n -> Group]
    BY <1>2 DEF Groups
  <2>2. \A s \in Group : s \in Seq(Parameter)
    <3>1. ASSUME NEW s \in Group PROVE s \in Seq(Parameter)
      <4>1. PICK m \in 1 .. MaxListed : s \in [1 .. m -> Parameter]
        BY DEF Group
      <4>2. m \in Nat
        BY OptimizerAssumption
      <4>3. QED
        BY <4>1, <4>2, SeqDef
    <3>2. QED
      BY <3>1
  <2>3. n \in Nat /\ n <= MaxGroups
    BY OptimizerAssumption
  <2>4. Len(gs) = n
    <3>1. gs \in Seq(Group)
      BY <2>1, <2>3, SeqDef
    <3>2. DOMAIN gs = 1 .. Len(gs) /\ Len(gs) \in Nat
      BY <3>1, LenProperties
    <3>3. DOMAIN gs = 1 .. n
      BY <2>1
    <3> DEFINE l == Len(gs)
    <3>4. l \in Nat /\ 1 .. l = 1 .. n
      BY <3>2, <3>3
    <3> HIDE DEF l
    <3>5. n \in 1 .. n /\ l + 1 \notin 1 .. l
      BY <2>3, <3>4
    <3>6. n \in 1 .. l /\ l + 1 \notin 1 .. n
      BY <3>4, <3>5
    <3>7. l = n
      BY <2>3, <3>4, <3>6
    <3>8. QED
      BY <3>7 DEF l
  <2>5. QED
    BY <2>1, <2>2, <2>3, <2>4
<1>3. QED
  BY <1>1, <1>2

\* What the invariant says of the native optimizers of one optimizer.
LEMMA NativesAre ==
  ASSUME NativesInv, NEW o \in Optimizer
  PROVE  /\ natives[o] \in Seq(Seq(Parameter))
         /\ Len(natives[o]) \in Nat /\ Len(natives[o]) <= Len(groups[o])
         /\ Len(groups[o]) <= MaxGroups /\ Len(groups[o]) \in Nat
         /\ DOMAIN natives[o] = 1 .. Len(natives[o])
         /\ MadeFor(natives[o], groups[o]) /\ Valid(groups[o])
         /\ groups[o] \in Groups \cup {<<>>}
         /\ \A g \in DOMAIN natives[o] :
              /\ natives[o][g] \in Seq(Parameter) /\ Len(natives[o][g]) \in Nat
              /\ DOMAIN natives[o][g] = 1 .. Len(natives[o][g])
<1>1. MadeFor(natives[o], groups[o]) /\ Valid(groups[o]) /\ groups[o] \in Groups \cup {<<>>}
  BY DEF NativesInv, Bookkeeping, Owned, TypeOK
<1>2. natives[o] \in Seq(Seq(Parameter)) /\ Len(natives[o]) <= Len(groups[o])
  BY <1>1 DEF MadeFor
<1>3. Len(natives[o]) \in Nat /\ DOMAIN natives[o] = 1 .. Len(natives[o])
  BY <1>2, LenProperties
<1>4. ASSUME NEW g \in DOMAIN natives[o]
      PROVE  /\ natives[o][g] \in Seq(Parameter) /\ Len(natives[o][g]) \in Nat
             /\ DOMAIN natives[o][g] = 1 .. Len(natives[o][g])
  <2>1. natives[o][g] \in Seq(Parameter)
    BY <1>2, <1>3, ElementOfSeq
  <2>2. QED
    BY <2>1, LenProperties
<1>5. Len(groups[o]) \in Nat /\ Len(groups[o]) <= MaxGroups
  BY <1>1, GroupsAre
<1>6. QED
  BY <1>1, <1>2, <1>3, <1>4, <1>5

-----------------------------------------------------------------------------
(***************************************************************************)
(* Steps that make and release native optimizers.                          *)
(***************************************************************************)

\* One more native optimizer, one more handle.
LEMMA OneMoreHeld ==
  ASSUME NEW ns, NEW o \in Optimizer,
         IsFiniteSet(Held(ns)),
         NEW l \in Nat, DOMAIN ns[o] = 1 .. l, l + 1 <= MaxGroups,
         NEW after, DOMAIN after[o] = 1 .. l + 1,
         \A q \in Optimizer \ {o} : after[q] = ns[q]
  PROVE  /\ IsFiniteSet(Held(after))
         /\ Cardinality(Held(after)) = Cardinality(Held(ns)) + 1
<1>1. Held(after) = Held(ns) \cup {<<o, l + 1>>}
  <2>1. ASSUME NEW x \in Optimizer \X (1 .. MaxGroups)
        PROVE  x \in Held(after) <=> x \in Held(ns) \/ x = <<o, l + 1>>
    <3>1. CASE x[1] = o
      <4>1. x[2] \in DOMAIN after[x[1]] <=> x[2] \in DOMAIN ns[x[1]] \/ x[2] = l + 1
        BY <3>1
      <4>2. x = <<o, l + 1>> <=> x[2] = l + 1
        BY <3>1
      <4>3. QED
        BY <4>1, <4>2 DEF Held
    <3>2. CASE x[1] # o
      BY <3>2 DEF Held
    <3>3. QED
      BY <3>1, <3>2
  <2>2. <<o, l + 1>> \in Optimizer \X (1 .. MaxGroups)
    BY OptimizerAssumption
  <2>3. Held(ns) \subseteq Optimizer \X (1 .. MaxGroups)
        /\ Held(after) \subseteq Optimizer \X (1 .. MaxGroups)
    BY DEF Held
  <2>4. QED
    BY <2>1, <2>2, <2>3
<1>2. <<o, l + 1>> \notin Held(ns)
  BY DEF Held
<1>3. ASSUME NEW S, NEW e, IsFiniteSet(S), e \notin S
      PROVE  IsFiniteSet(S \cup {e}) /\ Cardinality(S \cup {e}) = Cardinality(S) + 1
  BY <1>3, FS_AddElement
<1>4. /\ IsFiniteSet(Held(ns) \cup {<<o, l + 1>>})
      /\ Cardinality(Held(ns) \cup {<<o, l + 1>>}) = Cardinality(Held(ns)) + 1
  BY <1>2, <1>3
<1>5. QED
  BY <1>1, <1>4

\* All native optimizers of o are released, with as many handles.
LEMMA NoneHeld ==
  ASSUME NEW ns, NEW o \in Optimizer,
         IsFiniteSet(Held(ns)),
         NEW l \in Nat, DOMAIN ns[o] = 1 .. l, l <= MaxGroups,
         NEW after, DOMAIN after[o] = {},
         \A q \in Optimizer \ {o} : after[q] = ns[q]
  PROVE  /\ IsFiniteSet(Held(after))
         /\ Cardinality(Held(after)) = Cardinality(Held(ns)) - l
<1> DEFINE Own == {o} \X (1 .. l)
<1>1. Held(after) = Held(ns) \ Own
  <2>1. ASSUME NEW x \in Optimizer \X (1 .. MaxGroups)
        PROVE  x \in Held(after) <=> x \in Held(ns) /\ x \notin Own
    BY DEF Held
  <2>2. QED
    BY <2>1 DEF Held
<1>2. Own \subseteq Held(ns)
  BY OptimizerAssumption DEF Held
<1>3. IsFiniteSet({o}) /\ Cardinality({o}) = 1
  BY FS_Singleton
<1>4. IsFiniteSet(1 .. l) /\ Cardinality(1 .. l) = l
  BY FS_Interval
<1>5. Cardinality(Own) = l
  <2>1. ASSUME NEW A, NEW B, IsFiniteSet(A), IsFiniteSet(B)
        PROVE  Cardinality(A \X B) = Cardinality(A) * Cardinality(B)
    BY <2>1, FS_Product
  <2>2. Cardinality({o} \X (1 .. l)) = Cardinality({o}) * Cardinality(1 .. l)
    BY <1>3, <1>4, <2>1
  <2>3. Cardinality({o}) * Cardinality(1 .. l) = l
    BY <1>3, <1>4
  <2>4. QED
    BY <2>2, <2>3
<1>6. Held(ns) \cap Own = Own
  BY <1>2
<1> HIDE DEF Own
<1>7. IsFiniteSet(Held(ns) \ Own)
      /\ Cardinality(Held(ns) \ Own) = Cardinality(Held(ns)) - Cardinality(Held(ns) \cap Own)
  BY FS_Difference
<1>8. QED
  BY <1>1, <1>5, <1>6, <1>7

\* Making the native optimizer of the next group.
LEMMA AppendMade ==
  ASSUME NEW ns, NEW gs, MadeFor(ns, gs), Len(gs) \in Nat, Len(ns) < Len(gs),
         NEW t \in Seq(Parameter), NoDuplicates(t), Elements(t) \subseteq Elements(gs[Len(ns) + 1])
  PROVE  /\ MadeFor(Append(ns, t), gs)
         /\ DOMAIN Append(ns, t) = 1 .. Len(ns) + 1
<1>1. ns \in Seq(Seq(Parameter))
  BY DEF MadeFor
<1>2. Len(ns) \in Nat /\ DOMAIN ns = 1 .. Len(ns)
  BY <1>1, LenProperties
<1> DEFINE more == Append(ns, t)
<1>3. /\ more \in Seq(Seq(Parameter)) /\ Len(more) = Len(ns) + 1
      /\ \A i \in 1 .. Len(ns) : more[i] = ns[i]
      /\ more[Len(ns) + 1] = t
  BY <1>1, AppendProperties
<1> HIDE DEF more
<1>4. DOMAIN more = 1 .. Len(ns) + 1
  BY <1>3, LenProperties
<1>5. ASSUME NEW g \in DOMAIN more
      PROVE  NoDuplicates(more[g]) /\ Elements(more[g]) \subseteq Elements(gs[g])
  <2>1. CASE g = Len(ns) + 1
    BY <1>3, <2>1
  <2>2. CASE g # Len(ns) + 1
    <3>1. g \in DOMAIN ns /\ more[g] = ns[g]
      BY <1>2, <1>3, <1>4, <2>2
    <3>2. QED
      BY <3>1 DEF MadeFor
  <2>3. QED
    BY <2>1, <2>2
<1>6. Len(more) <= Len(gs)
  BY <1>2, <1>3
<1>7. MadeFor(more, gs)
  BY <1>3, <1>5, <1>6 DEF MadeFor
<1>8. QED
  BY <1>4, <1>7 DEF more

\* Before the first one is made.
LEMMA NothingMade ==
  ASSUME NEW gs \in Groups \cup {<<>>}
  PROVE  MadeFor(<<>>, gs)
<1>1. <<>> \in Seq(Seq(Parameter)) /\ Len(<<>>) = 0 /\ DOMAIN <<>> = {}
  BY EmptySeq
<1>2. Len(gs) \in Nat
  BY GroupsAre
<1>3. QED
  BY <1>1, <1>2 DEF MadeFor

\* The part of TypeOK that concerns the native optimizers follows from the rest.
Rest ==
  /\ trainable \in [Parameter -> BOOLEAN] /\ gradient \in [Parameter -> BOOLEAN]
  /\ updates \in [Parameter -> 0 .. MaxUpdates]
  /\ groups \in [Optimizer -> Groups \cup {<<>>}]
  /\ status \in [Optimizer -> {"none", "creating", "live", "gone"}]
  /\ pc \in {"idle", "create", "step"} /\ current \in Optimizer
  /\ at \in [group : Nat \ {0}, index : Nat \ {0}]
  /\ touched \in [Parameter -> Nat]
  /\ result \in {"none", "ok", "failed"}

\* Native optimizers that are sequences of sequences of parameters hold parameters.
LEMMA TypedByRest ==
  ASSUME NEW ns, \A o \in Optimizer : ns[o] \in Seq(Seq(Parameter))
  PROVE  \A o \in Optimizer : \A g \in DOMAIN ns[o] : ns[o][g] \in Seq(Parameter)
<1>1. ASSUME NEW o \in Optimizer, NEW g \in DOMAIN ns[o]
      PROVE  ns[o][g] \in Seq(Parameter)
  <2>1. DOMAIN ns[o] = 1 .. Len(ns[o])
    BY LenProperties
  <2>2. QED
    BY <1>1, <2>1, ElementOfSeq
<1>2. QED
  BY <1>1

LEMMA TypeFromRest ==
  ASSUME Rest', Owned', Counted'
  PROVE  TypeOK'
<1>1. \A o \in Optimizer : natives'[o] \in Seq(Seq(Parameter))
  BY DEF Owned, MadeFor
<1>2. \A o \in Optimizer : \A g \in DOMAIN natives'[o] : natives'[o][g] \in Seq(Parameter)
  BY <1>1, TypedByRest
<1>3. handles' \in Nat
  BY FS_CardinalityType DEF Counted
<1>4. QED
  BY <1>2, <1>3 DEF TypeOK, Rest

LEMMA InitNatives == Init => NativesInv
<1> SUFFICES ASSUME Init PROVE NativesInv
  OBVIOUS
<1>1. TypeOK
  <2>1. updates \in [Parameter -> 0 .. MaxUpdates] /\ touched \in [Parameter -> Nat]
    BY OptimizerAssumption DEF Init, Zero
  <2>2. \A o \in Optimizer : DOMAIN natives[o] = {}
    BY DEF Init
  <2>3. QED
    BY <2>1, <2>2 DEF Init, TypeOK
<1>2. natives = [o \in Optimizer |-> natives[o]]
  BY DEF Init
<1>3. Owned
  <2>1. ASSUME NEW o \in Optimizer PROVE MadeFor(natives[o], groups[o]) /\ Valid(groups[o])
    <3>1. natives[o] = <<>> /\ groups[o] = <<>>
      BY DEF Init
    <3>2. Valid(<<>>)
      BY DEF Valid
    <3>3. QED
      BY <3>1, <3>2, NothingMade
  <2>2. QED
    BY <2>1 DEF Owned
<1>4. Counted
  <2>1. Held(natives) = {}
    BY DEF Held, Init
  <2>2. QED
    BY <2>1, FS_EmptySet DEF Counted, Init
<1>5. Phases
  BY DEF Phases, Init
<1>6. QED
  BY <1>1, <1>2, <1>3, <1>4, <1>5 DEF NativesInv, Bookkeeping

LEMMA CreateKeeps ==
  ASSUME NativesInv, NEW o \in Optimizer, NEW gs \in Groups, Create(o, gs)
  PROVE  NativesInv'
<1>1. /\ groups' = [groups EXCEPT ![o] = gs] /\ UNCHANGED <<natives, handles>>
      /\ status' = [status EXCEPT ![o] = "creating"] /\ pc' = "create" /\ current' = o
      /\ UNCHANGED <<trainable, gradient, updates, at, touched, result>>
      /\ status[o] = "none" /\ Valid(gs)
  BY DEF Create, parameters
<1>2. Rest'
  BY <1>1 DEF NativesInv, TypeOK, Rest
<1>3. natives[o] = <<>>
  BY <1>1 DEF NativesInv, Bookkeeping, Phases
<1>4. Owned'
  <2>1. ASSUME NEW q \in Optimizer PROVE MadeFor(natives'[q], groups'[q]) /\ Valid(groups'[q])
    <3>1. CASE q = o
      <4>1. groups'[q] = gs /\ natives'[q] = <<>>
        BY <1>1, <1>3, <3>1 DEF NativesInv, TypeOK
      <4>2. QED
        BY <1>1, <4>1, NothingMade
    <3>2. CASE q # o
      BY <1>1, <3>2 DEF NativesInv, Bookkeeping, Owned, TypeOK
    <3>3. QED
      BY <3>1, <3>2
  <2>2. QED
    BY <2>1 DEF Owned
<1>5. Counted' /\ natives' = [q \in Optimizer |-> natives'[q]]
  BY <1>1 DEF NativesInv, Bookkeeping, Counted
<1>6. Phases'
  BY <1>1 DEF NativesInv, Bookkeeping, Phases, TypeOK
<1>7. TypeOK'
  BY <1>2, <1>4, <1>5, TypeFromRest
<1>8. QED
  BY <1>4, <1>5, <1>6, <1>7 DEF NativesInv, Bookkeeping

LEMMA CreateNativeKeeps ==
  ASSUME NativesInv, CreateNative
  PROVE  NativesInv'
<1>1. PICK o \in Optimizer : o = current
  BY DEF NativesInv, TypeOK
<1>2. PICK t : t = Trainable(NextGroup)
  OBVIOUS
<1>3. /\ natives' = [natives EXCEPT ![o] = Append(natives[o], t)]
      /\ handles' = handles + 1 /\ Len(natives[o]) < Len(groups[o]) /\ pc = "create"
      /\ UNCHANGED <<trainable, gradient, updates, groups, status, pc, current, at, touched, result>>
  BY <1>1, <1>2 DEF CreateNative, parameters, call
<1>4. /\ Len(natives[o]) \in Nat /\ Len(groups[o]) \in Nat /\ Len(groups[o]) <= MaxGroups
      /\ DOMAIN natives[o] = 1 .. Len(natives[o]) /\ DOMAIN natives = Optimizer
      /\ MadeFor(natives[o], groups[o]) /\ Valid(groups[o]) /\ groups[o] \in Groups \cup {<<>>}
  BY NativesAre DEF NativesInv, Bookkeeping
<1> DEFINE l == Len(natives[o])
           more == Append(natives[o], t)
<1>5. t \in Seq(Parameter) /\ NoDuplicates(t) /\ Elements(t) \subseteq Elements(groups[o][l + 1])
  <2>1. NextGroup = groups[o][l + 1]
    BY <1>1 DEF NextGroup
  <2>2. l + 1 \in 1 .. Len(groups[o])
    BY <1>3, <1>4
  <2>3. NextGroup \in Seq(Parameter)
    BY <1>4, <2>1, <2>2, GroupsAre
  <2>4. l + 1 \in DOMAIN groups[o]
    BY <1>4, <2>2, GroupsAre
  <2>5. NoDuplicates(NextGroup)
    BY <1>4, <2>1, <2>4 DEF Valid
  <2>6. QED
    BY <1>2, <2>1, <2>3, <2>5, TrainableIs
<1>6. MadeFor(more, groups[o]) /\ DOMAIN more = 1 .. l + 1
  BY <1>3, <1>4, <1>5, AppendMade
<1> HIDE DEF more
<1>7. Rest'
  BY <1>3 DEF NativesInv, TypeOK, Rest
<1>8. Owned'
  <2>1. ASSUME NEW q \in Optimizer PROVE MadeFor(natives'[q], groups'[q]) /\ Valid(groups'[q])
    <3>1. natives' = [natives EXCEPT ![o] = more]
      BY <1>3 DEF more
    <3>2. CASE q = o
      <4>1. natives'[q] = more /\ groups'[q] = groups[o]
        BY <1>3, <1>4, <3>1, <3>2
      <4>2. QED
        BY <1>4, <1>6, <4>1
    <3>3. CASE q # o
      <4>1. natives'[q] = natives[q] /\ groups'[q] = groups[q]
        BY <1>3, <1>4, <3>1, <3>3
      <4>2. QED
        BY <4>1, NativesAre
    <3>4. QED
      BY <3>2, <3>3
  <2>2. QED
    BY <2>1 DEF Owned
<1>9. Counted'
  <2>1. PICK after : after = natives'
    OBVIOUS
  <2>2. after[o] = more /\ \A q \in Optimizer \ {o} : after[q] = natives[q]
    BY <1>3, <1>4, <2>1 DEF more
  <2>3. IsFiniteSet(Held(natives)) /\ handles = Cardinality(Held(natives))
    BY DEF NativesInv, Bookkeeping, Counted
  <2>4. l + 1 <= MaxGroups /\ l \in Nat
    BY <1>3, <1>4, OptimizerAssumption
  <2>5. IsFiniteSet(Held(after)) /\ Cardinality(Held(after)) = Cardinality(Held(natives)) + 1
    <3> HIDE DEF l
    <3>1. DOMAIN natives[o] = 1 .. l
      BY <1>4 DEF l
    <3>2. QED
      BY <1>4, <1>6, <2>2, <2>3, <2>4, <3>1, OneMoreHeld
  <2>6. QED
    BY <1>3, <2>1, <2>3, <2>5 DEF Counted
<1>10. natives' = [q \in Optimizer |-> natives'[q]]
  BY <1>3, <1>4
<1>11. Phases'
  <2>1. status[o] = "creating"
    BY <1>1, <1>3 DEF NativesInv, Bookkeeping, Phases
  <2>2. \A q \in Optimizer : q # o => natives'[q] = natives[q]
    BY <1>3, <1>4
  <2>3. QED
    BY <1>3, <2>1, <2>2 DEF NativesInv, Bookkeeping, Phases
<1>12. TypeOK'
  BY <1>7, <1>8, <1>9, TypeFromRest
<1>13. QED
  BY <1>8, <1>9, <1>10, <1>11, <1>12 DEF NativesInv, Bookkeeping

\* A creation that fails and a disposal release the native optimizers of o.
LEMMA ReleaseKeeps ==
  ASSUME NativesInv, NEW o \in Optimizer,
         handles' = Disposed(o), natives' = [natives EXCEPT ![o] = <<>>],
         status' = [status EXCEPT ![o] = "gone"],
         \/ pc' = "idle"
         \/ pc' = pc /\ pc = "idle",
         UNCHANGED <<trainable, gradient, updates, groups, current, at, touched, result>>
  PROVE  NativesInv'
<1>1. /\ Len(natives[o]) \in Nat /\ Len(natives[o]) <= MaxGroups
      /\ DOMAIN natives[o] = 1 .. Len(natives[o]) /\ DOMAIN natives = Optimizer
  BY NativesAre, OptimizerAssumption DEF NativesInv, Bookkeeping
<1>2. Rest'
  BY DEF NativesInv, TypeOK, Rest
<1>3. Owned'
  <2>1. ASSUME NEW q \in Optimizer PROVE MadeFor(natives'[q], groups'[q]) /\ Valid(groups'[q])
    <3>1. CASE q = o
      <4>1. natives'[q] = <<>> /\ groups'[q] = groups[q]
        BY <1>1, <3>1
      <4>2. QED
        BY <4>1, NativesAre, NothingMade
    <3>2. CASE q # o
      <4>1. natives'[q] = natives[q] /\ groups'[q] = groups[q]
        BY <1>1, <3>2
      <4>2. QED
        BY <4>1, NativesAre
    <3>3. QED
      BY <3>1, <3>2
  <2>2. QED
    BY <2>1 DEF Owned
<1>4. Counted'
  <2>1. PICK after : after = natives'
    OBVIOUS
  <2>2. PICK l \in Nat : l = Len(natives[o])
    BY <1>1
  <2>3. IsFiniteSet(Held(natives)) /\ handles = Cardinality(Held(natives))
    BY DEF NativesInv, Bookkeeping, Counted
  <2>4. /\ DOMAIN natives[o] = 1 .. l /\ l <= MaxGroups /\ DOMAIN after[o] = {}
        /\ \A q \in Optimizer \ {o} : after[q] = natives[q]
    BY <1>1, <2>1, <2>2
  <2>5. IsFiniteSet(Held(after)) /\ Cardinality(Held(after)) = Cardinality(Held(natives)) - l
    BY <1>1, <2>3, <2>4, NoneHeld
  <2>6. handles' = handles - l
    BY <2>2 DEF Disposed
  <2>7. QED
    BY <2>1, <2>3, <2>5, <2>6 DEF Counted
<1>5. natives' = [q \in Optimizer |-> natives'[q]]
  BY <1>1
<1>6. Phases'
  <2>1. \A q \in Optimizer : natives'[q] = IF q = o THEN <<>> ELSE natives[q]
    BY <1>1
  <2>2. \A q \in Optimizer : status'[q] = IF q = o THEN "gone" ELSE status[q]
    BY DEF NativesInv, TypeOK
  <2>3. pc' = "idle"
    OBVIOUS
  <2>4. QED
    BY <2>1, <2>2, <2>3 DEF NativesInv, Bookkeeping, Phases
<1>7. TypeOK'
  BY <1>2, <1>3, <1>4, TypeFromRest
<1>8. QED
  BY <1>3, <1>4, <1>5, <1>6, <1>7 DEF NativesInv, Bookkeeping

\* Every other step leaves the native optimizers to their owners.
LEMMA OwnersKept ==
  ASSUME NativesInv, Rest', UNCHANGED <<groups, natives, handles>>,
         \/ UNCHANGED status /\ (pc' = "create" => pc = "create" /\ UNCHANGED current)
         \/ status' = [status EXCEPT ![current] = "live"] /\ pc' = "idle"
  PROVE  NativesInv'
<1>1. Owned' /\ Counted' /\ natives' = [q \in Optimizer |-> natives'[q]]
  BY DEF NativesInv, Bookkeeping, Owned, Counted
<1>2. Phases'
  BY DEF NativesInv, Bookkeeping, Phases, TypeOK
<1>3. TypeOK'
  BY <1>1, TypeFromRest
<1>4. QED
  BY <1>1, <1>2, <1>3 DEF NativesInv, Bookkeeping

LEMMA NativesRest == NativesInv => Rest
BY DEF NativesInv, TypeOK, Rest

\* The parameter a step is at.
LEMMA ThisIsParameter ==
  ASSUME NativesInv, AtParameter
  PROVE  /\ at.group \in Nat \ {0} /\ at.index \in Nat \ {0}
         /\ at.group \in DOMAIN natives[current]
         /\ at.index \in DOMAIN natives[current][at.group]
         /\ This \in Parameter
<1>1. current \in Optimizer /\ at.group \in Nat \ {0} /\ at.index \in Nat \ {0}
  BY DEF NativesInv, TypeOK
<1>2. at.group \in DOMAIN natives[current]
  BY <1>1, NativesAre DEF AtParameter, InGroup
<1>3. natives[current][at.group] \in Seq(Parameter)
  BY <1>1, <1>2, NativesAre
<1>4. at.index \in 1 .. Len(natives[current][at.group])
  BY <1>1, <1>3, LenProperties DEF AtParameter
<1>5. QED
  BY <1>1, <1>2, <1>3, <1>4, ElementOfSeq, LenProperties DEF This

LEMMA AdvanceTyped ==
  ASSUME at \in [group : Nat \ {0}, index : Nat \ {0}], Advance
  PROVE  at' \in [group : Nat \ {0}, index : Nat \ {0}]
<1>1. at.index + 1 \in Nat \ {0} /\ at.group \in Nat \ {0}
  OBVIOUS
<1>2. at' = [group |-> at.group, index |-> at.index + 1]
  BY DEF Advance
<1>3. QED
  BY <1>1, <1>2

\* The other steps of creation, the training loop and step().
LEMMA CallsKeep ==
  ASSUME NativesInv,
         \/ Created \/ SkipParameter \/ UpdateParameter \/ NextNative \/ StepFails \/ StepReturns
         \/ \E o \in Optimizer : ZeroGrad(o) \/ BeginStep(o)
         \/ \E S \in SUBSET Parameter : Backward(S)
         \/ \E p \in Parameter, flag \in BOOLEAN : SetRequiresGrad(p, flag)
         \/ UNCHANGED vars
  PROVE  NativesInv'
<1> USE NativesRest DEF Rest, optimizers, parameters, call
<1>1. CASE Created
  <2>1. Rest'
    BY <1>1 DEF Created
  <2>2. QED
    BY <1>1, <2>1, OwnersKept DEF Created
<1>2. CASE SkipParameter
  <2>1. Rest'
    BY <1>2, AdvanceTyped DEF SkipParameter, AfterSkip
  <2>2. QED
    BY <1>2, <2>1, OwnersKept DEF SkipParameter
<1>3. CASE UpdateParameter
  <2>1. This \in Parameter
    BY <1>3, ThisIsParameter DEF UpdateParameter
  <2>2. Rest'
    <3>1. updates' \in [Parameter -> 0 .. MaxUpdates]
      BY <1>3, <2>1, OptimizerAssumption DEF UpdateParameter
    <3>2. touched' \in [Parameter -> Nat]
      BY <1>3, <2>1 DEF UpdateParameter
    <3>3. at' \in [group : Nat \ {0}, index : Nat \ {0}]
      BY <1>3, AdvanceTyped DEF UpdateParameter
    <3>4. UNCHANGED <<trainable, gradient, groups, status, pc, current, result>>
      BY <1>3 DEF UpdateParameter
    <3>5. QED
      BY <3>1, <3>2, <3>3, <3>4
  <2>3. QED
    BY <1>3, <2>2, OwnersKept DEF UpdateParameter
<1>4. CASE NextNative
  <2>1. Rest'
    BY <1>4 DEF NextNative
  <2>2. QED
    BY <1>4, <2>1, OwnersKept DEF NextNative
<1>5. CASE StepFails
  <2>1. Rest'
    BY <1>5 DEF StepFails
  <2>2. QED
    BY <1>5, <2>1, OwnersKept DEF StepFails
<1>6. CASE StepReturns
  <2>1. Rest'
    BY <1>6 DEF StepReturns
  <2>2. QED
    BY <1>6, <2>1, OwnersKept DEF StepReturns
<1>7. ASSUME NEW o \in Optimizer, ZeroGrad(o) PROVE NativesInv'
  <2>1. Rest'
    BY <1>7 DEF ZeroGrad
  <2>2. QED
    BY <1>7, <2>1, OwnersKept DEF ZeroGrad
<1>8. ASSUME NEW o \in Optimizer, BeginStep(o) PROVE NativesInv'
  <2>1. Rest'
    BY <1>8 DEF BeginStep, Zero
  <2>2. QED
    BY <1>8, <2>1, OwnersKept DEF BeginStep
<1>9. ASSUME NEW S \in SUBSET Parameter, Backward(S) PROVE NativesInv'
  <2>1. Rest'
    BY <1>9 DEF Backward
  <2>2. QED
    BY <1>9, <2>1, OwnersKept DEF Backward
<1>10. ASSUME NEW p \in Parameter, NEW flag \in BOOLEAN, SetRequiresGrad(p, flag)
       PROVE  NativesInv'
  <2>1. Rest'
    BY <1>10 DEF SetRequiresGrad, GradientWhenSet
  <2>2. QED
    BY <1>10, <2>1, OwnersKept DEF SetRequiresGrad
<1>11. CASE UNCHANGED vars
  <2>1. Rest'
    BY <1>11 DEF vars
  <2>2. QED
    BY <1>11, <2>1, OwnersKept DEF vars
<1>12. QED
  BY <1>1, <1>2, <1>3, <1>4, <1>5, <1>6, <1>7, <1>8, <1>9, <1>10, <1>11

\* Every step keeps the invariant of the native optimizers.
LEMMA NextNatives == NativesInv /\ [Next]_vars => NativesInv'
<1> SUFFICES ASSUME NativesInv, [Next]_vars PROVE NativesInv'
  OBVIOUS
<1>1. ASSUME NEW o \in Optimizer, NEW gs \in Groups, Create(o, gs) PROVE NativesInv'
  BY <1>1, CreateKeeps
<1>2. CASE CreateNative
  BY <1>2, CreateNativeKeeps
<1>3. CASE CreateFails
  <2>1. PICK o \in Optimizer : o = current
    BY DEF NativesInv, TypeOK
  <2>2. handles' = Disposed(o)
    BY <1>3, <2>1 DEF CreateFails
  <2>3. QED
    BY <1>3, <2>1, <2>2, ReleaseKeeps DEF CreateFails, parameters
<1>4. ASSUME NEW o \in Optimizer, Dispose(o) PROVE NativesInv'
  BY <1>4, ReleaseKeeps DEF Dispose, parameters, call
<1>5. QED
  BY <1>1, <1>2, <1>3, <1>4, CallsKeep DEF Next

\* Whichever group fails to get its native optimizer, and in whatever order the
\* optimizers are disposed of, the native optimizers alive are those of the
\* optimizers that live: none is leaked, none is released twice
\* (native_parameter_optimizer.dart, Optimizer.dispose).
THEOREM NativesAccounted == Spec => []NativesBalanced
<1>1. NativesInv => NativesBalanced
  BY DEF NativesInv, Bookkeeping, Counted, Held, NativesBalanced
<1>2. QED
  BY <1>1, InitNatives, NextNatives, PTL DEF Spec

-----------------------------------------------------------------------------
(***************************************************************************)
(* step(): each parameter once.                                            *)
(***************************************************************************)

\* The step has passed the i-th parameter of the g-th native optimizer.
Before(a, g, i) == g < a.group \/ (g = a.group /\ i < a.index)

\* What was updated is what the step has passed and what has a gradient.
Passed(ns, a, tally, grads) ==
  /\ \A p \in Parameter : tally[p] = 1 =>
       \E g \in DOMAIN ns : \E i \in DOMAIN ns[g] : Before(a, g, i) /\ ns[g][i] = p
  /\ \A g \in DOMAIN ns : \A i \in DOMAIN ns[g] :
       Before(a, g, i) /\ grads[ns[g][i]] => tally[ns[g][i]] = 1

Once == \A p \in Parameter : touched[p] \in {0, 1}

StepInv == Once /\ (pc = "step" => Passed(natives[current], at, touched, gradient))

\* A parameter has one place among the native optimizers of an optimizer.
LEMMA OnePlace ==
  ASSUME NEW ns, NEW gs, MadeFor(ns, gs), Valid(gs), DOMAIN gs = 1 .. Len(gs), Len(gs) \in Nat,
         NEW g \in DOMAIN ns, NEW i \in DOMAIN ns[g],
         NEW h \in DOMAIN ns, NEW j \in DOMAIN ns[h],
         ns[g][i] = ns[h][j]
  PROVE  g = h /\ i = j
<1>1. ns \in Seq(Seq(Parameter)) /\ Len(ns) <= Len(gs)
  BY DEF MadeFor
<1>2. g \in DOMAIN gs /\ h \in DOMAIN gs
  <2>1. DOMAIN ns = 1 .. Len(ns) /\ Len(ns) \in Nat
    BY <1>1, LenProperties
  <2>2. QED
    BY <1>1, <2>1
<1>3. ns[g][i] \in Elements(gs[g]) /\ ns[g][i] \in Elements(gs[h])
  <2>1. ns[g][i] \in Elements(ns[g]) /\ ns[h][j] \in Elements(ns[h])
    BY DEF Elements
  <2>2. QED
    BY <2>1 DEF MadeFor
<1>4. g = h
  BY <1>2, <1>3 DEF Valid
<1>5. NoDuplicates(ns[g])
  BY DEF MadeFor
<1>6. QED
  BY <1>4, <1>5 DEF NoDuplicates

LEMMA StepAt ==
  ASSUME NativesInv
  PROVE  /\ at.group \in Nat \ {0} /\ at.index \in Nat \ {0} /\ current \in Optimizer
         /\ touched \in [Parameter -> Nat]
         /\ Len(natives[current]) \in Nat
         /\ DOMAIN natives[current] = 1 .. Len(natives[current])
         /\ \A g \in DOMAIN natives[current] :
              /\ DOMAIN natives[current][g] = 1 .. Len(natives[current][g])
              /\ Len(natives[current][g]) \in Nat
              /\ natives[current][g] \in Seq(Parameter)
<1>1. current \in Optimizer
  BY DEF NativesInv, TypeOK
<1>2. QED
  BY <1>1, NativesAre DEF NativesInv, TypeOK

\* The parameter the step is at was not updated by this step.
LEMMA NotYetTouched ==
  ASSUME NativesInv, StepInv, pc = "step", AtParameter
  PROVE  touched[This] = 0
<1>1. /\ This \in Parameter /\ at.group \in DOMAIN natives[current]
      /\ at.index \in DOMAIN natives[current][at.group]
      /\ at.group \in Nat /\ at.index \in Nat
  BY ThisIsParameter
<1>2. SUFFICES ASSUME touched[This] = 1 PROVE FALSE
  BY <1>1 DEF StepInv, Once
<1>3. PICK g \in DOMAIN natives[current] : \E i \in DOMAIN natives[current][g] :
        Before(at, g, i) /\ natives[current][g][i] = This
  BY <1>1, <1>2 DEF StepInv, Passed
<1> PICK i \in DOMAIN natives[current][g] :
        Before(at, g, i) /\ natives[current][g][i] = This
  BY <1>3
<1>4. current \in Optimizer
  BY StepAt
<1>5. /\ MadeFor(natives[current], groups[current]) /\ Valid(groups[current])
      /\ Len(groups[current]) \in Nat /\ groups[current] \in Groups \cup {<<>>}
  BY <1>4, NativesAre
<1>6. DOMAIN groups[current] = 1 .. Len(groups[current])
  BY <1>5, GroupsAre
<1>7. g = at.group /\ i = at.index
  <2>1. natives[current][g][i] = natives[current][at.group][at.index]
    BY <1>3 DEF This
  <2>2. QED
    BY <1>1, <1>3, <1>5, <1>6, <2>1, OnePlace
<1>8. QED
  BY <1>1, <1>3, <1>7 DEF Before

\* Passing one more parameter.
LEMMA PassOne ==
  ASSUME NEW ns, NEW a, NEW b, NEW tally, NEW more, NEW grads,
         Passed(ns, a, tally, grads),
         a.group \in Nat, a.index \in Nat,
         DOMAIN ns \subseteq Nat, \A g \in DOMAIN ns : DOMAIN ns[g] \subseteq Nat,
         a.group \in DOMAIN ns, a.index \in DOMAIN ns[a.group],
         b.group = a.group, b.index = a.index + 1,
         \A p \in Parameter : p # ns[a.group][a.index] => more[p] = tally[p],
         \A g \in DOMAIN ns : \A i \in DOMAIN ns[g] : ns[g][i] \in Parameter,
         grads[ns[a.group][a.index]] => more[ns[a.group][a.index]] = 1,
         ~grads[ns[a.group][a.index]] => more[ns[a.group][a.index]] = tally[ns[a.group][a.index]]
  PROVE  Passed(ns, b, more, grads)
<1> DEFINE this == ns[a.group][a.index]
<1>1. \A g \in DOMAIN ns : \A i \in DOMAIN ns[g] :
        Before(b, g, i) <=> Before(a, g, i) \/ (g = a.group /\ i = a.index)
  BY DEF Before
<1>2. ASSUME NEW p \in Parameter, more[p] = 1
      PROVE  \E g \in DOMAIN ns : \E i \in DOMAIN ns[g] : Before(b, g, i) /\ ns[g][i] = p
  <2>1. CASE p = this
    BY <1>1, <2>1
  <2>2. CASE p # this
    <3>1. \E g \in DOMAIN ns : \E i \in DOMAIN ns[g] : Before(a, g, i) /\ ns[g][i] = p
      BY <1>2, <2>2 DEF Passed
    <3>2. QED
      BY <1>1, <3>1
  <2>3. QED
    BY <2>1, <2>2
<1>3. ASSUME NEW g \in DOMAIN ns, NEW i \in DOMAIN ns[g], Before(b, g, i), grads[ns[g][i]]
      PROVE  more[ns[g][i]] = 1
  <2>1. CASE ns[g][i] = this
    BY <1>3, <2>1
  <2>2. CASE ns[g][i] # this
    <3>1. Before(a, g, i)
      BY <1>1, <1>3, <2>2
    <3>2. tally[ns[g][i]] = 1
      BY <1>3, <3>1 DEF Passed
    <3>3. QED
      BY <2>2, <3>2
  <2>3. QED
    BY <2>1, <2>2
<1>4. QED
  BY <1>2, <1>3 DEF Passed

\* The parameters of one native optimizer are all passed.
LEMMA PassGroup ==
  ASSUME NEW ns, NEW a, NEW b, NEW tally, NEW grads,
         Passed(ns, a, tally, grads),
         a.group \in Nat, a.index \in Nat, DOMAIN ns \subseteq Nat,
         \A g \in DOMAIN ns : DOMAIN ns[g] = 1 .. Len(ns[g]) /\ Len(ns[g]) \in Nat,
         a.group \in DOMAIN ns, a.index > Len(ns[a.group]),
         b.group = a.group + 1, b.index = 1
  PROVE  Passed(ns, b, tally, grads)
<1>1. \A g \in DOMAIN ns : \A i \in DOMAIN ns[g] : Before(b, g, i) <=> Before(a, g, i)
  BY DEF Before
<1>2. QED
  BY <1>1 DEF Passed

LEMMA UpdateKeepsStep ==
  ASSUME NativesInv, StepInv, UpdateParameter
  PROVE  StepInv'
<1>1. /\ This \in Parameter /\ at.group \in DOMAIN natives[current]
      /\ at.index \in DOMAIN natives[current][at.group]
  BY ThisIsParameter DEF UpdateParameter
<1>2. touched[This] = 0
  BY NotYetTouched DEF UpdateParameter
<1>3. /\ touched' = [touched EXCEPT ![This] = @ + 1] /\ pc = "step"
      /\ UNCHANGED <<natives, current, gradient>>
      /\ gradient[This]
  BY DEF UpdateParameter, optimizers
<1>4. touched \in [Parameter -> Nat]
  BY StepAt
<1>5. touched'[This] = 1 /\ \A p \in Parameter : p # This => touched'[p] = touched[p]
  BY <1>1, <1>2, <1>3, <1>4
<1>6. at'.group = at.group /\ at'.index = at.index + 1
  <2>1. at \in [group : Nat \ {0}, index : Nat \ {0}]
    BY DEF NativesInv, TypeOK
  <2>2. at' = [at EXCEPT !.index = @ + 1]
    BY DEF UpdateParameter, Advance
  <2>3. QED
    BY <2>1, <2>2
<1>7. Passed(natives[current], at', touched', gradient)
  <2>1. PICK ns, a, b, tally, more, grads :
          /\ ns = natives[current] /\ a = at /\ b = at'
          /\ tally = touched /\ more = touched' /\ grads = gradient
    OBVIOUS
  <2>2. Passed(ns, a, tally, grads)
    BY <1>3, <2>1 DEF StepInv
  <2>3. /\ a.group \in Nat /\ a.index \in Nat
        /\ DOMAIN ns \subseteq Nat /\ \A g \in DOMAIN ns : DOMAIN ns[g] \subseteq Nat
    BY <2>1, StepAt
  <2>4. \A g \in DOMAIN ns : \A i \in DOMAIN ns[g] : ns[g][i] \in Parameter
    BY <2>1, StepAt, ElementOfSeq
  <2>5. PICK this : this = This
    OBVIOUS
  <2>6. this = ns[a.group][a.index]
    BY <2>1, <2>5 DEF This
  <2>7. /\ a.group \in DOMAIN ns /\ a.index \in DOMAIN ns[a.group]
        /\ b.group = a.group /\ b.index = a.index + 1
        /\ grads[this] /\ more[this] = 1
        /\ \A p \in Parameter : p # this => more[p] = tally[p]
    BY <1>1, <1>3, <1>5, <1>6, <2>1, <2>5
  <2>8. Passed(ns, b, more, grads)
    BY <2>2, <2>3, <2>4, <2>6, <2>7, PassOne
  <2>9. QED
    BY <2>1, <2>8
<1>8. Once'
  BY <1>5 DEF StepInv, Once
<1>9. QED
  BY <1>3, <1>7, <1>8 DEF StepInv

LEMMA SkipKeepsStep ==
  ASSUME NativesInv, StepInv, SkipParameter
  PROVE  StepInv'
<1>1. /\ This \in Parameter /\ at.group \in DOMAIN natives[current]
      /\ at.index \in DOMAIN natives[current][at.group]
  BY ThisIsParameter DEF SkipParameter
<1>2. /\ pc = "step" /\ ~gradient[This]
      /\ UNCHANGED <<natives, current, gradient, touched>>
  BY DEF SkipParameter, optimizers, parameters
<1>3. at'.group = at.group /\ at'.index = at.index + 1
  <2>1. at \in [group : Nat \ {0}, index : Nat \ {0}]
    BY DEF NativesInv, TypeOK
  <2>2. at' = [at EXCEPT !.index = @ + 1]
    BY DEF SkipParameter, AfterSkip, Advance
  <2>3. QED
    BY <2>1, <2>2
<1>4. Passed(natives[current], at', touched, gradient)
  <2>1. PICK ns, a, b, tally, grads :
          /\ ns = natives[current] /\ a = at /\ b = at'
          /\ tally = touched /\ grads = gradient
    OBVIOUS
  <2>2. Passed(ns, a, tally, grads)
    BY <1>2, <2>1 DEF StepInv
  <2>3. /\ a.group \in Nat /\ a.index \in Nat
        /\ DOMAIN ns \subseteq Nat /\ \A g \in DOMAIN ns : DOMAIN ns[g] \subseteq Nat
    BY <2>1, StepAt
  <2>4. \A g \in DOMAIN ns : \A i \in DOMAIN ns[g] : ns[g][i] \in Parameter
    BY <2>1, StepAt, ElementOfSeq
  <2>5. QED
    BY <1>1, <1>2, <1>3, <2>1, <2>2, <2>3, <2>4, PassOne DEF This
<1>5. QED
  BY <1>2, <1>4 DEF StepInv, Once

LEMMA NextNativeKeepsStep ==
  ASSUME NativesInv, StepInv, NextNative
  PROVE  StepInv'
<1>1. /\ pc = "step" /\ InGroup /\ ~AtParameter
      /\ at' = [group |-> at.group + 1, index |-> 1]
      /\ UNCHANGED <<natives, current, gradient, touched>>
  BY DEF NextNative, optimizers, parameters
<1>2. at.group \in DOMAIN natives[current] /\ at.index > Len(natives[current][at.group])
  BY <1>1, StepAt DEF InGroup, AtParameter
<1>3. Passed(natives[current], at', touched, gradient)
  <2>1. PICK ns, a, b, tally, grads :
          /\ ns = natives[current] /\ a = at /\ b = at'
          /\ tally = touched /\ grads = gradient
    OBVIOUS
  <2>2. Passed(ns, a, tally, grads)
    BY <1>1, <2>1 DEF StepInv
  <2>3. /\ a.group \in Nat /\ a.index \in Nat /\ DOMAIN ns \subseteq Nat
        /\ \A g \in DOMAIN ns : DOMAIN ns[g] = 1 .. Len(ns[g]) /\ Len(ns[g]) \in Nat
    BY <2>1, StepAt
  <2>4. QED
    BY <1>1, <1>2, <2>1, <2>2, <2>3, PassGroup
<1>4. QED
  BY <1>1, <1>3 DEF StepInv, Once

LEMMA BeginKeepsStep ==
  ASSUME NativesInv, StepInv, NEW o \in Optimizer, BeginStep(o)
  PROVE  StepInv'
<1>1. /\ pc' = "step" /\ current' = o /\ at' = [group |-> 1, index |-> 1]
      /\ touched' = Zero /\ UNCHANGED <<gradient, natives>>
  BY DEF BeginStep, optimizers, parameters
<1>2. Once'
  BY <1>1 DEF Once, Zero
<1>3. \A g \in DOMAIN natives[o] : \A i \in DOMAIN natives[o][g] : ~Before(at', g, i)
  BY <1>1, NativesAre DEF Before
<1>4. Passed(natives[o], at', touched', gradient)
  BY <1>1, <1>3 DEF Passed, Zero
<1>5. QED
  BY <1>1, <1>2, <1>4 DEF StepInv

LEMMA NextStepInv == NativesInv /\ StepInv /\ [Next]_vars => StepInv'
<1> SUFFICES ASSUME NativesInv, StepInv, [Next]_vars PROVE StepInv'
  OBVIOUS
<1>1. CASE UpdateParameter
  BY <1>1, UpdateKeepsStep
<1>2. CASE SkipParameter
  BY <1>2, SkipKeepsStep
<1>3. CASE NextNative
  BY <1>3, NextNativeKeepsStep
<1>4. ASSUME NEW o \in Optimizer, BeginStep(o) PROVE StepInv'
  BY <1>4, BeginKeepsStep
<1>5. CASE pc' # "step" /\ UNCHANGED touched
  BY <1>5 DEF StepInv, Once
<1>6. CASE UNCHANGED vars
  BY <1>6 DEF StepInv, Once, vars, parameters, optimizers, call
<1>7. ASSUME NEW o \in Optimizer, Dispose(o) \/ ZeroGrad(o) PROVE pc' # "step" /\ UNCHANGED touched
  BY <1>7 DEF Dispose, ZeroGrad, call
<1>8. ASSUME NEW o \in Optimizer, NEW gs \in Groups, Create(o, gs) PROVE pc' # "step" /\ UNCHANGED touched
  BY <1>8 DEF Create
<1>9. ASSUME \/ CreateNative \/ Created \/ CreateFails \/ StepFails \/ StepReturns
             \/ \E S \in SUBSET Parameter : Backward(S)
             \/ \E p \in Parameter, flag \in BOOLEAN : SetRequiresGrad(p, flag)
      PROVE  pc' # "step" /\ UNCHANGED touched
  BY <1>9 DEF CreateNative, Created, CreateFails, StepFails, StepReturns, Backward,
              SetRequiresGrad, call
<1>10. QED
  BY <1>1, <1>2, <1>3, <1>4, <1>5, <1>6, <1>7, <1>8, <1>9 DEF Next

\* When the step returns it has passed everything.
LEMMA ReturnsAtTheEnd ==
  ASSUME NativesInv, StepInv, StepReturns,
         NEW p \in Managed(current), gradient[p]
  PROVE  touched[p] = 1
<1>1. PICK g \in DOMAIN natives[current] : p \in Elements(natives[current][g])
  BY DEF Managed
<1> PICK i \in DOMAIN natives[current][g] : natives[current][g][i] = p
  BY <1>1 DEF Elements
<1>2. Before(at, g, i)
  BY StepAt DEF Before, StepReturns, InGroup
<1>3. QED
  BY <1>1, <1>2 DEF StepInv, Passed, StepReturns

\* What AppliedOnce says of one step.
AppliesOnce ==
  /\ \A p \in Parameter : touched'[p] <= 1
  /\ pc = "step" /\ result' = "ok" /\ pc' = "idle" =>
       \A p \in Managed(current) : gradient[p] => touched[p] = 1

LEMMA StepApplies == NativesInv /\ StepInv /\ [Next]_vars => AppliesOnce
<1> SUFFICES ASSUME NativesInv, StepInv, [Next]_vars PROVE AppliesOnce
  OBVIOUS
<1>1. StepInv'
  BY NextStepInv
<1>2. \A p \in Parameter : touched'[p] <= 1
  BY <1>1 DEF StepInv, Once
<1>3. ASSUME pc = "step", result' = "ok", pc' = "idle" PROVE StepReturns
  BY <1>3 DEF Next, Create, CreateNative, Created, CreateFails, Dispose, ZeroGrad, BeginStep,
              Backward, SetRequiresGrad, SkipParameter, UpdateParameter, NextNative, StepFails,
              vars, call
<1>4. QED
  BY <1>2, <1>3, ReturnsAtTheEnd DEF AppliesOnce

\* A step updates a parameter at most once, through whatever groups and native
\* optimizers, and a step that returns normally has applied every gradient of the
\* parameters it manages (Optimizer.step, CpuStep).  The identity checks at
\* creation give each parameter one place; the step passes the places in order.
THEOREM GradientsAppliedOnce == Spec => AppliedOnce
<1>1. Init => StepInv
  BY DEF Init, StepInv, Once, Zero
<1>2. NativesInv /\ StepInv /\ [Next]_vars => [AppliesOnce]_vars
  BY StepApplies
<1>3. QED
  BY <1>1, <1>2, InitNatives, NextNatives, NextStepInv, PTL DEF Spec, AppliedOnce, AppliesOnce
====================================================================================
