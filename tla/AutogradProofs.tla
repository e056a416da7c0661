---------------------------- MODULE AutogradProofs ----------------------------
(***************************************************************************)
(* Safety of the tape for any number of threads, tensors and calls.        *)
(*                                                                         *)
(* The argument: a storage and a version counter are shared by the same    *)
(* tensors and advance together, so a version that is current means a      *)
(* value that is current; Backward starts only on a graph whose versions   *)
(* are all current, and nothing that runs beside it can change one.        *)
(*                                                                         *)
(* The second part proves what Backward promises of the gradients: it      *)
(* implements GradientLedger.                                              *)
(***************************************************************************)
EXTENDS Autograd, NaturalsInduction, WellFoundedInduction, FiniteSetTheorems,
        SequenceTheorems, TLAPS

\* The initial state satisfies the invariant.
LEMMA InitIInv == Init => IInv
<1> SUFFICES ASSUME Init PROVE IInv
  OBVIOUS
<1>1. FrameInv
  BY BoundsAssumption DEF Init, FrameInv, Zero, Tensor, Status
<1>2. OnlyBuilt
  BY DEF Init, OnlyBuilt, RequiresGrad, Zero
<1>3. GraphsCurrent /\ FrozenHoldsNoGradient
  BY DEF Init, GraphsCurrent, FrozenHoldsNoGradient, Zero
<1>4. QED
  BY <1>1, <1>2, <1>3 DEF Init, IInv

\* A result is left blank or attached to built operands, whose versions it
\* saves; no other tensor is touched.
Attached(x) ==
  /\ parents' \in [Tensor -> Seq(Tensor)]
  /\ DOMAIN saved' = Tensor /\ saved' = seen'
  /\ requires_grad' \in [Tensor -> BOOLEAN]
  /\ \A y \in Tensor \ {x} :
       /\ parents'[y] = parents[y] /\ saved'[y] = saved[y]
       /\ requires_grad'[y] = requires_grad[y]
  /\ \/ parents'[x] = <<>>
     \/ /\ requires_grad'[x]
        /\ \A i \in DOMAIN parents'[x] :
             /\ parents'[x][i] \in Built
             /\ saved'[x][i] = version[counter[parents'[x][i]]]

\* A forward operation builds the next tensor, and writes nothing.
ForwardOf(x) ==
  /\ x = built + 1 /\ built' = x
  /\ storage' \in [Tensor -> Tensor] /\ storage' = counter'
  /\ \A y \in Tensor \ {x} : counter'[y] = counter[y]
  /\ Attached(x)
  /\ UNCHANGED <<version, content, gradient, status, topology>>

\* What a forward operation does preserves the invariant: a tensor in a running
\* Backward's graph is either older than the new one, or saves its versions now.
LEMMA ForwardPreserves ==
  ASSUME IInv, NEW x \in Tensor, ForwardOf(x)
  PROVE  IInv'
<1> USE DEF IInv, Attached
<1>1. built \in Nat /\ x > built /\ x \notin Built /\ built' \in 0 .. MaxTensor
  BY BoundsAssumption DEF FrameInv, ForwardOf, Built, Tensor
<1>2. FrameInv'
  BY <1>1 DEF FrameInv, ForwardOf
<1>3. OnlyBuilt'
  <2> SUFFICES ASSUME NEW y \in Tensor
               PROVE  /\ y > built' => /\ parents'[y] = <<>>
                                       /\ ~requires_grad'[y] /\ gradient'[y] = 0
                      /\ \A i \in DOMAIN parents'[y] : parents'[y][i] <= built'
    BY DEF OnlyBuilt, RequiresGrad
  <2>1. CASE y = x
    BY <2>1, <1>1 DEF ForwardOf, Built
  <2>2. CASE y # x
    <3>1. parents'[y] = parents[y] /\ parents[y] \in Seq(Tensor)
      BY <2>2 DEF ForwardOf, FrameInv
    <3>2. \A i \in DOMAIN parents[y] : parents[y][i] \in Tensor
      BY <3>1
    <3>3. y \in Nat /\ built' = built + 1
      BY DEF Tensor, ForwardOf
    <3>4. QED
      BY <3>1, <3>2, <3>3, <1>1, <2>2
      DEF ForwardOf, OnlyBuilt, RequiresGrad, Tensor
  <2>3. QED
    BY <2>1, <2>2
<1>4. GraphsCurrent'
  <2> SUFFICES ASSUME NEW t \in Thread, status[t] = "running",
                      NEW y \in Tensor, y \in ToSet(topology[t]),
                      NEW i \in DOMAIN parents'[y]
               PROVE  version[counter'[parents'[y][i]]] = saved'[y][i]
    BY DEF GraphsCurrent, VersionsCurrent, ParentVersion, ForwardOf
  <2>1. CASE y = x
    <3>1. parents'[x][i] \in Built
          /\ saved'[x][i] = version[counter[parents'[x][i]]]
      BY <2>1 DEF ForwardOf
    <3>2. parents'[x][i] \in Tensor \ {x}
      BY <3>1, <1>1, BoundsAssumption DEF Built, Tensor, FrameInv
    <3>3. QED
      BY <2>1, <3>1, <3>2 DEF ForwardOf
  <2>2. CASE y # x
    <3>1. parents'[y] = parents[y] /\ saved'[y] = saved[y]
          /\ parents[y] \in Seq(Tensor)
      BY <2>2 DEF ForwardOf, FrameInv
    <3>2. parents[y][i] \in Tensor /\ parents[y][i] <= built
      BY <3>1 DEF OnlyBuilt
    <3>3. parents[y][i] \in Tensor \ {x}
      BY <3>2, <1>1 DEF Tensor
    <3>4. version[counter[parents[y][i]]] = saved[y][i]
      BY <3>1 DEF GraphsCurrent, VersionsCurrent, ParentVersion
    <3>5. counter'[parents[y][i]] = counter[parents[y][i]]
      BY <3>3 DEF ForwardOf
    <3>6. QED
      BY <3>1, <3>4, <3>5
  <2>3. QED
    BY <2>1, <2>2
<1>5. FrozenHoldsNoGradient'
  <2> SUFFICES ASSUME NEW y \in Tensor, gradient[y] # 0
               PROVE  requires_grad'[y] /\ parents'[y] = <<>>
    BY DEF FrozenHoldsNoGradient, RequiresGrad, IsLeaf, ForwardOf
  <2>1. y # x
    BY <1>1 DEF OnlyBuilt
  <2>2. requires_grad[y] /\ parents[y] = <<>>
    BY DEF FrozenHoldsNoGradient, RequiresGrad, IsLeaf
  <2>3. QED
    BY <2>1, <2>2 DEF ForwardOf
<1>6. storage' = counter' /\ version' = content' /\ saved' = seen'
  BY DEF ForwardOf
<1>7. QED
  BY <1>2, <1>3, <1>4, <1>5, <1>6

\* AttachNode records a node with its operands and their current versions, or
\* leaves the result blank.
LEMMA AttachNodeStep ==
  ASSUME IInv, NEW x \in Tensor, x > built, NEW operands \in Seq(Built),
         AttachNode(x, operands)
  PROVE  Attached(x)
<1> USE DEF IInv, Attached
<1>1. CASE UNCHANGED <<parents, saved, seen, requires_grad>>
  BY <1>1 DEF FrameInv, OnlyBuilt
<1>2. CASE /\ parents' = [parents EXCEPT ![x] = operands]
           /\ saved' = [saved EXCEPT ![x] = SavedVersions(operands)]
           /\ seen' = [seen EXCEPT ![x] =
                         [i \in DOMAIN operands |->
                            content[storage[operands[i]]]]]
           /\ requires_grad' = [requires_grad EXCEPT ![x] = TRUE]
  <2>1. operands \in Seq(Tensor)
    <3>1. Built \subseteq Tensor
      BY BoundsAssumption DEF FrameInv, Built, Tensor
    <3>2. QED
      BY <3>1
  <2>2. saved' = seen'
    BY <1>2 DEF SavedVersions
  <2>3. /\ parents'[x] = operands /\ saved'[x] = SavedVersions(operands)
        /\ requires_grad'[x]
    BY <1>2 DEF FrameInv
  <2>4. \A i \in DOMAIN operands :
          /\ operands[i] \in Built
          /\ SavedVersions(operands)[i] = version[counter[operands[i]]]
    BY DEF SavedVersions
  <2>5. /\ parents' \in [Tensor -> Seq(Tensor)]
        /\ DOMAIN saved' = Tensor
        /\ requires_grad' \in [Tensor -> BOOLEAN]
    BY <1>2, <2>1 DEF FrameInv
  <2>6. \A y \in Tensor \ {x} :
          /\ parents'[y] = parents[y] /\ saved'[y] = saved[y]
          /\ requires_grad'[y] = requires_grad[y]
    BY <1>2 DEF FrameInv
  <2>7. QED
    BY <2>2, <2>3, <2>4, <2>5, <2>6
<1>3. QED
  BY <1>1, <1>2 DEF AttachNode

\* Create, Compute and View are forward operations in the sense above.
LEMMA ForwardStep ==
  ASSUME IInv, Forward
  PROVE  IInv'
<1> USE DEF IInv
<1>1. ASSUME NEW requires \in BOOLEAN, Create(requires) PROVE IInv'
  <2>1. PICK x \in Tensor :
          /\ New(x)
          /\ requires_grad' = [requires_grad EXCEPT ![x] = requires]
          /\ UNCHANGED <<storage, counter, parents, saved, seen,
                         values, gradient, call>>
    BY <1>1 DEF Create
  <2>2. ForwardOf(x)
    <3>1. parents[x] = <<>>
      BY <2>1, BoundsAssumption DEF OnlyBuilt, New, FrameInv
    <3>2. /\ requires_grad' \in [Tensor -> BOOLEAN]
          /\ \A y \in Tensor \ {x} : requires_grad'[y] = requires_grad[y]
      BY <2>1 DEF FrameInv
    <3>3. QED
      BY <2>1, <3>1, <3>2 DEF ForwardOf, Attached, New, FrameInv, values, call
  <2>3. QED
    BY <2>2, ForwardPreserves
<1>2. ASSUME NEW operands \in Seq(Built), Compute(operands) PROVE IInv'
  <2>1. PICK x \in Tensor :
          /\ New(x) /\ AttachNode(x, operands)
          /\ UNCHANGED <<storage, counter, values, gradient, call>>
    BY <1>2 DEF Compute
  <2>2. x > built
    BY <2>1, BoundsAssumption DEF New, FrameInv
  <2>3. ForwardOf(x)
    BY <2>1, <2>2, AttachNodeStep DEF ForwardOf, New, FrameInv, values, call
  <2>4. QED
    BY <2>3, ForwardPreserves
<1>3. ASSUME NEW source \in Built, View(source) PROVE IInv'
  <2>1. PICK x \in Tensor :
          /\ New(x) /\ AttachNode(x, <<source>>)
          /\ storage' = [storage EXCEPT ![x] = storage[source]]
          /\ counter' = [counter EXCEPT ![x] = counter[source]]
          /\ UNCHANGED <<values, gradient, call>>
    BY <1>3 DEF View, ViewCounter
  <2>2. x > built /\ source \in Tensor
    BY <2>1, BoundsAssumption DEF New, FrameInv, Built, Tensor
  <2>3. /\ storage' = counter' /\ storage' \in [Tensor -> Tensor]
        /\ \A y \in Tensor \ {x} : counter'[y] = counter[y]
    BY <2>1, <2>2 DEF FrameInv
  <2>4. <<source>> \in Seq(Built)
    OBVIOUS
  <2>5. ForwardOf(x)
    <3>1. AttachNode(x, <<source>>) /\ x > built
      BY <2>1, <2>2
    <3>2. Attached(x)
      BY <3>1, <2>4, AttachNodeStep
    <3>3. QED
      BY <2>1, <2>3, <3>2 DEF ForwardOf, New, values, call
  <2>6. QED
    BY <2>5, ForwardPreserves
<1>4. \A x, y \in Built : <<x>> \in Seq(Built) /\ <<x, y>> \in Seq(Built)
  OBVIOUS
<1>5. QED
  BY <1>1, <1>2, <1>3, <1>4 DEF Forward

\* What a writing call leaves behind: nothing of the tape changes, versions and
\* contents advance together, and gradients are kept or dropped.
WriteOf ==
  /\ NoBackwardRunning
  /\ UNCHANGED <<graph, status, topology>>
  /\ version' = content'
  /\ requires_grad' \in [Tensor -> BOOLEAN]
  /\ DOMAIN gradient' = Tensor
  /\ \A x \in Tensor : gradient'[x] # 0 => gradient[x] # 0 /\ requires_grad'[x]
  /\ \A x \in Tensor : requires_grad'[x] => x <= built

\* No Backward is running beside a writer, so no graph can go stale under one.
LEMMA WritePreserves ==
  ASSUME IInv, WriteOf
  PROVE  IInv'
<1> USE DEF IInv, WriteOf, graph
<1>1. FrameInv'
  BY DEF FrameInv
<1>2. OnlyBuilt'
  <2>1. built \in Int /\ \A x \in Tensor : x \in Int
    BY DEF FrameInv, Tensor
  <2>2. \A x \in Tensor : x > built => ~requires_grad'[x] /\ gradient'[x] = 0
    BY <2>1
  <2>3. QED
    BY <2>2 DEF OnlyBuilt, RequiresGrad
<1>3. GraphsCurrent'
  BY DEF GraphsCurrent, NoBackwardRunning
<1>4. FrozenHoldsNoGradient'
  BY DEF FrozenHoldsNoGradient, RequiresGrad, IsLeaf
<1>5. QED
  BY <1>1, <1>2, <1>3, <1>4

\* Writing and counting read the same sharing, so they stay in step.
LEMMA WriteValuesInStep ==
  ASSUME IInv, NEW targets, WriteValues(targets)
  PROVE  version' = content'
BY DEF IInv, WriteValues, IncrementVersions

\* The writers are writes in the sense above.
LEMMA MutateStep ==
  ASSUME IInv, Mutate
  PROVE  IInv'
<1> USE DEF IInv
<1>0. /\ \A x \in Tensor : requires_grad[x] => x <= built
      /\ \A x \in Tensor : gradient[x] # 0 => requires_grad[x]
  BY DEF OnlyBuilt, FrozenHoldsNoGradient, RequiresGrad, FrameInv, Tensor
<1>1. ASSUME NEW targets, AssignMany(targets) PROVE IInv'
  <2>1. WriteOf
    BY <1>0, <1>1, WriteValuesInStep
    DEF WriteOf, AssignMany, BeginWrite, ClearGradients, FrameInv, call
  <2>2. QED
    BY <2>1, WritePreserves
<1>2. ASSUME NEW targets, OptimizerStep(targets) PROVE IInv'
  <2>1. WriteOf
    BY <1>0, <1>2, WriteValuesInStep
    DEF WriteOf, OptimizerStep, BeginWrite, FrameInv, leaves, call
  <2>2. QED
    BY <2>1, WritePreserves
<1>3. ASSUME NEW targets, ZeroGrad(targets) PROVE IInv'
  <2>1. WriteOf
    BY <1>0, <1>3
    DEF WriteOf, ZeroGrad, ClearGradients, FrameInv, values, call
  <2>2. QED
    BY <2>1, WritePreserves
<1>4. ASSUME NEW x \in Built, NEW requires \in BOOLEAN,
             SetRequiresGrad(x, requires)
      PROVE  IInv'
  <2>1. x \in Tensor /\ x <= built
    BY BoundsAssumption DEF FrameInv, Built, Tensor
  <2>2. /\ requires_grad' = [requires_grad EXCEPT ![x] = requires]
        /\ requires_grad' \in [Tensor -> BOOLEAN]
    BY <1>4 DEF SetRequiresGrad, FrameInv
  <2>3. \A y \in Tensor : requires_grad'[y] => y <= built
    BY <2>1, <2>2, <1>0 DEF FrameInv
  <2>4. /\ DOMAIN gradient' = Tensor
        /\ \A y \in Tensor : gradient'[y] # 0 =>
             gradient[y] # 0 /\ requires_grad'[y]
    <3>1. CASE requires /\ gradient' = gradient
      BY <3>1, <2>2, <1>0 DEF FrameInv
    <3>2. CASE ~requires /\ gradient' = [gradient EXCEPT ![x] = 0]
      BY <3>2, <2>2, <1>0 DEF FrameInv
    <3>3. QED
      BY <3>1, <3>2, <1>4 DEF SetRequiresGrad, GradientWhenSet
  <2>5. WriteOf
    BY <1>4, <2>2, <2>3, <2>4 DEF WriteOf, SetRequiresGrad, values, call
  <2>6. QED
    BY <2>5, WritePreserves
<1>5. QED
  BY <1>1, <1>2, <1>3, <1>4 DEF Mutate

\* Backward itself writes no value and builds no tensor: it enters a graph that
\* is current, and leaves gradients only where they may be.
LEMMA BackwardStep ==
  ASSUME IInv, NEW t \in Thread, Backward(t)
  PROVE  IInv'
<1> USE DEF IInv
<1>1. UNCHANGED <<graph, values, requires_grad>>
  BY DEF Backward, BeginBackward, Visit, BackwardFails, BackwardReturns, leaves
<1> USE <1>1 DEF graph, values
<1>2. ASSUME NEW root \in Tensor, BeginBackward(t, root) PROVE IInv'
  <2>1. gradient' = gradient
    BY <1>2 DEF BeginBackward, leaves
  <2>2. \/ /\ status' = [status EXCEPT ![t] = "running"]
           /\ topology' = [topology EXCEPT ![t] = BuildTopology(root)]
           /\ \A x \in ToSet(BuildTopology(root)) : VersionsCurrent(x)
        \/ /\ status' = [status EXCEPT ![t] = "failed"]
           /\ topology' = topology
    BY <1>2 DEF BeginBackward, Validated
  <2>3. FrameInv' /\ OnlyBuilt' /\ FrozenHoldsNoGradient'
    BY <2>1, <2>2
    DEF FrameInv, OnlyBuilt, FrozenHoldsNoGradient, RequiresGrad, IsLeaf, Status
  <2>4. GraphsCurrent'
    <3>1. \A x : VersionsCurrent(x)' <=> VersionsCurrent(x)
      BY DEF VersionsCurrent, ParentVersion
    <3>2. ASSUME NEW u \in Thread, status'[u] = "running"
          PROVE  \A x \in ToSet(topology'[u]) \cap Tensor : VersionsCurrent(x)
      BY <2>2, <3>2 DEF GraphsCurrent, FrameInv
    <3>3. QED
      BY <3>1, <3>2 DEF GraphsCurrent
  <2>5. QED
    BY <2>3, <2>4
<1>3. ASSUME Visit(t) PROVE IInv'
  <2>1. /\ UNCHANGED <<status, topology>>
        /\ \/ gradient' = gradient
           \/ \E x : /\ IsLeaf(x) /\ RequiresGrad(x)
                    /\ gradient' = [gradient EXCEPT ![x] = @ + partial[t][x]]
    BY <1>3 DEF Visit
  <2>2. DOMAIN gradient' = Tensor
    BY <2>1 DEF FrameInv
  <2>3. FrozenHoldsNoGradient'
    BY <2>1 DEF FrozenHoldsNoGradient, RequiresGrad, IsLeaf, FrameInv
  <2>4. OnlyBuilt'
    BY <2>1 DEF OnlyBuilt, RequiresGrad, FrameInv
  <2>5. FrameInv' /\ GraphsCurrent'
    BY <2>1, <2>2
    DEF FrameInv, GraphsCurrent, VersionsCurrent, ParentVersion
  <2>6. QED
    BY <2>3, <2>4, <2>5
<1>4. ASSUME NEW outcome \in {"ok", "failed"}, Return(t, outcome),
             UNCHANGED leaves
      PROVE  IInv'
  <2>1. FrameInv'
    BY <1>4 DEF FrameInv, Return, Status, leaves
  <2>2. \A u \in Thread : status'[u] = "running" =>
          status[u] = "running" /\ topology'[u] = topology[u]
    BY <1>4 DEF FrameInv, Return
  <2>3. GraphsCurrent'
    BY <2>2 DEF GraphsCurrent, VersionsCurrent, ParentVersion
  <2>4. OnlyBuilt' /\ FrozenHoldsNoGradient'
    BY <1>4
    DEF OnlyBuilt, FrozenHoldsNoGradient, RequiresGrad, IsLeaf, leaves
  <2>5. QED
    BY <2>1, <2>3, <2>4
<1>5. QED
  BY <1>2, <1>3, <1>4 DEF Backward, BackwardFails, BackwardReturns

\* The invariant holds in every reachable state.
THEOREM Invariance == Spec => []IInv
<1>1. Init => IInv
  BY InitIInv
<1>2. IInv /\ [Next]_vars => IInv'
  <2> SUFFICES ASSUME IInv, [Next]_vars PROVE IInv'
    OBVIOUS
  <2>1. CASE UNCHANGED vars
    BY <2>1
    DEF vars, graph, values, leaves, call, IInv, FrameInv, OnlyBuilt,
        GraphsCurrent, FrozenHoldsNoGradient, RequiresGrad, IsLeaf,
        VersionsCurrent, ParentVersion
  <2>2. QED
    BY <2>1, ForwardStep, MutateStep, BackwardStep DEF Next
<1>3. QED
  BY <1>1, <1>2, PTL DEF Spec

\* However tensors are aliased and whichever alias is written, the version a
\* tensor reports counts the writes of its storage (MakeView, IncrementVersion).
THEOREM VersionsAlwaysTrackContent == Spec => []VersionsTrackContent
<1>1. IInv => VersionsTrackContent
  BY DEF IInv, VersionsTrackContent
<1>2. QED
  BY <1>1, Invariance, PTL

\* A Backward never computes with an operand written since the forward pass:
\* what the validation loop compares is enough to exclude it.
THEOREM SavedValuesStayIntact == Spec => []SavedValuesIntact
<1>1. IInv => SavedValuesIntact
  BY DEF IInv, SavedValuesIntact, GraphsCurrent, VersionsCurrent,
         ParentVersion, ParentContent
<1>2. QED
  BY <1>1, Invariance, PTL

\* No sequence of calls leaves a gradient on a frozen tensor or on a result.
THEOREM FrozenNeverHoldsGradient == Spec => []FrozenHoldsNoGradient
<1>1. IInv => FrozenHoldsNoGradient
  BY DEF IInv
<1>2. QED
  BY <1>1, Invariance, PTL

-----------------------------------------------------------------------------
(***************************************************************************)
(* What Backward promises its callers: every leaf is paid exactly one      *)
(* gradient per path of the graph (GradientLedger).                        *)
(*                                                                         *)
(* The argument: BuildTopology lists the ancestors of the root, each once  *)
(* and after all of its operands, whatever they share; the main loop walks *)
(* that list from the end, and between two visits the gradients of the     *)
(* tensors still to be visited, each weighted with its number of paths to  *)
(* a tensor x, add up to the number of paths from the root to x.  When x   *)
(* itself is visited, no other tensor still to be visited leads to it, so  *)
(* that what it has received is all of its gradient: a leaf is paid once,  *)
(* and in full.                                                            *)
(*                                                                         *)
(* Induction, over tensors in the order they were built.                   *)
(***************************************************************************)

\* Every nonempty set of numbers has a least one.
LEMMA LeastElement ==
  ASSUME NEW T, T \subseteq Nat, T # {}
  PROVE  \E n \in T : \A m \in T : n <= m
<1>1. \E n \in T : \A m \in T : ~(<<m, n>> \in OpToRel(<, Nat))
  BY NatLessThanWellFounded, WFMin, Zenon
<1>2. \E n \in T : \A m \in T : ~(m < n)
  BY <1>1, Zenon DEF OpToRel
<1>3. QED
  BY <1>2

\* Induction over the tensors, in the order they were built.
LEMMA TensorInduction ==
  ASSUME NEW T,
         \A x \in Tensor : (\A y \in Tensor : y < x => y \in T) => x \in T
  PROVE  \A x \in Tensor : x \in T
<1> SUFFICES ASSUME Tensor \ T # {} PROVE FALSE
  OBVIOUS
<1>1. PICK x \in Tensor \ T : \A y \in Tensor \ T : x <= y
  <2>1. Tensor \ T \subseteq Nat
    BY DEF Tensor
  <2>2. QED
    BY <2>1, LeastElement
<1>2. \A y \in Tensor : y < x => y \in T
  BY <1>1 DEF Tensor
<1>3. QED
  BY <1>1, <1>2

\* Induction over a count of them.
LEMMA CountInduction ==
  ASSUME NEW T, 0 \in T, \A n \in Tensor : n - 1 \in T => n \in T
  PROVE  MaxTensor \in T
<1>1. MaxTensor \in Nat
  BY BoundsAssumption
<1>2. \A n \in Tensor : n \in T
  <2>1. ASSUME NEW n \in Tensor, \A m \in Tensor : m < n => m \in T
        PROVE  n \in T
    <3>1. n - 1 \in T
      <4>1. n - 1 = 0 \/ (n - 1 \in Tensor /\ n - 1 < n)
        BY <1>1 DEF Tensor
      <4>2. QED
        BY <4>1, <2>1
    <3>2. QED
      BY <3>1
  <2>2. QED
    BY <2>1, TensorInduction
<1>3. QED
  BY <1>1, <1>2 DEF Tensor

\* SequencesExt folds a list by taking away the last position left.
Maxima == \A u \in SUBSET {1, 2} :
            u # {} => Max(u) = IF 2 \in u THEN 2 ELSE 1

\* The largest position of a list with at most two.
LEMMA MaxOfTwo == Maxima
<1>1. ASSUME NEW u \in SUBSET {1, 2}, 2 \in u PROVE Max(u) = 2
  <2>1. \E m \in u : \A n \in u : m >= n
    BY <1>1
  <2>2. Max(u) \in u /\ \A n \in u : Max(u) >= n
    BY <2>1, Zenon DEF Max
  <2>3. PICK k \in {1, 2} : k = Max(u) /\ k >= 2
    BY <1>1, <2>2
  <2>4. QED
    BY <2>3
<1>2. ASSUME NEW u \in SUBSET {1, 2}, u # {}, 2 \notin u PROVE Max(u) = 1
  <2>1. u = {1}
    BY <1>2
  <2>2. QED
    BY <2>1 DEF Max
<1>3. QED
  BY <1>1, <1>2 DEF Maxima

\* What the loop of BuildTopology over the parents s makes of the list found.
Through(visit, found, s) ==
  FoldLeft(LAMBDA acc, p : visit[p][acc], found, s)

ThroughStep(visit, found, s, iter) ==
  [u \in SUBSET (DOMAIN s) |->
     IF u = {} THEN found ELSE visit[s[Max(u)]][iter[u \ {Max(u)}]]]

\* The loop over the operands is a fold, the fold a recursive function.
LEMMA ThroughUnfolds ==
  ASSUME NEW visit, NEW found, NEW s
  PROVE  Through(visit, found, s)
           = (CHOOSE iter : iter = ThroughStep(visit, found, s, iter))[DOMAIN s]
BY Zenon DEF Through, ThroughStep, FoldLeft, MapThenFoldSet

\* The loop, written out for no, one and two operands.
LEMMA ThroughIs ==
  ASSUME NEW visit, NEW found, NEW s, DOMAIN s \in {{}, {1}, {1, 2}}
  PROVE  Through(visit, found, s) =
           IF DOMAIN s = {} THEN found
           ELSE IF DOMAIN s = {1} THEN visit[s[1]][found]
           ELSE visit[s[2]][visit[s[1]][found]]
<1> DEFINE it == [u \in SUBSET (DOMAIN s) |->
                    IF u = {} THEN found
                    ELSE IF 2 \notin u THEN visit[s[1]][found]
                    ELSE IF 1 \notin u THEN visit[s[2]][found]
                    ELSE visit[s[2]][visit[s[1]][found]]]
<1>1. it = ThroughStep(visit, found, s, it)
  <2>1. ASSUME NEW u \in SUBSET (DOMAIN s), u # {}
        PROVE  it[u] = visit[s[Max(u)]][it[u \ {Max(u)}]]
    <3>1. u \in SUBSET {1, 2} /\ u \ {Max(u)} \in SUBSET (DOMAIN s)
      OBVIOUS
    <3>2. CASE 2 \notin u
      <4>1. Max(u) = 1 /\ u = {1} /\ u \ {Max(u)} = {}
        BY <2>1, <3>1, <3>2, MaxOfTwo DEF Maxima
      <4>2. it[{}] = found /\ it[u] = visit[s[1]][found]
        BY <3>1, <3>2, <2>1
      <4>3. QED
        BY <4>1, <4>2
    <3>3. CASE 2 \in u
      <4>1. Max(u) = 2 /\ u \ {Max(u)} = u \ {2} /\ (u \ {2} = {} \/ u \ {2} = {1})
        BY <2>1, <3>1, <3>3, MaxOfTwo DEF Maxima
      <4>2. CASE 1 \in u
        <5>1. u \ {2} = {1} /\ {1} \in SUBSET (DOMAIN s)
          BY <4>1, <4>2, <3>1
        <5>2. it[{1}] = visit[s[1]][found]
          BY <5>1
        <5>3. it[u] = visit[s[2]][visit[s[1]][found]]
          BY <3>3, <4>2
        <5>4. QED
          BY <4>1, <5>1, <5>2, <5>3
      <4>3. CASE 1 \notin u
        <5>1. u \ {2} = {}
          BY <4>1, <4>3
        <5>2. it[{}] = found /\ it[u] = visit[s[2]][found]
          BY <3>3, <4>3
        <5>3. QED
          BY <4>1, <5>1, <5>2
      <4>4. QED
        BY <4>2, <4>3
    <3>4. QED
      BY <3>2, <3>3
  <2>2. it[{}] = found
    OBVIOUS
  <2> HIDE DEF it
  <2>3. DOMAIN it = SUBSET (DOMAIN s) /\ it = [u \in SUBSET (DOMAIN s) |-> it[u]]
    BY DEF it
  <2>4. QED
    BY <2>1, <2>2, <2>3 DEF ThroughStep
<1> HIDE DEF it
<1>2. PICK iter : /\ iter = ThroughStep(visit, found, s, iter)
                  /\ Through(visit, found, s) = iter[DOMAIN s]
  BY <1>1, ThroughUnfolds, Zenon
<1>3. \A u \in SUBSET (DOMAIN s) :
        iter[u] = IF u = {} THEN found ELSE visit[s[Max(u)]][iter[u \ {Max(u)}]]
  BY <1>2 DEF ThroughStep
<1>4. iter[{}] = found
  BY <1>3
<1>5. CASE DOMAIN s = {1}
  <2>1. Max({1}) = 1 /\ {1} \ {1} = {}
    BY MaxOfTwo DEF Maxima
  <2>2. iter[{1}] = visit[s[1]][iter[{}]]
    BY <1>3, <1>5, <2>1
  <2>3. QED
    BY <1>2, <1>4, <1>5, <2>2
<1>6. CASE DOMAIN s = {1, 2}
  <2>1. /\ Max({1}) = 1 /\ {1} \ {1} = {}
        /\ Max({1, 2}) = 2 /\ {1, 2} \ {2} = {1} /\ 2 \notin {1} /\ {1, 2} # {1}
    BY MaxOfTwo DEF Maxima
  <2>2. iter[{1}] = visit[s[1]][iter[{}]]
    BY <1>3, <1>6, <2>1
  <2>3. iter[{1, 2}] = visit[s[2]][iter[{1}]]
    BY <1>3, <1>6, <2>1
  <2>4. {1, 2} # {}
    OBVIOUS
  <2>5. QED
    BY <1>2, <1>4, <1>6, <2>1, <2>2, <2>3, <2>4
<1>7. QED
  BY <1>2, <1>4, <1>5, <1>6

-----------------------------------------------------------------------------
(***************************************************************************)
(* The folds of lists with at most two entries, and BuildTopology, whose   *)
(* recursion is well founded because operands are older than results.      *)
(***************************************************************************)

SumStep(s, iter) ==
  [u \in SUBSET (DOMAIN s) |->
     IF u = {} THEN 0 ELSE iter[u \ {Max(u)}] + s[Max(u)]]

\* A sum is a fold as well.
LEMMA SumUnfolds ==
  ASSUME NEW s
  PROVE  SumSeq(s)
           = (CHOOSE iter : iter = SumStep(s, iter))[DOMAIN s]
BY Zenon DEF SumSeq, SumStep, FoldLeft, MapThenFoldSet

\* The sum of no, one and two numbers.
LEMMA SumIs ==
  ASSUME NEW s, DOMAIN s \in {{}, {1}, {1, 2}}
  PROVE  SumSeq(s) =
           IF DOMAIN s = {} THEN 0
           ELSE IF DOMAIN s = {1} THEN 0 + s[1]
           ELSE (0 + s[1]) + s[2]
<1> DEFINE it == [u \in SUBSET (DOMAIN s) |->
                    IF u = {} THEN 0
                    ELSE IF 2 \notin u THEN 0 + s[1]
                    ELSE IF 1 \notin u THEN 0 + s[2]
                    ELSE (0 + s[1]) + s[2]]
<1>1. it = SumStep(s, it)
  <2>1. ASSUME NEW u \in SUBSET (DOMAIN s), u # {}
        PROVE  it[u] = it[u \ {Max(u)}] + s[Max(u)]
    <3>1. u \in SUBSET {1, 2} /\ u \ {Max(u)} \in SUBSET (DOMAIN s)
      OBVIOUS
    <3>2. CASE 2 \notin u
      <4>1. Max(u) = 1 /\ u = {1} /\ u \ {Max(u)} = {}
        BY <2>1, <3>1, <3>2, MaxOfTwo DEF Maxima
      <4>2. it[{}] = 0 /\ it[u] = 0 + s[1]
        BY <3>1, <3>2, <2>1
      <4>3. QED
        BY <4>1, <4>2
    <3>3. CASE 2 \in u
      <4>1. Max(u) = 2 /\ u \ {Max(u)} = u \ {2} /\ (u \ {2} = {} \/ u \ {2} = {1})
        BY <2>1, <3>1, <3>3, MaxOfTwo DEF Maxima
      <4>2. CASE 1 \in u
        <5>1. u \ {2} = {1} /\ {1} \in SUBSET (DOMAIN s)
          BY <4>1, <4>2, <3>1
        <5>2. it[{1}] = 0 + s[1]
          BY <5>1
        <5>3. it[u] = (0 + s[1]) + s[2]
          BY <3>3, <4>2
        <5>4. QED
          BY <4>1, <5>1, <5>2, <5>3
      <4>3. CASE 1 \notin u
        <5>1. u \ {2} = {}
          BY <4>1, <4>3
        <5>2. it[{}] = 0 /\ it[u] = 0 + s[2]
          BY <3>3, <4>3
        <5>3. QED
          BY <4>1, <5>1, <5>2
      <4>4. QED
        BY <4>2, <4>3
    <3>4. QED
      BY <3>2, <3>3
  <2>2. it[{}] = 0
    OBVIOUS
  <2> HIDE DEF it
  <2>3. DOMAIN it = SUBSET (DOMAIN s) /\ it = [u \in SUBSET (DOMAIN s) |-> it[u]]
    BY DEF it
  <2>4. QED
    BY <2>1, <2>2, <2>3 DEF SumStep
<1> HIDE DEF it
<1>2. PICK iter : /\ iter = SumStep(s, iter)
                  /\ SumSeq(s) = iter[DOMAIN s]
  BY <1>1, SumUnfolds, Zenon
<1>3. \A u \in SUBSET (DOMAIN s) :
        iter[u] = IF u = {} THEN 0 ELSE iter[u \ {Max(u)}] + s[Max(u)]
  BY <1>2 DEF SumStep
<1>4. iter[{}] = 0
  BY <1>3
<1>5. CASE DOMAIN s = {1}
  <2>1. Max({1}) = 1 /\ {1} \ {1} = {}
    BY MaxOfTwo DEF Maxima
  <2>2. iter[{1}] = iter[{}] + s[1]
    BY <1>3, <1>5, <2>1
  <2>3. QED
    BY <1>2, <1>4, <1>5, <2>2
<1>6. CASE DOMAIN s = {1, 2}
  <2>1. /\ Max({1}) = 1 /\ {1} \ {1} = {}
        /\ Max({1, 2}) = 2 /\ {1, 2} \ {2} = {1} /\ 2 \notin {1} /\ {1, 2} # {1}
    BY MaxOfTwo DEF Maxima
  <2>2. iter[{1}] = iter[{}] + s[1]
    BY <1>3, <1>6, <2>1
  <2>3. iter[{1, 2}] = iter[{1}] + s[2]
    BY <1>3, <1>6, <2>1
  <2>4. {1, 2} # {}
    OBVIOUS
  <2>5. QED
    BY <1>2, <1>4, <1>6, <2>1, <2>2, <2>3, <2>4
<1>7. QED
  BY <1>2, <1>4, <1>5, <1>6

\* A tape: at most two operands each, older than the result.
Tape(G) ==
  /\ G \in [Tensor -> Seq(Tensor)]
  /\ \A x \in Tensor : /\ Len(G[x]) <= 2
                       /\ \A i \in DOMAIN G[x] : G[x][i] < x

\* The positions and the entries of an operand list.
LEMMA Operands ==
  ASSUME NEW G, Tape(G), NEW x \in Tensor
  PROVE  /\ DOMAIN G[x] \in {{}, {1}, {1, 2}}
         /\ \A i \in DOMAIN G[x] : G[x][i] \in Tensor /\ G[x][i] < x
<1>1. G[x] \in Seq(Tensor) /\ Len(G[x]) <= 2
      /\ \A i \in DOMAIN G[x] : G[x][i] < x
  BY DEF Tape
<1>2. PICK n \in Nat : n = Len(G[x]) /\ DOMAIN G[x] = 1 .. n
  BY <1>1
<1>3. n = 0 \/ n = 1 \/ n = 2
  <2>1. n <= 2
    BY <1>1, <1>2
  <2>2. QED
    BY <2>1
<1>4. 1 .. 0 = {} /\ 1 .. 1 = {1} /\ 1 .. 2 = {1, 2}
  OBVIOUS
<1>5. DOMAIN G[x] \in {{}, {1}, {1, 2}}
  BY <1>2, <1>3, <1>4
<1>6. \A i \in DOMAIN G[x] : G[x][i] \in Tensor
  BY <1>1
<1>7. QED
  BY <1>1, <1>5, <1>6

Lists == Seq(Tensor)

VisitOf(G, visit, x) ==
  [found \in Lists |->
     IF x \in ToSet(found) THEN found
     ELSE Append(Through(visit, found, G[x]), x)]

VisitStep(G, visit) == [x \in Tensor |-> VisitOf(G, visit, x)]

Visits(G) == CHOOSE visit : visit = VisitStep(G, visit)

\* BuildTopology is the recursive function visit, begun at the root.
LEMMA TopologyUnfolds ==
  ASSUME NEW root
  PROVE  BuildTopology(root) = Visits(parents)[root][<<>>]
BY Zenon DEF BuildTopology, Visits, VisitStep, VisitOf, Lists, Through, FoldLeft,
             MapThenFoldSet

\* What visit has to be at a tensor's parents, and what it then is at the tensor.
LEMMA VisitOfType ==
  ASSUME NEW G, Tape(G), NEW visit, NEW x \in Tensor,
         \A y \in Tensor : y < x => visit[y] \in [Lists -> Lists]
  PROVE  VisitOf(G, visit, x) \in [Lists -> Lists]
<1>1. ASSUME NEW found \in Lists
      PROVE  Through(visit, found, G[x]) \in Lists
  <2> DEFINE s == G[x]
  <2>1. DOMAIN s \in {{}, {1}, {1, 2}}
        /\ \A i \in DOMAIN s : visit[s[i]] \in [Lists -> Lists]
    BY Operands
  <2> HIDE DEF s
  <2>2. Through(visit, found, s) =
          IF DOMAIN s = {} THEN found
          ELSE IF DOMAIN s = {1} THEN visit[s[1]][found]
          ELSE visit[s[2]][visit[s[1]][found]]
    BY <2>1, ThroughIs
  <2>3. ASSUME DOMAIN s # {} PROVE visit[s[1]][found] \in Lists
    <3>1. 1 \in DOMAIN s
      BY <2>1, <2>3
    <3>2. visit[s[1]] \in [Lists -> Lists]
      BY <2>1, <3>1
    <3>3. QED
      BY <3>2
  <2>4. ASSUME DOMAIN s = {1, 2}
        PROVE  visit[s[2]][visit[s[1]][found]] \in Lists
    <3>1. visit[s[2]] \in [Lists -> Lists] /\ DOMAIN s # {}
      BY <2>1, <2>4
    <3>2. QED
      BY <2>3, <3>1
  <2>5. Through(visit, found, s) \in Lists
    BY <2>1, <2>2, <2>3, <2>4
  <2>6. QED
    BY <2>5 DEF s
<1>2. ASSUME NEW found \in Lists
      PROVE  Append(Through(visit, found, G[x]), x) \in Lists
  BY <1>1 DEF Lists
<1>3. QED
  BY <1>2 DEF VisitOf

\* A visit depends only on the visits of older tensors.
LEMMA VisitOfAgrees ==
  ASSUME NEW G, Tape(G), NEW v, NEW w, NEW x \in Tensor,
         \A y \in Tensor : y < x => v[y] = w[y]
  PROVE  VisitOf(G, v, x) = VisitOf(G, w, x)
<1>1. ASSUME NEW found \in Lists
      PROVE  Through(v, found, G[x]) = Through(w, found, G[x])
  <2> DEFINE s == G[x]
  <2>1. DOMAIN s \in {{}, {1}, {1, 2}} /\ \A i \in DOMAIN s : v[s[i]] = w[s[i]]
    BY Operands
  <2> HIDE DEF s
  <2>2. /\ DOMAIN s # {} => v[s[1]] = w[s[1]]
        /\ DOMAIN s = {1, 2} => v[s[2]] = w[s[2]]
    BY <2>1
  <2>3. /\ Through(v, found, s) =
             IF DOMAIN s = {} THEN found
             ELSE IF DOMAIN s = {1} THEN v[s[1]][found]
             ELSE v[s[2]][v[s[1]][found]]
        /\ Through(w, found, s) =
             IF DOMAIN s = {} THEN found
             ELSE IF DOMAIN s = {1} THEN w[s[1]][found]
             ELSE w[s[2]][w[s[1]][found]]
    BY <2>1, ThroughIs
  <2>4. QED
    BY <2>1, <2>2, <2>3 DEF s
<1>2. QED
  BY <1>1 DEF VisitOf

\* The recursion of BuildTopology is well founded: operands are older.
LEMMA VisitsExist ==
  ASSUME NEW G, Tape(G)
  PROVE  \E visit : visit = VisitStep(G, visit)
<1> DEFINE Solves(n, v) ==
             /\ v \in [Tensor -> [Lists -> Lists]]
             /\ \A x \in Tensor : x <= n => v[x] = VisitOf(G, v, x)
           T == {n \in 0 .. MaxTensor : \E v : Solves(n, v)}
<1>1. MaxTensor \in Nat
  BY BoundsAssumption
<1>2. 0 \in T
  <2> DEFINE v == [x \in Tensor |-> [found \in Lists |-> found]]
  <2>1. Solves(0, v)
    BY DEF Tensor
  <2> HIDE DEF Solves, v
  <2>2. QED
    BY <1>1, <2>1
<1>3. ASSUME NEW n \in Tensor, n - 1 \in T PROVE n \in T
  <2>1. PICK v : Solves(n - 1, v)
    BY <1>3
  <2> DEFINE w == [v EXCEPT ![n] = VisitOf(G, v, n)]
  <2>2. w \in [Tensor -> [Lists -> Lists]]
    <3>1. VisitOf(G, v, n) \in [Lists -> Lists]
      BY <2>1, VisitOfType
    <3>2. QED
      BY <2>1, <3>1
  <2>3. ASSUME NEW x \in Tensor, x <= n PROVE w[x] = VisitOf(G, w, x)
    <3>1. \A y \in Tensor : y < x => v[y] = w[y]
      BY <2>1, <2>3 DEF Tensor
    <3>2. VisitOf(G, v, x) = VisitOf(G, w, x)
      BY <3>1, VisitOfAgrees
    <3>3. w[x] = VisitOf(G, v, x)
      <4>1. CASE x = n
        BY <2>1, <4>1
      <4>2. CASE x # n
        <5>1. x <= n - 1
          BY <2>3, <4>2 DEF Tensor
        <5>2. w[x] = v[x]
          BY <2>1, <4>2
        <5>3. QED
          BY <2>1, <5>1, <5>2
      <4>3. QED
        BY <4>1, <4>2
    <3>4. QED
      BY <3>2, <3>3
  <2>4. Solves(n, w)
    BY <2>2, <2>3
  <2>5. n \in 0 .. MaxTensor
    BY <1>1 DEF Tensor
  <2> HIDE DEF Solves
  <2>6. QED
    BY <2>4, <2>5
<1>4. MaxTensor \in T
  <2> HIDE DEF T
  <2>1. QED
    BY <1>2, <1>3, CountInduction
<1>5. PICK v : Solves(MaxTensor, v)
  BY <1>4
<1>6. \A x \in Tensor : v[x] = VisitOf(G, v, x)
  BY <1>1, <1>5 DEF Tensor
<1>7. v = VisitStep(G, v)
  BY <1>5, <1>6 DEF VisitStep
<1>8. QED
  BY <1>7

\* What visit returns at a tensor, by what it returns at its operands.
LEMMA VisitsAre ==
  ASSUME NEW G, Tape(G)
  PROVE  \A x \in Tensor : Visits(G)[x] = VisitOf(G, Visits(G), x)
<1>1. PICK visit : visit = Visits(G) /\ visit = VisitStep(G, visit)
  BY VisitsExist, Zenon DEF Visits
<1>2. \A x \in Tensor : visit[x] = VisitOf(G, visit, x)
  BY <1>1 DEF VisitStep
<1>3. QED
  BY <1>1, <1>2

\* A tensor comes once, after all of its parents.
Ordered(G, s) ==
  /\ s \in Lists
  /\ \A i, j \in DOMAIN s : s[i] = s[j] => i = j
  /\ \A i \in DOMAIN s : \A k \in DOMAIN G[s[i]] :
       \E j \in 1 .. i - 1 : s[j] = G[s[i]][k]

\* Appending a tensor whose operands are in the list keeps the order.
LEMMA AppendOrdered ==
  ASSUME NEW G, NEW s, Ordered(G, s), NEW x \in Tensor, x \notin ToSet(s),
         \A k \in DOMAIN G[x] : G[x][k] \in ToSet(s)
  PROVE  /\ Ordered(G, Append(s, x))
         /\ ToSet(Append(s, x)) = ToSet(s) \cup {x}
<1>1. /\ s \in Seq(Tensor) /\ DOMAIN s = 1 .. Len(s) /\ Len(s) \in Nat
      /\ \A i \in 1 .. Len(s) : s[i] \in Tensor /\ s[i] # x
  BY DEF Ordered, Lists, ToSet
<1>2. PICK r : /\ r = Append(s, x) /\ r \in Seq(Tensor) /\ DOMAIN r = 1 .. Len(s) + 1
               /\ \A i \in 1 .. Len(s) : r[i] = s[i]
               /\ r[Len(s) + 1] = x
  <2>1. /\ Append(s, x) \in Seq(Tensor) /\ DOMAIN Append(s, x) = 1 .. Len(s) + 1
        /\ \A i \in 1 .. Len(s) : Append(s, x)[i] = s[i]
        /\ Append(s, x)[Len(s) + 1] = x
    BY <1>1
  <2>2. QED
    BY <2>1, Zenon
<1>3. PICK n \in Nat : n = Len(s)
  BY <1>1
<1>4. \A i \in DOMAIN r : (i \in 1 .. n /\ r[i] = s[i]) \/ (i = n + 1 /\ r[i] = x)
  BY <1>2, <1>3
<1>5. \A i, j \in DOMAIN r : r[i] = r[j] => i = j
  BY <1>1, <1>3, <1>4 DEF Ordered
<1>6. ASSUME NEW i \in DOMAIN r, NEW k \in DOMAIN G[r[i]]
      PROVE  \E j \in 1 .. i - 1 : r[j] = G[r[i]][k]
  <2>1. CASE i \in 1 .. n /\ r[i] = s[i]
    <3>1. PICK j \in 1 .. i - 1 : s[j] = G[s[i]][k]
      BY <1>1, <1>3, <2>1 DEF Ordered
    <3>2. r[j] = s[j]
      BY <1>2, <1>3, <2>1
    <3>3. QED
      BY <2>1, <3>1, <3>2
  <2>2. CASE i = n + 1 /\ r[i] = x
    <3>1. PICK j \in 1 .. n : s[j] = G[x][k]
      BY <1>1, <1>3, <2>2 DEF ToSet
    <3>2. j \in 1 .. i - 1 /\ r[j] = s[j]
      BY <1>2, <1>3, <2>2
    <3>3. QED
      BY <2>2, <3>1, <3>2
  <2>3. QED
    BY <1>4, <2>1, <2>2
<1>7. ToSet(r) = ToSet(s) \cup {x}
  <2>1. n + 1 \in DOMAIN r /\ \A i \in 1 .. n : i \in DOMAIN r
    BY <1>2, <1>3
  <2>2. QED
    BY <1>1, <1>2, <1>3, <1>4, <2>1 DEF ToSet
<1>8. Ordered(G, r)
  BY <1>2, <1>5, <1>6, Zenon DEF Ordered, Lists
<1>9. QED
  BY <1>2, <1>7, <1>8, Zenon

\* What a visit that takes in tensors up to n makes of a list.
Grown(G, n, found, s) ==
  /\ Ordered(G, s)
  /\ ToSet(found) \subseteq ToSet(s) /\ ToSet(s) \subseteq ToSet(found) \cup 1 .. n

VisitGrows(G, visit, x) ==
  \A found \in Lists : Ordered(G, found) =>
    /\ Grown(G, x, found, visit[x][found])
    /\ x \in ToSet(visit[x][found])

\* The loop over the operands adds them, in order, and nothing newer.
LEMMA ThroughGrows ==
  ASSUME NEW G, Tape(G), NEW visit, NEW x \in Tensor,
         \A y \in Tensor : y < x => VisitGrows(G, visit, y),
         NEW found \in Lists, Ordered(G, found)
  PROVE  /\ Grown(G, x - 1, found, Through(visit, found, G[x]))
         /\ \A k \in DOMAIN G[x] : G[x][k] \in ToSet(Through(visit, found, G[x]))
<1> DEFINE s == G[x]
           one == visit[s[1]][found]
           two == visit[s[2]][one]
<1>1. /\ DOMAIN s \in {{}, {1}, {1, 2}}
      /\ \A i \in DOMAIN s : s[i] \in Tensor /\ s[i] < x /\ VisitGrows(G, visit, s[i])
  BY Operands
<1> HIDE DEF s
<1>2. Through(visit, found, s) =
        IF DOMAIN s = {} THEN found ELSE IF DOMAIN s = {1} THEN one ELSE two
  BY <1>1, ThroughIs
<1>3. ASSUME NEW y \in Tensor, y < x, NEW a, Ordered(G, a), Grown(G, x - 1, found, a),
             VisitGrows(G, visit, y)
      PROVE  /\ Grown(G, x - 1, found, visit[y][a])
             /\ ToSet(a) \subseteq ToSet(visit[y][a]) /\ y \in ToSet(visit[y][a])
  <2>1. a \in Lists
    BY <1>3 DEF Ordered
  <2>2. Grown(G, y, a, visit[y][a]) /\ y \in ToSet(visit[y][a])
    BY <1>3, <2>1 DEF VisitGrows
  <2>3. 1 .. y \subseteq 1 .. x - 1
    BY <1>3 DEF Tensor
  <2>4. QED
    BY <1>3, <2>2, <2>3 DEF Grown
<1>4. Grown(G, x - 1, found, found)
  BY DEF Grown
<1>5. ASSUME DOMAIN s # {}
      PROVE  Grown(G, x - 1, found, one) /\ s[1] \in ToSet(one)
  <2>1. 1 \in DOMAIN s
    BY <1>1, <1>5
  <2>2. QED
    BY <1>1, <1>3, <1>4, <2>1
<1>6. ASSUME DOMAIN s = {1, 2}
      PROVE  Grown(G, x - 1, found, two) /\ s[1] \in ToSet(two) /\ s[2] \in ToSet(two)
  <2>1. 2 \in DOMAIN s /\ DOMAIN s # {}
    BY <1>6
  <2>2. Grown(G, x - 1, found, one) /\ s[1] \in ToSet(one) /\ Ordered(G, one)
    BY <1>5, <2>1 DEF Grown
  <2>3. s[2] \in Tensor /\ s[2] < x /\ VisitGrows(G, visit, s[2])
    BY <1>1, <2>1
  <2> HIDE DEF one
  <2>4. /\ Grown(G, x - 1, found, visit[s[2]][one])
        /\ ToSet(one) \subseteq ToSet(visit[s[2]][one]) /\ s[2] \in ToSet(visit[s[2]][one])
    BY <1>3, <2>2, <2>3
  <2>5. QED
    BY <2>2, <2>4
<1> HIDE DEF one, two
<1>7. /\ Grown(G, x - 1, found, Through(visit, found, s))
      /\ \A k \in DOMAIN s : s[k] \in ToSet(Through(visit, found, s))
  <2>1. CASE DOMAIN s = {}
    BY <1>2, <1>4, <2>1
  <2>2. CASE DOMAIN s = {1}
    BY <1>2, <1>5, <2>2
  <2>3. CASE DOMAIN s = {1, 2}
    <3>1. DOMAIN s # {} /\ DOMAIN s # {1} /\ \A k \in DOMAIN s : k = 1 \/ k = 2
      BY <2>3
    <3>2. QED
      BY <1>2, <1>6, <2>3, <3>1
  <2>4. QED
    BY <1>1, <2>1, <2>2, <2>3
<1>8. QED
  BY <1>7 DEF s

\* Every visit adds its tensor, in order, and nothing newer.
LEMMA VisitsGrow ==
  ASSUME NEW G, Tape(G)
  PROVE  \A x \in Tensor : VisitGrows(G, Visits(G), x)
<1> DEFINE T == {x \in Tensor : VisitGrows(G, Visits(G), x)}
<1>1. ASSUME NEW x \in Tensor, \A y \in Tensor : y < x => y \in T PROVE x \in T
  <2>1. PICK visit : visit = Visits(G)
    OBVIOUS
  <2>2. visit[x] = VisitOf(G, visit, x)
    BY <2>1, VisitsAre
  <2>3. \A y \in Tensor : y < x => VisitGrows(G, visit, y)
    BY <1>1, <2>1
  <2>4. ASSUME NEW found \in Lists, Ordered(G, found)
        PROVE  Grown(G, x, found, visit[x][found]) /\ x \in ToSet(visit[x][found])
    <3>1. CASE x \in ToSet(found)
      BY <2>2, <2>4, <3>1 DEF VisitOf, Grown
    <3>2. CASE x \notin ToSet(found)
      <4>1. PICK s : s = Through(visit, found, G[x])
        OBVIOUS
      <4>2. Grown(G, x - 1, found, s) /\ \A k \in DOMAIN G[x] : G[x][k] \in ToSet(s)
        BY <2>3, <2>4, <4>1, ThroughGrows
      <4>3. x \notin ToSet(s) /\ x \in Int /\ 1 .. x - 1 \subseteq 1 .. x /\ x \in 1 .. x
        BY <3>2, <4>2 DEF Grown, Tensor
      <4>4. visit[x][found] = Append(s, x)
        BY <2>2, <3>2, <4>1 DEF VisitOf
      <4>5. Ordered(G, Append(s, x)) /\ ToSet(Append(s, x)) = ToSet(s) \cup {x}
        BY <4>2, <4>3, AppendOrdered DEF Grown
      <4>6. QED
        BY <4>2, <4>3, <4>4, <4>5 DEF Grown
    <3>3. QED
      BY <3>1, <3>2
  <2>5. QED
    BY <2>1, <2>4 DEF VisitGrows
<1>2. \A x \in Tensor : x \in T
  <2> HIDE DEF T
  <2>1. QED
    BY <1>1, TensorInduction
<1>3. QED
  BY <1>2

\* What BuildTopology returns: the root last, its ancestors before it, each tensor
\* once and after all of its parents.
TopologyOf(G, root, s) ==
  /\ Ordered(G, s) /\ ToSet(s) \subseteq 1 .. root
  /\ Len(s) \in Nat \ {0} /\ s[Len(s)] = root

\* BuildTopology returns a topology of its root.
LEMMA TopologyIs ==
  ASSUME Tape(parents), NEW root \in Tensor
  PROVE  TopologyOf(parents, root, BuildTopology(root))
<1>1. PICK visit : visit = Visits(parents)
  OBVIOUS
<1>2. PICK s : s = Through(visit, <<>>, parents[root])
  OBVIOUS
<1>3. <<>> \in Lists /\ Ordered(parents, <<>>) /\ ToSet(<<>>) = {}
  BY DEF Ordered, Lists, ToSet
<1>4. /\ Grown(parents, root - 1, <<>>, s)
      /\ \A k \in DOMAIN parents[root] : parents[root][k] \in ToSet(s)
  <2>1. \A y \in Tensor : y < root => VisitGrows(parents, visit, y)
    BY <1>1, VisitsGrow
  <2>2. QED
    BY <1>2, <1>3, <2>1, ThroughGrows
<1>5. BuildTopology(root) = Append(s, root)
  <2>1. visit[root] = VisitOf(parents, visit, root)
    BY <1>1, VisitsAre
  <2>2. VisitOf(parents, visit, root)[<<>>] = Append(s, root)
    BY <1>2, <1>3 DEF VisitOf
  <2>3. BuildTopology(root) = visit[root][<<>>]
    BY <1>1, TopologyUnfolds
  <2>4. QED
    BY <2>1, <2>2, <2>3
<1>6. root \notin ToSet(s) /\ s \in Seq(Tensor) /\ ToSet(s) \subseteq 1 .. root
  BY <1>3, <1>4 DEF Grown, Ordered, Lists, Tensor
<1>7. /\ Ordered(parents, Append(s, root))
      /\ ToSet(Append(s, root)) = ToSet(s) \cup {root}
  BY <1>4, <1>6, AppendOrdered DEF Grown
<1>8. Len(Append(s, root)) = Len(s) + 1 /\ Append(s, root)[Len(s) + 1] = root
      /\ Len(s) \in Nat
  BY <1>6
<1>9. root \in 1 .. root
  BY DEF Tensor
<1>10. QED
  BY <1>5, <1>6, <1>7, <1>8, <1>9 DEF TopologyOf

-----------------------------------------------------------------------------
(***************************************************************************)
(* Paths, counted over the same graph.                                     *)
(***************************************************************************)

\* What operand p hands on of its paths to x.
Via(R, count, p, x) == IF R[p] THEN count[p][x] ELSE 0

CountRow(G, R, count, y) ==
  [x \in Tensor |->
     IF x = y THEN 1 ELSE SumSeq([i \in DOMAIN G[y] |-> Via(R, count, G[y][i], x)])]

CountStep(G, R, count) == [y \in Tensor |-> CountRow(G, R, count, y)]

Counts(G, R) == CHOOSE count : count = CountStep(G, R, count)

\* The recursion that counts paths, as a function of the graph alone.
LEMMA PathsUnfold ==
  ASSUME NEW root
  PROVE  Paths(root) = Counts(parents, requires_grad)[root]
BY Zenon DEF Paths, Counts, CountStep, CountRow, Via, RequiresGrad

\* A row, by the number of operands.
LEMMA CountRowIs ==
  ASSUME NEW G, Tape(G), NEW R, NEW count, NEW y \in Tensor, NEW x \in Tensor
  PROVE  CountRow(G, R, count, y)[x] =
           IF x = y THEN 1
           ELSE IF DOMAIN G[y] = {} THEN 0
           ELSE IF DOMAIN G[y] = {1} THEN 0 + Via(R, count, G[y][1], x)
           ELSE (0 + Via(R, count, G[y][1], x)) + Via(R, count, G[y][2], x)
<1>1. DOMAIN G[y] \in {{}, {1}, {1, 2}}
  BY Operands
<1>2. PICK s : s = [i \in DOMAIN G[y] |-> Via(R, count, G[y][i], x)]
  OBVIOUS
<1>3. DOMAIN s = DOMAIN G[y] /\ \A i \in DOMAIN G[y] : s[i] = Via(R, count, G[y][i], x)
  BY <1>2
<1>4. SumSeq(s) = IF DOMAIN s = {} THEN 0
                  ELSE IF DOMAIN s = {1} THEN 0 + s[1]
                  ELSE (0 + s[1]) + s[2]
  BY <1>1, <1>3, SumIs
<1>5. /\ DOMAIN G[y] # {} => s[1] = Via(R, count, G[y][1], x)
      /\ DOMAIN G[y] = {1, 2} => s[2] = Via(R, count, G[y][2], x)
  BY <1>1, <1>3
<1>6. SumSeq(s) = IF DOMAIN G[y] = {} THEN 0
                  ELSE IF DOMAIN G[y] = {1} THEN 0 + Via(R, count, G[y][1], x)
                  ELSE (0 + Via(R, count, G[y][1], x)) + Via(R, count, G[y][2], x)
  BY <1>1, <1>3, <1>4, <1>5
<1>7. CountRow(G, R, count, y)[x] = IF x = y THEN 1 ELSE SumSeq(s)
  BY <1>2, Zenon DEF CountRow
<1>8. QED
  BY <1>6, <1>7

\* The counts of a tensor are numbers if those of its operands are.
LEMMA CountRowType ==
  ASSUME NEW G, Tape(G), NEW R, NEW count, NEW y \in Tensor,
         \A p \in Tensor : p < y => count[p] \in [Tensor -> Nat]
  PROVE  CountRow(G, R, count, y) \in [Tensor -> Nat]
<1>1. ASSUME NEW x \in Tensor PROVE CountRow(G, R, count, y)[x] \in Nat
  <2>1. DOMAIN G[y] \in {{}, {1}, {1, 2}}
        /\ \A i \in DOMAIN G[y] : Via(R, count, G[y][i], x) \in Nat
    BY Operands DEF Via
  <2>2. /\ DOMAIN G[y] # {} => Via(R, count, G[y][1], x) \in Nat
        /\ DOMAIN G[y] = {1, 2} => Via(R, count, G[y][2], x) \in Nat
    BY <2>1
  <2>3. QED
    BY <2>1, <2>2, CountRowIs
<1>2. CountRow(G, R, count, y) = [x \in Tensor |-> CountRow(G, R, count, y)[x]]
  BY DEF CountRow
<1>3. QED
  BY <1>1, <1>2

\* The counts of a tensor depend only on older tensors.
LEMMA CountRowAgrees ==
  ASSUME NEW G, Tape(G), NEW H, Tape(H), NEW R, NEW S, NEW c, NEW d, NEW y \in Tensor,
         H[y] = G[y],
         \A p \in Tensor : p < y => R[p] = S[p] /\ c[p] = d[p]
  PROVE  CountRow(G, R, c, y) = CountRow(H, S, d, y)
<1>1. ASSUME NEW x \in Tensor
      PROVE  CountRow(G, R, c, y)[x] = CountRow(H, S, d, y)[x]
  <2>1. DOMAIN G[y] \in {{}, {1}, {1, 2}}
        /\ \A i \in DOMAIN G[y] : Via(R, c, G[y][i], x) = Via(S, d, G[y][i], x)
    BY Operands DEF Via
  <2>2. /\ DOMAIN G[y] # {} => Via(R, c, G[y][1], x) = Via(S, d, G[y][1], x)
        /\ DOMAIN G[y] = {1, 2} => Via(R, c, G[y][2], x) = Via(S, d, G[y][2], x)
    BY <2>1
  <2>3. /\ CountRow(G, R, c, y)[x] =
             IF x = y THEN 1
             ELSE IF DOMAIN G[y] = {} THEN 0
             ELSE IF DOMAIN G[y] = {1} THEN 0 + Via(R, c, G[y][1], x)
             ELSE (0 + Via(R, c, G[y][1], x)) + Via(R, c, G[y][2], x)
        /\ CountRow(H, S, d, y)[x] =
             IF x = y THEN 1
             ELSE IF DOMAIN G[y] = {} THEN 0
             ELSE IF DOMAIN G[y] = {1} THEN 0 + Via(S, d, G[y][1], x)
             ELSE (0 + Via(S, d, G[y][1], x)) + Via(S, d, G[y][2], x)
    BY CountRowIs
  <2>4. QED
    BY <2>1, <2>2, <2>3
<1>2. /\ CountRow(G, R, c, y) = [x \in Tensor |-> CountRow(G, R, c, y)[x]]
      /\ CountRow(H, S, d, y) = [x \in Tensor |-> CountRow(H, S, d, y)[x]]
  BY DEF CountRow
<1>3. QED
  BY <1>1, <1>2

\* The recursion of Paths is well founded.
LEMMA CountsExist ==
  ASSUME NEW G, Tape(G), NEW R
  PROVE  \E count : count = CountStep(G, R, count)
<1> DEFINE Solves(n, v) ==
             /\ v \in [Tensor -> [Tensor -> Nat]]
             /\ \A x \in Tensor : x <= n => v[x] = CountRow(G, R, v, x)
           T == {n \in 0 .. MaxTensor : \E v : Solves(n, v)}
<1>1. MaxTensor \in Nat
  BY BoundsAssumption
<1>2. 0 \in T
  <2> DEFINE v == [x \in Tensor |-> Zero]
  <2>1. Solves(0, v)
    BY DEF Tensor, Zero
  <2> HIDE DEF Solves, v
  <2>2. QED
    BY <1>1, <2>1
<1>3. ASSUME NEW n \in Tensor, n - 1 \in T PROVE n \in T
  <2>1. PICK v : Solves(n - 1, v)
    BY <1>3
  <2> DEFINE w == [v EXCEPT ![n] = CountRow(G, R, v, n)]
  <2>2. w \in [Tensor -> [Tensor -> Nat]]
    <3>1. CountRow(G, R, v, n) \in [Tensor -> Nat]
      BY <2>1, CountRowType
    <3>2. QED
      BY <2>1, <3>1
  <2>3. ASSUME NEW x \in Tensor, x <= n PROVE w[x] = CountRow(G, R, w, x)
    <3>1. \A y \in Tensor : y < x => v[y] = w[y]
      BY <2>1, <2>3 DEF Tensor
    <3>2. CountRow(G, R, v, x) = CountRow(G, R, w, x)
      <4>1. G[x] = G[x] /\ \A y \in Tensor : y < x => R[y] = R[y] /\ v[y] = w[y]
        BY <3>1
      <4> HIDE DEF w
      <4>2. QED
        BY <4>1, CountRowAgrees
    <3>3. w[x] = CountRow(G, R, v, x)
      <4>1. CASE x = n
        BY <2>1, <4>1
      <4>2. CASE x # n
        <5>1. x <= n - 1
          BY <2>3, <4>2 DEF Tensor
        <5>2. w[x] = v[x]
          BY <2>1, <4>2
        <5>3. QED
          BY <2>1, <5>1, <5>2
      <4>3. QED
        BY <4>1, <4>2
    <3>4. QED
      BY <3>2, <3>3
  <2>4. Solves(n, w)
    BY <2>2, <2>3
  <2>5. n \in 0 .. MaxTensor
    BY <1>1 DEF Tensor
  <2> HIDE DEF Solves
  <2>6. QED
    BY <2>4, <2>5
<1>4. MaxTensor \in T
  <2> HIDE DEF T
  <2>1. QED
    BY <1>2, <1>3, CountInduction
<1>5. PICK v : Solves(MaxTensor, v)
  BY <1>4
<1>6. \A x \in Tensor : v[x] = CountRow(G, R, v, x)
  BY <1>1, <1>5 DEF Tensor
<1>7. v = CountStep(G, R, v)
  BY <1>5, <1>6 DEF CountStep
<1>8. QED
  BY <1>7

\* The paths from a tensor, by those from its operands.
LEMMA CountsAre ==
  ASSUME NEW G, Tape(G), NEW R
  PROVE  \A y \in Tensor : Counts(G, R)[y] = CountRow(G, R, Counts(G, R), y)
<1>1. PICK count : count = Counts(G, R) /\ count = CountStep(G, R, count)
  BY CountsExist, Zenon DEF Counts
<1>2. \A y \in Tensor : count[y] = CountRow(G, R, count, y)
  BY <1>1 DEF CountStep
<1>3. QED
  BY <1>1, <1>2

\* A number of paths is a number.
LEMMA CountsType ==
  ASSUME NEW G, Tape(G), NEW R
  PROVE  \A y \in Tensor : Counts(G, R)[y] \in [Tensor -> Nat]
<1> DEFINE T == {y \in Tensor : Counts(G, R)[y] \in [Tensor -> Nat]}
<1>1. ASSUME NEW y \in Tensor, \A p \in Tensor : p < y => p \in T PROVE y \in T
  <2>1. CountRow(G, R, Counts(G, R), y) \in [Tensor -> Nat]
    BY <1>1, CountRowType
  <2>2. QED
    BY <2>1, CountsAre
<1>2. \A y \in Tensor : y \in T
  <2> HIDE DEF T
  <2>1. QED
    BY <1>1, TensorInduction
<1>3. QED
  BY <1>2

\* No path leads out of a set that contains its tensors' operands.
Closed(G, C) ==
  /\ C \subseteq Tensor
  /\ \A y \in C : \A i \in DOMAIN G[y] : G[y][i] \in C

\* Nothing in C reaches a tensor outside of it.
LEMMA NoPathOut ==
  ASSUME NEW G, Tape(G), NEW R, NEW C, Closed(G, C), NEW x \in Tensor, x \notin C
  PROVE  \A y \in C : Counts(G, R)[y][x] = 0
<1>1. PICK count : count = Counts(G, R)
  OBVIOUS
<1> DEFINE T == {y \in Tensor : y \in C => count[y][x] = 0}
<1>2. ASSUME NEW y \in Tensor, \A p \in Tensor : p < y => p \in T PROVE y \in T
  <2>1. SUFFICES ASSUME y \in C PROVE count[y][x] = 0
    OBVIOUS
  <2>2. DOMAIN G[y] \in {{}, {1}, {1, 2}}
        /\ \A i \in DOMAIN G[y] : Via(R, count, G[y][i], x) = 0
    BY <1>2, <2>1, Operands DEF Via, Closed
  <2>3. /\ DOMAIN G[y] # {} => Via(R, count, G[y][1], x) = 0
        /\ DOMAIN G[y] = {1, 2} => Via(R, count, G[y][2], x) = 0
    BY <2>2
  <2>4. CountRow(G, R, count, y)[x] = 0
    BY <2>1, <2>2, <2>3, CountRowIs
  <2>5. QED
    BY <1>1, <2>4, CountsAre
<1>3. \A y \in Tensor : y \in T
  <2> HIDE DEF T
  <2>1. QED
    BY <1>2, TensorInduction
<1>4. QED
  BY <1>1, <1>3 DEF Closed

\* What is recorded later changes no earlier count.
LEMMA CountsAgree ==
  ASSUME NEW G, Tape(G), NEW H, Tape(H), NEW R, NEW S, NEW n \in Int,
         \A y \in Tensor : y <= n => H[y] = G[y] /\ R[y] = S[y]
  PROVE  \A y \in Tensor : y <= n => Counts(G, R)[y] = Counts(H, S)[y]
<1>1. PICK c : c = Counts(G, R)
  OBVIOUS
<1>2. PICK d : d = Counts(H, S)
  OBVIOUS
<1> DEFINE T == {y \in Tensor : y <= n => c[y] = d[y]}
<1>3. ASSUME NEW y \in Tensor, \A p \in Tensor : p < y => p \in T PROVE y \in T
  <2>1. SUFFICES ASSUME y <= n PROVE c[y] = d[y]
    OBVIOUS
  <2>2. \A p \in Tensor : p < y => R[p] = S[p] /\ c[p] = d[p]
    BY <1>3, <2>1 DEF Tensor
  <2>3. CountRow(G, R, c, y) = CountRow(H, S, d, y)
    <3>1. H[y] = G[y]
      BY <2>1
    <3>2. QED
      BY <2>2, <3>1, CountRowAgrees
  <2>4. c[y] = CountRow(G, R, c, y) /\ d[y] = CountRow(H, S, d, y)
    BY <1>1, <1>2, CountsAre
  <2>5. QED
    BY <2>3, <2>4
<1>4. \A y \in Tensor : y \in T
  <2> HIDE DEF T
  <2>1. QED
    BY <1>3, TensorInduction
<1>5. QED
  BY <1>1, <1>2, <1>4

-----------------------------------------------------------------------------
(***************************************************************************)
(* Sums over all tensors, one of which changes at a time.                  *)
(***************************************************************************)

\* The weights w add up to K, by their running sums.
SumsTo(w, K) ==
  \E s \in [0 .. MaxTensor -> Int] :
    /\ s[0] = 0
    /\ \A n \in Tensor : s[n] = s[n - 1] + w[n]
    /\ s[MaxTensor] = K

\* Weights that are zero but at a add up to the one at a ...
LEMMA SumOfOne ==
  ASSUME NEW a \in Tensor, NEW w \in [Tensor -> Int], \A y \in Tensor \ {a} : w[y] = 0
  PROVE  SumsTo(w, w[a])
<1> DEFINE s == [n \in 0 .. MaxTensor |-> IF n < a THEN 0 ELSE w[a]]
<1>1. MaxTensor \in Nat /\ a \in 1 .. MaxTensor
  BY BoundsAssumption DEF Tensor
<1>2. s \in [0 .. MaxTensor -> Int] /\ s[0] = 0 /\ s[MaxTensor] = w[a]
  BY <1>1
<1>3. ASSUME NEW n \in Tensor PROVE s[n] = s[n - 1] + w[n]
  <2>1. n \in 0 .. MaxTensor /\ n - 1 \in 0 .. MaxTensor
    BY <1>1 DEF Tensor
  <2>2. w[n] = IF n = a THEN w[a] ELSE 0
    OBVIOUS
  <2>3. n - 1 < a <=> (n < a \/ n = a)
    BY <1>1, <2>1
  <2>4. QED
    BY <1>1, <2>1, <2>2, <2>3
<1> HIDE DEF s
<1>4. QED
  BY <1>2, <1>3 DEF SumsTo

\* ... and to nothing else.
LEMMA SumOfOneIs ==
  ASSUME NEW a \in Tensor, NEW w \in [Tensor -> Int], \A y \in Tensor \ {a} : w[y] = 0,
         NEW K, SumsTo(w, K)
  PROVE  K = w[a]
<1>1. MaxTensor \in Nat /\ a \in 1 .. MaxTensor
  BY BoundsAssumption DEF Tensor
<1>2. PICK s \in [0 .. MaxTensor -> Int] :
        /\ s[0] = 0
        /\ \A n \in Tensor : s[n] = s[n - 1] + w[n]
        /\ s[MaxTensor] = K
  BY DEF SumsTo
<1> DEFINE T == {n \in 0 .. MaxTensor : s[n] = IF n < a THEN 0 ELSE w[a]}
<1>3. 0 \in T
  BY <1>1, <1>2
<1>4. ASSUME NEW n \in Tensor, n - 1 \in T PROVE n \in T
  <2>1. n \in 0 .. MaxTensor /\ n - 1 \in 0 .. MaxTensor
    BY <1>1 DEF Tensor
  <2>2. w[n] = IF n = a THEN w[a] ELSE 0
    OBVIOUS
  <2>3. n - 1 < a <=> (n < a \/ n = a)
    BY <1>1, <2>1
  <2>4. s[n] = s[n - 1] + w[n] /\ s[n - 1] = IF n - 1 < a THEN 0 ELSE w[a]
    BY <1>2, <1>4
  <2>5. QED
    BY <1>1, <2>1, <2>2, <2>3, <2>4
<1>5. MaxTensor \in T
  <2> HIDE DEF T
  <2>1. QED
    BY <1>3, <1>4, CountInduction
<1>6. QED
  BY <1>1, <1>2, <1>5

\* Changing one weight changes the sum by as much.
LEMMA SumChanges ==
  ASSUME NEW a \in Tensor, NEW v \in [Tensor -> Int], NEW w \in [Tensor -> Int],
         \A y \in Tensor \ {a} : w[y] = v[y],
         NEW K \in Int, SumsTo(v, K)
  PROVE  SumsTo(w, K + (w[a] - v[a]))
<1>1. MaxTensor \in Nat /\ a \in 1 .. MaxTensor
  BY BoundsAssumption DEF Tensor
<1>2. PICK s \in [0 .. MaxTensor -> Int] :
        /\ s[0] = 0
        /\ \A n \in Tensor : s[n] = s[n - 1] + v[n]
        /\ s[MaxTensor] = K
  BY DEF SumsTo
<1>3. PICK d \in Int : d = w[a] - v[a]
  OBVIOUS
<1> DEFINE r == [n \in 0 .. MaxTensor |-> IF n < a THEN s[n] ELSE s[n] + d]
<1>4. r \in [0 .. MaxTensor -> Int] /\ r[0] = 0 /\ r[MaxTensor] = K + d
  BY <1>1, <1>2
<1>5. ASSUME NEW n \in Tensor PROVE r[n] = r[n - 1] + w[n]
  <2>1. n \in 0 .. MaxTensor /\ n - 1 \in 0 .. MaxTensor
    BY <1>1 DEF Tensor
  <2>2. w[n] = IF n = a THEN v[n] + d ELSE v[n]
    BY <1>3
  <2>3. n - 1 < a <=> (n < a \/ n = a)
    BY <1>1, <2>1
  <2>4. s[n] = s[n - 1] + v[n] /\ s[n] \in Int /\ s[n - 1] \in Int /\ v[n] \in Int
    BY <1>2, <2>1
  <2>5. /\ r[n] = IF n < a THEN s[n] ELSE s[n] + d
        /\ r[n - 1] = IF n < a \/ n = a THEN s[n - 1] ELSE s[n - 1] + d
    BY <2>1, <2>3
  <2> HIDE DEF r
  <2>6. QED
    BY <1>1, <2>1, <2>2, <2>4, <2>5
<1> HIDE DEF r
<1>6. QED
  BY <1>3, <1>4, <1>5 DEF SumsTo

-----------------------------------------------------------------------------
(***************************************************************************)
(* A Backward between two visits.                                          *)
(***************************************************************************)

\* Stated apart, since the products are not linear.
LEMMA Unfolded ==
  ASSUME NEW a \in Int, NEW b \in Int, NEW c \in Int
  PROVE  (a + b) * c = a * c + b * c
OBVIOUS

\* What the tensors of U, each with the gradient it has, will bring to x.
Weights(C, U, part, x) ==
  [y \in Tensor |-> IF y \in U THEN part[y] * C[y][x] ELSE 0]

CountsAt(C, x) == \A y \in Tensor : C[y][x] \in Nat

\* Weights are numbers.
LEMMA WeightsType ==
  ASSUME NEW C, NEW x, CountsAt(C, x), NEW part \in [Tensor -> Nat], NEW U
  PROVE  Weights(C, U, part, x) \in [Tensor -> Int]
<1>1. ASSUME NEW y \in Tensor PROVE part[y] * C[y][x] \in Int
  <2>1. part[y] \in Int /\ C[y][x] \in Int
    BY DEF CountsAt
  <2>2. QED
    BY <2>1
<1>2. QED
  BY <1>1 DEF Weights

\* y is visited.
LEMMA WeightOfVisited ==
  ASSUME NEW C, NEW x, CountsAt(C, x), NEW part \in [Tensor -> Nat],
         NEW U, NEW y \in Tensor, y \in U, NEW K \in Int,
         SumsTo(Weights(C, U, part, x), K)
  PROVE  SumsTo(Weights(C, U \ {y}, part, x), K - part[y] * C[y][x])
<1>1. PICK v : v = Weights(C, U, part, x)
  OBVIOUS
<1>2. PICK w : w = Weights(C, U \ {y}, part, x)
  OBVIOUS
<1>3. v \in [Tensor -> Int] /\ w \in [Tensor -> Int]
  BY <1>1, <1>2, WeightsType
<1>4. w[y] = 0 /\ v[y] = part[y] * C[y][x] /\ \A z \in Tensor \ {y} : w[z] = v[z]
  BY <1>1, <1>2 DEF Weights
<1>5. SumsTo(w, K + (w[y] - v[y]))
  BY <1>1, <1>3, <1>4, SumChanges
<1>6. K + (w[y] - v[y]) = K - part[y] * C[y][x]
  BY <1>3, <1>4
<1>7. QED
  BY <1>2, <1>5, <1>6

\* c is handed to the operand p.
Handed(R, c, part, p) == [part EXCEPT ![p] = IF R[p] THEN @ + c ELSE @]

\* Handing on keeps the gradients numbers.
LEMMA HandedType ==
  ASSUME NEW R, NEW c \in Nat, NEW part \in [Tensor -> Nat], NEW p \in Tensor
  PROVE  Handed(R, c, part, p) \in [Tensor -> Nat]
BY DEF Handed

\* Handing c to p adds c for every path from p.
LEMMA WeightOfHanded ==
  ASSUME NEW C, NEW x, CountsAt(C, x), NEW R, NEW c \in Nat,
         NEW part \in [Tensor -> Nat], NEW U, NEW p \in Tensor, p \in U,
         NEW K \in Int, SumsTo(Weights(C, U, part, x), K)
  PROVE  SumsTo(Weights(C, U, Handed(R, c, part, p), x), K + c * Via(R, C, p, x))
<1>1. PICK v : v = Weights(C, U, part, x)
  OBVIOUS
<1>2. PICK w : w = Weights(C, U, Handed(R, c, part, p), x)
  OBVIOUS
<1>3. v \in [Tensor -> Int] /\ w \in [Tensor -> Int]
  BY <1>1, <1>2, WeightsType, HandedType
<1>4. \A z \in Tensor \ {p} : w[z] = v[z]
  BY <1>1, <1>2 DEF Weights, Handed
<1>5. /\ v[p] = part[p] * C[p][x]
      /\ w[p] = (IF R[p] THEN part[p] + c ELSE part[p]) * C[p][x]
  BY <1>1, <1>2 DEF Weights, Handed
<1>6. /\ (part[p] + c) * C[p][x] = part[p] * C[p][x] + c * C[p][x]
      /\ part[p] * C[p][x] \in Int /\ c * C[p][x] \in Int /\ c * 0 = 0
  <2>1. part[p] \in Int /\ c \in Int /\ C[p][x] \in Int
    BY DEF CountsAt
  <2>2. QED
    BY <2>1, Unfolded
<1>7. w[p] - v[p] = c * Via(R, C, p, x)
  BY <1>5, <1>6 DEF Via
<1>8. SumsTo(w, K + (w[p] - v[p]))
  BY <1>1, <1>3, <1>4, SumChanges
<1>9. QED
  BY <1>2, <1>7, <1>8

\* ApplyNode, one operand after the other.
Passed(G, R, part, x) ==
  [p \in Tensor |->
     IF R[p]
     THEN part[p] + part[x] * Cardinality({i \in DOMAIN G[x] : G[x][i] = p})
     ELSE part[p]]

\* ApplyNode, written out for no, one and two operands.
LEMMA PassedIs ==
  ASSUME NEW G, Tape(G), NEW R, NEW part \in [Tensor -> Nat], NEW x \in Tensor
  PROVE  Passed(G, R, part, x) =
           IF DOMAIN G[x] = {} THEN part
           ELSE IF DOMAIN G[x] = {1} THEN Handed(R, part[x], part, G[x][1])
           ELSE Handed(R, part[x], Handed(R, part[x], part, G[x][1]), G[x][2])
<1> DEFINE places(p) == {i \in DOMAIN G[x] : G[x][i] = p}
<1>1. DOMAIN G[x] \in {{}, {1}, {1, 2}} /\ \A i \in DOMAIN G[x] : G[x][i] \in Tensor
  BY Operands
<1>2. Cardinality({}) = 0 /\ Cardinality({1}) = 1 /\ Cardinality({2}) = 1
      /\ Cardinality({1, 2}) = 2
  <2>1. /\ \A i : IsFiniteSet({i}) /\ Cardinality({i}) = 1
        /\ Cardinality({}) = 0
    BY FS_EmptySet, FS_Singleton, Zenon
  <2>2. IsFiniteSet({1}) /\ Cardinality({1}) = 1 /\ Cardinality({2}) = 1
    BY <2>1, Zenon
  <2>3. 2 \notin {1} /\ {1} \cup {2} = {1, 2}
    OBVIOUS
  <2>4. Cardinality({1} \cup {2}) = Cardinality({1}) + 1
    BY <2>2, <2>3, FS_AddElement
  <2>5. Cardinality({1, 2}) = 1 + 1
    BY <2>2, <2>3, <2>4
  <2>6. QED
    BY <2>1, <2>2, <2>5
<1>3. PICK c \in Nat : c = part[x]
  OBVIOUS
<1>4. c * 0 = 0 /\ c * 1 = c /\ c * 2 = c + c
  OBVIOUS
<1>5. CASE DOMAIN G[x] = {}
  <2>1. \A p \in Tensor : Cardinality(places(p)) = 0
    BY <1>2, <1>5
  <2>2. \A p \in Tensor : Passed(G, R, part, x)[p] = part[p]
    BY <1>3, <1>4, <2>1 DEF Passed
  <2>3. QED
    BY <1>5, <2>2 DEF Passed
<1>6. CASE DOMAIN G[x] = {1}
  <2>1. PICK a \in Tensor : a = G[x][1]
    BY <1>1, <1>6
  <2>2. \A p \in Tensor : places(p) = IF p = a THEN {1} ELSE {}
    BY <1>6, <2>1
  <2>3. \A p \in Tensor : Cardinality(places(p)) = IF p = a THEN 1 ELSE 0
    BY <1>2, <2>2
  <2>4. \A p \in Tensor : Passed(G, R, part, x)[p]
                            = IF R[p] /\ p = a THEN part[p] + c ELSE part[p]
    BY <1>3, <1>4, <2>3 DEF Passed
  <2>5. \A p \in Tensor : Handed(R, c, part, a)[p]
                            = IF R[p] /\ p = a THEN part[p] + c ELSE part[p]
    BY DEF Handed
  <2>6. Passed(G, R, part, x) = Handed(R, c, part, a)
    BY <2>4, <2>5 DEF Passed, Handed
  <2>7. {1} # {}
    OBVIOUS
  <2>8. QED
    BY <1>3, <1>6, <2>1, <2>6, <2>7
<1>7. CASE DOMAIN G[x] = {1, 2}
  <2>1. PICK a \in Tensor : a = G[x][1]
    BY <1>1, <1>7
  <2>2. PICK b \in Tensor : b = G[x][2]
    BY <1>1, <1>7
  <2>3. \A p \in Tensor : places(p) = IF p = a THEN IF p = b THEN {1, 2} ELSE {1}
                                           ELSE IF p = b THEN {2} ELSE {}
    BY <1>7, <2>1, <2>2
  <2>4. \A p \in Tensor : Cardinality(places(p)) =
          IF p = a THEN IF p = b THEN 2 ELSE 1 ELSE IF p = b THEN 1 ELSE 0
    BY <1>2, <2>3
  <2>5. \A p \in Tensor : Passed(G, R, part, x)[p] =
          IF ~R[p] THEN part[p]
          ELSE IF p = a THEN IF p = b THEN part[p] + (c + c) ELSE part[p] + c
                        ELSE IF p = b THEN part[p] + c ELSE part[p]
    BY <1>3, <1>4, <2>4 DEF Passed
  <2>6. PICK h \in [Tensor -> Nat] : h = Handed(R, c, part, a)
    BY HandedType
  <2>7. \A p \in Tensor : h[p] = IF R[p] /\ p = a THEN part[p] + c ELSE part[p]
    BY <2>6 DEF Handed
  <2>8. \A p \in Tensor : Handed(R, c, h, b)[p]
                            = IF R[p] /\ p = b THEN h[p] + c ELSE h[p]
    BY DEF Handed
  <2>9. ASSUME NEW p \in Tensor
        PROVE  Passed(G, R, part, x)[p] = Handed(R, c, h, b)[p]
    BY <2>5, <2>7, <2>8
  <2>10. Passed(G, R, part, x) = Handed(R, c, h, b)
    BY <2>9 DEF Passed, Handed
  <2>11. {1, 2} # {} /\ {1, 2} # {1}
    OBVIOUS
  <2>12. QED
    BY <1>3, <1>7, <2>1, <2>2, <2>6, <2>10, <2>11
<1>8. QED
  BY <1>1, <1>5, <1>6, <1>7

\* ApplyNode keeps the gradients numbers.
LEMMA PassedType ==
  ASSUME NEW G, Tape(G), NEW R, NEW part \in [Tensor -> Nat], NEW y \in Tensor
  PROVE  Passed(G, R, part, y) \in [Tensor -> Nat]
<1>1. PICK c \in Nat : c = part[y]
  OBVIOUS
<1>2. PICK sent : sent = Passed(G, R, part, y)
  OBVIOUS
<1>3. sent = IF DOMAIN G[y] = {} THEN part
             ELSE IF DOMAIN G[y] = {1} THEN Handed(R, c, part, G[y][1])
             ELSE Handed(R, c, Handed(R, c, part, G[y][1]), G[y][2])
  <2>1. Passed(G, R, part, y) =
          IF DOMAIN G[y] = {} THEN part
          ELSE IF DOMAIN G[y] = {1} THEN Handed(R, part[y], part, G[y][1])
          ELSE Handed(R, part[y], Handed(R, part[y], part, G[y][1]), G[y][2])
    BY PassedIs
  <2>2. QED
    BY <1>1, <1>2, <2>1
<1>4. DOMAIN G[y] \in {{}, {1}, {1, 2}}
      /\ \A i \in DOMAIN G[y] : G[y][i] \in Tensor
  BY Operands
<1>5. CASE DOMAIN G[y] = {}
  BY <1>2, <1>3, <1>5
<1>6. CASE DOMAIN G[y] # {}
  <2>1. 1 \in DOMAIN G[y] /\ Handed(R, c, part, G[y][1]) \in [Tensor -> Nat]
    BY <1>4, <1>6, HandedType
  <2>2. CASE DOMAIN G[y] = {1}
    BY <1>2, <1>3, <1>6, <2>1, <2>2
  <2>3. CASE DOMAIN G[y] = {1, 2}
    <3>1. 2 \in DOMAIN G[y] /\ {1, 2} # {1}
      BY <2>3
    <3>2. sent = Handed(R, c, Handed(R, c, part, G[y][1]), G[y][2])
      BY <1>3, <1>6, <2>3, <3>1
    <3>3. PICK mid \in [Tensor -> Nat] : mid = Handed(R, c, part, G[y][1])
      BY <2>1
    <3>4. G[y][2] \in Tensor
      BY <1>4, <3>1
    <3>5. Handed(R, c, mid, G[y][2]) \in [Tensor -> Nat]
      BY <3>4, HandedType
    <3>6. QED
      BY <1>2, <3>2, <3>3, <3>5
  <2>4. QED
    BY <1>4, <1>6, <2>2, <2>3
<1>7. QED
  BY <1>5, <1>6

\* The tensors of a topology that are still to be visited.
Unvisited(list, n) == {list[i] : i \in 1 .. n}

\* A Backward on the graph G between two visits: what reached the tensors still
\* to be visited is what their paths will bring to each of them.
Walk(G, R, b, list, n, part) ==
  LET root == list[Len(list)] IN
  /\ TopologyOf(G, root, list)
  /\ root \in Tensor /\ root <= b /\ R[root]
  /\ n \in 0 .. Len(list) /\ part \in [Tensor -> Nat]
  /\ \A x \in Unvisited(list, n) :
       SumsTo(Weights(Counts(G, R), Unvisited(list, n), part, x), Counts(G, R)[root][x])

\* The counts of Paths fit the lemmas about weights.
LEMMA CountsInNat ==
  ASSUME NEW G, Tape(G), NEW R, NEW x \in Tensor
  PROVE  CountsAt(Counts(G, R), x)
BY CountsType DEF CountsAt

\* One path, the empty one, leads from a tensor to itself.
LEMMA OnePathToItself ==
  ASSUME NEW G, Tape(G), NEW R, NEW x \in Tensor
  PROVE  Counts(G, R)[x][x] = 1
<1>1. CountRow(G, R, Counts(G, R), x)[x] = 1
  BY CountRowIs
<1>2. QED
  BY <1>1, CountsAre

\* The tensors before position n contain their operands, and not the one there.
LEMMA Prefix ==
  ASSUME NEW G, NEW list, Ordered(G, list), NEW n \in 1 .. Len(list)
  PROVE  /\ Closed(G, Unvisited(list, n - 1))
         /\ list[n] \in Tensor
         /\ \A i \in DOMAIN G[list[n]] : G[list[n]][i] \in Unvisited(list, n - 1)
         /\ list[n] \notin Unvisited(list, n - 1)
         /\ list[n] \in Unvisited(list, n)
         /\ Unvisited(list, n) \ {list[n]} = Unvisited(list, n - 1)
         /\ Unvisited(list, n) \subseteq Tensor
<1>1. /\ list \in Seq(Tensor) /\ DOMAIN list = 1 .. Len(list) /\ Len(list) \in Nat
      /\ \A i, j \in 1 .. Len(list) : list[i] = list[j] => i = j
      /\ \A i \in 1 .. Len(list) : list[i] \in Tensor
      /\ \A i \in 1 .. Len(list) : \A k \in DOMAIN G[list[i]] :
           \E j \in 1 .. i - 1 : list[j] = G[list[i]][k]
  <2>1. /\ list \in Seq(Tensor)
        /\ \A i, j \in DOMAIN list : list[i] = list[j] => i = j
        /\ \A i \in DOMAIN list : \A k \in DOMAIN G[list[i]] :
             \E j \in 1 .. i - 1 : list[j] = G[list[i]][k]
    BY DEF Ordered, Lists
  <2>2. DOMAIN list = 1 .. Len(list) /\ Len(list) \in Nat
        /\ \A i \in 1 .. Len(list) : list[i] \in Tensor
    BY <2>1
  <2>3. QED
    BY <2>1, <2>2
<1>2. PICK m \in Nat : m = n - 1
  BY <1>1
<1>3. 1 .. n = 1 .. m \cup {n} /\ 1 .. m \subseteq 1 .. Len(list) /\ n \notin 1 .. m
      /\ n \in 1 .. Len(list)
  BY <1>1, <1>2
<1>4. \A z : z \in Unvisited(list, m) <=> \E i \in 1 .. m : z = list[i]
  BY DEF Unvisited
<1>5. \A z : z \in Unvisited(list, n) <=> z = list[n] \/ \E i \in 1 .. m : z = list[i]
  BY <1>3 DEF Unvisited
<1>6. list[n] \notin Unvisited(list, m)
  BY <1>1, <1>3, <1>4
<1>7. \A i \in DOMAIN G[list[n]] : G[list[n]][i] \in Unvisited(list, m)
  BY <1>1, <1>2, <1>3, <1>4
<1>8. Closed(G, Unvisited(list, m))
  <2>1. ASSUME NEW y \in Unvisited(list, m), NEW k \in DOMAIN G[y]
        PROVE  G[y][k] \in Unvisited(list, m)
    <3>1. PICK i \in 1 .. m : y = list[i]
      BY <1>4
    <3>2. PICK j \in 1 .. i - 1 : list[j] = G[y][k]
      BY <1>1, <1>3, <2>1, <3>1
    <3>3. j \in 1 .. m
      BY <1>1, <3>1, <3>2
    <3>4. QED
      BY <1>4, <3>2, <3>3
  <2>2. Unvisited(list, m) \subseteq Tensor
    BY <1>1, <1>3, <1>4
  <2>3. QED
    BY <2>1, <2>2 DEF Closed
<1>9. Unvisited(list, n) \ {list[n]} = Unvisited(list, m)
  BY <1>4, <1>5, <1>6
<1>10. Unvisited(list, n) \subseteq Tensor /\ list[n] \in Unvisited(list, n)
  BY <1>1, <1>3, <1>5
<1>11. QED
  BY <1>1, <1>2, <1>3, <1>6, <1>7, <1>8, <1>9, <1>10

\* The root holds 1, and nothing else holds anything.
LEMMA WalkBegins ==
  ASSUME NEW G, Tape(G), NEW R, NEW b, NEW root \in Tensor, root <= b, R[root],
         NEW list, TopologyOf(G, root, list)
  PROVE  Walk(G, R, b, list, Len(list), [Zero EXCEPT ![root] = 1])
<1>1. Len(list) \in Nat \ {0} /\ list[Len(list)] = root /\ Ordered(G, list)
  BY DEF TopologyOf
<1>2. PICK part : part = [Zero EXCEPT ![root] = 1]
  OBVIOUS
<1>3. part \in [Tensor -> Nat] /\ \A y \in Tensor : part[y] = IF y = root THEN 1 ELSE 0
  BY <1>2 DEF Zero
<1>4. PICK n \in Nat : n = Len(list) /\ n \in 0 .. Len(list) /\ n \in 1 .. Len(list)
  BY <1>1
<1>5. PICK U : U = Unvisited(list, n)
  OBVIOUS
<1>6. root \in U /\ U \subseteq Tensor
  BY <1>1, <1>4, <1>5, Prefix
<1>7. ASSUME NEW x \in U PROVE SumsTo(Weights(Counts(G, R), U, part, x), Counts(G, R)[root][x])
  <2>1. PICK C : C = Counts(G, R)
    OBVIOUS
  <2>2. x \in Tensor /\ CountsAt(C, x)
    BY <1>6, <2>1, CountsInNat
  <2>3. PICK w \in [Tensor -> Int] : w = Weights(C, U, part, x)
    BY <1>3, <2>2, WeightsType
  <2>4. \A y \in Tensor : C[y][x] \in Nat
    BY <2>2 DEF CountsAt
  <2>5. w[root] = C[root][x]
    BY <1>3, <1>6, <2>3, <2>4 DEF Weights
  <2>6. \A y \in Tensor \ {root} : w[y] = 0
    BY <1>3, <2>3, <2>4 DEF Weights
  <2>7. SumsTo(w, w[root])
    BY <2>6, SumOfOne
  <2>8. QED
    BY <2>1, <2>3, <2>5, <2>7
<1>8. QED
  BY <1>1, <1>2, <1>3, <1>4, <1>5, <1>7 DEF Walk

\* When a tensor is visited, all of its gradient has reached it.
LEMMA WalkPays ==
  ASSUME NEW G, Tape(G), NEW R, NEW b, NEW list, NEW n, NEW part,
         Walk(G, R, b, list, n, part), n > 0
  PROVE  part[list[n]] = Counts(G, R)[list[Len(list)]][list[n]]
<1>1. PICK root : root = list[Len(list)]
  OBVIOUS
<1>2. /\ Ordered(G, list) /\ n \in 1 .. Len(list) /\ part \in [Tensor -> Nat]
      /\ \A x \in Unvisited(list, n) :
           SumsTo(Weights(Counts(G, R), Unvisited(list, n), part, x),
                  Counts(G, R)[root][x])
  BY <1>1 DEF Walk, TopologyOf
<1>3. PICK U : U = Unvisited(list, n)
  OBVIOUS
<1>4. PICK y \in Tensor : y = list[n]
  BY <1>2, Prefix
<1>5. /\ Closed(G, U \ {y}) /\ y \in U /\ U \subseteq Tensor
  <2>1. /\ Closed(G, Unvisited(list, n - 1))
        /\ list[n] \in Unvisited(list, n)
        /\ Unvisited(list, n) \ {list[n]} = Unvisited(list, n - 1)
        /\ Unvisited(list, n) \subseteq Tensor
    BY <1>2, Prefix
  <2>2. QED
    BY <1>3, <1>4, <2>1
<1>6. PICK C : C = Counts(G, R)
  OBVIOUS
<1>7. CountsAt(C, y) /\ C[y][y] = 1
  BY <1>6, CountsInNat, OnePathToItself
<1>8. \A z \in U \ {y} : C[z][y] = 0
  BY <1>5, <1>6, NoPathOut
<1>9. PICK w \in [Tensor -> Int] : w = Weights(C, U, part, y)
  BY <1>2, <1>7, WeightsType
<1>10. \A z \in Tensor \ {y} : w[z] = 0
  BY <1>2, <1>8, <1>9 DEF Weights
<1>11. w[y] = part[y]
  BY <1>2, <1>5, <1>7, <1>9 DEF Weights
<1>12. SumsTo(w, C[root][y])
  BY <1>2, <1>3, <1>5, <1>6, <1>9
<1>13. C[root][y] = w[y]
  BY <1>10, <1>12, SumOfOneIs
<1>14. QED
  BY <1>1, <1>4, <1>6, <1>11, <1>13

\* One visit.
LEMMA WalkAdvances ==
  ASSUME NEW G, Tape(G), NEW R, NEW b, NEW list, NEW n, NEW part,
         Walk(G, R, b, list, n, part), n > 0
  PROVE  Walk(G, R, b, list, n - 1, Passed(G, R, part, list[n]))
<1>1. PICK root : root = list[Len(list)]
  OBVIOUS
<1>2. /\ Ordered(G, list) /\ n \in 1 .. Len(list) /\ part \in [Tensor -> Nat]
      /\ TopologyOf(G, root, list) /\ root \in Tensor /\ root <= b /\ R[root]
      /\ \A x \in Unvisited(list, n) :
           SumsTo(Weights(Counts(G, R), Unvisited(list, n), part, x),
                  Counts(G, R)[root][x])
  BY <1>1 DEF Walk, TopologyOf
<1>3. PICK U : U = Unvisited(list, n)
  OBVIOUS
<1>4. PICK V : V = Unvisited(list, n - 1)
  OBVIOUS
<1>5. PICK y \in Tensor : y = list[n]
  BY <1>2, Prefix
<1>6. /\ y \in U /\ y \notin V /\ V = U \ {y} /\ U \subseteq Tensor
      /\ \A i \in DOMAIN G[y] : G[y][i] \in V
  <2>1. /\ \A i \in DOMAIN G[list[n]] : G[list[n]][i] \in Unvisited(list, n - 1)
        /\ list[n] \notin Unvisited(list, n - 1)
        /\ list[n] \in Unvisited(list, n)
        /\ Unvisited(list, n) \ {list[n]} = Unvisited(list, n - 1)
        /\ Unvisited(list, n) \subseteq Tensor
    BY <1>2, Prefix
  <2>2. QED
    BY <1>3, <1>4, <1>5, <2>1
<1>7. PICK C : C = Counts(G, R)
  OBVIOUS
<1>8. PICK c \in Nat : c = part[y]
  BY <1>2
<1>9. PICK sent : sent = Passed(G, R, part, y)
  OBVIOUS
<1>10. DOMAIN G[y] \in {{}, {1}, {1, 2}}
       /\ \A i \in DOMAIN G[y] : G[y][i] \in Tensor
  BY Operands
<1>11. sent = IF DOMAIN G[y] = {} THEN part
              ELSE IF DOMAIN G[y] = {1} THEN Handed(R, c, part, G[y][1])
              ELSE Handed(R, c, Handed(R, c, part, G[y][1]), G[y][2])
  <2>1. Passed(G, R, part, y) =
          IF DOMAIN G[y] = {} THEN part
          ELSE IF DOMAIN G[y] = {1} THEN Handed(R, part[y], part, G[y][1])
          ELSE Handed(R, part[y], Handed(R, part[y], part, G[y][1]), G[y][2])
    BY <1>2, PassedIs
  <2>2. QED
    BY <1>8, <1>9, <2>1
<1>12. ASSUME NEW x \in V PROVE SumsTo(Weights(C, V, sent, x), C[root][x])
  <2>1. x \in Tensor /\ x \in U /\ x # y
    BY <1>6
  <2>2. CountsAt(C, x)
    BY <1>7, <2>1, CountsInNat
  <2>3. PICK K \in Int : K = C[root][x]
    BY <1>2, <2>2 DEF CountsAt
  <2>4. PICK k \in Nat : k = C[y][x]
    BY <2>2 DEF CountsAt
  <2>5. SumsTo(Weights(C, V, part, x), K - c * k)
    BY <1>2, <1>3, <1>6, <1>7, <1>8, <2>1, <2>2, <2>3, <2>4, WeightOfVisited
  <2>6. c * k \in Int /\ K - c * k \in Int
    BY SMT
  <2>7. k = IF DOMAIN G[y] = {} THEN 0
            ELSE IF DOMAIN G[y] = {1} THEN 0 + Via(R, C, G[y][1], x)
            ELSE (0 + Via(R, C, G[y][1], x)) + Via(R, C, G[y][2], x)
    <3>1. CountRow(G, R, C, y)[x] =
            IF x = y THEN 1
            ELSE IF DOMAIN G[y] = {} THEN 0
            ELSE IF DOMAIN G[y] = {1} THEN 0 + Via(R, C, G[y][1], x)
            ELSE (0 + Via(R, C, G[y][1], x)) + Via(R, C, G[y][2], x)
      BY <2>1, CountRowIs
    <3>2. C[y] = CountRow(G, R, C, y)
      BY <1>7, CountsAre
    <3>3. QED
      BY <2>1, <2>4, <3>1, <3>2
  <2>8. CASE DOMAIN G[y] = {}
    <3>1. K - c * k = K
      BY <2>7, <2>8
    <3>2. QED
      BY <1>11, <2>3, <2>5, <2>8, <3>1
  <2>9. CASE DOMAIN G[y] = {1}
    <3>1. PICK p \in Tensor : p = G[y][1] /\ p \in V
      BY <1>6, <1>10, <2>9
    <3>2. PICK h \in Nat : h = Via(R, C, p, x)
      BY <2>2 DEF Via, CountsAt
    <3>3. k = h /\ sent = Handed(R, c, part, p)
      <4>1. {1} # {}
        OBVIOUS
      <4>2. QED
        BY <1>11, <2>7, <2>9, <3>1, <3>2, <4>1
    <3>4. SumsTo(Weights(C, V, sent, x), (K - c * k) + c * h)
      BY <1>2, <2>2, <2>5, <2>6, <3>1, <3>2, <3>3, WeightOfHanded
    <3>5. (K - c * k) + c * h = K
      BY <2>6, <3>3
    <3>6. QED
      BY <2>3, <3>4, <3>5
  <2>10. CASE DOMAIN G[y] = {1, 2}
    <3>1. PICK p \in Tensor : p = G[y][1] /\ p \in V
      BY <1>6, <1>10, <2>10
    <3>2. PICK q \in Tensor : q = G[y][2] /\ q \in V
      BY <1>6, <1>10, <2>10
    <3>3. PICK h \in Nat : h = Via(R, C, p, x)
      BY <2>2 DEF Via, CountsAt
    <3>4. PICK g \in Nat : g = Via(R, C, q, x)
      BY <2>2 DEF Via, CountsAt
    <3>5. PICK mid \in [Tensor -> Nat] : mid = Handed(R, c, part, p)
      BY <1>2, HandedType
    <3>6. k = h + g /\ sent = Handed(R, c, mid, q)
      <4>1. {1, 2} # {} /\ {1, 2} # {1}
        OBVIOUS
      <4>2. sent = Handed(R, c, Handed(R, c, part, G[y][1]), G[y][2])
            /\ k = (0 + Via(R, C, G[y][1], x)) + Via(R, C, G[y][2], x)
        BY <1>11, <2>7, <2>10, <4>1
      <4>3. QED
        BY <3>1, <3>2, <3>3, <3>4, <3>5, <4>2
    <3>7. SumsTo(Weights(C, V, mid, x), (K - c * k) + c * h)
      BY <1>2, <2>2, <2>5, <2>6, <3>1, <3>3, <3>5, WeightOfHanded
    <3>8. (K - c * k) + c * h \in Int
      BY <2>6
    <3>9. SumsTo(Weights(C, V, sent, x), ((K - c * k) + c * h) + c * g)
      BY <2>2, <3>2, <3>4, <3>5, <3>6, <3>7, <3>8, WeightOfHanded
    <3>10. ((K - c * k) + c * h) + c * g = K
      BY <3>6
    <3>11. QED
      BY <2>3, <3>9, <3>10
  <2>11. QED
    BY <1>10, <2>8, <2>9, <2>10
<1>13. sent \in [Tensor -> Nat]
  BY <1>2, <1>9, PassedType
<1>14. n - 1 \in 0 .. Len(list)
  BY <1>2 DEF TopologyOf
<1>15. QED
  BY <1>1, <1>2, <1>4, <1>5, <1>7, <1>9, <1>12, <1>13, <1>14 DEF Walk

\* What is recorded beside a walk does not concern it.
LEMMA WalkStays ==
  ASSUME NEW G, Tape(G), NEW H, Tape(H), NEW R, NEW S, NEW b \in Int, NEW e \in Int,
         b <= e, \A y \in Tensor : y <= b => H[y] = G[y] /\ R[y] = S[y],
         NEW list, NEW n, NEW part, Walk(G, R, b, list, n, part)
  PROVE  Walk(H, S, e, list, n, part)
<1>1. PICK root : root = list[Len(list)]
  OBVIOUS
<1>2. /\ Ordered(G, list) /\ n \in 0 .. Len(list) /\ part \in [Tensor -> Nat]
      /\ TopologyOf(G, root, list) /\ root \in Tensor /\ root <= b /\ R[root]
      /\ \A x \in Unvisited(list, n) :
           SumsTo(Weights(Counts(G, R), Unvisited(list, n), part, x),
                  Counts(G, R)[root][x])
  BY <1>1 DEF Walk, TopologyOf
<1>3. \A i \in DOMAIN list : list[i] \in Tensor /\ list[i] <= b
  <2>1. \A i \in DOMAIN list : list[i] \in 1 .. root
    BY <1>2 DEF TopologyOf, ToSet
  <2>2. root \in Int
    BY <1>2 DEF Tensor
  <2>3. \A i \in DOMAIN list : list[i] \in Tensor
    BY <1>2 DEF Ordered, Lists
  <2>4. \A z \in 1 .. root : z <= b
    BY <1>2, <2>2
  <2>5. QED
    BY <2>1, <2>3, <2>4
<1>4. Ordered(H, list)
  <2>1. \A i \in DOMAIN list : H[list[i]] = G[list[i]]
    BY <1>3
  <2>2. QED
    BY <1>2, <2>1 DEF Ordered
<1>5. PICK U : U = Unvisited(list, n)
  OBVIOUS
<1>6. U \subseteq Tensor /\ \A y \in U : y <= b
  <2>1. 1 .. n \subseteq DOMAIN list
    BY <1>2 DEF TopologyOf, Ordered, Lists
  <2>2. QED
    BY <1>3, <1>5, <2>1 DEF Unvisited
<1>7. PICK C : C = Counts(G, R)
  OBVIOUS
<1>8. PICK D : D = Counts(H, S)
  OBVIOUS
<1>9. \A y \in Tensor : y <= b => C[y] = D[y]
  BY <1>7, <1>8, CountsAgree
<1>10. ASSUME NEW x \in U PROVE SumsTo(Weights(D, U, part, x), D[root][x])
  <2>1. Weights(D, U, part, x) = Weights(C, U, part, x)
    BY <1>6, <1>9 DEF Weights
  <2>2. D[root] = C[root]
    BY <1>2, <1>9
  <2>3. QED
    BY <1>2, <1>5, <1>7, <2>1, <2>2
<1>11. TopologyOf(H, root, list)
  BY <1>2, <1>4 DEF TopologyOf
<1>12. root <= e /\ S[root]
  BY <1>2 DEF Tensor
<1>13. QED
  BY <1>1, <1>2, <1>5, <1>8, <1>10, <1>11, <1>12 DEF Walk

-----------------------------------------------------------------------------
(***************************************************************************)
(* The types, and the walk as an invariant.                                *)
(***************************************************************************)

\* An operation has one operand or two.
Framed ==
  /\ TypeOK /\ next \in [Thread -> Nat]
  /\ \A x \in Tensor : Len(parents[x]) <= 2

\* The operand lists form a tape.
LEMMA FramedTape ==
  ASSUME Framed
  PROVE  Tape(parents)
BY DEF Framed, TypeOK, Tape

\* The initial state is typed.
LEMMA InitFramed == Init => Framed
<1> SUFFICES ASSUME Init PROVE Framed
  OBVIOUS
<1>1. \A x \in Tensor : Zero[x] = 0
  BY DEF Zero
<1>2. Zero \in [Tensor -> Nat]
  BY DEF Zero
<1>3. <<>> \in Seq(Tensor) /\ <<>> \in Seq(Nat) /\ Len(<<>>) = 0 /\ DOMAIN <<>> = {}
  OBVIOUS
<1>4. 0 \in 0 .. MaxTensor /\ 0 \in 0 .. MaxWrites /\ 0 \in 0 .. MaxBackward
  BY BoundsAssumption
<1>5. \A x \in Tensor : parents[x] = <<>> /\ saved[x] = <<>>
  BY DEF Init
<1>6. \A t \in Thread : next[t] \in 0 .. Len(topology[t])
  BY <1>3 DEF Init
<1>7. TypeOK
  BY <1>2, <1>3, <1>4, <1>5, <1>6 DEF Init, TypeOK, Status
<1>8. QED
  BY <1>3, <1>5, <1>7 DEF Init, Framed

\* A list made from another one, entry by entry.
LEMMA ListOf ==
  ASSUME NEW A, NEW s \in Seq(A), NEW f, DOMAIN f = DOMAIN s,
         f = [i \in DOMAIN s |-> f[i]], \A i \in DOMAIN s : f[i] \in Nat
  PROVE  f \in Seq(Nat) /\ Len(f) = Len(s)
<1>1. PICK n \in Nat : n = Len(s) /\ DOMAIN s = 1 .. n
  OBVIOUS
<1>2. f \in [1 .. n -> Nat]
  BY <1>1
<1>3. QED
  BY <1>1, <1>2

\* AttachNode leaves a tape.
LEMMA AttachNodeFramed ==
  ASSUME Framed, NEW x \in Tensor, x > built, NEW operands \in Seq(Built),
         Len(operands) <= 2, AttachNode(x, operands)
  PROVE  /\ parents' \in [Tensor -> Seq(Tensor)]
         /\ saved' \in [Tensor -> Seq(Nat)] /\ seen' \in [Tensor -> Seq(Nat)]
         /\ requires_grad' \in [Tensor -> BOOLEAN]
         /\ \A y \in Tensor :
              /\ Len(saved'[y]) = Len(parents'[y]) /\ Len(parents'[y]) <= 2
              /\ \A i \in DOMAIN parents'[y] : parents'[y][i] < y
         /\ \A y \in Tensor \ {x} : parents'[y] = parents[y] /\ requires_grad'[y] = requires_grad[y]
<1>1. CASE UNCHANGED <<parents, saved, seen, requires_grad>>
  BY <1>1 DEF Framed, TypeOK
<1>2. CASE /\ parents' = [parents EXCEPT ![x] = operands]
           /\ saved' = [saved EXCEPT ![x] = SavedVersions(operands)]
           /\ seen' = [seen EXCEPT ![x] =
                         [i \in DOMAIN operands |-> content[storage[operands[i]]]]]
           /\ requires_grad' = [requires_grad EXCEPT ![x] = TRUE]
  <2>1. /\ operands \in Seq(Tensor)
        /\ \A i \in DOMAIN operands : operands[i] \in Tensor /\ operands[i] < x
    <3>1. Built \subseteq Tensor /\ built \in Nat
      BY BoundsAssumption DEF Framed, TypeOK, Built, Tensor
    <3>2. \A i \in DOMAIN operands : operands[i] \in Built
      OBVIOUS
    <3>3. \A i \in DOMAIN operands : operands[i] \in Tensor /\ operands[i] < x
      BY <3>1, <3>2 DEF Built, Tensor
    <3>4. operands \in Seq(Tensor)
      BY <3>1
    <3>5. QED
      BY <3>3, <3>4
  <2>2. SavedVersions(operands) \in Seq(Nat) /\ Len(SavedVersions(operands)) = Len(operands)
    <3>1. PICK f : f = SavedVersions(operands)
      OBVIOUS
    <3>2. DOMAIN f = DOMAIN operands /\ f = [i \in DOMAIN operands |-> f[i]]
          /\ \A i \in DOMAIN operands : f[i] \in Nat
      BY <2>1, <3>1 DEF SavedVersions, Framed, TypeOK
    <3>3. QED
      BY <2>1, <3>1, <3>2, ListOf
  <2>3. PICK g : g = [i \in DOMAIN operands |-> content[storage[operands[i]]]]
    OBVIOUS
  <2>4. g \in Seq(Nat)
    <3>1. DOMAIN g = DOMAIN operands /\ g = [i \in DOMAIN operands |-> g[i]]
          /\ \A i \in DOMAIN operands : g[i] \in Nat
      BY <2>1, <2>3 DEF Framed, TypeOK
    <3>2. QED
      BY <2>1, <3>1, ListOf
  <2>5. seen' = [seen EXCEPT ![x] = g]
    BY <1>2, <2>3
  <2>6. /\ parents \in [Tensor -> Seq(Tensor)] /\ saved \in [Tensor -> Seq(Nat)]
        /\ seen \in [Tensor -> Seq(Nat)] /\ requires_grad \in [Tensor -> BOOLEAN]
        /\ \A y \in Tensor : /\ Len(saved[y]) = Len(parents[y]) /\ Len(parents[y]) <= 2
                             /\ \A i \in DOMAIN parents[y] : parents[y][i] < y
    BY DEF Framed, TypeOK
  <2>7. /\ parents' \in [Tensor -> Seq(Tensor)]
        /\ saved' \in [Tensor -> Seq(Nat)] /\ seen' \in [Tensor -> Seq(Nat)]
        /\ requires_grad' \in [Tensor -> BOOLEAN]
    BY <1>2, <2>1, <2>2, <2>4, <2>5, <2>6
  <2>8. ASSUME NEW y \in Tensor
        PROVE  /\ Len(saved'[y]) = Len(parents'[y]) /\ Len(parents'[y]) <= 2
               /\ \A i \in DOMAIN parents'[y] : parents'[y][i] < y
               /\ y # x => parents'[y] = parents[y] /\ requires_grad'[y] = requires_grad[y]
    <3>1. CASE y = x
      BY <1>2, <2>1, <2>2, <2>6, <3>1
    <3>2. CASE y # x
      BY <1>2, <2>6, <3>2
    <3>3. QED
      BY <3>1, <3>2
  <2>9. QED
    BY <2>7, <2>8
<1>3. QED
  BY <1>1, <1>2 DEF AttachNode

\* What a forward operation leaves: the next tensor on the tape, nothing else.
Recorded(x) ==
  /\ x \in Tensor /\ x = built + 1 /\ built' = x
  /\ \A y \in Tensor \ {x} : parents'[y] = parents[y] /\ requires_grad'[y] = requires_grad[y]
  /\ UNCHANGED <<gradient, call>>

\* A forward operation records one tensor and keeps the types.
LEMMA ForwardFramed ==
  ASSUME Framed, Forward
  PROVE  Framed' /\ \E x : Recorded(x)
<1>1. ASSUME NEW x \in Tensor, New(x) PROVE x > built /\ built' \in 0 .. MaxTensor
  BY <1>1, BoundsAssumption DEF New, Framed, TypeOK, Tensor
<1>2. ASSUME NEW requires \in BOOLEAN, Create(requires)
      PROVE  Framed' /\ \E x : Recorded(x)
  <2>1. PICK x \in Tensor :
          /\ New(x)
          /\ requires_grad' = [requires_grad EXCEPT ![x] = requires]
          /\ UNCHANGED <<storage, counter, parents, saved, seen,
                         values, gradient, call>>
    BY <1>2 DEF Create
  <2>2. requires_grad' \in [Tensor -> BOOLEAN]
        /\ \A y \in Tensor \ {x} : requires_grad'[y] = requires_grad[y]
    BY <2>1 DEF Framed, TypeOK
  <2>3. built' \in 0 .. MaxTensor
    BY <1>1, <2>1
  <2>4. Framed'
    BY <2>1, <2>2, <2>3 DEF Framed, TypeOK, values, call
  <2>5. Recorded(x)
    BY <2>1, <2>2 DEF Recorded, New
  <2>6. QED
    BY <2>4, <2>5
<1>3. ASSUME NEW operands \in Seq(Built), Len(operands) <= 2, NEW x \in Tensor,
             New(x), AttachNode(x, operands),
             storage' \in [Tensor -> Tensor], counter' \in [Tensor -> Tensor],
             UNCHANGED <<values, gradient, call>>
      PROVE  Framed' /\ Recorded(x)
  <2>1. x > built /\ built' \in 0 .. MaxTensor
    BY <1>1, <1>3
  <2>2. /\ parents' \in [Tensor -> Seq(Tensor)]
        /\ saved' \in [Tensor -> Seq(Nat)] /\ seen' \in [Tensor -> Seq(Nat)]
        /\ requires_grad' \in [Tensor -> BOOLEAN]
        /\ \A y \in Tensor :
             /\ Len(saved'[y]) = Len(parents'[y]) /\ Len(parents'[y]) <= 2
             /\ \A i \in DOMAIN parents'[y] : parents'[y][i] < y
        /\ \A y \in Tensor \ {x} : parents'[y] = parents[y] /\ requires_grad'[y] = requires_grad[y]
    BY <1>3, <2>1, AttachNodeFramed
  <2>3. Framed'
    BY <1>3, <2>1, <2>2 DEF Framed, TypeOK, values, call
  <2>4. Recorded(x)
    BY <1>3, <2>2 DEF Recorded, New
  <2>5. QED
    BY <2>3, <2>4
<1>4. ASSUME NEW operands \in Seq(Built), Len(operands) <= 2, Compute(operands)
      PROVE  Framed' /\ \E x : Recorded(x)
  <2>1. PICK x \in Tensor :
          /\ New(x) /\ AttachNode(x, operands)
          /\ UNCHANGED <<storage, counter, values, gradient, call>>
    BY <1>4 DEF Compute
  <2>2. storage' \in [Tensor -> Tensor] /\ counter' \in [Tensor -> Tensor]
    BY <2>1 DEF Framed, TypeOK
  <2>3. Framed' /\ Recorded(x)
    BY <1>3, <1>4, <2>1, <2>2
  <2>4. QED
    BY <2>3
<1>5. ASSUME NEW source \in Built, View(source)
      PROVE  Framed' /\ \E x : Recorded(x)
  <2>1. PICK x \in Tensor :
          /\ New(x) /\ AttachNode(x, <<source>>)
          /\ storage' = [storage EXCEPT ![x] = storage[source]]
          /\ counter' = [counter EXCEPT ![x] = counter[source]]
          /\ UNCHANGED <<values, gradient, call>>
    BY <1>5 DEF View, ViewCounter
  <2>2. source \in Tensor
    BY BoundsAssumption DEF Framed, TypeOK, Built, Tensor
  <2>3. storage' \in [Tensor -> Tensor] /\ counter' \in [Tensor -> Tensor]
    BY <2>1, <2>2 DEF Framed, TypeOK
  <2>4. <<source>> \in Seq(Built) /\ Len(<<source>>) <= 2
    OBVIOUS
  <2>5. Framed' /\ Recorded(x)
    BY <1>3, <2>1, <2>3, <2>4
  <2>6. QED
    BY <2>5
<1>6. \A x, y \in Built : /\ <<x>> \in Seq(Built) /\ Len(<<x>>) <= 2
                          /\ <<x, y>> \in Seq(Built) /\ Len(<<x, y>>) <= 2
  OBVIOUS
<1>7. QED
  BY <1>2, <1>4, <1>5, <1>6 DEF Forward

\* A call writes no tensor often enough to matter: the writes are a number.
LEMMA WritesType ==
  ASSUME NEW a, NEW b, NEW P \in SUBSET {a, b}
  PROVE  Cardinality(P) \in Nat
<1>1. IsFiniteSet({a} \cup {b})
  BY FS_Singleton, FS_AddElement
<1>2. {a} \cup {b} = {a, b}
  OBVIOUS
<1>3. IsFiniteSet(P)
  BY <1>1, <1>2, FS_Subset
<1>4. QED
  BY <1>3, FS_CardinalityType

\* Writes advance versions and contents by numbers.
LEMMA WriteValuesType ==
  ASSUME Framed, NEW a, NEW b, NEW targets, targets = {a, b}, WriteValues(targets)
  PROVE  version' \in [Tensor -> Nat] /\ content' \in [Tensor -> Nat]
<1>1. ASSUME NEW c \in Tensor
      PROVE  /\ Cardinality({x \in targets : counter[x] = c}) \in Nat
             /\ Cardinality({x \in targets : storage[x] = c}) \in Nat
  <2>1. /\ {x \in targets : counter[x] = c} \in SUBSET {a, b}
        /\ {x \in targets : storage[x] = c} \in SUBSET {a, b}
    OBVIOUS
  <2>2. QED
    BY <2>1, WritesType
<1>2. version \in [Tensor -> Nat] /\ content \in [Tensor -> Nat]
  BY DEF Framed, TypeOK
<1>3. /\ content' = [s \in Tensor |->
          content[s] + Cardinality({x \in targets : storage[x] = s})]
      /\ version' = [c \in Tensor |->
          version[c] + Cardinality({x \in targets : counter[x] = c})]
  BY Zenon DEF WriteValues, IncrementVersions
<1>4. ASSUME NEW c \in Tensor
      PROVE  /\ version[c] + Cardinality({x \in targets : counter[x] = c}) \in Nat
             /\ content[c] + Cardinality({x \in targets : storage[x] = c}) \in Nat
  <2>1. PICK m \in Nat : m = Cardinality({x \in targets : counter[x] = c})
    BY <1>1
  <2>2. PICK n \in Nat : n = Cardinality({x \in targets : storage[x] = c})
    BY <1>1
  <2>3. version[c] + m \in Nat /\ content[c] + n \in Nat
    BY <1>2
  <2>4. QED
    BY <2>1, <2>2, <2>3
<1>5. QED
  BY <1>3, <1>4

\* What a writing call may do to the leaves.
Dropped ==
  /\ NoBackwardRunning
  /\ \A x \in Tensor : gradient'[x] \in {0, gradient[x]}
  /\ UNCHANGED <<graph, call>>

\* A writing call keeps the types and at most drops gradients.
LEMMA MutateFramed ==
  ASSUME Framed, Mutate
  PROVE  Framed' /\ Dropped
<1>1. ASSUME NEW a, NEW b, NEW targets, targets = {a, b}, AssignMany(targets)
      PROVE  Framed' /\ Dropped
  <2>1. /\ version' \in [Tensor -> Nat] /\ content' \in [Tensor -> Nat]
        /\ writes' \in 0 .. MaxWrites
    <3>1. WriteValues(targets) /\ BeginWrite
      BY <1>1 DEF AssignMany
    <3>2. writes' \in 0 .. MaxWrites
      BY <3>1, BoundsAssumption DEF BeginWrite, Framed, TypeOK
    <3>3. QED
      BY <1>1, <3>1, <3>2, WriteValuesType
  <2>2. /\ gradient' \in [Tensor -> Nat]
        /\ \A x \in Tensor : gradient'[x] \in {0, gradient[x]}
    BY <1>1 DEF AssignMany, ClearGradients, Framed, TypeOK
  <2>3. NoBackwardRunning /\ UNCHANGED <<graph, requires_grad, call>>
    BY <1>1 DEF AssignMany, BeginWrite
  <2>4. QED
    BY <2>1, <2>2, <2>3 DEF Framed, TypeOK, Dropped, graph, call
<1>2. ASSUME NEW a, NEW b, NEW targets, targets = {a, b}, OptimizerStep(targets)
      PROVE  Framed' /\ Dropped
  <2>1. /\ version' \in [Tensor -> Nat] /\ content' \in [Tensor -> Nat]
        /\ writes' \in 0 .. MaxWrites
    <3>1. WriteValues(targets) /\ BeginWrite
      BY <1>2 DEF OptimizerStep
    <3>2. writes' \in 0 .. MaxWrites
      BY <3>1, BoundsAssumption DEF BeginWrite, Framed, TypeOK
    <3>3. QED
      BY <1>2, <3>1, <3>2, WriteValuesType
  <2>2. NoBackwardRunning /\ UNCHANGED <<graph, leaves, call>>
    BY <1>2 DEF OptimizerStep, BeginWrite
  <2>3. QED
    BY <2>1, <2>2 DEF Framed, TypeOK, Dropped, graph, leaves, call
<1>3. ASSUME NEW targets, ZeroGrad(targets) PROVE Framed' /\ Dropped
  <2>1. /\ gradient' \in [Tensor -> Nat]
        /\ \A x \in Tensor : gradient'[x] \in {0, gradient[x]}
    BY <1>3 DEF ZeroGrad, ClearGradients, Framed, TypeOK
  <2>2. NoBackwardRunning /\ UNCHANGED <<graph, values, requires_grad, call>>
    BY <1>3 DEF ZeroGrad
  <2>3. QED
    BY <2>1, <2>2 DEF Framed, TypeOK, Dropped, graph, values, call
<1>4. ASSUME NEW x, NEW requires \in BOOLEAN, SetRequiresGrad(x, requires)
      PROVE  Framed' /\ Dropped
  <2>1. /\ gradient' \in [Tensor -> Nat]
        /\ \A y \in Tensor : gradient'[y] \in {0, gradient[y]}
    <3>1. CASE gradient' = gradient
      BY <3>1 DEF Framed, TypeOK
    <3>2. CASE gradient' = [gradient EXCEPT ![x] = 0]
      BY <3>2 DEF Framed, TypeOK
    <3>3. QED
      BY <1>4, <3>1, <3>2 DEF SetRequiresGrad, GradientWhenSet
  <2>2. /\ NoBackwardRunning /\ UNCHANGED <<graph, values, call>>
        /\ requires_grad' = [requires_grad EXCEPT ![x] = requires]
    BY <1>4 DEF SetRequiresGrad
  <2>3. requires_grad' \in [Tensor -> BOOLEAN]
    BY <2>2 DEF Framed, TypeOK
  <2>4. QED
    BY <2>1, <2>2, <2>3 DEF Framed, TypeOK, Dropped, graph, values, call
<1>5. ASSUME NEW targets \in Targets,
             AssignMany(targets) \/ OptimizerStep(targets) \/ ZeroGrad(targets)
      PROVE  Framed' /\ Dropped
  <2>1. PICK a, b \in Built : targets = {a, b}
    BY DEF Targets
  <2>2. QED
    BY <1>1, <1>2, <1>3, <1>5, <2>1
<1>6. QED
  BY <1>4, <1>5 DEF Mutate

\* Every running Backward is a walk.
Walks ==
  \A t \in Thread : status[t] = "running" =>
    Walk(parents, requires_grad, built, topology[t], next[t], partial[t])

WalkInv == Framed /\ Walks

\* Forward operations run beside a Backward and do not disturb it.
LEMMA RecordedWalks ==
  ASSUME WalkInv, Framed', NEW x, Recorded(x)
  PROVE  Walks'
<1>1. Tape(parents) /\ Tape(parents')
  BY DEF WalkInv, Framed, TypeOK, Tape
<1>2. /\ built \in Int /\ built' \in Int /\ built <= built'
      /\ \A y \in Tensor : y <= built => y \in Tensor \ {x}
  BY BoundsAssumption DEF WalkInv, Framed, TypeOK, Recorded, Tensor
<1>3. \A y \in Tensor : y <= built =>
        parents'[y] = parents[y] /\ requires_grad[y] = requires_grad'[y]
  BY <1>2 DEF Recorded
<1>4. ASSUME NEW t \in Thread, status'[t] = "running"
      PROVE  Walk(parents', requires_grad', built', topology'[t], next'[t], partial'[t])
  <2>1. /\ status[t] = "running" /\ topology'[t] = topology[t] /\ next'[t] = next[t]
        /\ partial'[t] = partial[t]
    BY <1>4 DEF Recorded, call
  <2>2. Walk(parents, requires_grad, built, topology[t], next[t], partial[t])
    BY <2>1 DEF WalkInv, Walks
  <2>3. Walk(parents', requires_grad', built', topology[t], next[t], partial[t])
    BY <1>1, <1>2, <1>3, <2>2, WalkStays
  <2>4. QED
    BY <2>1, <2>3
<1>5. QED
  BY <1>4 DEF Walks

\* What Backward of another thread finds as it was.
LEMMA OthersWalk ==
  ASSUME WalkInv, UNCHANGED <<graph, requires_grad>>, NEW t \in Thread,
         \A u \in Thread \ {t} : /\ status'[u] = status[u] /\ topology'[u] = topology[u]
                                 /\ next'[u] = next[u] /\ partial'[u] = partial[u],
         status'[t] = "running" =>
           Walk(parents, requires_grad, built, topology'[t], next'[t], partial'[t])
  PROVE  Walks'
BY DEF WalkInv, Walks, graph

\* BeginBackward starts a walk on a topology of its root, or refuses.
LEMMA BeginWalk ==
  ASSUME WalkInv, NEW t \in Thread, NEW root \in Tensor, BeginBackward(t, root)
  PROVE  Framed' /\ Walks'
<1>1. PICK list : list = BuildTopology(root)
  OBVIOUS
<1>2. /\ root \in Built /\ requires_grad[root]
      /\ UNCHANGED <<graph, values, leaves>> /\ backwards' = backwards + 1
      /\ backwards < MaxBackward
      /\ \/ /\ status' = [status EXCEPT ![t] = "running"]
            /\ topology' = [topology EXCEPT ![t] = list]
            /\ next' = [next EXCEPT ![t] = Len(list)]
            /\ partial' = [partial EXCEPT ![t] = [Zero EXCEPT ![root] = 1]]
         \/ /\ status' = [status EXCEPT ![t] = "failed"]
            /\ UNCHANGED <<topology, next, partial>>
  BY <1>1, Zenon DEF BeginBackward, RequiresGrad
<1>3. Tape(parents) /\ root \in Int /\ root <= built
  <2>1. root \in Int /\ root <= built
    BY <1>2 DEF Built
  <2>2. QED
    BY <2>1, FramedTape DEF WalkInv
<1>4. TopologyOf(parents, root, list)
  BY <1>1, <1>3, TopologyIs
<1>5. list \in Seq(Tensor) /\ Len(list) \in Nat
  BY <1>4 DEF TopologyOf, Ordered, Lists
<1>6. backwards' \in 0 .. MaxBackward
  BY <1>2, BoundsAssumption DEF WalkInv, Framed, TypeOK
<1>7. [Zero EXCEPT ![root] = 1] \in [Tensor -> Nat]
  BY DEF Zero
<1>8. /\ status \in [Thread -> Status] /\ topology \in [Thread -> Seq(Tensor)]
      /\ next \in [Thread -> Nat] /\ partial \in [Thread -> [Tensor -> Nat]]
      /\ \A u \in Thread : next[u] \in 0 .. Len(topology[u])
  BY DEF WalkInv, Framed, TypeOK
<1>9. CASE /\ status' = [status EXCEPT ![t] = "running"]
           /\ topology' = [topology EXCEPT ![t] = list]
           /\ next' = [next EXCEPT ![t] = Len(list)]
           /\ partial' = [partial EXCEPT ![t] = [Zero EXCEPT ![root] = 1]]
  <2>1. /\ status' \in [Thread -> Status] /\ topology' \in [Thread -> Seq(Tensor)]
        /\ next' \in [Thread -> Nat] /\ partial' \in [Thread -> [Tensor -> Nat]]
    BY <1>5, <1>7, <1>8, <1>9 DEF Status
  <2>2. \A u \in Thread : next'[u] \in 0 .. Len(topology'[u])
    BY <1>5, <1>8, <1>9
  <2>3. Framed'
    BY <1>2, <1>6, <2>1, <2>2 DEF WalkInv, Framed, TypeOK, graph, values, leaves
  <2>4. Walk(parents, requires_grad, built, list, Len(list), [Zero EXCEPT ![root] = 1])
    BY <1>2, <1>3, <1>4, WalkBegins
  <2>5. Walk(parents, requires_grad, built, topology'[t], next'[t], partial'[t])
    BY <1>8, <1>9, <2>4
  <2>6. \A u \in Thread \ {t} : /\ status'[u] = status[u] /\ topology'[u] = topology[u]
                                /\ next'[u] = next[u] /\ partial'[u] = partial[u]
    BY <1>8, <1>9
  <2>7. UNCHANGED <<graph, requires_grad>>
    BY <1>2 DEF leaves
  <2>8. QED
    BY <2>3, <2>5, <2>6, <2>7, OthersWalk
<1>10. CASE /\ status' = [status EXCEPT ![t] = "failed"]
            /\ UNCHANGED <<topology, next, partial>>
  <2>1. status' \in [Thread -> Status] /\ status'[t] # "running"
        /\ \A u \in Thread \ {t} : status'[u] = status[u]
    BY <1>8, <1>10 DEF Status
  <2>2. Framed'
    BY <1>2, <1>6, <1>10, <2>1 DEF WalkInv, Framed, TypeOK, graph, values, leaves
  <2>3. UNCHANGED <<graph, requires_grad>>
    BY <1>2 DEF leaves
  <2>4. Walks'
    BY <1>10, <2>1, <2>3, OthersWalk
  <2>5. QED
    BY <2>2, <2>4
<1>11. QED
  BY <1>2, <1>9, <1>10

\* What a visit does, seen from the walk.
Stepped(t, y) ==
  /\ status[t] = "running" /\ next[t] > 0 /\ y = topology[t][next[t]] /\ y \in Tensor
  /\ next' = [next EXCEPT ![t] = @ - 1]
  /\ partial' = [partial EXCEPT ![t] = Passed(parents, requires_grad, partial[t], y)]
  /\ gradient' = IF IsLeaf(y) /\ RequiresGrad(y)
                 THEN [gradient EXCEPT ![y] = @ + partial[t][y]] ELSE gradient
  /\ UNCHANGED <<graph, values, requires_grad, status, topology, backwards>>

\* The three branches of Visit are one step of the walk.
LEMMA VisitSteps ==
  ASSUME WalkInv, NEW t \in Thread, Visit(t)
  PROVE  Stepped(t, topology[t][next[t]])
<1>1. PICK y : y = topology[t][next[t]]
  OBVIOUS
<1>2. /\ topology[t] \in Seq(Tensor) /\ next[t] \in 1 .. Len(topology[t])
      /\ partial \in [Thread -> [Tensor -> Nat]] /\ gradient \in [Tensor -> Nat]
      /\ status[t] = "running" /\ next[t] > 0
  <2>1. status[t] = "running" /\ next[t] > 0
    BY DEF Visit
  <2>2. /\ topology[t] \in Seq(Tensor) /\ next[t] \in 0 .. Len(topology[t])
        /\ partial \in [Thread -> [Tensor -> Nat]] /\ gradient \in [Tensor -> Nat]
    BY DEF WalkInv, Framed, TypeOK
  <2>3. QED
    BY <2>1, <2>2
<1>3. y \in Tensor
  BY <1>1, <1>2
<1>4. /\ \/ partial[t][y] = 0 /\ UNCHANGED <<gradient, partial>>
         \/ /\ partial[t][y] # 0 /\ IsLeaf(y) /\ UNCHANGED partial
            /\ gradient' = IF RequiresGrad(y)
                           THEN [gradient EXCEPT ![y] = @ + partial[t][y]] ELSE gradient
         \/ /\ partial[t][y] # 0 /\ ~IsLeaf(y) /\ UNCHANGED gradient
            /\ partial' = [partial EXCEPT ![t] = Contribute(y, @)]
      /\ next' = [next EXCEPT ![t] = @ - 1]
      /\ UNCHANGED <<graph, values, requires_grad, status, topology, backwards>>
  BY <1>1, Zenon DEF Visit
<1>5. PICK sent : sent = Passed(parents, requires_grad, partial[t], y)
  OBVIOUS
<1>6. PICK part \in [Tensor -> Nat] : part = partial[t]
  BY <1>2
<1>7. Tape(parents)
  BY FramedTape DEF WalkInv
<1>8. part[y] = 0 => sent = part
  <2>1. SUFFICES ASSUME part[y] = 0 PROVE sent = part
    OBVIOUS
  <2>2. ASSUME NEW R, NEW p \in [Tensor -> Nat], NEW a \in Tensor PROVE Handed(R, 0, p, a) = p
    <3>1. \A z \in Tensor : Handed(R, 0, p, a)[z] = p[z]
      BY DEF Handed
    <3>2. QED
      BY <3>1 DEF Handed
  <2>3. PICK s : s = parents[y]
    OBVIOUS
  <2>4. DOMAIN s \in {{}, {1}, {1, 2}} /\ \A i \in DOMAIN s : s[i] \in Tensor
    BY <1>3, <1>7, <2>3, Operands
  <2>5. sent = IF DOMAIN s = {} THEN part
               ELSE IF DOMAIN s = {1} THEN Handed(requires_grad, 0, part, s[1])
               ELSE Handed(requires_grad, 0, Handed(requires_grad, 0, part, s[1]), s[2])
    <3>1. Passed(parents, requires_grad, part, y) =
            IF DOMAIN parents[y] = {} THEN part
            ELSE IF DOMAIN parents[y] = {1}
            THEN Handed(requires_grad, part[y], part, parents[y][1])
            ELSE Handed(requires_grad, part[y],
                        Handed(requires_grad, part[y], part, parents[y][1]),
                        parents[y][2])
      BY <1>3, <1>7, PassedIs
    <3>2. QED
      BY <1>5, <1>6, <2>1, <2>3, <3>1
  <2>6. /\ DOMAIN s # {} => Handed(requires_grad, 0, part, s[1]) = part
        /\ DOMAIN s = {1, 2} => Handed(requires_grad, 0, part, s[2]) = part
    <3>1. /\ DOMAIN s # {} => s[1] \in Tensor
          /\ DOMAIN s = {1, 2} => s[2] \in Tensor
      BY <2>4
    <3>2. QED
      BY <2>2, <3>1
  <2>7. QED
    BY <2>4, <2>5, <2>6
<1>9. IsLeaf(y) => sent = part
  <2>1. Passed(parents, requires_grad, part, y) =
          IF DOMAIN parents[y] = {} THEN part
          ELSE IF DOMAIN parents[y] = {1}
          THEN Handed(requires_grad, part[y], part, parents[y][1])
          ELSE Handed(requires_grad, part[y],
                      Handed(requires_grad, part[y], part, parents[y][1]),
                      parents[y][2])
    BY <1>3, <1>7, PassedIs
  <2>2. IsLeaf(y) => DOMAIN parents[y] = {}
    BY DEF IsLeaf
  <2>3. QED
    BY <1>5, <1>6, <2>1, <2>2
<1>10. Contribute(y, partial[t]) = sent
  BY <1>5, Zenon DEF Contribute, Passed, RequiresGrad
<1>11. partial' = [partial EXCEPT ![t] = sent]
  <2>1. CASE UNCHANGED partial /\ sent = part
    BY <1>2, <1>6, <2>1
  <2>2. CASE partial' = [partial EXCEPT ![t] = Contribute(y, @)]
    <3>1. partial' = [partial EXCEPT ![t] = Contribute(y, partial[t])]
      BY <2>2
    <3>2. QED
      BY <1>10, <3>1
  <2>3. QED
    BY <1>4, <1>6, <1>8, <1>9, <2>1, <2>2
<1>12. gradient' = IF IsLeaf(y) /\ RequiresGrad(y)
                   THEN [gradient EXCEPT ![y] = @ + partial[t][y]] ELSE gradient
  <2>1. CASE partial[t][y] = 0 /\ gradient' = gradient
    <3>1. gradient[y] + partial[t][y] = gradient[y]
      BY <1>2, <1>3, <2>1
    <3>2. [gradient EXCEPT ![y] = gradient[y] + partial[t][y]] = gradient
      BY <1>2, <3>1
    <3>3. QED
      BY <2>1, <3>2
  <2>2. QED
    BY <1>4, <2>1
<1>13. QED
  BY <1>1, <1>2, <1>3, <1>4, <1>5, <1>11, <1>12, Zenon DEF Stepped

\* A visit advances its own walk.
LEMMA VisitWalk ==
  ASSUME WalkInv, NEW t \in Thread, NEW y, Stepped(t, y)
  PROVE  Framed' /\ Walks'
<1>1. Tape(parents)
  BY FramedTape DEF WalkInv
<1>2. /\ status \in [Thread -> Status] /\ topology \in [Thread -> Seq(Tensor)]
      /\ next \in [Thread -> Nat] /\ partial \in [Thread -> [Tensor -> Nat]]
      /\ gradient \in [Tensor -> Nat]
      /\ \A u \in Thread : next[u] \in 0 .. Len(topology[u])
  BY DEF WalkInv, Framed, TypeOK
<1>3. /\ y \in Tensor /\ y = topology[t][next[t]] /\ next[t] > 0 /\ status[t] = "running"
      /\ UNCHANGED <<graph, values, requires_grad, status, topology, backwards>>
  BY DEF Stepped
<1>4. PICK sent : sent = Passed(parents, requires_grad, partial[t], y)
  OBVIOUS
<1>5. sent \in [Tensor -> Nat]
  BY <1>1, <1>2, <1>3, <1>4, PassedType
<1>6. partial' = [partial EXCEPT ![t] = sent] /\ next' = [next EXCEPT ![t] = @ - 1]
  BY <1>4 DEF Stepped
<1>7. partial' \in [Thread -> [Tensor -> Nat]] /\ next' \in [Thread -> Nat]
      /\ \A u \in Thread : next'[u] \in 0 .. Len(topology[u])
  <2>1. partial' \in [Thread -> [Tensor -> Nat]]
    BY <1>2, <1>5, <1>6
  <2>2. PICK n \in Nat : n = next[t] - 1 /\ n \in 0 .. Len(topology[t])
    <3>1. topology[t] \in Seq(Tensor) /\ next[t] \in 0 .. Len(topology[t])
      BY <1>2
    <3>2. Len(topology[t]) \in Nat
      BY <3>1
    <3>3. next[t] - 1 \in Nat /\ next[t] - 1 \in 0 .. Len(topology[t])
      BY <1>3, <3>1, <3>2
    <3>4. QED
      BY <3>3, Zenon
  <2>3. next' = [next EXCEPT ![t] = n]
    BY <1>6, <2>2
  <2>4. next' \in [Thread -> Nat]
        /\ \A u \in Thread : next'[u] = IF u = t THEN n ELSE next[u]
    BY <1>2, <2>3
  <2>5. \A u \in Thread : next'[u] \in 0 .. Len(topology[u])
    BY <1>2, <2>2, <2>4
  <2>6. QED
    BY <2>1, <2>4, <2>5
<1>8. gradient' \in [Tensor -> Nat]
  <2>1. PICK g \in Nat : g = gradient[y] + partial[t][y]
    BY <1>2, <1>3
  <2>2. gradient' = gradient \/ gradient' = [gradient EXCEPT ![y] = g]
    BY <2>1 DEF Stepped
  <2>3. QED
    BY <1>2, <2>2
<1>9. Framed'
  BY <1>3, <1>7, <1>8 DEF WalkInv, Framed, TypeOK, graph, values
<1>10. Walk(parents, requires_grad, built, topology[t], next[t] - 1, sent)
  <2>1. Walk(parents, requires_grad, built, topology[t], next[t], partial[t])
    BY <1>3 DEF WalkInv, Walks
  <2>2. Walk(parents, requires_grad, built, topology[t], next[t] - 1,
             Passed(parents, requires_grad, partial[t], topology[t][next[t]]))
    BY <1>1, <1>3, <2>1, WalkAdvances
  <2>3. QED
    BY <1>3, <1>4, <2>2
<1>11. /\ topology'[t] = topology[t] /\ next'[t] = next[t] - 1 /\ partial'[t] = sent
       /\ \A u \in Thread \ {t} : /\ status'[u] = status[u] /\ topology'[u] = topology[u]
                                  /\ next'[u] = next[u] /\ partial'[u] = partial[u]
  BY <1>2, <1>3, <1>6
<1>12. Walks'
  BY <1>3, <1>10, <1>11, OthersWalk
<1>13. QED
  BY <1>9, <1>12

\* A return ends the walk.
LEMMA ReturnWalk ==
  ASSUME WalkInv, NEW t \in Thread, NEW outcome \in {"ok", "failed"}, Return(t, outcome),
         UNCHANGED <<graph, values, leaves, backwards>>
  PROVE  Framed' /\ Walks'
<1>1. /\ status \in [Thread -> Status] /\ topology \in [Thread -> Seq(Tensor)]
      /\ next \in [Thread -> Nat] /\ partial \in [Thread -> [Tensor -> Nat]]
      /\ \A u \in Thread : next[u] \in 0 .. Len(topology[u])
  BY DEF WalkInv, Framed, TypeOK
<1>2. Zero \in [Tensor -> Nat] /\ <<>> \in Seq(Tensor) /\ Len(<<>>) = 0
  BY DEF Zero
<1>3. /\ status' = [status EXCEPT ![t] = outcome]
      /\ topology' = [topology EXCEPT ![t] = <<>>]
      /\ next' = [next EXCEPT ![t] = 0]
      /\ partial' = [partial EXCEPT ![t] = Zero]
  BY DEF Return
<1>4. /\ status' \in [Thread -> Status] /\ topology' \in [Thread -> Seq(Tensor)]
      /\ next' \in [Thread -> Nat] /\ partial' \in [Thread -> [Tensor -> Nat]]
  BY <1>1, <1>2, <1>3 DEF Status
<1>5. ASSUME NEW u \in Thread PROVE next'[u] \in 0 .. Len(topology'[u])
  <2>1. CASE u = t
    BY <1>1, <1>2, <1>3, <2>1
  <2>2. CASE u # t
    BY <1>1, <1>3, <2>2
  <2>3. QED
    BY <2>1, <2>2
<1>6. Framed'
  BY <1>4, <1>5 DEF WalkInv, Framed, TypeOK, graph, values, leaves
<1>7. /\ status'[t] # "running"
      /\ \A u \in Thread \ {t} : /\ status'[u] = status[u] /\ topology'[u] = topology[u]
                                 /\ next'[u] = next[u] /\ partial'[u] = partial[u]
  BY <1>1, <1>3
<1>8. UNCHANGED <<graph, requires_grad>>
  BY DEF leaves
<1>9. Walks'
  BY <1>7, <1>8, OthersWalk
<1>10. QED
  BY <1>6, <1>9

\* Every step keeps the invariant.
LEMMA WalkInvStep ==
  ASSUME WalkInv, [Next]_vars
  PROVE  WalkInv'
<1>1. CASE UNCHANGED vars
  BY <1>1 DEF WalkInv, Framed, TypeOK, Walks, vars, graph, values, leaves, call
<1>2. CASE Forward
  <2>1. Framed' /\ \E x : Recorded(x)
    BY <1>2, ForwardFramed DEF WalkInv
  <2>2. QED
    BY <2>1, RecordedWalks DEF WalkInv
<1>3. CASE Mutate
  <2>1. Framed' /\ Dropped
    BY <1>3, MutateFramed DEF WalkInv
  <2>2. Walks'
    BY <2>1 DEF Walks, Dropped, NoBackwardRunning, call
  <2>3. QED
    BY <2>1, <2>2 DEF WalkInv
<1>4. ASSUME NEW t \in Thread, Backward(t) PROVE WalkInv'
  <2>1. ASSUME NEW root \in Tensor, BeginBackward(t, root) PROVE WalkInv'
    BY <2>1, BeginWalk DEF WalkInv
  <2>2. ASSUME Visit(t) PROVE WalkInv'
    BY <2>2, VisitSteps, VisitWalk DEF WalkInv
  <2>3. ASSUME BackwardFails(t) \/ BackwardReturns(t) PROVE WalkInv'
    BY <2>3, ReturnWalk DEF WalkInv, BackwardFails, BackwardReturns
  <2>4. QED
    BY <1>4, <2>1, <2>2, <2>3 DEF Backward
<1>5. QED
  BY <1>1, <1>2, <1>3, <1>4 DEF Next

\* In every reachable state each running Backward is a walk: the topology lists
\* the graph of its root in order, and the gradients that have reached the tensors
\* still to be visited account for every path (BuildTopology, the main loop).
THEOREM WalkInvariance == Spec => []WalkInv
<1>1. Init => WalkInv
  <2> SUFFICES ASSUME Init PROVE WalkInv
    OBVIOUS
  <2>1. Walks
    BY DEF Init, Walks
  <2>2. QED
    BY <2>1, InitFramed DEF WalkInv
<1>2. WalkInv /\ [Next]_vars => WalkInv'
  BY WalkInvStep
<1>3. QED
  BY <1>1, <1>2, PTL DEF Spec

\* The types of the state, among them that operands are older than results and
\* that the main loop stays inside its topology, hold in every reachable state.
THEOREM TypeCorrect == Spec => []TypeOK
<1>1. WalkInv => TypeOK
  BY DEF WalkInv, Framed
<1>2. QED
  BY <1>1, WalkInvariance, PTL

-----------------------------------------------------------------------------
(***************************************************************************)
(* The refinement, step by step.                                           *)
(***************************************************************************)

\* What a graph owes the leaves, and a call that has n tensors still to visit.
DueIn(G, R, root) ==
  [x \in Tensor |-> IF G[x] = <<>> /\ R[x] /\ R[root] THEN Counts(G, R)[root][x] ELSE 0]

OwedIn(G, R, list, n) ==
  [x \in Tensor |->
     IF \E i \in 1 .. n : list[i] = x THEN DueIn(G, R, list[Len(list)])[x] ELSE 0]

\* LeafPaths, now and after a step, as functions of the graph alone.
LEMMA LeafPathsAre ==
  /\ \A root : LeafPaths(root) = DueIn(parents, requires_grad, root)
  /\ \A root : LeafPaths(root)' = DueIn(parents', requires_grad', root)
<1>1. ASSUME NEW root PROVE LeafPaths(root) = DueIn(parents, requires_grad, root)
  BY Zenon DEF LeafPaths, DueIn, IsLeaf, RequiresGrad, Paths, Counts, CountStep, CountRow, Via
<1>2. ASSUME NEW root PROVE LeafPaths(root)' = DueIn(parents', requires_grad', root)
  BY Zenon DEF LeafPaths, DueIn, IsLeaf, RequiresGrad, Paths, Counts, CountStep, CountRow, Via
<1>3. QED
  BY <1>1, <1>2

\* Likewise what the graph of each root owes ...
LEMMA DueIs ==
  /\ Due = [root \in Tensor |-> DueIn(parents, requires_grad, root)]
  /\ Due' = [root \in Tensor |-> DueIn(parents', requires_grad', root)]
BY LeafPathsAre, Zenon DEF Due

OwedOf(G, R, state, list, n) == IF state # "running" THEN Zero ELSE OwedIn(G, R, list, n)

\* ... and what the calls still owe.
LEMMA OwedIs ==
  /\ Owed = [t \in Thread |->
               OwedOf(parents, requires_grad, status[t], topology[t], next[t])]
  /\ Owed' = [t \in Thread |->
                OwedOf(parents', requires_grad', status'[t], topology'[t], next'[t])]
BY LeafPathsAre, Zenon DEF Owed, OwedOf, OwedIn, Zero

\* At its beginning a call owes all that the graph does.
LEMMA OwedAtFirst ==
  ASSUME NEW G, Tape(G), NEW R, NEW root \in Tensor, NEW list, TopologyOf(G, root, list)
  PROVE  OwedIn(G, R, list, Len(list)) = DueIn(G, R, root)
<1>1. /\ Ordered(G, list) /\ Len(list) \in Nat \ {0} /\ list[Len(list)] = root
  BY DEF TopologyOf
<1>2. PICK n \in Nat : n = Len(list) /\ n \in 1 .. Len(list)
  BY <1>1
<1>3. PICK U : U = Unvisited(list, n)
  OBVIOUS
<1>4. Closed(G, U) /\ root \in U
  <2>1. /\ Closed(G, Unvisited(list, n - 1))
        /\ \A i \in DOMAIN G[list[n]] : G[list[n]][i] \in Unvisited(list, n - 1)
        /\ list[n] \in Unvisited(list, n)
        /\ Unvisited(list, n) \ {list[n]} = Unvisited(list, n - 1)
        /\ Unvisited(list, n) \subseteq Tensor
    BY <1>1, <1>2, Prefix
  <2>2. PICK V : V = Unvisited(list, n - 1)
    OBVIOUS
  <2>3. /\ U \subseteq Tensor /\ V = U \ {root} /\ root \in U
        /\ \A i \in DOMAIN G[root] : G[root][i] \in V
        /\ \A y \in V : \A i \in DOMAIN G[y] : G[y][i] \in V
    BY <1>1, <1>2, <1>3, <2>1, <2>2 DEF Closed
  <2>4. QED
    BY <2>3 DEF Closed
<1>5. ASSUME NEW x \in Tensor, x \notin U PROVE DueIn(G, R, root)[x] = 0
  <2>1. Counts(G, R)[root][x] = 0
    BY <1>4, <1>5, NoPathOut
  <2>2. QED
    BY <2>1 DEF DueIn
<1>6. \A x \in Tensor : x \in U <=> \E i \in 1 .. n : list[i] = x
  BY <1>3 DEF Unvisited
<1>7. ASSUME NEW x \in Tensor
      PROVE  OwedIn(G, R, list, Len(list))[x] = DueIn(G, R, root)[x]
  BY <1>1, <1>2, <1>5, <1>6 DEF OwedIn
<1>8. OwedIn(G, R, list, Len(list)) = [x \in Tensor |-> OwedIn(G, R, list, Len(list))[x]]
      /\ DueIn(G, R, root) = [x \in Tensor |-> DueIn(G, R, root)[x]]
  BY DEF OwedIn, DueIn
<1>9. QED
  BY <1>7, <1>8

\* A visit settles what is owed to its tensor, and that is all that reached it.
Settled(G, R, list, n, part) ==
  LET y == list[n]
      f == OwedIn(G, R, list, n)
  IN  /\ OwedIn(G, R, list, n - 1) = [f EXCEPT ![y] = 0]
      /\ f[y] = IF G[y] = <<>> /\ R[y] THEN part[y] ELSE 0

\* WalkPays, in terms of the ledger.
LEMMA OwedAtVisit ==
  ASSUME NEW G, Tape(G), NEW R, NEW b, NEW list, NEW n, NEW part,
         Walk(G, R, b, list, n, part), n > 0
  PROVE  Settled(G, R, list, n, part)
<1>1. PICK root : root = list[Len(list)]
  OBVIOUS
<1>2. /\ Ordered(G, list) /\ n \in 1 .. Len(list) /\ R[root] /\ root \in Tensor
  BY <1>1 DEF Walk, TopologyOf
<1>3. PICK y : y = list[n]
  OBVIOUS
<1>4. /\ y \in Tensor /\ y \in Unvisited(list, n) /\ y \notin Unvisited(list, n - 1)
      /\ Unvisited(list, n) \ {y} = Unvisited(list, n - 1)
  BY <1>2, <1>3, Prefix
<1>5. part[y] = Counts(G, R)[root][y]
  BY <1>1, <1>3, WalkPays
<1>6. /\ \A x : (\E i \in 1 .. n : list[i] = x) <=> x \in Unvisited(list, n)
      /\ \A x : (\E i \in 1 .. n - 1 : list[i] = x) <=> x \in Unvisited(list, n - 1)
  BY DEF Unvisited
<1>7. \A x \in Tensor :
        /\ OwedIn(G, R, list, n)[x]
             = IF x \in Unvisited(list, n) THEN DueIn(G, R, root)[x] ELSE 0
        /\ OwedIn(G, R, list, n - 1)[x]
             = IF x \in Unvisited(list, n - 1) THEN DueIn(G, R, root)[x] ELSE 0
  BY <1>1, <1>6 DEF OwedIn
<1>8. OwedIn(G, R, list, n)[y] = IF G[y] = <<>> /\ R[y] THEN part[y] ELSE 0
  BY <1>2, <1>4, <1>5, <1>7 DEF DueIn
<1>9. OwedIn(G, R, list, n - 1) = [OwedIn(G, R, list, n) EXCEPT ![y] = 0]
  <2>1. PICK f : f = OwedIn(G, R, list, n)
    OBVIOUS
  <2>2. PICK g : g = OwedIn(G, R, list, n - 1)
    OBVIOUS
  <2>3. f = [x \in Tensor |-> f[x]] /\ g = [x \in Tensor |-> g[x]]
    BY <2>1, <2>2 DEF OwedIn
  <2>4. \A x \in Tensor : g[x] = IF x = y THEN 0 ELSE f[x]
    BY <1>4, <1>7, <2>1, <2>2
  <2>5. g = [f EXCEPT ![y] = 0]
    BY <1>4, <2>3, <2>4
  <2>6. QED
    BY <2>1, <2>2, <2>5
<1>10. QED
  BY <1>3, <1>8, <1>9 DEF Settled

\* What is recorded beside a call changes nothing of what it owes.
LEMMA OwedStays ==
  ASSUME NEW G, Tape(G), NEW H, Tape(H), NEW R, NEW S, NEW b \in Int,
         \A y \in Tensor : y <= b => H[y] = G[y] /\ R[y] = S[y],
         NEW list, NEW n, NEW part, Walk(G, R, b, list, n, part)
  PROVE  OwedIn(G, R, list, n) = OwedIn(H, S, list, n)
<1>1. PICK root : root = list[Len(list)]
  OBVIOUS
<1>2. /\ Ordered(G, list) /\ n \in 0 .. Len(list) /\ ToSet(list) \subseteq 1 .. root
      /\ root \in Tensor /\ root <= b
  BY <1>1 DEF Walk, TopologyOf
<1>3. \A i \in 1 .. n : list[i] <= b
  <2>1. 1 .. n \subseteq DOMAIN list
    BY <1>2 DEF Ordered, Lists
  <2>2. \A i \in DOMAIN list : list[i] \in 1 .. root
    BY <1>2 DEF ToSet
  <2>3. root \in Int /\ \A z \in 1 .. root : z <= b
    BY <1>2 DEF Tensor
  <2>4. QED
    BY <2>1, <2>2, <2>3
<1>4. Counts(G, R)[root] = Counts(H, S)[root] /\ R[root] = S[root]
  BY <1>2, CountsAgree
<1>5. ASSUME NEW x \in Tensor, x <= b PROVE DueIn(G, R, root)[x] = DueIn(H, S, root)[x]
  BY <1>4, <1>5 DEF DueIn
<1>6. ASSUME NEW x \in Tensor
      PROVE  OwedIn(G, R, list, n)[x] = OwedIn(H, S, list, n)[x]
  BY <1>1, <1>3, <1>5 DEF OwedIn
<1>7. QED
  BY <1>6 DEF OwedIn

\* At first nobody owes anything.
LEMMA InitLedger ==
  ASSUME Init
  PROVE  Ledger!Init
<1>1. Owed = [t \in Thread |-> Zero]
  BY DEF Init, Owed
<1>2. Ledger!Nothing = Zero
  BY DEF Ledger!Nothing, Zero
<1>3. QED
  BY <1>1, <1>2 DEF Init, Ledger!Init

\* Forward operations: Record.
LEMMA ForwardRecords ==
  ASSUME WalkInv, Framed', NEW x, Recorded(x)
  PROVE  Ledger!Record
<1>1. Tape(parents) /\ Tape(parents')
  BY DEF WalkInv, Framed, TypeOK, Tape
<1>2. /\ built \in Int /\ \A y \in Tensor : y <= built => y \in Tensor \ {x}
  BY BoundsAssumption DEF WalkInv, Framed, TypeOK, Recorded, Tensor
<1>3. \A y \in Tensor : y <= built =>
        parents'[y] = parents[y] /\ requires_grad[y] = requires_grad'[y]
  BY <1>2 DEF Recorded
<1>4. UNCHANGED <<gradient, status, topology, next>>
  BY DEF Recorded, call
<1>5. ASSUME NEW t \in Thread
      PROVE  OwedOf(parents, requires_grad, status[t], topology[t], next[t])
               = OwedOf(parents', requires_grad', status'[t], topology'[t], next'[t])
  <2>1. CASE status[t] # "running"
    BY <1>4, <2>1 DEF OwedOf
  <2>2. CASE status[t] = "running"
    <3>1. Walk(parents, requires_grad, built, topology[t], next[t], partial[t])
      BY <2>2 DEF WalkInv, Walks
    <3>2. OwedIn(parents, requires_grad, topology[t], next[t])
            = OwedIn(parents', requires_grad', topology[t], next[t])
      BY <1>1, <1>2, <1>3, <3>1, OwedStays
    <3>3. QED
      BY <1>4, <2>2, <3>2 DEF OwedOf
  <2>3. QED
    BY <2>1, <2>2
<1>6. Owed' = Owed
  BY <1>5, OwedIs
<1>7. QED
  BY <1>4, <1>6 DEF Ledger!Record

\* Writers: Clear.
LEMMA MutateClears ==
  ASSUME Dropped
  PROVE  Ledger!Clear
<1>1. /\ \A t \in Thread : status[t] # "running"
      /\ \A x \in Tensor : gradient'[x] \in {0, gradient[x]}
      /\ UNCHANGED status
  BY DEF Dropped, NoBackwardRunning, call
<1>2. Owed = [t \in Thread |-> Zero] /\ Owed' = [t \in Thread |-> Zero]
  BY <1>1, OwedIs DEF OwedOf
<1>3. QED
  BY <1>1, <1>2 DEF Ledger!Clear

\* What a Backward does to the debts of the others: nothing.
LEMMA OthersOwe ==
  ASSUME NEW t \in Thread, UNCHANGED <<parents, requires_grad>>,
         \A u \in Thread \ {t} : /\ status'[u] = status[u] /\ topology'[u] = topology[u]
                                 /\ next'[u] = next[u]
  PROVE  /\ Owed' = [Owed EXCEPT ![t] =
                       OwedOf(parents, requires_grad, status'[t], topology'[t], next'[t])]
         /\ Due' = Due
<1>1. \A u \in Thread \ {t} : Owed'[u] = Owed[u]
  BY OwedIs
<1>2. Owed'[t] = OwedOf(parents, requires_grad, status'[t], topology'[t], next'[t])
  BY OwedIs
<1>3. Owed = [u \in Thread |-> Owed[u]] /\ Owed' = [u \in Thread |-> Owed'[u]]
  BY DEF Owed
<1>4. Due' = Due
  BY DueIs
<1>5. QED
  BY <1>1, <1>2, <1>3, <1>4

\* BeginBackward: Begin, or Refuse when a saved version is stale.
LEMMA BeginBegins ==
  ASSUME WalkInv, NEW t \in Thread, NEW root \in Tensor, BeginBackward(t, root)
  PROVE  Ledger!Begin(t, root) \/ Ledger!Refuse(t)
<1>1. PICK list : list = BuildTopology(root)
  OBVIOUS
<1>2. /\ UNCHANGED <<graph, leaves>> /\ status[t] # "running"
      /\ \/ /\ status' = [status EXCEPT ![t] = "running"]
            /\ topology' = [topology EXCEPT ![t] = list]
            /\ next' = [next EXCEPT ![t] = Len(list)]
         \/ /\ status' = [status EXCEPT ![t] = "failed"]
            /\ UNCHANGED <<topology, next>>
  BY <1>1, Zenon DEF BeginBackward
<1>3. Tape(parents)
  BY FramedTape DEF WalkInv
<1>4. OwedIn(parents, requires_grad, list, Len(list)) = DueIn(parents, requires_grad, root)
  <2>1. TopologyOf(parents, root, list)
    BY <1>1, <1>3, TopologyIs
  <2>2. QED
    BY <1>3, <2>1, OwedAtFirst
<1>5. /\ UNCHANGED <<parents, requires_grad, gradient>>
      /\ DOMAIN status = Thread /\ DOMAIN topology = Thread /\ DOMAIN next = Thread
  BY <1>2 DEF WalkInv, Framed, TypeOK, graph, leaves
<1>6. \A u \in Thread \ {t} : /\ status'[u] = status[u] /\ topology'[u] = topology[u]
                              /\ next'[u] = next[u]
  BY <1>2, <1>5
<1>7. /\ Due' = Due
      /\ Owed' = [Owed EXCEPT ![t] =
                    OwedOf(parents, requires_grad, status'[t], topology'[t], next'[t])]
  BY <1>5, <1>6, OthersOwe
<1>8. CASE /\ status' = [status EXCEPT ![t] = "running"]
           /\ topology' = [topology EXCEPT ![t] = list]
           /\ next' = [next EXCEPT ![t] = Len(list)]
  <2>1. status'[t] = "running" /\ topology'[t] = list /\ next'[t] = Len(list)
    BY <1>5, <1>8
  <2>2. Due[root] = DueIn(parents, requires_grad, root)
    BY DueIs
  <2>3. Owed' = [Owed EXCEPT ![t] = Due[root]]
    BY <1>4, <1>7, <2>1, <2>2 DEF OwedOf
  <2>4. QED
    BY <1>2, <1>5, <1>7, <1>8, <2>3 DEF Ledger!Begin
<1>9. CASE /\ status' = [status EXCEPT ![t] = "failed"]
           /\ UNCHANGED <<topology, next>>
  <2>1. status'[t] = "failed"
    BY <1>5, <1>9
  <2>2. Owed[t] = Zero /\ Owed = [u \in Thread |-> Owed[u]]
    BY <1>2 DEF Owed
  <2>3. Owed' = Owed
    BY <1>7, <2>1, <2>2 DEF OwedOf
  <2>4. QED
    BY <1>2, <1>5, <1>7, <1>9, <2>3 DEF Ledger!Refuse
<1>10. QED
  BY <1>2, <1>8, <1>9

\* Visit: Pay at a leaf that gradients reached, a stutter elsewhere.
LEMMA VisitPays ==
  ASSUME WalkInv, NEW t \in Thread, NEW y, Stepped(t, y)
  PROVE  Ledger!Pay(t, y) \/ UNCHANGED Ledger!lvars
<1>1. /\ status[t] = "running" /\ next[t] > 0 /\ y \in Tensor /\ y = topology[t][next[t]]
      /\ next' = [next EXCEPT ![t] = @ - 1] /\ UNCHANGED <<status, topology>>
      /\ UNCHANGED <<parents, requires_grad>>
      /\ gradient' = IF IsLeaf(y) /\ RequiresGrad(y)
                     THEN [gradient EXCEPT ![y] = @ + partial[t][y]] ELSE gradient
  BY DEF Stepped, graph
<1>2. DOMAIN next = Thread /\ gradient \in [Tensor -> Nat]
  BY DEF WalkInv, Framed, TypeOK
<1>3. PICK f : f = OwedIn(parents, requires_grad, topology[t], next[t])
  OBVIOUS
<1>4. /\ OwedIn(parents, requires_grad, topology[t], next[t] - 1) = [f EXCEPT ![y] = 0]
      /\ f[y] = IF IsLeaf(y) /\ RequiresGrad(y) THEN partial[t][y] ELSE 0
  <2>1. PICK list : list = topology[t]
    OBVIOUS
  <2>2. PICK n : n = next[t]
    OBVIOUS
  <2>3. PICK part : part = partial[t]
    OBVIOUS
  <2>4. Walk(parents, requires_grad, built, list, n, part)
    BY <1>1, <2>1, <2>2, <2>3 DEF WalkInv, Walks
  <2>5. Tape(parents) /\ n > 0
    BY <1>1, <2>2, FramedTape DEF WalkInv
  <2>6. Settled(parents, requires_grad, list, n, part)
    BY <2>4, <2>5, OwedAtVisit
  <2>7. y = list[n] /\ f = OwedIn(parents, requires_grad, list, n)
    BY <1>1, <1>3, <2>1, <2>2
  <2>8. /\ OwedIn(parents, requires_grad, list, n - 1) = [f EXCEPT ![y] = 0]
        /\ f[y] = IF parents[y] = <<>> /\ requires_grad[y] THEN part[y] ELSE 0
    BY <2>6, <2>7 DEF Settled
  <2>9. QED
    BY <2>1, <2>2, <2>3, <2>8 DEF IsLeaf, RequiresGrad
<1>5. Owed[t] = f /\ Owed = [u \in Thread |-> Owed[u]]
  BY <1>1, <1>3, OwedIs DEF OwedOf
<1>6. /\ Due' = Due
      /\ Owed' = [Owed EXCEPT ![t] = [f EXCEPT ![y] = 0]]
  <2>1. \A u \in Thread \ {t} : /\ status'[u] = status[u] /\ topology'[u] = topology[u]
                                /\ next'[u] = next[u]
    BY <1>1, <1>2
  <2>2. /\ Due' = Due
        /\ Owed' = [Owed EXCEPT ![t] =
                      OwedOf(parents, requires_grad, status'[t], topology'[t], next'[t])]
    BY <1>1, <2>1, OthersOwe
  <2>3. status'[t] = "running" /\ topology'[t] = topology[t] /\ next'[t] = next[t] - 1
    BY <1>1, <1>2
  <2>4. OwedOf(parents, requires_grad, status'[t], topology'[t], next'[t]) = [f EXCEPT ![y] = 0]
    BY <1>4, <2>3 DEF OwedOf
  <2>5. QED
    BY <2>2, <2>4
<1>7. f = [x \in Tensor |-> f[x]]
  BY <1>3 DEF OwedIn
<1>8. CASE f[y] = 0
  <2>1. [f EXCEPT ![y] = 0] = f
    BY <1>7, <1>8
  <2>2. Owed' = Owed
    BY <1>5, <1>6, <2>1
  <2>3. gradient' = gradient
    <3>1. CASE IsLeaf(y) /\ RequiresGrad(y)
      <4>1. partial[t][y] = 0
        BY <1>4, <1>8, <3>1
      <4>2. gradient[y] + partial[t][y] = gradient[y]
        BY <1>1, <1>2, <4>1
      <4>3. gradient' = [gradient EXCEPT ![y] = gradient[y] + partial[t][y]]
        BY <1>1, <3>1
      <4>4. QED
        BY <1>2, <4>2, <4>3
    <3>2. CASE ~(IsLeaf(y) /\ RequiresGrad(y))
      BY <1>1, <3>2
    <3>3. QED
      BY <3>1, <3>2
  <2>4. QED
    BY <1>1, <1>6, <2>2, <2>3 DEF Ledger!lvars
<1>9. CASE f[y] # 0
  <2>1. IsLeaf(y) /\ RequiresGrad(y) /\ partial[t][y] = f[y]
    BY <1>4, <1>9
  <2>2. gradient' = [gradient EXCEPT ![y] = gradient[y] + Owed[t][y]]
    <3>1. gradient' = [gradient EXCEPT ![y] = gradient[y] + partial[t][y]]
      BY <1>1, <2>1
    <3>2. QED
      BY <1>5, <2>1, <3>1
  <2>3. Owed' = [Owed EXCEPT ![t][y] = 0]
    BY <1>5, <1>6
  <2>4. QED
    BY <1>1, <1>5, <1>6, <1>9, <2>2, <2>3 DEF Ledger!Pay
<1>10. QED
  BY <1>8, <1>9

\* BackwardFails: Abort. BackwardReturns: Finish, with nothing left to pay.
LEMMA ReturnSettles ==
  ASSUME WalkInv, NEW t \in Thread, BackwardFails(t) \/ BackwardReturns(t)
  PROVE  Ledger!Abort(t) \/ Ledger!Finish(t)
<1>1. PICK outcome \in {"ok", "failed"} :
        /\ Return(t, outcome) /\ status[t] = "running" /\ UNCHANGED <<graph, leaves>>
        /\ outcome = "ok" => next[t] = 0
  BY DEF BackwardFails, BackwardReturns
<1>2. /\ UNCHANGED <<parents, requires_grad, gradient>>
      /\ DOMAIN status = Thread /\ DOMAIN topology = Thread /\ DOMAIN next = Thread
  BY <1>1 DEF WalkInv, Framed, TypeOK, graph, leaves
<1>3. /\ status' = [status EXCEPT ![t] = outcome]
      /\ topology' = [topology EXCEPT ![t] = <<>>]
      /\ next' = [next EXCEPT ![t] = 0]
  BY <1>1 DEF Return
<1>4. \A u \in Thread \ {t} : /\ status'[u] = status[u] /\ topology'[u] = topology[u]
                              /\ next'[u] = next[u]
  BY <1>2, <1>3
<1>5. status'[t] # "running"
  BY <1>1, <1>2, <1>3
<1>6. Due' = Due /\ Owed' = [Owed EXCEPT ![t] = Zero]
  <2>1. /\ Due' = Due
        /\ Owed' = [Owed EXCEPT ![t] =
                      OwedOf(parents, requires_grad, status'[t], topology'[t], next'[t])]
    BY <1>2, <1>4, OthersOwe
  <2>2. OwedOf(parents, requires_grad, status'[t], topology'[t], next'[t]) = Zero
    BY <1>5 DEF OwedOf
  <2>3. QED
    BY <2>1, <2>2
<1>7. Ledger!Nothing = Zero
  BY DEF Ledger!Nothing, Zero
<1>8. CASE outcome = "failed"
  BY <1>1, <1>2, <1>3, <1>6, <1>7, <1>8 DEF Ledger!Abort
<1>9. CASE outcome = "ok"
  <2>1. next[t] = 0
    BY <1>1, <1>9
  <2>2. Owed[t] = Zero
    <3>1. Owed[t] = [x \in Tensor |->
                       IF \E i \in 1 .. next[t] : topology[t][i] = x
                       THEN LeafPaths(topology[t][Len(topology[t])])[x] ELSE 0]
      BY <1>1 DEF Owed
    <3>2. \A x : ~ \E i \in 1 .. next[t] : topology[t][i] = x
      BY <2>1
    <3>3. QED
      BY <3>1, <3>2 DEF Zero
  <2>3. Owed' = Owed
    <3>1. Owed = [u \in Thread |-> Owed[u]]
      BY DEF Owed
    <3>2. QED
      BY <1>6, <2>2, <3>1
  <2>4. QED
    BY <1>1, <1>2, <1>3, <1>6, <1>7, <1>9, <2>2, <2>3 DEF Ledger!Finish
<1>10. QED
  BY <1>8, <1>9

\* Every step of Autograd is one of the ledger, or a stutter.
LEMMA StepImplements ==
  ASSUME WalkInv, [Next]_vars
  PROVE  [Ledger!Next]_Ledger!lvars
<1>1. CASE UNCHANGED vars
  <2>1. /\ UNCHANGED <<parents, requires_grad, gradient, status, topology, next>>
    BY <1>1 DEF vars, graph, leaves, call
  <2>2. Owed' = Owed /\ Due' = Due
    BY <2>1, OwedIs, DueIs
  <2>3. QED
    BY <2>1, <2>2 DEF Ledger!lvars
<1>2. CASE Forward
  BY <1>2, ForwardFramed, ForwardRecords DEF WalkInv, Ledger!Next
<1>3. CASE Mutate
  BY <1>3, MutateFramed, MutateClears DEF WalkInv, Ledger!Next
<1>4. ASSUME NEW t \in Thread, Backward(t)
      PROVE  Ledger!Next \/ UNCHANGED Ledger!lvars
  <2>1. ASSUME NEW root \in Tensor, BeginBackward(t, root) PROVE Ledger!Next
    BY <2>1, BeginBegins DEF Ledger!Next
  <2>2. ASSUME Visit(t) PROVE Ledger!Next \/ UNCHANGED Ledger!lvars
    <3>1. PICK y : y = topology[t][next[t]] /\ Stepped(t, y)
      BY <2>2, VisitSteps
    <3>2. y \in Tensor
      BY <3>1 DEF Stepped
    <3>3. Ledger!Pay(t, y) \/ UNCHANGED Ledger!lvars
      BY <3>1, VisitPays
    <3>4. QED
      BY <3>2, <3>3 DEF Ledger!Next
  <2>3. ASSUME BackwardFails(t) \/ BackwardReturns(t) PROVE Ledger!Next
    BY <2>3, ReturnSettles DEF Ledger!Next
  <2>4. QED
    BY <1>4, <2>1, <2>2, <2>3 DEF Backward
<1>5. QED
  BY <1>1, <1>2, <1>3, <1>4 DEF Next

\* For any number of threads, tensors and calls, Backward implements the ledger:
\* every leaf is paid once, in one step, one gradient for each path from the root
\* through tensors that require gradients, whatever subgraphs and operands are
\* shared; a call that returns ok has paid all of them, and one that fails has
\* paid some leaves in full and the others nothing ("accumulate every contribution
\* exactly once").
THEOREM LedgerIsImplemented == Spec => ImplementsLedger
<1>1. Init => Ledger!Init
  BY InitLedger
<1>2. WalkInv /\ [Next]_vars => [Ledger!Next]_Ledger!lvars
  BY StepImplements
<1>3. QED
  BY <1>1, <1>2, WalkInvariance, PTL DEF Spec, ImplementsLedger, Ledger!Spec
===============================================================================
