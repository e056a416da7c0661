------------------------------ MODULE Autograd ------------------------------
(***************************************************************************)
(* Reverse-mode differentiation on the CPU backend                         *)
(* (native/src/autograd/autograd.h) together with everything that writes   *)
(* the values it saved: AssignMany (nn_v2_state.h), the optimizers         *)
(* (nn_v2_optimizer.h, training_bridge_stub.cc), module loading and        *)
(* freezing (nn_v2_parameter_control.h).                                   *)
(*                                                                         *)
(* Tensors are numbered in the order they are built, so that an operand is *)
(* always older than a result.  They hold one value, and every operation   *)
(* has local derivative 1: a gradient is then the number of paths it has   *)
(* flowed along, which is what accumulation must get right.                *)
(*                                                                         *)
(* A tensor without AutogradMeta is a leaf that does not require gradients:*)
(* every reader of the metadata treats the two alike.                      *)
(*                                                                         *)
(* Forward operations and Backward run on any thread; the meta mutex makes *)
(* each access to a leaf gradient one step.  Writers run alone: mutable    *)
(* training objects are not promised to be safe for concurrent mutation    *)
(* (docs/COMPATIBILITY.md, 14).                                            *)
(***************************************************************************)
EXTENDS Integers, Sequences, FiniteSets, SequencesExt

CONSTANTS
  Thread,      \* threads that run Backward
  MaxTensor,   \* bound: tensors built
  MaxWrites,   \* bound: writing calls
  MaxBackward  \* bound: Backward calls

ASSUME BoundsAssumption ==
  MaxTensor \in Nat /\ MaxWrites \in Nat /\ MaxBackward \in Nat

Tensor == 1 .. MaxTensor

VARIABLES
  built,         \* number of tensors built so far
  storage,       \* the tensor whose construction made each tensor's storage_
  counter,       \* the tensor whose construction made its version_counter_
  version,       \* value of each version counter
  content,       \* how often each storage was written (what a read returns)
  requires_grad, \* AutogradMeta::requires_grad
  gradient,      \* AutogradMeta::gradient, 0 for null
  parents,       \* GradNode::parents, empty for a leaf
  saved,         \* GradNode::parent_versions
  seen,          \* the content of each parent when the result was computed
  status,        \* the Status each thread's last Backward returned
  topology,      \* Backward: the tensors in topological order
  next,          \* Backward: how many of them are still to visit
  partial,       \* Backward: the gradients map, 0 for no entry
  writes,        \* writing calls so far
  backwards      \* Backward calls so far

graph  == <<built, storage, counter, parents, saved, seen>>
values == <<version, content, writes>>
leaves == <<requires_grad, gradient>>
call   == <<status, topology, next, partial, backwards>>
vars   == <<graph, values, leaves, call>>

Built == 1 .. built
IsLeaf(x) == parents[x] = <<>>
RequiresGrad(x) == requires_grad[x]

\* Position i of the parent list of x.
ParentVersion(x, i) == version[counter[parents[x][i]]]
ParentContent(x, i) == content[storage[parents[x][i]]]

Status == {"ok", "running", "failed"}

TypeOK ==
  /\ built \in 0 .. MaxTensor
  /\ storage \in [Tensor -> Tensor] /\ counter \in [Tensor -> Tensor]
  /\ version \in [Tensor -> Nat] /\ content \in [Tensor -> Nat]
  /\ requires_grad \in [Tensor -> BOOLEAN]
  /\ gradient \in [Tensor -> Nat]
  /\ parents \in [Tensor -> Seq(Tensor)]
  /\ saved \in [Tensor -> Seq(Nat)] /\ seen \in [Tensor -> Seq(Nat)]
  /\ \A x \in Tensor :
       /\ Len(saved[x]) = Len(parents[x])
       /\ \A i \in DOMAIN parents[x] : parents[x][i] < x
  /\ status \in [Thread -> Status]
  /\ topology \in [Thread -> Seq(Tensor)]
  /\ \A t \in Thread : next[t] \in 0 .. Len(topology[t])
  /\ partial \in [Thread -> [Tensor -> Nat]]
  /\ writes \in 0 .. MaxWrites /\ backwards \in 0 .. MaxBackward

\* Sum of a sequence of numbers.
SumSeq(s) == FoldLeft(LAMBDA a, b : a + b, 0, s)

Zero == [x \in Tensor |-> 0]

Init ==
  /\ built = 0
  /\ storage = [x \in Tensor |-> x] /\ counter = [x \in Tensor |-> x]
  /\ version = Zero /\ content = Zero
  /\ requires_grad = [x \in Tensor |-> FALSE] /\ gradient = Zero
  /\ parents = [x \in Tensor |-> <<>>]
  /\ saved = [x \in Tensor |-> <<>>] /\ seen = [x \in Tensor |-> <<>>]
  /\ status = [t \in Thread |-> "ok"]
  /\ topology = [t \in Thread |-> <<>>]
  /\ next = [t \in Thread |-> 0]
  /\ partial = [t \in Thread |-> Zero]
  /\ writes = 0 /\ backwards = 0

-----------------------------------------------------------------------------
(* Forward operations.                                                     *)

\* The versions a node saves, one per parent.
SavedVersions_FirstOnly(operands) == <<version[counter[operands[1]]]>>
SavedVersions(operands) ==
  [i \in DOMAIN operands |-> version[counter[operands[i]]]]

\* AttachNode: the tape records the operation only if an operand requires
\* gradients at that moment.
AttachNode(x, operands) ==
  IF \E i \in DOMAIN operands : RequiresGrad(operands[i])
  THEN /\ parents' = [parents EXCEPT ![x] = operands]
       /\ saved' = [saved EXCEPT ![x] = SavedVersions(operands)]
       /\ seen' = [seen EXCEPT ![x] =
                     [i \in DOMAIN operands |-> content[storage[operands[i]]]]]
       /\ requires_grad' = [requires_grad EXCEPT ![x] = TRUE]
  ELSE UNCHANGED <<parents, saved, seen, requires_grad>>

\* The version counter a view of source gets.
ViewCounter_Fresh(x, source) == x
ViewCounter(x, source) == counter[source]

New(x) == x = built + 1 /\ x <= MaxTensor /\ built' = x

\* ts_tensor_from_f32 and full (no gradients), CloneAsLeaf, LinearCreate.
Create(requires) ==
  \E x \in Tensor :
    /\ New(x)
    /\ requires_grad' = [requires_grad EXCEPT ![x] = requires]
    /\ UNCHANGED <<storage, counter, parents, saved, seen,
                   values, gradient, call>>

\* A result with storage of its own: Transfer, Sum, the activations, a reshape
\* that must materialize (one operand), Add, Multiply, Matmul, AddBias, the
\* losses (two, which may be the same tensor).
Compute(operands) ==
  \E x \in Tensor :
    /\ New(x)
    /\ AttachNode(x, operands)
    /\ UNCHANGED <<storage, counter, values, gradient, call>>

\* Reshape of a contiguous tensor, Transpose2D: storage and version counter
\* are the source's.
View(source) ==
  \E x \in Tensor :
    /\ New(x)
    /\ storage' = [storage EXCEPT ![x] = storage[source]]
    /\ counter' = [counter EXCEPT ![x] = ViewCounter(x, source)]
    /\ AttachNode(x, <<source>>)
    /\ UNCHANGED <<values, gradient, call>>

-----------------------------------------------------------------------------
(* Writers.                                                                *)

NoBackwardRunning == \A t \in Thread : status[t] # "running"

BeginWrite == NoBackwardRunning /\ writes < MaxWrites /\ writes' = writes + 1

\* IncrementVersion, once for each tensor written.
IncrementVersions(targets) ==
  [c \in Tensor |->
     version[c] + Cardinality({x \in targets : counter[x] = c})]

WriteValues(targets) ==
  /\ content' = [s \in Tensor |->
       content[s] + Cardinality({x \in targets : storage[x] = s})]
  /\ version' = IncrementVersions(targets)

\* ClearGradient: an optimizer's ZeroGrad clears all of its parameters.
ClearGradients(targets) ==
  gradient' = [x \in Tensor |-> IF x \in targets THEN 0 ELSE gradient[x]]

\* AssignMany on the CPU backend: every pair is staged before the first is
\* committed, so a refused call writes nothing.  Targets are told apart by
\* identity, which views share.  Loading a module is such a call on its
\* parameters.
AssignMany(targets) ==
  /\ \A x, y \in targets : x # y => counter[x] # counter[y]
  /\ BeginWrite
  /\ WriteValues(targets)
  /\ ClearGradients(targets)
  /\ UNCHANGED <<graph, requires_grad, call>>

\* Step of an optimizer: the parameters that have a gradient are updated one
\* after the other and keep it.  An allocation failure stops in the middle, so
\* any of them may be the ones that were updated.
OptimizerStep(updated) ==
  /\ \A x \in updated : gradient[x] # 0
  /\ BeginWrite
  /\ WriteValues(updated)
  /\ UNCHANGED <<graph, leaves, call>>

ZeroGrad(parameters) ==
  /\ NoBackwardRunning
  /\ ClearGradients(parameters)
  /\ UNCHANGED <<graph, values, requires_grad, call>>

\* What SetRequiresGrad does to the gradient of x.
GradientWhenSet_Kept(x, requires) == gradient
GradientWhenSet(x, requires) ==
  IF requires THEN gradient ELSE [gradient EXCEPT ![x] = 0]

\* SetRequiresGrad: only leaves may change.
SetRequiresGrad(x, requires) ==
  /\ NoBackwardRunning
  /\ IsLeaf(x)
  /\ requires_grad' = [requires_grad EXCEPT ![x] = requires]
  /\ gradient' = GradientWhenSet(x, requires)
  /\ UNCHANGED <<graph, values, call>>

-----------------------------------------------------------------------------
(* Backward.                                                               *)

\* BuildTopology: depth first, a tensor after its parents and only once.
BuildTopology_Preorder(root) ==
  LET visit[x \in Tensor] == [found \in Seq(Tensor) |->
        IF x \in ToSet(found) THEN found
        ELSE FoldLeft(LAMBDA acc, p : visit[p][acc], <<x>> \o found, parents[x])]
  IN visit[root][<<>>]
BuildTopology(root) ==
  LET visit[x \in Tensor] == [found \in Seq(Tensor) |->
        IF x \in ToSet(found) THEN found
        ELSE Append(FoldLeft(LAMBDA acc, p : visit[p][acc], found, parents[x]), x)]
  IN visit[root][<<>>]

\* ValidateSavedVersions of the node of x.
VersionsCurrent(x) ==
  \A i \in DOMAIN parents[x] : ParentVersion(x, i) = saved[x][i]

\* The nodes validated before any gradient is published.
Validated_RootOnly(order) == {order[Len(order)]}
Validated(order) == ToSet(order)

\* Everything Backward does before its main loop.  A root that does not
\* require gradients or holds more than one value is refused, without a step;
\* a stale alias anywhere in the graph fails the call.
BeginBackward(t, root) ==
  /\ status[t] # "running" /\ backwards < MaxBackward
  /\ root \in Built /\ RequiresGrad(root)
  /\ backwards' = backwards + 1
  /\ LET order == BuildTopology(root) IN
       IF \A x \in Validated(order) : VersionsCurrent(x)
       THEN /\ status' = [status EXCEPT ![t] = "running"]
            /\ topology' = [topology EXCEPT ![t] = order]
            /\ next' = [next EXCEPT ![t] = Len(order)]
            /\ partial' = [partial EXCEPT ![t] = [Zero EXCEPT ![root] = 1]]
       ELSE /\ status' = [status EXCEPT ![t] = "failed"]
            /\ UNCHANGED <<topology, next, partial>>
  /\ UNCHANGED <<graph, values, leaves>>

\* ApplyNode: the gradients of the parents of x after x passed on its own.
Contribute(x, grads) ==
  [p \in Tensor |->
     IF RequiresGrad(p)
     THEN grads[p] + grads[x] *
            Cardinality({i \in DOMAIN parents[x] : parents[x][i] = p})
     ELSE grads[p]]

Return(t, outcome) ==
  /\ status' = [status EXCEPT ![t] = outcome]
  /\ topology' = [topology EXCEPT ![t] = <<>>]
  /\ next' = [next EXCEPT ![t] = 0]
  /\ partial' = [partial EXCEPT ![t] = Zero]

\* One iteration of the main loop, on the last tensor not yet visited.
Visit(t) ==
  /\ status[t] = "running" /\ next[t] > 0
  /\ LET x == topology[t][next[t]] IN
       \/ \* no gradient reached it
          /\ partial[t][x] = 0
          /\ UNCHANGED <<gradient, partial>>
       \/ \* AccumulateLeaf, under the mutex of its metadata
          /\ partial[t][x] # 0 /\ IsLeaf(x)
          /\ gradient' = IF RequiresGrad(x)
                         THEN [gradient EXCEPT ![x] = @ + partial[t][x]]
                         ELSE gradient
          /\ UNCHANGED partial
       \/ /\ partial[t][x] # 0 /\ ~IsLeaf(x)
          /\ VersionsCurrent(x)
          /\ partial' = [partial EXCEPT ![t] = Contribute(x, @)]
          /\ UNCHANGED gradient
  /\ next' = [next EXCEPT ![t] = @ - 1]
  /\ UNCHANGED <<graph, values, requires_grad, status, topology, backwards>>

\* Copying or reading a gradient may fail to allocate, at a leaf as at a node;
\* ApplyNode validates the versions of its node again.
BackwardFails(t) ==
  /\ status[t] = "running" /\ next[t] > 0
  /\ partial[t][topology[t][next[t]]] # 0
  /\ Return(t, "failed")
  /\ UNCHANGED <<graph, values, leaves, backwards>>

BackwardReturns(t) ==
  /\ status[t] = "running" /\ next[t] = 0
  /\ Return(t, "ok")
  /\ UNCHANGED <<graph, values, leaves, backwards>>

-----------------------------------------------------------------------------

Forward ==
  \/ \E requires \in BOOLEAN : Create(requires)
  \/ \E x \in Built : Compute(<<x>>) \/ View(x)
  \/ \E x, y \in Built : Compute(<<x, y>>)

\* Calls write one tensor or two.
Targets == {{x, y} : x, y \in Built}

Mutate ==
  \/ \E targets \in Targets :
       AssignMany(targets) \/ OptimizerStep(targets) \/ ZeroGrad(targets)
  \/ \E x \in Built, requires \in BOOLEAN : SetRequiresGrad(x, requires)

Backward(t) ==
  \/ \E root \in Tensor : BeginBackward(t, root)
  \/ Visit(t) \/ BackwardFails(t) \/ BackwardReturns(t)

Next == Forward \/ Mutate \/ \E t \in Thread : Backward(t)

Spec == Init /\ [][Next]_vars

-----------------------------------------------------------------------------
(* Properties.                                                             *)

\* Tensors share a storage exactly when they share a version counter, and the
\* counter has advanced once per write of that storage, through whichever
\* alias it was made: "all aliases observe one mutation version"
\* (docs/engineering/TRAINING_ENGINE_V1_STATUS.md), MakeView and every caller
\* of IncrementVersion.
VersionsTrackContent ==
  /\ \A x, y \in Tensor : storage[x] = storage[y] <=> counter[x] = counter[y]
  /\ \A x \in Tensor : version[counter[x]] = content[storage[x]]

\* While a Backward runs, every operand in its graph still holds the value the
\* forward operation read, so the gradients it publishes belong to one state of
\* the parameters ("a stale alias fails transactionally instead of producing a
\* mixture of gradients", TRAINING_ENGINE_V1_NUMERICAL_CONTRACT.md; the
\* validation loop of Backward).
SavedValuesIntact ==
  \A t \in Thread : status[t] = "running" =>
    \A x \in Tensor : x \in ToSet(topology[t]) =>
      \A i \in DOMAIN parents[x] : ParentContent(x, i) = seen[x][i]

\* Only a leaf that requires gradients holds one: freezing drops it, and no
\* Backward gives it back (SetRequiresGrad, emit in ApplyNode).
FrozenHoldsNoGradient ==
  \A x \in Tensor : gradient[x] # 0 => RequiresGrad(x) /\ IsLeaf(x)

\* The inductive invariant behind the safety theorems.  The version side of the
\* code and the content it stands for never come apart.
FrameInv ==
  /\ built \in 0 .. MaxTensor
  /\ storage \in [Tensor -> Tensor]
  /\ requires_grad \in [Tensor -> BOOLEAN] /\ DOMAIN gradient = Tensor
  /\ parents \in [Tensor -> Seq(Tensor)] /\ DOMAIN saved = Tensor
  /\ status \in [Thread -> Status] /\ DOMAIN topology = Thread

\* A tensor not built yet is blank, and nothing refers to it.
OnlyBuilt ==
  \A x \in Tensor :
    /\ x > built => parents[x] = <<>> /\ ~RequiresGrad(x) /\ gradient[x] = 0
    /\ \A i \in DOMAIN parents[x] : parents[x][i] <= built

GraphsCurrent ==
  \A t \in Thread : status[t] = "running" =>
    \A x \in Tensor : x \in ToSet(topology[t]) => VersionsCurrent(x)

IInv ==
  /\ FrameInv /\ OnlyBuilt /\ GraphsCurrent /\ FrozenHoldsNoGradient
  /\ storage = counter /\ version = content /\ saved = seen

\* Number of paths from root to x through tensors that require gradients.
Paths(root) ==
  LET count[y \in Tensor] == [x \in Tensor |->
        IF x = y THEN 1
        ELSE SumSeq([i \in DOMAIN parents[y] |->
               IF RequiresGrad(parents[y][i]) THEN count[parents[y][i]][x]
                                              ELSE 0])]
  IN count[root]

LeafPaths(root) ==
  [x \in Tensor |->
     IF IsLeaf(x) /\ RequiresGrad(x) /\ RequiresGrad(root)
     THEN Paths(root)[x] ELSE 0]

\* What the graph of root owes the leaves.
Due == [root \in Tensor |-> LeafPaths(root)]

\* What each Backward owes the leaves it has still to visit.
Owed ==
  [t \in Thread |->
     IF status[t] # "running" THEN Zero
     ELSE [x \in Tensor |->
            IF \E i \in 1 .. next[t] : topology[t][i] = x
            THEN LeafPaths(topology[t][Len(topology[t])])[x] ELSE 0]]

\* Backward pays every leaf, once, one gradient per path of the graph
\* ("accumulate every contribution exactly once").
Ledger == INSTANCE GradientLedger WITH
  Leaf <- Tensor, Root <- Tensor, due <- Due, owed <- Owed

ImplementsLedger == Ledger!Spec
=============================================================================
