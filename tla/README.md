# Tensora: verification project

Tensora is a tensor and training runtime: a C++ library behind a C ABI
(`native/`), Dart packages on top of it (`packages/`). This directory holds TLA+
models of its stateful core, the TLC runs that check them on small instances,
and TLAPS proofs of the results that matter most.

`tlc -config X.cfg M` checks a run of `PROJECT.json`, `tlapm M.tla` a proof
module. In every module a definition whose name ends in `_Something` is a
plausible bug of the definition that follows it; `PROJECT.json` (`mutants`) says
which property notices it.

## The system

| Part | State it keeps | Operations | What is hard | What makes it correct |
|---|---|---|---|---|
| Handle registry (`runtime/handle_registry.*`) | table of handles: type, reference count, `shared_ptr`; next identifier; one mutex | Insert, Retain, Release, Lookup | calls on any thread; objects destroyed after the mutex is released; `emplace` can throw | no use after free, no double destruction, no leak, no reused handle |
| C entry points (`c_api.cc`, `training_c_api.cc`, `inference_c_api.cc`) | locals of a call | lookup operands, compute, insert result, `AbiGuard` | operands looked up one at a time; failure at every step | a call holds what it uses until it returns |
| Tensors (`tensor/`, `backends/cpu/`, `memory/`) | storage, shape and strides, version counter with identity, autograd metadata | construct, view, materialize, read | views alias storage and version counter | live bytes exact, aliases share a version |
| Tape (`autograd/autograd.h`) | graph nodes with saved versions, leaf gradients with a mutex each | record, Backward, gradient snapshot, clear | shared leaves between threads, stale aliases, diamonds, failure in the middle | gradients of one parameter state, each contribution once |
| Parameter state (`nn_v2_state.h`, `nn_v2_parameter_control.h`) | none of its own; a cache of Torch identities | AssignMany, identity, SetRequiresGrad | several targets, one of them failing; aliasing targets | all targets or none |
| Optimizers (`nn_v2_optimizer.h`, `training_bridge_stub.cc`) | parameters, moments, step, mutex | create, step, zero_grad | keeps parameters alive; fails between parameters | versions advance, nothing dangling |
| Linear modules, checkpoints (`training_bridge_stub.cc`) | weight, bias, mutex; a file | forward, save, load | crash or full disk while the file is overwritten, load beside training | loads take over whole states of the right shape |
| ONNX sessions (`inference/`) | session, mutex, profiling file, output tensors | create, run, end profiling | outputs inserted one by one, each of which may fail or throw; two native calls for one answer | one owner of each output, released once; one profile |
| Torch backend (`training/torch_*`, `training_bridge_torch.cc`) | libtorch tensors | same operations | provider errors in the middle | rollback |
| Dart tensors and runtimes (`packages/tensora/lib/src`) | handle, disposed flag, finalizer | adopt, dispose, retain | finalizer against dispose, failure between native call and adoption | each handle released once |
| Dart NN modules (`packages/tensora_nn`) | module tree, owners, materialization, parameters | attach, materialize, move, load state, dispose | a step of several fails, cycles | ownership tree, transactions |
| Dart optimizers (`packages/tensora_optim`) | groups, one native optimizer each | create, step, zeroGrad, dispose | a later group or a later parameter fails | natives balanced, each gradient applied once |
| `TensorController` (`packages/tensora_flutter`) | one value, disposed flag | replace, take, dispose | disposer and listeners call back | each value disposed of once |
| Dart data, train, text, vision, audio, edge, transformers | immutable values, one batching iterator | | | |
| Compiler, fuzz, benchmarks, tools | none at run time | | | |

Dart calls the C ABI; every ABI call looks its operands up in the registry,
works on `shared_ptr` copies and inserts its result. Tensors point to storage
and to tape nodes, nodes point to parent tensors, modules and optimizers point
to parameter tensors: whichever thread drops the last owner runs the destructor.
Writers (AssignMany, optimizers, loads) and the tape meet in the version
counters.

## Modules

| Module | Models | Composed with | Run |
|---|---|---|---|
| `HandleRegistry` | handle table, reference counts, destructors, calls of the C ABI | implements `ObjectLifetime` | `registry` |
| `Autograd` | tape, views, versions, Backward, writers | implements `GradientLedger` | `autograd` |
| `Gradients` | kernels of the CPU build and their gradient rules | extends `ShapeMath` | `gradients` |
| `Checkpoint` | Linear modules, one checkpoint file | implements `CheckpointStore` | `checkpoint` |
| `ModuleTree` | ownership and lazy materialization of Dart modules | | `tree` |
| `ModuleMove` | `Module.to(device)` over the layers of a tree | extends `TorchDevices` | `move_transaction` |
| `TorchDevices` | devices of Tensora and of LibTorch, accelerators of a machine | | |
| `Optimizer` | Dart optimizers over native ones, freezing | | `optimizer_groups` |
| `StateTransaction` | `AssignMany` on both backends | implements `StateAssignment` | `state` |
| `TensorLayout` | shapes, strides, views, readers of storage | extends `ShapeMath` | `tensors`, `layout_readers` |
| `InferenceSession` | ONNX sessions, output registration and adoption | | `inference`, `inference_escapes` |
| `ShapeValidation` | `ValidateShape` in machine integers | extends `ShapeMath` | `tensors` |
| `TensorCreation` | making tensors of shapes from outside | composes `ShapeValidation` and `TensorLayout` | `tensors` |
| `ShapeMath` | element counts and row-major strides | | |
| `TensorProofs` | the proofs about `TensorCreation`, its two parts and `Gradients` | extends them | |
| `ModuleProofs` | the proofs about `ModuleTree` and `ModuleMove` | extends the two | |

History variables (never read by a guard) are named as such where they are
declared: `exact`, `before`, `home`, `told`, `releases`, `touched`, `seen`,
`roots`, `raced` and the like only let a property speak about the past. A run that checks one strong invariant
checks the types with it: `NativesBalanced`, `OneOwner`, `ShapesMatch` and
`HandlesBalanced` have the types of their module as their first conjunct.

### HandleRegistry, ObjectLifetime, HandleRegistryProofs

`HandleRegistry` models the table and the life of a C call on it. `entries`,
`next_handle` are the members of `HandleRegistry`; `owners[o]` is the set of
`shared_ptr`s to `o` (a table entry, a local of a call, a member of an object),
`alive` and `live_bytes` what the heap and `CpuStorage::live_bytes_` hold. A call
goes through `lookup_right`, `compute`, `insert`, `return`; each access to the
table is one step, because the mutex is held for it, and everything else
interleaves. `Destroy` runs outside of the mutex. `InsertFails`, `ComputeFails`
are the exceptions `AllocationGuard` and `AbiGuard` turn into a status.

`ObjectLifetime` is the contract: handles name objects, objects are reclaimed
when unreachable. It has no counts, owners or locks.

Run `registry`: two threads, two tensors on two storages, one optimizer. Two
threads suffice for every race on one table entry; `MaxHandle = 3` makes
`next_handle` run out, `MaxRefs = 2` makes `Retain` refuse, a view and an optimizer
make an object outlive its handle. Checked: exact owners, no dangling reference,
no leak, exact `live_bytes`, no handle bound twice, and the refinement, which
contains that no object is destroyed twice or while it is reachable.

Proved in `HandleRegistryProofs`, for any number of threads and objects and any
bounds: `TypeOK`, `OwnersExact`, `NoDanglingReference`, `DestroyedByOneThread`,
`NoLeak`, `HandleNeverRebinds`. The inductive invariant `IInv` adds to them that the
frame variables are functions of the right kind and that issued handles are below
`next_handle`; without `OwnersExact` a dropped owner could not be known to be the
last. `LiveBytesExact` rests on a second one, `HeapInv`: `live_bytes` counts the living
storages, and no circle of members keeps objects alive (`NoCircle`: every set of living
objects has one that no other of the set holds), which is what makes the living heap
empty once every handle and every local is gone. Both are kept by `Builds`, what all
computations of a call have in common.

`ImplementsLifetime`, the refinement, is proved action by action: what the table and
the locals of calls name is `Bound` and `Using`, and an object a thread is about to
destroy is unreachable because the other living objects are closed under membership
and contain every root (`DoomedUnreachable`).

### Autograd, GradientLedger, AutogradProofs

`Autograd` models the tape on the CPU backend and everything that writes the
values it saved. Tensors are numbered in construction order; `storage` and
`counter` say with which older tensor a view shares its storage and its version
counter; `content` counts writes of a storage, the history against which versions
are judged; `seen` is the content of each operand when a result was computed.
Local derivatives are 1: a gradient counts the paths it flowed along. Backward
is one step up to its main loop (it only reads, and no writer runs beside it),
then one step per visited tensor; an allocation may fail at every visit.

Writers run only while no Backward does. The code does not enforce that: it is
the documented contract (docs/COMPATIBILITY.md, section 14: mutable training
objects are not promised to be safe for concurrent mutation). Several Backward
calls do run beside each other and beside forward operations.

Run `autograd`: three tensors, two writes, two Backward calls on two threads.
Three tensors give a leaf, a view of it and a result of both, a repeated operand
and a diamond over a view; two writes and two calls give a stale alias before and
between calls. `ImplementsLedger`: each call owes a leaf one contribution per path
and pays it once, in one step; a failed call stops between two payments.

Proved in `AutogradProofs` for any number of threads, tensors, writes and calls:
`VersionsTrackContent`, `SavedValuesIntact`, `FrozenHoldsNoGradient`, `TypeOK` and the
refinement `ImplementsLedger` itself. The inductive invariant `IInv` says that storage and
counter are shared alike and advance together, so a current version is a current
value (`GraphsCurrent`), and that what is not built yet is blank (`OnlyBuilt`), which
keeps a new tensor from disturbing a running graph.

The ledger needs a second one, `WalkInv`. `BuildTopology` is a recursive function
over the graph; that operands are older than results makes it well founded, and an
induction over tensors in the order they were built shows that it lists the
ancestors of the root, each once and after its own operands (`TopologyOf`). Between two
visits of the main loop (`Walk`), the gradients that have reached the tensors still to
be visited, each weighted with its number of paths to x, add up to the number of
paths from the root to x, for every x. When x is visited no other tensor still to be
visited leads to it, so what has reached it is all of it: a leaf is paid once, one
gradient per path. This is an invariant of the loop and not of the state: it is lost
if an operand could come after its result in the list, or if an operand that occurs
twice were paid once.

The proof uses that a result has at most two operands, which every kernel of the code
keeps (it is part of `IInv`): folds over operands are unfolded for none, one and two.
Path counts, sums of weights and the list are functions of a fixed graph, so that
one lemma speaks of the state before and after a step; `Forward` adds a tensor above
all that a running call has listed and leaves its counts alone.

### Gradients, TensorProofs

`Autograd` says which contributions flow; `Gradients` says that they are the right
numbers. A program makes leaves and applies kernels, each result remembers its
kernel and operands with the strides it was made with, and Backward walks the
results from last to first with the rules of `ApplyNode`; the order the code finds by
its depth-first search is the business of `Autograd`. Values are kept in logical order:
the rules read their operands through `ReadLogicalCpuValues` and build new tensors, so
layouts matter only where a kernel refuses one (`Contiguous`).

Floats are elements of the field of P elements: sums, products and quotients are
exact there, so that a wrong factor, a swapped operand or a row taken for a column
shows, and rounding does not. `exp`, `log`, `erf` are tables of which the code uses
nothing but the derivatives and what the assumption says: `Exp` is never zero,
turns a sign into an inverse and never makes `1 + exp(x)` zero. Kernels are
written once, over dual numbers; with a zero second part they are what the code
computes, and with one input moved by e they give its derivative
(`Derivative`), without any gradient rule. `GradientsExact` compares the two.
`TargetsNormalized` is its one precondition: the rule of cross entropy is
softmax minus target, which is the derivative when each row of the target sums to
one, as a one-hot target does (the parameter is called `one_hot_target`).

Run `gradients`: seven programs over the field of 23 elements, all kernels over a
matrix, a Linear (weight 1 by 2 and bias) and a target, then fewer kernels and more
of each, among them Linears whose weight or bias is frozen. `program.most` bounds the tensors of a program (five to eight: a loss over
an activation over a Linear over a view), `Room` is that bound as a guard, and
`MaxBackwards = 2` makes gradients accumulate. The field has a mean of n numbers
unless n is a multiple of P (`Averaged`), and a sum of its exponentials may be zero
where a sum of real ones never is (`Summable`): losses these two exclude are not made.

`ProgramTypeOK` is proved in `TensorProofs` for every prime and tables the assumption
allows, every set of programs, shapes of every rank and any number of tensors and calls: a tensor and its gradient
have as many elements as the shape asks for, all of them in the field, and operands
are older than results. This is what a rule with an index out of place breaks first: a
bias that gets one number per row, an operand that gets the other's shape. The
argument goes from numbers to kernels (`KernelType`) and rules (`RuleType`), for
operands whose dimensions agree with the operation (`Agrees`). That they agree when
the operation is recorded is not enough: Backward applies the rule to the operands the
tape holds then. So the inductive invariant (`ProgramInv`) keeps it for the whole tape,
of which nothing is ever changed (`Recorded`, `Taped`), and asks of a gradient that it
is none or of the tensor's size (`Sized`). That Backward preserves it is an induction
over the walk from the last tensor to the first.

### Checkpoint, CheckpointStore, CheckpointProofs

`Checkpoint` models `ModuleSave`, `ModuleLoad` and `OptimizerStep` of the core
build. The file is a sequence of chunks (header, weight, bias) that a save
overwrites in place one at a time; a write may leave half a chunk; the process
may crash anywhere and come back with new parameters and the old file. Values
are numbered, a step gives those of weight and bias that have a gradient the same
new number, and leaves the others.

Run `checkpoint`: two threads, two modules of one structure and one of another
without a bias, three calls, one crash. Three calls give save, step, load with a
step beside the load, and every overlap of two calls on the file.

* `ImplementsStore`: as long as calls on the file do not overlap, states are stored,
  lost and taken over whole, so no module ends up with the weight of one state
  and the bias of another. `Lose` is part of that contract because
  `std::ios::trunc` destroys the previous checkpoint before the new one is
  complete: after a crash or a full disk there may be no loadable checkpoint at
  all. `raced` remembers that two calls on the file have overlapped, as two modules
  (two mutexes) allow; from then on the contract promises nothing: overlapping
  saves, or a load beside the save of another module, can combine the weight of
  one with the bias of the other, and nothing in the repository says otherwise.
* `ShapesMatch` holds whatever overlaps, and every call returns (`CallsReturn`,
  under weak fairness of a call that has begun: no path waits for anything but a
  mutex whose holder runs, and a `lock_guard` gives it back on every return).

Proved in `CheckpointProofs`, for any number of threads and modules:

* `ShapesMatch` with the types, whatever the file holds. The inductive invariant says
  that a load keeps only chunks its module accepts (`Screened`), that it commits only
  after it has read as many as its module has (`Streams`), and that a mutex is held by
  the thread that changes the module (`Locks`). It says nothing of the file, so it
  covers files written by anyone.
* The refinement `ImplementsStore`. While calls on the file have not overlapped, only
  one of them is at work (`Alone`), a save has written the first chunks of what its
  module holds and holds still, because it has the mutex, and what a load has kept is
  what the file holds, in full once it commits (`OnTrack`). So the file turns usable
  with the last chunk of a save and not before (`PartIsUnusable`, `TornIsUnusable`),
  and a commit takes over what `Decoded` says. The store sees a load and an
  optimizer step with their first half; until the second, `PendingBias` stands for
  the bias. `FileAssumption` (the marks for "no file" and "unusable" are neither files
  nor states) is what the refinement needs of the constants.

### ModuleTree, ModuleProofs

Dart runs on one thread, but `build()` of a `Model` is user code called back in
the middle of a traversal. `stack` is the stack of calls in progress, one frame
for each traversal, `build()` and cycle check; an action is a step of the frame on
top, and while that is a `build()`, the program may do whatever it may do when
nothing runs: make layers, Models and Sequentials, traverse, dispose. `raised` is an
exception on its way out; `Unwind` is every `finally`, and a `build()` may catch it.
`children`, `owner`, `disposed`, `building` are the fields of `Module` and `Model`.
The traversals (`namedParameters`, `namedBuffers`, `train`, ...) differ only in
what they collect and share one action each step.

Run `tree`: four modules, Sequentials of up to two children, two calls besides
constructors. Four modules are what two nested Models with a shared candidate
need; `MaxCalls = 3` was checked as well (211 thousand states). `SingleOwner` and
`Acyclic` are what the re-checks in `internalEnsureMaterialized` are for: the
candidate was looked at before the cycle check, which runs arbitrary further
builds. `BuildingIsScoped`: the guard is set exactly while a materialization runs.
`CallsReturn` under weak fairness of the call in progress (`~Idle /\ Next`): Dart
does not preempt it, and the bound on calls makes user code finite.

The three invariants and the types are proved in `ModuleProofs` for any number of
modules, children and calls and any depth of the stack. The inductive invariant has
to speak about every frame of the stack, because a `build()` above it may change the
tree under it. `FrameOK` says of a cycle check that the modules it has seen are built,
have all their children among those it has seen or will see, and do not include the
Model that asks. No later build can undo that: a module that has children gets no
others, and one without them that is searched is no lazy Model. So the Model at the end
of the search is outside of a set closed under `children` that contains its candidate,
and adopting the candidate makes no circle (`NoCircle`: every set of modules has one
that is no child of the others). `Acyclic` follows from `NoCircle` by taking the
descendants of a module for the set. `BuildingIsScoped` is inductive with the types.

### ModuleMove, TorchDevices, ModuleProofs

`Module.to(device)`: for every layer the native move, the new `Tensor`s fetched,
their identities checked, the wrappers replaced one by one; on a failure every
layer up to the failed one is moved back. `native`, `wrapper`, `live` are the LibTorch
device of each native parameter, the device of the `Tensor` in its `Parameter`, and
whether that has its handle; `handles` counts open handles; `home` is what the
program was told. `to()` only asks whether there is an accelerator of the kind; an
index LibTorch does not have is refused by the native move (`RefuseNative`).

`TorchDevices` translates the two codecs of torch_backend.cc. They are not inverse by
shape: ROCm builds keep `hip` devices under the name CUDA, CPU and MPS lose their
index.

Run `move_transaction`: two layers of two parameters, the CPU and five accelerator
devices, machines with no accelerator, one of each kind or two ROCm devices, three
calls, and each native call of the move and of the roll-back may fail. Two layers
make the roll-back skip, include or stop at a layer; a third device tells a move
back from a move on. `NotSilentlySplit`: unless `to()` said the state is
indeterminate, a model is on one device, its wrappers name that device as the
program did, and they can be used. `HandlesBalanced`: nothing is leaked or closed
twice.

Both are proved in `ModuleProofs` for any number of layers and parameters and
any machine. The inductive invariant: on the way there, layers before the current
one have arrived and layers after it have not left (`Forward`); on the way back, if
nothing has failed yet, the layers after the current one are home (`Backward`); the
plan leads home (`PlanIsHome`); behind the native move the parameters are at the
destination (`Arrived`). `RoundTrip` is the lemma on the codecs: what LibTorch accepted
is reported under the name it was given. For the handles, living wrappers are
counted row by row (`RowReplaced`).

### Optimizer, OptimizerProofs

The Dart optimizers, which own one native optimizer for each group. A parameter
listed twice stands for two wrappers of one tensor; values and moments are
reduced to numbers of updates. Every native construction and every update may
fail. Run `optimizer_groups`: two optimizers over two parameters, two groups of up
to two parameters, two updates of each. `FrozenNeverMoves` needs the interplay of
three files: the step never looks at `requires_grad`, it relies on freezing having
dropped the gradient and on Backward not giving a new one. That is the invariant
`GradientsAreTrainable` of `OptimizerProofs`, from which `FrozenNeverMoves` is proved for
any parameters, groups and optimizers.

The other two are proved as well. `NativesInv` says what the native optimizers of an
optimizer are at any time: at most one for each group made so far, holding parameters of
that group once each (`MadeFor`), with `handles` counting exactly those (`Counted`);
one that was not created or was disposed of has none (`Phases`). `NativesBalanced`
follows. `StepInv` describes a `step()` half way: the parameters updated are those before
the current position, and those of them with a gradient have been updated (`Passed`).
Groups of one optimizer share no parameter (`OnePlace`), so the one at the current
position is updated for the first time, and `AppliedOnce` holds of the returning step.
What a group hands to its native optimizer, the trainable parameters in their order, is
written with sets and `CHOOSE` (`Trainable`, `Kept`) because `SelectSeq` is recursive.

### StateTransaction, StateAssignment, StateTransactionProofs

`AssignMany`: validation, staging copies of all sources, commit with backups
and roll-back on LibTorch. Tensors are aliases of cells (memory and version), and
`IdentityOf` is what the check for duplicate targets compares. `StateAssignment` is the promise: all targets get the values their
sources had at the beginning, or none does, or the caller is told of an
internal error: a roll-back that failed, or one that was left out because the
exception was neither `c10::Error` nor `bad_alloc` (`CommitEscapes`). What it is asked for is a relation between targets and sources, without
any order. The refinement mapping shows the values of the beginning while a call
runs; native state is used by one isolate, so nobody reads in between.

Two things are assumed of LibTorch. A `copy_` that throws has left its target as it
was: the roll-back restores the targets before it only (nn_v2_state.h:130). And
`AliasesTold`: no two tensors are one memory under two identities. On the CPU that is
so (`IdentityAssumption`). The identity of a LibTorch tensor is its `TensorImpl`
(nn_v2_state.h:79), and the transpose of a matrix of one row or column is another one
over the same memory (torch_backend.cc:350, where `contiguous()` copies nothing): a
batch with both is accepted, and the later pair wins. The theorems name the assumption,
the instance of the run satisfies it; the case is listed under Divergences.

Run `state`: two CPU cells, one with a view of another shape, two LibTorch cells, one
with a second handle, at most one gradient set at a time (no guard reads it),
batches of two (swap, chain, duplicate, alias, mixed backends), two values, one
write in between, and a failure possible in every copy of a commit and of its
roll-back. `ReplacedIsStale`: graphs go stale exactly when a value they saved was
replaced.

Proved in `StateTransactionProofs`, for any cells, aliases, values and batches of any
length: `TypeOK`, `ReplacedIsStale` and the refinement `Transactional` itself. The
inductive invariant `IInv` (in `StateTransaction`) says for every phase which
pairs have been read (`Read`), which targets hold what was staged and that nothing
else has changed (`Replaced`), and which version counters have advanced
(`Advanced`). Staging before the commit is what makes `Read` speak of the values of
the beginning; that the targets of a batch are pairwise different cells
(`AcceptedPairs`) is what makes the assignment simultaneous.

### TensorLayout

The position of an element in its storage stands for the element; `order` (history)
is the logical order each tensor has by the operations that made it, computed
without strides. Run `tensors`: three tensors of up to six elements in up to three
dimensions, the first of a validated shape, one write in place; `LogicalOrder` compares what `CopyToHostF32`
reads through strides, or straight from a contiguous storage, with `order`.
Run `layout_readers` (violated) is the finding below.

`LayoutTypeOK`, `LogicalOrder` and `WrittenReadsBack` are proved in `TensorProofs` for any
set of shapes, of every rank, and any number of tensors and writes. The inductive
invariant `LayoutIInv` says that a storage is as long as each of its tensors, and that
a tensor is `Laid` out in one of two ways: row-major strides and the order of its
storage (`Straight`), whatever its rank, or as a matrix column by column (`Across`).
`LogicalOrder` alone is not inductive: it says nothing of what a transpose of the tensor
will read. Transposing leads from each to the other (`TransposeIsLaid`), by the arithmetic
of quotients and remainders; a tensor whose strides happen to be row-major lies in
the order of its storage however it came about (`ContiguousOrder`), which is why a
reshape may share the storage and a write may go through it from end to end.

### InferenceSession, InferenceSessionProofs

Callers share registered sessions; `lock` is `SessionState::mutex`. A run registers
its outputs one by one (`Insert`), the Dart side adopts them one by one. Registration
fails by a status (`InsertFails`, which releases the outputs before it) or by an
exception (`InsertThrows`, which does not). Which execution provider a session runs
on is not modelled: it is a function of the build and of ONNX Runtime, evaluated once
inside of `SessionCreate`, and a state machine has nothing to add to it.

Run `inference`: two callers, one session, up to three outputs and four handles, the
profiling ended at most twice. `OneOwner`: whatever is held is registered, by one
owner, and released once. `NothingForgotten` is an action property: a step passes each
held handle on or releases it, except one in which the registry throws. `OneProfile`:
Dart asks for the size and the path of the profile in two calls, and other callers
come in between; all answers are about one file. Run `inference_escapes` (violated) is
the first finding below: what that exception leaves behind.

All three are proved in `InferenceSessionProofs` for any number of callers, sessions,
outputs and handles. The inductive invariant says what a call holds at every point of
it (`WellFormed`, `HandlesOwned`), that a session is open or being opened by one caller
(`SessionsOwned`), that only the holder of the mutex is between asking for the profile
and storing it (`Locks`, `ProfileKept`). `NothingForgotten` needs of it that a call which
is not registering or adopting has no handles (`QuietStep`), and that the handles of a
roll-back are those of the call, each once (`AdoptFailsReleases`).

### ShapeValidation, TensorCreation, ShapeMath

`ValidateShape` one turn of a loop at a time, in words of constant width. Run
`tensors`: all shapes of up to four dimensions from numbers around zero and around
the limits of six-bit words, where a count of 31 elements is representable and
the bytes of 16 elements are not; a rank of four is refused. `AnswersRight` includes
termination, under weak fairness of the function itself, which is one thread's own
progress.

`TensorCreation` puts `ts_tensor_from_f32` together: nothing is made before
`ValidateShape` has accepted the dimensions, and the views and copies of
`TensorLayout` start from the tensor that is made of them. `CreationHasBothParts`
(proved) says that it behaves as each of its parts does, so that the theorems about
`ShapeSpec` and `LayoutSpec` hold of it.

Proved in `TensorProofs` for every width, element size, rank and shape: the types
(`ShapeIsTyped`), that no count wraps (`CountsAreExact`), from the lemma that n <= m div v
gives n * v <= m, and that no answer is wrong (`AnswersAreRight`). The invariant of the
last (`Progress`) says that the first loop has multiplied the first dimensions
(`UpTo`) and the last loop the last ones (`From`). Both products grow with the
dimensions they take in, so a count that is too large half way refuses the shape
rightly, and a stride of a shape that fits never reaches its modulus. What is left
to TLC is that an answer comes.

## Findings

`inference_escapes`: docs/COMPATIBILITY.md:250 says of creation "failure => zero owned
native references escape", and
docs/superpowers/specs/2026-08-15-tensora-unified-release-line-design.md:107 that
"failures release newly created native resources before propagating errors".
`ts_onnx_session_run` registers a first output, the `emplace` for the second one throws
(handle_registry.cc:29), and `AbiGuard` turns the exception into a status before
`ReleaseInsertedOutputs` (inference_c_api.cc:274) is reached: the call fails, and the
first output stays registered with nobody who knows its handle. The shortest trace has
one caller and two outputs. That no other step forgets a handle is `NothingForgotten`.

`layout_readers`: docs/engineering/TRAINING_ENGINE_V1_STATUS.md:34 says
"non-contiguous operations consume logical tensor order rather than raw
backing-storage order". `TensorToHost` (inference_bridge_onnx.cc:257) and
`TensorToTorch` (torch_backend.cc:239) copy the storage from first to last and pair
it with the dimensions of the view: a transposed CPU tensor reaches ONNX Runtime
and LibTorch with its elements in the wrong places.

## Divergences

Met while modelling; the modules contain these behaviours, no run states them.

* packages/tensora/lib/src/tensor/tensor.dart:117 and :124 promise independent
  results of `reshape` and `transpose`; on the CPU both return views
  (cpu_backend.cc:126, :151) that follow in-place writes of their source.
* The gradient of cross entropy assumes that every row of the target sums to one;
  nothing checks that it does (`TargetsNormalized` in `Gradients`).
* A CPU tensor that requires a gradient and meets a LibTorch tensor is copied without
  its graph (torch_backend.cc:239): the gradient ends there. Not modelled beyond the
  copy in `TensorLayout`.
* docs/superpowers/specs/2026-08-15-flutter-style-nn-v2-design.md:151 calls the identity
  of a parameter a "native-handle/storage identity"; for LibTorch it is that of the
  `TensorImpl`, so a transposed row or column has another one over the same storage
  (nn_v2_state.h:79, torch_backend.cc:350), and one transaction may assign both.
* docs/engineering/TRAINING_ENGINE_V1_IMPLEMENTATION_PLAN.md:115 promises an atomic
  `step`; one that fails at a later parameter leaves the earlier ones updated
  (nn_v2_optimizer.h:361, optimizer.dart:25).
* docs/superpowers/specs/2026-08-15-flutter-style-nn-v2-design.md:75: after a failed
  `build()` "no partially owned child tree is retained"; a Sequential that `build()`
  made keeps its layers (layers.dart:17, model.dart:65). And :87: a `Model`
  disposed of before its first use is still materialized by a traversal of its
  container (model.dart:26), and what it then owns is out of reach of `dispose()`.

## What is proved, what is checked

| | Proved for every value of the constants | Model-checked only |
|---|---|---|
| HandleRegistry | types, owners, no dangling reference, one destroyer, no leak, no rebinding, live bytes, the refinement of `ObjectLifetime` | |
| Autograd | types, versions, saved values, frozen gradients, the refinement of `GradientLedger` | |
| ShapeValidation | types, counts, answers | an answer comes |
| StateTransaction | types, stale versions, the refinement of `StateAssignment` | |
| InferenceSession | types, owners of handles and sessions, what becomes of handles, one profile | the finding |
| Checkpoint | types, own shapes, the refinement of `CheckpointStore` | calls return |
| ModuleMove | types, not silently split, handles balanced | |
| ModuleTree | types, single owner, acyclic, scoped guard | calls return |
| Optimizer | frozen parameters stay put, natives balanced, gradients applied once | |
| TensorLayout | types, logical order, writes are read back | the finding |
| Gradients | types: sizes of tensors and gradients | derivatives are exact |

Liveness stays with TLC: that calls return (`Checkpoint`, `ModuleTree`) and that a
shape gets its answer. So does `GradientsExact`: that the rules of `ApplyNode` compute
derivatives of whole programs is a statement about sums over the elements of
matrices, kernel by kernel, in a finite field.

Induction is always over a least element: a set of numbers has a least one
(`LeastElement` and `LeastNumber`, from the well-founded order of the naturals), which
stands for the first child that is refused, the
oldest tensor that breaks a claim, the shortest product of which it is false. To prove
that a recursive function has the values of its equation, solutions up to n are
extended to n + 1 and one of them is the function (`VisitsExist`, `UpToExists`).

The assumptions of the proofs are the ASSUMEs of the modules: bounds are natural
numbers, distinguished values are distinct, configurations are of their types. TLC
evaluates them in every run.

Every passing property has a mutant in `PROJECT.json`: the bug it names is put into
the model and TLC finds the property violated.

## Not modelled

* Rounding of floats (checked by the repository's finite-difference tests), and the
  insides of LibTorch and ONNX Runtime.
* Optimizer arithmetic: moments, bias correction, hyperparameters. Values are counts
  of updates in `Optimizer`.
* Where the code has a CPU and a LibTorch build, the CPU build is modelled, except in
  `ModuleMove`, `TorchDevices`, `StateTransaction` and the conversions of `TensorLayout`.
  training_bridge_torch.cc is left out but for the move of a module, because its
  functions forward to LibTorch; so is the cache of Torch identities
  (nn_v2_state.h:84), whose keys are addresses LibTorch may reuse.
* Two hazards of `PROJECT.json` have no property. A `SetRequiresGrad(false)` beside a
  Backward (autograd.h:878) can leave a gradient on a frozen leaf, but the
  documentation does not promise that it may be called there; a `step()` that fails
  half way is the divergence above.
* Dart wrappers that adopt one handle and release it once, value types, and the
  packages of data, text, vision, audio and edge, which keep no state.
* `stateDict` and `loadStateDict` above `AssignMany`: the matching of keys, with missing
  and unexpected entries, is a comparison of two maps before anything is written.
* `TensorController`: its difficulty is a disposer or listener that calls back, which
  needs a model of Flutter's `ChangeNotifier`.
* Build, fuzz, benchmark and tool code, and the compiler, which is a placeholder.
