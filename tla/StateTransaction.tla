----------------------------- MODULE StateTransaction -----------------------------
(***************************************************************************)
(* The transaction behind loadStateDict and NativeTensorState.assignMany:  *)
(* AssignMany of nn_v2_state.h, for tensors of both backends.              *)
(*                                                                         *)
(* Tensors are aliases of cells: a reshape or a second handle sees the     *)
(* memory and the version counter of the tensor it was made from.  On the  *)
(* CPU all aliases have one identity; that of a LibTorch tensor is its     *)
(* TensorImpl, which second handles share, but the transpose of a column   *)
(* has another one over the same memory (AliasesTold).  A batch is a       *)
(* sequence of target and source.  Native state is used by one isolate, so *)
(* a call in progress excludes all others.                                 *)
(***************************************************************************)
EXTENDS Integers, Sequences

CONSTANTS
  Tensor,
  Cell,       \* the memory behind tensors
  CellOf,     \* the cell of each tensor
  IdentityOf, \* what TensorIdentity returns for it
  Shape,      \* the shape of each tensor
  Torch,      \* the cells LibTorch manages; the others are CPU memory
  Value,
  MaxBatch,   \* targets of one call
  MaxVersion  \* values written to one cell

ASSUME StateTransactionAssumption ==
  /\ CellOf \in [Tensor -> Cell] /\ DOMAIN Shape = Tensor
  /\ Torch \subseteq Cell
  /\ MaxBatch \in Nat \ {0} /\ MaxVersion \in Nat

\* Tensors of one identity are one memory, and on the CPU the converse holds.
ASSUME IdentityAssumption ==
  \A t, u \in Tensor :
    /\ IdentityOf[t] = IdentityOf[u] => CellOf[t] = CellOf[u]
    /\ CellOf[t] = CellOf[u] /\ CellOf[t] \notin Torch => IdentityOf[t] = IdentityOf[u]

\* No two LibTorch tensors are one memory under two identities.
AliasesTold ==
  \A t, u \in Tensor : CellOf[t] = CellOf[u] => IdentityOf[t] = IdentityOf[u]

VARIABLES
  value,     \* the contents of each cell
  version,   \* its version counter
  gradient,  \* whether the gradient of each tensor is set
  pc,        \* "idle", "stage", "commit" or "rollback"
  batch,     \* the targets and sources of the call
  staged,    \* staged_sources
  backups,   \* copies of the targets, for LibTorch only
  at,        \* the index the loop is at
  committed, \* targets written when the commit failed
  outcome,   \* how the last call ended: "ok", "failed" or "broken"
  before     \* history: values and versions when the call began, its request

tensors == <<value, version, gradient>>
call == <<pc, batch, staged, backups, at, committed, before>>
vars == <<tensors, call, outcome>>

Pair == [target : Tensor, source : Tensor]
Batch == UNION {[1 .. n -> Pair] : n \in 1 .. MaxBatch}

Target(b, i) == CellOf[b[i].target]
Source(b, i) == CellOf[b[i].source]
Into(b) == {Target(b, i) : i \in DOMAIN b}
Request(b) == {<<Target(b, i), Source(b, i)>> : i \in DOMAIN b}

\* What before holds if a call for batch b begins now.
Now(b) == [value |-> value, version |-> version, request |-> Request(b)]

TypeOK ==
  /\ value \in [Cell -> Value] /\ version \in [Cell -> 0 .. MaxVersion]
  /\ gradient \in [Tensor -> BOOLEAN]
  /\ pc \in {"idle", "stage", "commit", "rollback"}
  /\ batch \in Batch \cup {<<>>}
  /\ staged \in Seq(Value) /\ Len(staged) <= Len(batch)
  /\ backups \in Seq(Value) /\ Len(backups) <= Len(batch)
  /\ at \in 1 .. Len(batch) + 1 /\ committed \in 0 .. MaxBatch
  /\ outcome \in {"none", "ok", "failed", "broken"}

Init ==
  /\ value \in [Cell -> Value]
  /\ version = [c \in Cell |-> 0]
  /\ gradient = [t \in Tensor |-> FALSE]
  /\ pc = "idle" /\ batch = <<>> /\ staged = <<>> /\ backups = <<>>
  /\ at = 1 /\ committed = 0 /\ outcome = "none"
  /\ before = Now(<<>>)

-----------------------------------------------------------------------------
(***************************************************************************)
(* The use of tensors between transactions.                                *)
(***************************************************************************)

\* An optimizer changes a parameter in place.
Write(c, v) ==
  /\ pc = "idle" /\ version[c] < MaxVersion
  /\ value' = [value EXCEPT ![c] = v]
  /\ version' = [version EXCEPT ![c] = @ + 1]
  /\ before' = Now(<<>>)'
  /\ UNCHANGED <<gradient, pc, batch, staged, backups, at, committed, outcome>>

Backward(t) ==
  /\ pc = "idle"
  /\ gradient' = [gradient EXCEPT ![t] = TRUE]
  /\ UNCHANGED <<value, version, call, outcome>>

-----------------------------------------------------------------------------
(***************************************************************************)
(* The transaction.                                                        *)
(***************************************************************************)
OneBackend(b) == Into(b) \subseteq Torch \/ Into(b) \cap Torch = {}

\* Duplicate targets are told by the handle.
Valid_ByHandle(b) ==
  /\ \A i \in DOMAIN b : /\ Shape[b[i].target] = Shape[b[i].source]
                         /\ Target(b, i) \in Torch <=> Source(b, i) \in Torch
  /\ \A i, j \in DOMAIN b : b[i].target = b[j].target => i = j
  /\ OneBackend(b)

\* ValidatePair for every pair; no identity twice among the targets; one
\* backend.
Valid(b) ==
  /\ \A i \in DOMAIN b : /\ Shape[b[i].target] = Shape[b[i].source]
                         /\ Target(b, i) \in Torch <=> Source(b, i) \in Torch
  /\ \A i, j \in DOMAIN b :
       IdentityOf[b[i].target] = IdentityOf[b[j].target] => i = j
  /\ OneBackend(b)

Accepted == {b \in Batch : Valid(b)}

Begin(b) ==
  /\ pc = "idle"
  /\ \A c \in Into(b) : version[c] < MaxVersion
  /\ pc' = "stage" /\ batch' = b /\ at' = 1
  /\ staged' = <<>> /\ backups' = <<>> /\ committed' = 0
  /\ before' = Now(b)
  /\ UNCHANGED <<tensors, outcome>>

Reject ==
  /\ pc = "idle" /\ Batch \ Accepted # {}
  /\ outcome' = "failed"
  /\ UNCHANGED <<tensors, call>>

OnTorch == Into(batch) \subseteq Torch

\* The next source is read; for LibTorch the target is copied as well.
Stage ==
  /\ pc = "stage" /\ at \in DOMAIN batch
  /\ staged' = Append(staged, value[Source(batch, at)])
  /\ backups' = IF OnTorch THEN Append(backups, value[Target(batch, at)]) ELSE backups
  /\ at' = at + 1
  /\ UNCHANGED <<tensors, pc, batch, committed, outcome, before>>

Return(result) ==
  /\ pc' = "idle" /\ outcome' = result
  /\ batch' = <<>> /\ staged' = <<>> /\ backups' = <<>> /\ at' = 1 /\ committed' = 0
  /\ before' = Now(<<>>)'

\* A copy cannot be allocated, or a target is a part of its storage only.
StageFails ==
  /\ pc = "stage" /\ at \in DOMAIN batch
  /\ UNCHANGED tensors
  /\ Return("failed")

Staged ==
  /\ pc = "stage" /\ at \notin DOMAIN batch
  /\ pc' = "commit" /\ at' = 1
  /\ UNCHANGED <<tensors, batch, staged, backups, committed, outcome, before>>

\* The source is read when its target is written.
Committed_Unstaged(i) == value[Source(batch, i)]
Committed(i) == staged[i]

\* Only the first target counts as mutated.
Mutated_FirstOnly(cells) ==
  [c \in Cell |-> IF c \in cells /\ at = 1 THEN version[c] + 1 ELSE version[c]]

\* The version counters of the cells after they were written.
Mutated(cells) == [c \in Cell |-> IF c \in cells THEN version[c] + 1 ELSE version[c]]

CommitCpu ==
  /\ pc = "commit" /\ at \in DOMAIN batch /\ ~OnTorch
  /\ value' = [value EXCEPT ![Target(batch, at)] = Committed(at)]
  /\ version' = Mutated({Target(batch, at)})
  /\ gradient' = [gradient EXCEPT ![batch[at].target] = FALSE]
  /\ at' = at + 1
  /\ UNCHANGED <<pc, batch, staged, backups, committed, outcome, before>>

CommitTorch ==
  /\ pc = "commit" /\ at \in DOMAIN batch /\ OnTorch
  /\ value' = [value EXCEPT ![Target(batch, at)] = Committed(at)]
  /\ at' = at + 1
  /\ UNCHANGED <<version, gradient, pc, batch, staged, backups, committed, outcome, before>>

ToRestore == at - 1

\* LibTorch throws c10::Error or bad_alloc, having left this target as it was: the
\* targets before it are restored from the first on.
CommitFails ==
  /\ pc = "commit" /\ at \in DOMAIN batch /\ OnTorch
  /\ pc' = "rollback" /\ committed' = ToRestore /\ at' = 1
  /\ UNCHANGED <<tensors, batch, staged, backups, outcome, before>>

\* Any other exception passes by the roll-back and is told as an internal error,
\* as a failed roll-back is (AbiGuard).
CommitEscapes ==
  /\ pc = "commit" /\ at \in DOMAIN batch /\ OnTorch
  /\ UNCHANGED tensors
  /\ Return("broken")

RollBack ==
  /\ pc = "rollback" /\ at <= committed
  /\ value' = [value EXCEPT ![Target(batch, at)] = backups[at]]
  /\ at' = at + 1
  /\ UNCHANGED <<version, gradient, pc, batch, staged, backups, committed, outcome, before>>

RollBackFails ==
  /\ pc = "rollback" /\ at <= committed
  /\ UNCHANGED tensors
  /\ Return("broken")

RolledBack ==
  /\ pc = "rollback" /\ at > committed
  /\ UNCHANGED tensors
  /\ Return("failed")

Finish ==
  /\ pc = "commit" /\ at \notin DOMAIN batch
  /\ version' = IF OnTorch THEN Mutated(Into(batch)) ELSE version
  /\ UNCHANGED <<value, gradient>>
  /\ Return("ok")

Next ==
  \/ \E c \in Cell, v \in Value : Write(c, v)
  \/ \E t \in Tensor : Backward(t)
  \/ Reject \/ \E b \in Accepted : Begin(b)
  \/ Stage \/ StageFails \/ Staged
  \/ CommitCpu \/ CommitTorch \/ CommitFails \/ CommitEscapes
  \/ RollBack \/ RollBackFails \/ RolledBack \/ Finish

Spec == Init /\ [][Next]_vars

-----------------------------------------------------------------------------
(***************************************************************************)
(* Properties                                                              *)
(***************************************************************************)

\* What the program sees: values do not change while the call runs.
A == INSTANCE StateAssignment WITH
  value <- IF pc = "idle" THEN value ELSE before.value,
  request <- before.request,
  outcome <- IF pc = "idle" THEN outcome ELSE "running"

\* loadStateDict is transactional whichever step of it fails, and a target of
\* one pair that is the source of another does not disturb it.
Transactional == A!Spec

\* Graphs go stale exactly when a value they saved was replaced: a call that
\* leaves another CPU value behind has advanced the version of its cell, also for
\* the aliases that did not take part, and a call that fails and was rolled back
\* leaves no trace, in values or in versions (AssignMany, CommitTorchAssignments).
ReplacedIsStale ==
  [][pc # "idle" /\ pc' = "idle" =>
       /\ \A c \in Cell \ Torch :
            value'[c] # before.value[c] => version'[c] > before.version[c]
       /\ outcome' = "failed" =>
            value' = before.value /\ version' = before.version]_vars

-----------------------------------------------------------------------------
(***************************************************************************)
(* The inductive invariant: in every phase of a call, which pairs have been *)
(* read and which targets hold the value they are assigned.                 *)
(***************************************************************************)
Remembered ==
  /\ before.value \in [Cell -> Value] /\ before.version \in [Cell -> 0 .. MaxVersion]
  /\ before.request = Request(batch)
  /\ pc = "idle" => /\ batch = <<>> /\ outcome \in {"none", "ok", "failed", "broken"}
                    /\ before.value = value /\ before.version = version
  /\ pc # "idle" => /\ batch \in Accepted
                    /\ \A c \in Into(batch) : before.version[c] < MaxVersion

\* The first n pairs have been staged, and their targets backed up.
Read(n) ==
  /\ Len(staged) = n
  /\ \A i \in 1 .. n : staged[i] = before.value[Source(batch, i)]
  /\ OnTorch => /\ Len(backups) = n
                /\ \A i \in 1 .. n : backups[i] = before.value[Target(batch, i)]

\* The targets of the pairs I, and no other cells, hold what was staged.
Replaced(I) ==
  /\ \A i \in I : value[Target(batch, i)] = staged[i]
  /\ \A c \in Cell : (\A i \in I : Target(batch, i) # c) => value[c] = before.value[c]

\* Their version counters, and no others, have advanced.
Advanced(I) ==
  /\ \A i \in I : version[Target(batch, i)] = before.version[Target(batch, i)] + 1
  /\ \A c \in Cell :
       (\A i \in I : Target(batch, i) # c) => version[c] = before.version[c]

Phases ==
  /\ pc = "stage" => Read(at - 1) /\ Replaced({}) /\ Advanced({})
  /\ pc = "commit" => /\ Read(Len(batch)) /\ Replaced(1 .. at - 1)
                      /\ Advanced(IF OnTorch THEN {} ELSE 1 .. at - 1)
  /\ pc = "rollback" => /\ OnTorch /\ committed < Len(batch) /\ at <= committed + 1
                        /\ Read(Len(batch)) /\ Replaced(at .. committed)
                        /\ Advanced({})

\* The duplicate check of AssignMany is as good as identities are (AliasesTold).
IInv == AliasesTold /\ TypeOK /\ Remembered /\ Phases
===================================================================================
