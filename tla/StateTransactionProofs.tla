-------------------------- MODULE StateTransactionProofs --------------------------
(***************************************************************************)
(* Proofs about StateTransaction, for any number of tensors, aliases and   *)
(* values, and batches of any length: the transaction is atomic.           *)
(*                                                                         *)
(* The theorems assume AliasesTold, without which they are false: the check *)
(* for duplicate targets compares identities, and the loop writes memory.   *)
(***************************************************************************)
EXTENDS StateTransaction, SequenceTheorems, TLAPS

USE StateTransactionAssumption

\* What the validation gives the rest of a call: each pair has a target of its own.
LEMMA AcceptedPairs ==
  ASSUME AliasesTold, NEW b \in Accepted
  PROVE  /\ Len(b) \in 1 .. MaxBatch /\ DOMAIN b = 1 .. Len(b)
         /\ b \in Batch /\ b # <<>>
         /\ \A i \in 1 .. Len(b) : /\ b[i] \in Pair
                                   /\ Target(b, i) \in Cell /\ Source(b, i) \in Cell
                                   /\ Target(b, i) \in Into(b)
         /\ \A i, j \in 1 .. Len(b) : Target(b, i) = Target(b, j) => i = j
         /\ OneBackend(b)
<1>1. b \in Batch /\ Valid(b)
  BY DEF Accepted
<1>2. PICK n \in 1 .. MaxBatch : b \in [1 .. n -> Pair]
  BY <1>1 DEF Batch
<1>3. b \in Seq(Pair)
  BY <1>2, SeqDef
<1>4. Len(b) = n /\ DOMAIN b = 1 .. n
  BY <1>2, <1>3, LenProperties
<1>5. \A i \in 1 .. n : b[i] \in Pair /\ Target(b, i) \in Cell /\ Source(b, i) \in Cell
  BY <1>2 DEF Pair, Target, Source
<1>6. \A i, j \in 1 .. n : Target(b, i) = Target(b, j) => i = j
  BY <1>1, <1>4, <1>5 DEF Valid, AliasesTold, Target, Pair
<1>7. QED
  BY <1>1, <1>3, <1>4, <1>5, <1>6 DEF Valid, Into

\* Between calls there is no request.
LEMMA NoRequest == Request(<<>>) = {} /\ Into(<<>>) = {}
  BY DEF Request, Into

LEMMA InitIInv == AliasesTold /\ Init => IInv
<1> SUFFICES ASSUME AliasesTold, Init PROVE IInv
  OBVIOUS
<1>1. TypeOK
  <2>1. version \in [Cell -> 0 .. MaxVersion] /\ committed \in 0 .. MaxBatch
    BY DEF Init
  <2>2. <<>> \in Seq(Value) /\ Len(<<>>) = 0
    BY EmptySeq
  <2>3. QED
    BY <2>1, <2>2 DEF Init, TypeOK
<1>2. Remembered
  BY DEF Init, Remembered, Now
<1>3. QED
  BY <1>1, <1>2 DEF IInv, Phases, Init

-----------------------------------------------------------------------------
(***************************************************************************)
(* Every step keeps the invariant: one lemma for each group of steps.      *)
(***************************************************************************)
LEMMA BetweenCalls ==
  ASSUME IInv,
         \/ \E c \in Cell, v \in Value : Write(c, v)
         \/ \E t \in Tensor : Backward(t)
         \/ Reject
  PROVE  IInv'
<1> USE DEF IInv, TypeOK, Remembered, Phases
<1>1. CASE \E c \in Cell, v \in Value : Write(c, v)
  <2>1. PICK c \in Cell, v \in Value : Write(c, v)
    BY <1>1
  <2>2. value' \in [Cell -> Value] /\ version' \in [Cell -> 0 .. MaxVersion]
    BY <2>1 DEF Write
  <2>3. QED
    BY <2>1, <2>2 DEF Write, Now
<1>2. CASE \E t \in Tensor : Backward(t)
  BY <1>2 DEF Backward, call
<1>3. CASE Reject
  BY <1>3 DEF Reject, tensors, call
<1>4. QED
  BY <1>1, <1>2, <1>3

LEMMA BeginStep ==
  ASSUME IInv, NEW b \in Accepted, Begin(b)
  PROVE  IInv'
<1> USE DEF IInv, Begin
<1>1. b \in Batch /\ Len(b) \in 1 .. MaxBatch /\ DOMAIN b = 1 .. Len(b)
  BY AcceptedPairs
<1>2. TypeOK'
  <2>1. <<>> \in Seq(Value) /\ Len(<<>>) = 0
    BY EmptySeq
  <2>2. QED
    BY <1>1, <2>1 DEF TypeOK, tensors
<1>3. Remembered'
  BY DEF Remembered, TypeOK, Now, tensors
<1>4. Phases'
  BY DEF Phases, Read, Replaced, Advanced, Remembered, Now, tensors, TypeOK
<1>5. QED
  BY <1>2, <1>3, <1>4

LEMMA StageStep ==
  ASSUME IInv, Stage
  PROVE  IInv'
<1> USE DEF IInv, Stage, tensors
<1> DEFINE source == value[Source(batch, at)]
           target == value[Target(batch, at)]
<1>1. batch \in Accepted /\ pc = "stage"
  BY DEF Remembered
<1>2. at \in 1 .. Len(batch) /\ Len(batch) \in 1 .. MaxBatch
  BY <1>1, AcceptedPairs
<1>3. Read(at - 1) /\ Replaced({}) /\ Advanced({})
  BY DEF Phases
<1>4. \A i \in 1 .. at : /\ value[Source(batch, i)] = before.value[Source(batch, i)]
                         /\ value[Target(batch, i)] = before.value[Target(batch, i)]
  BY <1>1, <1>2, <1>3, AcceptedPairs DEF Replaced
<1>5. source \in Value /\ target \in Value
  BY <1>1, <1>2, AcceptedPairs DEF TypeOK
<1>6. /\ staged' \in Seq(Value) /\ Len(staged') = at
      /\ \A i \in 1 .. at - 1 : staged'[i] = staged[i]
      /\ staged'[at] = source
  BY <1>2, <1>3, <1>5, AppendProperties DEF TypeOK, Read
<1>7. /\ at' - 1 = at /\ batch' = batch /\ before' = before
      /\ \A i \in 1 .. at : i \in 1 .. at - 1 \/ i = at
  BY <1>2
<1>8. \A i \in 1 .. at : staged'[i] = before.value[Source(batch, i)]
  <2> HIDE DEF Stage, IInv
  <2>1. \A i \in 1 .. at - 1 : staged[i] = before.value[Source(batch, i)]
    BY <1>3 DEF Read
  <2>2. staged'[at] = before.value[Source(batch, at)]
    BY <1>2, <1>4, <1>6
  <2>3. QED
    BY <1>6, <1>7, <2>1, <2>2
<1>9. CASE OnTorch
  <2>1. /\ backups' \in Seq(Value) /\ Len(backups') = at
        /\ \A i \in 1 .. at - 1 : backups'[i] = backups[i]
        /\ backups'[at] = target
    BY <1>2, <1>3, <1>5, <1>9, AppendProperties DEF TypeOK, Read
  <2>2. TypeOK'
    BY <1>2, <1>6, <2>1 DEF TypeOK
  <2>3. Read(at - 1)'
    <3> HIDE DEF Stage, IInv, target
    <3>1. \A i \in 1 .. at - 1 : backups[i] = before.value[Target(batch, i)]
      BY <1>3, <1>9 DEF Read
    <3>2. backups'[at] = before.value[Target(batch, at)]
      BY <1>2, <1>4, <2>1 DEF target
    <3>3. \A i \in 1 .. at : backups'[i] = before.value[Target(batch, i)]
      BY <1>7, <2>1, <3>1, <3>2
    <3>4. QED
      BY <1>6, <1>7, <1>8, <2>1, <3>3 DEF Read, OnTorch, Source, Target
  <2>4. QED
    BY <1>2, <1>3, <2>2, <2>3 DEF Remembered, Phases, Replaced, Advanced, TypeOK, Read
<1>10. CASE ~OnTorch
  <2>1. TypeOK'
    BY <1>2, <1>6, <1>10 DEF TypeOK
  <2>2. Read(at - 1)'
    BY <1>6, <1>7, <1>8, <1>10 DEF Read, OnTorch, Source
  <2>3. QED
    BY <1>2, <1>3, <2>1, <2>2 DEF Remembered, Phases, Replaced, Advanced, TypeOK, Read
<1>11. QED
  BY <1>9, <1>10

LEMMA StagedStep ==
  ASSUME IInv, Staged
  PROVE  IInv'
<1> USE DEF IInv, Staged, tensors
<1>1. batch \in Accepted
  BY DEF Remembered
<1>2. at = Len(batch) + 1
  BY <1>1, AcceptedPairs DEF TypeOK
<1>3. Read(Len(batch)) /\ Replaced({}) /\ Advanced({})
  BY <1>1, <1>2, AcceptedPairs DEF Phases
<1>4. TypeOK' /\ Remembered'
  BY <1>1, AcceptedPairs DEF TypeOK, Remembered
<1>5. Read(Len(batch))' /\ Replaced({})' /\ Advanced({})'
  BY <1>3 DEF Read, Replaced, Advanced, OnTorch
<1>6. (1 .. at - 1)' = {}
  OBVIOUS
<1>7. QED
  BY <1>4, <1>5, <1>6 DEF Phases

\* Writing the target of pair number at, on the CPU with its version.
LEMMA CommitCpuStep ==
  ASSUME IInv, CommitCpu
  PROVE  IInv'
<1> USE DEF IInv, CommitCpu
<1> DEFINE target == Target(batch, at)
<1>1. batch \in Accepted /\ pc = "commit" /\ ~OnTorch
  BY DEF Remembered
<1>2. at \in 1 .. Len(batch) /\ target \in Cell
  BY <1>1, AcceptedPairs
<1>3. Read(Len(batch)) /\ Replaced(1 .. at - 1) /\ Advanced(1 .. at - 1)
  BY <1>1 DEF Phases
<1>4. \A i \in 1 .. at - 1 : Target(batch, i) \in Cell /\ Target(batch, i) # target
  BY <1>1, <1>2, AcceptedPairs
<1>5. value' = [value EXCEPT ![target] = staged[at]]
  BY DEF Committed
<1>6. version' = [c \in Cell |-> version'[c]]
  <2> HIDE DEF CommitCpu
  <2>1. version' = Mutated({target})
    BY DEF CommitCpu
  <2>2. QED
    BY <2>1 DEF Mutated
<1>7. \A c \in Cell : version'[c] = IF c = target THEN version[c] + 1 ELSE version[c]
  BY DEF Mutated
<1>8. staged[at] \in Value /\ batch[at].target \in Tensor
  BY <1>1, <1>2, <1>3, AcceptedPairs, ElementOfSeq DEF TypeOK, Read, Pair
<1>9. version[target] = before.version[target] /\ before.version[target] < MaxVersion
  BY <1>1, <1>2, <1>3, <1>4, AcceptedPairs DEF Remembered, Advanced
<1>10. version' \in [Cell -> 0 .. MaxVersion]
  <2>1. version[target] + 1 \in 0 .. MaxVersion
    BY <1>2, <1>9 DEF TypeOK
  <2>2. \A c \in Cell : version'[c] \in 0 .. MaxVersion
    BY <1>7, <2>1 DEF TypeOK
  <2>3. QED
    BY <1>6, <2>2
<1>11. TypeOK'
  <2>1. value' \in [Cell -> Value] /\ gradient' \in [Tensor -> BOOLEAN]
    BY <1>2, <1>5, <1>8 DEF TypeOK
  <2>2. at' \in 1 .. Len(batch) + 1
    BY <1>2
  <2>3. QED
    BY <1>10, <2>1, <2>2 DEF TypeOK
<1>12. Read(Len(batch))' /\ Remembered'
  BY <1>1, <1>3 DEF Read, OnTorch, Remembered
<1>13. Replaced(1 .. at - 1)'
  <2>1. (1 .. at - 1)' = 1 .. at
    BY <1>2
  <2>2. \A i \in 1 .. at : value'[Target(batch, i)] = staged[i]
    BY <1>2, <1>3, <1>4, <1>5 DEF Replaced, TypeOK
  <2>3. \A c \in Cell : (\A i \in 1 .. at : Target(batch, i) # c) =>
                          value'[c] = before.value[c]
    BY <1>2, <1>3, <1>5 DEF Replaced, TypeOK
  <2>4. QED
    BY <2>1, <2>2, <2>3 DEF Replaced
<1>14. Advanced(1 .. at - 1)'
  <2>1. (1 .. at - 1)' = 1 .. at
    BY <1>2
  <2>2. \A i \in 1 .. at :
          version'[Target(batch, i)] = before.version[Target(batch, i)] + 1
    <3> HIDE DEF CommitCpu
    <3>1. \A i \in 1 .. at - 1 : version'[Target(batch, i)] = version[Target(batch, i)]
      BY <1>4, <1>7
    <3>2. version'[target] = before.version[target] + 1
      BY <1>2, <1>9, <1>7
    <3>3. QED
      BY <1>2, <1>3, <3>1, <3>2 DEF Advanced
  <2>3. \A c \in Cell : (\A i \in 1 .. at : Target(batch, i) # c) =>
                          version'[c] = before.version[c]
    <3> HIDE DEF CommitCpu
    <3>1. \A c \in Cell : (\A i \in 1 .. at : Target(batch, i) # c) =>
                          version'[c] = version[c]
      BY <1>2, <1>7
    <3>2. QED
      BY <1>2, <1>3, <3>1 DEF Advanced
  <2>4. QED
    BY <2>1, <2>2, <2>3 DEF Advanced
<1>15. ~OnTorch'
  BY <1>1 DEF OnTorch
<1>16. QED
  BY <1>1, <1>11, <1>12, <1>13, <1>14, <1>15 DEF Phases

LEMMA CommitTorchStep ==
  ASSUME IInv, CommitTorch
  PROVE  IInv'
<1> USE DEF IInv, CommitTorch
<1> DEFINE target == Target(batch, at)
<1>1. batch \in Accepted /\ pc = "commit" /\ OnTorch
  BY DEF Remembered
<1>2. at \in 1 .. Len(batch) /\ target \in Cell
  BY <1>1, AcceptedPairs
<1>3. Read(Len(batch)) /\ Replaced(1 .. at - 1) /\ Advanced({})
  BY <1>1 DEF Phases
<1>4. \A i \in 1 .. at - 1 : Target(batch, i) \in Cell /\ Target(batch, i) # target
  BY <1>1, <1>2, AcceptedPairs
<1>5. value' = [value EXCEPT ![target] = staged[at]]
  BY DEF Committed
<1>6. staged[at] \in Value
  BY <1>1, <1>2, <1>3, ElementOfSeq DEF TypeOK, Read
<1>7. TypeOK'
  BY <1>2, <1>5, <1>6 DEF TypeOK
<1>8. Read(Len(batch))' /\ Remembered' /\ OnTorch' /\ Advanced({})'
  BY <1>1, <1>3 DEF Read, OnTorch, Remembered, Advanced
<1>9. Replaced(1 .. at - 1)'
  <2>1. (1 .. at - 1)' = 1 .. at
    BY <1>2
  <2>2. \A i \in 1 .. at : value'[Target(batch, i)] = staged[i]
    BY <1>2, <1>3, <1>4, <1>5 DEF Replaced, TypeOK
  <2>3. \A c \in Cell : (\A i \in 1 .. at : Target(batch, i) # c) =>
                          value'[c] = before.value[c]
    BY <1>2, <1>3, <1>5 DEF Replaced, TypeOK
  <2>4. QED
    BY <2>1, <2>2, <2>3 DEF Replaced
<1>10. QED
  BY <1>1, <1>7, <1>8, <1>9 DEF Phases

\* The targets written are those from the first on, so that is what is restored.
LEMMA CommitFailsStep ==
  ASSUME IInv, CommitFails
  PROVE  IInv'
<1> USE DEF IInv, CommitFails, tensors
<1>1. batch \in Accepted /\ pc = "commit" /\ OnTorch
  BY DEF Remembered
<1>2. at \in 1 .. Len(batch) /\ Len(batch) \in 1 .. MaxBatch /\ committed' = at - 1
  BY <1>1, AcceptedPairs DEF ToRestore
<1>3. Read(Len(batch)) /\ Replaced(1 .. at - 1) /\ Advanced({})
  BY <1>1 DEF Phases
<1>4. TypeOK' /\ Remembered'
  BY <1>1, <1>2 DEF TypeOK, Remembered
<1>5. Read(Len(batch))' /\ OnTorch' /\ Advanced({})' /\ Replaced(at .. committed)'
  BY <1>1, <1>2, <1>3 DEF Read, OnTorch, Advanced, Replaced
<1>6. QED
  BY <1>2, <1>4, <1>5 DEF Phases

\* Restoring a target takes its pair out of those replaced.
LEMMA RollBackStep ==
  ASSUME IInv, RollBack
  PROVE  IInv'
<1> USE DEF IInv, RollBack
<1> DEFINE target == Target(batch, at)
<1>1. batch \in Accepted /\ pc = "rollback" /\ OnTorch /\ committed < Len(batch)
  BY DEF Remembered, Phases
<1>2. at \in 1 .. committed /\ committed \in 1 .. Len(batch) /\ Len(batch) \in 1 .. MaxBatch
  BY <1>1, AcceptedPairs DEF TypeOK
<1>3. Read(Len(batch)) /\ Replaced(at .. committed) /\ Advanced({})
  BY <1>1 DEF Phases
<1>4. target \in Cell /\ backups[at] = before.value[target]
  BY <1>1, <1>2, <1>3, AcceptedPairs DEF Read
<1>5. \A i \in at + 1 .. committed : Target(batch, i) \in Cell /\ Target(batch, i) # target
  BY <1>1, <1>2, AcceptedPairs
<1>6. TypeOK'
  BY <1>2, <1>4 DEF TypeOK, Remembered
<1>7. Read(Len(batch))' /\ Remembered' /\ OnTorch' /\ Advanced({})'
  BY <1>1, <1>3 DEF Read, OnTorch, Remembered, Advanced
<1>8. Replaced(at .. committed)'
  <2>1. (at .. committed)' = at + 1 .. committed
    OBVIOUS
  <2>2. \A i \in at + 1 .. committed : value'[Target(batch, i)] = staged[i]
    BY <1>2, <1>3, <1>4, <1>5 DEF Replaced, TypeOK
  <2>3. \A c \in Cell : (\A i \in at + 1 .. committed : Target(batch, i) # c) =>
                          value'[c] = before.value[c]
    BY <1>2, <1>3, <1>4 DEF Replaced, TypeOK
  <2>4. QED
    BY <2>1, <2>2, <2>3 DEF Replaced
<1>9. QED
  BY <1>1, <1>2, <1>6, <1>7, <1>8 DEF Phases

\* Every step that ends the call.
LEMMA ReturnStep ==
  ASSUME IInv, StageFails \/ CommitEscapes \/ RollBackFails \/ RolledBack \/ Finish
  PROVE  IInv'
<1> USE DEF IInv, tensors
<1>1. PICK result \in {"ok", "failed", "broken"} : Return(result)
  BY DEF StageFails, CommitEscapes, RollBackFails, RolledBack, Finish
<1>2. value' = value /\ gradient' = gradient
  BY DEF StageFails, CommitEscapes, RollBackFails, RolledBack, Finish
<1>3. version' \in [Cell -> 0 .. MaxVersion]
  <2>1. CASE Finish /\ OnTorch
    <3>1. batch \in Accepted /\ pc = "commit" /\ Advanced({})
      BY <2>1 DEF Finish, Remembered, Phases
    <3>2. \A c \in Into(batch) : c \in Cell => version[c] + 1 \in 0 .. MaxVersion
      BY <3>1 DEF Remembered, Advanced, TypeOK
    <3>3. QED
      BY <2>1, <3>2 DEF Finish, Mutated, TypeOK
  <2>2. CASE ~(Finish /\ OnTorch)
    BY <2>2 DEF StageFails, CommitEscapes, RollBackFails, RolledBack, Finish, TypeOK
  <2>3. QED
    BY <2>1, <2>2
<1>4. <<>> \in Seq(Value) /\ Len(<<>>) = 0
  BY EmptySeq
<1>5. TypeOK'
  BY <1>1, <1>2, <1>3, <1>4 DEF TypeOK, Return
<1>6. Remembered'
  BY <1>1, <1>2, <1>3 DEF TypeOK, Remembered, Return, Now
<1>7. Phases'
  BY <1>1 DEF Phases, Return
<1>8. QED
  BY <1>5, <1>6, <1>7

LEMMA NextIInv == IInv /\ [Next]_vars => IInv'
<1> SUFFICES ASSUME IInv, [Next]_vars PROVE IInv'
  OBVIOUS
<1>1. CASE UNCHANGED vars
  BY <1>1 DEF IInv, TypeOK, Remembered, Phases, Read, Replaced, Advanced, OnTorch,
              vars, tensors, call
<1>2. CASE Next
  BY <1>2, BetweenCalls, BeginStep, StageStep, StagedStep, CommitCpuStep,
     CommitTorchStep, CommitFailsStep, RollBackStep, ReturnStep DEF Next
<1>3. QED
  BY <1>1, <1>2

\* Every state has its types, and the phase of a call says what was read and written.
THEOREM InvariantHolds == ASSUME AliasesTold PROVE Spec => []IInv
<1>1. QED
  BY InitIInv, NextIInv, PTL DEF Spec

\* Tensors keep their types through every call, batches their bounds, and version
\* counters never pass the bound the guard of Begin gives them.
THEOREM TypeCorrect == ASSUME AliasesTold PROVE Spec => []TypeOK
<1>1. IInv => TypeOK
  BY DEF IInv
<1>2. QED
  BY <1>1, InvariantHolds, PTL

-----------------------------------------------------------------------------
(***************************************************************************)
(* What the invariant is for.                                              *)
(***************************************************************************)

\* Where no pair counts, nothing has changed.
LEMMA NothingReplaced ==
  ASSUME IInv, pc # "idle", NEW I, I = {}
  PROVE  /\ Replaced(I) => value = before.value
         /\ Advanced(I) => version = before.version
<1> USE DEF IInv
<1>1. Replaced(I) => value = before.value
  BY DEF Replaced, TypeOK, Remembered
<1>2. Advanced(I) => version = before.version
  BY DEF Advanced, TypeOK, Remembered
<1>3. QED
  BY <1>1, <1>2

\* How a call can end.
LEMMA CallEnds ==
  ASSUME IInv, Next, pc # "idle", pc' = "idle"
  PROVE  StageFails \/ CommitEscapes \/ RollBackFails \/ RolledBack \/ Finish
BY DEF IInv, Next, Write, Backward, Reject, Begin, Stage, Staged, CommitCpu,
       CommitTorch, CommitFails, RollBack, tensors, call

\* A call that fails while it stages, or was rolled back, has changed nothing.
LEMMA FailedIsUnchanged ==
  ASSUME IInv, StageFails \/ RolledBack
  PROVE  value = before.value /\ version = before.version /\ outcome' = "failed"
<1>1. CASE StageFails
  <2>1. Replaced({}) /\ Advanced({}) /\ pc # "idle"
    BY <1>1 DEF StageFails, IInv, Phases
  <2>2. QED
    BY <1>1, <2>1, NothingReplaced DEF StageFails, Return
<1>2. CASE RolledBack
  <2>1. Replaced(at .. committed) /\ Advanced({}) /\ pc # "idle"
    BY <1>2 DEF RolledBack, IInv, Phases
  <2>2. at .. committed = {}
    BY <1>2 DEF RolledBack, IInv, TypeOK
  <2>3. QED
    BY <1>2, <2>1, <2>2, NothingReplaced DEF RolledBack, Return
<1>3. QED
  BY <1>1, <1>2

\* When the last pair is written, every target holds its source's first value.
LEMMA FinishedIsReplaced ==
  ASSUME IInv, Finish
  PROVE  /\ batch \in Accepted /\ pc = "commit"
         /\ Replaced(1 .. Len(batch)) /\ Read(Len(batch))
         /\ ~OnTorch => Advanced(1 .. Len(batch))
<1>1. batch \in Accepted /\ pc = "commit"
  BY DEF Finish, IInv, Remembered
<1>2. at = Len(batch) + 1
  BY <1>1, AcceptedPairs DEF Finish, IInv, TypeOK
<1>3. (1 .. at - 1) = 1 .. Len(batch)
  BY <1>1, <1>2, AcceptedPairs
<1>4. QED
  BY <1>1, <1>3 DEF IInv, Phases

\* A call that ends in the middle of a commit or of its roll-back leaves these pairs
\* carried out, all of them on LibTorch.
Left == IF pc = "commit" THEN 1 .. at - 1 ELSE at .. committed

LEMMA BrokenIsHalf ==
  ASSUME IInv, CommitEscapes \/ RollBackFails
  PROVE  /\ batch \in Accepted /\ OnTorch /\ before.request = Request(batch)
         /\ Left \subseteq 1 .. Len(batch) /\ Replaced(Left) /\ Read(Len(batch))
         /\ value' = value /\ Return("broken")
<1>1. batch \in Accepted /\ before.request = Request(batch) /\ AliasesTold
  BY DEF CommitEscapes, RollBackFails, IInv, Remembered
<1>2. Len(batch) \in Nat /\ DOMAIN batch = 1 .. Len(batch)
  BY <1>1, AcceptedPairs
<1>3. CASE CommitEscapes
  <2>1. pc = "commit" /\ at \in 1 .. Len(batch) /\ OnTorch
    BY <1>2, <1>3 DEF CommitEscapes
  <2>2. Replaced(1 .. at - 1) /\ Read(Len(batch))
    BY <2>1 DEF IInv, Phases
  <2>3. QED
    BY <1>1, <1>2, <1>3, <2>1, <2>2 DEF Left, CommitEscapes, tensors
<1>4. CASE RollBackFails
  <2>1. /\ pc = "rollback" /\ OnTorch /\ Replaced(at .. committed) /\ Read(Len(batch))
    BY <1>4 DEF RollBackFails, IInv, Phases
  <2>2. at .. committed \subseteq 1 .. Len(batch)
    BY <1>2, <1>4 DEF RollBackFails, IInv, Phases, TypeOK
  <2>3. QED
    BY <1>1, <1>4, <2>1, <2>2 DEF Left, RollBackFails, tensors
<1>5. QED
  BY <1>3, <1>4

LEMMA ReplacedIsStaleStep ==
  ASSUME IInv, [Next]_vars, pc # "idle", pc' = "idle"
  PROVE  /\ \A c \in Cell \ Torch :
              value'[c] # before.value[c] => version'[c] > before.version[c]
         /\ outcome' = "failed" => value' = before.value /\ version' = before.version
<1>1. StageFails \/ CommitEscapes \/ RollBackFails \/ RolledBack \/ Finish
  BY CallEnds DEF vars, call
<1>2. CASE StageFails \/ RolledBack
  BY <1>2, FailedIsUnchanged DEF StageFails, RolledBack, tensors
<1>3. CASE CommitEscapes \/ RollBackFails
  <2>1. /\ batch \in Accepted /\ OnTorch /\ Replaced(Left)
        /\ Left \subseteq 1 .. Len(batch) /\ value' = value /\ Return("broken")
    BY <1>3, BrokenIsHalf
  <2>2. \A i \in Left : Target(batch, i) \in Torch
    BY <2>1, AcceptedPairs DEF OnTorch, IInv
  <2>3. \A c \in Cell \ Torch : value[c] = before.value[c]
    BY <2>1, <2>2 DEF Replaced
  <2>4. QED
    BY <2>1, <2>3 DEF Return
<1>4. CASE Finish
  <2>1. /\ batch \in Accepted /\ Replaced(1 .. Len(batch))
        /\ ~OnTorch => Advanced(1 .. Len(batch))
    BY <1>4, FinishedIsReplaced
  <2>2. value' = value /\ outcome' = "ok" /\ (~OnTorch => version' = version)
    BY <1>4 DEF Finish, Return
  <2>3. ASSUME NEW c \in Cell \ Torch, value[c] # before.value[c]
        PROVE  version'[c] > before.version[c]
    <3>1. PICK i \in 1 .. Len(batch) : Target(batch, i) = c
      BY <2>1, <2>3 DEF Replaced
    <3>2. ~OnTorch
      BY <2>1, <3>1, AcceptedPairs DEF OnTorch, IInv
    <3>3. version[c] = before.version[c] + 1
      BY <2>1, <3>1, <3>2 DEF Advanced
    <3>4. before.version[c] \in Nat
      BY DEF IInv, Remembered
    <3>5. QED
      BY <2>2, <3>2, <3>3, <3>4
  <2>4. QED
    BY <2>2, <2>3
<1>5. QED
  BY <1>1, <1>2, <1>3, <1>4

\* Whatever the batch, a CPU value that a call leaves replaced has a new version,
\* and a call that failed has left values and versions as they were.
THEOREM ReplacedIsStaleHolds == ASSUME AliasesTold PROVE Spec => ReplacedIsStale
<1>1. IInv /\ [Next]_vars =>
        [pc # "idle" /\ pc' = "idle" =>
           /\ \A c \in Cell \ Torch :
                value'[c] # before.value[c] => version'[c] > before.version[c]
           /\ outcome' = "failed" =>
                value' = before.value /\ version' = before.version]_vars
  BY ReplacedIsStaleStep
<1>2. QED
  BY <1>1, InvariantHolds, PTL DEF Spec, ReplacedIsStale

-----------------------------------------------------------------------------
(***************************************************************************)
(* The refinement: one step lemma for each group of steps.  Under the       *)
(* mapping a call in progress shows the values from before it began.        *)
(***************************************************************************)
LEMMA InitRefines == Init => A!Init
  BY NoRequest DEF Init, A!Init, Now

LEMMA BetweenCallsRefine ==
  ASSUME IInv,
         \/ \E c \in Cell, v \in Value : Write(c, v)
         \/ \E t \in Tensor : Backward(t)
         \/ Reject
  PROVE  [A!Next]_(A!avars)
<1> USE DEF IInv, Remembered
<1>1. CASE \E c \in Cell, v \in Value : Write(c, v)
  <2>1. PICK c \in Cell, v \in Value : Write(c, v)
    BY <1>1
  <2>2. before'.request = before.request
    BY <2>1 DEF Write, Now
  <2>3. outcome # "running"
    BY <2>1 DEF Write
  <2>4. A!Write(c)
    BY <2>1, <2>2, <2>3 DEF A!Write, Write
  <2>5. QED
    BY <2>4 DEF A!Next
<1>2. CASE \E t \in Tensor : Backward(t)
  BY <1>2 DEF Backward, call, A!avars
<1>3. CASE Reject
  <2>1. A!Fail
    BY <1>3, NoRequest DEF Reject, tensors, call, A!Fail
  <2>2. QED
    BY <2>1 DEF A!Next
<1>4. QED
  BY <1>1, <1>2, <1>3

LEMMA BeginRefines ==
  ASSUME IInv, NEW b \in Accepted, Begin(b)
  PROVE  A!Next
<1>1. Request(b) \subseteq Cell \X Cell
  BY AcceptedPairs DEF Request, IInv
<1>2. outcome # "running" /\ before' = Now(b) /\ pc = "idle" /\ pc' = "stage"
  BY DEF Begin, IInv, Remembered
<1>3. A!Ask
  BY <1>1, <1>2 DEF A!Ask, Now
<1>4. QED
  BY <1>3 DEF A!Next

LEMMA InsideCallStutters ==
  ASSUME IInv, \/ Stage \/ Staged \/ CommitCpu \/ CommitTorch
               \/ CommitFails \/ RollBack
  PROVE  UNCHANGED A!avars
BY DEF Stage, Staged, CommitCpu, CommitTorch, CommitFails, RollBack, A!avars, tensors

\* What a call leaves behind, and the abstract request it ends.
LEMMA ReturnMapped ==
  ASSUME NEW result, Return(result)
  PROVE  before'.request = {} /\ outcome' = result /\ pc' = "idle"
  BY NoRequest DEF Return, Now

LEMMA FailRefines ==
  ASSUME IInv, StageFails \/ RolledBack
  PROVE  A!Next
<1>1. value' = value /\ Return("failed") /\ pc # "idle"
  BY DEF StageFails, RolledBack, tensors
<1>2. A!Fail
  BY <1>1, FailedIsUnchanged, ReturnMapped DEF A!Fail
<1>3. QED
  BY <1>2 DEF A!Next

LEMMA FinishRefines ==
  ASSUME IInv, Finish
  PROVE  A!Next
<1>1. /\ batch \in Accepted /\ pc = "commit"
      /\ Replaced(1 .. Len(batch)) /\ Read(Len(batch))
  BY FinishedIsReplaced
<1>2. value' = value /\ Return("ok") /\ before.request = Request(batch)
  BY DEF Finish, IInv, Remembered
<1>3. \A r \in Request(batch) : value[r[1]] = before.value[r[2]]
  <2>1. SUFFICES ASSUME NEW i \in DOMAIN batch
                 PROVE  value[Target(batch, i)] = before.value[Source(batch, i)]
    BY DEF Request
  <2>2. QED
    BY <1>1, AcceptedPairs DEF Replaced, Read
<1>4. \A c \in Cell : (\A r \in Request(batch) : r[1] # c) => value[c] = before.value[c]
  <2>1. SUFFICES ASSUME NEW c \in Cell, \A r \in Request(batch) : r[1] # c
                 PROVE  value[c] = before.value[c]
    OBVIOUS
  <2>2. ASSUME NEW i \in 1 .. Len(batch) PROVE Target(batch, i) # c
    <3>1. <<Target(batch, i), Source(batch, i)>> \in Request(batch)
      BY <1>1, AcceptedPairs DEF Request
    <3>2. QED
      BY <2>1, <3>1
  <2>3. QED
    BY <1>1, <2>2 DEF Replaced
<1>5. value \in [Cell -> Value]
  BY DEF IInv, TypeOK
<1>6. A!Assign
  BY <1>1, <1>2, <1>3, <1>4, <1>5, ReturnMapped DEF A!Assign, A!Assigned
<1>7. QED
  BY <1>6 DEF A!Next

\* The call stops half way: the pairs that were carried out, and not taken back, stay.
LEMMA BreakRefines ==
  ASSUME IInv, CommitEscapes \/ RollBackFails
  PROVE  A!Next
<1> DEFINE R == {<<Target(batch, i), Source(batch, i)>> : i \in Left}
<1>1. /\ batch \in Accepted /\ OnTorch /\ AliasesTold
      /\ Replaced(Left) /\ Read(Len(batch)) /\ before.request = Request(batch)
  BY BrokenIsHalf DEF IInv
<1>2. Left \subseteq 1 .. Len(batch)
  BY BrokenIsHalf
<1>3. /\ value' = value /\ Return("broken")
      /\ pc # "idle"
  BY BrokenIsHalf DEF CommitEscapes, RollBackFails
<1>4. R \in SUBSET Request(batch)
  BY <1>1, <1>2, AcceptedPairs DEF Request
<1>5. \A r \in Request(batch) : r[1] \in Torch
  BY <1>1, AcceptedPairs DEF Request, OnTorch
<1>6. \A r \in R : value[r[1]] = before.value[r[2]]
  <2>1. SUFFICES ASSUME NEW i \in Left
                 PROVE  value[Target(batch, i)] = before.value[Source(batch, i)]
    OBVIOUS
  <2>2. QED
    BY <1>1, <1>2 DEF Replaced, Read
<1>7. \A c \in Cell : (\A r \in R : r[1] # c) => value[c] = before.value[c]
  <2>1. SUFFICES ASSUME NEW c \in Cell, \A r \in R : r[1] # c
                 PROVE  value[c] = before.value[c]
    OBVIOUS
  <2>2. ASSUME NEW i \in Left PROVE Target(batch, i) # c
    <3>1. <<Target(batch, i), Source(batch, i)>> \in R
      OBVIOUS
    <3>2. QED
      BY <2>1, <3>1
  <2>3. QED
    BY <1>1, <2>2 DEF Replaced
<1>8. value \in [Cell -> Value]
  BY DEF IInv, TypeOK
<1>9. \E S \in SUBSET Request(batch) :
        value \in {after \in [Cell -> Value] :
                     /\ \A r \in S : after[r[1]] = before.value[r[2]]
                     /\ \A c \in Cell : (\A r \in S : r[1] # c) =>
                                           after[c] = before.value[c]}
  <2> HIDE DEF R
  <2>1. QED
    BY <1>4, <1>6, <1>7, <1>8
<1>10. A!Break
  BY <1>1, <1>3, <1>5, <1>9, ReturnMapped DEF A!Break, A!Assigned
<1>11. QED
  BY <1>10 DEF A!Next

LEMMA StepRefines == IInv /\ [Next]_vars => [A!Next]_(A!avars)
<1> SUFFICES ASSUME IInv, [Next]_vars PROVE [A!Next]_(A!avars)
  OBVIOUS
<1>1. CASE UNCHANGED vars
  BY <1>1 DEF vars, tensors, call, A!avars
<1>2. CASE Next
  BY <1>2, BetweenCallsRefine, BeginRefines, InsideCallStutters, FailRefines,
     FinishRefines, BreakRefines DEF Next
<1>3. QED
  BY <1>1, <1>2

\* AssignMany is an atomic, simultaneous assignment, for every batch it accepts and
\* whatever step of it or of its roll-back fails; the one exception is reported.
THEOREM TransactionIsAtomic == ASSUME AliasesTold PROVE Spec => Transactional
<1>1. QED
  BY InitRefines, StepRefines, InvariantHolds, PTL DEF Spec, Transactional, A!Spec
===================================================================================
