------------------------------ MODULE CheckpointProofs ------------------------------
(***************************************************************************)
(* Proofs about Checkpoint, for any number of threads and modules: however *)
(* calls on the file overlap, a module only ever takes over tensors of its *)
(* own shapes; and as long as they do not, saves, loads, steps, failures   *)
(* and crashes come to what CheckpointStore promises.                      *)
(*                                                                         *)
(* The second result is a refinement.  A save has made the file usable     *)
(* with its last chunk and not before; a load and an optimizer step have   *)
(* replaced the state of a module with its weight, the bias being pending. *)
(* What carries it is the invariant Apart, which needs calls on the file   *)
(* that do not overlap: a save has written the first chunks of what its    *)
(* module holds, and what a load has kept is still what the file holds.    *)
(***************************************************************************)
EXTENDS Checkpoint, SequenceTheorems, TLAPS

USE ConfigAssumption

Steps == {"idle"} \cup SaveSteps \cup LoadSteps \cup StepSteps

CallsTyped ==
  /\ mutex \in [Module -> Thread \cup {NoThread}]
  /\ calls \in 0 .. MaxCalls /\ raced \in BOOLEAN
  /\ pc \in [Thread -> Steps]
  /\ module \in [Thread -> Module]
  /\ at \in [Thread -> 1 .. 4]
  /\ staged = [t \in Thread |-> staged[t]]

Types ==
  /\ weight = [m \in Module |-> weight[m]] /\ bias = [m \in Module |-> bias[m]]
  /\ latest \in Nat /\ CallsTyped

Shaped ==
  \A m \in Module :
    /\ weight[m].part = "weight" /\ weight[m].shape = Config[m].shape
    /\ bias[m].part = "bias" /\ bias[m].shape = Config[m].shape

\* A mutex is held by a thread exactly while it changes or writes the module.
Locks ==
  \A t \in Thread, m \in Module : mutex[m] = t <=> pc[t] \in Locked /\ module[t] = m

Committing == {"load_lock", "commit_weight", "commit_bias"}

\* The stream of a call never gets past the end of its module's chunks, and a
\* load that commits has read all of them.
Streams ==
  \A t \in Thread :
    /\ at[t] <= ChunkCount(module[t]) + 1
    /\ pc[t] \in Committing => at[t] = ChunkCount(module[t]) + 1
    /\ pc[t] \notin Committing \cup {"save_write", "load_read"} => at[t] = 1
    /\ pc[t] \in {"commit_bias", "step_bias"} => Config[module[t]].use_bias

\* Whatever the file held, and whoever wrote it in between, a load has kept only
\* chunks its module accepts.
Screened ==
  \A t \in Thread : pc[t] \in Committing \cup {"load_read"} =>
    /\ staged[t] = [k \in 1 .. at[t] - 1 |-> staged[t][k]]
    /\ \A k \in 1 .. at[t] - 1 : Acceptable(module[t], k, staged[t][k])

\* Before a load reads, and between calls, nothing is staged.
Unstaged ==
  \A t \in Thread : pc[t] \notin Committing \cup {"load_read"} => staged[t] = <<>>

IInv == Types /\ Shaped /\ Locks /\ Streams /\ Screened /\ Unstaged

-----------------------------------------------------------------------------
(***************************************************************************)
(* Sequences and positions.                                                *)
(***************************************************************************)

\* A chunk appended to those that were read.
LEMMA Appended ==
  ASSUME NEW n \in Nat, NEW s, s = [k \in 1 .. n |-> s[k]], NEW e
  PROVE  /\ Append(s, e) = [k \in 1 .. n + 1 |-> Append(s, e)[k]]
         /\ \A k \in 1 .. n : Append(s, e)[k] = s[k]
         /\ Append(s, e)[n + 1] = e
<1> DEFINE S == {s[k] : k \in 1 .. n} \cup {e}
<1>1. s \in [1 .. n -> S]
  OBVIOUS
<1>2. s \in Seq(S)
  BY <1>1, SeqDef
<1>3. Len(s) = n
  BY <1>1, <1>2, LenProperties
<1>4. e \in S
  OBVIOUS
<1> HIDE DEF S
<1>5. /\ Append(s, e) \in Seq(S) /\ Len(Append(s, e)) = n + 1
      /\ \A k \in 1 .. n : Append(s, e)[k] = s[k]
      /\ Append(s, e)[n + 1] = e
  BY <1>2, <1>3, <1>4, AppendProperties
<1>6. Append(s, e) \in [1 .. n + 1 -> S]
  BY <1>5, LenProperties
<1>7. QED
  BY <1>5, <1>6

LEMMA ChunkCounts == \A m \in Module : ChunkCount(m) \in {2, 3}
  BY DEF ChunkCount

\* What a load accepts has the shape of its module.
LEMMA AcceptedShape ==
  ASSUME NEW m \in Module, NEW chunk
  PROVE  /\ Acceptable(m, 2, chunk) => chunk.part = "weight" /\ chunk.shape = Config[m].shape
         /\ Acceptable(m, 3, chunk) => chunk.part = "bias" /\ chunk.shape = Config[m].shape
  BY DEF Acceptable

LEMMA InitIInv == Init => IInv
<1> SUFFICES ASSUME Init PROVE IInv
  OBVIOUS
<1>1. Types
  <2>1. /\ weight = [m \in Module |-> weight[m]] /\ bias = [m \in Module |-> bias[m]]
        /\ staged = [t \in Thread |-> staged[t]]
    BY DEF Init
  <2>2. pc \in [Thread -> Steps] /\ at \in [Thread -> 1 .. 4]
    BY DEF Init, Steps
  <2>3. mutex \in [Module -> Thread \cup {NoThread}] /\ module \in [Thread -> Module]
    BY DEF Init
  <2>4. latest \in Nat /\ calls \in 0 .. MaxCalls /\ raced \in BOOLEAN
    <3>1. latest \in Nat /\ calls \in 0 .. MaxCalls
      BY ConfigAssumption DEF Init
    <3>2. raced \in BOOLEAN
      BY DEF Init
    <3>3. QED
      BY <3>1, <3>2
  <2>5. QED
    BY <2>1, <2>2, <2>3, <2>4 DEF Types, CallsTyped
<1>2. Shaped
  BY DEF Init, Shaped, Parameter, Tensor
<1>3. Locks
  BY DEF Init, Locks, Locked
<1>4. Streams /\ Screened /\ Unstaged
  BY ChunkCounts DEF Init, Streams, Screened, Unstaged, Committing
<1>5. QED
  BY <1>1, <1>2, <1>3, <1>4 DEF IInv

-----------------------------------------------------------------------------
(***************************************************************************)
(* The moves every call is made of.                                        *)
(***************************************************************************)
ThreadParts == CallsTyped /\ Locks /\ Streams /\ Screened /\ Unstaged

\* A call returns, having released its module.
LEMMA ReturnKeeps ==
  ASSUME IInv, NEW t \in Thread, NEW ok \in BOOLEAN, Return(t, ok)
  PROVE  ThreadParts'
<1> USE DEF IInv
<1>1. /\ pc' = [pc EXCEPT ![t] = "idle"] /\ mutex' = Unlocked(t, ok)
      /\ at' = [at EXCEPT ![t] = 1] /\ staged' = [staged EXCEPT ![t] = <<>>]
      /\ UNCHANGED <<module, calls, raced>>
  BY DEF Return, Goto, history
<1>2. mutex' = [m \in Module |-> IF mutex[m] = t THEN NoThread ELSE mutex[m]]
  BY <1>1 DEF Unlocked
<1>3. Locks'
  BY <1>1, <1>2 DEF Locks, Types, CallsTyped, Locked
<1>4. \A u \in Thread : module'[u] = module[u] /\ module[u] \in Module
  BY <1>1 DEF Types, CallsTyped
<1>5. \A u \in Thread : ChunkCount(module[u])' = ChunkCount(module[u])
  BY <1>4 DEF ChunkCount
<1>6. Streams'
  BY <1>1, <1>4, <1>5, ChunkCounts DEF Streams, Types, CallsTyped, Committing
<1>7. Screened'
  BY <1>1, <1>4 DEF Screened, Types, CallsTyped, Committing
<1>8. Unstaged'
  BY <1>1 DEF Unstaged, Types, CallsTyped, Committing
<1>9. CallsTyped'
  <2>1. mutex' \in [Module -> Thread \cup {NoThread}]
    BY <1>2 DEF Types, CallsTyped
  <2>2. pc' \in [Thread -> Steps] /\ at' \in [Thread -> 1 .. 4]
    BY <1>1 DEF Types, CallsTyped, Steps
  <2>3. staged' = [u \in Thread |-> staged'[u]]
    BY <1>1 DEF Types, CallsTyped
  <2>4. QED
    BY <1>1, <2>1, <2>2, <2>3 DEF Types, CallsTyped
<1>10. QED
  BY <1>3, <1>6, <1>7, <1>8, <1>9 DEF ThreadParts

\* A call goes on to a step under the same lock, its stream where it was.
LEMMA GotoKeeps ==
  ASSUME IInv, NEW t \in Thread, NEW step \in Steps, Goto(t, step),
         UNCHANGED <<mutex, progress, history>>,
         step \in Locked <=> pc[t] \in Locked,
         step \in Committing => at[t] = ChunkCount(module[t]) + 1,
         step \notin Committing \cup {"save_write", "load_read"} => at[t] = 1,
         step \in {"commit_bias", "step_bias"} => Config[module[t]].use_bias,
         step \in Committing \cup {"load_read"} =>
            pc[t] \in Committing \cup {"load_read"} \/ at[t] = 1,
         pc[t] \in Committing \cup {"load_read"} => step \in Committing \cup {"load_read"}
  PROVE  ThreadParts'
<1> USE DEF IInv
<1>1. /\ pc' = [pc EXCEPT ![t] = step]
      /\ UNCHANGED <<mutex, module, at, staged, calls, raced>>
  BY DEF Goto, progress, history
<1>2. Locks'
  BY <1>1 DEF Locks, Types, CallsTyped
<1>3. Streams'
  BY <1>1 DEF Streams, Types, CallsTyped, ChunkCount
<1>4. Unstaged'
  BY <1>1 DEF Unstaged, Types, CallsTyped
<1>5. Screened'
  <2>1. at[t] = 1 /\ staged[t] = <<>> => staged[t] = [k \in 1 .. at[t] - 1 |-> staged[t][k]]
    OBVIOUS
  <2>2. QED
    BY <1>1, <2>1 DEF Screened, Unstaged, Types, CallsTyped
<1>6. CallsTyped'
  BY <1>1 DEF Types, CallsTyped
<1>7. QED
  BY <1>2, <1>3, <1>4, <1>5, <1>6 DEF ThreadParts

\* A call waits for its mutex and takes it.
LEMMA LockKeeps ==
  ASSUME IInv, NEW t \in Thread, NEW step \in Steps \cap Locked, Lock(t, step),
         pc[t] \notin Locked,
         step \in Committing <=> pc[t] \in Committing, pc[t] # "load_read",
         pc[t] # "save_write", step # "load_read",
         step \notin {"commit_bias", "step_bias"}
  PROVE  IInv'
<1> USE DEF IInv
<1>1. /\ mutex[module[t]] = NoThread
      /\ mutex' = [mutex EXCEPT ![module[t]] = t]
      /\ pc' = [pc EXCEPT ![t] = step]
      /\ UNCHANGED <<weight, bias, latest, file, module, at, staged, calls, raced>>
  BY DEF Lock, Goto, parameters, progress, history
<1>2. Types'
  BY <1>1 DEF Types, CallsTyped
<1>3. Shaped'
  BY <1>1 DEF Shaped
<1>4. Locks'
  BY <1>1, ConfigAssumption DEF Locks, Types, CallsTyped
<1>5. Streams'
  BY <1>1 DEF Streams, Types, CallsTyped, ChunkCount
<1>6. Screened' /\ Unstaged'
  BY <1>1 DEF Screened, Unstaged, Types, CallsTyped, Committing
<1>7. QED
  BY <1>2, <1>3, <1>4, <1>5, <1>6

-----------------------------------------------------------------------------
(***************************************************************************)
(* Every step keeps the invariant.                                         *)
(***************************************************************************)

\* Calls begin between calls, at the beginning of a stream.
LEMMA BeginKeepsIInv ==
  ASSUME IInv, NEW t \in Thread, NEW m \in Module,
         BeginSave(t, m) \/ BeginLoad(t, m) \/ BeginStep(t, m)
  PROVE  IInv'
<1> USE DEF IInv
<1>1. PICK step \in {"save_lock", "load_open", "step_lock"} :
        Begin(t, m, step) /\ raced' \in BOOLEAN
  BY DEF BeginSave, BeginLoad, BeginStep, BeginOnFile, SaveFirstStep, Types, CallsTyped
<1>2. /\ pc[t] = "idle" /\ calls < MaxCalls /\ calls' = calls + 1
      /\ module' = [module EXCEPT ![t] = m]
      /\ pc' = [pc EXCEPT ![t] = step]
      /\ UNCHANGED <<weight, bias, latest, mutex, file, at, staged>>
  BY <1>1 DEF Begin, Goto, parameters
<1>3. Types'
  <2>1. calls' \in 0 .. MaxCalls
    BY <1>2, ConfigAssumption DEF Types, CallsTyped
  <2>2. pc' \in [Thread -> Steps] /\ module' \in [Thread -> Module]
    BY <1>2 DEF Types, CallsTyped, Steps, SaveSteps, LoadSteps, StepSteps
  <2>3. QED
    BY <1>1, <1>2, <2>1, <2>2 DEF Types, CallsTyped
<1>4. Shaped'
  BY <1>2 DEF Shaped
<1>5. Locks'
  BY <1>2 DEF Locks, Types, CallsTyped, Locked
<1>6. at[t] = 1
  BY <1>2 DEF Streams, Committing
<1>7. Streams'
  BY <1>2, <1>6, ChunkCounts DEF Streams, Types, CallsTyped, Committing, ChunkCount
<1>8. Screened' /\ Unstaged'
  BY <1>2 DEF Screened, Unstaged, Types, CallsTyped, Committing
<1>9. QED
  BY <1>3, <1>4, <1>5, <1>7, <1>8

\* Saving changes nothing but the file, of which the invariant says nothing.
LEMMA SaveKeepsIInv ==
  ASSUME IInv, NEW t \in Thread,
         SaveLock(t) \/ SaveOpen(t) \/ SaveWrite(t) \/ SaveReturns(t) \/ SaveFails(t)
  PROVE  IInv'
<1> USE DEF IInv
<1> USE DEF Steps, SaveSteps, Locked, Committing
<1>1. CASE SaveLock(t)
  BY <1>1, LockKeeps DEF SaveLock
<1>2. CASE SaveOpen(t)
  <2>1. at[t] = 1
    BY <1>2 DEF SaveOpen, Streams
  <2>2. Goto(t, "save_write") /\ UNCHANGED <<parameters, mutex, progress, history>>
    BY <1>2 DEF SaveOpen
  <2>3. ThreadParts'
    BY <1>2, <2>1, <2>2, GotoKeeps DEF SaveOpen, parameters, Types, CallsTyped
  <2>4. QED
    BY <2>2, <2>3 DEF ThreadParts, Types, Shaped, parameters
<1>3. CASE SaveWrite(t)
  <2>1. /\ pc[t] = "save_write" /\ at[t] <= ChunkCount(module[t])
        /\ at' = [at EXCEPT ![t] = @ + 1]
        /\ UNCHANGED <<weight, bias, latest, mutex, pc, module, staged, calls, raced>>
    BY <1>3 DEF SaveWrite, parameters, history
  <2>2. module[t] \in Module /\ at[t] \in 1 .. 3
    BY <2>1, ChunkCounts DEF Types, CallsTyped
  <2>3. Types'
    BY <2>1, <2>2 DEF Types, CallsTyped
  <2>4. Streams'
    BY <2>1, <2>2, ChunkCounts DEF Streams, Types, CallsTyped, ChunkCount
  <2>5. QED
    BY <2>1, <2>3, <2>4 DEF Shaped, Locks, Screened, Unstaged, Types, CallsTyped
<1>4. CASE SaveReturns(t) \/ SaveFails(t)
  <2>1. \E ok \in BOOLEAN : Return(t, ok)
    BY <1>4 DEF SaveReturns, SaveFails
  <2>2. UNCHANGED <<weight, bias, latest>>
    BY <1>4 DEF SaveReturns, SaveFails, parameters
  <2>3. ThreadParts'
    BY <2>1, <2>2, ReturnKeeps DEF Types, CallsTyped
  <2>4. QED
    BY <2>2, <2>3 DEF ThreadParts, Types, Shaped
<1>5. QED
  BY <1>1, <1>2, <1>3, <1>4

\* Loading: what is kept of the file was screened, and only that is committed.
LEMMA LoadKeepsIInv ==
  ASSUME IInv, NEW t \in Thread,
         \/ LoadOpen(t) \/ LoadRead(t) \/ LoadEnds(t) \/ LoadFails(t) \/ LoadLock(t)
         \/ CommitWeight(t) \/ CommitBias(t)
  PROVE  IInv'
<1> USE DEF IInv
<1> USE DEF Steps, LoadSteps, Locked, Committing
<1>1. module[t] \in Module /\ ChunkCount(module[t]) \in {2, 3} /\ at[t] \in 1 .. 4
  BY ChunkCounts DEF Types, CallsTyped
<1>2. CASE LoadOpen(t)
  <2>1. at[t] = 1
    BY <1>2 DEF LoadOpen, Streams
  <2>2. Goto(t, "load_read") /\ UNCHANGED <<parameters, mutex, progress, history>>
    BY <1>2 DEF LoadOpen
  <2>3. ThreadParts'
    BY <1>2, <2>1, <2>2, GotoKeeps DEF LoadOpen, parameters, Types, CallsTyped
  <2>4. QED
    BY <2>2, <2>3 DEF ThreadParts, Types, Shaped, parameters
<1>3. CASE LoadRead(t)
  <2>1. /\ pc[t] = "load_read" /\ at[t] <= ChunkCount(module[t])
        /\ at' = [at EXCEPT ![t] = at[t] + 1]
        /\ UNCHANGED <<weight, bias, latest, mutex, pc, module, calls, raced>>
    BY <1>3 DEF LoadRead, parameters, history
  <2>2. PICK chunk : /\ Acceptable(module[t], at[t], chunk)
                     /\ staged' = [staged EXCEPT ![t] = Append(staged[t], chunk)]
    BY <1>3 DEF LoadRead
  <2>3. Types'
    <3>1. at' \in [Thread -> 1 .. 4]
      BY <1>1, <2>1 DEF Types, CallsTyped
    <3>2. staged' = [u \in Thread |-> staged'[u]]
      BY <2>2 DEF Types, CallsTyped
    <3>3. QED
      BY <2>1, <3>1, <3>2 DEF Types, CallsTyped
  <2>4. Streams'
    BY <1>1, <2>1 DEF Streams, Types, CallsTyped, ChunkCount
  <2>5. Unstaged'
    BY <2>1, <2>2 DEF Unstaged, Types, CallsTyped
  <2>6. Screened'
    <3> DEFINE n == at[t] - 1
    <3>1. n \in Nat /\ staged[t] = [k \in 1 .. n |-> staged[t][k]]
          /\ \A k \in 1 .. n : Acceptable(module[t], k, staged[t][k])
      BY <1>1, <2>1 DEF Screened
    <3>2. /\ at'[t] - 1 = n + 1 /\ staged'[t] = Append(staged[t], chunk)
          /\ module' = module
      BY <1>1, <2>1, <2>2 DEF Types, CallsTyped
    <3>3. /\ staged'[t] = [k \in 1 .. n + 1 |-> staged'[t][k]]
          /\ \A k \in 1 .. n : staged'[t][k] = staged[t][k]
          /\ staged'[t][n + 1] = chunk
      BY <3>1, <3>2, Appended
    <3>4. \A k \in 1 .. n + 1 : Acceptable(module[t], k, staged'[t][k])
      <4>1. n + 1 = at[t]
        BY <1>1
      <4>2. \A k \in 1 .. n + 1 : k \in 1 .. n \/ k = n + 1
        BY <3>1
      <4> HIDE DEF n
      <4>3. QED
        BY <2>2, <3>1, <3>3, <4>1, <4>2
    <3> HIDE DEF n
    <3>5. \A u \in Thread : u # t => /\ at'[u] = at[u] /\ staged'[u] = staged[u]
                                    /\ pc'[u] = pc[u] /\ module'[u] = module[u]
      BY <2>1, <2>2 DEF Types, CallsTyped
    <3>6. ASSUME NEW u \in Thread, pc'[u] \in Committing \cup {"load_read"}
          PROVE  /\ staged'[u] = [k \in 1 .. at'[u] - 1 |-> staged'[u][k]]
                 /\ \A k \in 1 .. at'[u] - 1 : Acceptable(module'[u], k, staged'[u][k])
      <4>1. CASE u = t
        BY <3>2, <3>3, <3>4, <4>1
      <4>2. CASE u # t
        <5>1. pc[u] \in Committing \cup {"load_read"}
          BY <3>5, <3>6, <4>2
        <5>2. /\ staged[u] = [k \in 1 .. at[u] - 1 |-> staged[u][k]]
              /\ \A k \in 1 .. at[u] - 1 : Acceptable(module[u], k, staged[u][k])
          BY <5>1 DEF Screened
        <5>3. QED
          BY <3>5, <4>2, <5>2
      <4>3. QED
        BY <4>1, <4>2
    <3>7. QED
      BY <3>6 DEF Screened, Acceptable, Header
  <2>7. QED
    BY <2>1, <2>3, <2>4, <2>5, <2>6 DEF Shaped, Locks
<1>4. CASE LoadEnds(t)
  <2>1. at[t] = ChunkCount(module[t]) + 1
    BY <1>1, <1>4 DEF LoadEnds, Streams
  <2>2. Goto(t, "load_lock") /\ UNCHANGED <<parameters, mutex, progress, history>>
    BY <1>4 DEF LoadEnds, CommitFirstStep
  <2>3. ThreadParts'
    BY <1>4, <2>1, <2>2, GotoKeeps DEF LoadEnds, parameters, Types, CallsTyped
  <2>4. QED
    BY <2>2, <2>3 DEF ThreadParts, Types, Shaped, parameters
<1>5. CASE LoadFails(t)
  <2>1. Return(t, FALSE) /\ UNCHANGED <<weight, bias, latest>>
    BY <1>5 DEF LoadFails, parameters
  <2>2. ThreadParts'
    BY <2>1, ReturnKeeps DEF Types, CallsTyped
  <2>3. QED
    BY <2>1, <2>2 DEF ThreadParts, Types, Shaped
<1>6. CASE LoadLock(t)
  BY <1>6, LockKeeps DEF LoadLock
<1>7. CASE CommitWeight(t)
  <2>1. /\ pc[t] = "commit_weight" /\ UNCHANGED <<bias, latest>>
        /\ weight' = [weight EXCEPT ![module[t]] = staged[t][2]]
        /\ \/ /\ Config[module[t]].use_bias /\ Goto(t, "commit_bias")
              /\ UNCHANGED <<mutex, progress, history>>
           \/ Return(t, TRUE)
    BY <1>7 DEF CommitWeight
  <2>2. 2 \in 1 .. at[t] - 1 /\ at[t] = ChunkCount(module[t]) + 1
    BY <1>1, <2>1 DEF Streams
  <2>3. staged[t][2].part = "weight" /\ staged[t][2].shape = Config[module[t]].shape
    BY <1>1, <2>1, <2>2, AcceptedShape DEF Screened
  <2>4. Shaped'
    BY <1>1, <2>1, <2>3 DEF Shaped, Types, CallsTyped
  <2>5. ThreadParts'
    BY <2>1, <2>2, GotoKeeps, ReturnKeeps
  <2>6. weight' = [m \in Module |-> weight'[m]]
    BY <2>1 DEF Types, CallsTyped
  <2>7. QED
    BY <2>1, <2>4, <2>5, <2>6 DEF ThreadParts, Types, CallsTyped
<1>8. CASE CommitBias(t)
  <2>1. /\ pc[t] = "commit_bias" /\ Return(t, TRUE) /\ UNCHANGED <<weight, latest>>
        /\ bias' = [bias EXCEPT ![module[t]] = staged[t][3]]
    BY <1>8 DEF CommitBias
  <2>2. 3 \in 1 .. at[t] - 1
    BY <1>1, <2>1 DEF Streams, ChunkCount
  <2>3. staged[t][3].part = "bias" /\ staged[t][3].shape = Config[module[t]].shape
    BY <1>1, <2>1, <2>2, AcceptedShape DEF Screened
  <2>4. Shaped'
    BY <1>1, <2>1, <2>3 DEF Shaped, Types
  <2>5. ThreadParts'
    BY <2>1, ReturnKeeps
  <2>6. bias' = [m \in Module |-> bias'[m]]
    BY <2>1 DEF Types
  <2>7. QED
    BY <2>1, <2>4, <2>5, <2>6 DEF ThreadParts, Types
<1>9. QED
  BY <1>2, <1>3, <1>4, <1>5, <1>6, <1>7, <1>8

\* An optimizer step writes tensors of the module's own shapes.
LEMMA StepKeepsIInv ==
  ASSUME IInv, NEW t \in Thread,
         StepLock(t) \/ StepWeight(t) \/ StepBias(t) \/ StepSkipsWeight(t)
  PROVE  IInv'
<1> USE DEF IInv
<1> USE DEF Steps, StepSteps, Locked, Committing
<1>1. module[t] \in Module
  BY DEF Types, CallsTyped
<1>2. CASE StepLock(t)
  BY <1>2, LockKeeps DEF StepLock
<1>3. CASE StepWeight(t)
  <2>1. /\ pc[t] = "step_weight" /\ bias' = bias /\ latest' = latest + 1
        /\ weight' = [weight EXCEPT
                        ![module[t]] = Parameter("weight", module[t], latest + 1)]
        /\ \/ /\ Config[module[t]].use_bias /\ Goto(t, "step_bias")
              /\ UNCHANGED <<mutex, progress, history>>
           \/ Return(t, TRUE)
    BY <1>3 DEF StepWeight
  <2>2. at[t] = 1
    BY <2>1 DEF Streams
  <2>3. ThreadParts'
    BY <2>1, <2>2, GotoKeeps, ReturnKeeps
  <2>4. Shaped'
    BY <1>1, <2>1 DEF Shaped, Types, Parameter, Tensor
  <2>5. weight' = [m \in Module |-> weight'[m]] /\ latest' \in Nat
    <3>1. weight' = [m \in Module |-> weight'[m]]
      BY <2>1 DEF Types
    <3>2. latest' \in Nat
      BY <2>1 DEF Types
    <3>3. QED
      BY <3>1, <3>2
  <2>6. QED
    BY <2>1, <2>3, <2>4, <2>5 DEF ThreadParts, Types
<1>4. CASE StepBias(t)
  <2>1. /\ Return(t, TRUE) /\ UNCHANGED <<weight, latest>>
        /\ bias' = [bias EXCEPT ![module[t]] =
                      Parameter("bias", module[t], weight[module[t]].value)]
    BY <1>4 DEF StepBias
  <2>2. ThreadParts'
    BY <2>1, ReturnKeeps
  <2>3. Shaped'
    BY <1>1, <2>1 DEF Shaped, Types, Parameter, Tensor
  <2>4. bias' = [m \in Module |-> bias'[m]]
    BY <2>1 DEF Types
  <2>5. QED
    BY <2>1, <2>2, <2>3, <2>4 DEF ThreadParts, Types
<1>5. CASE StepSkipsWeight(t)
  <2>1. /\ Return(t, TRUE) /\ UNCHANGED weight
        /\ \/ /\ latest' = latest + 1
              /\ bias' = [bias EXCEPT
                            ![module[t]] = Parameter("bias", module[t], latest + 1)]
           \/ UNCHANGED <<bias, latest>>
    BY <1>5 DEF StepSkipsWeight
  <2>2. ThreadParts'
    BY <2>1, ReturnKeeps
  <2>3. Shaped'
    BY <1>1, <2>1 DEF Shaped, Types, Parameter, Tensor
  <2>4. bias' = [m \in Module |-> bias'[m]]
    BY <2>1 DEF Types
  <2>5. latest' \in Nat
    BY <2>1 DEF Types
  <2>6. QED
    BY <2>1, <2>2, <2>3, <2>4, <2>5 DEF ThreadParts, Types
<1>6. QED
  BY <1>2, <1>3, <1>4, <1>5

\* A crash leaves new modules and no call.
LEMMA CrashKeepsIInv ==
  ASSUME IInv, Crash
  PROVE  IInv'
<1> USE DEF IInv
<1>1. /\ latest' = latest + 1
      /\ weight' = [m \in Module |-> Parameter("weight", m, latest + 1)]
      /\ bias' = [m \in Module |-> Parameter("bias", m, latest + 1)]
      /\ mutex' = [m \in Module |-> NoThread] /\ pc' = [t \in Thread |-> "idle"]
      /\ at' = [t \in Thread |-> 1] /\ staged' = [t \in Thread |-> <<>>]
      /\ UNCHANGED <<module, calls, raced>>
  BY DEF Crash, history
<1>2. CallsTyped'
  <2>1. pc' \in [Thread -> Steps] /\ at' \in [Thread -> 1 .. 4]
    BY <1>1 DEF Steps
  <2>2. QED
    BY <1>1, <2>1 DEF Types, CallsTyped
<1>3. Types' /\ Shaped'
  BY <1>1, <1>2 DEF Types, Shaped, Parameter, Tensor
<1>4. Locks'
  BY <1>1, ConfigAssumption DEF Locks, Locked
<1>5. Streams' /\ Screened' /\ Unstaged'
  BY <1>1, ChunkCounts DEF Streams, Screened, Unstaged, Committing, Types, CallsTyped,
                           ChunkCount
<1>6. QED
  BY <1>3, <1>4, <1>5

\* The invariant holds of every behaviour of saves, loads, steps and crashes.
THEOREM InvariantHolds == Spec => []IInv
<1>1. Init => IInv
  BY InitIInv
<1>2. IInv /\ [Next]_vars => IInv'
  <2>1. ASSUME IInv, UNCHANGED vars PROVE IInv'
    BY <2>1 DEF IInv, Types, CallsTyped, Shaped, Locks, Streams, Screened, Unstaged,
                ChunkCount, Acceptable, Header, vars, parameters, progress, history
  <2>2. QED
    BY <2>1, BeginKeepsIInv, SaveKeepsIInv, LoadKeepsIInv, StepKeepsIInv, CrashKeepsIInv
       DEF Next, Start, Run
<1>3. QED
  BY <1>1, <1>2, PTL DEF Spec

\* Whatever the file holds, and however saves, loads, steps and crashes overlap, the
\* parameters of a module keep its shapes: ModuleLoad validates every chunk it read
\* before it commits the first, and commits nothing it did not validate.
THEOREM OwnShapesOnly == Spec => []ShapesMatch
<1>1. IInv => ShapesMatch
  <2>1. IInv => TypeOK
    BY DEF IInv, TypeOK, Types, CallsTyped, Shaped, Locks, Steps
  <2>2. QED
    BY <2>1 DEF IInv, ShapesMatch, Shaped
<1>2. QED
  BY <1>1, InvariantHolds, PTL

-----------------------------------------------------------------------------
(***************************************************************************)
(* Chunks, files and what a load makes of them, as functions of the values *)
(* they depend on.                                                         *)
(***************************************************************************)

\* A function with a value for each of 1 .. n, and no others.
OfLength(f, n) == f = [k \in 1 .. n |-> f[k]]

\* The k-th chunk of a module with weight w and bias b.
ChunkAt(m, w, b, k) == IF k = 1 THEN Header(Config[m]) ELSE IF k = 2 THEN w ELSE b

\* A file with the first n chunks of m.
Holds(f, m, w, b, n) == f = [k \in 1 .. n |-> ChunkAt(m, w, b, k)]

\* The file f after chunk was written at position k.
WrittenTo(f, k, chunk) ==
  [i \in 1 .. (IF Len(f) < k THEN k ELSE Len(f)) |->
     IF i = k THEN chunk
     ELSE IF i > Len(f) THEN Torn
     ELSE IF i > k /\ ~SameLength(f[k], chunk) THEN Torn
     ELSE f[i]]

\* A load into m accepts all of f.
Whole(f, m) == Len(f) = ChunkCount(m) /\ \A k \in 1 .. Len(f) : Acceptable(m, k, f[k])

Decode(f) ==
  IF f # Absent /\ \E m \in Module : Whole(f, m)
  THEN [config |-> f[1].config, value |-> <<f[2].value, IF Len(f) = 3 THEN f[3].value ELSE 0>>]
  ELSE Unusable

LEMMA DecodedIs == Decoded = Decode(file) /\ Decoded' = Decode(file')
  BY DEF Decoded, Decode, Whole, Acceptable, ChunkCount, Header

LEMMA WrittenIs == \A k, chunk : Written(k, chunk) = WrittenTo(file, k, chunk)
  BY DEF Written, WrittenTo

LEMMA LengthOf ==
  ASSUME NEW n \in Nat, NEW f, OfLength(f, n)
  PROVE  Len(f) = n /\ DOMAIN f = 1 .. n
<1> DEFINE S == {f[k] : k \in 1 .. n}
<1>1. f \in [1 .. n -> S]
  BY DEF OfLength
<1>2. f \in Seq(S)
  BY <1>1, SeqDef
<1> HIDE DEF S
<1>3. QED
  BY <1>1, <1>2, LenProperties

LEMMA ChunksAre ==
  ASSUME NEW m \in Module, NEW k \in 1 .. ChunkCount(m)
  PROVE  Chunks(m)[k] = ChunkAt(m, weight[m], bias[m], k)
<1>1. CASE Config[m].use_bias
  <2> DEFINE S == {Header(Config[m]), weight[m], bias[m]}
             first == <<Header(Config[m]), weight[m]>>
             last == <<bias[m]>>
  <2>1. Chunks(m) = first \o last
    BY <1>1 DEF Chunks
  <2>2. /\ first \in Seq(S) /\ Len(first) = 2 /\ first[1] = Header(Config[m])
        /\ first[2] = weight[m]
        /\ last \in Seq(S) /\ Len(last) = 1 /\ last[1] = bias[m]
    OBVIOUS
  <2> HIDE DEF first, last, S
  <2>3. k \in 1 .. 3
    BY <1>1 DEF ChunkCount
  <2>4. k \in 1 .. Len(first) + Len(last)
    BY <2>2, <2>3
  <2>5. (first \o last)[k] = IF k <= Len(first) THEN first[k] ELSE last[k - Len(first)]
    BY <2>2, <2>4, ConcatProperties
  <2> DEFINE both == first \o last
  <2> HIDE DEF both
  <2>6. both[k] = IF k <= 2 THEN first[k] ELSE last[k - 2]
    BY <2>2, <2>5 DEF both
  <2>7. CASE k = 3
    BY <2>1, <2>2, <2>6, <2>7 DEF ChunkAt, both
  <2>8. CASE k \in {1, 2}
    BY <2>1, <2>2, <2>6, <2>8 DEF ChunkAt, both
  <2>9. QED
    BY <2>3, <2>7, <2>8
<1>2. CASE ~Config[m].use_bias
  <2>1. Chunks(m) = <<Header(Config[m]), weight[m]>>
    BY <1>2 DEF Chunks
  <2>2. k \in 1 .. 2
    BY <1>2 DEF ChunkCount
  <2>3. QED
    BY <2>1, <2>2 DEF ChunkAt
<1>3. QED
  BY <1>1, <1>2

\* Appending to a file that ends where the stream is.
LEMMA WritingAtTheEnd ==
  ASSUME NEW f, NEW k \in Nat \ {0}, OfLength(f, k - 1), NEW chunk,
         NEW g, g = WrittenTo(f, k, chunk)
  PROVE  /\ OfLength(g, k)
         /\ \A i \in 1 .. k : g[i] = IF i = k THEN chunk ELSE f[i]
<1>1. Len(f) = k - 1
  BY LengthOf
<1> DEFINE Body(i) == IF i = k THEN chunk
                      ELSE IF i > Len(f) THEN Torn
                      ELSE IF i > k /\ ~SameLength(f[k], chunk) THEN Torn
                      ELSE f[i]
           n == IF Len(f) < k THEN k ELSE Len(f)
<1>2. g = [i \in 1 .. n |-> Body(i)]
  BY DEF WrittenTo
<1>3. n = k
  BY <1>1
<1>4. \A i \in 1 .. k : Body(i) = IF i = k THEN chunk ELSE f[i]
  BY <1>1
<1> HIDE DEF Body, n
<1>5. DOMAIN g = 1 .. k /\ \A i \in 1 .. k : g[i] = Body(i)
  BY <1>2, <1>3
<1>6. OfLength(g, k)
  BY <1>2, <1>3, <1>5 DEF OfLength
<1>7. QED
  BY <1>4, <1>5, <1>6

LEMMA HoldsMore ==
  ASSUME NEW f, NEW m, NEW w, NEW b, NEW k \in Nat \ {0}, Holds(f, m, w, b, k - 1),
         NEW chunk, chunk = ChunkAt(m, w, b, k)
  PROVE  Holds(WrittenTo(f, k, chunk), m, w, b, k)
<1>1. OfLength(f, k - 1) /\ \A i \in 1 .. k - 1 : f[i] = ChunkAt(m, w, b, i)
  BY DEF Holds, OfLength
<1>0. PICK g : g = WrittenTo(f, k, chunk)
  OBVIOUS
<1>2. /\ OfLength(g, k)
      /\ \A i \in 1 .. k : g[i] = IF i = k THEN chunk ELSE f[i]
  BY <1>0, <1>1, WritingAtTheEnd
<1>3. \A i \in 1 .. k : g[i] = ChunkAt(m, w, b, i)
  BY <1>1, <1>2
<1>4. Holds(g, m, w, b, k)
  BY <1>2, <1>3 DEF Holds, OfLength
<1>5. QED
  BY <1>0, <1>4

LEMMA HeaderIs ==
  ASSUME NEW m, NEW chunk, Acceptable(m, 1, chunk)
  PROVE  chunk = Header(Config[m])
  BY DEF Acceptable

LEMMA TornRefused == \A m, k : ~Acceptable(m, k, Torn)
  BY DEF Acceptable, Torn, Header

LEMMA HeadersDiffer ==
  ASSUME NEW m \in Module, NEW n \in Module, Header(Config[m]) = Header(Config[n])
  PROVE  ChunkCount(m) = ChunkCount(n)
<1>1. Config[m] = Config[n]
  BY DEF Header
<1>2. QED
  BY <1>1 DEF ChunkCount

\* A file whose writer has not got to its last chunk is no use.
LEMMA PartIsUnusable ==
  ASSUME NEW f, NEW m \in Module, NEW w, NEW b, NEW n \in 0 .. ChunkCount(m) - 1,
         Holds(f, m, w, b, n)
  PROVE  Decode(f) = Unusable
<1>1. SUFFICES ASSUME NEW q \in Module, Whole(f, q) PROVE FALSE
  BY DEF Decode
<1>2. ChunkCount(m) \in {2, 3} /\ ChunkCount(q) \in {2, 3}
  BY ChunkCounts
<1>3. n \in Nat /\ OfLength(f, n)
  BY <1>2 DEF Holds, OfLength
<1>4. Len(f) = n
  BY <1>3, LengthOf
<1>5. n = ChunkCount(q)
  BY <1>1, <1>4 DEF Whole
<1>6. f[1] = Header(Config[m]) /\ f[1] = Header(Config[q])
  <2>1. 1 \in 1 .. n
    BY <1>2, <1>5
  <2>2. f[1] = Header(Config[m])
    BY <2>1 DEF Holds, ChunkAt
  <2>3. Acceptable(q, 1, f[1])
    BY <1>1, <1>4, <2>1 DEF Whole
  <2>4. QED
    BY <2>2, <2>3, HeaderIs
<1>7. ChunkCount(m) = ChunkCount(q)
  BY <1>6, HeadersDiffer
<1>8. QED
  BY <1>2, <1>5, <1>7

LEMMA TornIsUnusable ==
  ASSUME NEW f, NEW k \in Nat \ {0}, OfLength(f, k), f[k] = Torn
  PROVE  Decode(f) = Unusable
<1>1. SUFFICES ASSUME NEW q \in Module, Whole(f, q) PROVE FALSE
  BY DEF Decode
<1>2. Len(f) = k
  BY LengthOf
<1>3. Acceptable(q, k, f[k]) /\ f[k] = Torn
  BY <1>1, <1>2 DEF Whole
<1>4. QED
  BY <1>3, TornRefused

LEMMA WholeIs ==
  ASSUME NEW f, f # Absent, NEW m \in Module, Whole(f, m)
  PROVE  Decode(f) = [config |-> Config[m],
                      value  |-> <<f[2].value, IF Config[m].use_bias THEN f[3].value ELSE 0>>]
<1>1. Len(f) = ChunkCount(m) /\ Len(f) \in {2, 3}
  BY ChunkCounts DEF Whole
<1>2. Len(f) = 3 <=> Config[m].use_bias
  BY <1>1 DEF ChunkCount
<1>3. f[1].config = Config[m]
  <2>1. Acceptable(m, 1, f[1])
    BY <1>1 DEF Whole
  <2>2. f[1] = Header(Config[m])
    BY <2>1, HeaderIs
  <2>3. QED
    BY <2>2 DEF Header
<1>4. QED
  BY <1>2, <1>3 DEF Decode

\* The tensors of a file have numbers for values.
LEMMA TensorValue ==
  ASSUME NEW chunk \in Chunk, chunk.part \in {"weight", "bias"}
  PROVE  chunk.value \in Nat
  BY DEF Chunk, Torn

-----------------------------------------------------------------------------
(***************************************************************************)
(* The bias a module will have.                                            *)
(***************************************************************************)
Pending(m, mx, p, st, w, b) ==
  LET t == mx[m] IN
    IF ~Config[m].use_bias THEN 0
    ELSE IF t # NoThread /\ p[t] = "commit_bias" THEN st[t][3].value
    ELSE IF t # NoThread /\ p[t] = "step_bias" THEN w[m].value
    ELSE b[m].value

Half == {"commit_bias", "step_bias"}

\* Threads and mutexes agree.
Agree(mx, p, md) ==
  /\ mx \in [Module -> Thread \cup {NoThread}]
  /\ \A t \in Thread, m \in Module : mx[m] = t <=> p[t] \in Locked /\ md[t] = m

LEMMA PendingIs ==
  \A m : /\ PendingBias(m) = Pending(m, mutex, pc, staged, weight, bias)
         /\ PendingBias(m)' = Pending(m, mutex', pc', staged', weight', bias')
  BY DEF PendingBias, Pending

LEMMA AgreeNow == IInv => Agree(mutex, pc, module)
  BY DEF IInv, Types, CallsTyped, Locks, Agree

LEMMA AgreeNext == IInv' => Agree(mutex', pc', module')
  BY DEF IInv, Types, CallsTyped, Locks, Agree

LEMMA HalfHolds ==
  ASSUME NEW mx, NEW p, NEW md, Agree(mx, p, md), NEW m \in Module,
         NEW t \in Thread, p[t] \in Half, md[t] = m
  PROVE  mx[m] = t /\ t # NoThread
  BY ConfigAssumption DEF Agree, Half, Locked

LEMMA PendingCommit ==
  ASSUME NEW mx, NEW p, NEW md, NEW st, NEW w, NEW b, Agree(mx, p, md), NEW m \in Module,
         Config[m].use_bias, NEW t \in Thread, p[t] = "commit_bias", md[t] = m
  PROVE  Pending(m, mx, p, st, w, b) = st[t][3].value
<1>1. mx[m] = t /\ t # NoThread
  BY HalfHolds DEF Half
<1>2. QED
  BY <1>1 DEF Pending

LEMMA PendingStep ==
  ASSUME NEW mx, NEW p, NEW md, NEW st, NEW w, NEW b, Agree(mx, p, md), NEW m \in Module,
         Config[m].use_bias, \E t \in Thread : p[t] = "step_bias" /\ md[t] = m
  PROVE  Pending(m, mx, p, st, w, b) = w[m].value
<1>1. PICK t \in Thread : p[t] = "step_bias" /\ md[t] = m
  OBVIOUS
<1>2. mx[m] = t /\ t # NoThread
  BY <1>1, HalfHolds DEF Half
<1>3. QED
  BY <1>1, <1>2 DEF Pending

LEMMA PendingRest ==
  ASSUME NEW mx, NEW p, NEW md, NEW st, NEW w, NEW b, Agree(mx, p, md), NEW m \in Module,
         Config[m].use_bias, \A t \in Thread : p[t] \in Half => md[t] # m
  PROVE  Pending(m, mx, p, st, w, b) = b[m].value
<1>1. mx[m] = NoThread \/ mx[m] \in Thread
  BY DEF Agree
<1>2. mx[m] \in Thread => md[mx[m]] = m
  BY DEF Agree
<1>3. mx[m] \in Thread => p[mx[m]] \notin Half
  BY <1>2
<1>4. QED
  BY <1>1, <1>3 DEF Pending, Half

-----------------------------------------------------------------------------
(***************************************************************************)
(* What the file has to do with the calls on it, as long as they do not    *)
(* overlap.                                                                *)
(***************************************************************************)
OnFile == SaveSteps \cup LoadSteps

Alone == \A t, u \in Thread : pc[t] \in OnFile /\ pc[u] \in OnFile => t = u

Tensors == \A m \in Module : weight[m] \in Chunk /\ bias[m] \in Chunk

Contents == file \in Seq(Chunk) \cup {Absent}

\* A save has written what its module holds, a load has read what the file holds.
OnTrack(t) ==
  /\ pc[t] = "save_write" =>
       Holds(file, module[t], weight[module[t]], bias[module[t]], at[t] - 1)
  /\ pc[t] \in Committing \cup {"load_read"} =>
       file # Absent /\ \A k \in 1 .. at[t] - 1 : k <= Len(file) /\ staged[t][k] = file[k]
  /\ pc[t] \in Committing => Len(file) = at[t] - 1

Apart == Alone /\ Tensors /\ Contents /\ \A t \in Thread : OnTrack(t)

FileInv == ~raced => Apart

\* The calls of the other threads stay where they are.
Others(t) == \A u \in Thread \ {t} :
  pc'[u] = pc[u] /\ module'[u] = module[u] /\ at'[u] = at[u] /\ staged'[u] = staged[u]

\* What a step of t may change: the parameters of a module it has locked, and the
\* file if it is a save.
Within(t) ==
  /\ Others(t)
  /\ pc[t] \notin SaveSteps => UNCHANGED file
  /\ \A m \in Module : (pc[t] \in Locked /\ module[t] = m)
                       \/ (weight'[m] = weight[m] /\ bias'[m] = bias[m])

LEMMA MovesWithin ==
  ASSUME IInv, NEW t \in Thread
  PROVE  /\ \A step : Goto(t, step) /\ UNCHANGED progress => Others(t)
         /\ \A ok : Return(t, ok) => Others(t)
<1> USE DEF IInv, Types, CallsTyped, Others
<1>1. ASSUME NEW step, Goto(t, step), UNCHANGED progress PROVE Others(t)
  BY <1>1 DEF Goto, progress
<1>2. ASSUME NEW ok, Return(t, ok) PROVE Others(t)
  BY <1>2 DEF Return, Goto
<1>3. QED
  BY <1>1, <1>2

\* Parameters and file stay, while a call moves on or returns.
LEMMA QuietWithin ==
  ASSUME IInv, NEW t \in Thread, UNCHANGED <<weight, bias, file>>, Others(t)
  PROVE  Within(t)
  BY DEF Within

LEMMA StartWithin ==
  ASSUME IInv, NEW t \in Thread, NEW m \in Module, NEW step, Begin(t, m, step)
  PROVE  Within(t)
  BY DEF Begin, Goto, Within, Others, IInv, Types, CallsTyped, parameters

LEMMA LockWithin ==
  ASSUME IInv, NEW t \in Thread, NEW step, Lock(t, step)
  PROVE  Within(t)
<1>1. Goto(t, step) /\ UNCHANGED <<parameters, file, progress>>
  BY DEF Lock
<1>2. QED
  BY <1>1, MovesWithin, QuietWithin DEF parameters

LEMMA SaveWithin ==
  ASSUME IInv, NEW t \in Thread, SaveOpen(t) \/ SaveWrite(t) \/ SaveReturns(t) \/ SaveFails(t)
  PROVE  Within(t)
<1> USE DEF Within, SaveSteps, parameters
<1>1. CASE SaveOpen(t)
  BY <1>1, MovesWithin DEF SaveOpen
<1>2. CASE SaveWrite(t)
  BY <1>2 DEF SaveWrite, Others, IInv, Types, CallsTyped
<1>3. CASE SaveReturns(t)
  BY <1>3, MovesWithin DEF SaveReturns
<1>4. CASE SaveFails(t)
  BY <1>4, MovesWithin DEF SaveFails
<1>5. QED
  BY <1>1, <1>2, <1>3, <1>4

LEMMA LoadWithin ==
  ASSUME IInv, NEW t \in Thread,
         \/ LoadOpen(t) \/ LoadRead(t) \/ LoadEnds(t) \/ LoadFails(t)
         \/ CommitWeight(t) \/ CommitBias(t)
  PROVE  Within(t)
<1> USE DEF Within, parameters
<1>1. CASE LoadOpen(t)
  BY <1>1, MovesWithin DEF LoadOpen
<1>2. CASE LoadRead(t)
  BY <1>2 DEF LoadRead, Others, IInv, Types, CallsTyped
<1>3. CASE LoadEnds(t)
  BY <1>3, MovesWithin DEF LoadEnds
<1>4. CASE LoadFails(t)
  BY <1>4, MovesWithin DEF LoadFails
<1>5. CASE CommitWeight(t)
  <2>1. Others(t)
    BY <1>5, MovesWithin DEF CommitWeight
  <2>2. UNCHANGED <<bias, file>> /\ pc[t] \in Locked
    BY <1>5 DEF CommitWeight, Locked
  <2>3. \A m \in Module : m # module[t] => weight'[m] = weight[m]
    BY <1>5 DEF CommitWeight, IInv, Types
  <2>4. \A m \in Module : bias'[m] = bias[m]
    BY <2>2
  <2>5. \A m \in Module : (pc[t] \in Locked /\ module[t] = m)
                          \/ (weight'[m] = weight[m] /\ bias'[m] = bias[m])
    BY <2>2, <2>3, <2>4
  <2>6. QED
    BY <2>1, <2>2, <2>5
<1>6. CASE CommitBias(t)
  <2>1. Others(t)
    BY <1>6, MovesWithin DEF CommitBias
  <2>2. UNCHANGED <<weight, file>> /\ pc[t] \in Locked
    BY <1>6 DEF CommitBias, Locked
  <2>3. \A m \in Module : m # module[t] => bias'[m] = bias[m]
    BY <1>6 DEF CommitBias, IInv, Types
  <2>4. \A m \in Module : weight'[m] = weight[m]
    BY <2>2
  <2>5. \A m \in Module : (pc[t] \in Locked /\ module[t] = m)
                          \/ (weight'[m] = weight[m] /\ bias'[m] = bias[m])
    BY <2>2, <2>3, <2>4
  <2>6. QED
    BY <2>1, <2>2, <2>5
<1>7. QED
  BY <1>1, <1>2, <1>3, <1>4, <1>5, <1>6

LEMMA StepWithin ==
  ASSUME IInv, NEW t \in Thread, StepWeight(t) \/ StepBias(t) \/ StepSkipsWeight(t)
  PROVE  Within(t)
<1> USE DEF Within, parameters
<1>1. CASE StepWeight(t)
  <2>1. Others(t)
    BY <1>1, MovesWithin DEF StepWeight
  <2>2. UNCHANGED <<bias, file>> /\ pc[t] \in Locked
    BY <1>1 DEF StepWeight, Locked
  <2>3. \A m \in Module : m # module[t] => weight'[m] = weight[m]
    BY <1>1 DEF StepWeight, IInv, Types
  <2>4. \A m \in Module : bias'[m] = bias[m]
    BY <2>2
  <2>5. \A m \in Module : (pc[t] \in Locked /\ module[t] = m)
                          \/ (weight'[m] = weight[m] /\ bias'[m] = bias[m])
    BY <2>2, <2>3, <2>4
  <2>6. QED
    BY <2>1, <2>2, <2>5
<1>2. CASE StepBias(t)
  <2>1. Others(t)
    BY <1>2, MovesWithin DEF StepBias
  <2>2. UNCHANGED <<weight, file>> /\ pc[t] \in Locked
    BY <1>2 DEF StepBias, Locked
  <2>3. \A m \in Module : m # module[t] => bias'[m] = bias[m]
    BY <1>2 DEF StepBias, IInv, Types
  <2>4. \A m \in Module : weight'[m] = weight[m]
    BY <2>2
  <2>5. \A m \in Module : (pc[t] \in Locked /\ module[t] = m)
                          \/ (weight'[m] = weight[m] /\ bias'[m] = bias[m])
    BY <2>2, <2>3, <2>4
  <2>6. QED
    BY <2>1, <2>2, <2>5
<1>3. CASE StepSkipsWeight(t)
  <2>1. Others(t)
    BY <1>3, MovesWithin DEF StepSkipsWeight
  <2>2. UNCHANGED <<weight, file>> /\ pc[t] \in Locked
    BY <1>3 DEF StepSkipsWeight, Locked
  <2>3. \A m \in Module : m # module[t] => bias'[m] = bias[m]
    BY <1>3 DEF StepSkipsWeight, IInv, Types
  <2>4. \A m \in Module : weight'[m] = weight[m]
    BY <2>2
  <2>5. \A m \in Module : (pc[t] \in Locked /\ module[t] = m)
                          \/ (weight'[m] = weight[m] /\ bias'[m] = bias[m])
    BY <2>2, <2>3, <2>4
  <2>6. QED
    BY <2>1, <2>2, <2>5
<1>4. QED
  BY <1>1, <1>2, <1>3

\* The other calls stay on track, for the mutex and the file are theirs.
LEMMA OthersOnTrack ==
  ASSUME IInv, Apart, NEW t \in Thread, Within(t), NEW u \in Thread \ {t}
  PROVE  OnTrack(u)'
<1>1. OnTrack(u) /\ module[u] \in Module
  BY DEF Apart, IInv, Types, CallsTyped
<1>2. pc'[u] = pc[u] /\ module'[u] = module[u] /\ at'[u] = at[u] /\ staged'[u] = staged[u]
  BY DEF Within, Others
<1>3. pc[u] \in OnFile => UNCHANGED file
  BY DEF Apart, Alone, Within, OnFile
<1>4. pc[u] = "save_write" =>
        weight'[module[u]] = weight[module[u]] /\ bias'[module[u]] = bias[module[u]]
  <2>1. SUFFICES ASSUME pc[u] = "save_write" PROVE ~(pc[t] \in Locked /\ module[t] = module[u])
    BY <1>1 DEF Within
  <2>2. mutex[module[u]] = u
    BY <1>1, <2>1 DEF IInv, Locks, Locked
  <2>3. QED
    BY <1>1, <2>2 DEF IInv, Locks
<1>5. CASE pc[u] \notin OnFile
  BY <1>2, <1>5 DEF OnTrack, OnFile, SaveSteps, LoadSteps, Committing
<1>6. CASE pc[u] \in OnFile
  BY <1>1, <1>2, <1>3, <1>4, <1>6 DEF OnTrack
<1>7. QED
  BY <1>5, <1>6

\* The parts of the invariant, after a step of t.
LEMMA ApartFrame ==
  ASSUME IInv, Apart, NEW t \in Thread, Within(t),
         \/ pc'[t] \in OnFile => pc[t] \in OnFile
         \/ \A u \in Thread : pc[u] \notin OnFile,
         Tensors', Contents', OnTrack(t)'
  PROVE  Apart'
<1>1. Alone'
  BY DEF Apart, Alone, Within, Others
<1>2. \A u \in Thread : OnTrack(u)'
  BY OthersOnTrack
<1>3. QED
  BY <1>1, <1>2 DEF Apart

-----------------------------------------------------------------------------
(***************************************************************************)
(* Steps the store does not see.                                           *)
(***************************************************************************)

\* Nothing the store is about changes.
Unseen == UNCHANGED <<[m \in Module |-> <<weight[m].value, PendingBias(m)>>], Decoded, latest>>

LEMMA SameState ==
  ASSUME \A m \in Module : weight'[m].value = weight[m].value
                           /\ PendingBias(m)' = PendingBias(m),
         UNCHANGED <<file, latest>>
  PROVE  Unseen
<1>1. Decoded' = Decoded
  BY DecodedIs
<1>2. [m \in Module |-> <<weight[m].value, PendingBias(m)>>]' =
        [m \in Module |-> <<weight[m].value, PendingBias(m)>>]
  OBVIOUS
<1>3. QED
  BY <1>1, <1>2 DEF Unseen

\* Between its halves, and only then, the pending bias is not the bias.
LEMMA PendingOther ==
  ASSUME IInv, NEW m \in Module, \A t \in Thread : pc[t] \in Half => module[t] # m
  PROVE  PendingBias(m) = IF Config[m].use_bias THEN bias[m].value ELSE 0
<1>1. Agree(mutex, pc, module)
  BY AgreeNow
<1>2. Config[m].use_bias =>
        Pending(m, mutex, pc, staged, weight, bias) = bias[m].value
  BY <1>1, PendingRest
<1>3. ~Config[m].use_bias => Pending(m, mutex, pc, staged, weight, bias) = 0
  BY DEF Pending
<1>4. QED
  BY <1>2, <1>3, PendingIs

LEMMA PendingOtherNext ==
  ASSUME IInv', NEW m \in Module, \A t \in Thread : pc'[t] \in Half => module'[t] # m
  PROVE  PendingBias(m)' = IF Config[m].use_bias THEN bias'[m].value ELSE 0
<1>1. Agree(mutex', pc', module')
  BY AgreeNext
<1>2. Config[m].use_bias =>
        Pending(m, mutex', pc', staged', weight', bias') = bias'[m].value
  BY <1>1, PendingRest
<1>3. ~Config[m].use_bias => Pending(m, mutex', pc', staged', weight', bias') = 0
  BY DEF Pending
<1>4. QED
  BY <1>2, <1>3, PendingIs

\* A step of t leaves alone the bias of a module that t is not half way through.
LEMMA PendingKept ==
  ASSUME IInv, IInv', NEW t \in Thread, Others(t), NEW m \in Module,
         pc[t] \in Half => module[t] # m, pc'[t] \in Half => module'[t] # m,
         weight'[m] = weight[m], bias'[m] = bias[m]
  PROVE  PendingBias(m)' = PendingBias(m)
<1>1. Agree(mutex, pc, module) /\ Agree(mutex', pc', module')
  BY AgreeNow, AgreeNext
<1>2. \A u \in Thread \ {t} : pc'[u] = pc[u] /\ module'[u] = module[u] /\ staged'[u] = staged[u]
  BY DEF Others
<1>3. CASE \A u \in Thread : pc[u] \in Half => module[u] # m
  <2>1. \A u \in Thread : pc'[u] \in Half => module'[u] # m
    BY <1>2, <1>3
  <2>2. QED
    BY <1>3, <2>1, PendingOther, PendingOtherNext
<1>4. ASSUME NEW u \in Thread, pc[u] \in Half, module[u] = m
      PROVE  PendingBias(m)' = PendingBias(m)
  <2>1. pc'[u] = pc[u] /\ module'[u] = m /\ staged'[u] = staged[u]
    BY <1>2, <1>4
  <2>2. mutex[m] = u /\ mutex'[m] = u /\ u # NoThread
    BY <1>1, <1>4, <2>1, ConfigAssumption DEF Agree, Half, Locked
  <2>3. QED
    BY <1>4, <2>1, <2>2 DEF PendingBias, Half
<1>5. QED
  BY <1>3, <1>4

LEMMA UnseenStep ==
  ASSUME IInv, IInv', NEW t \in Thread, Others(t), pc[t] \notin Half, pc'[t] \notin Half,
         UNCHANGED <<weight, bias, file, latest>>
  PROVE  Unseen
  BY PendingKept, SameState

\* A thread that has locked m is the only one.
LEMMA OneHolder ==
  ASSUME IInv, NEW t \in Thread, pc[t] \in Locked,
         NEW u \in Thread, pc[u] \in Locked, module[u] = module[t]
  PROVE  u = t
<1>1. module[t] \in Module
  BY DEF IInv, Types, CallsTyped
<1>2. QED
  BY <1>1 DEF IInv, Locks

-----------------------------------------------------------------------------
(***************************************************************************)
(* Each step: the file stays on track, and the store makes its step.       *)
(***************************************************************************)
Follows == Apart' /\ (Unseen \/ Store!Promised)

LEMMA BeginFollows ==
  ASSUME IInv, IInv', Apart, ~raced', NEW t \in Thread, NEW m \in Module,
         BeginSave(t, m) \/ BeginLoad(t, m) \/ BeginStep(t, m)
  PROVE  Follows
<1>1. PICK step \in {"save_lock", "load_open", "step_lock"} :
        /\ Begin(t, m, step)
        /\ step \in OnFile => \A u \in Thread : pc[u] \notin OnFile
  BY DEF BeginSave, BeginLoad, BeginStep, BeginOnFile, SaveFirstStep, FileBusy, OnFile,
         SaveSteps, LoadSteps
<1>2. /\ pc' = [pc EXCEPT ![t] = step] /\ pc[t] = "idle"
      /\ UNCHANGED <<weight, bias, latest, file>>
  BY <1>1 DEF Begin, Goto, parameters
<1>3. pc'[t] = step
  BY <1>2 DEF IInv, Types, CallsTyped
<1>4. Within(t)
  BY <1>1, StartWithin
<1>5. Tensors' /\ Contents'
  BY <1>2 DEF Apart, Tensors, Contents
<1>6. OnTrack(t)'
  BY <1>3 DEF OnTrack, Committing
<1>7. Apart'
  BY <1>1, <1>3, <1>4, <1>5, <1>6, ApartFrame
<1>8. Unseen
  BY <1>2, <1>3, <1>4, UnseenStep DEF Within, Half
<1>9. QED
  BY <1>7, <1>8 DEF Follows

LEMMA LockFollows ==
  ASSUME IInv, IInv', Apart, NEW t \in Thread, SaveLock(t) \/ LoadLock(t) \/ StepLock(t)
  PROVE  Follows
<1>1. PICK step : /\ Lock(t, step)
                  /\ \/ pc[t] = "save_lock" /\ step = "save_open"
                     \/ pc[t] = "load_lock" /\ step = "commit_weight"
                     \/ pc[t] = "step_lock" /\ step = "step_weight"
  BY DEF SaveLock, LoadLock, StepLock
<1>2. /\ pc' = [pc EXCEPT ![t] = step]
      /\ UNCHANGED <<weight, bias, latest, file, module, at, staged>>
  BY <1>1 DEF Lock, Goto, parameters, progress
<1>3. pc'[t] = step
  BY <1>2 DEF IInv, Types, CallsTyped
<1>4. Within(t)
  BY <1>1, LockWithin
<1>5. Tensors' /\ Contents'
  BY <1>2 DEF Apart, Tensors, Contents
<1>6. OnTrack(t)'
  BY <1>1, <1>2, <1>3 DEF Apart, OnTrack, Committing
<1>7. pc'[t] \in OnFile => pc[t] \in OnFile
  BY <1>1, <1>3 DEF OnFile, SaveSteps, LoadSteps
<1>8. Apart'
  BY <1>4, <1>5, <1>6, <1>7, ApartFrame
<1>9. Unseen
  BY <1>1, <1>2, <1>3, <1>4, UnseenStep DEF Within, Half
<1>10. QED
  BY <1>8, <1>9 DEF Follows

\* A call returns, or goes on to its next step, without touching parameters or file.
LEMMA QuietFollows ==
  ASSUME IInv, IInv', Apart, NEW t \in Thread, Within(t),
         UNCHANGED <<weight, bias, latest, file>>, pc[t] \notin Half, pc'[t] \notin Half,
         pc'[t] \in OnFile => pc[t] \in OnFile, OnTrack(t)'
  PROVE  Follows
<1>1. Tensors' /\ Contents'
  BY DEF Apart, Tensors, Contents
<1>2. Apart'
  BY <1>1, ApartFrame
<1>3. Unseen
  BY UnseenStep DEF Within
<1>4. QED
  BY <1>2, <1>3 DEF Follows

LEMMA ReturnIdle ==
  ASSUME IInv, NEW t \in Thread, NEW ok, Return(t, ok)
  PROVE  pc'[t] = "idle" /\ module' = module /\ OnTrack(t)'
<1>1. pc'[t] = "idle" /\ module' = module
  BY DEF Return, Goto, IInv, Types, CallsTyped
<1>2. QED
  BY <1>1 DEF OnTrack, Committing

LEMMA NotOnFile == "idle" \notin OnFile /\ "idle" \notin Half
  BY DEF OnFile, SaveSteps, LoadSteps, Half

LEMMA ReturnsFollow ==
  ASSUME IInv, IInv', Apart, NEW t \in Thread, SaveReturns(t) \/ LoadFails(t)
  PROVE  Follows
<1>1. /\ \E ok : Return(t, ok)
      /\ UNCHANGED <<weight, bias, latest, file>> /\ pc[t] \notin Half
  BY DEF SaveReturns, LoadFails, parameters, Half
<1>2. Within(t)
  BY SaveWithin, LoadWithin
<1>3. QED
  BY <1>1, <1>2, ReturnIdle, NotOnFile, QuietFollows

\* The file is of no use to a load.
LEMMA LoseFollows ==
  ASSUME IInv, IInv', NEW t \in Thread, Within(t),
         UNCHANGED <<weight, bias, latest>>, pc[t] \notin Half, pc'[t] \notin Half,
         Decode(file') = Unusable
  PROVE  Store!Promised
<1>1. Decoded' = Unusable
  BY DecodedIs
<1>2. \A m \in Module : PendingBias(m)' = PendingBias(m)
  BY PendingKept DEF Within
<1>3. [m \in Module |-> <<weight[m].value, PendingBias(m)>>]' =
        [m \in Module |-> <<weight[m].value, PendingBias(m)>>]
  BY <1>2
<1>4. Store!Lose
  BY <1>1, <1>3 DEF Store!Lose
<1>5. QED
  BY <1>4 DEF Store!Promised

LEMMA SaveOpenFollows ==
  ASSUME IInv, IInv', Apart, NEW t \in Thread, SaveOpen(t)
  PROVE  Follows
<1>1. /\ pc[t] = "save_open" /\ file' = <<>> /\ pc' = [pc EXCEPT ![t] = "save_write"]
      /\ UNCHANGED <<weight, bias, latest, module, at>>
  BY DEF SaveOpen, Goto, parameters, progress
<1>2. pc'[t] = "save_write" /\ at[t] = 1 /\ module[t] \in Module
  BY <1>1 DEF IInv, Types, CallsTyped, Streams, Committing
<1>3. Within(t)
  BY SaveWithin
<1>4. \A m, w, b : Holds(file', m, w, b, 0)
  BY <1>1 DEF Holds
<1>5. OnTrack(t)'
  BY <1>1, <1>2, <1>4 DEF OnTrack, Committing
<1>6. Tensors' /\ Contents'
  BY <1>1, EmptySeq DEF Apart, Tensors, Contents
<1>7. pc[t] \in OnFile
  BY <1>1 DEF OnFile, SaveSteps
<1>8. Apart'
  BY <1>3, <1>5, <1>6, <1>7, ApartFrame
<1>9. Decode(file') = Unusable
  <2>1. 0 \in 0 .. ChunkCount(module[t]) - 1
    BY <1>2, ChunkCounts
  <2>2. QED
    BY <1>2, <1>4, <2>1, PartIsUnusable
<1>10. Store!Promised
  BY <1>1, <1>2, <1>3, <1>9, LoseFollows DEF Half
<1>11. QED
  BY <1>8, <1>10 DEF Follows

\* What ModuleSave writes is a chunk of a file, and one a load accepts.
LEMMA ChunkWritten ==
  ASSUME IInv, Tensors, NEW m \in Module, NEW k \in 1 .. ChunkCount(m)
  PROVE  /\ ChunkAt(m, weight[m], bias[m], k) \in Chunk
         /\ Acceptable(m, k, ChunkAt(m, weight[m], bias[m], k))
<1>1. k = 1 \/ k = 2 \/ k = 3
  BY ChunkCounts
<1>2. CASE k = 1
  <2>1. Header(Config[m]) \in Chunk
    BY DEF Header, Chunk
  <2>2. QED
    BY <1>2, <2>1 DEF ChunkAt, Acceptable
<1>3. CASE k = 2
  BY <1>3 DEF ChunkAt, Acceptable, Tensors, IInv, Shaped
<1>4. CASE k = 3
  BY <1>4 DEF ChunkAt, Acceptable, Tensors, IInv, Shaped
<1>5. QED
  BY <1>1, <1>2, <1>3, <1>4

\* A chunk more, and the contents are still chunks.
LEMMA ContentsWritten ==
  ASSUME NEW g, NEW n \in Nat, OfLength(g, n), \A i \in 1 .. n : g[i] \in Chunk
  PROVE  g \in Seq(Chunk) \cup {Absent}
<1>1. g \in [1 .. n -> Chunk]
  BY DEF OfLength
<1>2. QED
  BY <1>1, SeqDef

LEMMA FileOfChunks ==
  ASSUME NEW g, NEW n \in Nat, OfLength(g, n), \A i \in 1 .. n : g[i] \in Chunk
  PROVE  g # Absent
<1>1. g \in [1 .. n -> Chunk]
  BY DEF OfLength
<1>2. g \in Seq(Chunk)
  BY <1>1, SeqDef
<1>3. QED
  BY <1>2, FileAssumption

\* A file with all the chunks of a module is the checkpoint of that module.
LEMMA WrittenWhole ==
  ASSUME IInv, Tensors, NEW m \in Module, NEW f,
         Holds(f, m, weight[m], bias[m], ChunkCount(m))
  PROVE  Decode(f) = [config |-> Config[m],
                      value  |-> <<weight[m].value, IF Config[m].use_bias THEN bias[m].value ELSE 0>>]
<1> DEFINE n == ChunkCount(m)
<1>1. n \in {2, 3}
  BY ChunkCounts
<1> HIDE DEF n
<1>2. OfLength(f, n) /\ \A k \in 1 .. n : f[k] = ChunkAt(m, weight[m], bias[m], k)
  BY DEF Holds, OfLength, n
<1>3. \A k \in 1 .. n : f[k] \in Chunk /\ Acceptable(m, k, f[k])
  BY <1>2, ChunkWritten DEF n
<1>4. n \in Nat
  BY <1>1
<1>5. Len(f) = n
  BY <1>2, <1>4, LengthOf
<1>6. f # Absent
  BY <1>2, <1>3, <1>4, FileOfChunks
<1>7. Whole(f, m)
  BY <1>3, <1>5 DEF Whole, n
<1>8. f[2] = weight[m]
  BY <1>1, <1>2 DEF ChunkAt
<1>9. Config[m].use_bias => f[3] = bias[m]
  <2>1. Config[m].use_bias => n = 3
    BY DEF n, ChunkCount
  <2>2. QED
    BY <1>2, <2>1 DEF ChunkAt
<1>10. QED
  BY <1>6, <1>7, <1>8, <1>9, WholeIs

LEMMA SaveWriteFollows ==
  ASSUME IInv, IInv', Apart, NEW t \in Thread, SaveWrite(t)
  PROVE  Follows
<1> DEFINE m == module[t]
           n == at[t]
           chunk == ChunkAt(m, weight[m], bias[m], n)
<1>1. /\ pc[t] = "save_write" /\ n <= ChunkCount(m)
      /\ file' = Written(n, Chunks(m)[n])
      /\ at' = [at EXCEPT ![t] = at[t] + 1]
      /\ UNCHANGED <<weight, bias, latest, pc, module>>
  BY DEF SaveWrite, parameters
<1>2. m \in Module /\ n \in 1 .. ChunkCount(m) /\ at'[t] = n + 1
  BY <1>1, ChunkCounts DEF IInv, Types, CallsTyped
<1>3. Holds(file, m, weight[m], bias[m], n - 1)
  BY <1>1 DEF Apart, OnTrack
<1>4. file' = WrittenTo(file, n, chunk)
  BY <1>1, <1>2, ChunksAre, WrittenIs
<1> HIDE DEF m, n, chunk
<1>5. n \in Nat \ {0} /\ ChunkCount(m) \in Nat
  BY <1>2, ChunkCounts
<1>6. Holds(file', m, weight[m], bias[m], n)
  BY <1>3, <1>4, <1>5, HoldsMore DEF chunk
<1>7. Within(t)
  BY SaveWithin
<1>8. OnTrack(t)'
  <2>1. /\ pc'[t] = "save_write" /\ module'[t] = m /\ at'[t] - 1 = n
        /\ weight'[module'[t]] = weight[m] /\ bias'[module'[t]] = bias[m]
    BY <1>1, <1>2, <1>5 DEF m
  <2>2. QED
    BY <1>6, <2>1 DEF OnTrack, Committing
<1>9. /\ OfLength(file', n)
      /\ \A k \in 1 .. n : file'[k] = ChunkAt(m, weight[m], bias[m], k)
  BY <1>6 DEF Holds, OfLength
<1>10. \A k \in 1 .. n : file'[k] \in Chunk
  <2>1. Tensors
    BY DEF Apart
  <2>2. \A k \in 1 .. n : k \in 1 .. ChunkCount(m)
    BY <1>2, <1>5
  <2>3. QED
    BY <1>2, <1>9, <2>1, <2>2, ChunkWritten
<1>11. Tensors' /\ Contents'
  <2>1. file' \in Seq(Chunk) \cup {Absent}
    BY <1>5, <1>9, <1>10, ContentsWritten
  <2>2. QED
    BY <1>1, <2>1 DEF Apart, Tensors, Contents
<1>12. pc[t] \in OnFile /\ pc[t] \notin Half /\ pc'[t] \notin Half /\ pc[t] \in Locked
  BY <1>1 DEF OnFile, SaveSteps, Half, Locked
<1>13. Apart'
  BY <1>7, <1>8, <1>11, <1>12, ApartFrame
<1>14. CASE n < ChunkCount(m)
  <2>1. n \in 0 .. ChunkCount(m) - 1
    BY <1>5, <1>14
  <2>2. Decode(file') = Unusable
    BY <1>2, <1>6, <2>1, PartIsUnusable
  <2>3. Store!Promised
    BY <1>1, <1>7, <1>12, <2>2, LoseFollows
  <2>4. QED
    BY <1>13, <2>3 DEF Follows
<1>15. CASE n = ChunkCount(m)
  <2>1. Decode(file') = [config |-> Config[m], value |->
          <<weight[m].value, IF Config[m].use_bias THEN bias[m].value ELSE 0>>]
    BY <1>2, <1>6, <1>15, WrittenWhole DEF Apart
  <2>2. \A u \in Thread : pc[u] \in Half => module[u] # m
    BY <1>12, OneHolder DEF Half, Locked, m
  <2>3. PendingBias(m) = IF Config[m].use_bias THEN bias[m].value ELSE 0
    BY <1>2, <2>2, PendingOther
  <2>4. \A q \in Module : PendingBias(q)' = PendingBias(q)
    BY <1>1, <1>7, <1>12, PendingKept DEF Within
  <2>5. [q \in Module |-> <<weight[q].value, PendingBias(q)>>]' =
          [q \in Module |-> <<weight[q].value, PendingBias(q)>>]
    BY <1>1, <2>4
  <2>6. Decoded' = [config |-> Config[m],
                    value |-> [q \in Module |-> <<weight[q].value, PendingBias(q)>>][m]]
    BY <1>2, <2>1, <2>3, DecodedIs
  <2>7. Store!Save(m)
    BY <1>1, <2>5, <2>6 DEF Store!Save
  <2>8. QED
    BY <1>2, <1>13, <2>7 DEF Follows, Store!Promised
<1>16. QED
  BY <1>2, <1>5, <1>14, <1>15

\* A stream that goes bad leaves a part of a chunk, which no load accepts.
LEMMA SaveFailsFollows ==
  ASSUME IInv, IInv', Apart, NEW t \in Thread, SaveFails(t)
  PROVE  Follows
<1>1. /\ pc[t] \in {"save_open", "save_write"} /\ Return(t, FALSE)
      /\ UNCHANGED <<weight, bias, latest>>
      /\ \/ UNCHANGED file
         \/ pc[t] = "save_write" /\ file' = Written(at[t], Torn)
  BY DEF SaveFails, parameters
<1>2. pc'[t] = "idle" /\ module' = module /\ OnTrack(t)'
  BY <1>1, ReturnIdle
<1>3. Within(t)
  BY SaveWithin
<1>4. pc[t] \notin Half /\ pc'[t] \notin Half /\ pc'[t] \notin OnFile
  BY <1>1, <1>2, NotOnFile DEF Half
<1>5. CASE UNCHANGED file
  BY <1>1, <1>2, <1>3, <1>4, <1>5, QuietFollows
<1>6. CASE pc[t] = "save_write" /\ file' = Written(at[t], Torn)
  <2> DEFINE n == at[t]
  <2>1. n \in Nat \ {0}
    BY DEF IInv, Types, CallsTyped
  <2>2. Holds(file, module[t], weight[module[t]], bias[module[t]], n - 1)
    BY <1>6 DEF Apart, OnTrack
  <2> HIDE DEF n
  <2>3. OfLength(file, n - 1)
    BY <2>2 DEF Holds, OfLength
  <2>4. file' = WrittenTo(file, n, Torn)
    BY <1>6, WrittenIs DEF n
  <2>5. /\ OfLength(file', n)
        /\ \A k \in 1 .. n : file'[k] = IF k = n THEN Torn ELSE file[k]
    BY <2>1, <2>3, <2>4, WritingAtTheEnd
  <2>6. Decode(file') = Unusable
    BY <2>1, <2>5, TornIsUnusable
  <2>7. \A k \in 1 .. n : file'[k] \in Chunk
    <3>1. Torn \in Chunk
      BY DEF Chunk
    <3>2. \A k \in 1 .. n - 1 : file[k] \in Chunk
      <4>1. Len(file) = n - 1 /\ DOMAIN file = 1 .. n - 1
        BY <2>1, <2>3, LengthOf
      <4>2. CASE file = Absent
        <5>1. \A k \in 1 .. n - 1 : file[k] = ChunkAt(module[t], weight[module[t]], bias[module[t]], k)
          BY <2>2 DEF Holds
        <5>2. n - 1 \in 0 .. ChunkCount(module[t]) /\ module[t] \in Module
          BY <1>6, <2>1, ChunkCounts DEF n, IInv, Streams, Types, CallsTyped
        <5>3. QED
          BY <5>1, <5>2, ChunkCounts, ChunkWritten DEF Apart
      <4>3. CASE file \in Seq(Chunk)
        BY <4>1, <4>3, ElementOfSeq
      <4>4. QED
        BY <4>2, <4>3 DEF Apart, Contents
    <3>3. QED
      BY <2>1, <2>5, <3>1, <3>2
  <2>8. file' \in Seq(Chunk) \cup {Absent}
    BY <2>1, <2>5, <2>7, ContentsWritten
  <2>9. Tensors' /\ Contents'
    BY <1>1, <2>8 DEF Apart, Tensors, Contents
  <2>10. Apart'
    BY <1>2, <1>3, <1>4, <2>9, ApartFrame
  <2>11. Store!Promised
    BY <1>1, <1>3, <1>4, <2>6, LoseFollows
  <2>12. QED
    BY <2>10, <2>11 DEF Follows
<1>7. QED
  BY <1>1, <1>5, <1>6

LEMMA LoadFollows ==
  ASSUME IInv, IInv', Apart, NEW t \in Thread, LoadOpen(t) \/ LoadRead(t) \/ LoadEnds(t)
  PROVE  Follows
<1>1. Within(t)
  BY LoadWithin
<1>2. UNCHANGED <<weight, bias, latest, file, module>>
  BY DEF LoadOpen, LoadRead, LoadEnds, parameters, progress
<1>3. /\ pc[t] \notin Half /\ pc[t] \in OnFile
      /\ pc'[t] \in {"load_read", "load_lock"} /\ pc'[t] \notin Half
  BY DEF LoadOpen, LoadRead, LoadEnds, Goto, CommitFirstStep, Half, OnFile, LoadSteps,
         IInv, Types, CallsTyped
<1>4. OnTrack(t)'
  <2>1. CASE LoadOpen(t)
    <3>1. file # Absent /\ at[t] = 1 /\ at' = at /\ pc'[t] = "load_read"
      BY <2>1 DEF LoadOpen, Goto, progress, IInv, Streams, Committing, Types, CallsTyped
    <3>2. QED
      BY <1>2, <3>1 DEF OnTrack, Committing
  <2>2. CASE LoadEnds(t)
    <3>1. /\ pc[t] = "load_read" /\ Len(file) < at[t] /\ at' = at /\ staged' = staged
          /\ pc'[t] = "load_lock"
      BY <2>2 DEF LoadEnds, Goto, CommitFirstStep, progress, IInv, Types, CallsTyped
    <3>2. file # Absent /\ \A k \in 1 .. at[t] - 1 : k <= Len(file) /\ staged[t][k] = file[k]
      BY <3>1 DEF Apart, OnTrack
    <3>3. file \in Seq(Chunk)
      BY <3>2 DEF Apart, Contents
    <3>4. Len(file) \in Nat /\ at[t] \in 1 .. 4
      BY <3>3, LenProperties DEF IInv, Types, CallsTyped
    <3>5. Len(file) = at[t] - 1
      <4>1. at[t] > 1 => at[t] - 1 <= Len(file)
        BY <3>2, <3>4
      <4>2. QED
        BY <3>1, <3>4, <4>1
    <3>6. QED
      BY <1>2, <3>1, <3>2, <3>5 DEF OnTrack, Committing
  <2>3. CASE LoadRead(t)
    <3> DEFINE n == at[t] - 1
    <3>1. /\ pc[t] = "load_read" /\ pc'[t] = "load_read" /\ n + 1 <= Len(file)
          /\ staged'[t] = Append(staged[t], file[n + 1]) /\ at'[t] - 1 = n + 1 /\ n \in Nat
      <4>1. at[t] \in 1 .. 4 /\ n + 1 = at[t] /\ n \in Nat
        BY DEF IInv, Types, CallsTyped
      <4>2. at'[t] = at[t] + 1 /\ staged'[t] = Append(staged[t], file[at[t]])
        BY <2>3 DEF LoadRead, IInv, Types, CallsTyped
      <4> HIDE DEF n
      <4>3. QED
        BY <2>3, <4>1, <4>2 DEF LoadRead
    <3>2. file # Absent /\ \A k \in 1 .. n : k <= Len(file) /\ staged[t][k] = file[k]
      BY <3>1 DEF Apart, OnTrack
    <3>3. staged[t] = [k \in 1 .. n |-> staged[t][k]]
      BY <3>1 DEF IInv, Screened
    <3> HIDE DEF n
    <3>4. /\ \A k \in 1 .. n : staged'[t][k] = staged[t][k]
          /\ staged'[t][n + 1] = file[n + 1]
      BY <3>1, <3>3, Appended
    <3>5. \A k \in 1 .. n + 1 : k \in 1 .. n \/ k = n + 1
      BY <3>1
    <3>6. \A k \in 1 .. n + 1 : k <= Len(file) /\ staged'[t][k] = file[k]
      BY <3>1, <3>2, <3>4, <3>5
    <3>7. \A k \in 1 .. at'[t] - 1 : k <= Len(file') /\ staged'[t][k] = file'[k]
      BY <1>2, <3>1, <3>6
    <3>8. QED
      BY <1>2, <3>1, <3>2, <3>7 DEF OnTrack, Committing
  <2>4. QED
    BY <2>1, <2>2, <2>3
<1>5. QED
  BY <1>1, <1>2, <1>3, <1>4, QuietFollows

\* A load that commits holds the whole of the file, and the file is the checkpoint of
\* a module with its structure.
LEMMA CommitsWhole ==
  ASSUME IInv, Apart, NEW t \in Thread, pc[t] \in {"commit_weight", "commit_bias"},
         NEW m, m = module[t]
  PROVE  /\ m \in Module /\ Decode(file) # Unusable
         /\ Decode(file) = [config |-> Config[m], value |->
              <<staged[t][2].value, IF Config[m].use_bias THEN staged[t][3].value ELSE 0>>]
         /\ staged[t][2] \in Chunk /\ (Config[m].use_bias => staged[t][3] \in Chunk)
<1> DEFINE n == ChunkCount(m)
<1>1. m \in Module /\ n \in {2, 3} /\ at[t] - 1 = n
  BY ChunkCounts DEF IInv, Types, CallsTyped, Streams, Committing
<1>2. /\ file # Absent /\ \A k \in 1 .. at[t] - 1 : k <= Len(file) /\ staged[t][k] = file[k]
      /\ Len(file) = at[t] - 1
  BY DEF Apart, OnTrack, Committing
<1>3. \A k \in 1 .. at[t] - 1 : Acceptable(m, k, staged[t][k])
  BY DEF IInv, Screened, Committing
<1>4. file \in Seq(Chunk)
  BY <1>2 DEF Apart, Contents
<1>5. \A k \in 1 .. n : staged[t][k] = file[k] /\ Acceptable(m, k, file[k]) /\ file[k] \in Chunk
  BY <1>1, <1>2, <1>3, <1>4, ElementOfSeq
<1>6. Whole(file, m)
  BY <1>1, <1>2, <1>5 DEF Whole
<1>7. 2 \in 1 .. n /\ (Config[m].use_bias => 3 \in 1 .. n)
  BY <1>1 DEF ChunkCount
<1> HIDE DEF n
<1>8. /\ staged[t][2] = file[2] /\ file[2] \in Chunk /\ file[2].part = "weight"
      /\ Config[m].use_bias =>
           staged[t][3] = file[3] /\ file[3] \in Chunk /\ file[3].part = "bias"
  BY <1>1, <1>5, <1>7, AcceptedShape
<1> DEFINE value == <<staged[t][2].value, IF Config[m].use_bias THEN staged[t][3].value ELSE 0>>
<1>9. Decode(file) = [config |-> Config[m], value |-> value]
  BY <1>1, <1>2, <1>6, <1>8, WholeIs
<1>10. value \in Nat \X Nat
  BY <1>8, TensorValue
<1>11. Decode(file) \in State
  <2> HIDE DEF value
  <2>1. QED
    BY <1>1, <1>9, <1>10 DEF State
<1>12. QED
  BY <1>1, <1>8, <1>9, <1>11, FileAssumption

\* The state of the modules after a step that changes the one of m.
LEMMA StateChanges ==
  ASSUME NEW m \in Module, NEW v,
         <<weight'[m].value, PendingBias(m)'>> = v,
         \A q \in Module : q # m => /\ weight'[q].value = weight[q].value
                                   /\ PendingBias(q)' = PendingBias(q)
  PROVE  [q \in Module |-> <<weight[q].value, PendingBias(q)>>]' =
           [[q \in Module |-> <<weight[q].value, PendingBias(q)>>] EXCEPT ![m] = v]
  OBVIOUS

LEMMA CommitWeightFollows ==
  ASSUME IInv, IInv', Apart, NEW t \in Thread, CommitWeight(t)
  PROVE  Follows
<1>0. PICK m \in Module : m = module[t]
  BY DEF IInv, Types, CallsTyped
<1>1. /\ pc[t] = "commit_weight" /\ UNCHANGED <<bias, latest, file, module>>
      /\ weight' = [weight EXCEPT ![m] = staged[t][2]]
      /\ IF Config[m].use_bias
         THEN pc'[t] = "commit_bias" /\ UNCHANGED <<at, staged>>
         ELSE pc'[t] = "idle"
  <2>1. CASE Config[m].use_bias
    BY <1>0, <2>1 DEF CommitWeight, Goto, progress, IInv, Types, CallsTyped
  <2>2. CASE ~Config[m].use_bias
    BY <1>0, <2>2 DEF CommitWeight, Goto, Return, IInv, Types, CallsTyped
  <2>3. QED
    BY <2>1, <2>2
<1>2. /\ m \in Module /\ Decode(file) # Unusable
      /\ Decode(file) = [config |-> Config[m], value |->
           <<staged[t][2].value, IF Config[m].use_bias THEN staged[t][3].value ELSE 0>>]
      /\ staged[t][2] \in Chunk
  BY <1>0, <1>1, CommitsWhole
<1>3. Within(t)
  BY LoadWithin
<1>4. /\ module'[t] = m
  BY <1>0, <1>1
<1>5. /\ weight'[m] = staged[t][2] /\ \A q \in Module : q # m => weight'[q] = weight[q]
      /\ \A q \in Module : bias'[q] = bias[q]
  <2>1. weight = [q \in Module |-> weight[q]]
    BY DEF IInv, Types
  <2>2. QED
    BY <1>0, <1>1, <1>2, <2>1
<1>6. OnTrack(t)'
  <2>1. CASE Config[m].use_bias
    BY <1>0, <1>1, <2>1 DEF Apart, OnTrack, Committing
  <2>2. CASE ~Config[m].use_bias
    BY <1>1, <2>2 DEF OnTrack, Committing
  <2>3. QED
    BY <2>1, <2>2
<1>7. Tensors' /\ Contents'
  BY <1>0, <1>1, <1>2, <1>5 DEF Apart, Tensors, Contents
<1>8. Apart'
  <2>1. pc[t] \in OnFile
    BY <1>1 DEF OnFile, LoadSteps
  <2>2. QED
    BY <1>3, <1>6, <1>7, <2>1, ApartFrame
<1>9. \A q \in Module : q # m =>
        weight'[q].value = weight[q].value /\ PendingBias(q)' = PendingBias(q)
  BY <1>0, <1>3, <1>4, <1>5, PendingKept DEF Within
<1>10. PendingBias(m)' = IF Config[m].use_bias THEN staged[t][3].value ELSE 0
  <2>1. CASE Config[m].use_bias
    <3>1. Pending(m, mutex', pc', staged', weight', bias') = staged'[t][3].value
      BY <1>0, <1>1, <1>2, <1>4, <2>1, AgreeNext, PendingCommit
    <3>2. QED
      BY <1>1, <2>1, <3>1, PendingIs
  <2>2. CASE ~Config[m].use_bias
    BY <2>2, PendingIs DEF Pending
  <2>3. QED
    BY <2>1, <2>2
<1>11. <<weight'[m].value, PendingBias(m)'>> = Decode(file).value
  BY <1>2, <1>5, <1>10
<1>12. [q \in Module |-> <<weight[q].value, PendingBias(q)>>]' =
         [[q \in Module |-> <<weight[q].value, PendingBias(q)>>] EXCEPT ![m] = Decoded.value]
  BY <1>2, <1>9, <1>11, StateChanges, DecodedIs
<1>13. Decoded # Unusable /\ Decoded.config = Config[m] /\ Decoded' = Decoded
  BY <1>0, <1>1, <1>2, DecodedIs
<1>14. Store!Load(m)
  BY <1>1, <1>12, <1>13 DEF Store!Load
<1>15. QED
  BY <1>2, <1>8, <1>14 DEF Follows, Store!Promised

\* The second half of a commit, which the store has seen with the first.
LEMMA CommitBiasFollows ==
  ASSUME IInv, IInv', Apart, NEW t \in Thread, CommitBias(t)
  PROVE  Follows
<1>0. PICK m \in Module : m = module[t]
  BY DEF IInv, Types, CallsTyped
<1>1. /\ pc[t] = "commit_bias" /\ UNCHANGED <<weight, latest, file>> /\ Return(t, TRUE)
      /\ bias' = [bias EXCEPT ![m] = staged[t][3]]
  BY <1>0 DEF CommitBias
<1>2. m \in Module /\ staged[t][3] \in Chunk /\ Config[m].use_bias
  BY <1>0, <1>1, CommitsWhole DEF IInv, Streams
<1>3. Within(t)
  BY LoadWithin
<1>4. pc'[t] = "idle" /\ module' = module /\ OnTrack(t)'
  BY <1>1, ReturnIdle
<1>5. PendingBias(m) = staged[t][3].value
  <2>1. Pending(m, mutex, pc, staged, weight, bias) = staged[t][3].value
    BY <1>0, <1>1, <1>2, AgreeNow, PendingCommit
  <2>2. QED
    BY <2>1, PendingIs
<1>6. \A u \in Thread : u # t /\ pc[u] \in Half => module[u] # m
  BY <1>0, <1>1, OneHolder DEF Half, Locked
<1>7. \A u \in Thread : pc'[u] \in Half => module'[u] # m
  BY <1>0, <1>3, <1>4, <1>6, NotOnFile DEF Within, Others
<1>8. PendingBias(m)' = bias'[m].value
  BY <1>2, <1>7, PendingOtherNext
<1>9. bias'[m] = staged[t][3] /\ \A q \in Module : q # m => bias'[q] = bias[q]
  <2>1. bias = [q \in Module |-> bias[q]]
    BY DEF IInv, Types
  <2>2. QED
    BY <1>0, <1>1, <1>2, <2>1
<1>10. Tensors' /\ Contents'
  BY <1>0, <1>1, <1>2, <1>9 DEF Apart, Tensors, Contents
<1>11. Apart'
  BY <1>0, <1>3, <1>4, <1>10, NotOnFile, ApartFrame
<1>12. \A q \in Module : weight'[q].value = weight[q].value /\ PendingBias(q)' = PendingBias(q)
  BY <1>0, <1>1, <1>3, <1>4, <1>5, <1>8, <1>9, NotOnFile, PendingKept DEF Within
<1>13. Unseen
  BY <1>1, <1>12, SameState
<1>14. QED
  BY <1>11, <1>13 DEF Follows

\* A step of the optimizer, as the store sees it.
LEMMA Trained ==
  ASSUME NEW m \in Module, latest' = latest + 1, UNCHANGED Decoded,
         NEW w \in {weight[m].value, latest + 1},
         NEW b \in {PendingBias(m), Store!Fresh(m, latest + 1)[2]},
         [q \in Module |-> <<weight[q].value, PendingBias(q)>>]' =
           [[q \in Module |-> <<weight[q].value, PendingBias(q)>>] EXCEPT ![m] = <<w, b>>]
  PROVE  Store!Train(m)
<1>1. [q \in Module |-> <<weight[q].value, PendingBias(q)>>][m] =
        <<weight[m].value, PendingBias(m)>>
  OBVIOUS
<1>2. QED
  BY <1>1 DEF Store!Train

LEMMA StepWeightFollows ==
  ASSUME IInv, IInv', Apart, NEW t \in Thread, StepWeight(t)
  PROVE  Follows
<1>0. PICK m \in Module : m = module[t]
  BY DEF IInv, Types, CallsTyped
<1> DEFINE g == latest + 1
<1>1. /\ pc[t] = "step_weight" /\ UNCHANGED <<bias, file, module>>
      /\ latest' = g /\ g \in Nat
      /\ weight' = [weight EXCEPT ![m] = Parameter("weight", m, g)]
      /\ \/ Config[m].use_bias /\ pc'[t] = "step_bias"
         \/ pc'[t] = "idle"
  BY <1>0 DEF StepWeight, Goto, Return, progress, IInv, Types, CallsTyped
<1> HIDE DEF g
<1>2. /\ weight'[m] = Parameter("weight", m, g)
      /\ \A q \in Module : q # m => weight'[q] = weight[q]
      /\ \A q \in Module : bias'[q] = bias[q]
  <2>1. weight = [q \in Module |-> weight[q]]
    BY DEF IInv, Types
  <2>2. QED
    BY <1>1, <2>1
<1>3. Parameter("weight", m, g) \in Chunk /\ Parameter("weight", m, g).value = g
  BY <1>1 DEF Parameter, Tensor, Chunk
<1>4. Within(t)
  BY StepWithin
<1>5. OnTrack(t)'
  BY <1>1 DEF OnTrack, Committing
<1>6. Tensors' /\ Contents'
  BY <1>1, <1>2, <1>3 DEF Apart, Tensors, Contents
<1>7. Apart'
  <2>1. pc'[t] \notin OnFile
    BY <1>1 DEF OnFile, SaveSteps, LoadSteps
  <2>2. QED
    BY <1>4, <1>5, <1>6, <2>1, ApartFrame
<1>8. \A q \in Module : q # m =>
        weight'[q].value = weight[q].value /\ PendingBias(q)' = PendingBias(q)
  BY <1>0, <1>1, <1>2, <1>4, PendingKept DEF Within
<1>9. PendingBias(m)' \in {PendingBias(m), IF Config[m].use_bias THEN g ELSE 0}
  <2>1. CASE Config[m].use_bias /\ pc'[t] = "step_bias"
    <3>1. Pending(m, mutex', pc', staged', weight', bias') = weight'[m].value
      <4>1. \E u \in Thread : pc'[u] = "step_bias" /\ module'[u] = m
        BY <1>0, <1>1, <2>1
      <4>2. QED
        BY <2>1, <4>1, AgreeNext, PendingStep
    <3>2. QED
      BY <1>2, <1>3, <2>1, <3>1, PendingIs
  <2>2. CASE Config[m].use_bias /\ pc'[t] = "idle"
    <3>1. PendingBias(m)' = bias'[m].value
      <4>1. \A u \in Thread : u # t /\ pc[u] \in Half => module[u] # m
        BY <1>0, <1>1, OneHolder DEF Half, Locked
      <4>2. \A u \in Thread : pc'[u] \in Half => module'[u] # m
        BY <1>0, <1>4, <2>2, <4>1, NotOnFile DEF Within, Others
      <4>3. QED
        BY <2>2, <4>2, PendingOtherNext
    <3>2. PendingBias(m) = bias[m].value
      <4>1. \A u \in Thread : pc[u] \in Half => module[u] # m
        BY <1>0, <1>1, OneHolder DEF Half, Locked
      <4>2. QED
        BY <2>2, <4>1, PendingOther
    <3>3. QED
      BY <1>2, <3>1, <3>2
  <2>3. CASE ~Config[m].use_bias
    BY <2>3, PendingIs DEF Pending
  <2>4. QED
    BY <1>1, <2>1, <2>2, <2>3
<1>10. PICK b \in {PendingBias(m), Store!Fresh(m, g)[2]} :
         <<weight'[m].value, PendingBias(m)'>> = <<g, b>>
  BY <1>2, <1>3, <1>9 DEF Store!Fresh
<1>11. [q \in Module |-> <<weight[q].value, PendingBias(q)>>]' =
         [[q \in Module |-> <<weight[q].value, PendingBias(q)>>] EXCEPT ![m] = <<g, b>>]
  BY <1>8, <1>10, StateChanges
<1>12. Decoded' = Decoded
  BY <1>1, DecodedIs
<1>13. Store!Train(m)
  BY <1>1, <1>11, <1>12, Trained DEF g
<1>14. QED
  BY <1>7, <1>13 DEF Follows, Store!Promised

\* The second half of an optimizer step, which the store has seen with the first.
LEMMA StepBiasFollows ==
  ASSUME IInv, IInv', Apart, NEW t \in Thread, StepBias(t)
  PROVE  Follows
<1>0. PICK m \in Module : m = module[t]
  BY DEF IInv, Types, CallsTyped
<1>1. /\ pc[t] = "step_bias" /\ UNCHANGED <<weight, latest, file>> /\ Return(t, TRUE)
      /\ bias' = [bias EXCEPT ![m] = Parameter("bias", m, weight[m].value)]
  BY <1>0 DEF StepBias
<1>2. Config[m].use_bias
  BY <1>0, <1>1 DEF IInv, Streams
<1>3. /\ Parameter("bias", m, weight[m].value) \in Chunk
      /\ Parameter("bias", m, weight[m].value).value = weight[m].value
  <2>1. weight[m].value \in Nat
    BY TensorValue DEF Apart, Tensors, IInv, Shaped
  <2>2. QED
    BY <2>1 DEF Parameter, Tensor, Chunk
<1>4. Within(t)
  BY StepWithin
<1>5. pc'[t] = "idle" /\ module' = module /\ OnTrack(t)'
  BY <1>1, ReturnIdle
<1>6. PendingBias(m) = weight[m].value
  <2>1. \E u \in Thread : pc[u] = "step_bias" /\ module[u] = m
    BY <1>0, <1>1
  <2>2. Pending(m, mutex, pc, staged, weight, bias) = weight[m].value
    BY <1>2, <2>1, AgreeNow, PendingStep
  <2>3. QED
    BY <2>2, PendingIs
<1>7. \A u \in Thread : u # t /\ pc[u] \in Half => module[u] # m
  BY <1>0, <1>1, OneHolder DEF Half, Locked
<1>8. \A u \in Thread : pc'[u] \in Half => module'[u] # m
  BY <1>0, <1>4, <1>5, <1>7, NotOnFile DEF Within, Others
<1>9. PendingBias(m)' = bias'[m].value
  BY <1>2, <1>8, PendingOtherNext
<1>10. /\ bias'[m] = Parameter("bias", m, weight[m].value)
       /\ \A q \in Module : q # m => bias'[q] = bias[q]
  <2>1. bias = [q \in Module |-> bias[q]]
    BY DEF IInv, Types
  <2>2. QED
    BY <1>1, <2>1
<1>11. Tensors' /\ Contents'
  BY <1>1, <1>3, <1>10 DEF Apart, Tensors, Contents
<1>12. Apart'
  BY <1>4, <1>5, <1>11, NotOnFile, ApartFrame
<1>13. \A q \in Module : weight'[q].value = weight[q].value /\ PendingBias(q)' = PendingBias(q)
  BY <1>0, <1>1, <1>3, <1>4, <1>5, <1>6, <1>9, <1>10, NotOnFile, PendingKept DEF Within
<1>14. Unseen
  BY <1>1, <1>13, SameState
<1>15. QED
  BY <1>12, <1>14 DEF Follows

\* A step that skips the weight has written the bias or nothing.
LEMMA StepSkipsWeightFollows ==
  ASSUME IInv, IInv', Apart, NEW t \in Thread, StepSkipsWeight(t)
  PROVE  Follows
<1>0. PICK m \in Module : m = module[t]
  BY DEF IInv, Types, CallsTyped
<1> DEFINE g == latest + 1
<1>1. /\ pc[t] = "step_weight" /\ UNCHANGED <<weight, file>> /\ Return(t, TRUE)
      /\ \/ /\ Config[m].use_bias /\ latest' = g
            /\ bias' = [bias EXCEPT ![m] = Parameter("bias", m, g)]
         \/ UNCHANGED <<bias, latest>>
  BY <1>0 DEF StepSkipsWeight
<1>2. g \in Nat
  BY DEF IInv, Types
<1> HIDE DEF g
<1>3. Parameter("bias", m, g) \in Chunk /\ Parameter("bias", m, g).value = g
  BY <1>2 DEF Parameter, Tensor, Chunk
<1>4. Within(t)
  BY StepWithin
<1>5. pc'[t] = "idle" /\ module' = module /\ OnTrack(t)'
  BY <1>1, ReturnIdle
<1>6. \A u \in Thread : pc[u] \in Half => module[u] # m
  BY <1>0, <1>1, OneHolder DEF Half, Locked
<1>7. \A u \in Thread : pc'[u] \in Half => module'[u] # m
  BY <1>0, <1>4, <1>5, <1>6, NotOnFile DEF Within, Others
<1>8. \A q \in Module : q # m => bias'[q] = bias[q]
  BY <1>1 DEF IInv, Types
<1>9. bias'[m] \in {bias[m], Parameter("bias", m, g)}
  BY <1>1 DEF IInv, Types
<1>10. Tensors' /\ Contents'
  BY <1>1, <1>3, <1>8, <1>9 DEF Apart, Tensors, Contents
<1>11. Apart'
  BY <1>4, <1>5, <1>10, NotOnFile, ApartFrame
<1>12. \A q \in Module : q # m =>
         weight'[q].value = weight[q].value /\ PendingBias(q)' = PendingBias(q)
  BY <1>0, <1>1, <1>4, <1>5, <1>8, NotOnFile, PendingKept DEF Within
<1>13. Decoded' = Decoded
  BY <1>1, DecodedIs
<1>14. CASE Config[m].use_bias /\ latest' = g /\ bias' = [bias EXCEPT ![m] = Parameter("bias", m, g)]
  <2>1. bias'[m] = Parameter("bias", m, g)
    BY <1>14 DEF IInv, Types
  <2>2. PendingBias(m)' = g
    BY <1>3, <1>7, <1>14, <2>1, PendingOtherNext
  <2>3. Store!Fresh(m, g)[2] = g
    BY <1>14 DEF Store!Fresh
  <2>4. <<weight'[m].value, PendingBias(m)'>> = <<weight[m].value, g>>
    BY <1>1, <2>2
  <2>5. [q \in Module |-> <<weight[q].value, PendingBias(q)>>]' =
          [[q \in Module |-> <<weight[q].value, PendingBias(q)>>] EXCEPT
             ![m] = <<weight[m].value, g>>]
    BY <1>12, <2>4, StateChanges
  <2>6. Store!Train(m)
    BY <1>13, <1>14, <2>3, <2>5, Trained DEF g
  <2>7. QED
    BY <1>11, <2>6 DEF Follows, Store!Promised
<1>15. CASE UNCHANGED <<bias, latest>>
  <2>1. PendingBias(m)' = PendingBias(m)
    <3>1. CASE Config[m].use_bias
      BY <1>6, <1>7, <1>15, <3>1, PendingOther, PendingOtherNext
    <3>2. CASE ~Config[m].use_bias
      BY <3>2, PendingIs DEF Pending
    <3>3. QED
      BY <3>1, <3>2
  <2>2. \A q \in Module : weight'[q].value = weight[q].value /\ PendingBias(q)' = PendingBias(q)
    BY <1>1, <1>12, <2>1
  <2>3. Unseen
    BY <1>1, <1>15, <2>2, SameState
  <2>4. QED
    BY <1>11, <2>3 DEF Follows
<1>16. QED
  BY <1>1, <1>14, <1>15

\* A crash leaves the file, and fresh modules without calls.
LEMMA CrashFollows ==
  ASSUME IInv, IInv', Apart, Crash
  PROVE  Follows
<1> DEFINE g == latest + 1
<1>1. /\ latest' = g /\ g \in Nat /\ UNCHANGED file
      /\ \A m \in Module : /\ weight'[m] = Parameter("weight", m, g)
                           /\ bias'[m] = Parameter("bias", m, g)
      /\ \A t \in Thread : pc'[t] = "idle"
  BY DEF Crash, IInv, Types
<1> HIDE DEF g
<1>2. \A m \in Module : /\ Parameter("weight", m, g) \in Chunk /\ Parameter("weight", m, g).value = g
                        /\ Parameter("bias", m, g) \in Chunk /\ Parameter("bias", m, g).value = g
  BY <1>1 DEF Parameter, Tensor, Chunk
<1>3. Tensors' /\ Contents'
  BY <1>1, <1>2 DEF Apart, Tensors, Contents
<1>4. Apart'
  BY <1>1, <1>3, NotOnFile DEF Apart, Alone, OnTrack, Committing
<1>5. \A m \in Module : PendingBias(m)' = IF Config[m].use_bias THEN g ELSE 0
  BY <1>1, <1>2, NotOnFile, PendingOtherNext
<1>6. \A m \in Module : <<weight'[m].value, PendingBias(m)'>> = Store!Fresh(m, g)
  BY <1>1, <1>2, <1>5 DEF Store!Fresh
<1>7. [m \in Module |-> <<weight[m].value, PendingBias(m)>>]' =
        [m \in Module |-> Store!Fresh(m, g)]
  BY <1>6
<1>8. Decoded' = Decoded
  BY <1>1, DecodedIs
<1>9. Store!Restart
  BY <1>1, <1>7, <1>8 DEF Store!Restart, g
<1>10. QED
  BY <1>4, <1>9 DEF Follows, Store!Promised

-----------------------------------------------------------------------------
(***************************************************************************)
(* The whole.                                                              *)
(***************************************************************************)
\* Calls that have overlapped stay so.
LEMMA RacedStays == Next /\ raced \in BOOLEAN /\ ~raced' => raced' = raced /\ ~raced
<1> SUFFICES ASSUME Next, raced \in BOOLEAN, ~raced' PROVE raced' = raced /\ ~raced
  OBVIOUS
<1>1. ASSUME NEW t \in Thread, Start(t) PROVE raced' = raced /\ ~raced
  <2>1. raced' = raced \/ raced' = (raced \/ FileBusy)
    BY <1>1 DEF Start, BeginSave, BeginLoad, BeginStep, BeginOnFile
  <2>2. QED
    BY <2>1, Zenon
<1>2. ASSUME NEW t \in Thread, Run(t) PROVE raced' = raced
  BY <1>2 DEF Run, SaveLock, SaveOpen, SaveWrite, SaveReturns, SaveFails, LoadOpen, LoadRead,
     LoadEnds, LoadFails, LoadLock, CommitWeight, CommitBias, StepLock, StepWeight, StepBias,
     StepSkipsWeight,
     Lock, Return, history
<1>3. Crash => raced' = raced
  BY DEF Crash, history
<1>4. QED
  BY <1>1, <1>2, <1>3 DEF Next

LEMMA StepFollows ==
  ASSUME IInv, IInv', Apart, ~raced', Next
  PROVE  Follows
<1>1. CASE Crash
  BY <1>1, CrashFollows
<1>2. ASSUME NEW t \in Thread, Start(t) PROVE Follows
  BY <1>2, BeginFollows DEF Start
<1>3. ASSUME NEW t \in Thread, Run(t) PROVE Follows
  BY <1>3, LockFollows, SaveOpenFollows, SaveWriteFollows, ReturnsFollow, SaveFailsFollows,
     LoadFollows, CommitWeightFollows, CommitBiasFollows, StepWeightFollows, StepBiasFollows,
     StepSkipsWeightFollows
     DEF Run
<1>4. QED
  BY <1>1, <1>2, <1>3 DEF Next

LEMMA NextFollows ==
  ASSUME IInv, IInv', FileInv, [Next]_vars
  PROVE  FileInv' /\ [Store!Next]_(Store!svars)
<1>1. CASE UNCHANGED vars
  <2>1. UNCHANGED <<weight, bias, latest, file, mutex, pc, module, at, staged, raced>>
    BY <1>1 DEF vars, parameters, progress, history
  <2>2. FileInv'
    BY <2>1 DEF FileInv, Apart, Alone, Tensors, Contents, OnTrack, Holds, ChunkAt, Header
  <2>3. UNCHANGED Store!svars
    <3>1. \A m \in Module : weight'[m].value = weight[m].value /\ PendingBias(m)' = PendingBias(m)
      BY <2>1, PendingIs
    <3>2. Unseen
      BY <2>1, <3>1, SameState
    <3>3. QED
      BY <2>1, <3>2 DEF Unseen, Store!svars
  <2>4. QED
    BY <2>2, <2>3
<1>2. CASE Next /\ raced'
  BY <1>2 DEF FileInv, Store!Next
<1>3. CASE Next /\ ~raced'
  <2>1. ~raced /\ raced' = raced
    <3>1. raced \in BOOLEAN
      BY DEF IInv, Types, CallsTyped
    <3>2. QED
      BY <1>3, <3>1, RacedStays
  <2>2. Follows
    BY <1>3, <2>1, StepFollows DEF FileInv
  <2>3. FileInv'
    BY <2>2 DEF Follows, FileInv
  <2>4. Unseen \/ Store!Promised
    BY <2>2 DEF Follows
  <2>5. Unseen => UNCHANGED Store!svars
    BY <2>1 DEF Unseen, Store!svars
  <2>6. Store!Promised => Store!Next
    BY <2>1 DEF Store!Next
  <2>7. QED
    BY <2>3, <2>4, <2>5, <2>6
<1>4. QED
  BY <1>1, <1>2, <1>3

LEMMA InitFollows == Init => FileInv /\ Store!Init
<1> SUFFICES ASSUME Init PROVE FileInv /\ Store!Init
  OBVIOUS
<1>1. /\ latest = 0 /\ raced = FALSE /\ file = Absent
      /\ \A t \in Thread : pc[t] = "idle"
      /\ \A m \in Module : weight[m] = Parameter("weight", m, 0) /\ bias[m] = Parameter("bias", m, 0)
  BY DEF Init
<1>2. \A m \in Module : /\ Parameter("weight", m, 0) \in Chunk /\ Parameter("weight", m, 0).value = 0
                        /\ Parameter("bias", m, 0) \in Chunk /\ Parameter("bias", m, 0).value = 0
  BY DEF Parameter, Tensor, Chunk
<1>3. FileInv
  BY <1>1, <1>2, NotOnFile DEF FileInv, Apart, Alone, Tensors, Contents, OnTrack, Committing
<1>4. \A m \in Module : PendingBias(m) = IF Config[m].use_bias THEN 0 ELSE 0
  BY <1>1, <1>2, NotOnFile, PendingOther, InitIInv
<1>5. [m \in Module |-> <<weight[m].value, PendingBias(m)>>] = [m \in Module |-> Store!Fresh(m, 0)]
  BY <1>1, <1>2, <1>4 DEF Store!Fresh
<1>6. Decoded = Unusable
  BY <1>1, DecodedIs DEF Decode
<1>7. QED
  BY <1>1, <1>3, <1>5, <1>6 DEF Store!Init

\* Saves, loads, optimizer steps, failed writes and crashes, chunk by chunk and half
\* by half, come to whole states saved, lost and taken over at once, as long as the
\* calls that name the file do not overlap: ModuleSave leaves a usable file only with
\* its last chunk, and ModuleLoad commits the whole of what one save has written.
THEOREM StoreIsImplemented == Spec => ImplementsStore
<1>1. Init => FileInv /\ Store!Init
  BY InitFollows
<1>2. IInv /\ IInv' /\ FileInv /\ [Next]_vars => FileInv' /\ [Store!Next]_(Store!svars)
  BY NextFollows
<1>3. QED
  BY <1>1, <1>2, InvariantHolds, PTL DEF Spec, ImplementsStore, Store!Spec
=====================================================================================
