----------------------------- MODULE Checkpoint -----------------------------
(***************************************************************************)
(* Saving and loading a Linear module of the core build                    *)
(* (native/src/training/training_bridge_stub.cc), beside its optimizer.    *)
(*                                                                         *)
(* A checkpoint is a file of chunks: a header, the weight, and the bias if *)
(* there is one.  ModuleSave writes it in place under the module's mutex;  *)
(* ModuleLoad reads and validates it without the mutex, which it takes     *)
(* only to commit.  Two modules have two mutexes, so calls that name one   *)
(* file may overlap: raced remembers that they have.                       *)
(*                                                                         *)
(* Chunks are read and written one at a time, a write may fail half way,   *)
(* and the process may crash at any point: the file stays as it is.        *)
(***************************************************************************)
EXTENDS Integers, Sequences, SequencesExt

CONSTANTS
  Thread, Module,
  Config,      \* [shape, use_bias] of each module, fixed when it is created
  NoThread, Absent, Unusable,
  MaxLatest,   \* bound: values given to parameters before the last crash
  MaxCalls     \* bound: calls started

Header(c)       == [part |-> "header", config |-> c]
Tensor(p, s, v) == [part |-> p, shape |-> s, value |-> v]
Torn            == [part |-> "torn"]   \* not all of a chunk, or a hole

\* What the file can be made of, and what a load can take from it.
Chunk == [part : {"header"}, config : {Config[m] : m \in Module}]
         \cup [part : {"weight", "bias"}, shape : {Config[m].shape : m \in Module}, value : Nat]
         \cup {Torn}
State == [config : {Config[m] : m \in Module}, value : Nat \X Nat]

ASSUME ConfigAssumption ==
  /\ \A m \in Module : Config[m].use_bias \in BOOLEAN
  /\ NoThread \notin Thread /\ MaxCalls \in Nat

\* A file that does not exist is not one with contents, and what cannot be used
\* is not a state.
ASSUME FileAssumption == Absent \notin Seq(Chunk) /\ Unusable \notin State

VARIABLES
  weight,  \* LinearState::weight: its shape and its value
  bias,    \* LinearState::bias
  mutex,   \* LinearState::mutex: the thread that holds it
  latest,  \* number of values given to parameters so far
  file,    \* the checkpoint file: Absent, or a sequence of chunks
  pc,      \* where each call is
  module,  \* the module each call is about
  at,      \* the chunk the stream of each call is at
  staged,  \* the chunks each load has read
  calls,   \* calls started so far
  raced    \* history: two calls on the file have overlapped

parameters == <<weight, bias, latest>>
progress   == <<module, at, staged>>
history    == <<calls, raced>>
vars == <<parameters, mutex, file, pc, progress, history>>

Parameter(p, m, v) == Tensor(p, Config[m].shape, v)

\* What ModuleSave writes, from the live parameters.
Chunks(m) ==
  <<Header(Config[m]), weight[m]>>
    \o (IF Config[m].use_bias THEN <<bias[m]>> ELSE <<>>)

ChunkCount(m) == IF Config[m].use_bias THEN 3 ELSE 2

SaveSteps == {"save_lock", "save_open", "save_write"}
LoadSteps == {"load_open", "load_read", "load_lock",
              "commit_weight", "commit_bias"}
StepSteps == {"step_lock", "step_weight", "step_bias"}
Locked    == {"save_open", "save_write", "commit_weight", "commit_bias",
              "step_weight", "step_bias"}

TypeOK ==
  /\ \A m \in Module :
       weight[m].part = "weight" /\ bias[m].part = "bias"
  /\ mutex \in [Module -> Thread \cup {NoThread}]
  /\ latest \in Nat /\ calls \in 0 .. MaxCalls
  /\ raced \in BOOLEAN
  /\ pc \in [Thread -> {"idle"} \cup SaveSteps \cup LoadSteps \cup StepSteps]
  /\ module \in [Thread -> Module]
  /\ \A t \in Thread : at[t] \in 1 .. 4
  /\ \A t \in Thread, m \in Module :
       mutex[m] = t <=> pc[t] \in Locked /\ module[t] = m

Init ==
  /\ weight = [m \in Module |-> Parameter("weight", m, 0)]
  /\ bias = [m \in Module |-> Parameter("bias", m, 0)]
  /\ mutex = [m \in Module |-> NoThread]
  /\ latest = 0 /\ calls = 0 /\ raced = FALSE
  /\ file = Absent
  /\ pc = [t \in Thread |-> "idle"]
  /\ module \in [Thread -> Module]
  /\ at = [t \in Thread |-> 1]
  /\ staged = [t \in Thread |-> <<>>]

Goto(t, step) == pc' = [pc EXCEPT ![t] = step]

\* lock_guard: released on every return, early ones included.
Unlocked_OnSuccess(t, ok) ==
  [m \in Module |-> IF ok /\ mutex[m] = t THEN NoThread ELSE mutex[m]]
Unlocked(t, ok) ==
  [m \in Module |-> IF mutex[m] = t THEN NoThread ELSE mutex[m]]

Return(t, ok) ==
  /\ Goto(t, "idle")
  /\ mutex' = Unlocked(t, ok)
  /\ at' = [at EXCEPT ![t] = 1]
  /\ staged' = [staged EXCEPT ![t] = <<>>]
  /\ UNCHANGED <<module, history>>

\* Waits for the mutex of the module.
Lock(t, step) ==
  /\ mutex[module[t]] = NoThread
  /\ mutex' = [mutex EXCEPT ![module[t]] = t]
  /\ Goto(t, step)
  /\ UNCHANGED <<parameters, file, progress, history>>

Begin(t, m, step) ==
  /\ pc[t] = "idle" /\ calls < MaxCalls
  /\ calls' = calls + 1
  /\ module' = [module EXCEPT ![t] = m]
  /\ Goto(t, step)
  /\ UNCHANGED <<parameters, mutex, file, at, staged>>

FileBusy == \E u \in Thread : pc[u] \in SaveSteps \cup LoadSteps

BeginOnFile(t, m, step) == Begin(t, m, step) /\ raced' = (raced \/ FileBusy)

-----------------------------------------------------------------------------
(* ModuleSave.                                                             *)

\* The lock is taken before the file is opened.
SaveFirstStep_Unlocked == "save_open"
SaveFirstStep == "save_lock"

BeginSave(t, m) == BeginOnFile(t, m, SaveFirstStep)

SaveLock(t) == pc[t] = "save_lock" /\ Lock(t, "save_open")

\* std::ios::trunc.
SaveOpen(t) ==
  /\ pc[t] = "save_open"
  /\ file' = <<>>
  /\ Goto(t, "save_write")
  /\ UNCHANGED <<parameters, mutex, progress, history>>

SameLength(a, b) ==
  a.part = b.part /\ (a.part \in {"weight", "bias"} => a.shape = b.shape)

\* The file after chunk was written at position k.  A gap before it reads as
\* zeros; what follows keeps its meaning only if the chunk it follows has kept
\* its length.
Written(k, chunk) ==
  [i \in 1 .. (IF Len(file) < k THEN k ELSE Len(file)) |->
     IF i = k THEN chunk
     ELSE IF i > Len(file) THEN Torn
     ELSE IF i > k /\ ~SameLength(file[k], chunk) THEN Torn
     ELSE file[i]]

SaveWrite(t) ==
  /\ pc[t] = "save_write" /\ at[t] <= ChunkCount(module[t])
  /\ file' = Written(at[t], Chunks(module[t])[at[t]])
  /\ at' = [at EXCEPT ![t] = @ + 1]
  /\ UNCHANGED <<parameters, mutex, pc, module, staged, history>>

SaveReturns(t) ==
  /\ pc[t] = "save_write" /\ at[t] > ChunkCount(module[t])
  /\ Return(t, TRUE)
  /\ UNCHANGED <<parameters, file>>

\* The file cannot be opened, or the stream goes bad: nothing or a part of the
\* next chunk has reached the file.
SaveFails(t) ==
  /\ pc[t] \in {"save_open", "save_write"}
  /\ file' \in {file} \cup (IF pc[t] = "save_write"
                            THEN {Written(at[t], Torn)} ELSE {})
  /\ Return(t, FALSE)
  /\ UNCHANGED parameters

-----------------------------------------------------------------------------
(* ModuleLoad.                                                             *)

BeginLoad(t, m) == BeginOnFile(t, m, "load_open")

LoadOpen(t) ==
  /\ pc[t] = "load_open" /\ file # Absent
  /\ Goto(t, "load_read")
  /\ UNCHANGED <<parameters, mutex, file, progress, history>>

\* What ModuleLoad requires of chunk k: magic, version, features and bias of
\* the header, and the shape of each tensor (ReadTensorPayload).
Acceptable_HeaderOnly(m, k, chunk) ==
  \/ k = 1 /\ chunk = Header(Config[m])
  \/ k = 2 /\ chunk.part = "weight"
  \/ k = 3 /\ chunk.part = "bias"
Acceptable(m, k, chunk) ==
  \/ k = 1 /\ chunk = Header(Config[m])
  \/ k = 2 /\ chunk.part = "weight" /\ chunk.shape = Config[m].shape
  \/ k = 3 /\ chunk.part = "bias" /\ chunk.shape = Config[m].shape

LoadRead(t) ==
  /\ pc[t] = "load_read" /\ at[t] <= ChunkCount(module[t])
  /\ at[t] <= Len(file)
  /\ Acceptable(module[t], at[t], file[at[t]])
  /\ staged' = [staged EXCEPT ![t] = Append(@, file[at[t]])]
  /\ at' = [at EXCEPT ![t] = @ + 1]
  /\ UNCHANGED <<parameters, mutex, file, pc, module, history>>

CommitFirstStep == "load_lock"

\* Nothing may follow the last chunk.
LoadEnds(t) ==
  /\ pc[t] = "load_read" /\ at[t] > ChunkCount(module[t])
  /\ Len(file) < at[t]
  /\ Goto(t, CommitFirstStep)
  /\ UNCHANGED <<parameters, mutex, file, progress, history>>

\* Every other outcome of opening or reading the file.
LoadFails(t) ==
  /\ pc[t] \in {"load_open", "load_read"}
  /\ Return(t, FALSE)
  /\ UNCHANGED <<parameters, file>>

LoadLock(t) == pc[t] = "load_lock" /\ Lock(t, "commit_weight")

CommitWeight(t) ==
  /\ pc[t] = "commit_weight"
  /\ weight' = [weight EXCEPT ![module[t]] = staged[t][2]]
  /\ IF Config[module[t]].use_bias
     THEN Goto(t, "commit_bias") /\ UNCHANGED <<mutex, progress, history>>
     ELSE Return(t, TRUE)
  /\ UNCHANGED <<bias, latest, file>>

CommitBias(t) ==
  /\ pc[t] = "commit_bias"
  /\ bias' = [bias EXCEPT ![module[t]] = staged[t][3]]
  /\ Return(t, TRUE)
  /\ UNCHANGED <<weight, latest, file>>

-----------------------------------------------------------------------------
(* OptimizerStep, the other writer of the parameters.                      *)

BeginStep(t, m) == Begin(t, m, "step_lock") /\ UNCHANGED raced

StepLock(t) == pc[t] = "step_lock" /\ Lock(t, "step_weight")

\* A parameter is skipped that has no gradient yet.  Where the bias is skipped
\* nothing is left to do after the weight, and the call returns.
StepWeight(t) ==
  /\ pc[t] = "step_weight"
  /\ latest' = latest + 1
  /\ weight' = [weight EXCEPT
                  ![module[t]] = Parameter("weight", module[t], latest')]
  /\ \/ /\ Config[module[t]].use_bias
        /\ Goto(t, "step_bias") /\ UNCHANGED <<mutex, progress, history>>
     \/ Return(t, TRUE)
  /\ UNCHANGED <<bias, file>>

StepBias(t) ==
  /\ pc[t] = "step_bias"
  /\ bias' = [bias EXCEPT
                ![module[t]] = Parameter("bias", module[t],
                                         weight[module[t]].value)]
  /\ Return(t, TRUE)
  /\ UNCHANGED <<weight, latest, file>>

\* The weight is skipped, and the bias is the only parameter written, if any is.
StepSkipsWeight(t) ==
  /\ pc[t] = "step_weight"
  /\ \/ /\ Config[module[t]].use_bias
        /\ latest' = latest + 1
        /\ bias' = [bias EXCEPT
                      ![module[t]] = Parameter("bias", module[t], latest')]
     \/ UNCHANGED <<bias, latest>>
  /\ Return(t, TRUE)
  /\ UNCHANGED <<weight, file>>

\* The process dies and the program creates its modules again (LinearCreate).
Crash ==
  /\ latest < MaxLatest
  /\ latest' = latest + 1
  /\ weight' = [m \in Module |-> Parameter("weight", m, latest')]
  /\ bias' = [m \in Module |-> Parameter("bias", m, latest')]
  /\ mutex' = [m \in Module |-> NoThread]
  /\ pc' = [t \in Thread |-> "idle"]
  /\ at' = [t \in Thread |-> 1]
  /\ staged' = [t \in Thread |-> <<>>]
  /\ UNCHANGED <<file, module, history>>

-----------------------------------------------------------------------------

Start(t) ==
  \E m \in Module : BeginSave(t, m) \/ BeginLoad(t, m) \/ BeginStep(t, m)

Run(t) ==
  \/ SaveLock(t) \/ SaveOpen(t) \/ SaveWrite(t) \/ SaveReturns(t)
  \/ SaveFails(t)
  \/ LoadOpen(t) \/ LoadRead(t) \/ LoadEnds(t) \/ LoadFails(t)
  \/ LoadLock(t) \/ CommitWeight(t) \/ CommitBias(t)
  \/ StepLock(t) \/ StepWeight(t) \/ StepBias(t) \/ StepSkipsWeight(t)

Next == Crash \/ \E t \in Thread : Start(t) \/ Run(t)

Spec == Init /\ [][Next]_vars

\* A call that has begun keeps running.
FairSpec == Spec /\ \A t \in Thread : WF_vars(Run(t))

-----------------------------------------------------------------------------
(* Properties.                                                             *)

\* Whatever the calls on the file do to each other, a module only ever takes
\* over tensors of its own shapes: "incompatible parameter structure fails
\* without partial application" (TRAINING_ENGINE_V1_CHECKPOINT_FORMAT.md;
\* ReadTensorPayload and the header check of ModuleLoad).
ShapesMatch ==
  TypeOK /\ \A m \in Module : /\ weight[m].shape = Config[m].shape
                             /\ bias[m].shape = Config[m].shape

\* What a load would make of the file.
Decoded ==
  IF /\ file # Absent
     /\ \E m \in Module :
          /\ Len(file) = ChunkCount(m)
          /\ \A k \in 1 .. Len(file) : Acceptable(m, k, file[k])
  THEN [config |-> file[1].config,
        value  |-> <<file[2].value,
                     IF Len(file) = 3 THEN file[3].value ELSE 0>>]
  ELSE Unusable

\* The bias of m, once the call that has replaced its weight is done.
PendingBias(m) ==
  LET t == mutex[m] IN
    IF ~Config[m].use_bias THEN 0
    ELSE IF t # NoThread /\ pc[t] = "commit_bias" THEN staged[t][3].value
    ELSE IF t # NoThread /\ pc[t] = "step_bias" THEN weight[m].value
    ELSE bias[m].value

\* Saves, loads, optimizer steps, failures and crashes come to whole states
\* stored, lost and taken over at once: "read and validate the complete
\* candidate state before mutating the live module" (the same document).
Store == INSTANCE CheckpointStore WITH
  state  <- [m \in Module |-> <<weight[m].value, PendingBias(m)>>],
  stored <- Decoded

ImplementsStore == Store!Spec

\* Every call returns: no path leaves a module locked (lock_guard in
\* ModuleSave, ModuleLoad and OptimizerStep).
CallsReturn == \A t \in Thread : pc[t] # "idle" ~> pc[t] = "idle"
=============================================================================
