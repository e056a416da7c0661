-------------------------------- MODULE Optimizer --------------------------------
(***************************************************************************)
(* Optimizers over groups of parameters: SGD, Adam and AdamW of            *)
(* tensora_optim, which own one native parameter optimizer for each group  *)
(* (optimizer.dart, parameter_group.dart, native_parameter_optimizer.dart, *)
(* nn_v2_optimizer.h), and the freezing of parameters they have to respect *)
(* (nn_v2_parameter_control.h).                                            *)
(*                                                                         *)
(* A group lists parameters by wrapper; a parameter listed twice stands    *)
(* for two wrappers of one native tensor.  Values and moments are reduced  *)
(* to the number of updates a parameter has received.  The calls come from *)
(* one isolate, so a call in progress excludes all others; its steps are   *)
(* separate because each native call, and each allocation in it, may fail. *)
(***************************************************************************)
EXTENDS Integers, Sequences, FiniteSets

CONSTANTS
  Parameter,
  Optimizer,   \* optimizers ever constructed
  MaxGroups,   \* groups of one optimizer
  MaxListed,   \* parameters listed by one group
  MaxUpdates   \* updates of one parameter

ASSUME OptimizerAssumption ==
  /\ MaxGroups \in Nat \ {0} /\ MaxListed \in Nat \ {0}
  /\ MaxUpdates \in Nat

VARIABLES
  trainable,  \* requires_grad of each parameter
  gradient,   \* whether its gradient is set
  updates,    \* how often an optimizer changed it
  groups,     \* Optimizer.groups
  natives,    \* the parameters each native optimizer of an optimizer holds
  status,     \* "none", "creating", "live" or "gone"
  handles,    \* native optimizers alive
  pc,         \* "idle", "create" or "step"
  current,    \* the optimizer of the call in progress
  at,         \* the native optimizer and the parameter the step is at
  touched,    \* history: updates made by the last step, for each parameter
  result      \* how the last step ended

parameters == <<trainable, gradient, updates>>
optimizers == <<groups, natives, status, handles>>
call == <<pc, current, at, touched, result>>
vars == <<parameters, optimizers, call>>

Group == UNION {[1 .. n -> Parameter] : n \in 1 .. MaxListed}
Groups == UNION {[1 .. n -> Group] : n \in 1 .. MaxGroups}
Zero == [p \in Parameter |-> 0]

Elements(s) == {s[i] : i \in DOMAIN s}
Managed(o) == UNION {Elements(natives[o][g]) : g \in DOMAIN natives[o]}

TypeOK ==
  /\ trainable \in [Parameter -> BOOLEAN] /\ gradient \in [Parameter -> BOOLEAN]
  /\ updates \in [Parameter -> 0 .. MaxUpdates]
  /\ groups \in [Optimizer -> Groups \cup {<<>>}]
  /\ \A o \in Optimizer : \A g \in DOMAIN natives[o] : natives[o][g] \in Seq(Parameter)
  /\ status \in [Optimizer -> {"none", "creating", "live", "gone"}]
  /\ handles \in Nat
  /\ pc \in {"idle", "create", "step"} /\ current \in Optimizer
  /\ at \in [group : Nat \ {0}, index : Nat \ {0}]
  /\ touched \in [Parameter -> Nat]
  /\ result \in {"none", "ok", "failed"}

Init ==
  /\ trainable \in [Parameter -> BOOLEAN]
  /\ gradient = [p \in Parameter |-> FALSE]
  /\ updates = Zero
  /\ groups = [o \in Optimizer |-> <<>>] /\ natives = groups
  /\ status = [o \in Optimizer |-> "none"] /\ handles = 0
  /\ pc = "idle" /\ current \in Optimizer
  /\ at = [group |-> 1, index |-> 1]
  /\ touched = Zero /\ result = "none"

-----------------------------------------------------------------------------
(***************************************************************************)
(* Creation.                                                               *)
(***************************************************************************)
NoDuplicates(s) == \A i, j \in DOMAIN s : s[i] = s[j] => i = j

\* A parameter may be listed once, by one group: identities are compared, so
\* two wrappers of one tensor count as duplicates.
Valid(gs) ==
  /\ \A g \in DOMAIN gs : NoDuplicates(gs[g])
  /\ \A g, h \in DOMAIN gs : g # h => Elements(gs[g]) \cap Elements(gs[h]) = {}

Create(o, gs) ==
  /\ pc = "idle" /\ status[o] = "none" /\ Valid(gs)
  /\ groups' = [groups EXCEPT ![o] = gs]
  /\ status' = [status EXCEPT ![o] = "creating"]
  /\ pc' = "create" /\ current' = o
  /\ UNCHANGED <<parameters, natives, handles, at, touched, result>>

\* How many of the first i parameters listed are not frozen.
Kept(group, i) == Cardinality({j \in 1 .. i : trainable[group[j]]})

\* CollectParameters leaves out the frozen parameters, in the order given.
Trainable(group) ==
  [k \in 1 .. Kept(group, Len(group)) |->
     group[CHOOSE i \in DOMAIN group : trainable[group[i]] /\ Kept(group, i) = k]]

NextGroup == groups[current][Len(natives[current]) + 1]

CreateNative ==
  /\ pc = "create"
  /\ Len(natives[current]) < Len(groups[current])
  /\ Trainable(NextGroup) # <<>>
  /\ natives' = [natives EXCEPT ![current] = Append(@, Trainable(NextGroup))]
  /\ handles' = handles + 1
  /\ UNCHANGED <<parameters, groups, status, call>>

Created ==
  /\ pc = "create"
  /\ Len(natives[current]) = Len(groups[current])
  /\ status' = [status EXCEPT ![current] = "live"]
  /\ pc' = "idle"
  /\ UNCHANGED <<parameters, groups, natives, handles, current, at, touched, result>>

\* Only the native optimizer created last is disposed of.
Disposed_OnlyLast(o) == handles - (IF natives[o] = <<>> THEN 0 ELSE 1)

\* The handles open after the native optimizers of o are disposed of.
Disposed(o) == handles - Len(natives[o])

\* A group without a trainable parameter, or a failure in the library: the
\* native optimizers of the earlier groups are disposed of, last one first.
CreateFails ==
  /\ pc = "create"
  /\ Len(natives[current]) < Len(groups[current])
  /\ handles' = Disposed(current)
  /\ natives' = [natives EXCEPT ![current] = <<>>]
  /\ status' = [status EXCEPT ![current] = "gone"]
  /\ pc' = "idle"
  /\ UNCHANGED <<parameters, groups, current, at, touched, result>>

Dispose(o) ==
  /\ pc = "idle" /\ status[o] = "live"
  /\ handles' = Disposed(o)
  /\ natives' = [natives EXCEPT ![o] = <<>>]
  /\ status' = [status EXCEPT ![o] = "gone"]
  /\ UNCHANGED <<parameters, groups, call>>

-----------------------------------------------------------------------------
(***************************************************************************)
(* The training loop around the optimizers.                                *)
(***************************************************************************)

\* backward() sets the gradients of trainable parameters.
Backward(S) ==
  /\ pc = "idle" /\ S \subseteq {p \in Parameter : trainable[p]}
  /\ gradient' = [p \in Parameter |-> gradient[p] \/ p \in S]
  /\ UNCHANGED <<trainable, updates, optimizers, call>>

ZeroGrad(o) ==
  /\ pc = "idle" /\ status[o] = "live"
  /\ gradient' = [p \in Parameter |-> gradient[p] /\ p \notin Managed(o)]
  /\ UNCHANGED <<trainable, updates, optimizers, call>>

\* Freezing keeps the gradient the parameter has.
GradientWhenSet_Kept(p, flag) == gradient[p]

\* SetCoreRequiresGrad drops the gradient of a parameter it freezes.
GradientWhenSet(p, flag) == flag /\ gradient[p]

SetRequiresGrad(p, flag) ==
  /\ pc = "idle" /\ trainable[p] # flag
  /\ trainable' = [trainable EXCEPT ![p] = flag]
  /\ gradient' = [gradient EXCEPT ![p] = GradientWhenSet(p, flag)]
  /\ UNCHANGED <<updates, optimizers, call>>

-----------------------------------------------------------------------------
(***************************************************************************)
(* step(): every native optimizer in turn, every parameter of it in turn.  *)
(***************************************************************************)
BeginStep(o) ==
  /\ pc = "idle" /\ status[o] = "live"
  /\ pc' = "step" /\ current' = o
  /\ at' = [group |-> 1, index |-> 1]
  /\ touched' = Zero
  /\ UNCHANGED <<parameters, optimizers, result>>

InGroup == at.group <= Len(natives[current])
AtParameter == InGroup /\ at.index <= Len(natives[current][at.group])
This == natives[current][at.group][at.index]

Advance == at' = [at EXCEPT !.index = @ + 1]

\* The loop over the parameters ends at the first one without a gradient.
AfterSkip_Ends == at' = [group |-> at.group + 1, index |-> 1]

\* A parameter without a gradient is passed over.
AfterSkip == Advance

SkipParameter ==
  /\ pc = "step" /\ AtParameter /\ ~gradient[This]
  /\ AfterSkip
  /\ UNCHANGED <<parameters, optimizers, pc, current, touched, result>>

UpdateParameter ==
  /\ pc = "step" /\ AtParameter /\ gradient[This]
  /\ updates[This] < MaxUpdates
  /\ updates' = [updates EXCEPT ![This] = @ + 1]
  /\ touched' = [touched EXCEPT ![This] = @ + 1]
  /\ Advance
  /\ UNCHANGED <<trainable, gradient, optimizers, pc, current, result>>

NextNative ==
  /\ pc = "step" /\ InGroup /\ ~AtParameter
  /\ at' = [group |-> at.group + 1, index |-> 1]
  /\ UNCHANGED <<parameters, optimizers, pc, current, touched, result>>

\* The copy of a gradient cannot be allocated: the step ends where it is.
StepFails ==
  /\ pc = "step" /\ AtParameter /\ gradient[This]
  /\ pc' = "idle" /\ result' = "failed"
  /\ UNCHANGED <<parameters, optimizers, current, at, touched>>

StepReturns ==
  /\ pc = "step" /\ ~InGroup
  /\ pc' = "idle" /\ result' = "ok"
  /\ UNCHANGED <<parameters, optimizers, current, at, touched>>

Next ==
  \/ \E o \in Optimizer, gs \in Groups : Create(o, gs)
  \/ CreateNative \/ Created \/ CreateFails
  \/ \E o \in Optimizer : Dispose(o) \/ ZeroGrad(o) \/ BeginStep(o)
  \/ \E S \in SUBSET Parameter : Backward(S)
  \/ \E p \in Parameter, flag \in BOOLEAN : SetRequiresGrad(p, flag)
  \/ SkipParameter \/ UpdateParameter \/ NextNative
  \/ StepFails \/ StepReturns

Spec == Init /\ [][Next]_vars

-----------------------------------------------------------------------------
(***************************************************************************)
(* Properties                                                              *)
(***************************************************************************)

\* No optimizer moves a parameter while it is frozen.  The step never looks at
\* requires_grad: it relies on freezing having dropped the gradient.
FrozenNeverMoves ==
  [][\A p \in Parameter : updates'[p] # updates[p] => trainable[p]]_vars

\* One step() updates a parameter at most once, whatever groups, wrappers and
\* native optimizers it goes through, and if it returns normally it has applied
\* every gradient there was for the parameters the optimizer manages
\* (Optimizer.step, CpuStep).
AppliedOnce ==
  [][/\ \A p \in Parameter : touched'[p] <= 1
     /\ pc = "step" /\ result' = "ok" /\ pc' = "idle" =>
          \A p \in Managed(current) : gradient[p] => touched[p] = 1]_vars

\* Whichever group fails to get its native optimizer, none is leaked or released
\* twice: those alive are those of the optimizers that live.
NativesBalanced ==
  TypeOK /\ handles = Cardinality({x \in Optimizer \X (1 .. MaxGroups) :
                                      x[2] \in DOMAIN natives[x[1]]})
==================================================================================
