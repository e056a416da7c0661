------------------------------- MODULE ModuleMove -------------------------------
(***************************************************************************)
(* Module.to(device): every Linear layer of a tree is moved, and moved     *)
(* back in reverse order when one of them fails (module.dart, layers.dart, *)
(* parameter.dart, module_tensor_collection.dart).                         *)
(*                                                                         *)
(* A layer has a native module, which holds its parameters, and a          *)
(* Parameter wrapper for each of them.  The Tensor in a wrapper records    *)
(* the device its parameter was on when the Tensor was made, so a move     *)
(* fetches new Tensors and replaces the old ones, one by one.  Every call  *)
(* into the native library can fail.                                       *)
(*                                                                         *)
(* The program names devices of Tensora, LibTorch keeps the parameters on  *)
(* devices of its own (TorchDevices).                                      *)
(***************************************************************************)
EXTENDS TorchDevices, Sequences, FiniteSets

CONSTANTS
  MaxLayer,     \* layers of the tree, numbered in tree order
  MaxParam,     \* parameters of a layer
  Device,       \* the devices the program names, one the CPU
  Accelerators, \* what the machine may have
  NoDevice,     \* not a device: a device state that is indeterminate
  MaxMoves      \* calls of to()

ASSUME MoveAssumption ==
  /\ MaxLayer \in Nat \ {0} /\ MaxParam \in Nat \ {0} /\ MaxMoves \in Nat
  /\ Device \subseteq DeviceKind \X Int /\ NoDevice \notin Device
  /\ Accelerators \subseteq [kind : TorchKind \cup {"none"}, count : Nat]

Layer == 1 .. MaxLayer
Param == 1 .. MaxParam

VARIABLES
  accelerator, \* what the machine has
  native,    \* the LibTorch device each native parameter is on
  wrapper,   \* Tensor.device of the Tensor in each Parameter
  live,      \* whether that Tensor still has its native handle
  gone,      \* parameters the program disposed of
  handles,   \* tensor handles open for this tree
  pc,        \* "idle", or the part of internalOnMove that is next
  plan,      \* the device each layer is returned to
  target,    \* the device the tree moves to
  layer,     \* the layer being moved
  back,      \* whether to() is rolling back
  backFails, \* rollbackError # null
  outcome,   \* how the last to() ended
  moves,     \* calls of to() so far
  home       \* history: where the calls of to() have said each layer is

parameters == <<accelerator, native, wrapper, live, gone, handles>>
call == <<pc, plan, target, layer, back, backFails, outcome>>
move_vars == <<parameters, call, moves, home>>

Outcome == {"none", "moved", "refused", "restored", "indeterminate"}
Phase == {"idle", "native", "fetch", "check", "install"}

\* The devices a parameter can be moved to.
Available == {d \in Device : TorchDevice(d, accelerator) # Unmapped}

MoveTypeOK ==
  /\ accelerator \in Accelerators
  /\ native \in [Layer -> [Param -> {TorchDevice(d, accelerator) : d \in Available}]]
  /\ wrapper \in [Layer -> [Param -> Device]]
  /\ live \in [Layer -> [Param -> BOOLEAN]]
  /\ gone \subseteq Layer \X Param
  /\ handles \in Nat
  /\ pc \in Phase /\ outcome \in Outcome
  /\ plan \in [Layer -> Device] /\ target \in Device
  /\ layer \in 0 .. MaxLayer
  /\ back \in BOOLEAN /\ backFails \in BOOLEAN /\ (backFails => back)
  /\ moves \in 0 .. MaxMoves
  /\ home \in [Layer -> Device \cup {NoDevice}]

MoveInit ==
  /\ accelerator \in Accelerators
  /\ home \in [Layer -> Available] /\ plan = home
  /\ native = [l \in Layer |-> [p \in Param |-> TorchDevice(home[l], accelerator)]]
  /\ wrapper = [l \in Layer |-> [p \in Param |-> home[l]]]
  /\ live = [l \in Layer |-> [p \in Param |-> TRUE]]
  /\ gone = {} /\ handles = MaxLayer * MaxParam
  /\ pc = "idle" /\ target = home[1] /\ layer = 0
  /\ back = FALSE /\ backFails = FALSE
  /\ outcome = "none" /\ moves = 0

-----------------------------------------------------------------------------
\* Parameter.dispose, called by the program on a parameter it was given.
DisposeParameter(l, p) ==
  /\ pc = "idle" /\ <<l, p>> \notin gone
  /\ gone' = gone \cup {<<l, p>>}
  /\ live' = [live EXCEPT ![l][p] = FALSE]
  /\ handles' = handles - (IF live[l][p] THEN 1 ELSE 0)
  /\ UNCHANGED <<accelerator, native, wrapper, call, moves, home>>

\* _buildMovePlan asks the first Parameter of each layer for its device.
Plannable == \A l \in Layer : <<l, 1>> \notin gone

\* to() asks for the accelerators of the kind of d, whatever its index.
Begin(d) ==
  /\ pc = "idle" /\ moves < MaxMoves
  /\ moves' = moves + 1
  /\ IF DeviceCount(d[1], accelerator) > 0 /\ Plannable
     THEN /\ pc' = "native" /\ layer' = 1 /\ target' = d
          /\ plan' = [l \in Layer |-> wrapper[l][1]]
          /\ back' = FALSE /\ backFails' = FALSE
          /\ UNCHANGED outcome
     ELSE outcome' = "refused" /\ UNCHANGED <<pc, plan, target, layer, back, backFails>>
  /\ UNCHANGED <<parameters, home>>

-----------------------------------------------------------------------------
(***************************************************************************)
(* How to() goes on after internalOnMove of one layer.                     *)
(***************************************************************************)
Told(how) ==
  CASE how = "moved" -> [l \in Layer |-> target]
    [] how = "indeterminate" -> [l \in Layer |-> NoDevice]
    [] OTHER -> home

Settle(how) ==
  pc' = "idle" /\ outcome' = how /\ home' = Told(how) /\ UNCHANGED layer

GoTo(l) == layer' = l /\ pc' = "native" /\ UNCHANGED <<outcome, home>>

NextLayer ==
  /\ IF layer + 1 \in Layer THEN GoTo(layer + 1) ELSE Settle("moved")
  /\ UNCHANGED <<back, backFails>>

\* The roll-back leaves out the layer that failed.
RollBackFrom_Completed == layer - 1

\* The layer that failed is the first to be moved back.
RollBackFrom == layer

StartRollBack ==
  /\ back' = TRUE /\ backFails' = FALSE
  /\ IF RollBackFrom \in Layer THEN GoTo(RollBackFrom) ELSE Settle("restored")

\* The roll-back goes on to the first layer whatever fails.
ContinueRollBack(failed) ==
  /\ backFails' = (backFails \/ failed) /\ back' = back
  /\ IF layer - 1 \in Layer
     THEN GoTo(layer - 1)
     ELSE Settle(IF backFails' THEN "indeterminate" ELSE "restored")

LayerMoved ==
  /\ IF back THEN ContinueRollBack(FALSE) ELSE NextLayer
  /\ UNCHANGED <<plan, target, moves>>

LayerFails ==
  /\ IF back THEN ContinueRollBack(TRUE) ELSE StartRollBack
  /\ UNCHANGED <<plan, target, moves>>

Proceed(to) ==
  /\ pc' = to
  /\ UNCHANGED <<plan, target, layer, back, backFails, outcome, moves, home>>

-----------------------------------------------------------------------------
(***************************************************************************)
(* Linear.internalOnMove(device) of the layer.                             *)
(***************************************************************************)
Destination == IF back THEN plan[layer] ELSE target

\* _native.to moves the parameters in order and may fail after any of them.
MoveNative ==
  LET to == TorchDevice(Destination, accelerator) IN
  /\ pc = "native" /\ to # Unmapped
  /\ \E n \in 0 .. MaxParam :
       /\ native' = [native EXCEPT ![layer] =
                       [p \in Param |-> IF p <= n THEN to ELSE @[p]]]
       /\ IF n = MaxParam THEN Proceed("fetch") ELSE LayerFails
  /\ UNCHANGED <<accelerator, wrapper, live, gone, handles>>

\* LibTorch has no such device.
RefuseNative ==
  /\ pc = "native" /\ TorchDevice(Destination, accelerator) = Unmapped
  /\ LayerFails
  /\ UNCHANGED parameters

\* _native.parameters opens a handle for every parameter, or for none.
Fetch ==
  /\ pc = "fetch"
  /\ \/ handles' = handles + MaxParam /\ Proceed("check")
     \/ handles' = handles /\ LayerFails
  /\ UNCHANGED <<accelerator, native, wrapper, live, gone>>

\* The identities of all replacements are compared before one is installed.
Check ==
  /\ pc = "check"
  /\ \/ Proceed("install") /\ UNCHANGED handles
     \/ LayerFails /\ handles' = handles - MaxParam
  /\ UNCHANGED <<accelerator, native, wrapper, live, gone>>

\* internalReplaceTensor on the first n parameters: each Tensor is replaced
\* and the previous one disposed of.  The new one has the device WrapTorchTensor
\* found its parameter on.
Installed(n) ==
  [wrapper EXCEPT ![layer] =
     [p \in Param |-> IF p <= n THEN MapTorchDevice(native[layer][p], accelerator)
                               ELSE @[p]]]

Replaced(n) == {p \in 1 .. n : live[layer][p]}

Install ==
  /\ pc = "install"
  /\ \A p \in Param : <<layer, p>> \notin gone
  /\ wrapper' = Installed(MaxParam)
  /\ live' = [live EXCEPT ![layer] = [p \in Param |-> TRUE]]
  /\ handles' = handles - Cardinality(Replaced(MaxParam))
  /\ LayerMoved
  /\ UNCHANGED <<accelerator, native, gone>>

\* The catch clause closes only the replacements that were not installed.
ClosedAfter_Rest(n) == MaxParam - n

\* Handles the catch clause closes after n replacements were installed: those
\* of all replacements, the installed ones too.
ClosedAfter(n) == MaxParam

\* The replacement of parameter n + 1 fails.
InstallFails ==
  /\ pc = "install"
  /\ \E n \in 0 .. MaxParam - 1 :
       /\ \A p \in 1 .. n : <<layer, p>> \notin gone
       /\ wrapper' = Installed(n)
       /\ live' = [live EXCEPT ![layer] = [p \in Param |-> p > n /\ @[p]]]
       /\ handles' = handles - Cardinality(Replaced(n)) - ClosedAfter(n)
  /\ LayerFails
  /\ UNCHANGED <<accelerator, native, gone>>

MoveNext ==
  \/ \E d \in Device : Begin(d)
  \/ \E l \in Layer, p \in Param : DisposeParameter(l, p)
  \/ MoveNative
  \/ RefuseNative
  \/ Fetch
  \/ Check
  \/ Install
  \/ InstallFails

MoveSpec == MoveInit /\ [][MoveNext]_move_vars

-----------------------------------------------------------------------------
(***************************************************************************)
(* Properties                                                              *)
(***************************************************************************)

\* "Tensora must not silently leave part of a model on another device": unless
\* the last word of to() was that the state is indeterminate, all parameters of
\* a layer, and the Tensors that stand for them, are where the program was told
\* the layer is, by whichever name LibTorch has for the device, and those Tensors
\* can be used.
NotSilentlySplit ==
  pc = "idle" =>
    \A l \in Layer : home[l] # NoDevice =>
      \A p \in Param :
        /\ native[l][p] = TorchDevice(home[l], accelerator)
        /\ <<l, p>> \notin gone => live[l][p] /\ wrapper[l][p] = home[l]

\* Whatever fails, the open tensor handles are those of the living wrappers and
\* of the replacements the move in progress still holds.
HandlesBalanced ==
  MoveTypeOK /\ handles = Cardinality({x \in Layer \X Param : live[x[1]][x[2]]})
            + (IF pc \in {"check", "install"} THEN MaxParam ELSE 0)
=============================================================================
