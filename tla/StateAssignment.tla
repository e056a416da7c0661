----------------------------- MODULE StateAssignment -----------------------------
(***************************************************************************)
(* What assigning tensors to tensors promises (NativeTensorState.assignMany *)
(* calls it one native transaction): all targets take over the values their *)
(* sources had when the call began, or none does and the caller is told.    *)
(* The exceptions are a roll-back that itself fails, and one left out for a *)
(* failure LibTorch does not class as its own; both are reported alike.     *)
(***************************************************************************)
CONSTANTS
  Cell,  \* the memory behind tensors
  Value,
  Torch  \* the cells LibTorch manages

VARIABLES
  value,
  request, \* the call running: each target with the cell whose value it gets
  outcome  \* how the last call ended, or "running"

avars == <<value, request, outcome>>

Init ==
  /\ value \in [Cell -> Value]
  /\ request = {} /\ outcome = "none"

\* Training, or any other use of the tensors.
Write(c) ==
  /\ outcome # "running"
  /\ value' \in {[value EXCEPT ![c] = v] : v \in Value}
  /\ UNCHANGED <<request, outcome>>

Ask ==
  /\ outcome # "running" /\ outcome' = "running"
  /\ request' \subseteq Cell \X Cell
  /\ UNCHANGED value

\* A request that is rejected, or that fails and leaves everything as it was.
Fail ==
  /\ outcome' = "failed" /\ request' = {}
  /\ UNCHANGED value

\* The values of the cells once the pairs R, and no others, are carried out, all
\* sources being read before any target is written.
Assigned(R) ==
  {after \in [Cell -> Value] :
     /\ \A r \in R : after[r[1]] = value[r[2]]
     /\ \A c \in Cell : (\A r \in R : r[1] # c) => after[c] = value[c]}

Assign ==
  /\ outcome = "running" /\ outcome' = "ok"
  /\ value' \in Assigned(request)
  /\ request' = {}

\* Some of the targets have their new values; which, nobody is told.
Break ==
  /\ outcome = "running" /\ outcome' = "broken"
  /\ \A r \in request : r[1] \in Torch
  /\ \E R \in SUBSET request : value' \in Assigned(R)
  /\ request' = {}

Next == (\E c \in Cell : Write(c)) \/ Ask \/ Fail \/ Assign \/ Break

Spec == Init /\ [][Next]_avars
==================================================================================
