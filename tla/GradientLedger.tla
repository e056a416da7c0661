--------------------------- MODULE GradientLedger ---------------------------
(***************************************************************************)
(* What Backward promises, without a tape, a topology or partial sums: a   *)
(* call owes every leaf a fixed number of contributions, pays each leaf    *)
(* all of them in one step, and has paid everything when it returns ok.  A *)
(* call that fails may have paid some leaves in full and others nothing.   *)
(***************************************************************************)
EXTENDS Naturals

CONSTANTS Thread, Leaf, Root

VARIABLES
  due,      \* due[root][leaf]: contributions of root to leaf, by the graph
  owed,     \* owed[t][leaf]: what the call of thread t has still to pay
  gradient, \* contributions each leaf has received since it was cleared
  status    \* how each thread's last call ended, or that it runs

lvars == <<due, owed, gradient, status>>

Nothing == [x \in Leaf |-> 0]

Init ==
  /\ owed = [t \in Thread |-> Nothing]
  /\ gradient = Nothing
  /\ status = [t \in Thread |-> "ok"]

\* The graph grows at any time.
Record == UNCHANGED <<owed, gradient, status>>

\* Gradients are dropped, and leaves frozen, only between calls.
Clear ==
  /\ \A t \in Thread : status[t] # "running"
  /\ \A x \in Leaf : gradient'[x] \in {0, gradient[x]}
  /\ UNCHANGED <<owed, status>>

Begin(t, root) ==
  /\ status[t] # "running"
  /\ status' = [status EXCEPT ![t] = "running"]
  /\ owed' = [owed EXCEPT ![t] = due[root]]
  /\ UNCHANGED <<due, gradient>>

Refuse(t) ==
  /\ status[t] # "running"
  /\ status' = [status EXCEPT ![t] = "failed"]
  /\ UNCHANGED <<due, owed, gradient>>

Pay(t, x) ==
  /\ status[t] = "running" /\ owed[t][x] # 0
  /\ gradient' = [gradient EXCEPT ![x] = @ + owed[t][x]]
  /\ owed' = [owed EXCEPT ![t][x] = 0]
  /\ UNCHANGED <<due, status>>

Abort(t) ==
  /\ status[t] = "running"
  /\ status' = [status EXCEPT ![t] = "failed"]
  /\ owed' = [owed EXCEPT ![t] = Nothing]
  /\ UNCHANGED <<due, gradient>>

Finish(t) ==
  /\ status[t] = "running" /\ owed[t] = Nothing
  /\ status' = [status EXCEPT ![t] = "ok"]
  /\ UNCHANGED <<due, owed, gradient>>

Next ==
  \/ Record \/ Clear
  \/ \E t \in Thread :
       \/ \E root \in Root : Begin(t, root)
       \/ \E x \in Leaf : Pay(t, x)
       \/ Refuse(t) \/ Abort(t) \/ Finish(t)

Spec == Init /\ [][Next]_lvars
=============================================================================
