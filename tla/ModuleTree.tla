------------------------------- MODULE ModuleTree -------------------------------
(***************************************************************************)
(* The ownership tree of the Dart modules of tensora_nn: layers,           *)
(* Sequential containers and Models whose build() is called back, lazily,  *)
(* by whatever call first needs the tree (module.dart, model.dart,         *)
(* layers.dart).                                                           *)
(*                                                                         *)
(* Dart runs all of it on one thread, but build() is user code: while a    *)
(* Model is being materialized it may make modules, walk or dispose of     *)
(* other modules, and materialize other Models.  `stack` is the stack of   *)
(* calls in progress, and one action is a step of the call on its top.     *)
(***************************************************************************)
EXTENDS Integers, Sequences, FiniteSets

CONSTANTS
  MaxModule,      \* modules ever constructed
  MaxCalls,       \* traversals, disposals and refused constructors
  MaxChildren     \* children of one Sequential

ASSUME BoundsAssumption ==
  /\ MaxModule \in Nat \ {0}
  /\ MaxCalls \in Nat
  /\ MaxChildren \in Nat \ {0}

Module == 1 .. MaxModule
NoModule == 0

Kind == {"unbuilt", "layer", "sequential", "model"}

VARIABLES
  kind,      \* what each module is, "unbuilt" before its constructor ran
  children,  \* Sequential._entries; <<Model._materializedRoot>> or <<>>
  owner,     \* Module._owner
  disposed,  \* Module._disposed
  building,  \* Model._building
  stack,     \* the calls in progress, innermost last
  raised,    \* an exception is leaving the innermost call
  calls      \* traversals, disposals and refused constructors so far

tree == <<kind, children, owner, disposed>>
vars == <<tree, building, stack, raised, calls>>

(***************************************************************************)
(* Calls in progress.  "walk" is a traversal (namedParameters and its      *)
(* like), "build" is build() of a Model, "contains" is the cycle check     *)
(* on what build() returned.  `agenda` is what is left of a traversal, in  *)
(* order.                                                                  *)
(***************************************************************************)
Frame == [op : {"walk", "build", "contains"}, of : Module, root : Module,
          agenda : Seq(Module), visited : SUBSET Module]

WalkFrame(m) ==
  [op |-> "walk", of |-> m, root |-> m, agenda |-> <<m>>, visited |-> {}]

BuildFrame(m) ==
  [op |-> "build", of |-> m, root |-> m, agenda |-> <<>>, visited |-> {}]

Built == {m \in Module : kind[m] # "unbuilt"}
Top == stack[Len(stack)]
Below == SubSeq(stack, 1, Len(stack) - 1)
Idle == stack = <<>>
Runs(op) == ~Idle /\ ~raised /\ Top.op = op

Unmaterialized(m) == kind[m] = "model" /\ children[m] = <<>>
Elements(s) == {s[i] : i \in DOMAIN s}

TypeOK ==
  /\ kind \in [Module -> Kind]
  /\ children \in [Module -> Seq(Module)]
  /\ owner \in [Module -> Module \cup {NoModule}]
  /\ disposed \in [Module -> BOOLEAN] /\ building \in [Module -> BOOLEAN]
  /\ stack \in Seq(Frame)
  /\ raised \in BOOLEAN /\ (raised => ~Idle)
  /\ calls \in 0 .. MaxCalls

Init ==
  /\ kind = [m \in Module |-> "unbuilt"]
  /\ children = [m \in Module |-> <<>>]
  /\ owner = [m \in Module |-> NoModule]
  /\ disposed = [m \in Module |-> FALSE]
  /\ building = [m \in Module |-> FALSE]
  /\ stack = <<>> /\ raised = FALSE
  /\ calls = 0

-----------------------------------------------------------------------------
(***************************************************************************)
(* Exceptions.  The call on top ends; a Model whose build() or cycle check *)
(* it was stops building, in its finally clause.                           *)
(***************************************************************************)
Materializes(frame) == frame.op \in {"build", "contains"}

\* _building is reset after the cycle check only, not in a finally clause.
BuildingAfter_Checked(frame) ==
  IF frame.op = "contains" THEN [building EXCEPT ![frame.of] = FALSE]
                           ELSE building

BuildingAfter(frame) ==
  IF Materializes(frame) THEN [building EXCEPT ![frame.of] = FALSE]
                         ELSE building

\* The outermost call does not hand its exception to the program.
TopFails_Lost ==
  /\ stack' = Below
  /\ building' = BuildingAfter(Top)
  /\ raised' = TRUE

TopFails ==
  /\ stack' = Below
  /\ building' = BuildingAfter(Top)
  /\ raised' = (Len(stack) > 1)

\* An exception reaches the next call out, or the code of a build() catches it.
Unwind ==
  /\ raised
  /\ \/ TopFails
     \/ Top.op = "build" /\ raised' = FALSE /\ UNCHANGED <<stack, building>>
  /\ UNCHANGED <<tree, calls>>

-----------------------------------------------------------------------------
(***************************************************************************)
(* The program: its own code, or that of a build() in progress.            *)
(***************************************************************************)
ProgramRuns == Idle \/ Runs("build")

Fresh(m) == m \notin Built /\ \A n \in Module : n < m => n \in Built

\* A layer, or a Model that has not been asked for its tree yet.
Create(m, k) ==
  /\ ProgramRuns /\ Fresh(m) /\ k \in {"layer", "model"}
  /\ kind' = [kind EXCEPT ![m] = k]
  /\ UNCHANGED <<children, owner, disposed, building, stack, raised, calls>>

Attachable(c) == ~disposed[c] /\ owner[c] = NoModule

\* How many of the children are attached before the first refusal.
AttachedCount(list) ==
  CHOOSE n \in 0 .. Len(list) :
    /\ \A i \in 1 .. n : Attachable(list[i]) /\ \A j \in 1 .. i - 1 : list[j] # list[i]
    /\ n < Len(list) => ~ ( /\ Attachable(list[n + 1])
                            /\ \A j \in 1 .. n : list[j] # list[n + 1] )

\* The roll-back of Sequential forgets the first child.
Detached_NotFirst(m, list, n) ==
  IF n = 0 THEN owner ELSE [owner EXCEPT ![list[1]] = m]

\* The owners once the first n children are detached again.
Detached(m, list, n) == owner

\* Sequential(children: list): attach one by one, detach them all on a refusal.
CreateSequential(m, list) ==
  /\ ProgramRuns /\ Fresh(m)
  /\ LET n == AttachedCount(list) IN
       IF n = Len(list)
       THEN /\ kind' = [kind EXCEPT ![m] = "sequential"]
            /\ children' = [children EXCEPT ![m] = list]
            /\ owner' = [c \in Module |-> IF c \in Elements(list) THEN m ELSE owner[c]]
            /\ UNCHANGED <<raised, calls>>
       ELSE /\ calls < MaxCalls /\ calls' = calls + 1
            /\ owner' = Detached(m, list, n)
            /\ raised' = ~Idle
            /\ UNCHANGED <<kind, children>>
  /\ UNCHANGED <<disposed, building, stack>>

MayCall == ProgramRuns /\ calls < MaxCalls

\* A public traversal: refused on a disposed module.
Walk(m) ==
  /\ MayCall /\ m \in Built
  /\ IF disposed[m] THEN raised' = ~Idle /\ UNCHANGED stack
                    ELSE stack' = Append(stack, WalkFrame(m)) /\ UNCHANGED raised
  /\ calls' = calls + 1
  /\ UNCHANGED <<tree, building>>

\* What dispose() on m reaches: it stops at a module disposed before.
ClosedUnderDispose(S) ==
  \A p \in S : \A c \in Elements(children[p]) : ~disposed[c] => c \in S

DisposedWith(m) ==
  {c \in Module : \A S \in SUBSET Module :
                    (m \in S /\ ClosedUnderDispose(S)) => c \in S}

Dispose(m) ==
  /\ MayCall /\ m \in Built /\ ~disposed[m]
  /\ disposed' = [c \in Module |-> disposed[c] \/ c \in DisposedWith(m)]
  /\ owner' = [c \in Module |-> IF c \in DisposedWith(m) THEN NoModule ELSE owner[c]]
  /\ calls' = calls + 1
  /\ UNCHANGED <<kind, children, building, stack, raised>>

-----------------------------------------------------------------------------
(***************************************************************************)
(* Materialization: Model.internalEnsureMaterialized.                      *)
(***************************************************************************)

\* The guard against a build() that needs its own tree.
MayBuild(m) == ~building[m]

\* The cycle check meets the Model whose candidate it searches.
ClosesCycle(m) == Top.op = "contains" /\ m = Top.of

\* A traversal reaches a Model without a tree: build() is called.
EnsureMaterialized ==
  /\ Runs("walk") \/ Runs("contains")
  /\ Top.agenda # <<>>
  /\ LET m == Head(Top.agenda) IN
       /\ ~ClosesCycle(m) /\ Unmaterialized(m)
       /\ IF MayBuild(m)
          THEN /\ stack' = Append(stack, BuildFrame(m))
               /\ building' = [building EXCEPT ![m] = TRUE]
               /\ UNCHANGED raised
          ELSE TopFails
  /\ UNCHANGED <<tree, calls>>

\* A traversal goes from a module to its children.  Only the cycle check and
\* the traversals that collect modules remember what they have visited.
Descend ==
  /\ Runs("walk") \/ Runs("contains")
  /\ Top.agenda # <<>>
  /\ LET m == Head(Top.agenda)
         skip == Top.op = "contains" /\ m \in Top.visited
     IN /\ ~ClosesCycle(m)
        /\ skip \/ ~Unmaterialized(m)
        /\ stack' = [stack EXCEPT
             ![Len(stack)].agenda =
                IF skip THEN Tail(@) ELSE children[m] \o Tail(@),
             ![Len(stack)].visited = @ \cup {m}]
  /\ UNCHANGED <<tree, building, raised, calls>>

WalkReturns ==
  /\ Runs("walk") /\ Top.agenda = <<>>
  /\ stack' = Below
  /\ UNCHANGED <<tree, building, raised, calls>>

\* build() throws, or returns a module that cannot become the root.
Refused(m, c) == c = m \/ disposed[c] \/ owner[c] # NoModule

\* The candidate is adopted without a search for cycles.
Searched_Nothing(c) == <<>>

\* What the cycle check on a candidate searches.
Searched(c) == <<c>>

BuildThrows ==
  /\ Runs("build") /\ TopFails
  /\ UNCHANGED <<tree, calls>>

BuildReturns(c) ==
  /\ Runs("build") /\ c \in Built
  /\ IF Refused(Top.of, c)
     THEN TopFails
     ELSE /\ stack' = [stack EXCEPT ![Len(stack)].op = "contains",
                                    ![Len(stack)].root = c,
                                    ![Len(stack)].agenda = Searched(c)]
          /\ UNCHANGED <<building, raised>>
  /\ UNCHANGED <<tree, calls>>

CycleFound ==
  /\ Runs("contains") /\ Top.agenda # <<>>
  /\ ClosesCycle(Head(Top.agenda))
  /\ TopFails
  /\ UNCHANGED <<tree, calls>>

\* internalAttachOwner looks at the candidate again: the builds that the cycle
\* check called back may have disposed of it or given it an owner.
Adopt ==
  /\ Runs("contains") /\ Top.agenda = <<>>
  /\ IF Attachable(Top.root)
     THEN /\ owner' = [owner EXCEPT ![Top.root] = Top.of]
          /\ children' = [children EXCEPT ![Top.of] = <<Top.root>>]
          /\ building' = BuildingAfter(Top)
          /\ stack' = Below
          /\ UNCHANGED raised
     ELSE TopFails /\ UNCHANGED <<owner, children>>
  /\ UNCHANGED <<kind, disposed, calls>>

-----------------------------------------------------------------------------
ChildLists == UNION {[1 .. n -> Built] : n \in 1 .. MaxChildren}

Program ==
  \/ \E m \in Module, k \in Kind : Create(m, k)
  \/ \E m \in Module : \E list \in ChildLists : CreateSequential(m, list)
  \/ \E m \in Module : Walk(m)
  \/ \E m \in Module : Dispose(m)

Callback ==
  \/ BuildThrows
  \/ \E c \in Module : BuildReturns(c)

Machine ==
  \/ EnsureMaterialized
  \/ Descend
  \/ WalkReturns
  \/ CycleFound
  \/ Adopt
  \/ Unwind

Next == Program \/ Callback \/ Machine

Spec == Init /\ [][Next]_vars

(***************************************************************************)
(* A build() that was called returns or throws after finitely many calls   *)
(* of its own, and the runtime runs what was called.                       *)
(***************************************************************************)
FairSpec == Spec /\ WF_vars(~Idle /\ Next)

-----------------------------------------------------------------------------
(***************************************************************************)
(* Properties                                                              *)
(***************************************************************************)

\* A living module is in the list of children of its owner and in no other:
\* the refusals of Sequential and Model leave no owner behind, however the
\* builds called back in between changed the tree.
SingleOwner ==
  \A p, c \in Module :
    ~disposed[c] => (owner[c] = p <=> c \in Elements(children[p]))

\* No module is below itself, so every traversal ends: what a Model adopts was
\* searched for the Model after every lazy tree below it had been built.
Below1(S) == S \cup UNION {Elements(children[p]) : p \in S}
Descendants(m) ==
  {c \in Module : \A S \in SUBSET Module :
     (Elements(children[m]) \subseteq S /\ Below1(S) = S) => c \in S}
Acyclic == \A m \in Module : m \notin Descendants(m)

\* _building is set exactly while the Model is being materialized, once: every
\* way out of build(), of the cycle check and of the calls around them ends it,
\* so a failed materialization can be tried again.
BuildingIsScoped ==
  /\ \A m \in Module :
       building[m] <=> \E i \in DOMAIN stack : Materializes(stack[i]) /\ stack[i].of = m
  /\ \A i, j \in DOMAIN stack :
       (Materializes(stack[i]) /\ Materializes(stack[j]) /\ stack[i].of = stack[j].of)
         => i = j

\* Every traversal returns or throws.
CallsReturn == ~Idle ~> Idle
===============================================================================
