--------------------------- MODULE ObjectLifetime ---------------------------
(***************************************************************************)
(* What the handle registry promises, without locks, tables or counts      *)
(* (docs/rfcs/0001-native-resource-lifecycle.md): a handle names one       *)
(* object from the moment it is issued until it is retired and nothing     *)
(* afterwards, and an object is reclaimed only when no handle, no call in  *)
(* flight and no other object can reach it.                                *)
(***************************************************************************)
EXTENDS Naturals

CONSTANTS Thread, Object, Handle

VARIABLES
  bound,   \* the object each live handle names, a partial function
  issued,  \* identifiers already consumed, live or not
  using,   \* <<t, o>> when a call of thread t holds object o
  members, \* the objects each object keeps alive
  existing \* objects created and not reclaimed

avars == <<bound, issued, using, members, existing>>

Roots == {bound[h] : h \in DOMAIN bound} \cup {u[2] : u \in using}

\* The least set of objects that contains the roots and their members.
Reachable ==
  {o \in Object :
     \A S \in SUBSET Object :
       (Roots \subseteq S /\ \A p \in S : members[p] \subseteq S) => o \in S}

Init ==
  /\ bound = [h \in {} |-> h]
  /\ issued = {}
  /\ using = {}
  /\ members = [o \in Object |-> {}]
  /\ existing = {}

\* A call builds objects out of objects it can reach, and keeps one of them.
Create(t) ==
  LET new == existing' \ existing IN
    /\ existing \subseteq existing' /\ new \subseteq Object
    /\ \E result \in new : using' = using \cup {<<t, result>>}
    /\ \A o \in new : members'[o] \subseteq new \cup Reachable
    /\ members' = [o \in Object |->
                     IF o \in new THEN members'[o] ELSE members[o]]
    /\ UNCHANGED <<bound, issued>>

\* The result of a call becomes nameable.
Issue(t, h) ==
  /\ h \notin issued
  /\ issued' = issued \cup {h}
  /\ \E o \in Object :
       /\ <<t, o>> \in using
       /\ using' = using \ {<<t, o>>}
       /\ bound' = [k \in DOMAIN bound \cup {h} |->
                      IF k = h THEN o ELSE bound[k]]
  /\ UNCHANGED <<members, existing>>

\* An identifier may be consumed without ever naming an object.
Burn(h) ==
  /\ h \notin issued
  /\ issued' = issued \cup {h}
  /\ UNCHANGED <<bound, using, members, existing>>

Acquire(t, h) ==
  /\ h \in DOMAIN bound
  /\ using' = using \cup {<<t, bound[h]>>}
  /\ UNCHANGED <<bound, issued, members, existing>>

\* The retiring call holds the object until it has let it go.
Retire(t, h) ==
  /\ h \in DOMAIN bound
  /\ bound' = [k \in DOMAIN bound \ {h} |-> bound[k]]
  /\ using' = using \cup {<<t, bound[h]>>}
  /\ UNCHANGED <<issued, members, existing>>

LetGo(t, o) ==
  /\ <<t, o>> \in using
  /\ using' = using \ {<<t, o>>}
  /\ UNCHANGED <<bound, issued, members, existing>>

Reclaim(o) ==
  /\ o \in existing /\ o \notin Reachable
  /\ existing' = existing \ {o}
  /\ members' = [members EXCEPT ![o] = {}]
  /\ UNCHANGED <<bound, issued, using>>

Next ==
  \/ \E t \in Thread :
       \/ Create(t)
       \/ \E h \in Handle : Issue(t, h) \/ Acquire(t, h) \/ Retire(t, h)
       \/ \E o \in Object : LetGo(t, o)
  \/ \E h \in Handle : Burn(h)
  \/ \E o \in Object : Reclaim(o)

Spec == Init /\ [][Next]_avars
=============================================================================
