-------------------------- MODULE InferenceSessionProofs --------------------------
(***************************************************************************)
(* Proofs about InferenceSession, for any number of callers and sessions   *)
(* and models with any number of outputs.                                  *)
(***************************************************************************)
EXTENDS InferenceSession, SequenceTheorems, FiniteSetTheorems, TLAPS


LEMMA IdleRecord ==
  /\ Idle \in CallRecord /\ WellFormed(Idle)
  /\ Idle.handles = <<>> /\ Idle.at = "idle" /\ Idle.adopted = 0 /\ Idle.outputs = 0
  /\ Len(Idle.handles) = 0 /\ ToSet(Idle.handles) = {}
  BY EmptySeq DEF Idle, AtStart, CallRecord, WellFormed, Points, ToSet

LEMMA InitIInv == Init => IInv
<1> SUFFICES ASSUME Init PROVE IInv
  OBVIOUS
<1>1. \A c \in Caller : call[c] = Idle
  BY DEF Init
<1>2. Types
  BY EmptySeq, IdleRecord DEF Init, Types
<1>3. Locks
  BY <1>1, IdleRecord DEF Init, Locks, At
<1>4. SessionsOwned
  BY <1>1, IdleRecord DEF Init, SessionsOwned, At
<1>5. HandlesOwned
  BY <1>1, IdleRecord DEF Init, HandlesOwned, Live, HeldBy
<1>6. ProfileKept
  BY <1>1, IdleRecord DEF Init, ProfileKept, At
<1>7. Counted
  BY <1>1, IdleRecord DEF Counted
<1>8. QED
  BY <1>2, <1>3, <1>4, <1>5, <1>6, <1>7 DEF IInv

-----------------------------------------------------------------------------
(***************************************************************************)
(* What a step that leaves a part of the state alone keeps.                *)
(***************************************************************************)
LEMMA LocksFrame ==
  ASSUME Types, Locks, UNCHANGED lock,
         \A d \in Caller : /\ At(d, "running")' <=> At(d, "running")
                           /\ At(d, "running") => call'[d].session = call[d].session
  PROVE  Locks'
<1>1. ASSUME NEW s \in Session, lock[s] # NoCaller
      PROVE  call'[lock[s]].at = "running" /\ call'[lock[s]].session = s
  <2>1. lock[s] \in Caller
    BY <1>1 DEF Types
  <2>2. At(lock[s], "running") /\ call[lock[s]].session = s
    BY <1>1 DEF Locks
  <2>3. QED
    BY <2>1, <2>2 DEF At
<1>2. \A d \in Caller : call'[d].at = "running" => lock[call'[d].session] = d
  BY DEF Locks, At
<1>3. QED
  BY <1>1, <1>2 DEF Locks, At

LEMMA SessionsFrame ==
  ASSUME SessionsOwned, UNCHANGED <<registered, opened, closed>>,
         \A d \in Caller : /\ At(d, "opening")' <=> At(d, "opening")
                           /\ At(d, "opening") => call'[d].session = call[d].session
  PROVE  SessionsOwned'
  BY DEF SessionsOwned

LEMMA HandlesFrame ==
  ASSUME HandlesOwned, UNCHANGED tensors,
         \A d \in Caller : call'[d].handles = call[d].handles
  PROVE  HandlesOwned'
  BY DEF HandlesOwned, tensors, Live, HeldBy

LEMMA ProfileFrame ==
  ASSUME ProfileKept, UNCHANGED profiling,
         \A d \in Caller : call'[d].at \in {"sized", "copying"} =>
           /\ call[d].at \in {"sized", "copying"}
           /\ call'[d].session = call[d].session /\ call'[d].size = call[d].size
  PROVE  ProfileKept'
  BY DEF ProfileKept, profiling, At

\* A call that goes on with a well-formed record keeps the types and its counts.
LEMMA CallFrame ==
  ASSUME Types, Counted, NEW c \in Caller, NEW k \in CallRecord, WellFormed(k),
         Len(k.handles) <= k.outputs, k.adopted <= Len(k.handles), Become(c, k)
  PROVE  /\ call' \in [Caller -> CallRecord] /\ \A d \in Caller : WellFormed(call'[d])
         /\ call'[c] = k /\ \A d \in Caller \ {c} : call'[d] = call[d]
         /\ Counted'
<1>1. call' = [call EXCEPT ![c] = k] /\ call \in [Caller -> CallRecord]
  BY DEF Become, Types
<1>2. QED
  BY <1>1 DEF Types, Counted

\* A call that moves to another point, or returns, while nothing else changes.
LEMMA TypesFrame ==
  ASSUME Types, UNCHANGED <<lock, profiling, tensors>>,
         call' \in [Caller -> CallRecord], \A d \in Caller : WellFormed(call'[d])
  PROVE  Types'
  BY DEF Types, profiling, tensors, CallRecord

\* A call that has no handles, before the step and after it.
Handless(k) ==
  /\ k.handles = <<>> /\ k.adopted = 0
  /\ k.outputs \in Nat /\ k.size \in Nat
  /\ k \in [at : Points, session : Session \cup {NoSession}, outputs : Nat,
            handles : {<<>>}, adopted : Nat, size : Nat]

LEMMA HandlessFrame ==
  ASSUME IInv, NEW c \in Caller, NEW k, Handless(k), WellFormed(k),
         call[c].handles = <<>>, Become(c, k), UNCHANGED tensors
  PROVE  /\ call' \in [Caller -> CallRecord] /\ \A d \in Caller : WellFormed(call'[d])
         /\ call'[c] = k /\ \A d \in Caller \ {c} : call'[d] = call[d]
         /\ HandlesOwned' /\ Counted'
<1>1. k \in CallRecord
  BY EmptySeq DEF Handless, CallRecord
<1>2. Len(k.handles) <= k.outputs /\ k.adopted <= Len(k.handles)
  BY EmptySeq DEF Handless
<1>3. /\ call' \in [Caller -> CallRecord] /\ \A d \in Caller : WellFormed(call'[d])
      /\ call'[c] = k /\ \A d \in Caller \ {c} : call'[d] = call[d]
      /\ Counted'
  BY <1>1, <1>2, CallFrame DEF IInv
<1>4. \A d \in Caller : call'[d].handles = call[d].handles
  BY <1>3 DEF Handless
<1>5. QED
  BY <1>3, <1>4, HandlesFrame DEF IInv

LEMMA IdleHandless == Handless(Idle) /\ WellFormed(Idle)
  BY IdleRecord DEF Handless, AtStart, Idle, Points

\* A call that is at a point without handles.
LEMMA AtHandless ==
  ASSUME IInv, NEW c \in Caller, call[c].at \notin {"inserting", "adopting"}
  PROVE  /\ Handless(call[c]) /\ WellFormed(call[c])
         /\ call[c].at # "idle" => call[c].session \in Session
         /\ call[c].at = "idle" => call[c] = Idle
<1>1. call[c] \in CallRecord /\ WellFormed(call[c])
  BY DEF IInv, Types
<1>2. call[c].handles = <<>>
  BY <1>1 DEF WellFormed
<1>3. call[c].adopted = 0
  BY <1>1, <1>2, EmptySeq DEF IInv, Counted, CallRecord
<1>4. QED
  BY <1>1, <1>2, <1>3 DEF WellFormed, Handless, CallRecord

-----------------------------------------------------------------------------
(***************************************************************************)
(* Opening and releasing a session.                                        *)
(***************************************************************************)
LEMMA CreateStep ==
  ASSUME IInv, NEW c \in Caller, NEW s \in Session, Create(c, s)
  PROVE  IInv'
<1> DEFINE k == AtStart("opening", s, 0)
<1>1. call[c] = Idle /\ s \notin registered \cup closed /\ At(c, "idle")
  BY AtHandless DEF Create, At
<1>2. k.at = "opening" /\ k.session = s /\ Handless(k) /\ WellFormed(k)
  BY IdleHandless DEF Handless, WellFormed, AtStart, Idle, Points
<1>3. /\ call' \in [Caller -> CallRecord] /\ \A d \in Caller : WellFormed(call'[d])
      /\ call'[c] = k /\ \A d \in Caller \ {c} : call'[d] = call[d]
      /\ HandlesOwned' /\ Counted'
  BY <1>1, <1>2, IdleRecord, HandlessFrame DEF Create
<1>4. Types'
  BY <1>3, TypesFrame DEF Create, IInv
<1>5. Locks'
  BY <1>1, <1>2, <1>3, LocksFrame DEF Create, IInv, At
<1>6. SessionsOwned'
  <2>1. /\ registered' = registered \cup {s} /\ opened' = opened /\ closed' = closed
        /\ s \notin opened
    BY <1>1 DEF Create, IInv, SessionsOwned
  <2>2. \A d \in Caller : At(d, "opening")' <=> d = c \/ At(d, "opening")
    BY <1>2, <1>3 DEF At
  <2>3. \A d \in Caller : At(d, "opening") =>
          d # c /\ call'[d].session = call[d].session /\ call[d].session # s
    BY <1>1, <1>3 DEF At, IInv, SessionsOwned
  <2>4. call'[c].session = s /\ call'[c].at = "opening"
    BY <1>2, <1>3
  <2>5. QED
    BY <1>1, <2>1, <2>2, <2>3, <2>4 DEF IInv, SessionsOwned, At
<1>7. ProfileKept'
  BY <1>2, <1>3, ProfileFrame DEF Create, IInv
<1>8. QED
  BY <1>3, <1>4, <1>5, <1>6, <1>7 DEF IInv

LEMMA OpenStep ==
  ASSUME IInv, NEW c \in Caller, Open(c) \/ OpenFails(c)
  PROVE  IInv'
<1>1. At(c, "opening") /\ call[c].session \in Session /\ call[c].handles = <<>>
  BY AtHandless DEF Open, OpenFails, At, Handless
<1>2. Become(c, Idle) /\ UNCHANGED <<lock, profiling, tensors>>
  BY DEF Open, OpenFails, Return
<1>3. /\ call' \in [Caller -> CallRecord] /\ \A d \in Caller : WellFormed(call'[d])
      /\ call'[c] = Idle /\ \A d \in Caller \ {c} : call'[d] = call[d]
      /\ HandlesOwned' /\ Counted'
  BY <1>1, <1>2, IdleHandless, HandlessFrame
<1>4. Types'
  BY <1>2, <1>3, TypesFrame DEF IInv
<1>5. Locks'
  BY <1>1, <1>2, <1>3, IdleRecord, LocksFrame DEF IInv, At
<1>6. SessionsOwned'
  BY <1>1, <1>3, IdleRecord DEF Open, OpenFails, GivenUp, IInv, SessionsOwned, At
<1>7. ProfileKept'
  BY <1>2, <1>3, IdleRecord, ProfileFrame DEF IInv
<1>8. QED
  BY <1>3, <1>4, <1>5, <1>6, <1>7 DEF IInv

LEMMA DisposeStep ==
  ASSUME IInv, NEW c \in Caller, NEW s \in Session, Dispose(c, s)
  PROVE  IInv'
<1>1. UNCHANGED <<lock, profiling, tensors, call>>
  BY DEF Dispose
<1>2. Types' /\ Locks' /\ HandlesOwned' /\ ProfileKept' /\ Counted'
  BY <1>1, HandlesFrame, ProfileFrame, LocksFrame DEF IInv, Types, CallRecord, Counted,
     profiling, tensors, At
<1>3. SessionsOwned'
  BY <1>1 DEF Dispose, GivenUp, IInv, SessionsOwned, At
<1>4. QED
  BY <1>2, <1>3 DEF IInv

-----------------------------------------------------------------------------
(***************************************************************************)
(* Running the model.                                                      *)
(***************************************************************************)
LEMMA EnterStep ==
  ASSUME IInv, NEW c \in Caller, call[c] = Idle,
         NEW k, Handless(k), WellFormed(k), k.at \in {"run", "sizing"}, Become(c, k),
         UNCHANGED <<sessions, lock, profiling, tensors>>
  PROVE  IInv'
<1>1. /\ call' \in [Caller -> CallRecord] /\ \A d \in Caller : WellFormed(call'[d])
      /\ call'[c] = k /\ \A d \in Caller \ {c} : call'[d] = call[d]
      /\ HandlesOwned' /\ Counted'
  BY IdleRecord, HandlessFrame
<1>2. Types'
  BY <1>1, TypesFrame DEF IInv
<1>3. Locks'
  BY <1>1, IdleRecord, LocksFrame DEF IInv, At
<1>4. SessionsOwned'
  BY <1>1, IdleRecord, SessionsFrame DEF IInv, At, sessions
<1>5. ProfileKept'
  BY <1>1, ProfileFrame DEF IInv
<1>6. QED
  BY <1>1, <1>2, <1>3, <1>4, <1>5 DEF IInv

LEMMA BeginStep ==
  ASSUME IInv, NEW c \in Caller, NEW s \in Session,
         \/ \E n \in 1 .. MaxOutputs : BeginRun(c, s, n)
         \/ BeginEnd(c, s)
  PROVE  IInv'
<1>1. call[c] = Idle
  BY AtHandless DEF BeginRun, BeginEnd, At
<1>2. CASE BeginEnd(c, s)
  <2> DEFINE k == AtStart("sizing", s, 0)
  <2>1. Become(c, k) /\ UNCHANGED <<sessions, lock, profiling, tensors>>
    BY <1>2 DEF BeginEnd
  <2>2. k.at = "sizing" /\ Handless(k) /\ WellFormed(k)
    BY DEF Handless, WellFormed, AtStart, Idle, Points
  <2>3. QED
    BY <1>1, <2>1, <2>2, EnterStep
<1>3. ASSUME NEW n \in 1 .. MaxOutputs, BeginRun(c, s, n)
      PROVE  IInv'
  <2> DEFINE k == AtStart("run", s, n)
  <2>1. Become(c, k) /\ UNCHANGED <<sessions, lock, profiling, tensors>>
    BY <1>3 DEF BeginRun
  <2>2. k.at = "run" /\ Handless(k) /\ WellFormed(k)
    BY DEF Handless, WellFormed, AtStart, Idle, Points
  <2>3. QED
    BY <1>1, <2>1, <2>2, EnterStep
<1>4. QED
  BY <1>2, <1>3

LEMMA LockStep ==
  ASSUME IInv, NEW c \in Caller, Lock(c)
  PROVE  IInv'
<1> DEFINE k == [call[c] EXCEPT !.at = "running"]
           s == call[c].session
<1>1. call[c].at = "run" /\ Handless(call[c]) /\ WellFormed(call[c]) /\ s \in Session
  BY AtHandless DEF Lock, At
<1>2. /\ lock[s] = NoCaller /\ lock' = [lock EXCEPT ![s] = c] /\ Become(c, k)
      /\ UNCHANGED <<sessions, profiling, tensors>>
  BY DEF Lock, Goto
<1>3. k.at = "running" /\ k.session = s /\ Handless(k) /\ WellFormed(k)
  BY <1>1 DEF Handless, WellFormed, Points
<1>4. /\ call' \in [Caller -> CallRecord] /\ \A d \in Caller : WellFormed(call'[d])
      /\ call'[c] = k /\ \A d \in Caller \ {c} : call'[d] = call[d]
      /\ HandlesOwned' /\ Counted'
  BY <1>1, <1>2, <1>3, HandlessFrame DEF Handless
<1>5. Types'
  BY <1>1, <1>2, <1>4 DEF IInv, Types, profiling, tensors, CallRecord
<1>6. Locks'
  <2> HIDE DEF k, s
  <2>1. \A r \in Session \ {s} : lock'[r] = lock[r] /\ (lock[r] # NoCaller => lock[r] # c)
    BY <1>1, <1>2 DEF IInv, Types, Locks, At
  <2>2. \A d \in Caller \ {c} : At(d, "running") => call[d].session # s
    BY <1>1, <1>2, InferenceAssumption DEF IInv, Locks
  <2>3. lock'[s] = c
    BY <1>1, <1>2 DEF IInv, Types
  <2>4. \A r \in Session : lock[r] \in Caller \cup {NoCaller}
    BY DEF IInv, Types
  <2>5. \A d \in Caller : d # c /\ call[d].at = "running" => call[d].session \in Session
    BY DEF IInv, Types, WellFormed
  <2>6. \A r \in Session : lock'[r] # NoCaller =>
          call'[lock'[r]].at = "running" /\ call'[lock'[r]].session = r
    BY <1>3, <1>4, <2>1, <2>3, <2>4 DEF IInv, Locks, At
  <2>7. \A d \in Caller : call'[d].at = "running" => lock'[call'[d].session] = d
    BY <1>3, <1>4, <2>1, <2>2, <2>3, <2>5 DEF IInv, Locks, At
  <2>8. QED
    BY <2>6, <2>7 DEF Locks, At
<1>7. SessionsOwned'
  BY <1>1, <1>2, <1>3, <1>4, SessionsFrame DEF IInv, At, sessions
<1>8. ProfileKept'
  BY <1>2, <1>3, <1>4, ProfileFrame DEF IInv
<1>9. QED
  BY <1>4, <1>5, <1>6, <1>7, <1>8 DEF IInv

LEMMA UnlockStep ==
  ASSUME IInv, NEW c \in Caller, RunDone(c) \/ RunFails(c)
  PROVE  IInv'
<1> DEFINE s == call[c].session
<1>1. call[c].at = "running" /\ Handless(call[c]) /\ WellFormed(call[c]) /\ s \in Session
  BY AtHandless DEF RunDone, RunFails, At
<1>2. /\ lock' = [lock EXCEPT ![s] = NoCaller]
      /\ UNCHANGED <<sessions, profiling, tensors>>
  BY DEF RunDone, RunFails, Unlock
<1>3. PICK k \in {[call[c] EXCEPT !.at = "inserting"], Idle} : Become(c, k)
  BY DEF RunDone, RunFails, Goto, Return
<1>4. k.at \in {"inserting", "idle"} /\ Handless(k) /\ WellFormed(k)
  BY <1>1, <1>3, IdleHandless, IdleRecord DEF Handless, WellFormed, Points
<1>5. /\ call' \in [Caller -> CallRecord] /\ \A d \in Caller : WellFormed(call'[d])
      /\ call'[c] = k /\ \A d \in Caller \ {c} : call'[d] = call[d]
      /\ HandlesOwned' /\ Counted'
  BY <1>1, <1>2, <1>3, <1>4, HandlessFrame DEF Handless
<1>6. Types'
  BY <1>1, <1>2, <1>5 DEF IInv, Types, profiling, tensors, CallRecord
<1>7. Locks'
  <2>1. lock[s] = c
    BY <1>1 DEF IInv, Locks, At
  <2>2. \A r \in Session \ {s} : lock'[r] = lock[r] /\ (lock[r] # NoCaller => lock[r] # c)
    BY <1>1, <1>2 DEF IInv, Types, Locks, At
  <2>3. lock'[s] = NoCaller
    BY <1>1, <1>2 DEF IInv, Types
  <2>4. \A d \in Caller \ {c} : At(d, "running") =>
          call[d].session # s /\ call[d].session \in Session
    BY <2>1 DEF IInv, Locks, Types, WellFormed, At
  <2>5. \A r \in Session : lock[r] \in Caller \cup {NoCaller}
    BY DEF IInv, Types
  <2>6. QED
    BY <1>4, <1>5, <2>2, <2>3, <2>4, <2>5 DEF IInv, Locks, At
<1>8. SessionsOwned'
  BY <1>1, <1>2, <1>4, <1>5, SessionsFrame DEF IInv, At, sessions
<1>9. ProfileKept'
  BY <1>2, <1>4, <1>5, ProfileFrame DEF IInv
<1>10. QED
  BY <1>5, <1>6, <1>7, <1>8, <1>9 DEF IInv

-----------------------------------------------------------------------------
(***************************************************************************)
(* Registering, adopting and releasing tensors.                            *)
(***************************************************************************)

\* Releasing a list of different handles counts each of them once.
LEMMA ReleaseCounts ==
  ASSUME Types, NEW hs \in Seq(DOMAIN releases),
         \A i, j \in DOMAIN hs : hs[i] = hs[j] => i = j,
         Release(hs)
  PROVE  /\ releases' \in Seq(Nat) /\ DOMAIN releases' = DOMAIN releases
         /\ \A h \in DOMAIN releases :
              releases'[h] = IF h \in ToSet(hs) THEN releases[h] + 1 ELSE releases[h]
<1> DEFINE places(h) == {i \in DOMAIN hs : hs[i] = h}
<1>1. \A h \in DOMAIN releases :
        Cardinality(places(h)) = IF h \in ToSet(hs) THEN 1 ELSE 0
  <2>1. ASSUME NEW h \in DOMAIN releases, h \in ToSet(hs)
        PROVE  Cardinality(places(h)) = 1
    <3>1. PICK i \in DOMAIN hs : hs[i] = h
      BY <2>1 DEF ToSet
    <3>2. places(h) = {i}
      BY <3>1
    <3>3. QED
      BY <3>2, FS_Singleton
  <2>2. ASSUME NEW h \in DOMAIN releases, h \notin ToSet(hs)
        PROVE  Cardinality(places(h)) = 0
    <3>1. places(h) = {}
      BY <2>2 DEF ToSet
    <3>2. QED
      BY <3>1, FS_EmptySet
  <2>3. QED
    BY <2>1, <2>2
<1>2. releases' = [h \in DOMAIN releases |-> releases[h] + Cardinality(places(h))]
  BY DEF Release
<1>3. \A h \in DOMAIN releases : releases[h] \in Nat
  BY LenProperties, ElementOfSeq DEF Types
<1> HIDE DEF places
<1>4. \A h \in DOMAIN releases :
        releases'[h] = IF h \in ToSet(hs) THEN releases[h] + 1 ELSE releases[h]
  BY <1>1, <1>2, <1>3
<1>5. DOMAIN releases' = DOMAIN releases
  BY <1>2
<1>6. releases' \in Seq(Nat)
  <2>1. Len(releases) \in Nat /\ DOMAIN releases = 1 .. Len(releases)
    BY LenProperties DEF Types
  <2>2. releases' \in [1 .. Len(releases) -> Nat]
    BY <1>1, <1>2, <1>3, <2>1
  <2>3. QED
    BY <2>1, <2>2, SeqDef
<1>7. QED
  BY <1>4, <1>5, <1>6

\* A caller releases some of the handles it holds, is left with the others in
\* Tensors, and is in no call.
LEMMA ReleasedStep ==
  ASSUME IInv, NEW c \in Caller, NEW hs \in Seq(DOMAIN releases),
         \A i, j \in DOMAIN hs : hs[i] = hs[j] => i = j,
         Release(hs), ToSet(hs) \subseteq HeldBy(c),
         owned' = [owned EXCEPT ![c] = HeldBy(c) \ ToSet(hs)],
         call'[c] = Idle, \A d \in Caller \ {c} : call'[d] = call[d]
  PROVE  /\ HandlesOwned' /\ DOMAIN releases' = DOMAIN releases
         /\ releases' \in Seq(Nat)
         /\ owned' \in [Caller -> SUBSET (DOMAIN releases')]
<1>1. /\ releases' \in Seq(Nat) /\ DOMAIN releases' = DOMAIN releases
      /\ \A h \in DOMAIN releases :
           releases'[h] = IF h \in ToSet(hs) THEN releases[h] + 1 ELSE releases[h]
  BY ReleaseCounts DEF IInv
<1>2. \A d \in Caller : HeldBy(d) \subseteq Live
  BY DEF IInv, HandlesOwned
<1>3. \A h \in ToSet(hs) : h \in DOMAIN releases /\ releases[h] = 0
  BY <1>2 DEF Live
<1>4. \A h \in DOMAIN releases : releases[h] \in Nat
  BY LenProperties, ElementOfSeq DEF IInv, Types
<1>5. Live' = Live \ ToSet(hs)
  BY <1>1, <1>3, <1>4 DEF Live
<1>6. \A h \in DOMAIN releases' : releases'[h] <= 1
  <2>1. \A h \in DOMAIN releases : releases[h] <= 1
    BY DEF IInv, HandlesOwned
  <2>2. \A h \in DOMAIN releases : h \in ToSet(hs) => releases'[h] = 1
    BY <1>1, <1>3
  <2>3. \A h \in DOMAIN releases : h \notin ToSet(hs) => releases'[h] = releases[h]
    BY <1>1
  <2>4. ASSUME NEW h \in DOMAIN releases PROVE releases'[h] <= 1
    <3>1. CASE h \in ToSet(hs)
      BY <2>2, <3>1
    <3>2. CASE h \notin ToSet(hs)
      BY <2>1, <2>3, <3>2
    <3>3. QED
      BY <3>1, <3>2
  <2>5. QED
    BY <1>1, <2>4
<1>7. /\ HeldBy(c)' = HeldBy(c) \ ToSet(hs)
      /\ \A d \in Caller \ {c} : HeldBy(d)' = HeldBy(d) /\ owned'[d] = owned[d]
  BY IdleRecord DEF HeldBy, IInv, Types
<1>8. \A d \in Caller : HeldBy(d)' \subseteq Live'
  <2>1. \A d \in Caller \ {c} : HeldBy(d) \cap ToSet(hs) = {}
    BY DEF IInv, HandlesOwned
  <2>2. QED
    BY <1>2, <1>5, <1>7, <2>1
<1>9. owned' \in [Caller -> SUBSET (DOMAIN releases')]
  BY <1>1, <1>2 DEF IInv, Types, Live
<1>10. /\ owned'[c] \cap ToSet(call'[c].handles) = {}
       /\ \A i, j \in DOMAIN call'[c].handles :
            call'[c].handles[i] = call'[c].handles[j] => i = j
  BY IdleRecord
<1>11. HandlesOwned'
  <2>1. \A d, e \in Caller : d # e => HeldBy(d)' \cap HeldBy(e)' = {}
    BY <1>7 DEF IInv, HandlesOwned
  <2>2. \A d \in Caller : /\ owned'[d] \cap ToSet(call'[d].handles) = {}
                          /\ \A i, j \in DOMAIN call'[d].handles :
                               call'[d].handles[i] = call'[d].handles[j] => i = j
    BY <1>7, <1>10 DEF IInv, HandlesOwned
  <2>3. QED
    BY <1>6, <1>8, <2>1, <2>2 DEF HandlesOwned
<1>12. QED
  BY <1>1, <1>9, <1>11

\* Such a step is of no concern to sessions, mutexes and profiles.
LEMMA OutsideFrame ==
  ASSUME IInv, NEW c \in Caller, UNCHANGED <<sessions, lock, profiling>>,
         call[c].at \in {"idle", "inserting", "adopting"},
         call'[c].at \in {"idle", "inserting", "adopting"},
         \A d \in Caller \ {c} : call'[d] = call[d]
  PROVE  Locks' /\ SessionsOwned' /\ ProfileKept'
<1>1. Locks'
  BY LocksFrame DEF IInv, At
<1>2. SessionsOwned'
  BY SessionsFrame DEF IInv, At, sessions
<1>3. ProfileKept'
  BY ProfileFrame DEF IInv
<1>4. QED
  BY <1>1, <1>2, <1>3

\* The call of a caller that has handles, or may have.
LEMMA AtHandles ==
  ASSUME IInv, NEW c \in Caller
  PROVE  /\ call[c] \in CallRecord /\ WellFormed(call[c])
         /\ call[c].handles \in Seq(DOMAIN releases) /\ Len(call[c].handles) \in Nat
         /\ DOMAIN call[c].handles = 1 .. Len(call[c].handles)
         /\ call[c].outputs \in Nat /\ call[c].adopted \in Nat
         /\ Len(call[c].handles) <= call[c].outputs
         /\ call[c].adopted <= Len(call[c].handles)
         /\ \A i, j \in DOMAIN call[c].handles :
              call[c].handles[i] = call[c].handles[j] => i = j
         /\ owned[c] \cap ToSet(call[c].handles) = {}
  BY LenProperties DEF IInv, Types, CallRecord, Counted, HandlesOwned

\* A caller in no call, or whose call goes on to another handle.
LEMMA MovesOn ==
  ASSUME IInv, NEW c \in Caller,
         \/ InsertDone(c)
         \/ Adopt(c)
  PROVE  IInv'
<1> DEFINE k == IF InsertDone(c) THEN [call[c] EXCEPT !.at = "adopting"]
                ELSE [call[c] EXCEPT !.adopted = @ + 1]
<1>1. /\ Become(c, k) /\ UNCHANGED <<sessions, lock, profiling, tensors>>
      /\ call[c].at \in {"inserting", "adopting"}
  BY DEF InsertDone, Adopt, Goto, At
<1>2. /\ k \in CallRecord /\ WellFormed(k) /\ k.handles = call[c].handles
      /\ k.at \in {"inserting", "adopting"}
      /\ Len(k.handles) <= k.outputs /\ k.adopted <= Len(k.handles)
  <2>1. CASE InsertDone(c)
    BY <1>1, <2>1, AtHandles DEF CallRecord, WellFormed, Points
  <2>2. CASE ~InsertDone(c)
    <3>1. At(c, "adopting") /\ ~AllAdopted(c)
      BY <2>2 DEF Adopt
    <3>2. k = [call[c] EXCEPT !.adopted = @ + 1] /\ k.adopted = call[c].adopted + 1
      BY <2>2, AtHandles DEF CallRecord
    <3>3. call[c].adopted + 1 <= Len(call[c].handles)
      BY <3>1, AtHandles DEF AllAdopted
    <3> HIDE DEF k
    <3>4. k \in CallRecord
      BY <3>2, AtHandles DEF CallRecord
    <3>5. k.at = "adopting" /\ k.handles = call[c].handles /\ k.outputs = call[c].outputs
          /\ k.session = call[c].session
      BY <3>1, <3>2, AtHandles DEF CallRecord, At
    <3>6. WellFormed(k)
      BY <3>1, <3>5, AtHandles DEF WellFormed, At
    <3>7. QED
      BY <3>2, <3>3, <3>4, <3>5, <3>6, AtHandles
  <2>3. QED
    BY <2>1, <2>2
<1> HIDE DEF k
<1>3. /\ call' \in [Caller -> CallRecord] /\ \A d \in Caller : WellFormed(call'[d])
      /\ call'[c] = k /\ \A d \in Caller \ {c} : call'[d] = call[d]
      /\ Counted'
  BY <1>1, <1>2, CallFrame DEF IInv
<1>4. Types'
  BY <1>1, <1>3, TypesFrame DEF IInv
<1>5. HandlesOwned'
  <2>1. \A d \in Caller : call'[d].handles = call[d].handles
    BY <1>2, <1>3
  <2>2. QED
    BY <1>1, <2>1, HandlesFrame DEF IInv
<1>6. Locks' /\ SessionsOwned' /\ ProfileKept'
  BY <1>1, <1>2, <1>3, OutsideFrame
<1>7. QED
  BY <1>3, <1>4, <1>5, <1>6 DEF IInv

\* The call returns, and what it held went where it belongs.
LEMMA ReturnFrame ==
  ASSUME IInv, NEW c \in Caller, call[c].at \in {"idle", "inserting", "adopting"},
         \/ Become(c, Idle)
         \/ UNCHANGED call /\ call[c] = Idle,
         UNCHANGED <<sessions, lock, profiling>>
  PROVE  /\ call' \in [Caller -> CallRecord] /\ \A d \in Caller : WellFormed(call'[d])
         /\ call'[c] = Idle /\ \A d \in Caller \ {c} : call'[d] = call[d]
         /\ Locks' /\ SessionsOwned' /\ ProfileKept' /\ Counted'
<1>1. /\ call' \in [Caller -> CallRecord] /\ \A d \in Caller : WellFormed(call'[d])
      /\ call'[c] = Idle /\ \A d \in Caller \ {c} : call'[d] = call[d]
      /\ Counted'
  <2>1. CASE Become(c, Idle)
    BY <2>1, IdleRecord, CallFrame DEF IInv
  <2>2. CASE UNCHANGED call /\ call[c] = Idle
    BY <2>2 DEF IInv, Types, Counted
  <2>3. QED
    BY <2>1, <2>2
<1>2. Locks' /\ SessionsOwned' /\ ProfileKept'
  BY <1>1, IdleRecord, OutsideFrame
<1>3. QED
  BY <1>1, <1>2

\* What a call or a Tensor holds is released.
LEMMA ReleaseReturns ==
  ASSUME IInv, NEW c \in Caller, call[c].at \in {"idle", "inserting", "adopting"},
         \/ Become(c, Idle)
         \/ UNCHANGED call /\ call[c] = Idle,
         UNCHANGED <<sessions, lock, profiling>>,
         NEW hs \in Seq(DOMAIN releases),
         \A i, j \in DOMAIN hs : hs[i] = hs[j] => i = j,
         Release(hs), ToSet(hs) \subseteq HeldBy(c),
         owned' = [owned EXCEPT ![c] = HeldBy(c) \ ToSet(hs)]
  PROVE  IInv'
<1>1. /\ call' \in [Caller -> CallRecord] /\ \A d \in Caller : WellFormed(call'[d])
      /\ call'[c] = Idle /\ \A d \in Caller \ {c} : call'[d] = call[d]
      /\ Locks' /\ SessionsOwned' /\ ProfileKept' /\ Counted'
  BY ReturnFrame
<1>2. /\ HandlesOwned' /\ DOMAIN releases' = DOMAIN releases
      /\ releases' \in Seq(Nat) /\ owned' \in [Caller -> SUBSET (DOMAIN releases')]
  BY <1>1, ReleasedStep
<1>3. CallRecord' = CallRecord
  BY <1>2 DEF CallRecord
<1>4. Types'
  BY <1>1, <1>2, <1>3 DEF IInv, Types, profiling
<1>5. QED
  BY <1>1, <1>2, <1>4 DEF IInv

LEMMA InsertFailsStep ==
  ASSUME IInv, NEW c \in Caller, InsertFails(c)
  PROVE  IInv'
<1> DEFINE hs == call[c].handles
<1>1. /\ call[c].at = "inserting" /\ Become(c, Idle) /\ Release(hs)
      /\ UNCHANGED <<sessions, lock, profiling, owned>>
  BY DEF InsertFails, Missing, ToRelease, Return, At
<1>2. /\ hs \in Seq(DOMAIN releases) /\ ToSet(hs) \subseteq HeldBy(c)
      /\ \A i, j \in DOMAIN hs : hs[i] = hs[j] => i = j
      /\ owned[c] = HeldBy(c) \ ToSet(hs)
  BY AtHandles DEF HeldBy
<1>3. owned' = [owned EXCEPT ![c] = HeldBy(c) \ ToSet(hs)]
  BY <1>1, <1>2 DEF IInv, Types
<1>4. QED
  BY <1>1, <1>2, <1>3, ReleaseReturns

\* A list and another after it.
LEMMA Joined ==
  ASSUME NEW S, NEW p \in Seq(S), NEW q \in Seq(S)
  PROVE  /\ p \o q \in Seq(S) /\ Len(p \o q) = Len(p) + Len(q)
         /\ Len(p) \in Nat /\ Len(q) \in Nat
         /\ \A i \in 1 .. Len(p) : (p \o q)[i] = p[i]
         /\ \A i \in 1 .. Len(q) : (p \o q)[Len(p) + i] = q[i]
<1>1. Len(p) \in Nat /\ Len(q) \in Nat
  BY LenProperties
<1>2. /\ p \o q \in Seq(S) /\ Len(p \o q) = Len(p) + Len(q)
      /\ \A i \in 1 .. Len(p) + Len(q) :
           (p \o q)[i] = IF i <= Len(p) THEN p[i] ELSE q[i - Len(p)]
  BY ConcatProperties
<1>3. ASSUME NEW i \in 1 .. Len(p) PROVE (p \o q)[i] = p[i]
  <2>1. i \in 1 .. Len(p) + Len(q) /\ i <= Len(p)
    BY <1>1
  <2>2. QED
    BY <1>2, <2>1
<1>4. ASSUME NEW i \in 1 .. Len(q) PROVE (p \o q)[Len(p) + i] = q[i]
  <2>1. /\ Len(p) + i \in 1 .. Len(p) + Len(q) /\ ~(Len(p) + i <= Len(p))
        /\ (Len(p) + i) - Len(p) = i
    BY <1>1
  <2>2. QED
    BY <1>2, <2>1
<1>5. QED
  BY <1>1, <1>2, <1>3, <1>4

\* Three lists, one after the other.
LEMMA Stacked ==
  ASSUME NEW S, NEW p \in Seq(S), NEW q \in Seq(S), NEW r \in Seq(S)
  PROVE  /\ p \o q \o r \in Seq(S)
         /\ Len(p \o q \o r) = Len(p) + Len(q) + Len(r)
         /\ \A i \in 1 .. Len(p) : (p \o q \o r)[i] = p[i]
         /\ \A i \in 1 .. Len(q) : (p \o q \o r)[Len(p) + i] = q[i]
         /\ \A i \in 1 .. Len(r) : (p \o q \o r)[Len(p) + Len(q) + i] = r[i]
<1>1. /\ p \o q \in Seq(S) /\ Len(p \o q) = Len(p) + Len(q)
      /\ Len(p) \in Nat /\ Len(q) \in Nat
      /\ \A i \in 1 .. Len(p) : (p \o q)[i] = p[i]
      /\ \A i \in 1 .. Len(q) : (p \o q)[Len(p) + i] = q[i]
  BY Joined
<1>2. PICK f \in Seq(S) : f = p \o q
  BY <1>1
<1>3. /\ f \o r \in Seq(S) /\ Len(f \o r) = Len(f) + Len(r)
      /\ \A i \in 1 .. Len(f) : (f \o r)[i] = f[i]
      /\ \A i \in 1 .. Len(r) : (f \o r)[Len(f) + i] = r[i]
  BY Joined
<1>4. Len(f) = Len(p) + Len(q)
  BY <1>1, <1>2
<1>5. ASSUME NEW i \in 1 .. Len(p) PROVE (f \o r)[i] = p[i]
  <2>1. i \in 1 .. Len(f)
    BY <1>1, <1>4
  <2>2. (f \o r)[i] = f[i]
    BY <1>3, <2>1
  <2>3. QED
    BY <1>1, <1>2, <2>2
<1>6. ASSUME NEW i \in 1 .. Len(q) PROVE (f \o r)[Len(p) + i] = q[i]
  <2>1. Len(p) + i \in 1 .. Len(f)
    BY <1>1, <1>4
  <2>2. (f \o r)[Len(p) + i] = f[Len(p) + i]
    BY <1>3, <2>1
  <2>3. QED
    BY <1>1, <1>2, <2>2
<1>7. QED
  BY <1>2, <1>3, <1>4, <1>5, <1>6

\* The list s with the element behind the first a of them taken to the front.
Fronted(s, a) == <<s[a + 1]>> \o SubSeq(s, 1, a) \o SubSeq(s, a + 2, Len(s))

LEMMA FrontedIs ==
  ASSUME NEW S, NEW s \in Seq(S), NEW a \in Nat, a < Len(s)
  PROVE  /\ Fronted(s, a) \in Seq(S) /\ Len(Fronted(s, a)) = Len(s)
         /\ Fronted(s, a)[1] = s[a + 1]
         /\ \A i \in 2 .. a + 1 : Fronted(s, a)[i] = s[i - 1]
         /\ \A i \in a + 2 .. Len(s) : Fronted(s, a)[i] = s[i]
<1>1. /\ Len(s) \in Nat /\ a \in Int /\ a + 2 \in Int /\ Len(s) \in Int
      /\ \A i \in 1 .. Len(s) : s[i] \in S
  BY LenProperties, ElementOfSeq
<1>2. PICK one \in Seq(S) : one = <<s[a + 1]>> /\ Len(one) = 1 /\ one[1] = s[a + 1]
  <2>1. s[a + 1] \in S
    BY <1>1
  <2>2. <<s[a + 1]>> \in Seq(S) /\ Len(<<s[a + 1]>>) = 1 /\ <<s[a + 1]>>[1] = s[a + 1]
    BY <2>1
  <2>3. QED
    BY <2>2, Zenon
<1>3. PICK first \in Seq(S) :
        /\ first = SubSeq(s, 1, a) /\ Len(first) = a
        /\ \A i \in 1 .. a : first[i] = s[i]
  <2>1. \A i \in 1 .. a : s[i] \in S
    BY <1>1
  <2>2. PICK f \in Seq(S) :
          /\ f = SubSeq(s, 1, a)
          /\ Len(f) = IF 1 <= a THEN a - 1 + 1 ELSE 0
          /\ \A i \in 1 .. a - 1 + 1 : f[i] = s[1 + i - 1]
    <3>1. /\ SubSeq(s, 1, a) \in Seq(S)
          /\ Len(SubSeq(s, 1, a)) = IF 1 <= a THEN a - 1 + 1 ELSE 0
          /\ \A i \in 1 .. a - 1 + 1 : SubSeq(s, 1, a)[i] = s[1 + i - 1]
      BY <1>1, <2>1, SubSeqProperties
    <3>2. QED
      BY <3>1, Zenon
  <2>3. Len(f) = a /\ \A i \in 1 .. a : f[i] = s[i]
    BY <2>2
  <2>4. QED
    BY <2>2, <2>3, Zenon
<1>4. PICK rest \in Seq(S) :
        /\ rest = SubSeq(s, a + 2, Len(s)) /\ Len(rest) = Len(s) - a - 1
        /\ \A i \in 1 .. Len(s) - a - 1 : rest[i] = s[a + 1 + i]
  <2>1. \A i \in a + 2 .. Len(s) : s[i] \in S
    BY <1>1
  <2>2. PICK m \in Int : m = a + 2
    BY <1>1
  <2>3. PICK k \in Nat : k = Len(s)
    BY <1>1
  <2>4. PICK f \in Seq(S) :
          /\ f = SubSeq(s, m, k)
          /\ Len(f) = IF m <= k THEN k - m + 1 ELSE 0
          /\ \A i \in 1 .. k - m + 1 : f[i] = s[m + i - 1]
    <3>1. \A i \in m .. k : s[i] \in S
      BY <2>1, <2>2, <2>3
    <3>2. /\ SubSeq(s, m, k) \in Seq(S)
          /\ Len(SubSeq(s, m, k)) = IF m <= k THEN k - m + 1 ELSE 0
          /\ \A i \in 1 .. k - m + 1 : SubSeq(s, m, k)[i] = s[m + i - 1]
      BY <3>1, SubSeqProperties
    <3>3. QED
      BY <3>2, Zenon
  <2>5. Len(f) = k - a - 1
    BY <2>2, <2>3, <2>4
  <2>6. ASSUME NEW i \in 1 .. k - a - 1 PROVE f[i] = s[a + 1 + i]
    <3>1. i \in 1 .. k - m + 1 /\ m + i - 1 = a + 1 + i
      BY <2>2
    <3>2. QED
      BY <2>4, <3>1
  <2>7. QED
    BY <2>2, <2>3, <2>4, <2>5, <2>6, Zenon
<1>5. PICK all \in Seq(S) :
        /\ all = one \o first \o rest
        /\ Len(all) = Len(one) + Len(first) + Len(rest)
        /\ \A i \in 1 .. Len(one) : all[i] = one[i]
        /\ \A i \in 1 .. Len(first) : all[Len(one) + i] = first[i]
        /\ \A i \in 1 .. Len(rest) : all[Len(one) + Len(first) + i] = rest[i]
  <2>1. /\ one \o first \o rest \in Seq(S)
        /\ Len(one \o first \o rest) = Len(one) + Len(first) + Len(rest)
        /\ \A i \in 1 .. Len(one) : (one \o first \o rest)[i] = one[i]
        /\ \A i \in 1 .. Len(first) :
             (one \o first \o rest)[Len(one) + i] = first[i]
        /\ \A i \in 1 .. Len(rest) :
             (one \o first \o rest)[Len(one) + Len(first) + i] = rest[i]
    BY Stacked
  <2>2. QED
    BY <2>1, Zenon
<1>6. all = Fronted(s, a)
  BY <1>2, <1>3, <1>4, <1>5 DEF Fronted
<1>7. Len(all) = Len(s)
  <2>1. /\ Len(all) = Len(one) + Len(first) + Len(rest)
        /\ Len(one) = 1 /\ Len(first) = a /\ Len(rest) = Len(s) - a - 1
    BY <1>2, <1>3, <1>4, <1>5
  <2>2. QED
    BY <1>1, <2>1
<1>8. all[1] = s[a + 1]
  BY <1>2, <1>5
<1>9. ASSUME NEW i \in 2 .. a + 1 PROVE all[i] = s[i - 1]
  <2>1. i - 1 \in 1 .. a /\ 1 + (i - 1) = i
    OBVIOUS
  <2>2. all[1 + (i - 1)] = first[i - 1]
    BY <1>2, <1>3, <1>5, <2>1
  <2>3. first[i - 1] = s[i - 1]
    BY <1>3, <2>1
  <2>4. QED
    BY <2>1, <2>2, <2>3
<1>10. ASSUME NEW i \in a + 2 .. Len(s) PROVE all[i] = s[i]
  <2>1. PICK j \in 1 .. Len(s) - a - 1 : a + 1 + j = i
    <3>1. i - (a + 1) \in 1 .. Len(s) - a - 1 /\ a + 1 + (i - (a + 1)) = i
      BY <1>1
    <3>2. QED
      BY <3>1
  <2>2. j \in 1 .. Len(rest) /\ Len(one) + Len(first) + j = i
    BY <1>1, <1>2, <1>3, <1>4, <2>1
  <2>3. all[i] = rest[j]
    BY <1>5, <2>2
  <2>4. rest[j] = s[a + 1 + j]
    BY <1>4, <2>1
  <2>5. QED
    BY <2>1, <2>3, <2>4
<1>11. QED
  BY <1>5, <1>6, <1>7, <1>8, <1>9, <1>10

\* The failing handle, those adopted and the rest are the handles of the call.
LEMMA AdoptFailsReleases ==
  ASSUME IInv, NEW c \in Caller, AdoptFails(c)
  PROVE  \E hs \in Seq(DOMAIN releases) :
           /\ \A i, j \in DOMAIN hs : hs[i] = hs[j] => i = j
           /\ ToSet(hs) = ToSet(call[c].handles) /\ Release(hs)
<1> DEFINE s == call[c].handles
           a == call[c].adopted
           n == Len(s)
           one == <<s[a + 1]>>
           first == SubSeq(s, 1, a)
           rest == SubSeq(s, a + 2, n)
           hs == one \o first \o rest
<1>1. /\ call[c].at = "adopting" /\ Become(c, Idle) /\ Release(hs)
      /\ UNCHANGED <<sessions, lock, profiling, owned>> /\ ~AllAdopted(c)
  BY DEF AdoptFails, Rest, Return, At
<1>2. /\ s \in Seq(DOMAIN releases) /\ n \in Nat /\ a \in 0 .. n - 1
      /\ DOMAIN s = 1 .. n /\ \A i \in 1 .. n : s[i] \in DOMAIN releases
      /\ \A i, j \in 1 .. n : s[i] = s[j] => i = j
      /\ owned[c] \cap ToSet(s) = {}
  BY <1>1, AtHandles, ElementOfSeq DEF AllAdopted
<1> HIDE DEF s, a, n
<1>7. /\ hs \in Seq(DOMAIN releases) /\ Len(hs) = n
      /\ hs[1] = s[a + 1]
      /\ \A i \in 2 .. a + 1 : hs[i] = s[i - 1]
      /\ \A i \in a + 2 .. n : hs[i] = s[i]
  <2>1. a \in Nat /\ a < Len(s) /\ s \in Seq(DOMAIN releases) /\ n = Len(s)
    BY <1>2 DEF n
  <2>2. hs = Fronted(s, a)
    BY DEF Fronted, n
  <2> HIDE DEF hs
  <2>3. QED
    BY <2>1, <2>2, FrontedIs
<1>8. DOMAIN hs = 1 .. n
  BY <1>7, LenProperties
<1> HIDE DEF hs
<1>9. \A i, j \in DOMAIN hs : hs[i] = hs[j] => i = j
  BY <1>2, <1>7, <1>8
<1>10. ToSet(hs) = ToSet(s)
  <2>1. ToSet(hs) \subseteq ToSet(s)
    <3>1. SUFFICES ASSUME NEW i \in 1 .. n PROVE hs[i] \in ToSet(s)
      BY <1>8 DEF ToSet
    <3>2. \E j \in 1 .. n : hs[i] = s[j]
      BY <1>2, <1>7
    <3>3. QED
      BY <1>2, <3>2 DEF ToSet
  <2>2. ASSUME NEW i \in 1 .. n PROVE s[i] \in ToSet(hs)
    <3>1. CASE i = a + 1
      BY <1>2, <1>7, <1>8, <3>1 DEF ToSet
    <3>2. CASE i < a + 1
      <4>1. i + 1 \in 2 .. a + 1 /\ i + 1 \in DOMAIN hs /\ hs[i + 1] = s[i]
        BY <1>2, <1>7, <1>8, <3>2
      <4>2. QED
        BY <4>1 DEF ToSet
    <3>3. CASE i > a + 1
      BY <1>2, <1>7, <1>8, <3>3 DEF ToSet
    <3>4. QED
      BY <1>2, <3>1, <3>2, <3>3
  <2>3. QED
    BY <1>2, <2>1, <2>2 DEF ToSet
<1>11. ToSet(hs) = ToSet(call[c].handles)
  BY <1>10 DEF s
<1>12. Release(hs)
  BY <1>1 DEF hs, one, first, rest, s, a, n
<1>13. QED
  BY <1>7, <1>9, <1>11, <1>12

LEMMA AdoptFailsStep ==
  ASSUME IInv, NEW c \in Caller, AdoptFails(c)
  PROVE  IInv'
<1>1. /\ call[c].at = "adopting" /\ Become(c, Idle)
      /\ UNCHANGED <<sessions, lock, profiling, owned>>
  BY DEF AdoptFails, Return, At
<1>2. PICK hs \in Seq(DOMAIN releases) :
        /\ \A i, j \in DOMAIN hs : hs[i] = hs[j] => i = j
        /\ ToSet(hs) = ToSet(call[c].handles) /\ Release(hs)
  BY AdoptFailsReleases
<1>3. ToSet(hs) \subseteq HeldBy(c) /\ owned[c] = HeldBy(c) \ ToSet(hs)
  BY <1>2, AtHandles DEF HeldBy
<1>4. owned' = [owned EXCEPT ![c] = HeldBy(c) \ ToSet(hs)]
  BY <1>1, <1>3 DEF IInv, Types
<1>5. QED
  BY <1>1, <1>2, <1>3, <1>4, ReleaseReturns

LEMMA DisposeTensorStep ==
  ASSUME IInv, NEW c \in Caller, NEW h \in DOMAIN releases, DisposeTensor(c, h)
  PROVE  IInv'
<1>1. /\ call[c] = Idle /\ call[c].at = "idle" /\ UNCHANGED call
      /\ Release(<<h>>) /\ UNCHANGED <<sessions, lock, profiling>>
      /\ h \in owned[c] /\ owned' = [owned EXCEPT ![c] = @ \ {h}]
  BY AtHandless, IdleRecord DEF DisposeTensor, At
<1>2. HeldBy(c) = owned[c]
  BY <1>1, IdleRecord DEF HeldBy
<1>3. <<h>> \in Seq(DOMAIN releases) /\ DOMAIN <<h>> = {1} /\ <<h>>[1] = h
  OBVIOUS
<1>4. ToSet(<<h>>) = {h}
  BY <1>3 DEF ToSet
<1>5. QED
  BY <1>1, <1>2, <1>3, <1>4, ReleaseReturns

\* Handles move to Tensors, or are forgotten: no count changes.
LEMMA HandOverStep ==
  ASSUME IInv, NEW c \in Caller, Deliver(c) \/ InsertThrows(c)
  PROVE  IInv'
<1> DEFINE hs == ToSet(call[c].handles)
<1>1. /\ call[c].at \in {"inserting", "adopting"} /\ Become(c, Idle)
      /\ UNCHANGED <<sessions, lock, profiling, releases>>
  BY DEF Deliver, InsertThrows, Missing, Return, At
<1>2. /\ call' \in [Caller -> CallRecord] /\ \A d \in Caller : WellFormed(call'[d])
      /\ call'[c] = Idle /\ \A d \in Caller \ {c} : call'[d] = call[d]
      /\ Locks' /\ SessionsOwned' /\ ProfileKept' /\ Counted'
  BY <1>1, ReturnFrame
<1>3. hs \subseteq DOMAIN releases /\ hs \cap owned[c] = {}
  BY AtHandles, ElementOfSeq DEF ToSet
<1>4. \A d \in Caller \ {c} : ToSet(call'[d].handles) = ToSet(call[d].handles)
  BY <1>2
<1>5. CASE Deliver(c)
  <2>1. /\ owned'[c] = owned[c] \cup hs
        /\ \A d \in Caller \ {c} : owned'[d] = owned[d]
        /\ owned' \in [Caller -> SUBSET (DOMAIN releases)]
    BY <1>3, <1>5 DEF Deliver, IInv, Types
  <2>2. \A d \in Caller : HeldBy(d)' = HeldBy(d)
    BY <1>2, <1>4, <2>1, IdleRecord DEF HeldBy
  <2>3. HandlesOwned'
    BY <1>1, <1>2, <2>1, <2>2, IdleRecord DEF HandlesOwned, IInv, Live
  <2>4. Types'
    BY <1>1, <1>2, <2>1 DEF IInv, Types, profiling, CallRecord
  <2>5. QED
    BY <1>2, <2>3, <2>4 DEF IInv
<1>6. CASE InsertThrows(c)
  <2>1. owned' = owned
    BY <1>6 DEF InsertThrows
  <2>2. HeldBy(c)' = owned[c] /\ \A d \in Caller \ {c} : HeldBy(d)' = HeldBy(d)
    BY <1>2, <1>4, <2>1, IdleRecord DEF HeldBy
  <2>3. \A d \in Caller : HeldBy(d)' \subseteq HeldBy(d)
    BY <2>2 DEF HeldBy
  <2>4. /\ \A d \in Caller : HeldBy(d)' \subseteq Live'
        /\ \A d, e \in Caller : d # e => HeldBy(d)' \cap HeldBy(e)' = {}
    BY <1>1, <2>3 DEF Live, IInv, HandlesOwned
  <2>5. HandlesOwned'
    BY <1>1, <1>2, <2>1, <2>4, IdleRecord DEF HandlesOwned, IInv
  <2>6. Types'
    BY <1>1, <1>2, <1>3, <2>1 DEF IInv, Types, profiling, CallRecord
  <2>7. QED
    BY <1>2, <2>5, <2>6 DEF IInv
<1>7. QED
  BY <1>5, <1>6

LEMMA InsertStep ==
  ASSUME IInv, NEW c \in Caller, Insert(c)
  PROVE  IInv'
<1> DEFINE s == call[c].handles
           h == Len(releases) + 1
           k == [call[c] EXCEPT !.handles = Append(s, h)]
<1>1. /\ releases \in Seq(Nat) /\ Len(releases) \in Nat
      /\ DOMAIN releases = 1 .. Len(releases)
  BY LenProperties DEF IInv, Types
<1>2. releases' = Append(releases, 0)
  BY DEF Insert
<1>3. /\ releases' \in Seq(Nat) /\ Len(releases') = h
      /\ DOMAIN releases' = DOMAIN releases \cup {h} /\ h \notin DOMAIN releases
      /\ releases'[h] = 0 /\ \A g \in DOMAIN releases : releases'[g] = releases[g]
  <2>1. releases' \in Seq(Nat) /\ Len(releases') = h
    BY <1>1, <1>2, AppendProperties
  <2>2. DOMAIN releases' = 1 .. h
    BY <2>1, LenProperties
  <2>3. releases'[h] = 0 /\ \A g \in 1 .. Len(releases) : releases'[g] = releases[g]
    BY <1>1, <1>2, AppendProperties
  <2>4. QED
    BY <1>1, <2>1, <2>2, <2>3
<1>4. /\ call[c].at = "inserting" /\ Become(c, k) /\ Len(s) < call[c].outputs
      /\ UNCHANGED <<sessions, lock, profiling, owned>>
  BY <1>3 DEF Insert, Missing, At
<1>5. /\ call[c] \in CallRecord /\ s \in Seq(DOMAIN releases) /\ Len(s) \in Nat
      /\ DOMAIN s = 1 .. Len(s) /\ \A i \in 1 .. Len(s) : s[i] \in DOMAIN releases
      /\ call[c].outputs \in Nat /\ call[c].adopted \in Nat /\ call[c].adopted <= Len(s)
      /\ \A i, j \in DOMAIN s : s[i] = s[j] => i = j
  BY AtHandles, ElementOfSeq
<1> HIDE DEF h, s
<1>6. s \in Seq(DOMAIN releases')
  BY <1>3, <1>5, SeqMonotonic
<1>7. /\ Append(s, h) \in Seq(DOMAIN releases') /\ Len(Append(s, h)) = Len(s) + 1
      /\ \A i \in 1 .. Len(s) : Append(s, h)[i] = s[i]
      /\ Append(s, h)[Len(s) + 1] = h
  BY <1>3, <1>6, AppendProperties
<1>8. DOMAIN Append(s, h) = 1 .. Len(s) + 1
  BY <1>7, LenProperties
<1>9. /\ k.at = "inserting" /\ k.handles = Append(s, h) /\ k.outputs = call[c].outputs
      /\ k.adopted = call[c].adopted /\ k.session = call[c].session
      /\ k \in CallRecord'
  BY <1>4, <1>5, <1>7 DEF CallRecord
<1>10. k.session \in Session /\ WellFormed(k)
  BY <1>4, <1>9, AtHandles DEF WellFormed
<1> HIDE DEF k
<1>11. call'[c] = k /\ \A d \in Caller \ {c} : call'[d] = call[d]
  BY <1>4 DEF Become, IInv, Types
<1>12. CallRecord \subseteq CallRecord'
  <2>1. \A q \in Seq(DOMAIN releases) : q \in Seq(DOMAIN releases')
    BY <1>3, SeqMonotonic
  <2>2. QED
    BY <2>1 DEF CallRecord
<1>13. call' \in [Caller -> CallRecord']
  BY <1>4, <1>9, <1>12 DEF Become, IInv, Types
<1>14. Types'
  <2>1. \A d \in Caller : WellFormed(call'[d])
    BY <1>10, <1>11 DEF IInv, Types
  <2>2. owned' \in [Caller -> SUBSET (DOMAIN releases')]
    BY <1>3, <1>4 DEF IInv, Types
  <2>3. QED
    BY <1>3, <1>4, <1>13, <2>1, <2>2 DEF IInv, Types, profiling
<1>15. Counted'
  BY <1>4, <1>5, <1>7, <1>9, <1>11 DEF IInv, Counted
<1>16. Locks' /\ SessionsOwned' /\ ProfileKept'
  BY <1>4, <1>9, <1>11, OutsideFrame
<1>17. HandlesOwned'
  <2>1. ToSet(Append(s, h)) = ToSet(s) \cup {h}
    BY <1>5, <1>7, <1>8 DEF ToSet
  <2>2. /\ HeldBy(c)' = HeldBy(c) \cup {h}
        /\ \A d \in Caller \ {c} : HeldBy(d)' = HeldBy(d)
    BY <1>4, <1>9, <1>11, <2>1 DEF HeldBy, s
  <2>3. Live' = Live \cup {h}
    BY <1>3 DEF Live
  <2>4. h \notin Live /\ \A d \in Caller : h \notin HeldBy(d)
    BY <1>3 DEF Live, IInv, HandlesOwned
  <2>5. \A d \in Caller : HeldBy(d)' \subseteq Live'
    BY <2>2, <2>3 DEF IInv, HandlesOwned
  <2>6. \A d, e \in Caller : d # e => HeldBy(d)' \cap HeldBy(e)' = {}
    BY <2>2, <2>4 DEF IInv, HandlesOwned
  <2>7. \A g \in DOMAIN releases' : releases'[g] <= 1
    BY <1>3 DEF IInv, HandlesOwned
  <2>8. /\ owned[c] \cap ToSet(Append(s, h)) = {}
        /\ \A d \in Caller \ {c} : owned[d] \cap ToSet(call'[d].handles) = {}
    BY <1>11, <2>1, <2>4 DEF IInv, HandlesOwned, HeldBy, s
  <2>9. \A i, j \in DOMAIN Append(s, h) : Append(s, h)[i] = Append(s, h)[j] => i = j
    <3>1. \A i \in 1 .. Len(s) : Append(s, h)[i] # h
      BY <1>3, <1>5, <1>7
    <3>2. QED
      BY <1>5, <1>7, <1>8, <3>1
  <2>10. \A d \in Caller : \A i, j \in DOMAIN call'[d].handles :
           call'[d].handles[i] = call'[d].handles[j] => i = j
    BY <1>9, <1>11, <2>9 DEF IInv, HandlesOwned
  <2>11. QED
    BY <1>4, <1>9, <1>11, <2>5, <2>6, <2>7, <2>8, <2>10 DEF HandlesOwned
<1>18. QED
  BY <1>14, <1>15, <1>16, <1>17 DEF IInv

-----------------------------------------------------------------------------
(***************************************************************************)
(* Ending the profiling.                                                   *)
(***************************************************************************)

\* What the three outcomes of an end do to the path that is kept: nothing once it
\* is there.
LEMMA EndKeepsPath ==
  ASSUME IInv, NEW s \in Session,
         \/ EndProfiling(s)
         \/ lock[s] = NoCaller /\ ~Ended(s) /\ OrtEnds(s) /\ UNCHANGED path
         \/ UNCHANGED <<path, ends>>
  PROVE  /\ path' \in [Session -> Nat] /\ ends' \in [Session -> Nat]
         /\ \A r \in Session \ {s} : path'[r] = path[r] /\ ends'[r] = ends[r]
         /\ path'[s] <= ends'[s] /\ (path[s] # 0 => path'[s] = path[s])
         /\ EndProfiling(s) => path'[s] # 0
<1>1. /\ path \in [Session -> Nat] /\ ends \in [Session -> Nat] /\ path[s] <= ends[s]
  BY DEF IInv, Types, ProfileKept
<1>2. ASSUME OrtEnds(s)
      PROVE  /\ ends' \in [Session -> Nat] /\ ends'[s] = ends[s] + 1
             /\ \A r \in Session \ {s} : ends'[r] = ends[r]
  BY <1>1, <1>2 DEF OrtEnds
<1>3. CASE UNCHANGED <<path, ends>> /\ ~EndProfiling(s)
  BY <1>1, <1>3
<1>4. CASE OrtEnds(s) /\ UNCHANGED path /\ ~EndProfiling(s)
  BY <1>1, <1>2, <1>4
<1>5. CASE EndProfiling(s)
  <2>1. CASE Ended(s)
    BY <1>1, <1>5, <2>1 DEF EndProfiling, Ended
  <2>2. CASE ~Ended(s)
    <3>1. OrtEnds(s) /\ path' = [path EXCEPT ![s] = ends'[s]] /\ path[s] = 0
      BY <1>5, <2>2 DEF EndProfiling, Ended
    <3>2. /\ path' \in [Session -> Nat] /\ path'[s] = ends'[s]
          /\ \A r \in Session \ {s} : path'[r] = path[r]
      BY <1>1, <1>2, <3>1
    <3>3. QED
      BY <1>1, <1>2, <3>1, <3>2
  <2>3. QED
    BY <2>1, <2>2
<1>6. QED
  BY <1>3, <1>4, <1>5

LEMMA ProfileStep ==
  ASSUME IInv, NEW s \in Session,
         \A r \in Session \ {s} : path'[r] = path[r] /\ ends'[r] = ends[r],
         path'[s] <= ends'[s], path[s] # 0 => path'[s] = path[s],
         \A r \in Session : \A p \in told'[r] :
           p \in told[r] \/ (r = s /\ p = path'[s] /\ p # 0),
         \A d \in Caller : call'[d].at \in {"sized", "copying"} =>
           \/ /\ call[d].at \in {"sized", "copying"}
              /\ call'[d].session = call[d].session /\ call'[d].size = call[d].size
           \/ call'[d].session = s /\ call'[d].size = path'[s] /\ path'[s] # 0
  PROVE  ProfileKept'
<1>1. \A r \in Session : path'[r] <= ends'[r]
  BY DEF IInv, ProfileKept
<1>2. \A r \in Session : path[r] # 0 => path'[r] = path[r]
  OBVIOUS
<1>3. \A r \in Session : \A p \in told'[r] : p = path'[r] /\ p # 0
  BY <1>2 DEF IInv, ProfileKept
<1>4. \A d \in Caller : call'[d].at \in {"sized", "copying"} =>
        call'[d].size = path'[call'[d].session] /\ call'[d].size # 0
  <2>1. \A d \in Caller : call[d].at \in {"sized", "copying"} =>
          /\ call[d].session \in Session
          /\ call[d].size = path[call[d].session] /\ call[d].size # 0
    BY DEF IInv, ProfileKept, Types, WellFormed, At
  <2>2. SUFFICES ASSUME NEW d \in Caller, call'[d].at \in {"sized", "copying"}
                 PROVE  call'[d].size = path'[call'[d].session] /\ call'[d].size # 0
    OBVIOUS
  <2>3. QED
    BY <1>2, <2>1, <2>2
<1>5. QED
  BY <1>1, <1>3, <1>4 DEF ProfileKept, At

\* Every step of endProfiling, given what it does to the call and to the path.
LEMMA EndFrame ==
  ASSUME IInv, NEW c \in Caller, call[c].at \in {"sizing", "sized", "copying"},
         NEW k, Handless(k), WellFormed(k), k.at \in {"idle", "sized", "copying"},
         Become(c, k), UNCHANGED <<sessions, lock, tensors>>,
         path' \in [Session -> Nat], ends' \in [Session -> Nat],
         told' \in [Session -> SUBSET Nat], ProfileKept'
  PROVE  IInv'
<1>1. call[c].handles = <<>>
  BY AtHandless DEF Handless
<1>2. /\ call' \in [Caller -> CallRecord] /\ \A d \in Caller : WellFormed(call'[d])
      /\ call'[c] = k /\ \A d \in Caller \ {c} : call'[d] = call[d]
      /\ HandlesOwned' /\ Counted'
  BY <1>1, HandlessFrame
<1>3. Types'
  BY <1>2 DEF IInv, Types, tensors, CallRecord
<1>4. Locks'
  BY <1>2, LocksFrame DEF IInv, At
<1>5. SessionsOwned'
  BY <1>2, SessionsFrame DEF IInv, At, sessions
<1>6. QED
  BY <1>2, <1>3, <1>4, <1>5 DEF IInv

\* A call goes from point to point of endProfiling with the session it has.
LEMMA EndPoints ==
  ASSUME IInv, NEW c \in Caller, call[c].at \in {"sizing", "sized", "copying"}
  PROVE  /\ call[c].session \in Session
         /\ LET k == [call[c] EXCEPT !.at = "copying"] IN
              /\ Handless(k) /\ WellFormed(k) /\ k.at = "copying"
              /\ k.session = call[c].session /\ k.size = call[c].size
<1>1. Handless(call[c]) /\ WellFormed(call[c]) /\ call[c].session \in Session
  BY AtHandless
<1>2. LET k == [call[c] EXCEPT !.at = "copying"] IN
        /\ Handless(k) /\ WellFormed(k) /\ k.at = "copying"
        /\ k.session = call[c].session /\ k.size = call[c].size
  BY <1>1 DEF Handless, WellFormed, Points
<1>3. QED
  BY <1>1, <1>2

LEMMA EndSizeStep ==
  ASSUME IInv, NEW c \in Caller, EndSize(c)
  PROVE  IInv'
<1> DEFINE s == call[c].session
           k == [AtStart("sized", s, 0) EXCEPT !.size = path'[s]]
<1>1. /\ call[c].at = "sizing" /\ EndProfiling(s) /\ Become(c, k)
      /\ UNCHANGED <<sessions, lock, told, tensors>>
  BY DEF EndSize, At
<1>2. s \in Session
  BY <1>1, EndPoints
<1>3. /\ path' \in [Session -> Nat] /\ ends' \in [Session -> Nat]
      /\ \A r \in Session \ {s} : path'[r] = path[r] /\ ends'[r] = ends[r]
      /\ path'[s] <= ends'[s] /\ (path[s] # 0 => path'[s] = path[s])
      /\ path'[s] # 0
  BY <1>1, <1>2, EndKeepsPath
<1>4. /\ Handless(k) /\ WellFormed(k) /\ k.at = "sized"
      /\ k.session = s /\ k.size = path'[s]
  <2>1. path'[s] \in Nat
    BY <1>2, <1>3
  <2>2. QED
    BY <1>2, <2>1 DEF Handless, WellFormed, AtStart, Points
<1> HIDE DEF k
<1>5. call'[c] = k /\ \A d \in Caller \ {c} : call'[d] = call[d]
  BY <1>1 DEF Become, IInv, Types
<1>6. ProfileKept'
  BY <1>1, <1>2, <1>3, <1>4, <1>5, ProfileStep
<1>7. told' \in [Session -> SUBSET Nat]
  BY <1>1 DEF IInv, Types
<1>8. QED
  BY <1>1, <1>3, <1>4, <1>6, <1>7, EndFrame

LEMMA EndFailsStep ==
  ASSUME IInv, NEW c \in Caller, EndFails(c) \/ CopyRefused(c)
  PROVE  IInv'
<1> DEFINE s == call[c].session
<1>1. /\ call[c].at \in {"sizing", "sized", "copying"} /\ Become(c, Idle)
      /\ UNCHANGED <<sessions, lock, told, tensors>>
      /\ \/ EndProfiling(s)
         \/ lock[s] = NoCaller /\ ~Ended(s) /\ OrtEnds(s) /\ UNCHANGED path
         \/ UNCHANGED <<path, ends>>
  BY DEF EndFails, CopyRefused, Return, At, profiling
<1>2. s \in Session
  BY <1>1, EndPoints
<1>3. /\ path' \in [Session -> Nat] /\ ends' \in [Session -> Nat]
      /\ \A r \in Session \ {s} : path'[r] = path[r] /\ ends'[r] = ends[r]
      /\ path'[s] <= ends'[s] /\ (path[s] # 0 => path'[s] = path[s])
  BY <1>1, <1>2, EndKeepsPath
<1>4. call'[c] = Idle /\ \A d \in Caller \ {c} : call'[d] = call[d]
  BY <1>1 DEF Become, IInv, Types
<1>5. ProfileKept'
  BY <1>1, <1>2, <1>3, <1>4, IdleRecord, ProfileStep
<1>6. told' \in [Session -> SUBSET Nat]
  BY <1>1 DEF IInv, Types
<1>7. QED
  BY <1>1, <1>3, <1>5, <1>6, IdleHandless, IdleRecord, EndFrame

LEMMA BeginCopyStep ==
  ASSUME IInv, NEW c \in Caller, BeginCopy(c)
  PROVE  IInv'
<1> DEFINE k == [call[c] EXCEPT !.at = "copying"]
<1>1. /\ call[c].at = "sized" /\ Become(c, k)
      /\ UNCHANGED <<sessions, lock, profiling, tensors>>
  BY DEF BeginCopy, Goto, At
<1>2. /\ Handless(k) /\ WellFormed(k) /\ k.at = "copying"
      /\ k.session = call[c].session /\ k.size = call[c].size
  BY <1>1, EndPoints
<1> HIDE DEF k
<1>3. call'[c] = k /\ \A d \in Caller \ {c} : call'[d] = call[d]
  BY <1>1 DEF Become, IInv, Types
<1>4. ProfileKept'
  BY <1>1, <1>2, <1>3, ProfileFrame DEF IInv
<1>5. /\ path' \in [Session -> Nat] /\ ends' \in [Session -> Nat]
      /\ told' \in [Session -> SUBSET Nat]
  BY <1>1 DEF IInv, Types, profiling
<1>6. QED
  BY <1>1, <1>2, <1>4, <1>5, EndFrame

LEMMA EndCopyStep ==
  ASSUME IInv, NEW c \in Caller, EndCopy(c)
  PROVE  IInv'
<1> DEFINE s == call[c].session
<1>1. /\ call[c].at = "copying" /\ EndProfiling(s) /\ Become(c, Idle)
      /\ UNCHANGED <<sessions, lock, tensors>>
      /\ told' = [told EXCEPT ![s] = @ \cup {call[c].size, path'[s]}]
  BY DEF EndCopy, Return, At
<1>2. s \in Session
  BY <1>1, EndPoints
<1>3. /\ path' \in [Session -> Nat] /\ ends' \in [Session -> Nat]
      /\ \A r \in Session \ {s} : path'[r] = path[r] /\ ends'[r] = ends[r]
      /\ path'[s] <= ends'[s] /\ (path[s] # 0 => path'[s] = path[s])
      /\ path'[s] # 0
  BY <1>1, <1>2, EndKeepsPath
<1>4. call[c].size = path'[s]
  BY <1>1, <1>3 DEF IInv, ProfileKept, At
<1>5. call'[c] = Idle /\ \A d \in Caller \ {c} : call'[d] = call[d]
  BY <1>1 DEF Become, IInv, Types
<1>6. /\ told' \in [Session -> SUBSET Nat]
      /\ \A r \in Session : \A p \in told'[r] :
           p \in told[r] \/ (r = s /\ p = path'[s] /\ p # 0)
  <2>1. told' = [told EXCEPT ![s] = told[s] \cup {path'[s]}]
    BY <1>1, <1>4
  <2>2. path'[s] \in Nat /\ told[s] \cup {path'[s]} \in SUBSET Nat
    BY <1>2, <1>3 DEF IInv, Types
  <2>3. told' \in [Session -> SUBSET Nat]
    BY <2>1, <2>2 DEF IInv, Types
  <2>4. /\ told'[s] = told[s] \cup {path'[s]}
        /\ \A r \in Session \ {s} : told'[r] = told[r]
    BY <1>2, <2>1 DEF IInv, Types
  <2>5. QED
    BY <1>3, <2>3, <2>4
<1>7. ProfileKept'
  BY <1>2, <1>3, <1>5, <1>6, IdleRecord, ProfileStep
<1>8. QED
  BY <1>1, <1>3, <1>6, <1>7, IdleHandless, IdleRecord, EndFrame

-----------------------------------------------------------------------------
LEMMA NextIInv == IInv /\ [Next]_vars => IInv'
<1> SUFFICES ASSUME IInv, [Next]_vars PROVE IInv'
  OBVIOUS
<1>1. CASE UNCHANGED vars
  BY <1>1 DEF IInv, Types, CallRecord, Locks, SessionsOwned, HandlesOwned, Live, HeldBy,
              ProfileKept, Counted, At, vars, profiling, tensors
<1>2. CASE Next
  BY <1>2, CreateStep, OpenStep, DisposeStep, BeginStep, LockStep, UnlockStep,
     InsertStep, InsertFailsStep, HandOverStep, MovesOn, AdoptFailsStep,
     DisposeTensorStep, EndSizeStep, EndFailsStep, BeginCopyStep, EndCopyStep DEF Next
<1>3. QED
  BY <1>1, <1>2

\* Whoever holds what, and whoever waits for whom: the inductive invariant.
THEOREM InvariantHolds == Spec => []IInv
<1>1. QED
  BY InitIInv, NextIInv, PTL DEF Spec

\* Every session, and every tensor handle that somebody holds, has one owner, is
\* registered until that owner releases it, and is released once, however callers
\* interleave and whichever of their calls fail.
THEOREM OneOwnerHolds == Spec => []OneOwner
<1>1. IInv => OneOwner
  <2> SUFFICES ASSUME IInv PROVE OneOwner
    OBVIOUS
  <2>1. TypeOK
    <3>1. \A c \in Caller : call[c].at \in Points
      BY DEF IInv, Types, CallRecord
    <3>2. QED
      BY <3>1 DEF TypeOK, IInv, Types, Locks, SessionsOwned, ProfileKept, Counted, At
  <2>2. registered =
          opened \cup {call[c].session : c \in {d \in Caller : At(d, "opening")}}
    BY DEF IInv, SessionsOwned
  <2>3. Held \subseteq Live
    BY DEF Held, IInv, HandlesOwned
  <2>4. QED
    BY <2>1, <2>2, <2>3 DEF OneOwner, IInv, HandlesOwned
<1>2. QED
  BY <1>1, InvariantHolds, PTL

-----------------------------------------------------------------------------
(***************************************************************************)
(* What becomes of the handles somebody holds.                             *)
(***************************************************************************)
FollowedUp(h) == h \in Held' \/ releases'[h] > releases[h]

\* A caller that keeps what it holds has nothing to account for.
LEMMA KeptFollowedUp ==
  ASSUME NEW d \in Caller, HeldBy(d) \subseteq HeldBy(d)', NEW h \in HeldBy(d)
  PROVE  FollowedUp(h)
  BY DEF FollowedUp, Held

LEMMA ReleasedFollowedUp ==
  ASSUME IInv, NEW hs \in Seq(DOMAIN releases),
         \A i, j \in DOMAIN hs : hs[i] = hs[j] => i = j,
         Release(hs), NEW h \in ToSet(hs)
  PROVE  FollowedUp(h)
<1>1. h \in DOMAIN releases
  BY ElementOfSeq DEF ToSet
<1>2. releases'[h] = releases[h] + 1
  BY <1>1, ReleaseCounts DEF IInv
<1>3. releases[h] \in Nat
  BY <1>1, LenProperties, ElementOfSeq DEF IInv, Types
<1>4. QED
  BY <1>2, <1>3 DEF FollowedUp

\* A step of c, as others see it.
LEMMA OthersKeep ==
  ASSUME IInv, NEW c \in Caller, NEW k, Become(c, k),
         \A d \in Caller \ {c} : owned'[d] = owned[d]
  PROVE  /\ call'[c] = k
         /\ \A d \in Caller \ {c} : HeldBy(d)' = HeldBy(d)
  BY DEF IInv, Types, Become, HeldBy

\* A call without handles, or one that keeps those it has.
LEMMA QuietKeeps ==
  ASSUME IInv, NEW c \in Caller, NEW k, k.handles = call[c].handles, Become(c, k),
         UNCHANGED owned
  PROVE  \A d \in Caller : HeldBy(d)' = HeldBy(d)
  BY OthersKeep DEF HeldBy

LEMMA QuietStep ==
  ASSUME IInv, NEW c \in Caller,
         \/ \E s \in Session :
              \/ Create(c, s) \/ Dispose(c, s) \/ BeginEnd(c, s)
              \/ \E n \in 1 .. MaxOutputs : BeginRun(c, s, n)
         \/ Open(c) \/ OpenFails(c)
         \/ Lock(c) \/ RunDone(c) \/ RunFails(c) \/ InsertDone(c) \/ Adopt(c)
         \/ EndSize(c) \/ EndFails(c) \/ BeginCopy(c) \/ CopyRefused(c) \/ EndCopy(c)
  PROVE  \A d \in Caller : HeldBy(d)' = HeldBy(d)
<1>1. call[c] \in CallRecord /\ WellFormed(call[c])
  BY DEF IInv, Types
<1>2. call[c].at \notin {"inserting", "adopting"} => call[c].handles = <<>>
  BY <1>1 DEF WellFormed
<1>3. CASE \/ \E s \in Session :
                \/ Create(c, s) \/ BeginEnd(c, s)
                \/ \E n \in 1 .. MaxOutputs : BeginRun(c, s, n)
           \/ EndSize(c)
  <2>1. UNCHANGED owned /\ call[c].at \in {"idle", "sizing"}
    BY <1>3 DEF Create, BeginEnd, BeginRun, EndSize, tensors, At
  <2>2. \E k : k.handles = <<>> /\ Become(c, k)
    BY <1>3 DEF Create, BeginEnd, BeginRun, EndSize, AtStart
  <2>3. QED
    BY <1>2, <2>1, <2>2, QuietKeeps
<1>4. CASE Open(c) \/ OpenFails(c) \/ RunFails(c) \/ EndFails(c) \/ CopyRefused(c) \/ EndCopy(c)
  <2>1. /\ UNCHANGED owned /\ Become(c, Idle)
        /\ call[c].at \in {"opening", "running", "sizing", "sized", "copying"}
    BY <1>4 DEF Open, OpenFails, RunFails, EndFails, CopyRefused, EndCopy, Return, tensors, At
  <2>2. QED
    BY <1>2, <2>1, IdleRecord, QuietKeeps
<1>5. CASE Lock(c) \/ RunDone(c) \/ InsertDone(c) \/ BeginCopy(c) \/ Adopt(c)
  <2>1. UNCHANGED owned
    BY <1>5 DEF Lock, RunDone, InsertDone, BeginCopy, Adopt, tensors
  <2>2. \E k : k.handles = call[c].handles /\ Become(c, k)
    BY <1>1, <1>5 DEF Lock, RunDone, InsertDone, BeginCopy, Adopt, Goto, CallRecord
  <2>3. QED
    BY <2>1, <2>2, QuietKeeps
<1>6. CASE \E s \in Session : Dispose(c, s)
  BY <1>6 DEF Dispose, tensors, HeldBy
<1>7. QED
  BY <1>3, <1>4, <1>5, <1>6

\* Whoever holds a handle still does after the step, or the handle was released,
\* or the holder's registration of a further output threw.
LEMMA StepFollowsUp ==
  ASSUME IInv, NEW c \in Caller, NEW d \in Caller, NEW h \in HeldBy(d),
         \/ Insert(c) \/ InsertFails(c) \/ InsertThrows(c) \/ AdoptFails(c) \/ Deliver(c)
         \/ \E g \in DOMAIN releases : DisposeTensor(c, g)
  PROVE  FollowedUp(h) \/ (h \in HeldBy(c) /\ InsertThrows(c))
<1>1. ASSUME UNCHANGED owned, NEW k, Become(c, k), ToSet(call[c].handles) \subseteq ToSet(k.handles)
      PROVE  FollowedUp(h)
  <2>1. HeldBy(d) \subseteq HeldBy(d)'
    BY <1>1, OthersKeep DEF HeldBy
  <2>2. QED
    BY <2>1, KeptFollowedUp
<1>2. CASE Insert(c)
  <2> DEFINE s == call[c].handles
             g == Len(releases')
             k == [call[c] EXCEPT !.handles = Append(s, g)]
  <2>1. Become(c, k) /\ UNCHANGED owned
    BY <1>2 DEF Insert
  <2>2. call[c] \in CallRecord /\ s \in Seq(DOMAIN releases) /\ Len(s) \in Nat /\ DOMAIN s = 1 .. Len(s)
    BY AtHandles
  <2>3. k.handles = Append(s, g)
    BY <2>2 DEF CallRecord
  <2> HIDE DEF s, g
  <2>4. s \in Seq(DOMAIN releases \cup {g})
    BY <2>2, SeqMonotonic
  <2>5. /\ Len(Append(s, g)) = Len(s) + 1 /\ Append(s, g) \in Seq(DOMAIN releases \cup {g})
        /\ \A i \in 1 .. Len(s) : Append(s, g)[i] = s[i]
    BY <2>4, AppendProperties
  <2>6. DOMAIN Append(s, g) = 1 .. Len(s) + 1
    BY <2>5, LenProperties
  <2>7. ToSet(s) \subseteq ToSet(Append(s, g))
    BY <2>2, <2>5, <2>6 DEF ToSet
  <2>8. ToSet(call[c].handles) \subseteq ToSet(k.handles)
    BY <2>3, <2>7 DEF s
  <2> HIDE DEF k
  <2>9. QED
    BY <1>1, <2>1, <2>8
<1>3. ASSUME UNCHANGED owned, Become(c, Idle), NEW hs \in Seq(DOMAIN releases),
             \A i, j \in DOMAIN hs : hs[i] = hs[j] => i = j,
             ToSet(hs) = ToSet(call[c].handles), Release(hs)
      PROVE  FollowedUp(h)
  <2>1. CASE h \in ToSet(hs)
    BY <1>3, <2>1, ReleasedFollowedUp
  <2>2. CASE h \notin ToSet(hs)
    <3>1. h \in HeldBy(d)'
      BY <1>3, <2>2, OthersKeep DEF HeldBy
    <3>2. QED
      BY <3>1 DEF FollowedUp, Held
  <2>3. QED
    BY <2>1, <2>2
<1>4. CASE InsertFails(c)
  <2>1. UNCHANGED owned /\ Become(c, Idle) /\ Release(call[c].handles)
    BY <1>4 DEF InsertFails, ToRelease, Return
  <2>2. QED
    BY <1>3, <2>1, AtHandles
<1>5. CASE AdoptFails(c)
  <2>1. UNCHANGED owned /\ Become(c, Idle)
    BY <1>5 DEF AdoptFails, Return
  <2>2. QED
    BY <1>3, <1>5, <2>1, AdoptFailsReleases
<1>6. CASE InsertThrows(c)
  <2>1. CASE d = c
    BY <1>6, <2>1
  <2>2. CASE d # c
    <3>1. UNCHANGED owned /\ Become(c, Idle)
      BY <1>6 DEF InsertThrows, Return
    <3>2. HeldBy(d)' = HeldBy(d)
      BY <2>2, <3>1, OthersKeep
    <3>3. QED
      BY <3>2, KeptFollowedUp
  <2>3. QED
    BY <2>1, <2>2
<1>7. CASE Deliver(c)
  <2>1. /\ Become(c, Idle)
        /\ owned' = [owned EXCEPT ![c] = @ \cup ToSet(call[c].handles)]
    BY <1>7 DEF Deliver, Return
  <2>2. /\ owned'[c] = HeldBy(c)
        /\ \A e \in Caller \ {c} : owned'[e] = owned[e]
    BY <2>1 DEF HeldBy, IInv, Types
  <2>3. HeldBy(d) \subseteq HeldBy(d)'
    BY <2>1, <2>2, OthersKeep DEF HeldBy
  <2>4. QED
    BY <2>3, KeptFollowedUp
<1>8. ASSUME NEW g \in DOMAIN releases, DisposeTensor(c, g)
      PROVE  FollowedUp(h)
  <2>1. UNCHANGED call /\ Release(<<g>>) /\ owned' = [owned EXCEPT ![c] = @ \ {g}]
    BY <1>8 DEF DisposeTensor
  <2>2. <<g>> \in Seq(DOMAIN releases) /\ DOMAIN <<g>> = {1} /\ <<g>>[1] = g
    OBVIOUS
  <2>3. CASE h = g
    <3>1. h \in ToSet(<<g>>)
      BY <2>2, <2>3 DEF ToSet
    <3>2. QED
      BY <2>1, <2>2, <3>1, ReleasedFollowedUp
  <2>4. CASE h # g
    <3>1. h \in HeldBy(d)'
      BY <2>1, <2>4 DEF HeldBy, IInv, Types
    <3>2. QED
      BY <3>1 DEF FollowedUp, Held
  <2>5. QED
    BY <2>3, <2>4
<1>9. QED
  BY <1>2, <1>4, <1>5, <1>6, <1>7, <1>8

\* Registration, adoption and their roll-backs pass every handle on or release it;
\* only an exception of the registry makes a call forget what it holds.
THEOREM NothingForgottenHolds == Spec => NothingForgotten
<1>1. IInv /\ [Next]_vars =>
        [\A h \in Held : \/ h \in Held' \/ releases'[h] > releases[h]
                         \/ \E c \in Caller : h \in HeldBy(c) /\ InsertThrows(c)]_vars
  <2> SUFFICES ASSUME IInv, Next, NEW h \in Held
               PROVE  \/ FollowedUp(h)
                      \/ \E c \in Caller : h \in HeldBy(c) /\ InsertThrows(c)
    BY DEF FollowedUp
  <2>1. PICK d \in Caller : h \in HeldBy(d)
    BY DEF Held
  <2>2. PICK c \in Caller :
          \/ \E s \in Session :
               \/ Create(c, s) \/ Dispose(c, s) \/ BeginEnd(c, s)
               \/ \E n \in 1 .. MaxOutputs : BeginRun(c, s, n)
          \/ Open(c) \/ OpenFails(c)
          \/ Lock(c) \/ RunDone(c) \/ RunFails(c) \/ InsertDone(c) \/ Adopt(c)
          \/ EndSize(c) \/ EndFails(c) \/ BeginCopy(c) \/ CopyRefused(c) \/ EndCopy(c)
          \/ Insert(c) \/ InsertFails(c) \/ InsertThrows(c) \/ AdoptFails(c) \/ Deliver(c)
          \/ \E g \in DOMAIN releases : DisposeTensor(c, g)
    BY DEF Next
  <2>3. CASE \/ Insert(c) \/ InsertFails(c) \/ InsertThrows(c) \/ AdoptFails(c) \/ Deliver(c)
             \/ \E g \in DOMAIN releases : DisposeTensor(c, g)
    BY <2>1, <2>3, StepFollowsUp
  <2>4. CASE ~(\/ Insert(c) \/ InsertFails(c) \/ InsertThrows(c) \/ AdoptFails(c) \/ Deliver(c)
               \/ \E g \in DOMAIN releases : DisposeTensor(c, g))
    <3>1. HeldBy(d)' = HeldBy(d)
      BY <2>2, <2>4, QuietStep
    <3>2. QED
      BY <2>1, <3>1, KeptFollowedUp
  <2>5. QED
    BY <2>3, <2>4
<1>2. QED
  BY <1>1, InvariantHolds, PTL DEF Spec, NothingForgotten

-----------------------------------------------------------------------------
\* All answers about the profile of a session are about one file.
THEOREM OneProfileHolds == Spec => []OneProfile
<1>1. IInv => OneProfile
  <2> SUFFICES ASSUME IInv, NEW s \in Session PROVE Cardinality(told[s]) <= 1
    BY DEF OneProfile
  <2>1. told[s] \subseteq {path[s]}
    BY DEF IInv, ProfileKept
  <2>2. told[s] = {} \/ told[s] = {path[s]}
    BY <2>1
  <2>3. CASE told[s] = {}
    BY <2>3, FS_EmptySet
  <2>4. CASE told[s] = {path[s]}
    <3>1. Cardinality({path[s]}) = 1
      BY FS_Singleton
    <3>2. QED
      BY <2>4, <3>1
  <2>5. QED
    BY <2>2, <2>3, <2>4
<1>2. QED
  BY <1>1, InvariantHolds, PTL

===================================================================================
