------------------------ MODULE HandleRegistryProofs ------------------------
(***************************************************************************)
(* Proofs about HandleRegistry, for any number of threads, objects and     *)
(* handles.                                                                *)
(***************************************************************************)
EXTENDS HandleRegistry, FiniteSetTheorems, TLAPS

\* The three kinds of counted location never coincide, and each names its
\* entry, local or object.
LEMMA RefsDiffer ==
  /\ \A h \in Handle : EntryRef(h) \in Ref
  /\ \A t \in Thread, s \in Slot : LocalRef(t, s) \in Ref
  /\ \A o \in Object : MemberRef(o) \in Ref
  /\ \A r \in Ref : \/ \E h \in Handle : r = EntryRef(h)
                    \/ \E t \in Thread, s \in Slot : r = LocalRef(t, s)
                    \/ \E o \in Object : r = MemberRef(o)
  /\ \A h, k \in Handle : EntryRef(h) = EntryRef(k) => h = k
  /\ \A t, u \in Thread, s, q \in Slot :
       LocalRef(t, s) = LocalRef(u, q) => t = u /\ s = q
  /\ \A o, p \in Object : MemberRef(o) = MemberRef(p) => o = p
  /\ \A h \in Handle, t \in Thread, s \in Slot : EntryRef(h) # LocalRef(t, s)
  /\ \A h \in Handle, o \in Object : EntryRef(h) # MemberRef(o)
  /\ \A t \in Thread, s \in Slot, o \in Object : LocalRef(t, s) # MemberRef(o)
  BY DEF Ref, EntryRef, LocalRef, MemberRef

\* The initial state satisfies the inductive invariant.
LEMMA InitIInv == Init => IInv
<1> SUFFICES ASSUME Init PROVE IInv
  OBVIOUS
<1> USE DEF Init
<1>1. TypeOK
  <2>1. next_handle \in 1 .. MaxHandle /\ live_bytes \in Int
    BY BoundAssumption
  <2>2. DOMAIN entries = {}
    OBVIOUS
  <2>3. /\ call \in [Thread -> Call] /\ pc \in [Thread -> Step]
        /\ local \in [Thread -> [Slot -> Object \cup {NoObject}]]
    <3>1. [op |-> "full", right |-> 0] \in Call
      BY BoundAssumption DEF Call, Op
    <3>2. EmptyFrame \in [Slot -> Object \cup {NoObject}]
      BY DEF EmptyFrame
    <3>3. QED
      BY <3>1, <3>2 DEF Step
  <2>4. QED
    BY <2>1, <2>2, <2>3 DEF TypeOK
<1>2. FrameInv
  BY DEF FrameInv, EmptyFrame, Slot
<1>3. OwnersExact
  BY ObjectAssumption DEF OwnersExact, EmptyFrame
<1>4. NoDanglingReference
  BY DEF NoDanglingReference, EmptyFrame
<1>5. DestroyedByOneThread /\ NoLeak
  BY DEF DestroyedByOneThread, NoLeak
<1>6. HandlesIssued
  BY DEF HandlesIssued
<1>7. QED
  BY <1>1, <1>2, <1>3, <1>4, <1>5, <1>6 DEF IInv

\* The parts of the invariant that say who points to what.
Ownership == OwnersExact /\ NoDanglingReference /\ DestroyedByOneThread /\ NoLeak

\* Copying an entry's shared_ptr into a null local keeps every count exact.
LEMMA LookupStep ==
  ASSUME IInv, NEW t \in Thread, NEW h \in DOMAIN entries, NEW slot \in Slot,
         local[t][slot] = NoObject, Lookup(t, h, slot),
         UNCHANGED <<entries, alive, holds, doomed>>
  PROVE  /\ local' \in [Thread -> [Slot -> Object \cup {NoObject}]]
         /\ local'[t][slot] # NoObject
         /\ owners' \in [Object -> SUBSET Ref]
         /\ Ownership'
<1> DEFINE o == entries[h].object
<1> USE DEF IInv
<1>1. h \in Handle /\ o \in Object /\ o \in alive /\ o # NoObject
  BY ObjectAssumption DEF TypeOK, Entry, NoDanglingReference
<1>2. /\ local' = [local EXCEPT ![t][slot] = o]
      /\ owners' = [owners EXCEPT ![o] = @ \cup {LocalRef(t, slot)}]
  BY DEF Lookup, Own
<1>3. /\ local' \in [Thread -> [Slot -> Object \cup {NoObject}]]
      /\ local'[t][slot] # NoObject
      /\ owners' \in [Object -> SUBSET Ref]
  BY <1>1, <1>2, RefsDiffer DEF TypeOK
<1>4. OwnersExact'
  <2>1. \A p \in Object, k \in Handle :
          EntryRef(k) \in owners'[p] <=> EntryRef(k) \in owners[p]
    BY <1>1, <1>2, RefsDiffer DEF TypeOK
  <2>2. \A p, q \in Object :
          MemberRef(q) \in owners'[p] <=> MemberRef(q) \in owners[p]
    BY <1>1, <1>2, RefsDiffer DEF TypeOK
  <2>3. \A p \in Object, u \in Thread, s \in Slot :
          LocalRef(u, s) \in owners'[p] <=> local'[u][s] = p
    <3> SUFFICES ASSUME NEW p \in Object, NEW u \in Thread, NEW s \in Slot
                 PROVE  LocalRef(u, s) \in owners'[p] <=> local'[u][s] = p
      OBVIOUS
    <3>1. LocalRef(u, s) \in owners[p] <=> local[u][s] = p
      BY DEF OwnersExact
    <3>2. CASE u = t /\ s = slot
      BY <1>1, <1>2, <3>1, <3>2, ObjectAssumption DEF TypeOK
    <3>3. CASE ~(u = t /\ s = slot)
      <4>1. local'[u][s] = local[u][s]
        BY <1>2, <3>3 DEF TypeOK
      <4>2. LocalRef(u, s) \in owners'[p] <=> LocalRef(u, s) \in owners[p]
        BY <1>1, <1>2, <3>3, RefsDiffer DEF TypeOK
      <4>3. QED
        BY <3>1, <4>1, <4>2
    <3>4. QED
      BY <3>2, <3>3
  <2>4. QED
    BY <2>1, <2>2, <2>3 DEF OwnersExact
<1>5. NoDanglingReference'
  BY <1>1, <1>2 DEF TypeOK, NoDanglingReference
<1>6. DestroyedByOneThread'
  <2>1. EntryRef(h) \in owners[o]
    BY <1>1 DEF OwnersExact
  <2>2. \A u \in Thread : o \notin doomed[u]
    BY <2>1 DEF DestroyedByOneThread
  <2>3. QED
    BY <1>2, <2>2 DEF DestroyedByOneThread, TypeOK
<1>7. NoLeak'
  BY <1>1, <1>2 DEF NoLeak, TypeOK
<1>8. QED
  BY <1>3, <1>4, <1>5, <1>6, <1>7 DEF Ownership

\* The first Lookup of a call preserves the invariant.
LEMMA LookupLeftStep ==
  ASSUME IInv, NEW t \in Thread, NEW op \in Unary \cup Binary,
         NEW left \in Argument, NEW right \in Argument,
         LookupLeft(t, op, left, right)
  PROVE  IInv'
<1> USE DEF IInv
<1>1. left \in DOMAIN entries
  BY DEF LookupLeft, Valid
<1>2. local[t] = EmptyFrame
  BY DEF LookupLeft, FrameInv
<1>3. /\ local' \in [Thread -> [Slot -> Object \cup {NoObject}]]
      /\ local'[t]["left"] # NoObject
      /\ owners' \in [Object -> SUBSET Ref]
      /\ Ownership'
  BY <1>1, <1>2, LookupStep DEF LookupLeft, table, heap, EmptyFrame, Slot
<1>4. TypeOK'
  <2>1. right \in 0 .. MaxHandle
    BY BoundAssumption DEF Argument, TypeOK
  <2>2. call' \in [Thread -> Call]
    BY <2>1 DEF LookupLeft, TypeOK, Call, Op
  <2>3. pc' \in [Thread -> Step]
    BY DEF LookupLeft, Goto, TypeOK, Step
  <2>4. QED
    BY <1>3, <2>2, <2>3 DEF LookupLeft, TypeOK, table, heap
<1>5. FrameInv'
  <2>1. \A s \in Slot : s # "left" => local'[t][s] = NoObject
    BY <1>2 DEF LookupLeft, Lookup, EmptyFrame, TypeOK
  <2>2. \A u \in Thread : u # t => local'[u] = local[u]
    BY DEF LookupLeft, Lookup, TypeOK
  <2>3. doomed[t] = {}
    BY DEF LookupLeft, FrameInv
  <2>4. pc'[t] \in {"lookup_right", "compute"}
    BY DEF LookupLeft, Goto, TypeOK
  <2>5. QED
    BY <1>3, <2>1, <2>2, <2>3, <2>4
    DEF LookupLeft, Goto, FrameInv, TypeOK, Slot
<1>6. QED
  BY <1>3, <1>4, <1>5 DEF Ownership, HandlesIssued, LookupLeft, table

\* The second one preserves it too, whether the handle is still live or not.
LEMMA LookupRightStep ==
  ASSUME IInv, NEW t \in Thread, LookupRight(t)
  PROVE  IInv'
<1> USE DEF IInv
<1>1. /\ pc[t] = "lookup_right" /\ doomed[t] = {}
      /\ local[t]["left"] # NoObject /\ local[t]["right"] = NoObject
      /\ local[t]["result"] = NoObject /\ local[t]["retired"] = NoObject
  BY DEF LookupRight, FrameInv
<1>2. CASE Valid(call[t].right, ExpectedType(call[t].op))
  <2>1. Lookup(t, call[t].right, "right") /\ Goto(t, "compute")
    BY <1>2 DEF LookupRight
  <2>2. call[t].right \in DOMAIN entries
    BY <1>2 DEF Valid
  <2>3. /\ local' \in [Thread -> [Slot -> Object \cup {NoObject}]]
        /\ owners' \in [Object -> SUBSET Ref]
        /\ Ownership'
    BY <1>1, <2>1, <2>2, LookupStep DEF LookupRight, table, heap, Slot
  <2>4. TypeOK'
    BY <2>1, <2>3 DEF LookupRight, TypeOK, table, heap, Goto, Step
  <2>5. /\ \A s \in Slot : s # "right" => local'[t][s] = local[t][s]
        /\ \A u \in Thread : u # t => local'[u] = local[u]
    BY <2>1 DEF Lookup, TypeOK
  <2>6. FrameInv'
    BY <1>1, <2>1, <2>5 DEF LookupRight, Goto, FrameInv, TypeOK, Slot
  <2>7. QED
    BY <2>3, <2>4, <2>6 DEF Ownership, HandlesIssued, LookupRight, table
<1>3. CASE ~Valid(call[t].right, ExpectedType(call[t].op))
  <2>1. ToReturn(t) /\ UNCHANGED <<local, owners>>
    BY <1>3 DEF LookupRight
  <2>2. TypeOK'
    BY <2>1 DEF LookupRight, TypeOK, table, heap, ToReturn, Goto, Step
  <2>3. FrameInv'
    BY <1>1, <2>1 DEF LookupRight, ToReturn, Goto, FrameInv, TypeOK
  <2>4. QED
    BY <2>1, <2>2, <2>3
    DEF LookupRight, table, heap, OwnersExact, NoDanglingReference,
        DestroyedByOneThread, NoLeak, HandlesIssued
<1>4. QED
  BY <1>2, <1>3

\* A call without operands starts.
LEMMA BeginFullStep ==
  ASSUME IInv, NEW t \in Thread, BeginFull(t)
  PROVE  IInv'
<1> USE DEF IInv
<1>1. [op |-> "full", right |-> 0] \in Call
  BY BoundAssumption DEF Call, Op
<1>2. TypeOK'
  BY <1>1 DEF BeginFull, TypeOK, table, heap, Goto, Step
<1>3. local[t] = EmptyFrame /\ doomed[t] = {}
  BY DEF BeginFull, FrameInv
<1>4. FrameInv'
  BY <1>3 DEF BeginFull, Goto, FrameInv, TypeOK, EmptyFrame, Slot
<1>5. QED
  BY <1>2, <1>4
  DEF BeginFull, table, heap, OwnersExact, NoDanglingReference,
      DestroyedByOneThread, NoLeak, HandlesIssued

\* The caller's result becomes the object of a new entry.
LEMMA InsertStep ==
  ASSUME IInv, NEW t \in Thread, Insert(t)
  PROVE  IInv'
<1> DEFINE o == local[t]["result"]
           h == next_handle
<1> USE DEF IInv
<1>1. /\ h \in Handle /\ h \in Nat /\ h # MaxHandle
      /\ o \in Object /\ o \in alive /\ o # NoObject
      /\ doomed[t] = {} /\ local[t]["retired"] = NoObject
  <2>1. h # MaxHandle /\ pc[t] = "insert"
    BY DEF Insert, ValidateNextHandle
  <2>2. h \in Handle /\ h \in Nat
    BY <2>1, BoundAssumption DEF TypeOK, Handle
  <2>3. o # NoObject /\ doomed[t] = {} /\ local[t]["retired"] = NoObject
    BY <2>1 DEF FrameInv
  <2>4. o \in alive /\ o \in Object
    BY <2>3 DEF NoDanglingReference, TypeOK, Slot
  <2>5. QED
    BY <2>1, <2>2, <2>3, <2>4
<1>2. PICK type \in HandleType :
        entries' = [k \in DOMAIN entries \cup {h} |->
                      IF k = h THEN [type |-> type, refs |-> 1, object |-> o]
                               ELSE entries[k]]
  BY DEF Insert, FreshHandle, HandleType
<1>3. /\ local' = [local EXCEPT ![t]["result"] = NoObject]
      /\ owners' = [owners EXCEPT
                      ![o] = (@ \ {LocalRef(t, "result")}) \cup {EntryRef(h)}]
      /\ next_handle' = next_handle + 1
      /\ pc' = [pc EXCEPT ![t] = "return"]
      /\ UNCHANGED <<alive, built, holds, live_bytes, call, doomed>>
  BY DEF Insert, FreshHandle, ToReturn, Goto, heap
<1>4. h \notin DOMAIN entries
  BY <1>1 DEF HandlesIssued
<1>5. TypeOK'
  <2>1. next_handle' \in 1 .. MaxHandle
    BY <1>1, <1>3, BoundAssumption DEF TypeOK
  <2>2. [type |-> type, refs |-> 1, object |-> o] \in Entry
    BY <1>1, BoundAssumption DEF Entry
  <2>3. /\ DOMAIN entries' \subseteq Handle
        /\ \A k \in DOMAIN entries' : entries'[k] \in Entry
    BY <1>1, <1>2, <2>2 DEF TypeOK
  <2>4. owners' \in [Object -> SUBSET Ref]
    BY <1>1, <1>3, RefsDiffer DEF TypeOK
  <2>5. /\ local' \in [Thread -> [Slot -> Object \cup {NoObject}]]
        /\ pc' \in [Thread -> Step]
    BY <1>3 DEF TypeOK, Slot, Step
  <2>6. QED
    BY <1>3, <2>1, <2>3, <2>4, <2>5 DEF TypeOK
<1>6. FrameInv'
  BY <1>1, <1>3 DEF FrameInv, TypeOK, Slot
<1>7. HandlesIssued'
  BY <1>1, <1>2, <1>3 DEF HandlesIssued, TypeOK, Handle
<1>8. OwnersExact'
  <2>1. \A p, q \in Object :
          MemberRef(q) \in owners'[p] <=> MemberRef(q) \in owners[p]
    BY <1>1, <1>3, RefsDiffer DEF TypeOK, Slot
  <2>2. ASSUME NEW p \in Object, NEW k \in Handle
        PROVE  EntryRef(k) \in owners'[p] <=>
                 (k \in DOMAIN entries' /\ entries'[k].object = p)
    <3>1. EntryRef(k) \in owners[p] <=>
            (k \in DOMAIN entries /\ entries[k].object = p)
      BY DEF OwnersExact
    <3>2. EntryRef(k) \in owners'[p] <=>
            (EntryRef(k) \in owners[p] \/ (k = h /\ p = o))
      BY <1>1, <1>3, RefsDiffer DEF TypeOK, Slot
    <3>3. QED
      BY <1>1, <1>2, <1>4, <3>1, <3>2
  <2>3. ASSUME NEW p \in Object, NEW u \in Thread, NEW s \in Slot
        PROVE  LocalRef(u, s) \in owners'[p] <=> local'[u][s] = p
    <3>1. LocalRef(u, s) \in owners[p] <=> local[u][s] = p
      BY DEF OwnersExact
    <3>2. CASE u = t /\ s = "result"
      <4>1. local'[u][s] = NoObject
        BY <1>3, <3>2 DEF TypeOK, Slot
      <4>2. LocalRef(u, s) \notin owners'[p]
        BY <1>1, <1>3, <3>1, <3>2, RefsDiffer DEF TypeOK, Slot
      <4>3. QED
        BY <4>1, <4>2, ObjectAssumption
    <3>3. CASE ~(u = t /\ s = "result")
      <4>1. local'[u][s] = local[u][s]
        BY <1>3, <3>3 DEF TypeOK, Slot
      <4>2. LocalRef(u, s) \in owners'[p] <=> LocalRef(u, s) \in owners[p]
        BY <1>1, <1>3, <3>3, RefsDiffer DEF TypeOK, Slot
      <4>3. QED
        BY <3>1, <4>1, <4>2
    <3>4. QED
      BY <3>2, <3>3
  <2>4. QED
    BY <1>3, <2>1, <2>2, <2>3 DEF OwnersExact
<1>9. NoDanglingReference'
  BY <1>1, <1>2, <1>3 DEF NoDanglingReference, TypeOK, Slot
<1>10. DestroyedByOneThread'
  <2>1. LocalRef(t, "result") \in owners[o]
    BY <1>1 DEF OwnersExact, Slot
  <2>2. \A u \in Thread : o \notin doomed[u]
    BY <2>1 DEF DestroyedByOneThread
  <2>3. QED
    BY <1>3, <2>2 DEF DestroyedByOneThread, TypeOK
<1>11. NoLeak'
  BY <1>1, <1>3 DEF NoLeak, TypeOK
<1>12. QED
  BY <1>5, <1>6, <1>7, <1>8, <1>9, <1>10, <1>11

\* A refused Insert keeps the table and leaves the result to the way out.
LEMMA InsertFailsStep ==
  ASSUME IInv, NEW t \in Thread, InsertFails(t)
  PROVE  IInv'
<1> USE DEF IInv
<1>1. /\ next_handle' \in 1 .. MaxHandle /\ next_handle' >= next_handle
      /\ doomed[t] = {} /\ local[t]["retired"] = NoObject
  BY BoundAssumption DEF InsertFails, ValidateNextHandle, TypeOK, FrameInv
<1>2. TypeOK'
  BY <1>1 DEF InsertFails, TypeOK, heap, ToReturn, Goto, Step
<1>3. FrameInv'
  BY <1>1 DEF InsertFails, ToReturn, Goto, FrameInv, TypeOK
<1>4. HandlesIssued'
  BY <1>1 DEF InsertFails, HandlesIssued, TypeOK, Handle
<1>5. QED
  BY <1>2, <1>3, <1>4
  DEF InsertFails, heap, OwnersExact, NoDanglingReference,
      DestroyedByOneThread, NoLeak

\* Retain changes a count of references, and nothing that points anywhere.
LEMMA RetainStep ==
  ASSUME IInv, NEW t \in Thread, NEW h \in Argument, Retain(t, h)
  PROVE  IInv'
<1> USE DEF IInv
<1>1. /\ h \in DOMAIN entries /\ entries[h] \in Entry
      /\ entries' = [entries EXCEPT ![h].refs = @ + 1]
      /\ entries[h].refs # MaxRefs
  BY DEF Retain, CountMayGrow, Valid, TypeOK
<1>2. [entries[h] EXCEPT !.refs = @ + 1] \in Entry
  BY <1>1, BoundAssumption DEF Entry
<1>3. /\ DOMAIN entries' = DOMAIN entries
      /\ \A k \in DOMAIN entries :
           entries'[k] \in Entry /\ entries'[k].object = entries[k].object
  BY <1>1, <1>2 DEF TypeOK, Entry
<1>4. TypeOK'
  BY <1>3 DEF Retain, TypeOK, heap
<1>5. QED
  BY <1>3, <1>4
  DEF Retain, heap, FrameInv, HandlesIssued, OwnersExact, NoDanglingReference,
      DestroyedByOneThread, NoLeak

\* A release that is not the last one changes only the count; the last one
\* hands the object over to a local of the releasing call.
LEMMA ReleaseStep ==
  ASSUME IInv, NEW t \in Thread, NEW h \in Argument, NEW type \in HandleType,
         Release(t, h, type)
  PROVE  IInv'
<1> DEFINE o == entries[h].object
<1> USE DEF IInv
<1>1. /\ h \in DOMAIN entries /\ h \in Handle /\ entries[h] \in Entry
      /\ o \in Object /\ o \in alive /\ o # NoObject
      /\ pc[t] = "idle" /\ doomed[t] = {} /\ local[t] = EmptyFrame
  BY ObjectAssumption
  DEF Release, Valid, TypeOK, Entry, NoDanglingReference, FrameInv
<1>2. CASE entries[h].refs # 1
  <2>1. /\ entries' = [entries EXCEPT ![h].refs = @ - 1]
        /\ UNCHANGED <<local, owners, pc>>
    BY <1>2 DEF Release
  <2>2. [entries[h] EXCEPT !.refs = @ - 1] \in Entry
    BY <1>1, <1>2, BoundAssumption DEF Entry
  <2>3. /\ DOMAIN entries' = DOMAIN entries
        /\ \A k \in DOMAIN entries :
             entries'[k] \in Entry /\ entries'[k].object = entries[k].object
    BY <1>1, <2>1, <2>2 DEF TypeOK, Entry
  <2>4. TypeOK'
    BY <2>1, <2>3 DEF Release, TypeOK, heap
  <2>5. QED
    BY <2>1, <2>3, <2>4
    DEF Release, heap, FrameInv, HandlesIssued, OwnersExact,
        NoDanglingReference, DestroyedByOneThread, NoLeak
<1>3. CASE entries[h].refs = 1
  <2>1. /\ entries' = [k \in DOMAIN entries \ {h} |-> entries[k]]
        /\ local' = [local EXCEPT ![t]["retired"] = o]
        /\ owners' = [owners EXCEPT
             ![o] = (@ \ {EntryRef(h)}) \cup {LocalRef(t, "retired")}]
        /\ pc' = [pc EXCEPT ![t] = "return"]
        /\ UNCHANGED <<next_handle, alive, built, holds, live_bytes, call, doomed>>
    BY <1>3 DEF Release, heap, ToReturn, Goto
  <2>2. TypeOK'
    <3>1. owners' \in [Object -> SUBSET Ref]
      BY <1>1, <2>1, RefsDiffer DEF TypeOK, Slot
    <3>2. /\ local' \in [Thread -> [Slot -> Object \cup {NoObject}]]
          /\ pc' \in [Thread -> Step]
      BY <1>1, <2>1 DEF TypeOK, Slot, Step
    <3>3. QED
      BY <2>1, <3>1, <3>2 DEF TypeOK
  <2>3. FrameInv'
    BY <1>1, <2>1 DEF FrameInv, TypeOK, Slot
  <2>4. HandlesIssued'
    BY <2>1 DEF HandlesIssued
  <2>5. OwnersExact'
    <3>1. \A p, q \in Object :
            MemberRef(q) \in owners'[p] <=> MemberRef(q) \in owners[p]
      BY <1>1, <2>1, RefsDiffer DEF TypeOK, Slot
    <3>2. ASSUME NEW p \in Object, NEW k \in Handle
          PROVE  EntryRef(k) \in owners'[p] <=>
                   (k \in DOMAIN entries' /\ entries'[k].object = p)
      <4>1. EntryRef(k) \in owners[p] <=>
              (k \in DOMAIN entries /\ entries[k].object = p)
        BY DEF OwnersExact
      <4>2. EntryRef(k) \in owners'[p] <=>
              (EntryRef(k) \in owners[p] /\ ~(k = h /\ p = o))
        BY <1>1, <2>1, RefsDiffer DEF TypeOK, Slot
      <4>3. QED
        BY <1>1, <2>1, <4>1, <4>2
    <3>3. ASSUME NEW p \in Object, NEW u \in Thread, NEW s \in Slot
          PROVE  LocalRef(u, s) \in owners'[p] <=> local'[u][s] = p
      <4>1. LocalRef(u, s) \in owners[p] <=> local[u][s] = p
        BY DEF OwnersExact
      <4>2. CASE u = t /\ s = "retired"
        <5>1. local[u][s] = NoObject
          BY <1>1, <4>2 DEF EmptyFrame
        <5>2. local'[u][s] = o
          BY <2>1, <4>2 DEF TypeOK, Slot
        <5>3. LocalRef(u, s) \in owners'[p] <=> p = o
          BY <1>1, <2>1, <4>1, <4>2, <5>1, ObjectAssumption, RefsDiffer
          DEF TypeOK, Slot
        <5>4. QED
          BY <5>2, <5>3
      <4>3. CASE ~(u = t /\ s = "retired")
        <5>1. local'[u][s] = local[u][s]
          BY <2>1, <4>3 DEF TypeOK, Slot
        <5>2. LocalRef(u, s) \in owners'[p] <=> LocalRef(u, s) \in owners[p]
          BY <1>1, <2>1, <4>3, RefsDiffer DEF TypeOK, Slot
        <5>3. QED
          BY <4>1, <5>1, <5>2
      <4>4. QED
        BY <4>2, <4>3
    <3>4. QED
      BY <2>1, <3>1, <3>2, <3>3 DEF OwnersExact
  <2>6. NoDanglingReference'
    BY <1>1, <2>1 DEF NoDanglingReference, TypeOK, Slot
  <2>7. DestroyedByOneThread'
    <3>1. EntryRef(h) \in owners[o]
      BY <1>1 DEF OwnersExact
    <3>2. \A u \in Thread : o \notin doomed[u]
      BY <3>1 DEF DestroyedByOneThread
    <3>3. QED
      BY <2>1, <3>2 DEF DestroyedByOneThread, TypeOK
  <2>8. NoLeak'
    BY <1>1, <2>1 DEF NoLeak, TypeOK
  <2>9. QED
    BY <2>2, <2>3, <2>4, <2>5, <2>6, <2>7, <2>8
<1>4. QED
  BY <1>2, <1>3

\* A failed computation built nothing.
LEMMA ComputeFailsStep ==
  ASSUME IInv, NEW t \in Thread, ComputeFails(t)
  PROVE  IInv'
<1> USE DEF IInv
<1>1. doomed[t] = {} /\ local[t]["retired"] = NoObject
  BY DEF ComputeFails, FrameInv
<1>2. TypeOK'
  BY DEF ComputeFails, TypeOK, table, heap, ToReturn, Goto, Step
<1>3. FrameInv'
  BY <1>1 DEF ComputeFails, ToReturn, Goto, FrameInv, TypeOK
<1>4. QED
  BY <1>2, <1>3
  DEF ComputeFails, table, heap, HandlesIssued, OwnersExact,
      NoDanglingReference, DestroyedByOneThread, NoLeak

\* New objects whose members are new or reachable by the call that builds
\* them leave every count exact.
LEMMA ConstructStep ==
  ASSUME IInv, NEW t \in Thread, NEW new \in SUBSET Object, NEW result \in new,
         NEW hold \in [new -> SUBSET Object],
         \A n \in new : \A p \in hold[n] :
            p \in new \/ (p \in alive /\ \A u \in Thread : p \notin doomed[u]),
         \A n \in new : n = result \/ \E m \in new : n \in hold[m],
         StorageAdded(new) \in Int,
         local[t]["result"] = NoObject,
         Construct(t, new, result, hold),
         UNCHANGED <<entries, doomed>>
  PROVE  /\ built' \subseteq Object /\ alive' \subseteq built'
         /\ holds' \in [Object -> SUBSET Object]
         /\ owners' \in [Object -> SUBSET Ref]
         /\ live_bytes' \in Int
         /\ local' = [local EXCEPT ![t]["result"] = result]
         /\ Ownership'
<1> USE DEF IInv
<1>1. /\ new \cap built = {} /\ built' = built \cup new /\ alive' = alive \cup new
      /\ holds' = [o \in Object |-> IF o \in new THEN hold[o] ELSE holds[o]]
      /\ local' = [local EXCEPT ![t]["result"] = result]
      /\ live_bytes' = live_bytes + StorageAdded(new)
      /\ \A o \in Object : owners'[o] =
           owners[o] \cup {MemberRef(n) : n \in {m \in new : o \in hold[m]}}
             \cup (IF o = result THEN {LocalRef(t, "result")} ELSE {})
      /\ DOMAIN owners' = Object
  BY DEF Construct
<1>2. new \cap alive = {} /\ result \in Object
  BY <1>1 DEF TypeOK
<1>3. \A o \in Object, r \in Ref :
        r \in owners'[o] <=>
          \/ r \in owners[o]
          \/ \E n \in new : o \in hold[n] /\ r = MemberRef(n)
          \/ o = result /\ r = LocalRef(t, "result")
  BY <1>1
<1>4. owners' \in [Object -> SUBSET Ref]
  <2>1. \A o \in Object : owners'[o] \subseteq Ref
    BY <1>1, RefsDiffer DEF TypeOK, Slot
  <2>2. owners' = [o \in Object |-> owners'[o]]
    BY DEF Construct
  <2>3. QED
    BY <2>1, <2>2
<1>5. OwnersExact'
  <2>1. \A p \in Object, k \in Handle :
          EntryRef(k) \in owners'[p] <=> EntryRef(k) \in owners[p]
    BY <1>3, RefsDiffer DEF Slot
  <2>2. ASSUME NEW p \in Object, NEW u \in Thread, NEW s \in Slot
        PROVE  LocalRef(u, s) \in owners'[p] <=> local'[u][s] = p
    <3>1. LocalRef(u, s) \in owners[p] <=> local[u][s] = p
      BY DEF OwnersExact
    <3>2. LocalRef(u, s) \in owners'[p] <=>
            LocalRef(u, s) \in owners[p] \/ (p = result /\ u = t /\ s = "result")
      BY <1>3, RefsDiffer DEF Slot
    <3>3. CASE u = t /\ s = "result"
      BY <1>1, <3>1, <3>2, <3>3, ObjectAssumption DEF TypeOK, Slot
    <3>4. CASE ~(u = t /\ s = "result")
      <4>1. local'[u][s] = local[u][s]
        BY <1>1, <3>4 DEF TypeOK, Slot
      <4>2. QED
        BY <3>1, <3>2, <3>4, <4>1
    <3>5. QED
      BY <3>3, <3>4
  <2>3. ASSUME NEW p \in Object, NEW q \in Object
        PROVE  MemberRef(q) \in owners'[p] <=> (q \in alive' /\ p \in holds'[q])
    <3>1. MemberRef(q) \in owners[p] <=> (q \in alive /\ p \in holds[q])
      BY DEF OwnersExact
    <3>2. MemberRef(q) \in owners'[p] <=>
            MemberRef(q) \in owners[p] \/ (q \in new /\ p \in hold[q])
      BY <1>3, RefsDiffer DEF Slot
    <3>3. QED
      BY <1>1, <1>2, <3>1, <3>2
  <2>4. QED
    BY <2>1, <2>2, <2>3 DEF OwnersExact
<1>6. NoDanglingReference'
  <2>1. \A o \in alive' : holds'[o] \subseteq alive'
    BY <1>1, <1>2 DEF NoDanglingReference, TypeOK
  <2>2. \A u \in Thread, s \in Slot : local'[u][s] \in alive' \cup {NoObject}
    BY <1>1 DEF NoDanglingReference, TypeOK, Slot
  <2>3. QED
    BY <1>1, <2>1, <2>2 DEF NoDanglingReference
<1>7. DestroyedByOneThread'
  <2>1. ASSUME NEW u \in Thread, NEW o \in doomed[u]
        PROVE  owners'[o] = {}
    <3>1. o \in alive /\ o \notin new /\ owners[o] = {} /\ o \in Object
      BY <1>2 DEF DestroyedByOneThread, TypeOK
    <3>2. \A n \in new : o \notin hold[n]
      BY <3>1
    <3>3. QED
      BY <1>1, <3>1, <3>2
  <2>2. QED
    BY <1>1, <2>1 DEF DestroyedByOneThread
<1>8. NoLeak'
  <2>1. ASSUME NEW o \in new
        PROVE  owners'[o] # {}
    <3>1. CASE o = result
      <4>1. LocalRef(t, "result") \in owners'[o]
        BY <1>2, <1>3, <3>1, RefsDiffer DEF Slot
      <4>2. QED
        BY <4>1
    <3>2. CASE \E m \in new : o \in hold[m]
      <4>1. PICK m \in new : o \in hold[m]
        BY <3>2
      <4>2. MemberRef(m) \in owners'[o]
        BY <1>3, <4>1, RefsDiffer
      <4>3. QED
        BY <4>2
    <3>3. QED
      BY <3>1, <3>2
  <2>2. ASSUME NEW o \in alive, owners[o] # {}
        PROVE  owners'[o] # {}
    BY <1>1, <2>2 DEF TypeOK
  <2>3. QED
    BY <1>1, <2>1, <2>2 DEF NoLeak
<1>9. QED
  BY <1>1, <1>4, <1>5, <1>6, <1>7, <1>8 DEF Ownership, TypeOK

\* One new object brings at most one new storage.
LEMMA Singleton == \A o : Cardinality({o} \cap Storage) \in Int
<1> TAKE o
<1>1. IsFiniteSet({o})
  BY FS_Singleton
<1>2. IsFiniteSet({o} \cap Storage)
  BY <1>1, FS_Intersection
<1>3. QED
  BY <1>2, FS_CardinalityType

\* Once its result is built, a call is ready for Insert.
LEMMA BuiltStep ==
  ASSUME IInv, NEW t \in Thread, NEW x \in Object,
         pc[t] = "compute", doomed[t] = {}, Goto(t, "insert"),
         local[t]["retired"] = NoObject,
         UNCHANGED <<next_handle, entries, call, doomed>>,
         built' \subseteq Object, alive' \subseteq built',
         holds' \in [Object -> SUBSET Object],
         owners' \in [Object -> SUBSET Ref],
         live_bytes' \in Int,
         local' = [local EXCEPT ![t]["result"] = x],
         Ownership'
  PROVE  IInv'
<1> USE DEF IInv
<1>1. TypeOK'
  BY DEF TypeOK, Goto, Step, Slot
<1>2. FrameInv'
  BY ObjectAssumption DEF FrameInv, TypeOK, Goto, Slot
<1>3. QED
  BY <1>1, <1>2 DEF HandlesIssued, Ownership

\* A new tensor over a new storage, possibly keeping its operands on the tape.
LEMMA MakeTensorStep ==
  ASSUME IInv, NEW t \in Thread, NEW x \in Tensor, NEW s \in Storage,
         NEW parents \in SUBSET Object,
         \A p \in parents : p \in alive /\ \A u \in Thread : p \notin doomed[u],
         local[t]["result"] = NoObject,
         MakeTensor(t, x, s, parents),
         UNCHANGED <<entries, doomed>>
  PROVE  /\ built' \subseteq Object /\ alive' \subseteq built'
         /\ holds' \in [Object -> SUBSET Object]
         /\ owners' \in [Object -> SUBSET Ref]
         /\ live_bytes' \in Int
         /\ local' = [local EXCEPT ![t]["result"] = x]
         /\ Ownership'
<1> DEFINE new == {x, s}
           hold == [o \in new |-> IF o = x THEN {s} \cup parents ELSE {}]
<1>1. /\ new \in SUBSET Object /\ x \in new
      /\ hold \in [new -> SUBSET Object]
  BY DEF Object
<1>2. \A n \in new : \A p \in hold[n] :
         p \in new \/ (p \in alive /\ \A u \in Thread : p \notin doomed[u])
  OBVIOUS
<1>3. \A n \in new : n = x \/ \E m \in new : n \in hold[m]
  OBVIOUS
<1>4. StorageAdded(new) \in Int
  <2>1. IsFiniteSet(new)
    <3>1. new = {x} \cup {s}
      OBVIOUS
    <3>2. IsFiniteSet({x})
      BY FS_Singleton
    <3>3. QED
      BY <3>1, <3>2, FS_AddElement
  <2>2. IsFiniteSet(new \cap Storage)
    BY <2>1, FS_Intersection
  <2>3. QED
    BY <2>2, FS_CardinalityType DEF StorageAdded
<1>5. Construct(t, new, x, hold)
  BY DEF MakeTensor
<1> HIDE DEF new, hold
<1>6. QED
  BY <1>1, <1>2, <1>3, <1>4, <1>5, ConstructStep

\* What a computation may rely on: the objects its call looked up are alive
\* and no other thread is destroying them.
LEMMA OperandsPinned ==
  ASSUME IInv, NEW t \in Thread, NEW p \in Operands(t)
  PROVE  p \in Object /\ p \in alive /\ \A u \in Thread : p \notin doomed[u]
<1> USE DEF IInv
<1>1. PICK sl \in Slot : p = local[t][sl] /\ p # NoObject
  BY DEF Operands, Slot
<1>2. p \in Object /\ p \in alive
  BY <1>1 DEF TypeOK, NoDanglingReference
<1>3. LocalRef(t, sl) \in owners[p]
  BY <1>1, <1>2 DEF OwnersExact
<1>4. QED
  BY <1>2, <1>3 DEF DestroyedByOneThread

\* What a call about to compute knows of its frame.
LEMMA ComputeFrame ==
  ASSUME IInv, NEW t \in Thread, pc[t] = "compute"
  PROVE  /\ doomed[t] = {}
         /\ local[t]["result"] = NoObject /\ local[t]["retired"] = NoObject
         /\ call[t].op # "full" => local[t]["left"] \in Operands(t)
  BY DEF IInv, FrameInv, Operands

\* A fresh result preserves the invariant, with or without its operands.
LEMMA ComputeFreshStep ==
  ASSUME IInv, NEW t \in Thread, ComputeFresh(t)
  PROVE  IInv'
<1>1. PICK x \in Tensor, s \in Storage, parents \in {{}, Operands(t)} :
        MakeTensor(t, x, s, parents)
  BY DEF ComputeFresh
<1>2. /\ parents \in SUBSET Object
      /\ \A p \in parents : p \in alive /\ \A u \in Thread : p \notin doomed[u]
  BY OperandsPinned
<1>3. /\ Goto(t, "insert") /\ x \in Object /\ pc[t] = "compute"
      /\ UNCHANGED <<next_handle, entries, call, doomed>>
  BY DEF ComputeFresh, Object, table
<1>4. /\ built' \subseteq Object /\ alive' \subseteq built'
      /\ holds' \in [Object -> SUBSET Object]
      /\ owners' \in [Object -> SUBSET Ref]
      /\ live_bytes' \in Int
      /\ local' = [local EXCEPT ![t]["result"] = x]
      /\ Ownership'
  BY <1>1, <1>2, <1>3, MakeTensorStep, ComputeFrame
<1>5. QED
  BY <1>3, <1>4, BuiltStep, ComputeFrame

\* A view holds the storage of its source, which the source keeps alive.
LEMMA ComputeViewStep ==
  ASSUME IInv, NEW t \in Thread, ComputeView(t)
  PROVE  IInv'
<1> DEFINE source == local[t]["left"]
<1> USE DEF IInv
<1>1. /\ Goto(t, "insert") /\ pc[t] = "compute" /\ call[t].op = "reshape"
      /\ UNCHANGED <<next_handle, entries, call, doomed>>
  BY DEF ComputeView, table
<1>2. source \in Operands(t)
  BY <1>1, ComputeFrame
<1>3. source \in Object /\ source \in alive /\ \A u \in Thread : source \notin doomed[u]
  BY <1>2, OperandsPinned
<1>4. PICK x \in Tensor, parents \in {{}, {source}} :
        Construct(t, {x}, x, [o \in {x} |-> StorageOf(source) \cup parents])
  BY DEF ComputeView
<1> DEFINE hold == [o \in {x} |-> StorageOf(source) \cup parents]
<1>5. \A p \in StorageOf(source) :
        p \in Object /\ p \in alive /\ \A u \in Thread : p \notin doomed[u]
  <2> SUFFICES ASSUME NEW p \in StorageOf(source)
               PROVE  p \in Object /\ p \in alive
                        /\ \A u \in Thread : p \notin doomed[u]
    OBVIOUS
  <2>1. p \in holds[source] /\ p \in Object /\ p \in alive
    BY <1>3 DEF StorageOf, NoDanglingReference, TypeOK
  <2>2. MemberRef(source) \in owners[p]
    BY <1>3, <2>1 DEF OwnersExact
  <2>3. QED
    BY <2>1, <2>2 DEF DestroyedByOneThread
<1>6. /\ hold \in [{x} -> SUBSET Object]
      /\ \A n \in {x} : \A p \in hold[n] :
           p \in {x} \/ (p \in alive /\ \A u \in Thread : p \notin doomed[u])
  BY <1>3, <1>5
<1>7. StorageAdded({x}) \in Int
  BY Singleton DEF StorageAdded
<1>8. Construct(t, {x}, x, hold) /\ x \in Object
  BY <1>4 DEF Object
<1> HIDE DEF hold
<1>9. /\ built' \subseteq Object /\ alive' \subseteq built'
      /\ holds' \in [Object -> SUBSET Object]
      /\ owners' \in [Object -> SUBSET Ref]
      /\ live_bytes' \in Int
      /\ local' = [local EXCEPT ![t]["result"] = x]
      /\ Ownership'
  BY <1>1, <1>6, <1>7, <1>8, ConstructStep, ComputeFrame
<1>10. QED
  BY <1>1, <1>8, <1>9, BuiltStep, ComputeFrame

\* An optimizer holds the parameters its call looked up.
LEMMA ComputeOptimizerStep ==
  ASSUME IInv, NEW t \in Thread, ComputeOptimizer(t)
  PROVE  IInv'
<1>1. PICK z \in Optimizer : Construct(t, {z}, z, [o \in {z} |-> Operands(t)])
  BY DEF ComputeOptimizer
<1> DEFINE hold == [o \in {z} |-> Operands(t)]
<1>2. /\ Goto(t, "insert") /\ z \in Object /\ pc[t] = "compute"
      /\ UNCHANGED <<next_handle, entries, call, doomed>>
  BY DEF ComputeOptimizer, Object, table
<1>3. \A p \in Operands(t) :
        p \in Object /\ p \in alive /\ \A u \in Thread : p \notin doomed[u]
  BY OperandsPinned
<1>4. /\ hold \in [{z} -> SUBSET Object]
      /\ \A n \in {z} : \A p \in hold[n] :
           p \in {z} \/ (p \in alive /\ \A u \in Thread : p \notin doomed[u])
  BY <1>3
<1>5. StorageAdded({z}) \in Int
  BY Singleton DEF StorageAdded
<1>6. Construct(t, {z}, z, hold)
  BY <1>1
<1> HIDE DEF hold
<1>7. /\ built' \subseteq Object /\ alive' \subseteq built'
      /\ holds' \in [Object -> SUBSET Object]
      /\ owners' \in [Object -> SUBSET Ref]
      /\ live_bytes' \in Int
      /\ local' = [local EXCEPT ![t]["result"] = z]
      /\ Ownership'
  BY <1>2, <1>4, <1>5, <1>6, ConstructStep, ComputeFrame
<1>8. QED
  BY <1>2, <1>7, BuiltStep, ComputeFrame

\* An optimizer step changes no ownership.
LEMMA ComputeStepStep ==
  ASSUME IInv, NEW t \in Thread, ComputeStep(t)
  PROVE  IInv'
<1> USE DEF IInv
<1>1. doomed[t] = {} /\ local[t]["retired"] = NoObject
  BY ComputeFrame DEF ComputeStep
<1>2. TypeOK'
  BY DEF ComputeStep, TypeOK, table, heap, ToReturn, Goto, Step
<1>3. FrameInv'
  BY <1>1 DEF ComputeStep, ToReturn, Goto, FrameInv, TypeOK
<1>4. QED
  BY <1>2, <1>3
  DEF ComputeStep, table, heap, HandlesIssued, OwnersExact,
      NoDanglingReference, DestroyedByOneThread, NoLeak

\* Dropping a local dooms its object exactly when nothing else owns it.
LEMMA DropLocalStep ==
  ASSUME IInv, NEW t \in Thread, NEW slot \in Slot, DropLocal(t, slot)
  PROVE  IInv'
<1> DEFINE o == local[t][slot]
<1> USE DEF IInv
<1>1. /\ pc[t] = "return" /\ doomed[t] = {} /\ o # NoObject
      /\ owners' = [owners EXCEPT ![o] = @ \ {LocalRef(t, slot)}]
      /\ doomed' = [doomed EXCEPT ![t] = IF owners'[o] = {} THEN {o} ELSE {}]
      /\ local' = [local EXCEPT ![t][slot] = NoObject]
      /\ UNCHANGED <<next_handle, entries, alive, built, holds, live_bytes, pc, call>>
  <2>1. Orphans({o}, owners') = IF owners'[o] = {} THEN {o} ELSE {}
    BY DEF Orphans
  <2>2. QED
    BY <2>1 DEF DropLocal, table, heap
<1>2. o \in alive /\ o \in Object
  BY <1>1 DEF NoDanglingReference, TypeOK
<1>3. TypeOK'
  <2>1. owners' \in [Object -> SUBSET Ref]
    BY <1>1, <1>2 DEF TypeOK
  <2>2. local' \in [Thread -> [Slot -> Object \cup {NoObject}]]
    BY <1>1 DEF TypeOK
  <2>3. doomed' \in [Thread -> SUBSET Object]
    BY <1>1, <1>2 DEF TypeOK
  <2>4. QED
    BY <1>1, <2>1, <2>2, <2>3 DEF TypeOK
<1>4. FrameInv'
  BY <1>1 DEF FrameInv, TypeOK
<1>5. OwnersExact'
  <2>1. \A p, q \in Object :
          MemberRef(q) \in owners'[p] <=> MemberRef(q) \in owners[p]
    BY <1>1, <1>2, RefsDiffer DEF TypeOK
  <2>2. \A p \in Object, k \in Handle :
          EntryRef(k) \in owners'[p] <=> EntryRef(k) \in owners[p]
    BY <1>1, <1>2, RefsDiffer DEF TypeOK
  <2>3. ASSUME NEW p \in Object, NEW u \in Thread, NEW s \in Slot
        PROVE  LocalRef(u, s) \in owners'[p] <=> local'[u][s] = p
    <3>1. LocalRef(u, s) \in owners[p] <=> local[u][s] = p
      BY DEF OwnersExact
    <3>2. CASE u = t /\ s = slot
      <4>1. local'[u][s] = NoObject
        BY <1>1, <3>2 DEF TypeOK
      <4>2. LocalRef(u, s) \notin owners'[p]
        BY <1>1, <1>2, <3>1, <3>2 DEF TypeOK
      <4>3. QED
        BY <4>1, <4>2, ObjectAssumption
    <3>3. CASE ~(u = t /\ s = slot)
      <4>1. local'[u][s] = local[u][s]
        BY <1>1, <3>3 DEF TypeOK
      <4>2. LocalRef(u, s) \in owners'[p] <=> LocalRef(u, s) \in owners[p]
        BY <1>1, <1>2, <3>3, RefsDiffer DEF TypeOK
      <4>3. QED
        BY <3>1, <4>1, <4>2
    <3>4. QED
      BY <3>2, <3>3
  <2>4. QED
    BY <1>1, <2>1, <2>2, <2>3 DEF OwnersExact
<1>6. NoDanglingReference'
  BY <1>1 DEF NoDanglingReference, TypeOK
<1>7. \A u \in Thread : o \notin doomed[u]
  <2>1. LocalRef(t, slot) \in owners[o]
    BY <1>2 DEF OwnersExact
  <2>2. QED
    BY <2>1 DEF DestroyedByOneThread
<1>8. \A p \in Object : p # o => owners'[p] = owners[p]
  BY <1>1, <1>2 DEF TypeOK
<1>9. /\ doomed'[t] = IF owners'[o] = {} THEN {o} ELSE {}
      /\ \A u \in Thread : u # t => doomed'[u] = doomed[u]
  BY <1>1 DEF TypeOK
<1>10. DestroyedByOneThread'
  <2> SUFFICES ASSUME NEW u \in Thread, NEW p \in doomed'[u]
               PROVE  /\ p \in alive' /\ owners'[p] = {}
                      /\ \A v \in Thread \ {u} : p \notin doomed'[v]
    BY DEF DestroyedByOneThread
  <2>1. CASE u = t
    <3>1. p = o /\ owners'[o] = {}
      BY <1>9, <2>1
    <3>2. QED
      BY <1>1, <1>2, <1>7, <1>9, <2>1, <3>1
  <2>2. CASE u # t
    <3>1. p \in doomed[u] /\ p # o /\ p \in alive /\ owners[p] = {} /\ p \in Object
      BY <1>7, <1>9, <2>2 DEF DestroyedByOneThread, TypeOK
    <3>2. \A v \in Thread \ {u} : p \notin doomed[v]
      BY <3>1 DEF DestroyedByOneThread
    <3>3. QED
      BY <1>1, <1>8, <1>9, <3>1, <3>2
  <2>3. QED
    BY <2>1, <2>2
<1>11. NoLeak'
  <2> SUFFICES ASSUME NEW p \in alive
               PROVE  owners'[p] # {} \/ \E u \in Thread : p \in doomed'[u]
    BY <1>1 DEF NoLeak
  <2>1. CASE p = o
    BY <1>9, <2>1
  <2>2. CASE p # o
    <3>1. owners'[p] = owners[p]
      BY <1>8, <2>2 DEF TypeOK
    <3>2. owners[p] # {} \/ \E u \in Thread : p \in doomed[u]
      BY DEF NoLeak
    <3>3. QED
      BY <1>1, <1>9, <3>1, <3>2
  <2>3. QED
    BY <2>1, <2>2
<1>12. QED
  BY <1>1, <1>3, <1>4, <1>5, <1>6, <1>10, <1>11 DEF HandlesIssued

\* A destructor drops the members of its object and dooms those it was the
\* last to own.
LEMMA DestroyStep ==
  ASSUME IInv, NEW t \in Thread, NEW o \in Object, Destroy(t, o)
  PROVE  IInv'
<1> USE DEF IInv
<1>1. /\ o \in doomed[t] /\ alive' = alive \ {o}
      /\ owners' = [p \in Object |-> owners[p] \ {MemberRef(o)}]
      /\ holds' = [holds EXCEPT ![o] = {}]
      /\ doomed' = [doomed EXCEPT
           ![t] = (@ \ {o}) \cup {p \in holds[o] : owners'[p] = {}}]
      /\ UNCHANGED <<next_handle, entries, built, pc, call, local>>
  BY DEF Destroy, Orphans, table
<1>2. /\ o \in alive /\ owners[o] = {}
      /\ \A u \in Thread \ {t} : o \notin doomed[u]
  BY <1>1 DEF DestroyedByOneThread
<1>3. /\ \A h \in DOMAIN entries : entries[h].object # o
      /\ \A u \in Thread, s \in Slot : local[u][s] # o
      /\ \A p \in alive : o \notin holds[p]
  BY <1>2 DEF OwnersExact, TypeOK
<1>4. TypeOK'
  <2>1. owners' \in [Object -> SUBSET Ref]
    BY <1>1 DEF TypeOK
  <2>2. doomed' \in [Thread -> SUBSET Object]
    BY <1>1 DEF TypeOK
  <2>3. holds' \in [Object -> SUBSET Object] /\ live_bytes' \in Int
    BY <1>1 DEF TypeOK, Destroy
  <2>4. QED
    BY <1>1, <2>1, <2>2, <2>3 DEF TypeOK
<1>5. FrameInv'
  <2>1. pc[t] = "return"
    BY <1>1 DEF FrameInv
  <2>2. QED
    BY <1>1, <2>1 DEF FrameInv, TypeOK
<1>6. OwnersExact'
  <2>1. \A p \in Object, k \in Handle :
          EntryRef(k) \in owners'[p] <=> EntryRef(k) \in owners[p]
    BY <1>1, RefsDiffer
  <2>2. \A p \in Object, u \in Thread, s \in Slot :
          LocalRef(u, s) \in owners'[p] <=> LocalRef(u, s) \in owners[p]
    BY <1>1, RefsDiffer
  <2>3. \A p, q \in Object :
          MemberRef(q) \in owners'[p] <=> (q \in alive' /\ p \in holds'[q])
    BY <1>1, RefsDiffer DEF OwnersExact, TypeOK
  <2>4. QED
    BY <1>1, <2>1, <2>2, <2>3 DEF OwnersExact
<1>7. NoDanglingReference'
  <2>1. \A p \in alive' : holds'[p] \subseteq alive'
    BY <1>1, <1>3 DEF NoDanglingReference, TypeOK
  <2>2. QED
    BY <1>1, <1>3, <2>1 DEF NoDanglingReference
<1>8. \A p \in holds[o] : \A u \in Thread : p \notin doomed[u]
  <2>1. \A p \in holds[o] : MemberRef(o) \in owners[p]
    BY <1>2 DEF OwnersExact, TypeOK
  <2>2. QED
    BY <2>1 DEF DestroyedByOneThread
<1>9. /\ doomed'[t] = (doomed[t] \ {o}) \cup {p \in holds[o] : owners'[p] = {}}
      /\ \A u \in Thread : u # t => doomed'[u] = doomed[u]
  BY <1>1 DEF TypeOK
<1>10. DestroyedByOneThread'
  <2> SUFFICES ASSUME NEW u \in Thread, NEW p \in doomed'[u]
               PROVE  /\ p \in alive' /\ owners'[p] = {}
                      /\ \A v \in Thread \ {u} : p \notin doomed'[v]
    BY DEF DestroyedByOneThread
  <2>1. CASE p \in doomed[u] /\ p # o
    <3>1. p \in alive /\ owners[p] = {} /\ \A v \in Thread \ {u} : p \notin doomed[v]
      BY <2>1 DEF DestroyedByOneThread
    <3>2. p \in Object /\ p \notin holds[o]
      BY <1>8, <2>1 DEF TypeOK
    <3>3. QED
      BY <1>1, <1>9, <2>1, <3>1, <3>2
  <2>2. CASE u = t /\ p \in holds[o] /\ owners'[p] = {}
    <3>1. p \in alive /\ p # o
      BY <1>2, <1>3, <2>2 DEF NoDanglingReference
    <3>2. QED
      BY <1>1, <1>8, <1>9, <2>2, <3>1
  <2>3. QED
    BY <1>2, <1>9, <2>1, <2>2
<1>11. NoLeak'
  <2> SUFFICES ASSUME NEW p \in alive, p # o
               PROVE  owners'[p] # {} \/ \E u \in Thread : p \in doomed'[u]
    BY <1>1 DEF NoLeak
  <2>1. CASE \E u \in Thread : p \in doomed[u]
    BY <1>9, <2>1
  <2>2. CASE owners[p] # {} /\ owners'[p] = {}
    <3>1. MemberRef(o) \in owners[p] /\ p \in Object
      BY <1>1, <2>2 DEF TypeOK
    <3>2. p \in holds[o]
      BY <3>1 DEF OwnersExact
    <3>3. QED
      BY <1>9, <2>2, <3>2
  <2>3. QED
    BY <2>1, <2>2 DEF NoLeak
<1>12. QED
  BY <1>1, <1>4, <1>5, <1>6, <1>7, <1>10, <1>11 DEF HandlesIssued

\* A call returns with nothing left in its frame.
LEMMA ReturnStep ==
  ASSUME IInv, NEW t \in Thread, Return(t)
  PROVE  IInv'
<1> USE DEF IInv
<1>1. [op |-> "full", right |-> 0] \in Call
  BY BoundAssumption DEF Call, Op
<1>2. TypeOK'
  BY <1>1 DEF Return, TypeOK, table, heap, Goto, Step
<1>3. FrameInv'
  BY DEF Return, Goto, FrameInv, TypeOK, EmptyFrame, Slot
<1>4. QED
  BY <1>2, <1>3
  DEF Return, table, heap, HandlesIssued, OwnersExact, NoDanglingReference,
      DestroyedByOneThread, NoLeak

\* The inductive invariant holds in every reachable state.
THEOREM Invariance == Spec => []IInv
<1>1. IInv /\ [Next]_vars => IInv'
  <2> SUFFICES ASSUME IInv, [Next]_vars PROVE IInv'
    OBVIOUS
  <2>1. CASE UNCHANGED vars
    BY <2>1
    DEF vars, IInv, TypeOK, FrameInv, HandlesIssued, OwnersExact,
        NoDanglingReference, DestroyedByOneThread, NoLeak
  <2>2. ASSUME NEW t \in Thread, Start(t) PROVE IInv'
    BY <2>2, BeginFullStep, LookupLeftStep, RetainStep, ReleaseStep DEF Start
  <2>3. ASSUME NEW t \in Thread, Run(t) PROVE IInv'
    BY <2>3, LookupRightStep, InsertStep, InsertFailsStep, ComputeFreshStep,
       ComputeViewStep, ComputeOptimizerStep, ComputeStepStep,
       ComputeFailsStep, DropLocalStep, DestroyStep, ReturnStep DEF Run
  <2>4. QED
    BY <2>1, <2>2, <2>3 DEF Next
<1>2. QED
  BY InitIInv, <1>1, PTL DEF Spec

\* Every variable keeps its type; in particular the identifiers stop before
\* they wrap and a reference count stays between 1 and its maximum.
THEOREM TypeCorrect == Spec => []TypeOK
  BY Invariance, PTL DEF IInv

\* The strong count of every object is exact.
THEOREM OwnersAreExact == Spec => []OwnersExact
  BY Invariance, PTL DEF IInv

\* No handle, call or living object ever points to a destroyed object.
THEOREM NoUseAfterFree == Spec => []NoDanglingReference
  BY Invariance, PTL DEF IInv

\* No destructor runs twice, and none while something still owns the object.
THEOREM DestroyedOnce == Spec => []DestroyedByOneThread
  BY Invariance, PTL DEF IInv

\* Nothing stays alive without an owner or a thread about to destroy it.
THEOREM NothingLeaks == Spec => []NoLeak
  BY Invariance, PTL DEF IInv

\* A handle names one object from its issue to its retirement, and nothing
\* afterwards.
THEOREM HandlesAreNeverReused == Spec => HandleNeverRebinds
<1> DEFINE A == /\ next_handle' >= next_handle
                /\ \A h \in Handle :
                     /\ (h < next_handle /\ h \notin DOMAIN entries)
                          => h \notin DOMAIN entries'
                     /\ (h \in DOMAIN entries /\ h \in DOMAIN entries') =>
                          /\ entries'[h].object = entries[h].object
                          /\ entries'[h].type = entries[h].type
<1>1. IInv /\ [Next]_vars => [A]_<<next_handle, entries>>
  <2> SUFFICES ASSUME IInv, [Next]_vars
               PROVE  A \/ UNCHANGED <<next_handle, entries>>
    OBVIOUS
  <2> USE DEF IInv
  <2>1. next_handle \in Nat /\ DOMAIN entries \subseteq Handle
    BY BoundAssumption DEF TypeOK
  <2>2. ASSUME NEW t \in Thread, Insert(t) PROVE A
    <3>1. /\ next_handle' = next_handle + 1
          /\ DOMAIN entries' = DOMAIN entries \cup {next_handle}
          /\ \A k \in DOMAIN entries : k # next_handle => entries'[k] = entries[k]
      BY <2>2 DEF Insert, FreshHandle
    <3>2. next_handle \notin DOMAIN entries
      BY <2>1 DEF HandlesIssued
    <3>3. QED
      BY <2>1, <3>1, <3>2 DEF Handle
  <2>3. ASSUME NEW t \in Thread, InsertFails(t) PROVE A
    BY <2>1, <2>3 DEF InsertFails
  <2>4. ASSUME NEW t \in Thread, NEW h \in Argument, Retain(t, h) PROVE A
    <3>1. /\ next_handle' = next_handle /\ DOMAIN entries' = DOMAIN entries
          /\ \A k \in DOMAIN entries : /\ entries'[k].object = entries[k].object
                                       /\ entries'[k].type = entries[k].type
      BY <2>4 DEF Retain, Valid, TypeOK, Entry
    <3>2. QED
      BY <2>1, <3>1
  <2>5. ASSUME NEW t \in Thread, NEW h \in Argument, NEW type \in HandleType,
               Release(t, h, type)
        PROVE  A
    <3>1. /\ next_handle' = next_handle /\ DOMAIN entries' \subseteq DOMAIN entries
          /\ \A k \in DOMAIN entries' : /\ entries'[k].object = entries[k].object
                                        /\ entries'[k].type = entries[k].type
      BY <2>5 DEF Release, Valid, TypeOK, Entry
    <3>2. QED
      BY <2>1, <3>1
  <2>6. ASSUME NEW t \in Thread, Start(t)
        PROVE  A \/ UNCHANGED <<next_handle, entries>>
    BY <2>4, <2>5, <2>6 DEF Start, BeginFull, LookupLeft, table
  <2>7. ASSUME NEW t \in Thread, Run(t)
        PROVE  A \/ UNCHANGED <<next_handle, entries>>
    BY <2>2, <2>3, <2>7
    DEF Run, LookupRight, ComputeFresh, ComputeView, ComputeOptimizer, ComputeStep,
        ComputeFails, DropLocal, Destroy, Return, table
  <2>8. QED
    BY <2>6, <2>7 DEF Next, vars
<1>2. QED
  BY Invariance, <1>1, PTL DEF Spec, HandleNeverRebinds

-----------------------------------------------------------------------------
(***************************************************************************)
(* The storages that live_bytes_ counts, and that nothing stays alive by a *)
(* circle of members: in every set of living objects there is one that no  *)
(* other of the set holds.                                                 *)
(***************************************************************************)
NoCircle(S, hold) ==
  \A T \in SUBSET S : T # {} => \E o \in T : \A p \in T : o \notin hold[p]

\* A result about to be inserted is in no other local of its call.
ResultOwnedOnce ==
  \A t \in Thread : pc[t] = "insert" =>
    \A s \in Slot \ {"result"} : local[t][s] # local[t]["result"]

HeapInv ==
  /\ IsFiniteSet(alive) /\ live_bytes = Cardinality(alive \cap Storage)
  /\ NoCircle(alive, holds)
  /\ ResultOwnedOnce

\* What every successful computation of a call does: it builds finitely many
\* objects out of each other and of what its operands are and hold.
Builds(t, new, result, hold) ==
  /\ new \in SUBSET Object /\ IsFiniteSet(new) /\ result \in new
  /\ hold \in [new -> SUBSET Object] /\ NoCircle(new, hold)
  /\ \A n \in new : hold[n] \subseteq
       new \cup Operands(t) \cup UNION {holds[o] : o \in Operands(t)}
  /\ Construct(t, new, result, hold)

LEMMA ComputeBuilds ==
  ASSUME IInv, NEW t \in Thread,
         ComputeFresh(t) \/ ComputeView(t) \/ ComputeOptimizer(t)
  PROVE  /\ \E new, result, hold : Builds(t, new, result, hold)
         /\ local[t]["result"] = NoObject
         /\ Goto(t, "insert") /\ UNCHANGED <<next_handle, entries, call, doomed>>
<1>1. /\ pc[t] = "compute" /\ Goto(t, "insert")
      /\ UNCHANGED <<next_handle, entries, call, doomed>>
  BY DEF ComputeFresh, ComputeView, ComputeOptimizer, table
<1>2. local[t]["result"] = NoObject
  BY <1>1, ComputeFrame
<1>3. Operands(t) \in SUBSET Object
  BY OperandsPinned
<1>4. CASE ComputeFresh(t)
  <2>1. PICK x \in Tensor, s \in Storage, parents \in {{}, Operands(t)} :
          MakeTensor(t, x, s, parents)
    BY <1>4 DEF ComputeFresh
  <2> DEFINE new == {x, s}
             hold == [o \in new |-> IF o = x THEN {s} \cup parents ELSE {}]
  <2>2. IsFiniteSet(new)
    <3>1. new = {x} \cup {s}
      OBVIOUS
    <3>2. IsFiniteSet({x})
      BY FS_Singleton
    <3>3. QED
      BY <3>1, <3>2, FS_AddElement
  <2>3. x # s /\ new \in SUBSET Object /\ hold \in [new -> SUBSET Object]
    BY <1>3, ObjectAssumption DEF Object
  <2>4. new \cap Operands(t) = {}
    BY <2>1, OperandsPinned DEF MakeTensor, Construct, IInv, TypeOK
  <2>5. NoCircle(new, hold)
    <3> SUFFICES ASSUME NEW T \in SUBSET new, T # {}
                 PROVE  \E o \in T : \A p \in T : o \notin hold[p]
      BY DEF NoCircle
    <3>1. CASE x \in T
      <4>1. \A p \in T : x \notin hold[p]
        BY <2>1, <2>3, <2>4
      <4>2. QED
        BY <3>1, <4>1
    <3>2. CASE x \notin T
      BY <3>2
    <3>3. QED
      BY <3>1, <3>2
  <2>6. Construct(t, new, x, hold)
    BY <2>1 DEF MakeTensor
  <2>7. Builds(t, new, x, hold)
    BY <2>1, <2>2, <2>3, <2>5, <2>6 DEF Builds
  <2>8. QED
    BY <1>1, <1>2, <2>7
<1>5. CASE ComputeView(t)
  <2> DEFINE source == local[t]["left"]
  <2>1. PICK x \in Tensor, parents \in {{}, {source}} :
          Construct(t, {x}, x, [o \in {x} |-> StorageOf(source) \cup parents])
    BY <1>5 DEF ComputeView
  <2> DEFINE hold == [o \in {x} |-> StorageOf(source) \cup parents]
  <2>2. source \in Operands(t) /\ source \in alive /\ source \in Object
    BY <1>1, <1>5, ComputeFrame, OperandsPinned DEF ComputeView
  <2>3. StorageOf(source) \subseteq holds[source] /\ holds[source] \subseteq alive
    BY <2>2 DEF StorageOf, IInv, NoDanglingReference
  <2>4. x \notin alive
    BY <2>1 DEF Construct, IInv, TypeOK
  <2>5. NoCircle({x}, hold)
    BY <2>2, <2>3, <2>4 DEF NoCircle
  <2>6. hold \in [{x} -> SUBSET Object]
    BY <2>2, <2>3 DEF IInv, TypeOK
  <2>7. hold[x] \subseteq {x} \cup Operands(t) \cup UNION {holds[o] : o \in Operands(t)}
    BY <2>1, <2>2, <2>3
  <2>8. IsFiniteSet({x}) /\ {x} \in SUBSET Object
    BY FS_Singleton DEF Object
  <2>9. Builds(t, {x}, x, hold)
    BY <2>1, <2>5, <2>6, <2>7, <2>8 DEF Builds
  <2>10. QED
    BY <1>1, <1>2, <2>9
<1>6. CASE ComputeOptimizer(t)
  <2>1. PICK z \in Optimizer : Construct(t, {z}, z, [o \in {z} |-> Operands(t)])
    BY <1>6 DEF ComputeOptimizer
  <2> DEFINE hold == [o \in {z} |-> Operands(t)]
  <2>2. z \notin Operands(t)
    BY <2>1, OperandsPinned DEF Construct, IInv, TypeOK
  <2>3. NoCircle({z}, hold)
    BY <2>2 DEF NoCircle
  <2>4. IsFiniteSet({z}) /\ {z} \in SUBSET Object
    BY FS_Singleton DEF Object
  <2>5. Builds(t, {z}, z, hold)
    BY <1>3, <2>1, <2>3, <2>4 DEF Builds
  <2>6. QED
    BY <1>1, <1>2, <2>5
<1>7. QED
  BY <1>4, <1>5, <1>6
\* Built objects count once, and old objects cannot hold them.
LEMMA BuildsStep ==
  ASSUME IInv, HeapInv, NEW t \in Thread, NEW new, NEW result, NEW hold,
         Builds(t, new, result, hold), pc' = [pc EXCEPT ![t] = "insert"]
  PROVE  HeapInv'
<1> USE DEF IInv
<1>1. /\ new \in SUBSET Object /\ IsFiniteSet(new) /\ result \in new
      /\ hold \in [new -> SUBSET Object] /\ NoCircle(new, hold)
      /\ new \cap alive = {} /\ alive' = alive \cup new
      /\ holds' = [o \in Object |-> IF o \in new THEN hold[o] ELSE holds[o]]
      /\ local' = [local EXCEPT ![t]["result"] = result]
      /\ live_bytes' = live_bytes + StorageAdded(new)
  BY DEF Builds, Construct, TypeOK
<1>2. IsFiniteSet(alive')
  BY <1>1, FS_Union DEF HeapInv
<1>3. live_bytes' = Cardinality(alive' \cap Storage)
  <2> DEFINE old == alive \cap Storage
             more == new \cap Storage
  <2>1. IsFiniteSet(old) /\ IsFiniteSet(more)
    BY <1>1, FS_Intersection DEF HeapInv
  <2>2. old \cap more = {} /\ alive' \cap Storage = old \cup more
    BY <1>1
  <2> HIDE DEF old, more
  <2>3. Cardinality(old \cup more) =
          Cardinality(old) + Cardinality(more) - Cardinality(old \cap more)
    BY <2>1, FS_Union
  <2>4. /\ Cardinality(old \cap more) = 0
        /\ Cardinality(old) \in Nat /\ Cardinality(more) \in Nat
    BY <2>1, <2>2, FS_EmptySet, FS_CardinalityType
  <2>5. live_bytes' = Cardinality(old) + Cardinality(more)
    BY <1>1 DEF HeapInv, StorageAdded, old, more
  <2>6. alive' \cap Storage = old \cup more
    BY <2>2 DEF old, more
  <2>7. Cardinality(old \cup more) = Cardinality(old) + Cardinality(more)
    BY <2>3, <2>4
  <2>8. QED
    BY <2>5, <2>6, <2>7
<1>4. NoCircle(alive', holds')
  <2> SUFFICES ASSUME NEW T \in SUBSET alive', T # {}
               PROVE  \E o \in T : \A p \in T : o \notin holds'[p]
    BY DEF NoCircle
  <2>1. /\ \A p \in new : holds'[p] = hold[p]
        /\ \A p \in alive : holds'[p] = holds[p] /\ holds[p] \subseteq alive
    BY <1>1 DEF TypeOK, NoDanglingReference
  <2>2. CASE T \cap new = {}
    <3>1. T \in SUBSET alive
      BY <1>1, <2>2
    <3>2. PICK o \in T : \A p \in T : o \notin holds[p]
      BY <3>1 DEF HeapInv, NoCircle
    <3>3. QED
      BY <2>1, <3>1, <3>2
  <2>3. CASE T \cap new # {}
    <3>1. PICK o \in T \cap new : \A p \in T \cap new : o \notin hold[p]
      BY <1>1, <2>3 DEF NoCircle
    <3>2. \A p \in T : o \notin holds'[p]
      BY <1>1, <2>1, <3>1
    <3>3. QED
      BY <3>2
  <2>4. QED
    BY <2>2, <2>3
<1>5. ResultOwnedOnce'
  <2> SUFFICES ASSUME NEW u \in Thread, pc'[u] = "insert", NEW s \in Slot \ {"result"}
               PROVE  local'[u][s] # local'[u]["result"]
    BY DEF ResultOwnedOnce
  <2>1. CASE u = t
    <3>1. local'[t]["result"] = result /\ local'[t][s] = local[t][s]
      BY <1>1 DEF TypeOK, Slot
    <3>2. local[t][s] \in alive \cup {NoObject}
      BY DEF NoDanglingReference
    <3>3. QED
      BY <1>1, <2>1, <3>1, <3>2, ObjectAssumption
  <2>2. CASE u # t
    <3>1. local'[u] = local[u] /\ pc[u] = "insert"
      BY <1>1, <2>2 DEF TypeOK
    <3>2. QED
      BY <3>1 DEF HeapInv, ResultOwnedOnce
  <2>3. QED
    BY <2>1, <2>2
<1>6. QED
  BY <1>2, <1>3, <1>4, <1>5 DEF HeapInv

\* A destroyed object is uncounted, once.
LEMMA DestroyHeapStep ==
  ASSUME IInv, HeapInv, NEW t \in Thread, NEW o \in Object, Destroy(t, o)
  PROVE  HeapInv'
<1>1. /\ o \in alive /\ alive' = alive \ {o}
      /\ holds' = [holds EXCEPT ![o] = {}]
      /\ live_bytes' = live_bytes - (IF o \in Storage THEN 1 ELSE 0)
      /\ UNCHANGED <<pc, local>>
  BY DEF Destroy, IInv, DestroyedByOneThread
<1>2. IsFiniteSet(alive')
  BY <1>1, FS_RemoveElement DEF HeapInv
<1>3. live_bytes' = Cardinality(alive' \cap Storage)
  <2>1. IsFiniteSet(alive \cap Storage)
    BY FS_Intersection DEF HeapInv
  <2>2. alive' \cap Storage = (alive \cap Storage) \ {o}
    BY <1>1
  <2>3. Cardinality(alive \cap Storage) \in Nat
    BY <2>1, FS_CardinalityType
  <2>4. Cardinality((alive \cap Storage) \ {o}) =
          IF o \in alive \cap Storage THEN Cardinality(alive \cap Storage) - 1
                                      ELSE Cardinality(alive \cap Storage)
    BY <2>1, FS_RemoveElement
  <2>5. live_bytes = Cardinality(alive \cap Storage)
    BY DEF HeapInv
  <2>6. o \in alive \cap Storage <=> o \in Storage
    BY <1>1
  <2>7. live_bytes' = Cardinality((alive \cap Storage) \ {o})
    BY <1>1, <2>3, <2>4, <2>5, <2>6
  <2>8. QED
    BY <2>2, <2>7
<1>4. NoCircle(alive', holds')
  <2>1. \A p \in alive' : p \in alive /\ holds'[p] = holds[p]
    BY <1>1 DEF IInv, TypeOK
  <2>2. QED
    BY <1>1, <2>1 DEF HeapInv, NoCircle
<1>5. ResultOwnedOnce'
  BY <1>1 DEF HeapInv, ResultOwnedOnce
<1>6. QED
  BY <1>2, <1>3, <1>4, <1>5 DEF HeapInv

\* Every other step leaves the heap alone, and the frame of a call that is
\* about to insert.
LEMMA HeapKeptStep ==
  ASSUME IInv, HeapInv, NEW t \in Thread,
         UNCHANGED heap,
         pc' = pc \/ \E step \in Step \ {"insert"} : Goto(t, step),
         \A u \in Thread : u # t \/ pc'[t] = "insert" => local'[u] = local[u]
  PROVE  HeapInv'
<1>1. ResultOwnedOnce'
  <2> SUFFICES ASSUME NEW u \in Thread, pc'[u] = "insert", NEW s \in Slot \ {"result"}
               PROVE  local'[u][s] # local'[u]["result"]
    BY DEF ResultOwnedOnce
  <2>1. pc[u] = "insert" /\ local'[u] = local[u]
    BY DEF IInv, TypeOK, Goto
  <2>2. QED
    BY <2>1 DEF HeapInv, ResultOwnedOnce
<1>2. QED
  BY <1>1 DEF HeapInv, heap

LEMMA HeapInvStep == IInv /\ HeapInv /\ [Next]_vars => HeapInv'
<1> SUFFICES ASSUME IInv, HeapInv, [Next]_vars PROVE HeapInv'
  OBVIOUS
<1>1. CASE UNCHANGED vars
  BY <1>1 DEF HeapInv, ResultOwnedOnce, vars
<1>2. ASSUME NEW t \in Thread,
             ComputeFresh(t) \/ ComputeView(t) \/ ComputeOptimizer(t)
      PROVE  HeapInv'
  <2>1. PICK new, result, hold : Builds(t, new, result, hold)
    BY <1>2, ComputeBuilds
  <2>2. pc' = [pc EXCEPT ![t] = "insert"]
    BY <1>2, ComputeBuilds DEF Goto
  <2>3. QED
    BY <2>1, <2>2, BuildsStep
<1>3. ASSUME NEW t \in Thread, Start(t) PROVE HeapInv'
  <2>1. UNCHANGED heap
    BY <1>3 DEF Start, BeginFull, LookupLeft, Retain, Release, heap
  <2>2. pc[t] = "idle"
    BY <1>3 DEF Start, BeginFull, LookupLeft, Retain, Release
  <2>3. pc' = pc \/ \E step \in Step \ {"insert"} : Goto(t, step)
    BY <1>3 DEF Start, BeginFull, LookupLeft, Retain, Release, ToReturn, Step
  <2>4. \A u \in Thread : u # t \/ pc'[t] = "insert" => local'[u] = local[u]
    BY <1>3, <2>2, <2>3 DEF Start, BeginFull, LookupLeft, Lookup, Retain, Release,
         IInv, TypeOK, Goto
  <2>5. QED
    BY <2>1, <2>3, <2>4, HeapKeptStep
<1>4. ASSUME NEW t \in Thread,
             \/ LookupRight(t) \/ Insert(t) \/ InsertFails(t) \/ ComputeStep(t)
             \/ ComputeFails(t) \/ Return(t) \/ \E slot \in Slot : DropLocal(t, slot)
      PROVE  HeapInv'
  <2>1. UNCHANGED heap
    BY <1>4 DEF LookupRight, Insert, InsertFails, ComputeStep, ComputeFails, Return,
         DropLocal, heap
  <2>2. pc' = pc \/ \E step \in Step \ {"insert"} : Goto(t, step)
    BY <1>4 DEF LookupRight, Insert, InsertFails, ComputeStep, ComputeFails, Return,
         DropLocal, ToReturn, Step
  <2>3. \A u \in Thread : u # t => local'[u] = local[u]
    BY <1>4 DEF LookupRight, Lookup, Insert, InsertFails, ComputeStep, ComputeFails,
         Return, DropLocal, IInv, TypeOK
  <2>4. pc'[t] # "insert"
    BY <1>4 DEF LookupRight, Insert, InsertFails, ComputeStep, ComputeFails, Return,
         DropLocal, ToReturn, Goto, IInv, TypeOK
  <2>5. QED
    BY <2>1, <2>2, <2>3, <2>4, HeapKeptStep
<1>5. QED
  BY <1>1, <1>2, <1>3, <1>4, DestroyHeapStep DEF Next, Run

THEOREM HeapInvariance == Spec => []HeapInv
<1>1. Init => HeapInv
  <2>1. {} \cap Storage = {}
    OBVIOUS
  <2>2. QED
    BY <2>1, FS_EmptySet DEF Init, HeapInv, NoCircle, ResultOwnedOnce
<1>2. QED
  BY Invariance, <1>1, HeapInvStep, PTL DEF Spec

\* live_bytes_ counts the storages alive, and is back at its baseline when the
\* last handle is released and no call is in flight: the counts of members hold
\* no circle that would keep an unreachable object alive.
THEOREM LiveBytesAreExact == Spec => []LiveBytesExact
<1>1. IInv /\ HeapInv => LiveBytesExact
  <2> SUFFICES ASSUME IInv, HeapInv, DOMAIN entries = {},
                      \A t \in Thread : pc[t] = "idle"
               PROVE  alive = {}
    BY FS_EmptySet DEF HeapInv, LiveBytesExact
  <2>1. \A t \in Thread : local[t] = EmptyFrame /\ doomed[t] = {}
    BY DEF IInv, FrameInv
  <2>2. SUFFICES ASSUME alive # {} PROVE FALSE
    OBVIOUS
  <2>3. PICK o \in alive : \A p \in alive : o \notin holds[p]
    BY <2>2 DEF HeapInv, NoCircle
  <2>4. o \in Object /\ o # NoObject
    BY ObjectAssumption DEF IInv, TypeOK
  <2>5. PICK r \in Ref : r \in owners[o]
    BY <2>1, <2>4 DEF IInv, NoLeak, TypeOK
  <2>6. \/ \E h \in Handle : r = EntryRef(h)
        \/ \E t \in Thread, s \in Slot : r = LocalRef(t, s)
        \/ \E p \in Object : r = MemberRef(p)
    BY RefsDiffer
  <2>7. QED
    BY <2>1, <2>3, <2>4, <2>5, <2>6 DEF IInv, OwnersExact, EmptyFrame
<1>2. QED
  BY Invariance, HeapInvariance, <1>1, PTL

-----------------------------------------------------------------------------
(***************************************************************************)
(* The refinement of ObjectLifetime: one step lemma for each group of      *)
(* actions.                                                                *)
(***************************************************************************)

\* The values the mapping gives to the abstract variables.
Bound == [h \in DOMAIN entries |-> entries[h].object]
Used(frames) == {<<r[1], frames[r[1]][r[2]]>> :
                   r \in {q \in Thread \X Slot : frames[q[1]][q[2]] # NoObject}}
Using == Used(local)
Frames == [Thread -> [Slot -> Object \cup {NoObject}]]

Stutters == Bound' = Bound /\ Using' = Using /\ UNCHANGED <<next_handle, holds, alive>>

\* A thread uses an object when one of its locals holds it.
LEMMA UsedMeans ==
  ASSUME NEW f \in Frames
  PROVE  /\ \A u \in Used(f) : \E t \in Thread, o \in Object : u = <<t, o>>
         /\ \A t \in Thread, o \in Object :
              <<t, o>> \in Used(f) <=> \E s \in Slot : f[t][s] = o
<1>1. \A t \in Thread, s \in Slot : f[t][s] \in Object \cup {NoObject}
  BY DEF Frames
<1>2. \A u \in Used(f) : \E t \in Thread, o \in Object : u = <<t, o>>
  BY <1>1 DEF Used
<1>3. ASSUME NEW t \in Thread, NEW o \in Object
      PROVE  <<t, o>> \in Used(f) <=> \E s \in Slot : f[t][s] = o
  <2>1. ASSUME NEW s \in Slot, f[t][s] = o PROVE <<t, o>> \in Used(f)
    <3>1. <<t, s>> \in {q \in Thread \X Slot : f[q[1]][q[2]] # NoObject}
      BY <2>1, ObjectAssumption
    <3>2. <<t, o>> = <<<<t, s>>[1], f[<<t, s>>[1]][<<t, s>>[2]]>>
      BY <2>1
    <3>3. QED
      BY <3>1, <3>2 DEF Used
  <2>2. ASSUME <<t, o>> \in Used(f) PROVE \E s \in Slot : f[t][s] = o
    BY <2>2 DEF Used
  <2>3. QED
    BY <2>1, <2>2
<1>4. QED
  BY <1>2, <1>3

\* g is f but for one local, which has become o.
Differ(f, g, t, slot, o) ==
  \A v \in Thread, s \in Slot : g[v][s] = IF v = t /\ s = slot THEN o ELSE f[v][s]

\* Filling a null local with o adds one use.
LEMMA FillSlot ==
  ASSUME NEW f \in Frames, NEW g \in Frames,
         NEW t \in Thread, NEW slot \in Slot, NEW o \in Object,
         f[t][slot] = NoObject, Differ(f, g, t, slot, o)
  PROVE  Used(g) = Used(f) \cup {<<t, o>>}
<1>1. g \in Frames
  OBVIOUS
<1>2. \A v \in Thread, s \in Slot :
        g[v][s] = IF v = t /\ s = slot THEN o ELSE f[v][s]
  BY DEF Differ
<1>3. \A v \in Thread, p \in Object :
        <<v, p>> \in Used(g) <=> <<v, p>> \in Used(f) \/ (v = t /\ p = o)
  <2> SUFFICES ASSUME NEW v \in Thread, NEW p \in Object
               PROVE  <<v, p>> \in Used(g) <=>
                        <<v, p>> \in Used(f) \/ (v = t /\ p = o)
    OBVIOUS
  <2>1. /\ <<v, p>> \in Used(g) <=> \E s \in Slot : g[v][s] = p
        /\ <<v, p>> \in Used(f) <=> \E s \in Slot : f[v][s] = p
    BY <1>1, UsedMeans
  <2>2. (\E s \in Slot : g[v][s] = p) <=>
          (\E s \in Slot : f[v][s] = p) \/ (v = t /\ p = o)
    BY <1>2, ObjectAssumption
  <2>3. QED
    BY <2>1, <2>2
<1>4. \A u \in Used(g) \cup Used(f) \cup {<<t, o>>} :
        \E v \in Thread, p \in Object : u = <<v, p>>
  BY <1>1, UsedMeans
<1>5. QED
  BY <1>3, <1>4

\* Another local of the call holds o as well.
Elsewhere(f, t, slot, o) == \E s \in Slot \ {slot} : f[t][s] = o

\* Emptying a local ends a use, unless another local of the call holds the object.
LEMMA EmptySlot ==
  ASSUME NEW f \in Frames, NEW g \in Frames,
         NEW t \in Thread, NEW slot \in Slot, NEW o \in Object,
         f[t][slot] = o, Differ(f, g, t, slot, NoObject)
  PROVE  /\ Elsewhere(f, t, slot, o) => Used(g) = Used(f)
         /\ ~Elsewhere(f, t, slot, o) => Used(g) = Used(f) \ {<<t, o>>}
<1> USE DEF Elsewhere
<1>1. g \in Frames
  OBVIOUS
<1>2. \A v \in Thread, s \in Slot :
        g[v][s] = IF v = t /\ s = slot THEN NoObject ELSE f[v][s]
  BY DEF Differ
<1>3. \A v \in Thread, p \in Object : (v # t \/ p # o) =>
        (<<v, p>> \in Used(g) <=> <<v, p>> \in Used(f))
  BY <1>1, <1>2, UsedMeans, ObjectAssumption
<1>4. <<t, o>> \in Used(g) <=> \E s \in Slot \ {slot} : f[t][s] = o
  BY <1>1, <1>2, UsedMeans, ObjectAssumption
<1>5. <<t, o>> \in Used(f)
  BY UsedMeans
<1>6. CASE \E s \in Slot \ {slot} : f[t][s] = o
  <2> DEFINE all == Used(g) \cup Used(f)
  <2>1. \A u \in all : \E v \in Thread, p \in Object : u = <<v, p>>
    BY <1>1, UsedMeans
  <2>2. \A v \in Thread, p \in Object : <<v, p>> \in Used(g) <=> <<v, p>> \in Used(f)
    BY <1>3, <1>4, <1>5, <1>6
  <2>3. Used(g) = Used(f)
    BY <2>1, <2>2
  <2>4. QED
    BY <1>6, <2>3
<1>7. CASE ~\E s \in Slot \ {slot} : f[t][s] = o
  <2>1. Used(g) = Used(f) \ {<<t, o>>}
    BY <1>1, <1>3, <1>4, <1>7, UsedMeans
  <2>2. QED
    BY <1>7, <2>1
<1>8. QED
  BY <1>6, <1>7

LEMMA LocalFrames == IInv => local \in Frames
BY DEF IInv, TypeOK, Frames

LEMMA OneLocal ==
  ASSUME IInv, NEW t \in Thread, NEW slot \in Slot, NEW o \in Object \cup {NoObject},
         local' = [local EXCEPT ![t][slot] = o]
  PROVE  local' \in Frames /\ Differ(local, local', t, slot, o)
BY DEF IInv, TypeOK, Frames, Differ

LEMMA UsingGrows ==
  ASSUME IInv, NEW t \in Thread, NEW slot \in Slot, NEW o \in Object,
         local[t][slot] = NoObject, local' = [local EXCEPT ![t][slot] = o]
  PROVE  Using' = Using \cup {<<t, o>>}
<1>1. local \in Frames /\ local' \in Frames /\ Differ(local, local', t, slot, o)
  BY LocalFrames, OneLocal
<1>2. Used(local') = Used(local) \cup {<<t, o>>}
  BY <1>1, FillSlot
<1>3. QED
  BY <1>2 DEF Using

LEMMA UsingShrinks ==
  ASSUME IInv, NEW t \in Thread, NEW slot \in Slot, NEW o \in Object,
         local[t][slot] = o, local' = [local EXCEPT ![t][slot] = NoObject]
  PROVE  /\ Elsewhere(local, t, slot, o) => Using' = Using
         /\ ~Elsewhere(local, t, slot, o) => Using' = Using \ {<<t, o>>}
<1>1. local \in Frames /\ local' \in Frames /\ Differ(local, local', t, slot, NoObject)
  BY LocalFrames, OneLocal
<1>2. /\ Elsewhere(local, t, slot, o) => Used(local') = Used(local)
      /\ ~Elsewhere(local, t, slot, o) => Used(local') = Used(local) \ {<<t, o>>}
  <2>1. PICK f, g : f = local /\ g = local'
    OBVIOUS
  <2>2. f \in Frames /\ g \in Frames /\ f[t][slot] = o /\ Differ(f, g, t, slot, NoObject)
    BY <1>1, <2>1
  <2>3. /\ Elsewhere(f, t, slot, o) => Used(g) = Used(f)
        /\ ~Elsewhere(f, t, slot, o) => Used(g) = Used(f) \ {<<t, o>>}
    BY <2>2, EmptySlot, SMTT(60)
  <2>4. QED
    BY <2>1, <2>3
<1>3. QED
  BY <1>2 DEF Using

\* What a call holds, and what that holds, is reachable.
LEMMA OperandsReachable ==
  ASSUME IInv, NEW t \in Thread, NEW o \in Operands(t)
  PROVE  o \in Lifetime!Reachable /\ holds[o] \subseteq Lifetime!Reachable
<1>1. o \in Object /\ holds[o] \subseteq Object
  BY OperandsPinned DEF IInv, TypeOK
<1>2. <<t, o>> \in Used(local)
  BY <1>1, UsedMeans, LocalFrames DEF Operands, Slot
<1>3. o \in {u[2] : u \in Used(local)}
  <2>1. <<t, o>>[2] = o
    OBVIOUS
  <2>2. QED
    BY <1>2, <2>1
<1>4. o \in Lifetime!Roots
  BY <1>3 DEF Lifetime!Roots, Used
<1>5. QED
  BY <1>1, <1>4 DEF Lifetime!Reachable

\* A destroyed object is held by nobody, so it is unreachable.
LEMMA DoomedUnreachable ==
  ASSUME IInv, NEW t \in Thread, NEW o \in doomed[t]
  PROVE  o \notin Lifetime!Reachable
<1> USE DEF IInv
<1>1. o \in alive /\ o \in Object /\ owners[o] = {}
  BY DEF DestroyedByOneThread, TypeOK
<1>2. /\ \A h \in DOMAIN entries : entries[h].object # o
      /\ \A u \in Thread, s \in Slot : local[u][s] # o
      /\ \A p \in alive : o \notin holds[p]
  BY <1>1 DEF OwnersExact, TypeOK
<1> DEFINE S == alive \ {o}
<1>3. S \in SUBSET Object
  BY DEF TypeOK
<1>4. Lifetime!Roots \subseteq S
  <2>1. \A h \in DOMAIN entries : Bound[h] \in S
    BY <1>2 DEF Bound, NoDanglingReference
  <2>2. \A u \in Using : u[2] \in S
    <3> SUFFICES ASSUME NEW u \in Using PROVE u[2] \in S
      OBVIOUS
    <3>1. PICK v \in Thread, p \in Object : u = <<v, p>>
      BY UsedMeans, LocalFrames DEF Using
    <3>2. PICK s \in Slot : local[v][s] = p
      BY <3>1, UsedMeans, LocalFrames DEF Using
    <3>3. p \in alive /\ p # o
      BY <1>2, <3>2, ObjectAssumption DEF NoDanglingReference
    <3>4. QED
      BY <3>1, <3>3
  <2>3. QED
    BY <2>1, <2>2 DEF Lifetime!Roots, Bound, Using, Used
<1>5. \A p \in S : holds[p] \subseteq S
  BY <1>2 DEF NoDanglingReference
<1>6. QED
  BY <1>3, <1>4, <1>5 DEF Lifetime!Reachable

LEMMA StuttersRefine == Stutters => UNCHANGED Lifetime!avars
BY DEF Stutters, Bound, Using, Used, Lifetime!avars

LEMMA InitRefines == Init => Lifetime!Init
<1> SUFFICES ASSUME Init PROVE Lifetime!Init
  OBVIOUS
<1>1. Bound = [h \in {} |-> h]
  BY DEF Init, Bound
<1>2. Using = {}
  BY DEF Init, Using, Used, EmptyFrame
<1>3. 1 .. (next_handle - 1) = {}
  BY DEF Init
<1>4. QED
  BY <1>1, <1>2, <1>3 DEF Init, Lifetime!Init, Bound, Using, Used

\* The steps on one handle are abstract steps.
LEMMA HandleSteps ==
  ASSUME NEW t \in Thread, NEW h \in Handle,
         Lifetime!Issue(t, h) \/ Lifetime!Acquire(t, h) \/ Lifetime!Retire(t, h)
           \/ Lifetime!Burn(h)
  PROVE  Lifetime!Next
BY DEF Lifetime!Next

\* Lookup acquires the object of a live handle.
LEMMA LookupRefines ==
  ASSUME IInv, NEW t \in Thread, NEW h \in DOMAIN entries, NEW slot \in Slot,
         local[t][slot] = NoObject, Lookup(t, h, slot), UNCHANGED <<table, heap>>
  PROVE  Lifetime!Next
<1>1. h \in Handle /\ entries[h].object \in Object
  BY DEF IInv, TypeOK, Entry
<1> DEFINE o == entries[h].object
<1>2. Using' = Using \cup {<<t, Bound[h]>>}
  <2>1. local' = [local EXCEPT ![t][slot] = o] /\ Bound[h] = o
    BY DEF Lookup, Bound
  <2>2. Using' = Using \cup {<<t, o>>}
    BY <1>1, <2>1, UsingGrows
  <2>3. QED
    BY <2>1, <2>2
<1>3. Bound' = Bound /\ UNCHANGED <<next_handle, holds, alive>> /\ h \in DOMAIN Bound
  BY DEF table, heap, Bound
<1>4. Lifetime!Acquire(t, h)
  BY <1>2, <1>3 DEF Lifetime!Acquire, Using, Used, Bound
<1>5. QED
  BY <1>1, <1>4, HandleSteps

\* Taking an identifier issues that one and no other.
LEMMA NextIssued ==
  ASSUME TypeOK, next_handle # MaxHandle, next_handle' = next_handle + 1
  PROVE  /\ next_handle \in Handle /\ next_handle \notin 1 .. (next_handle - 1)
         /\ 1 .. (next_handle' - 1) = 1 .. (next_handle - 1) \cup {next_handle}
<1>1. next_handle \in 1 .. MaxHandle /\ MaxHandle \in Nat
  BY BoundAssumption DEF TypeOK
<1>2. next_handle \in Handle /\ next_handle \notin 1 .. (next_handle - 1)
  BY <1>1 DEF Handle
<1>3. next_handle' - 1 = next_handle
  BY <1>1
<1>4. 1 .. next_handle = 1 .. (next_handle - 1) \cup {next_handle}
  BY <1>1
<1>5. QED
  BY <1>2, <1>3, <1>4

\* Insert names the result, which leaves the frame of the call.
LEMMA InsertRefines ==
  ASSUME IInv, HeapInv, NEW t \in Thread, Insert(t)
  PROVE  Lifetime!Next
<1> DEFINE o == local[t]["result"]
<1>0. PICK h \in Nat : h = next_handle
  BY DEF IInv, TypeOK
<1>1. /\ pc[t] = "insert" /\ h # MaxHandle
      /\ next_handle' = next_handle + 1
      /\ DOMAIN entries' = DOMAIN entries \cup {h}
      /\ \A k \in DOMAIN entries' :
           entries'[k].object = IF k = h THEN o ELSE entries[k].object
      /\ local' = [local EXCEPT ![t]["result"] = NoObject]
      /\ UNCHANGED <<alive, holds>>
  BY <1>0 DEF Insert, ValidateNextHandle, FreshHandle, heap
<1>2. h \in Handle /\ h \notin 1 .. (h - 1) /\ 1 .. (next_handle' - 1) = 1 .. (h - 1) \cup {h}
  BY <1>0, <1>1, NextIssued DEF IInv
<1>3. o \in Object /\ ~Elsewhere(local, t, "result", o)
  BY <1>1 DEF Elsewhere, HeapInv, ResultOwnedOnce, IInv, FrameInv, TypeOK, Slot
<1>4. <<t, o>> \in Using
  BY <1>3, UsedMeans, LocalFrames DEF Using, Slot
<1>5. Using' = Using \ {<<t, o>>}
  <2>1. "result" \in Slot
    BY DEF Slot
  <2>2. QED
    BY <1>1, <1>3, <2>1, UsingShrinks
<1>6. Bound' = [k \in DOMAIN Bound \cup {h} |-> IF k = h THEN o ELSE Bound[k]]
  BY <1>1 DEF Bound
<1>7. Lifetime!Issue(t, h)
  BY <1>0, <1>1, <1>2, <1>3, <1>4, <1>5, <1>6 DEF Lifetime!Issue, Using, Used, Bound
<1>8. QED
  BY <1>2, <1>7, HandleSteps

\* A refused Insert consumes the identifier or nothing.
LEMMA InsertFailsRefines ==
  ASSUME IInv, NEW t \in Thread, InsertFails(t)
  PROVE  [Lifetime!Next]_(Lifetime!avars)
<1>1. UNCHANGED <<entries, holds, alive, local>>
  BY DEF InsertFails, heap
<1>2. Bound' = Bound /\ Using' = Using
  BY <1>1 DEF Bound, Using, Used
<1>3. CASE UNCHANGED next_handle
  BY <1>1, <1>2, <1>3, StuttersRefine DEF Stutters
<1>4. CASE next_handle # MaxHandle /\ next_handle' = next_handle + 1
  <2>1. /\ next_handle \in Handle /\ next_handle \notin 1 .. (next_handle - 1)
        /\ 1 .. (next_handle' - 1) = 1 .. (next_handle - 1) \cup {next_handle}
    BY <1>4, NextIssued DEF IInv
  <2>2. Lifetime!Burn(next_handle)
    BY <1>1, <1>2, <2>1 DEF Lifetime!Burn, Using, Used, Bound
  <2>3. QED
    BY <2>1, <2>2, HandleSteps
<1>5. QED
  BY <1>3, <1>4 DEF InsertFails, ValidateNextHandle

\* The last Release retires the handle and keeps the object in use until the
\* call returns; the others are invisible to clients, as Retain is.
LEMMA CountRefines ==
  ASSUME IInv, NEW t \in Thread, NEW h \in Argument,
         Retain(t, h) \/ \E type \in HandleType : Release(t, h, type)
  PROVE  [Lifetime!Next]_(Lifetime!avars)
<1>1. /\ h \in DOMAIN entries /\ h \in Handle /\ entries[h] \in Entry
      /\ entries[h].object \in Object
      /\ UNCHANGED <<next_handle, holds, alive>>
  BY DEF Retain, Release, Valid, heap, IInv, TypeOK, Entry
<1>2. CASE local' = local /\ \E n \in Nat : entries' = [entries EXCEPT ![h].refs = n]
  <2>1. Bound' = Bound /\ Using' = Using
    BY <1>1, <1>2 DEF Bound, Using, Used, Entry
  <2>2. QED
    BY <1>1, <2>1, StuttersRefine DEF Stutters
<1>3. CASE /\ entries' = [k \in DOMAIN entries \ {h} |-> entries[k]]
           /\ local' = [local EXCEPT ![t]["retired"] = entries[h].object]
           /\ pc[t] = "idle"
  <2>1. local[t]["retired"] = NoObject
    BY <1>3 DEF IInv, FrameInv
  <2>2. Using' = Using \cup {<<t, Bound[h]>>}
    <3>1. "retired" \in Slot /\ Bound[h] = entries[h].object
      BY <1>1 DEF Slot, Bound
    <3>2. Using' = Using \cup {<<t, entries[h].object>>}
      BY <1>1, <1>3, <2>1, <3>1, UsingGrows
    <3>3. QED
      BY <3>1, <3>2
  <2>3. Bound' = [k \in DOMAIN Bound \ {h} |-> Bound[k]] /\ h \in DOMAIN Bound
    BY <1>1, <1>3 DEF Bound
  <2>4. Lifetime!Retire(t, h)
    BY <1>1, <2>2, <2>3 DEF Lifetime!Retire, Using, Used, Bound
  <2>5. QED
    BY <1>1, <2>4, HandleSteps
<1>4. QED
  <2>1. CASE Retain(t, h)
    <3>1. entries[h].refs + 1 \in Nat
      BY <1>1, BoundAssumption DEF Entry
    <3>2. local' = local /\ entries' = [entries EXCEPT ![h].refs = entries[h].refs + 1]
      BY <2>1 DEF Retain
    <3>3. QED
      BY <1>2, <3>1, <3>2
  <2>2. ASSUME NEW type \in HandleType, Release(t, h, type), entries[h].refs # 1
        PROVE  [Lifetime!Next]_(Lifetime!avars)
    <3>1. entries[h].refs - 1 \in Nat
      BY <1>1, BoundAssumption DEF Entry
    <3>2. local' = local /\ entries' = [entries EXCEPT ![h].refs = entries[h].refs - 1]
      BY <2>2 DEF Release
    <3>3. QED
      BY <1>2, <3>1, <3>2
  <2>3. ASSUME NEW type \in HandleType, Release(t, h, type), entries[h].refs = 1
        PROVE  [Lifetime!Next]_(Lifetime!avars)
    BY <1>3, <2>3 DEF Release
  <2>4. QED
    BY <2>1, <2>2, <2>3

\* A computation creates objects out of what its operands reach.
LEMMA BuildsRefines ==
  ASSUME IInv, NEW t \in Thread, NEW new, NEW result, NEW hold,
         Builds(t, new, result, hold), local[t]["result"] = NoObject,
         UNCHANGED <<next_handle, entries>>
  PROVE  Lifetime!Next
<1>1. /\ new \in SUBSET Object /\ result \in new /\ result \in Object
      /\ new \cap alive = {} /\ alive' = alive \cup new
      /\ holds' = [o \in Object |-> IF o \in new THEN hold[o] ELSE holds[o]]
      /\ local' = [local EXCEPT ![t]["result"] = result]
  BY DEF Builds, Construct, IInv, TypeOK
<1>2. alive' \ alive = new
  BY <1>1
<1>3. Using' = Using \cup {<<t, result>>}
  <2>1. "result" \in Slot
    BY DEF Slot
  <2>2. QED
    BY <1>1, <2>1, UsingGrows
<1>4. \A n \in new : hold[n] \subseteq new \cup Lifetime!Reachable
  BY OperandsReachable DEF Builds
<1>5. \A n \in new : holds'[n] = hold[n]
  BY <1>1
<1>6. holds' = [o \in Object |-> IF o \in new THEN holds'[o] ELSE holds[o]]
  BY <1>1, <1>5
<1>7. Bound' = Bound
  BY DEF Bound
<1> HIDE DEF IInv, Builds
<1>8. /\ \E r \in new : Using' = Using \cup {<<t, r>>}
      /\ \A n \in new : holds'[n] \subseteq new \cup Lifetime!Reachable
      /\ alive \subseteq alive' /\ new \subseteq Object
  BY <1>1, <1>3, <1>4, <1>5
<1>9. Lifetime!Create(t)
  BY <1>2, <1>6, <1>7, <1>8 DEF Lifetime!Create, Using, Used, Bound
<1>10. QED
  BY <1>9 DEF Lifetime!Next

\* On the way out a call lets go of its objects, and an unreachable one is
\* reclaimed.
LEMMA LeaveRefines ==
  ASSUME IInv, NEW t \in Thread,
         (\E slot \in Slot : DropLocal(t, slot)) \/ \E o \in Object : Destroy(t, o)
  PROVE  [Lifetime!Next]_(Lifetime!avars)
<1>1. ASSUME NEW slot \in Slot, DropLocal(t, slot)
      PROVE  [Lifetime!Next]_(Lifetime!avars)
  <2>0. PICK o \in Object : o = local[t][slot]
    BY <1>1 DEF DropLocal, IInv, TypeOK
  <2>1. /\ local' = [local EXCEPT ![t][slot] = NoObject]
        /\ UNCHANGED <<next_handle, entries, holds, alive>>
    BY <1>1 DEF DropLocal, table, heap
  <2>2. Bound' = Bound
    BY <2>1 DEF Bound
  <2>3. CASE Using' = Using
    BY <2>1, <2>2, <2>3, StuttersRefine DEF Stutters
  <2>4. CASE Using' = Using \ {<<t, o>>}
    <3>1. <<t, o>> \in Using
      BY <2>0, UsedMeans, LocalFrames DEF Using
    <3>2. Lifetime!LetGo(t, o)
      BY <2>1, <2>2, <2>4, <3>1 DEF Lifetime!LetGo, Using, Used, Bound
    <3>3. QED
      BY <2>1, <3>2 DEF Lifetime!Next
  <2>5. Using' = Using \/ Using' = Using \ {<<t, o>>}
    BY <2>0, <2>1, UsingShrinks
  <2>6. QED
    BY <2>3, <2>4, <2>5
<1>2. ASSUME NEW o \in Object, Destroy(t, o)
      PROVE  Lifetime!Next
  <2>1. /\ o \in doomed[t] /\ alive' = alive \ {o}
        /\ holds' = [holds EXCEPT ![o] = {}]
        /\ UNCHANGED <<next_handle, entries, local>>
    BY <1>2 DEF Destroy, table
  <2>2. o \in alive /\ o \notin Lifetime!Reachable
    BY <2>1, DoomedUnreachable DEF IInv, DestroyedByOneThread
  <2>3. Bound' = Bound /\ Using' = Using
    BY <2>1 DEF Bound, Using, Used
  <2>4. Lifetime!Reclaim(o)
    BY <2>1, <2>2, <2>3 DEF Lifetime!Reclaim, Using, Used, Bound
  <2>5. QED
    BY <2>4 DEF Lifetime!Next
<1>3. QED
  BY <1>1, <1>2

LEMMA StepRefines == IInv /\ HeapInv /\ [Next]_vars => [Lifetime!Next]_(Lifetime!avars)
<1> SUFFICES ASSUME IInv, HeapInv, [Next]_vars
             PROVE  [Lifetime!Next]_(Lifetime!avars)
  OBVIOUS
<1>1. CASE UNCHANGED <<next_handle, entries, holds, alive, local>>
  BY <1>1, StuttersRefine DEF Stutters, Bound, Using, Used
<1>2. ASSUME NEW t \in Thread, NEW op \in Unary \cup Binary,
             NEW left \in Argument, NEW right \in Argument,
             LookupLeft(t, op, left, right)
      PROVE  Lifetime!Next
  <2>1. local[t]["left"] = NoObject
    BY <1>2 DEF LookupLeft, IInv, FrameInv, EmptyFrame, Slot
  <2>2. QED
    BY <1>2, <2>1, LookupRefines DEF LookupLeft, Valid, Slot
<1>3. ASSUME NEW t \in Thread, LookupRight(t)
      PROVE  [Lifetime!Next]_(Lifetime!avars)
  <2>1. local[t]["right"] = NoObject
    BY <1>3 DEF LookupRight, IInv, FrameInv
  <2>2. CASE Valid(call[t].right, ExpectedType(call[t].op))
    BY <1>3, <2>1, <2>2, LookupRefines DEF LookupRight, Valid, Slot
  <2>3. CASE ~Valid(call[t].right, ExpectedType(call[t].op))
    BY <1>1, <1>3, <2>3 DEF LookupRight, table, heap
  <2>4. QED
    BY <2>2, <2>3
<1>4. ASSUME NEW t \in Thread,
             ComputeFresh(t) \/ ComputeView(t) \/ ComputeOptimizer(t)
      PROVE  Lifetime!Next
  <2>1. PICK new, result, hold : Builds(t, new, result, hold)
    BY <1>4, ComputeBuilds
  <2>2. QED
    BY <1>4, <2>1, ComputeBuilds, BuildsRefines
<1>5. ASSUME NEW t \in Thread, Start(t)
      PROVE  [Lifetime!Next]_(Lifetime!avars)
  <2>1. CASE BeginFull(t)
    BY <1>1, <2>1 DEF BeginFull, table, heap
  <2>2. QED
    BY <1>2, <1>5, <2>1, CountRefines DEF Start
<1>6. ASSUME NEW t \in Thread, Run(t)
      PROVE  [Lifetime!Next]_(Lifetime!avars)
  <2>1. CASE ComputeStep(t) \/ ComputeFails(t) \/ Return(t)
    BY <1>1, <2>1 DEF ComputeStep, ComputeFails, Return, table, heap
  <2>2. QED
    BY <1>3, <1>4, <1>6, <2>1, InsertRefines, InsertFailsRefines, LeaveRefines DEF Run
<1>7. QED
  BY <1>1, <1>5, <1>6 DEF Next, vars

\* The table, its counts and the destructors that run outside its mutex give
\* clients the lifetime they are promised: a handle names one object from its
\* issue to its retirement, and what a handle, a call in flight or another
\* object can reach is never reclaimed.
THEOREM LifetimeIsKept == Spec => ImplementsLifetime
  BY Invariance, HeapInvariance, InitRefines, StepRefines, PTL
  DEF Spec, ImplementsLifetime, Lifetime!Spec
=============================================================================
