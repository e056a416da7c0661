--------------------------- MODULE HandleRegistry ---------------------------
(***************************************************************************)
(* The native handle registry of Tensora and the lifetime of the objects   *)
(* its handles name (native/src/runtime/handle_registry.{h,cc}), driven by *)
(* the C entry points that use it (native/src/c_api.cc, nn_v2_optimizer.h).*)
(*                                                                         *)
(* Every access to the table happens inside one std::mutex, so the body of *)
(* Insert, Retain, Release and Lookup is one action.  Everything else a    *)
(* call does runs after the mutex is released: it reads the objects it     *)
(* looked up, builds its result and, when its locals go out of scope,      *)
(* drops shared_ptrs and runs destructors.  Threads interleave there.      *)
(*                                                                         *)
(* A shared_ptr's strong count is modelled by the set of its owners: the   *)
(* locations (a table entry, a local of a call, a member of an object)     *)
(* that hold a counted reference to the object.  The count is its          *)
(* cardinality; an object is destroyed by whoever empties the set.         *)
(***************************************************************************)
EXTENDS Integers, FiniteSets

CONSTANTS
  Thread,      \* threads that call the C ABI
  Tensor,      \* identities of Tensor objects, each built at most once
  Storage,     \* identities of CpuStorage objects
  Optimizer,   \* identities of nn_v2_optimizer State objects
  NoObject,    \* a null shared_ptr
  MaxHandle,   \* stands for UINT64_MAX as a handle identifier
  MaxRefs      \* stands for UINT64_MAX as a reference count

Object == Tensor \cup Storage \cup Optimizer
Handle == 1 .. (MaxHandle - 1)

ASSUME ObjectAssumption ==
  /\ NoObject \notin Object
  /\ Tensor \cap Storage = {}
  /\ Tensor \cap Optimizer = {}
  /\ Storage \cap Optimizer = {}

ASSUME BoundAssumption ==
  /\ MaxHandle \in Nat \ {0}
  /\ MaxRefs \in Nat \ {0}

VARIABLES
  next_handle, \* HandleRegistry::next_handle_
  entries,     \* HandleRegistry::entries_, a partial function on Handle
  alive,       \* objects constructed and not yet destroyed
  built,       \* objects ever constructed
  holds,       \* shared_ptr members of each object
  owners,      \* the locations counted by each object's strong count
  live_bytes,  \* CpuStorage::live_bytes_, in storages
  pc,          \* where each thread stands in its call
  call,        \* the call each thread is running: operation and handle arguments
  local,       \* the shared_ptr locals of that call
  doomed       \* objects whose last owner the thread has dropped

vars == <<next_handle, entries, alive, built, holds, owners, live_bytes,
          pc, call, local, doomed>>

heap  == <<alive, built, holds, live_bytes>>
table == <<next_handle, entries>>

-----------------------------------------------------------------------------
(* The calls of the C ABI, told apart by how they use the table.           *)

\* "collect" is the creation of a parameter optimizer, here over one or two
\* tensors.
Unary  == {"reshape", "collect", "step"}
Binary == {"add", "collect"}
Op     == {"full"} \cup Unary \cup Binary

HandleType == {"tensor", "optimizer"}

\* The HandleType an operation passes to Lookup.
ExpectedType(op) ==
  IF op = "step" THEN "optimizer" ELSE "tensor"

Slot == {"left", "right", "result", "retired"}
Step == {"idle", "lookup_right", "compute", "insert", "return"}

Entry == [type : HandleType, refs : 1 .. MaxRefs, object : Object]
Call  == [op : Op, right : 0 .. MaxHandle]

EmptyFrame == [s \in Slot |-> NoObject]

\* The locations that can own a counted reference.
EntryRef(h)    == <<"entry", h>>
LocalRef(t, s) == <<"local", t, s>>
MemberRef(o)   == <<"member", o>>
Ref == ({"entry"} \X Handle) \cup ({"local"} \X Thread \X Slot)
         \cup ({"member"} \X Object)

StorageOf(o) == holds[o] \cap Storage

TypeOK ==
  /\ next_handle \in 1 .. MaxHandle
  /\ DOMAIN entries \subseteq Handle
  /\ \A h \in DOMAIN entries : entries[h] \in Entry
  /\ alive \subseteq built
  /\ built \subseteq Object
  /\ holds \in [Object -> SUBSET Object]
  /\ owners \in [Object -> SUBSET Ref]
  /\ live_bytes \in Int
  /\ pc \in [Thread -> Step]
  /\ call \in [Thread -> Call]
  /\ local \in [Thread -> [Slot -> Object \cup {NoObject}]]
  /\ doomed \in [Thread -> SUBSET Object]

Init ==
  /\ next_handle = 1
  /\ entries = [h \in {} |-> h]
  /\ alive = {} /\ built = {}
  /\ holds = [o \in Object |-> {}]
  /\ owners = [o \in Object |-> {}]
  /\ live_bytes = 0
  /\ pc = [t \in Thread |-> "idle"]
  /\ call = [t \in Thread |-> [op |-> "full", right |-> 0]]
  /\ local = [t \in Thread |-> EmptyFrame]
  /\ doomed = [t \in Thread |-> {}]

Goto(t, step) == pc' = [pc EXCEPT ![t] = step]

\* Copying a shared_ptr into the location ref.
Own_RawPointer(o, ref) == owners
Own(o, ref) == [owners EXCEPT ![o] = @ \cup {ref}]

\* Those of the objects whose strong count is zero, given the owners left.
Orphans_Unchecked(objects, left) == objects
Orphans_Forgotten(objects, left) == {}
Orphans(objects, left) == {o \in objects : left[o] = {}}

\* What CpuStorage constructors add to live_bytes_ for the objects new.
StorageAdded_PerTensor(new) == Cardinality(new \cap Tensor)
StorageAdded(new) == Cardinality(new \cap Storage)

\* Locals are destroyed on the way out, on success and on every early return.
ToReturn(t) == Goto(t, "return")

-----------------------------------------------------------------------------
(* The mutex-protected bodies.  What a call does before its first access to *)
(* the table is private to the thread, so a call starts with that access.  A*)
(* call the table refuses at once (0, an unknown or released handle, a type *)
(* mismatch, a saturated count) changes nothing and takes no step.          *)

\* A client may pass any integer: 0, a live handle, a released one, or one not
\* issued yet, for which next_handle stands.
Argument == 0 .. next_handle

\* The checks shared by Lookup, Retain and Release: 0 and unknown handles have
\* no entry, and the entry must have the type the caller expects.
Valid(h, type) == h \in DOMAIN entries /\ entries[h].type = type

\* HandleRegistry::Lookup: the caller's local becomes one more owner.
Lookup(t, h, slot) ==
  LET o == entries[h].object IN
    /\ local' = [local EXCEPT ![t][slot] = o]
    /\ owners' = Own(o, LocalRef(t, slot))

\* The first Lookup of an operation.
LookupLeft(t, op, left, right) ==
  /\ pc[t] = "idle"
  /\ \/ op \in Unary /\ right = 0 /\ Goto(t, "compute")
     \/ op \in Binary /\ Goto(t, "lookup_right")
  /\ Valid(left, ExpectedType(op))
  /\ Lookup(t, left, "left")
  /\ call' = [call EXCEPT ![t] = [op |-> op, right |-> right]]
  /\ UNCHANGED <<table, heap, doomed>>

\* The second one, with the mutex released in between: the handle may have
\* been retired meanwhile.
LookupRight(t) ==
  /\ pc[t] = "lookup_right"
  /\ IF Valid(call[t].right, ExpectedType(call[t].op))
     THEN Lookup(t, call[t].right, "right") /\ Goto(t, "compute")
     ELSE ToReturn(t) /\ UNCHANGED <<local, owners>>
  /\ UNCHANGED <<table, heap, call, doomed>>

\* ts_tensor_from_f32, ts_tensor_full_f32: nothing to look up.
BeginFull(t) ==
  /\ pc[t] = "idle"
  /\ call' = [call EXCEPT ![t] = [op |-> "full", right |-> 0]]
  /\ Goto(t, "compute")
  /\ UNCHANGED <<table, heap, owners, local, doomed>>

\* ValidateNextHandle (0 is never reached: the check stops before the wrap).
ValidateNextHandle == next_handle # MaxHandle

\* The identifier the next Insert takes.
FreshHandle_Recycled ==
  CHOOSE h \in 1 .. next_handle :
    h \notin DOMAIN entries /\ \A k \in 1 .. (h - 1) : k \in DOMAIN entries
FreshHandle == next_handle

\* HandleRegistry::Insert: the identifier is taken before the table node is
\* allocated, and the caller's local is moved into the entry.
Insert(t) ==
  /\ pc[t] = "insert"
  /\ ValidateNextHandle
  /\ LET o == local[t]["result"]
         h == FreshHandle
         type == IF o \in Optimizer THEN "optimizer" ELSE "tensor" IN
       /\ next_handle' = next_handle + 1
       /\ entries' = [k \in DOMAIN entries \cup {h} |->
                        IF k = h THEN [type |-> type, refs |-> 1, object |-> o]
                                 ELSE entries[k]]
       /\ local' = [local EXCEPT ![t]["result"] = NoObject]
       /\ owners' = [owners EXCEPT
                       ![o] = (@ \ {LocalRef(t, "result")}) \cup {EntryRef(h)}]
  /\ ToReturn(t)
  /\ UNCHANGED <<heap, call, doomed>>

\* ValidateNextHandle refuses; or emplace throws bad_alloc, which reaches
\* AbiGuard with the identifier already consumed.
InsertFails(t) ==
  /\ pc[t] = "insert"
  /\ \/ ~ValidateNextHandle /\ UNCHANGED next_handle
     \/ ValidateNextHandle /\ next_handle' = next_handle + 1
  /\ ToReturn(t)
  /\ UNCHANGED <<entries, heap, owners, call, local, doomed>>

\* IncrementReferenceCount refuses a saturated count.
CountMayGrow_Unchecked(h) == TRUE
CountMayGrow(h) == entries[h].refs # MaxRefs

\* HandleRegistry::Retain (ts_tensor_retain; only tensors are retained).
Retain(t, h) ==
  /\ pc[t] = "idle"
  /\ Valid(h, "tensor")
  /\ CountMayGrow(h)
  /\ entries' = [entries EXCEPT ![h].refs = @ + 1]
  /\ UNCHANGED <<next_handle, heap, owners, pc, call, local, doomed>>

\* HandleRegistry::Release: the last reference moves the object out of the
\* table into a local declared outside the critical section.
Release(t, h, type) ==
  /\ pc[t] = "idle"
  /\ Valid(h, type)
  /\ LET o == entries[h].object IN
       IF entries[h].refs = 1
       THEN /\ entries' = [k \in DOMAIN entries \ {h} |-> entries[k]]
            /\ local' = [local EXCEPT ![t]["retired"] = o]
            /\ owners' = [owners EXCEPT
                 ![o] = (@ \ {EntryRef(h)}) \cup {LocalRef(t, "retired")}]
            /\ ToReturn(t)
       ELSE /\ entries' = [entries EXCEPT ![h].refs = @ - 1]
            /\ UNCHANGED <<local, owners, pc>>
  /\ UNCHANGED <<next_handle, heap, call, doomed>>

-----------------------------------------------------------------------------
(* The computation, outside the mutex, on the objects the call looked up.  *)

\* Constructs the objects new, o among them with members hold[o], and leaves
\* the result in the call's local.
Construct(t, new, result, hold) ==
  /\ new \cap built = {}
  /\ built' = built \cup new
  /\ alive' = alive \cup new
  /\ holds' = [o \in Object |-> IF o \in new THEN hold[o] ELSE holds[o]]
  /\ owners' = [o \in Object |->
       owners[o]
         \cup {MemberRef(n) : n \in {m \in new : o \in hold[m]}}
         \cup (IF o = result THEN {LocalRef(t, "result")} ELSE {})]
  /\ local' = [local EXCEPT ![t]["result"] = result]
  /\ live_bytes' = live_bytes + StorageAdded(new)

\* A new tensor with storage of its own; one recorded on the tape also keeps
\* the operands of its autograd node.
MakeTensor(t, x, s, parents) ==
  Construct(t, {x, s}, x,
            [o \in {x, s} |-> IF o = x THEN {s} \cup parents ELSE {}])

Operands(t) == {local[t]["left"], local[t]["right"]} \ {NoObject}

\* A result with storage of its own: a creation, an elementwise or reducing
\* operation, a reshape of a tensor that is not contiguous.
ComputeFresh(t) ==
  /\ pc[t] = "compute" /\ call[t].op \in {"full", "reshape", "add"}
  /\ \E x \in Tensor, s \in Storage, parents \in {{}, Operands(t)} :
       MakeTensor(t, x, s, parents)
  /\ Goto(t, "insert")
  /\ UNCHANGED <<table, call, doomed>>

\* MakeView: the result of a reshape or a transpose shares the operand's
\* storage.
ComputeView(t) ==
  /\ pc[t] = "compute" /\ call[t].op = "reshape"
  /\ LET source == local[t]["left"] IN
       \E x \in Tensor, parents \in {{}, {source}} :
         Construct(t, {x}, x, [o \in {x} |-> StorageOf(source) \cup parents])
  /\ Goto(t, "insert")
  /\ UNCHANGED <<table, call, doomed>>

\* A parameter optimizer keeps its parameters, and refuses the same one twice.
ComputeOptimizer(t) ==
  /\ pc[t] = "compute" /\ call[t].op = "collect"
  /\ local[t]["left"] # local[t]["right"]
  /\ \E z \in Optimizer : Construct(t, {z}, z, [o \in {z} |-> Operands(t)])
  /\ Goto(t, "insert")
  /\ UNCHANGED <<table, call, doomed>>

\* An optimizer step reads and writes the parameters the optimizer holds.
ComputeStep(t) ==
  /\ pc[t] = "compute" /\ call[t].op = "step"
  /\ ToReturn(t)
  /\ UNCHANGED <<table, heap, owners, call, local, doomed>>

\* The operation fails: bad shape, unsupported device, duplicate parameter, or
\* an allocation failure that AllocationGuard turns into a status.
ComputeFails(t) ==
  /\ pc[t] = "compute"
  /\ ToReturn(t)
  /\ UNCHANGED <<table, heap, owners, call, local, doomed>>

-----------------------------------------------------------------------------
(* Leaving the call: destructors run on the thread that drops the last     *)
(* owner, outside the mutex.                                               *)

DropLocal(t, slot) ==
  /\ pc[t] = "return" /\ doomed[t] = {}
  /\ local[t][slot] # NoObject
  /\ LET o == local[t][slot] IN
       /\ owners' = [owners EXCEPT ![o] = @ \ {LocalRef(t, slot)}]
       /\ doomed' = [doomed EXCEPT
                       ![t] = Orphans({o}, owners')]
  /\ local' = [local EXCEPT ![t][slot] = NoObject]
  /\ UNCHANGED <<table, heap, pc, call>>

\* ~Tensor, ~State, ~CpuStorage: the members are dropped in turn.
Destroy(t, o) ==
  /\ o \in doomed[t]
  /\ alive' = alive \ {o}
  /\ owners' = [p \in Object |-> owners[p] \ {MemberRef(o)}]
  /\ doomed' = [doomed EXCEPT
       ![t] = (@ \ {o}) \cup Orphans(holds[o], owners')]
  /\ holds' = [holds EXCEPT ![o] = {}]
  /\ live_bytes' = live_bytes - (IF o \in Storage THEN 1 ELSE 0)
  /\ UNCHANGED <<table, built, pc, call, local>>

Return(t) ==
  /\ pc[t] = "return" /\ doomed[t] = {} /\ local[t] = EmptyFrame
  /\ Goto(t, "idle")
  /\ call' = [call EXCEPT ![t] = [op |-> "full", right |-> 0]]
  /\ UNCHANGED <<table, heap, owners, local, doomed>>

-----------------------------------------------------------------------------

\* The first step of a call.
Start(t) ==
  \/ BeginFull(t)
  \/ \E op \in Unary \cup Binary, left, right \in Argument :
       LookupLeft(t, op, left, right)
  \/ \E h \in Argument : Retain(t, h)
  \/ \E h \in Argument, type \in HandleType : Release(t, h, type)

\* The steps of a call that has started.
Run(t) ==
  \/ LookupRight(t)
  \/ Insert(t) \/ InsertFails(t)
  \/ ComputeFresh(t) \/ ComputeView(t) \/ ComputeOptimizer(t)
  \/ ComputeStep(t) \/ ComputeFails(t)
  \/ \E slot \in Slot : DropLocal(t, slot)
  \/ \E o \in Object : Destroy(t, o)
  \/ Return(t)

Next == \E t \in Thread : Start(t) \/ Run(t)

Spec == Init /\ [][Next]_vars

-----------------------------------------------------------------------------
(* Properties.                                                             *)

\* The strong count of every object is exact: a table entry, a call's local or
\* a member of a living object counts for the object it points to, and for
\* nothing else.  Lookup's shared_ptr copy, Insert's move and Release's
\* hand-over each change one location and its count.
OwnersExact ==
  \A o \in Object :
    /\ \A h \in Handle :
         EntryRef(h) \in owners[o] <=>
           (h \in DOMAIN entries /\ entries[h].object = o)
    /\ \A t \in Thread, s \in Slot :
         LocalRef(t, s) \in owners[o] <=> local[t][s] = o
    /\ \A p \in Object :
         MemberRef(p) \in owners[o] <=> (p \in alive /\ o \in holds[p])

\* No entry, no call in flight and no living object points to a destroyed
\* object: "Concurrent release cannot free storage already acquired by an
\* in-flight operation" (Lookup's shared_ptr copy in handle_registry.h).
NoDanglingReference ==
  /\ \A h \in DOMAIN entries : entries[h].object \in alive
  /\ \A t \in Thread, s \in Slot : local[t][s] \in alive \cup {NoObject}
  /\ \A o \in alive : holds[o] \subseteq alive

\* An object is doomed by one thread, once, and only when nothing owns it, so
\* that no destructor runs twice or under another thread's feet.
DestroyedByOneThread ==
  \A t \in Thread : \A o \in doomed[t] :
    /\ o \in alive /\ owners[o] = {}
    /\ \A u \in Thread \ {t} : o \notin doomed[u]

\* An object stays alive only while something owns it or a thread is about to
\* destroy it: a failed Insert, a refused call and a burnt handle leak nothing.
NoLeak ==
  \A o \in alive : owners[o] # {} \/ \E t \in Thread : o \in doomed[t]

\* What each point of a call knows of its frame: which locals are still null,
\* which are not, and that destructors run only on the way out.
FrameInv ==
  \A t \in Thread :
    /\ pc[t] # "return" => doomed[t] = {} /\ local[t]["retired"] = NoObject
    /\ pc[t] = "idle" => local[t] = EmptyFrame
    /\ pc[t] \in {"lookup_right", "compute"} => local[t]["result"] = NoObject
    /\ pc[t] = "lookup_right" =>
         local[t]["left"] # NoObject /\ local[t]["right"] = NoObject
    /\ (pc[t] = "compute" /\ call[t].op # "full") => local[t]["left"] # NoObject
    /\ pc[t] = "insert" => local[t]["result"] # NoObject

\* Identifiers are consumed before they name anything, which is why Insert
\* never meets the duplicate that ValidateInsertion refuses.
HandlesIssued == \A h \in DOMAIN entries : h < next_handle

\* The inductive invariant behind the safety theorems.
IInv ==
  /\ TypeOK /\ FrameInv /\ HandlesIssued
  /\ OwnersExact /\ NoDanglingReference /\ DestroyedByOneThread /\ NoLeak

\* CpuStorage::live_bytes_ counts the storages alive, views counted once, and
\* with no call in flight and no handle left it is back at its baseline.
LiveBytesExact ==
  /\ live_bytes = Cardinality(alive \cap Storage)
  /\ (DOMAIN entries = {} /\ \A t \in Thread : pc[t] = "idle")
        => live_bytes = 0

\* A handle never names a second object: an identifier that was consumed and
\* has no entry never gets one again, and a live one keeps its object and type
\* ("Monotonic handles are never recycled", docs/rfcs/0001).
HandleNeverRebinds ==
  [][/\ next_handle' >= next_handle
     /\ \A h \in Handle :
       /\ (h < next_handle /\ h \notin DOMAIN entries) => h \notin DOMAIN entries'
       /\ (h \in DOMAIN entries /\ h \in DOMAIN entries') =>
            /\ entries'[h].object = entries[h].object
            /\ entries'[h].type = entries[h].type
    ]_<<next_handle, entries>>

\* The table implements the lifetime promised to clients.
Lifetime == INSTANCE ObjectLifetime WITH
  bound    <- [h \in DOMAIN entries |-> entries[h].object],
  issued   <- 1 .. (next_handle - 1),
  using    <- {<<r[1], local[r[1]][r[2]]>> :
                 r \in {q \in Thread \X Slot : local[q[1]][q[2]] # NoObject}},
  members  <- holds,
  existing <- alive

ImplementsLifetime == Lifetime!Spec
=============================================================================
