----------------------------- MODULE InferenceSession -----------------------------
(***************************************************************************)
(* ONNX inference sessions, from the native session that serializes its    *)
(* users with a mutex (inference_bridge_onnx.cc) and the C entry points    *)
(* that register outputs (inference_c_api.cc) to the Dart objects that     *)
(* adopt sessions and outputs (onnx.dart, output_adoption.dart,            *)
(* tensor.dart).                                                           *)
(*                                                                         *)
(* Callers are threads of the C ABI, in a Dart program its isolates.  Any  *)
(* of them may use a registered session; its handle is found, and its      *)
(* SessionState kept alive, before the mutex is taken.  What a call that   *)
(* fails before it changes anything does is left out, and so are names and *)
(* the values of tensors.  Which execution provider a session runs on is   *)
(* decided by the build alone, in one call, and is left out.               *)
(***************************************************************************)
EXTENDS Integers, Sequences, FiniteSets, SequencesExt

CONSTANTS
  Caller,
  Session,
  NoSession,
  NoCaller,
  MaxOutputs,  \* outputs of a model
  MaxHandles,  \* tensor handles registered
  MaxEnds      \* times ONNX Runtime is told to end profiling

ASSUME InferenceAssumption ==
  /\ NoSession \notin Session /\ NoCaller \notin Caller
  /\ MaxOutputs \in Nat /\ MaxHandles \in Nat /\ MaxEnds \in Nat

VARIABLES
  registered, \* sessions in the handle registry
  opened,     \* sessions an OnnxSession owns
  closed,     \* history: sessions released
  lock,       \* the holder of each session's mutex
  path,       \* profiling_path, 0 before profiling_ended
  ends,       \* external: times ONNX Runtime ended the profiling of a session
  told,       \* history: profiling paths given to callers
  releases,   \* history: how often each tensor handle was released
  owned,      \* handles of the Tensors each caller has
  call        \* the call each caller is in

vars == <<registered, opened, closed, lock, path, ends, told, releases, owned, call>>
profiling == <<path, ends, told>>
tensors   == <<releases, owned>>
sessions  == <<registered, opened, closed>>

Live == {h \in DOMAIN releases : releases[h] = 0}
AtStart(point, s, n) == [at |-> point, session |-> s, outputs |-> n,
                         handles |-> <<>>, adopted |-> 0, size |-> 0]
Idle == AtStart("idle", NoSession, 0)

Points == {"idle", "opening", "run", "running", "inserting", "adopting", "sizing",
           "sized", "copying"}

At(c, point) == call[c].at = point

TypeOK ==
  /\ opened \subseteq registered /\ registered \subseteq Session \ closed
  /\ \A s \in Session : lock[s] # NoCaller => call[lock[s]].at = "running"
  /\ \A c \in Caller : At(c, "running") => lock[call[c].session] = c
  /\ \A s \in Session : path[s] \in 0 .. ends[s]
  /\ \A c \in Caller :
       /\ call[c].at \in Points
       /\ Len(call[c].handles) <= call[c].outputs
       /\ call[c].adopted <= Len(call[c].handles)

-----------------------------------------------------------------------------
Init ==
  /\ registered = {} /\ opened = {} /\ closed = {}
  /\ lock = [s \in Session |-> NoCaller]
  /\ path = [s \in Session |-> 0]
  /\ ends = [s \in Session |-> 0]
  /\ told = [s \in Session |-> {}]
  /\ releases = <<>>
  /\ owned = [c \in Caller |-> {}]
  /\ call = [c \in Caller |-> Idle]

Become(c, k) == call' = [call EXCEPT ![c] = k]
Goto(c, point) == Become(c, [call[c] EXCEPT !.at = point])
Return(c) == Become(c, Idle)

Release(handles) ==
  releases' = [h \in DOMAIN releases |->
                 releases[h] + Cardinality({i \in DOMAIN handles : handles[i] = h})]

-----------------------------------------------------------------------------
(***************************************************************************)
(* Opening and releasing a session.                                        *)
(***************************************************************************)

\* SessionCreate: the session is registered last, nothing is left if it fails.
Create(c, s) ==
  /\ At(c, "idle") /\ s \notin registered \cup closed
  /\ registered' = registered \cup {s}
  /\ Become(c, AtStart("opening", s, 0))
  /\ UNCHANGED <<opened, closed, lock, profiling, tensors>>

\* The provider is accepted, names are read: there is an OnnxSession.
Open(c) ==
  /\ At(c, "opening")
  /\ opened' = opened \cup {call[c].session}
  /\ Return(c)
  /\ UNCHANGED <<registered, closed, lock, profiling, tensors>>

\* The registry forgets the session.
GivenUp(s) ==
  /\ registered' = registered \ {s}
  /\ closed' = closed \cup {s}

\* A query fails, or its answer is refused.
OpenFails(c) ==
  /\ At(c, "opening")
  /\ GivenUp(call[c].session)
  /\ Return(c)
  /\ UNCHANGED <<opened, lock, profiling, tensors>>

\* OnnxSession.dispose and its finalizer.
Dispose(c, s) ==
  /\ At(c, "idle") /\ s \in opened
  /\ GivenUp(s)
  /\ opened' = opened \ {s}
  /\ UNCHANGED <<lock, profiling, tensors, call>>

-----------------------------------------------------------------------------
(***************************************************************************)
(* Running the model.                                                      *)
(***************************************************************************)

\* Inputs and session are looked up.
BeginRun(c, s, n) ==
  /\ At(c, "idle") /\ s \in opened
  /\ Become(c, AtStart("run", s, n))
  /\ UNCHANGED <<sessions, lock, profiling, tensors>>

Lock(c) ==
  /\ At(c, "run") /\ lock[call[c].session] = NoCaller
  /\ lock' = [lock EXCEPT ![call[c].session] = c]
  /\ Goto(c, "running")
  /\ UNCHANGED <<sessions, profiling, tensors>>

Unlock(c) == lock' = [lock EXCEPT ![call[c].session] = NoCaller]

\* Every output is a tensor; none has a handle.
RunDone(c) ==
  /\ At(c, "running") /\ Unlock(c) /\ Goto(c, "inserting")
  /\ UNCHANGED <<sessions, profiling, tensors>>

\* An input cannot be copied, ONNX Runtime fails or an output is refused.
RunFails(c) ==
  /\ At(c, "running") /\ Unlock(c) /\ Return(c)
  /\ UNCHANGED <<sessions, profiling, tensors>>

Missing(c) == At(c, "inserting") /\ Len(call[c].handles) < call[c].outputs

Insert(c) ==
  /\ Missing(c) /\ Len(releases) < MaxHandles
  /\ releases' = Append(releases, 0)
  /\ Become(c, [call[c] EXCEPT !.handles = Append(@, Len(releases'))])
  /\ UNCHANGED <<sessions, lock, profiling, owned>>

\* Only the last handle registered is released.
ToRelease_Last(handles) ==
  IF handles = <<>> THEN <<>> ELSE <<Last(handles)>>
ToRelease(handles) == handles

\* The registry refuses an output: ReleaseInsertedOutputs.
InsertFails(c) ==
  /\ Missing(c)
  /\ Release(ToRelease(call[c].handles))
  /\ Return(c)
  /\ UNCHANGED <<sessions, lock, profiling, owned>>

\* The registry cannot allocate an entry: the exception passes the roll-back by,
\* and AbiGuard turns it into a status.
InsertThrows(c) ==
  /\ Missing(c)
  /\ Return(c)
  /\ UNCHANGED <<sessions, lock, profiling, releases, owned>>

-----------------------------------------------------------------------------
(***************************************************************************)
(* Adopting the outputs in Dart.                                           *)
(***************************************************************************)
InsertDone(c) ==
  /\ At(c, "inserting") /\ ~Missing(c) /\ Goto(c, "adopting")
  /\ UNCHANGED <<sessions, lock, profiling, tensors>>

AllAdopted(c) == call[c].adopted = Len(call[c].handles)

Adopt(c) ==
  /\ At(c, "adopting") /\ ~AllAdopted(c)
  /\ Become(c, [call[c] EXCEPT !.adopted = @ + 1])
  /\ UNCHANGED <<sessions, lock, profiling, tensors>>

\* The handle that could not be adopted is among them.
Rest_WithFailed(handles, adopted) == SubSeq(handles, adopted + 1, Len(handles))
Rest(handles, adopted) == SubSeq(handles, adopted + 2, Len(handles))

\* _adopt releases the handle it was given, adoptOnnxOutputHandles the others.
AdoptFails(c) ==
  LET handles == call[c].handles
      adopted == call[c].adopted
  IN
  /\ At(c, "adopting") /\ ~AllAdopted(c)
  /\ Release(<<handles[adopted + 1]>> \o SubSeq(handles, 1, adopted)
               \o Rest(handles, adopted))
  /\ Return(c)
  /\ UNCHANGED <<sessions, lock, profiling, owned>>

Deliver(c) ==
  /\ At(c, "adopting") /\ AllAdopted(c)
  /\ owned' = [owned EXCEPT ![c] = @ \cup ToSet(call[c].handles)]
  /\ Return(c)
  /\ UNCHANGED <<sessions, lock, profiling, releases>>

\* Tensor.dispose and its finalizer.
DisposeTensor(c, h) ==
  /\ At(c, "idle") /\ h \in owned[c]
  /\ Release(<<h>>)
  /\ owned' = [owned EXCEPT ![c] = @ \ {h}]
  /\ UNCHANGED <<sessions, lock, profiling, call>>

-----------------------------------------------------------------------------
(***************************************************************************)
(* Ending the profiling: Dart asks for the size of the path first and then *)
(* for the path, with one native call each.                                *)
(***************************************************************************)
BeginEnd(c, s) ==
  /\ At(c, "idle") /\ s \in opened
  /\ Become(c, AtStart("sizing", s, 0))
  /\ UNCHANGED <<sessions, lock, profiling, tensors>>

\* The path of an earlier end is not kept.
Ended_Never(s) == FALSE
Ended(s) == path[s] # 0

\* ONNX Runtime answers every end with a path of its own.
OrtEnds(s) ==
  /\ ends[s] < MaxEnds
  /\ ends' = [ends EXCEPT ![s] = @ + 1]

\* SessionEndProfiling, under the mutex; sets path'.
EndProfiling(s) ==
  /\ lock[s] = NoCaller
  /\ IF Ended(s) THEN UNCHANGED <<path, ends>>
     ELSE OrtEnds(s) /\ path' = [path EXCEPT ![s] = ends'[s]]

EndSize(c) ==
  LET s == call[c].session IN
  /\ At(c, "sizing") /\ EndProfiling(s)
  /\ Become(c, [AtStart("sized", s, 0) EXCEPT !.size = path'[s]])
  /\ UNCHANGED <<sessions, lock, told, tensors>>

\* There is an answer that cannot be copied, ONNX Runtime ends but its path
\* cannot be copied, or it fails.
EndFails(c) ==
  LET s == call[c].session IN
  /\ At(c, "sizing") \/ At(c, "copying")
  /\ \/ EndProfiling(s)
     \/ lock[s] = NoCaller /\ ~Ended(s) /\ OrtEnds(s) /\ UNCHANGED path
     \/ UNCHANGED <<path, ends>>
  /\ Return(c)
  /\ UNCHANGED <<sessions, lock, told, tensors>>

BeginCopy(c) ==
  /\ At(c, "sized") /\ call[c].session \in registered /\ Goto(c, "copying")
  /\ UNCHANGED <<sessions, lock, profiling, tensors>>

\* Another caller released the session since, or there is no memory.
CopyRefused(c) ==
  /\ At(c, "sized") /\ Return(c)
  /\ UNCHANGED <<sessions, lock, profiling, tensors>>

\* The path is copied to a buffer of the size that was asked for.
EndCopy(c) ==
  LET s == call[c].session IN
  /\ At(c, "copying") /\ EndProfiling(s)
  /\ told' = [told EXCEPT ![s] = @ \cup {call[c].size, path'[s]}]
  /\ Return(c)
  /\ UNCHANGED <<sessions, lock, tensors>>

-----------------------------------------------------------------------------
Next ==
  \E c \in Caller :
    \/ \E s \in Session :
         \/ Create(c, s) \/ Dispose(c, s) \/ BeginEnd(c, s)
         \/ \E n \in 1 .. MaxOutputs : BeginRun(c, s, n)
    \/ Open(c) \/ OpenFails(c)
    \/ Lock(c) \/ RunDone(c) \/ RunFails(c)
    \/ Insert(c) \/ InsertFails(c) \/ InsertThrows(c) \/ InsertDone(c)
    \/ Adopt(c) \/ AdoptFails(c) \/ Deliver(c)
    \/ \E h \in DOMAIN releases : DisposeTensor(c, h)
    \/ EndSize(c) \/ EndFails(c) \/ BeginCopy(c) \/ CopyRefused(c) \/ EndCopy(c)

Spec == Init /\ [][Next]_vars

-----------------------------------------------------------------------------
(***************************************************************************)
(* Properties                                                              *)
(***************************************************************************)
HeldBy(c) == owned[c] \cup ToSet(call[c].handles)
Held == UNION {HeldBy(c) : c \in Caller}

\* Nothing is released while somebody has still to use or to release it, and
\* nothing is released twice.  A tensor handle belongs to one Tensor, or to one
\* call that has still to deliver or to release it; a session to its OnnxSession
\* or to the call that opens it (ts_onnx_session_run, adoptOnnxOutputHandles,
\* Tensor._adopt, OnnxSession).
OneOwner ==
  /\ TypeOK
  /\ Held \subseteq Live
  /\ \A c, d \in Caller : c # d => HeldBy(c) \cap HeldBy(d) = {}
  /\ \A h \in DOMAIN releases : releases[h] <= 1
  /\ registered =
       opened \cup {call[c].session : c \in {d \in Caller : At(d, "opening")}}

\* A handle that somebody holds is passed on or released, whichever output a
\* registration or an adoption fails at.  Only a call that ends in an exception of
\* the registry forgets what it holds (ReleaseInsertedOutputs,
\* adoptOnnxOutputHandles).
NothingForgotten ==
  [][\A h \in Held : \/ h \in Held' \/ releases'[h] > releases[h]
                     \/ \E c \in Caller : h \in HeldBy(c) /\ InsertThrows(c)]_vars

\* "failure => zero owned native references escape" (docs/COMPATIBILITY.md, 13):
\* every handle in the registry is a Tensor's, or that of a call that has not
\* returned yet (ts_onnx_session_run).
NothingEscapes == Live \subseteq Held

\* However callers interleave, and whichever of their calls fail, every answer
\* about a session's profile, be it the size or the path, is about one file
\* (SessionEndProfiling).
OneProfile == \A s \in Session : Cardinality(told[s]) <= 1

-----------------------------------------------------------------------------
(***************************************************************************)
(* The inductive invariant.                                                *)
(***************************************************************************)
CallRecord == [at : Points, session : Session \cup {NoSession}, outputs : Nat,
               handles : Seq(DOMAIN releases), adopted : Nat, size : Nat]

\* What a call knows fits the point it is at.
WellFormed(k) ==
  /\ k.at = "idle" => k = Idle
  /\ k.at # "idle" => k.session \in Session
  /\ k.at \notin {"inserting", "adopting"} => k.handles = <<>>

Types ==
  /\ releases \in Seq(Nat)
  /\ lock \in [Session -> Caller \cup {NoCaller}]
  /\ path \in [Session -> Nat] /\ ends \in [Session -> Nat]
  /\ told \in [Session -> SUBSET Nat]
  /\ owned \in [Caller -> SUBSET (DOMAIN releases)]
  /\ call \in [Caller -> CallRecord] /\ \A c \in Caller : WellFormed(call[c])

\* A mutex and its holder name each other.
Locks ==
  /\ \A s \in Session :
       lock[s] # NoCaller => At(lock[s], "running") /\ call[lock[s]].session = s
  /\ \A c \in Caller : At(c, "running") => lock[call[c].session] = c

\* A session is owned by one OnnxSession or by one call that opens it.
SessionsOwned ==
  /\ registered \subseteq Session \ closed /\ opened \subseteq registered
  /\ \A c \in Caller : At(c, "opening") => call[c].session \in registered \ opened
  /\ \A c, d \in Caller : At(c, "opening") /\ At(d, "opening") /\ c # d =>
                            call[c].session # call[d].session
  /\ \A s \in registered \ opened :
       \E c \in Caller : At(c, "opening") /\ call[c].session = s

\* A handle that somebody holds is not released, is in one place, and there once.
HandlesOwned ==
  /\ \A h \in DOMAIN releases : releases[h] <= 1
  /\ \A c \in Caller : HeldBy(c) \subseteq Live
  /\ \A c, d \in Caller : c # d => HeldBy(c) \cap HeldBy(d) = {}
  /\ \A c \in Caller : owned[c] \cap ToSet(call[c].handles) = {}
  /\ \A c \in Caller : \A i, j \in DOMAIN call[c].handles :
       call[c].handles[i] = call[c].handles[j] => i = j

\* Whoever knows of a profile knows of the one that is kept.
ProfileKept ==
  /\ \A s \in Session : path[s] <= ends[s] /\ \A p \in told[s] : p = path[s] /\ p # 0
  /\ \A c \in Caller : At(c, "sized") \/ At(c, "copying") =>
       call[c].size = path[call[c].session] /\ call[c].size # 0

Counted == \A c \in Caller : /\ Len(call[c].handles) <= call[c].outputs
                             /\ call[c].adopted <= Len(call[c].handles)

IInv == Types /\ Locks /\ SessionsOwned /\ HandlesOwned /\ ProfileKept /\ Counted
===================================================================================
