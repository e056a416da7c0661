--------------------------- MODULE CheckpointStore ---------------------------
(***************************************************************************)
(* What saving and loading a module promise, without chunks, locks or a    *)
(* commit in two parts: the file holds one module's whole state or nothing *)
(* usable, and a module takes over that state at once or not at all, as    *)
(* long as the calls that name the file do not overlap.                    *)
(***************************************************************************)
EXTENDS Integers

CONSTANTS
  Module,  \* modules of the process
  Config,  \* the structure of each: parameter shape, presence of a bias
  Unusable \* what a load can do nothing with

VARIABLES
  state,  \* the parameters of each module: <<weight, bias>>
  stored, \* what the checkpoint file holds
  latest, \* number of values given to parameters so far
  raced   \* calls on the file have overlapped

svars == <<state, stored, latest, raced>>

\* A module without a bias has nothing in its place.
Fresh(m, g) == <<g, IF Config[m].use_bias THEN g ELSE 0>>

Init ==
  /\ latest = 0
  /\ state = [m \in Module |-> Fresh(m, 0)]
  /\ stored = Unusable
  /\ raced = FALSE

\* Any of the parameters of m, all under one new number.
Train(m) ==
  /\ latest' = latest + 1
  /\ \E w \in {state[m][1], latest'}, b \in {state[m][2], Fresh(m, latest')[2]} :
       state' = [state EXCEPT ![m] = <<w, b>>]
  /\ UNCHANGED stored

Save(m) ==
  /\ stored' = [config |-> Config[m], value |-> state[m]]
  /\ UNCHANGED <<state, latest>>

\* The file is overwritten in place: a save that has begun has lost the
\* checkpoint it replaces.
Lose ==
  /\ stored' = Unusable
  /\ UNCHANGED <<state, latest>>

Load(m) ==
  /\ stored # Unusable
  /\ stored.config = Config[m]
  /\ state' = [state EXCEPT ![m] = stored.value]
  /\ UNCHANGED <<stored, latest>>

\* Parameters do not outlive the process, the file does.
Restart ==
  /\ latest' = latest + 1
  /\ state' = [m \in Module |-> Fresh(m, latest')]
  /\ UNCHANGED stored

Promised ==
  \/ \E m \in Module : Train(m) \/ Save(m) \/ Load(m)
  \/ Lose \/ Restart

\* The program keeps the calls on one file apart: nothing is promised to one
\* that does not.
Next == (Promised /\ ~raced /\ UNCHANGED raced) \/ raced'

Spec == Init /\ [][Next]_svars
=============================================================================
