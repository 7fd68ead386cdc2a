---------------------------- MODULE KeyedMutex ----------------------------
(***************************************************************************)
(* What `InFlight` promises its callers (src/src/inflight.rs): any number  *)
(* of tasks may want the right to produce a key, at most one at a time has *)
(* it, a task may give up while it waits, and nobody waits forever for a   *)
(* key whose producers all finish.  There is no map, no lock and no queue  *)
(* here; InFlight.tla is shown to implement this module.                   *)
(***************************************************************************)
CONSTANTS Key,    \* the artifacts that can be produced
          Task,   \* request handlers and detached download workers
          NoKey   \* the key of a task that wants none

VARIABLES phase,  \* what each task is doing about its key
          wanted  \* the key it is about

vars == <<phase, wanted>>

TypeOK ==
  /\ phase \in [Task -> {"out", "wants", "produces"}]
  /\ wanted \in [Task -> Key \cup {NoKey}]

Init ==
  /\ phase = [t \in Task |-> "out"]
  /\ wanted = [t \in Task |-> NoKey]

Ask(t, k) ==
  /\ phase[t] = "out"
  /\ phase' = [phase EXCEPT ![t] = "wants"]
  /\ wanted' = [wanted EXCEPT ![t] = k]

\* Nobody else may be producing the key at the moment a task starts to.
Enter(t) ==
  /\ phase[t] = "wants"
  /\ \A u \in Task : phase[u] = "produces" => wanted[u] # wanted[t]
  /\ phase' = [phase EXCEPT ![t] = "produces"]
  /\ UNCHANGED wanted

\* A client that disconnects while it waits.
GiveUp(t) ==
  /\ phase[t] = "wants"
  /\ phase' = [phase EXCEPT ![t] = "out"]
  /\ wanted' = [wanted EXCEPT ![t] = NoKey]

Leave(t) ==
  /\ phase[t] = "produces"
  /\ phase' = [phase EXCEPT ![t] = "out"]
  /\ wanted' = [wanted EXCEPT ![t] = NoKey]

Next ==
  \E t \in Task :
    \/ \E k \in Key : Ask(t, k)
    \/ Enter(t)
    \/ GiveUp(t)
    \/ Leave(t)

Spec == Init /\ [][Next]_vars

\* Whoever wants a key gets it or gives up.
Served == \A t \in Task : phase[t] = "wants" ~> phase[t] # "wants"
=============================================================================
