--------------------------- MODULE LevelTriggered ---------------------------
(***************************************************************************)
(* What the control loop promises, without channels, queues or goroutines: *)
(* a set of keys to look at, and one worker that takes one after the other *)
(* and works from what is desired then. (control-loop/main.go:90-94)       *)
(*                                                                         *)
(* A key leaves the set only when the worker takes it, and is back in it   *)
(* when the worker gives up. Nothing else is lost on the way.              *)
(***************************************************************************)
EXTENDS Integers

CONSTANTS
  Keys,
  Desired,  \* what may be declared of a key, and worked on
  None      \* nothing: no desired state, no actual state, no job

VARIABLES
  data,     \* the desired states
  actual,   \* the actual states
  dirty,    \* the keys to look at
  job       \* the key the worker has taken, and what it read of it

vars == <<data, actual, dirty, job>>

Init ==
  /\ data = [k \in Keys |-> None]
  /\ actual = [k \in Keys |-> None]
  /\ dirty = {}
  /\ job = None

\* A key is set, to anything, or deleted.
Declare(k) ==
  /\ \A other \in Keys \ {k} : data'[other] = data[other]
  /\ dirty' = dirty \cup {k}
  /\ UNCHANGED <<actual, job>>

\* The key may stay in the set: it may have been put there more than once.
Take(k) ==
  /\ job = None
  /\ k \in dirty
  /\ data[k] \in Desired \cup {None}
  /\ job' = [key |-> k, desired |-> data[k]]
  /\ dirty' \in {dirty, dirty \ {k}}
  /\ UNCHANGED <<data, actual>>

GiveUp ==
  /\ job # None
  /\ job' = None
  /\ dirty' = dirty \cup {job.key}
  /\ UNCHANGED <<data, actual>>

Only(k) == \A other \in Keys \ {k} : actual'[other] = actual[other]

Upgrade ==
  /\ job # None /\ job.desired # None
  /\ Only(job.key)
  /\ actual'[job.key] # None /\ actual'[job.key].version = job.desired.version
  /\ UNCHANGED <<data, dirty, job>>

\* The actual state agrees with a desired one; replicas are healthy.
Agrees(state, desired) ==
  IF desired = None THEN state = None
  ELSE /\ state # None
       /\ state.version = desired.version
       /\ state.replicas = desired.replicas
       /\ state.replicas > 0 => state.healthy

\* The worker is done, and may want to see the key again.
Finish ==
  /\ job # None
  /\ Only(job.key)
  /\ Agrees(actual'[job.key], job.desired)
  /\ job' = None
  /\ dirty' \in {dirty, dirty \cup {job.key}}
  /\ UNCHANGED data

Next == (\E k \in Keys : Declare(k) \/ Take(k)) \/ GiveUp \/ Upgrade \/ Finish

Spec == Init /\ [][Next]_vars

\* What this is good for: a key whose states disagree is in the set, or the
\* worker is at it with what is desired now. (main.go:91)
NothingForgotten ==
  \A k \in Keys :
    \/ data[k] \in Desired \cup {None} /\ Agrees(actual[k], data[k])
    \/ k \in dirty
    \/ job # None /\ job.key = k /\ job.desired = data[k]
=============================================================================
