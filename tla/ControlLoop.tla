----------------------------- MODULE ControlLoop -----------------------------
(***************************************************************************)
(* internal/reconciler/reconciler.go on top of the watch store: a goroutine*)
(* that turns events into keys on a bounded work queue, one that reconciles*)
(* them, and a short-lived one for every delayed requeue.                  *)
(*                                                                         *)
(* A step is what happens between two points where other goroutines may    *)
(* act: a channel operation, a locked section, a sleep. Only the reconcile *)
(* loop writes the actual state, so reading it is not a step of its own.   *)
(* The reconcile counter is left out: it is printed and nothing else.      *)
(***************************************************************************)
EXTENDS WatchStore, FiniteSets

CONSTANTS
  Versions,     \* versions that are asked for
  MaxReplicas,  \* bound on the replicas that are asked for
  QueueCap      \* the capacity of the work queue, 64 in the code

NoVersion == ""

\* main always names a version (control-loop/main.go:28-65), and so does every
\* writer of this model: the type would also permit the empty one, which a new
\* actual state has.
DesiredState == [replicas : 0..MaxReplicas, version : Versions]

ASSUME QueueCapAssumption == QueueCap \in Nat \ {0}
ASSUME ReplicasAssumption == MaxReplicas \in Nat
ASSUME VersionsAssumption == NoVersion \notin Versions
ASSUME NothingAssumption ==
  /\ None \notin DesiredState
  /\ None \notin [replicas : Nat, version : Versions \cup {NoVersion}, healthy : BOOLEAN]
  /\ None \notin [key : Keys, desired : DesiredState \cup {None}]

watchLoop == "watchLoop"

ASSUME WatchersAssumption == watchLoop \in Watchers

VARIABLES
  watching,   \* where watchLoop is
  watched,    \* the key it has taken off its channel
  workQueue,
  sleepers,   \* per key, the goroutines that sleep before they enqueue it
  pc,         \* where reconcileLoop is
  key,        \* the key it reconciles
  desired,    \* the desired state it has fetched
  acted,      \* needsRequeue
  actual,     \* the actual state by key
  stopped     \* stopCh is closed

watcherVars == <<watching, watched>>
loopVars == <<pc, key, desired, acted>>
vars == <<storeVars, watcherVars, workQueue, sleepers, loopVars, actual, stopped>>

ActualState == [replicas : Nat, version : Versions \cup {NoVersion}, healthy : BOOLEAN]

Fresh == [replicas |-> 0, version |-> NoVersion, healthy |-> FALSE]

\* NewController and Start.
Init ==
  /\ NewStore
  /\ watching = "subscribing"
  /\ watched = None
  /\ workQueue = <<>>
  /\ sleepers = [k \in Keys |-> 0]
  /\ pc = "selecting"
  /\ key = None
  /\ desired = None
  /\ acted = FALSE
  /\ actual = [k \in Keys |-> None]
  /\ stopped = FALSE

-----------------------------------------------------------------------------
(* watchLoop.                                                              *)

\* Mutant: a full queue blocks.
enqueueBlocking(k) == Len(workQueue) < QueueCap /\ workQueue' = Append(workQueue, k)

\* A full queue drops the key.
enqueue(k) ==
  workQueue' = IF Len(workQueue) < QueueCap THEN Append(workQueue, k) ELSE workQueue

WatchLoopSubscribes ==
  /\ watching = "subscribing"
  /\ Watch(watchLoop)
  /\ watching' = "selecting"
  /\ UNCHANGED <<watched, workQueue, sleepers, loopVars, actual, stopped>>

WatchLoopReceives ==
  /\ watching = "selecting"
  /\ Receive(watchLoop)
  /\ watching' = "enqueuing"
  /\ watched' = Head(channel[watchLoop])
  /\ UNCHANGED <<workQueue, sleepers, loopVars, actual, stopped>>

WatchLoopEnqueues ==
  /\ watching = "enqueuing"
  /\ enqueue(watched)
  /\ watching' = "selecting"
  /\ watched' = None
  /\ UNCHANGED <<storeVars, sleepers, loopVars, actual, stopped>>

WatchLoopReturns ==
  /\ watching = "selecting"
  /\ stopped
  /\ watching' = "returned"
  /\ UNCHANGED <<storeVars, watched, workQueue, sleepers, loopVars, actual, stopped>>

-----------------------------------------------------------------------------
(* reconcileLoop and Reconcile.                                            *)

ReconcileLoopReceives ==
  /\ pc = "selecting"
  /\ workQueue # <<>>
  /\ key' = Head(workQueue)
  /\ workQueue' = Tail(workQueue)
  /\ pc' = "fetch"
  /\ UNCHANGED <<storeVars, watcherVars, sleepers, desired, acted, actual, stopped>>

ReconcileLoopReturns ==
  /\ pc = "selecting"
  /\ stopped
  /\ pc' = "returned"
  /\ UNCHANGED <<storeVars, watcherVars, workQueue, sleepers, key, desired, acted, actual,
                 stopped>>

\* Mutant: the handling of an error falls through to that of the result.
ResultTwice(requeue) ==
  /\ pc' = "selecting"
  /\ key' = None
  /\ desired' = None
  /\ acted' = FALSE
  /\ sleepers' = IF requeue THEN [sleepers EXCEPT ![key] = @ + 2] ELSE sleepers

\* Reconcile returns. An error, or a result that asks for it, leaves behind a
\* goroutine that sleeps and enqueues the key.
Result(requeue) ==
  /\ pc' = "selecting"
  /\ key' = None
  /\ desired' = None
  /\ acted' = FALSE
  /\ sleepers' = IF requeue THEN [sleepers EXCEPT ![key] = @ + 1] ELSE sleepers

SleeperWakes(k) ==
  /\ sleepers[k] > 0
  /\ sleepers' = [sleepers EXCEPT ![k] = @ - 1]
  /\ enqueue(k)
  /\ UNCHANGED <<storeVars, watcherVars, loopVars, actual, stopped>>

\* The local variable actual: a fresh one is not in the map yet.
Observed == IF actual[key] = None THEN Fresh ELSE actual[key]

\* Step 1: the desired state is that of now, whatever event led here.
Fetch ==
  LET raw == data[key]
  IN /\ pc = "fetch"
     /\ \/ /\ raw = None
           /\ pc' = "forget"
           /\ UNCHANGED <<key, desired, acted, sleepers>>
        \/ /\ raw \notin DesiredState \cup {None}
           /\ Result(TRUE)
        \/ /\ raw \in DesiredState
           /\ desired' = raw
           /\ pc' = IF Observed.version # raw.version THEN "upgrade" ELSE "scale"
           /\ UNCHANGED <<key, acted, sleepers>>
     /\ UNCHANGED <<storeVars, watcherVars, workQueue, actual, stopped>>

\* Mutant: the actual state outlives the desired one.
ForgetNothing ==
  /\ pc = "forget"
  /\ Result(FALSE)
  /\ UNCHANGED <<storeVars, watcherVars, workQueue, actual, stopped>>

\* The key was absent when it was fetched.
Forget ==
  /\ pc = "forget"
  /\ actual' = [actual EXCEPT ![key] = None]
  /\ Result(FALSE)
  /\ UNCHANGED <<storeVars, watcherVars, workQueue, stopped>>

\* Mutant: the version is recorded before the upgrade is known to succeed.
UpgradeFailsRecorded ==
  /\ pc = "upgrade"
  /\ actual' = [actual EXCEPT ![key] = [Observed EXCEPT !.version = desired.version]]
  /\ Result(TRUE)
  /\ UNCHANGED <<storeVars, watcherVars, workQueue, stopped>>

\* Mutant: a failed upgrade is not retried.
UpgradeFailsForGood ==
  /\ pc = "upgrade"
  /\ Result(FALSE)
  /\ UNCHANGED <<storeVars, watcherVars, workQueue, actual, stopped>>

\* simulateUpgrade sleeps, and fails now and then.
UpgradeFails ==
  /\ pc = "upgrade"
  /\ Result(TRUE)
  /\ UNCHANGED <<storeVars, watcherVars, workQueue, actual, stopped>>

UpgradeSucceeds ==
  /\ pc = "upgrade"
  /\ actual' = [actual EXCEPT ![key] = [Observed EXCEPT !.version = desired.version]]
  /\ pc' = "scale"
  /\ acted' = TRUE
  /\ UNCHANGED <<storeVars, watcherVars, workQueue, sleepers, key, desired, stopped>>

Scaled(state, replicas) ==
  IF state.replicas = replicas THEN state
  ELSE [state EXCEPT !.replicas = replicas, !.healthy = TRUE]

Recovered(state) == [state EXCEPT !.healthy = @ \/ state.replicas > 0]

\* Mutant: every reconcile asks for another one, to poll.
ScalePolling ==
  /\ pc = "scale"
  /\ actual' = [actual EXCEPT ![key] = Recovered(Scaled(Observed, desired.replicas))]
  /\ Result(TRUE)
  /\ UNCHANGED <<storeVars, watcherVars, workQueue, stopped>>

\* The actual state is in the map by now: its version has been set.
Scale ==
  /\ pc = "scale"
  /\ actual' = [actual EXCEPT ![key] = Recovered(Scaled(Observed, desired.replicas))]
  /\ Result(acted \/ Observed.replicas # desired.replicas)
  /\ UNCHANGED <<storeVars, watcherVars, workQueue, stopped>>

-----------------------------------------------------------------------------
(* The program around it (cmd/control-loop/main.go).                       *)

Stop ==
  /\ ~ stopped
  /\ stopped' = TRUE
  /\ UNCHANGED <<storeVars, watcherVars, workQueue, sleepers, loopVars, actual>>

controllerVars == <<watcherVars, workQueue, sleepers, loopVars, actual, stopped>>

Sets(p, k) == \E value \in Values : Set(p, k, value)

\* Nothing makes the first Set wait for the subscription but a sleep of main
\* after Start, which is taken to be long enough.
Writes(p) ==
  /\ watching # "subscribing"
  /\ \E k \in Keys : Sets(p, k) \/ Delete(p, k)
  /\ UNCHANGED controllerVars

Notifies(p) == Notify(p) /\ UNCHANGED controllerVars

\* Another subscriber, which never reads its channel.
SlowWatcherSubscribes(w) ==
  /\ w # watchLoop
  /\ Watch(w)
  /\ UNCHANGED controllerVars

-----------------------------------------------------------------------------
WatchLoop ==
  WatchLoopSubscribes \/ WatchLoopReceives \/ WatchLoopEnqueues \/ WatchLoopReturns

ReconcileLoop ==
  \/ ReconcileLoopReceives \/ ReconcileLoopReturns
  \/ Fetch \/ Forget \/ UpgradeFails \/ UpgradeSucceeds \/ Scale

Next ==
  \/ WatchLoop
  \/ ReconcileLoop
  \/ Stop
  \/ \E k \in Keys : SleeperWakes(k)
  \/ \E p \in Writers : Writes(p) \/ Notifies(p)
  \/ \E w \in Watchers : SlowWatcherSubscribes(w)

Spec == Init /\ [][Next]_vars

\* Every goroutine that can run goes on. A select with several ready cases
\* takes each of them sooner or later, for Go chooses at random; and so does
\* simulateUpgrade, which fails at random.
Fairness ==
  /\ WF_vars(WatchLoop)
  /\ SF_vars(WatchLoopReturns)
  /\ WF_vars(ReconcileLoop)
  /\ SF_vars(ReconcileLoopReturns)
  /\ SF_vars(UpgradeSucceeds)
  /\ \A k \in Keys : WF_vars(SleeperWakes(k))
  /\ \A p \in Writers : WF_vars(Notifies(p))

FairSpec == Spec /\ Fairness

-----------------------------------------------------------------------------
Send == [event : Keys, to : Watchers]

TypeOK ==
  /\ data \in [Keys -> Values \cup {None}]
  /\ revision \in 0..MaxRevision
  /\ subscribers \in Seq(Watchers)
  /\ channel \in [Watchers -> Seq(Keys)]
  /\ \A w \in Watchers : Len(channel[w]) <= EventCap
  /\ sending \in [Writers -> Seq(Send)]
  /\ watching \in {"subscribing", "selecting", "enqueuing", "returned"}
  /\ watched \in Keys \cup {None}
  /\ workQueue \in Seq(Keys)
  /\ Len(workQueue) <= QueueCap
  /\ sleepers \in [Keys -> Nat]
  /\ pc \in {"selecting", "fetch", "forget", "upgrade", "scale", "returned"}
  /\ key \in Keys \cup {None}
  /\ desired \in DesiredState \cup {None}
  /\ acted \in BOOLEAN
  /\ actual \in [Keys -> ActualState \cup {None}]
  /\ stopped \in BOOLEAN

\* The actual state is the desired one; a cluster with replicas is healthy.
Matches(k) ==
  \/ data[k] = None /\ actual[k] = None
  \/ /\ data[k] \in DesiredState /\ actual[k] # None
     /\ actual[k].replicas = data[k].replicas
     /\ actual[k].version = data[k].version
     /\ actual[k].replicas > 0 => actual[k].healthy

In(k, sequence) == \E i \in 1..Len(sequence) : sequence[i] = k

\* Something will make the controller look at the key again.
OnTheWay(k) ==
  \/ \E p \in Writers : In([event |-> k, to |-> watchLoop], sending[p])
  \/ In(k, channel[watchLoop])
  \/ watched = k
  \/ In(k, workQueue)
  \/ sleepers[k] > 0

\* The reconcile in progress is about to see, or has seen, what is desired now.
Handled(k) ==
  /\ key = k
  /\ \/ pc = "fetch"
     \/ pc = "forget" /\ data[k] = None
     \/ pc \in {"upgrade", "scale"} /\ desired = data[k]

\* No change is forgotten: a key whose actual state differs from the desired
\* one is being reconciled against it, or on its way to be. Events are dropped,
\* by the channel (store.go:74) and by the queue (reconciler.go:78); with one
\* key in use, they are dropped only where another of that key waits.
NoKeyForgotten ==
  \A k \in Keys : Matches(k) \/ OnTheWay(k) \/ Handled(k)

\* The writers that have watchLoop still to notify, and the sleepers one by one.
Senders == { p \in Writers : \E k \in Keys : In([event |-> k, to |-> watchLoop], sending[p]) }
Sleeping == UNION { {k} \X (1..sleepers[k]) : k \in Keys }

Enqueuing == IF watching = "enqueuing" THEN 1 ELSE 0
Reconciling == IF pc \in {"selecting", "returned"} THEN 0 ELSE 1

\* What has not reached the queue, and what has left it and may come back.
Announced == Cardinality(Senders) + Len(channel[watchLoop]) + Enqueuing
Retrying == Reconciling + Cardinality(Sleeping)

WorkInHand == Announced + Len(workQueue) + Retrying

\* Work is made by changes alone: a retry, a verification or a delayed requeue
\* takes the place of what asked for it, and none ever becomes two. So as many
\* changes as a channel holds cannot fill it, whatever fails and however often.
\* (reconciler.go:89-101)
WorkBounded == WorkInHand <= revision

\* The keys that will be fetched, and the fetched one.
toFetch == { k \in Keys : OnTheWay(k) \/ (pc = "fetch" /\ key = k) }
job == IF pc \in {"forget", "upgrade", "scale"} THEN [key |-> key, desired |-> desired] ELSE None

Ideal == INSTANCE LevelTriggered WITH Desired <- DesiredState, dirty <- toFetch

\* Two channels, two loops and a goroutine for each retry behave as a set of
\* keys and one worker would: a key is lost by neither, and work is done from
\* the state of now. (main.go:91-93)
IsLevelTriggered == Ideal!Spec

\* Once nobody changes the store any more the actual state becomes, and stays,
\* the desired one, through failed upgrades, dropped events and subscribers
\* that never read. (main.go:91, "works from current state, not from the
\* event"; main.go:93, "Failures requeue automatically")
Converges ==
  \A k \in Keys : <>[](stopped \/ data[k] \notin DesiredState \cup {None} \/ Matches(k))

\* The loop comes to rest once the actual state is the desired one: retries and
\* verifications do not feed on themselves. A value of the wrong type is retried
\* for ever. (reconciler.go:182, "no action needed")
AtRest ==
  /\ pc = "selecting" /\ watching = "selecting"
  /\ workQueue = <<>> /\ channel[watchLoop] = <<>>
  /\ \A k \in Keys : sleepers[k] = 0

Settles ==
  <>[](stopped \/ AtRest \/ \E k \in Keys : data[k] \notin DesiredState \cup {None})

\* Stop ends both loops, in whatever state it finds them. (reconciler.go:198)
StopEnds == stopped ~> watching = "returned" /\ pc = "returned"
=============================================================================
