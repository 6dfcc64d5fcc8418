-------------------------- MODULE ControlLoopProofs --------------------------
(***************************************************************************)
(* The control loop is a level-triggered controller as long as no step     *)
(* loses a key, and a level-triggered controller forgets no change. No     *)
(* step loses a key where only one is in use, whatever the capacities; nor *)
(* where there were no more changes than channel and queue hold, for the   *)
(* work in hand is never more than the changes made. All of it for any     *)
(* number of writers and subscribers and any values.                       *)
(***************************************************************************)
EXTENDS ControlLoop, FiniteSetTheorems, TLAPS

-----------------------------------------------------------------------------
(* Type correctness, for any number of keys.                               *)

WatcherTypes ==
  /\ watching \in {"subscribing", "selecting", "enqueuing", "returned"}
  /\ watched \in Keys \cup {None}
  /\ IF watching = "enqueuing" THEN watched \in Keys ELSE watched = None

LoopTypes ==
  /\ pc \in {"selecting", "fetch", "forget", "upgrade", "scale", "returned"}
  /\ key \in Keys \cup {None}
  /\ desired \in DesiredState \cup {None}
  /\ pc \in {"fetch", "forget", "upgrade", "scale"} => key \in Keys
  /\ pc \in {"selecting", "fetch", "forget"} => desired = None
  /\ pc \in {"upgrade", "scale"} => desired \in DesiredState
  /\ pc = "scale" => actual[key] # None /\ actual[key].version = desired.version

\* The type invariant with what the program counters say of the variables.
Typed == TypeOK /\ WatcherTypes /\ LoopTypes

LEMMA QueueType ==
  ASSUME workQueue \in Seq(Keys), Len(workQueue) <= QueueCap, NEW k \in Keys, enqueue(k)
  PROVE  workQueue' \in Seq(Keys) /\ Len(workQueue') <= QueueCap
BY QueueCapAssumption DEF enqueue

LEMMA ResultType ==
  ASSUME Typed, key \in Keys, NEW requeue \in BOOLEAN, Result(requeue)
  PROVE  /\ pc' = "selecting" /\ key' = None /\ desired' = None /\ acted' = FALSE
         /\ sleepers' \in [Keys -> Nat]
BY DEF Typed, TypeOK, Result

LEMMA ChangeType ==
  ASSUME TypeOK, NEW p \in Writers, NEW k \in Keys, NEW value \in Values \cup {None},
         Change(p, k, value)
  PROVE  /\ data' \in [Keys -> Values \cup {None}]
         /\ revision' \in 0..MaxRevision
         /\ sending' \in [Writers -> Seq(Send)]
<1> DEFINE sends == [i \in DOMAIN subscribers |-> [event |-> k, to |-> subscribers[i]]]
<1>1. data' \in [Keys -> Values \cup {None}] /\ revision' \in 0..MaxRevision
  BY RevisionAssumption DEF TypeOK, Change
<1>2. sends \in Seq(Send)
  <2>1. /\ Len(subscribers) \in Nat /\ DOMAIN subscribers = 1..Len(subscribers)
        /\ \A i \in 1..Len(subscribers) : subscribers[i] \in Watchers
    BY DEF TypeOK
  <2>2. \A i \in 1..Len(subscribers) : [event |-> k, to |-> subscribers[i]] \in Send
    BY <2>1 DEF Send
  <2> QED
    BY <2>1, <2>2
<1>3. sending' = [sending EXCEPT ![p] = sends]
  BY DEF Change
<1> HIDE DEF sends
<1> QED
  BY <1>1, <1>2, <1>3 DEF TypeOK

LEMMA OfferType ==
  ASSUME NEW events \in Seq(Keys), Len(events) <= EventCap, NEW k \in Keys
  PROVE  Offer(events, k) \in Seq(Keys) /\ Len(Offer(events, k)) <= EventCap
BY EventCapAssumption DEF Offer

LEMMA WatchLoopType ==
  ASSUME Typed, WatchLoop
  PROVE  Typed'
<1>1. CASE WatchLoopSubscribes
  BY <1>1, WatchersAssumption
     DEF WatchLoopSubscribes, Watch, Typed, TypeOK, WatcherTypes, LoopTypes, loopVars
<1>2. CASE WatchLoopReceives
  <2>1. /\ channel[watchLoop] \in Seq(Keys) /\ channel[watchLoop] # <<>>
        /\ Len(channel[watchLoop]) <= EventCap
    BY <1>2, WatchersAssumption DEF WatchLoopReceives, Receive, Typed, TypeOK
  <2>2. /\ Head(channel[watchLoop]) \in Keys
        /\ Tail(channel[watchLoop]) \in Seq(Keys) /\ Len(Tail(channel[watchLoop])) <= EventCap
    BY <2>1, EventCapAssumption
  <2> QED
    BY <1>2, <2>2
       DEF WatchLoopReceives, Receive, Typed, TypeOK, WatcherTypes, LoopTypes, loopVars
<1>3. CASE WatchLoopEnqueues
  <2>1. workQueue' \in Seq(Keys) /\ Len(workQueue') <= QueueCap
    BY <1>3, QueueType DEF WatchLoopEnqueues, Typed, TypeOK, WatcherTypes
  <2> QED
    BY <1>3, <2>1
       DEF WatchLoopEnqueues, Typed, TypeOK, WatcherTypes, LoopTypes, loopVars, storeVars
<1>4. CASE WatchLoopReturns
  BY <1>4 DEF WatchLoopReturns, Typed, TypeOK, WatcherTypes, LoopTypes, loopVars, storeVars
<1> QED
  BY <1>1, <1>2, <1>3, <1>4 DEF WatchLoop

\* A step of the reconcile loop leaves the store and watchLoop alone.
LEMMA ReconcileLoopFrame ==
  ASSUME ReconcileLoop
  PROVE  UNCHANGED <<data, revision, subscribers, channel, sending, watching, watched, stopped>>
BY DEF ReconcileLoop, ReconcileLoopReceives, ReconcileLoopReturns, Fetch, Forget, UpgradeFails,
       UpgradeSucceeds, Scale, storeVars, watcherVars

LEMMA ObservedType ==
  ASSUME Typed, key \in Keys
  PROVE  Observed \in ActualState
BY DEF Observed, Fresh, ActualState, Typed, TypeOK

LEMMA ReconcileLoopType ==
  ASSUME Typed, ReconcileLoop
  PROVE  Typed'
<1> USE DEF LoopTypes
<1>1. /\ UNCHANGED <<data, revision, subscribers, channel, sending, watching, watched, stopped>>
      /\ TypeOK
  BY ReconcileLoopFrame DEF Typed
<1>2. SUFFICES /\ workQueue' \in Seq(Keys) /\ Len(workQueue') <= QueueCap
               /\ sleepers' \in [Keys -> Nat]
               /\ acted' \in BOOLEAN
               /\ actual' \in [Keys -> ActualState \cup {None}]
               /\ LoopTypes'
  BY <1>1 DEF Typed, TypeOK, WatcherTypes
<1>3. CASE ReconcileLoopReceives
  <2>1. workQueue \in Seq(Keys) /\ workQueue # <<>> /\ Len(workQueue) <= QueueCap
    BY <1>1, <1>3 DEF ReconcileLoopReceives, TypeOK
  <2>2. /\ Head(workQueue) \in Keys /\ Tail(workQueue) \in Seq(Keys)
        /\ Len(Tail(workQueue)) <= QueueCap
    BY <2>1, QueueCapAssumption
  <2> QED
    BY <1>1, <1>3, <2>2 DEF ReconcileLoopReceives, Typed, TypeOK
<1>4. CASE ReconcileLoopReturns
  BY <1>1, <1>4 DEF ReconcileLoopReturns, Typed, TypeOK
<1>5. CASE Fetch
  <2>1. key \in Keys /\ Observed \in ActualState /\ desired = None
    BY <1>5, ObservedType DEF Fetch, Typed
  <2>2. CASE data[key] = None /\ pc' = "forget" /\ UNCHANGED <<key, desired, acted, sleepers>>
    BY <1>1, <1>5, <2>1, <2>2 DEF Fetch, Typed, TypeOK
  <2>3. CASE Result(TRUE)
    BY <1>1, <1>5, <2>1, <2>3, ResultType DEF Fetch, Typed, TypeOK
  <2>4. CASE /\ data[key] \in DesiredState
             /\ desired' = data[key]
             /\ pc' = IF Observed.version # data[key].version THEN "upgrade" ELSE "scale"
             /\ UNCHANGED <<key, acted, sleepers>>
    <3>1. data[key].version # NoVersion
      BY <2>4, VersionsAssumption DEF DesiredState
    <3>2. Observed.version = data[key].version
            => actual[key] # None /\ actual[key].version = data[key].version
      BY <3>1 DEF Observed, Fresh
    <3> QED
      BY <1>1, <1>5, <2>1, <2>4, <3>2 DEF Fetch, Typed, TypeOK
  <2> QED
    BY <1>5, <2>2, <2>3, <2>4 DEF Fetch
<1>6. CASE Forget
  BY <1>1, <1>6, ResultType DEF Forget, Typed, TypeOK
<1>7. CASE UpgradeFails
  BY <1>1, <1>7, ResultType DEF UpgradeFails, Typed, TypeOK
<1>8. CASE UpgradeSucceeds
  <2> DEFINE new == [Observed EXCEPT !.version = desired.version]
  <2>1. key \in Keys /\ Observed \in ActualState /\ desired \in DesiredState
    BY <1>8, ObservedType DEF UpgradeSucceeds, Typed
  <2>2. new \in ActualState /\ new.version = desired.version /\ new # None
    BY <2>1, NothingAssumption DEF ActualState, DesiredState
  <2>3. actual' = [actual EXCEPT ![key] = new]
    BY <1>8 DEF UpgradeSucceeds
  <2> HIDE DEF new
  <2> QED
    BY <1>1, <1>8, <2>1, <2>2, <2>3 DEF UpgradeSucceeds, Typed, TypeOK
<1>9. CASE Scale
  <2> DEFINE new == Recovered(Scaled(Observed, desired.replicas))
  <2>1. key \in Keys /\ Observed \in ActualState /\ desired \in DesiredState
    BY <1>9, ObservedType DEF Scale, Typed
  <2>2. Scaled(Observed, desired.replicas) \in ActualState
    <3>1. desired.replicas \in Nat
      BY <2>1, ReplicasAssumption DEF DesiredState
    <3> QED
      BY <2>1, <3>1 DEF ActualState, Scaled
  <2>3. new \in ActualState
    BY <2>2 DEF ActualState, Recovered
  <2>4. actual' = [actual EXCEPT ![key] = new]
    BY <1>9 DEF Scale
  <2>5. (acted \/ Observed.replicas # desired.replicas) \in BOOLEAN
    OBVIOUS
  <2> HIDE DEF new
  <2> QED
    BY <1>1, <1>9, <2>1, <2>3, <2>4, <2>5, ResultType DEF Scale, Typed, TypeOK
<1> QED
  BY <1>3, <1>4, <1>5, <1>6, <1>7, <1>8, <1>9 DEF ReconcileLoop

LEMMA WriterType ==
  ASSUME Typed, NEW p \in Writers, Writes(p) \/ Notifies(p)
  PROVE  Typed'
<1>1. CASE Writes(p)
  <2>1. PICK k \in Keys : \E value \in Values \cup {None} : Change(p, k, value)
    BY <1>1 DEF Writes, Sets, Set, Delete
  <2>2. PICK value \in Values \cup {None} : Change(p, k, value)
    BY <2>1
  <2>3. /\ data' \in [Keys -> Values \cup {None}] /\ revision' \in 0..MaxRevision
        /\ sending' \in [Writers -> Seq(Send)]
    BY <2>2, ChangeType DEF Typed
  <2> QED
    BY <1>1, <2>2, <2>3
       DEF Writes, Change, Typed, TypeOK, WatcherTypes, LoopTypes, controllerVars, watcherVars,
           loopVars
<1>2. CASE Notifies(p)
  <2> DEFINE send == Head(sending[p])
  <2>1. sending[p] \in Seq(Send) /\ sending[p] # <<>>
    BY <1>2 DEF Notifies, Notify, Typed, TypeOK
  <2>2. send \in Send /\ Tail(sending[p]) \in Seq(Send)
    BY <2>1
  <2>3. send.event \in Keys /\ send.to \in Watchers
    BY <2>2 DEF Send
  <2>4. channel[send.to] \in Seq(Keys) /\ Len(channel[send.to]) <= EventCap
    BY <2>3 DEF Typed, TypeOK
  <2>5. /\ Offer(channel[send.to], send.event) \in Seq(Keys)
        /\ Len(Offer(channel[send.to], send.event)) <= EventCap
    BY <2>3, <2>4, OfferType
  <2>6. /\ channel' = [channel EXCEPT ![send.to] = Offer(channel[send.to], send.event)]
        /\ sending' = [sending EXCEPT ![p] = Tail(sending[p])]
        /\ UNCHANGED <<data, revision, subscribers>> /\ UNCHANGED controllerVars
    BY <1>2 DEF Notifies, Notify
  <2> HIDE DEF send
  <2>7. /\ channel' \in [Watchers -> Seq(Keys)]
        /\ \A w \in Watchers : Len(channel'[w]) <= EventCap
        /\ sending' \in [Writers -> Seq(Send)]
    BY <2>2, <2>3, <2>5, <2>6 DEF Typed, TypeOK
  <2> QED
    BY <2>6, <2>7
       DEF Typed, TypeOK, WatcherTypes, LoopTypes, controllerVars, watcherVars, loopVars
<1> QED
  BY <1>1, <1>2

LEMMA TypedInit == Init => Typed
<1> SUFFICES ASSUME Init PROVE Typed
  OBVIOUS
<1>1. /\ Len(<<>>) = 0 /\ 0 \in 0..MaxRevision
      /\ <<>> \in Seq(Keys) /\ <<>> \in Seq(Watchers) /\ <<>> \in Seq(Send)
  BY RevisionAssumption
<1>2. /\ data \in [Keys -> Values \cup {None}] /\ revision \in 0..MaxRevision
      /\ subscribers \in Seq(Watchers)
  BY <1>1 DEF Init, NewStore
<1>3. /\ channel \in [Watchers -> Seq(Keys)] /\ \A w \in Watchers : Len(channel[w]) <= EventCap
      /\ sending \in [Writers -> Seq(Send)]
  BY <1>1, EventCapAssumption DEF Init, NewStore
<1>4. workQueue \in Seq(Keys) /\ Len(workQueue) <= QueueCap
  BY <1>1, QueueCapAssumption DEF Init
<1>5. sleepers \in [Keys -> Nat] /\ actual \in [Keys -> ActualState \cup {None}]
  BY DEF Init
<1>6. TypeOK
  BY <1>2, <1>3, <1>4, <1>5 DEF Init, TypeOK
<1> QED
  BY <1>6 DEF Init, Typed, WatcherTypes, LoopTypes

LEMMA TypedNext == Typed /\ [Next]_vars => Typed'
<1> SUFFICES ASSUME Typed, [Next]_vars PROVE Typed'
  OBVIOUS
<1> USE DEF Typed, TypeOK, WatcherTypes, LoopTypes
<1>1. CASE UNCHANGED vars
  BY <1>1 DEF vars, storeVars, watcherVars, loopVars
<1>2. CASE Stop
  BY <1>2 DEF Stop, storeVars, watcherVars, loopVars
<1>3. ASSUME NEW k \in Keys, SleeperWakes(k)
      PROVE  Typed'
  <2>1. workQueue' \in Seq(Keys) /\ Len(workQueue') <= QueueCap
    BY <1>3, QueueType DEF SleeperWakes
  <2>2. sleepers' \in [Keys -> Nat]
    BY <1>3 DEF SleeperWakes
  <2> QED
    BY <1>3, <2>1, <2>2 DEF SleeperWakes, storeVars, watcherVars, loopVars
<1>4. ASSUME NEW w \in Watchers, SlowWatcherSubscribes(w)
      PROVE  Typed'
  BY <1>4 DEF SlowWatcherSubscribes, Watch, controllerVars, watcherVars, loopVars
<1> QED
  BY <1>1, <1>2, <1>3, <1>4, WatchLoopType, ReconcileLoopType, WriterType DEF Next

LEMMA LoopTyped == Spec => []Typed
BY TypedInit, TypedNext, PTL DEF Spec

\* Type correctness, whatever the capacities and however many goroutines there
\* are: neither channel nor queue ever holds more than its capacity, and the
\* reconcile in progress has what it works on. (reconciler.go:60-188)
THEOREM LoopTypeCorrect == Spec => []TypeOK
<1>1. Typed => TypeOK
  BY DEF Typed
<1> QED
  BY <1>1, LoopTyped, PTL

-----------------------------------------------------------------------------
(* What a sequence holds after an append, a tail, an offer, an enqueue.    *)

LEMMA AppendIn ==
  ASSUME NEW S, NEW s \in Seq(S), NEW e \in S
  PROVE  \A x : In(x, Append(s, e)) <=> In(x, s) \/ x = e
<1>1. /\ Len(s) \in Nat /\ Len(Append(s, e)) = Len(s) + 1
      /\ \A i \in 1..Len(s) : Append(s, e)[i] = s[i]
      /\ Append(s, e)[Len(s) + 1] = e
  OBVIOUS
<1>2. /\ Len(s) + 1 \in 1..(Len(s) + 1) /\ \A i \in 1..Len(s) : i \in 1..(Len(s) + 1)
      /\ \A i \in 1..(Len(s) + 1) : i \in 1..Len(s) \/ i = Len(s) + 1
  BY <1>1
<1> QED
  BY <1>1, <1>2 DEF In

LEMMA HeadOrTail ==
  ASSUME NEW S, NEW s \in Seq(S), s # <<>>
  PROVE  In(Head(s), s) /\ \A x : In(x, s) <=> x = Head(s) \/ In(x, Tail(s))
<1>1. /\ Len(s) \in Nat \ {0} /\ Len(Tail(s)) = Len(s) - 1 /\ Head(s) = s[1]
      /\ \A i \in 1..(Len(s) - 1) : Tail(s)[i] = s[i + 1]
  OBVIOUS
<1>2. /\ 1 \in 1..Len(s)
      /\ \A i \in 1..Len(s) : i = 1 \/ i - 1 \in 1..(Len(s) - 1)
      /\ \A i \in 1..(Len(s) - 1) : i + 1 \in 1..Len(s)
      /\ \A i \in 1..Len(s) : i - 1 + 1 = i
  BY <1>1
<1>3. ASSUME NEW x, In(x, s), x # Head(s)
      PROVE  In(x, Tail(s))
  <2>1. PICK i \in 1..Len(s) : s[i] = x
    BY <1>3 DEF In
  <2>2. i - 1 \in 1..(Len(s) - 1) /\ Tail(s)[i - 1] = x
    BY <1>1, <1>2, <1>3, <2>1
  <2> QED
    BY <1>1, <2>2 DEF In
<1> QED
  BY <1>1, <1>2, <1>3 DEF In

LEMMA OnlyKeyIn ==
  ASSUME NEW k, NEW s \in Seq({k}), Len(s) > 0
  PROVE  In(k, s)
<1>1. 1 \in 1..Len(s) /\ s[1] = k
  OBVIOUS
<1> QED
  BY <1>1 DEF In

LEMMA TailIs ==
  ASSUME NEW S, NEW s \in Seq(S), s # <<>>
  PROVE  /\ Len(s) \in Nat \ {0} /\ Len(Tail(s)) = Len(s) - 1 /\ Head(s) = s[1]
         /\ \A i \in 1..(Len(s) - 1) : Tail(s)[i] = s[i + 1]
OBVIOUS

\* A send or an enqueue adds its key, or nothing.
LEMMA EnqueueIn ==
  ASSUME Typed, NEW k \in Keys, enqueue(k), In(k, workQueue')
  PROVE  \A x : In(x, workQueue') <=> In(x, workQueue) \/ x = k
<1>1. workQueue \in Seq(Keys)
  BY DEF Typed, TypeOK
<1> QED
  BY <1>1, AppendIn DEF enqueue

LEMMA OfferIn ==
  ASSUME NEW events \in Seq(Keys), NEW k \in Keys, In(k, Offer(events, k))
  PROVE  \A x : In(x, Offer(events, k)) <=> In(x, events) \/ x = k
BY AppendIn DEF Offer

\* From its subscription on, watchLoop is told of every change.
Subscribed == watching # "subscribing" => In(watchLoop, subscribers)

LEMMA SubscribedNext == Typed /\ Subscribed /\ [Next]_vars => Subscribed'
<1> SUFFICES ASSUME Typed, Subscribed, [Next]_vars PROVE Subscribed'
  OBVIOUS
<1>1. CASE UNCHANGED subscribers /\ (watching = "subscribing" => watching' = "subscribing")
  BY <1>1 DEF Subscribed
<1>2. ASSUME NEW w \in Watchers, Watch(w), w = watchLoop \/ UNCHANGED watching
      PROVE  Subscribed'
  <2>1. subscribers \in Seq(Watchers) /\ subscribers' = Append(subscribers, w)
    BY <1>2 DEF Watch, Typed, TypeOK
  <2> QED
    BY <1>2, <2>1, AppendIn DEF Subscribed
<1>3. CASE UNCHANGED vars
  BY <1>1, <1>3 DEF vars, storeVars, watcherVars
<1>4. CASE WatchLoop
  BY <1>1, <1>2, <1>4, WatchersAssumption
     DEF WatchLoop, WatchLoopSubscribes, WatchLoopReceives, WatchLoopEnqueues, WatchLoopReturns,
         Receive, storeVars
<1>5. CASE ReconcileLoop
  BY <1>1, <1>5, ReconcileLoopFrame
<1>6. CASE Stop \/ \E k \in Keys : SleeperWakes(k)
  BY <1>1, <1>6 DEF Stop, SleeperWakes, storeVars, watcherVars
<1>7. ASSUME NEW p \in Writers, Writes(p) \/ Notifies(p)
      PROVE  Subscribed'
  BY <1>1, <1>7
     DEF Writes, Notifies, Notify, Sets, Set, Delete, Change, controllerVars, watcherVars
<1>8. ASSUME NEW w \in Watchers, SlowWatcherSubscribes(w)
      PROVE  Subscribed'
  BY <1>2, <1>8 DEF SlowWatcherSubscribes, controllerVars, watcherVars
<1> QED
  BY <1>3, <1>4, <1>5, <1>6, <1>7, <1>8 DEF Next

-----------------------------------------------------------------------------
(* Each step that loses nothing is one of LevelTriggered's, or none.       *)

\* Whatever is sent to watchLoop or enqueued is there afterwards: what was
\* dropped, if anything, was dropped where the same key waits.
NothingLost ==
  /\ \A p \in Writers :
       LET send == Head(sending[p])
       IN Notifies(p) /\ send.to = watchLoop => In(send.event, channel'[watchLoop])
  /\ WatchLoopEnqueues => In(watched, workQueue')
  /\ \A k \in Keys : SleeperWakes(k) => In(k, workQueue')

IdealStep == [Ideal!Next]_(Ideal!vars)

Sent(k) == \E p \in Writers : In([event |-> k, to |-> watchLoop], sending[p])

ToFetch(k) == OnTheWay(k) \/ (pc = "fetch" /\ key = k)

LEMMA Stutters ==
  ASSUME UNCHANGED <<data, actual, job>>, \A k \in Keys : ToFetch(k)' <=> ToFetch(k)
  PROVE  IdealStep
<1>1. toFetch' = toFetch
  BY DEF toFetch, ToFetch
<1> QED
  BY <1>1 DEF IdealStep, Ideal!vars

LEMMA WatchLoopIdeal ==
  ASSUME Typed, WatchLoop, NothingLost
  PROVE  IdealStep
<1>1. UNCHANGED <<data, sending, sleepers, pc, key, desired, actual>>
  BY DEF WatchLoop, WatchLoopSubscribes, WatchLoopReceives, WatchLoopEnqueues, WatchLoopReturns,
         Watch, Receive, storeVars, loopVars
<1>2. UNCHANGED <<data, actual, job>>
  BY <1>1 DEF job
<1>3. SUFFICES ASSUME NEW k \in Keys
               PROVE  ToFetch(k)' <=> ToFetch(k)
  BY <1>2, Stutters
<1>4. CASE WatchLoopSubscribes \/ WatchLoopReturns
  BY <1>1, <1>4
     DEF WatchLoopSubscribes, WatchLoopReturns, Watch, storeVars, ToFetch, OnTheWay, In
<1>5. CASE WatchLoopReceives
  <2> DEFINE events == channel[watchLoop]
  <2>1. events \in Seq(Keys) /\ events # <<>> /\ watched # k
    BY <1>5, WatchersAssumption, NoneAssumption
       DEF WatchLoopReceives, Receive, Typed, TypeOK, WatcherTypes
  <2>2. channel'[watchLoop] = Tail(events) /\ watched' = Head(events) /\ workQueue' = workQueue
    BY <1>5, WatchersAssumption DEF WatchLoopReceives, Receive, Typed, TypeOK
  <2>3. In(k, events) <=> k = Head(events) \/ In(k, Tail(events))
    BY <2>1, HeadOrTail
  <2>4. Sent(k)' <=> Sent(k)
    BY <1>1 DEF Sent, In
  <2>5. In(k, workQueue') <=> In(k, workQueue)
    BY <2>2
  <2> QED
    BY <1>1, <2>1, <2>2, <2>3, <2>4, <2>5 DEF ToFetch, OnTheWay, Sent
<1>6. CASE WatchLoopEnqueues
  <2>1. watched \in Keys /\ enqueue(watched) /\ In(watched, workQueue') /\ watched' = None
    BY <1>6 DEF WatchLoopEnqueues, Typed, WatcherTypes, NothingLost
  <2>2. In(k, workQueue') <=> In(k, workQueue) \/ k = watched
    BY <2>1, EnqueueIn
  <2>3. channel' = channel /\ k # None
    BY <1>6, NoneAssumption DEF WatchLoopEnqueues, storeVars
  <2> QED
    BY <1>1, <2>1, <2>2, <2>3 DEF ToFetch, OnTheWay, In
<1> QED
  BY <1>4, <1>5, <1>6 DEF WatchLoop

\* The reconcile returns with a request to come back, or without.
LEMMA ReturnIdeal ==
  ASSUME Typed, key \in Keys, NEW requeue \in BOOLEAN, Result(requeue),
         UNCHANGED <<storeVars, watcherVars, workQueue>>
  PROVE  /\ job' = None
         /\ \A k \in Keys : ToFetch(k)' <=> OnTheWay(k) \/ (requeue /\ k = key)
<1>1. sleepers \in [Keys -> Nat]
  BY DEF Typed, TypeOK
<1>2. job' = None /\ pc' = "selecting"
  BY DEF Result, job
<1>3. ASSUME NEW k \in Keys
      PROVE  sleepers'[k] > 0 <=> sleepers[k] > 0 \/ (requeue /\ k = key)
  <2>1. sleepers[k] \in Nat /\ sleepers'[k] = IF requeue /\ k = key THEN sleepers[k] + 1
                                              ELSE sleepers[k]
    BY <1>1 DEF Result
  <2> QED
    BY <2>1
<1>4. ASSUME NEW k \in Keys
      PROVE  OnTheWay(k)' <=> OnTheWay(k) \/ sleepers'[k] > 0
  <2>1. sleepers[k] > 0 => sleepers'[k] > 0
    BY <1>3
  <2> QED
    BY <2>1 DEF OnTheWay, In, storeVars, watcherVars
<1>5. ASSUME NEW k \in Keys
      PROVE  sleepers[k] > 0 => OnTheWay(k)
  BY DEF OnTheWay
<1> QED
  BY <1>2, <1>3, <1>4, <1>5 DEF ToFetch

LEMMA FetchIdeal ==
  ASSUME Typed, Fetch
  PROVE  IdealStep
<1>1. key \in Keys /\ pc = "fetch" /\ desired = None /\ job = None
  BY DEF Fetch, Typed, LoopTypes, job
<1>2. UNCHANGED <<storeVars, watcherVars, workQueue, actual, data>>
  BY DEF Fetch, storeVars
<1>3. \A k \in Keys : ToFetch(k) <=> OnTheWay(k) \/ k = key
  BY <1>1 DEF ToFetch
<1>4. CASE Result(TRUE)
  BY <1>1, <1>2, <1>3, <1>4, ReturnIdeal, Stutters
<1>5. CASE /\ pc' \in {"forget", "upgrade", "scale"}
           /\ desired' = data[key] /\ data[key] \in DesiredState \cup {None}
           /\ UNCHANGED <<key, sleepers>>
  <2>1. job' = [key |-> key, desired |-> data[key]]
    BY <1>5 DEF job
  <2>2. \A k \in Keys : ToFetch(k)' <=> OnTheWay(k)
    BY <1>2, <1>5 DEF ToFetch, OnTheWay, In, storeVars, watcherVars
  <2>3. toFetch' \in {toFetch, toFetch \ {key}}
    BY <1>3, <2>2 DEF toFetch, ToFetch
  <2>4. key \in toFetch
    BY <1>1, <1>3 DEF toFetch, ToFetch
  <2>5. Ideal!Take(key)
    BY <1>1, <1>2, <1>5, <2>1, <2>3, <2>4 DEF Ideal!Take
  <2> QED
    BY <1>1, <2>5 DEF IdealStep, Ideal!Next
<1> QED
  BY <1>1, <1>4, <1>5 DEF Fetch

LEMMA JobIs ==
  ASSUME Typed, pc \in {"forget", "upgrade", "scale"}
  PROVE  /\ key \in Keys /\ desired \in DesiredState \cup {None}
         /\ job # None /\ job.key = key /\ job.desired = desired
         /\ \A k \in Keys : ToFetch(k) <=> OnTheWay(k)
<1>1. /\ key \in Keys /\ job = [key |-> key, desired |-> desired]
      /\ desired \in DesiredState \cup {None}
  BY DEF Typed, LoopTypes, job
<1>2. [key |-> key, desired |-> desired] \in [key : Keys, desired : DesiredState \cup {None}]
  BY <1>1
<1>3. None \notin [key : Keys, desired : DesiredState \cup {None}]
  BY NothingAssumption
<1>4. \A k \in Keys : ToFetch(k) <=> OnTheWay(k)
  BY DEF ToFetch
<1> QED
  BY <1>1, <1>2, <1>3, <1>4

LEMMA ReconcileLoopIdeal ==
  ASSUME Typed, ReconcileLoop
  PROVE  IdealStep
<1>1. UNCHANGED <<data, subscribers, channel, sending, watching, watched>>
  BY ReconcileLoopFrame
<1>2. CASE ReconcileLoopReceives
  <2>1. workQueue \in Seq(Keys) /\ workQueue # <<>>
    BY <1>2 DEF ReconcileLoopReceives, Typed, TypeOK
  <2>2. /\ key' = Head(workQueue) /\ workQueue' = Tail(workQueue) /\ sleepers' = sleepers
        /\ pc = "selecting" /\ pc' = "fetch"
    BY <1>2 DEF ReconcileLoopReceives
  <2>3. \A k \in Keys : In(k, workQueue) <=> k = key' \/ In(k, workQueue')
    BY <2>1, <2>2, HeadOrTail
  <2>4. \A k \in Keys : ToFetch(k)' <=> ToFetch(k)
    BY <1>1, <2>2, <2>3 DEF ToFetch, OnTheWay
  <2>5. UNCHANGED <<data, actual, job>>
    BY <1>1, <1>2 DEF ReconcileLoopReceives, job
  <2> QED
    BY <2>4, <2>5, Stutters
<1>3. CASE ReconcileLoopReturns
  <2>1. UNCHANGED <<data, actual, job>>
    BY <1>1, <1>3 DEF ReconcileLoopReturns, job
  <2>2. \A k \in Keys : ToFetch(k)' <=> ToFetch(k)
    BY <1>1, <1>3 DEF ReconcileLoopReturns, ToFetch, OnTheWay, In
  <2> QED
    BY <2>1, <2>2, Stutters
<1>4. CASE Forget
  <2>1. /\ key \in Keys /\ job # None /\ job.key = key /\ job.desired = None
        /\ \A k \in Keys : ToFetch(k) <=> OnTheWay(k)
    BY <1>4, JobIs DEF Forget, Typed, LoopTypes
  <2>2. Result(FALSE) /\ UNCHANGED <<storeVars, watcherVars, workQueue>>
    BY <1>4 DEF Forget
  <2>3. job' = None /\ \A k \in Keys : ToFetch(k)' <=> OnTheWay(k)
    BY <2>1, <2>2, ReturnIdeal
  <2>4. toFetch' = toFetch
    BY <2>1, <2>3 DEF toFetch, ToFetch
  <2>5. actual'[key] = None /\ \A k \in Keys \ {key} : actual'[k] = actual[k]
    BY <1>4, <2>1 DEF Forget, Typed, TypeOK
  <2>6. Ideal!Finish
    BY <1>1, <2>1, <2>3, <2>4, <2>5 DEF Ideal!Finish, Ideal!Only, Ideal!Agrees
  <2> QED
    BY <2>6 DEF IdealStep, Ideal!Next
<1>5. CASE UpgradeFails
  <2>1. /\ key \in Keys /\ job # None /\ job.key = key
        /\ \A k \in Keys : ToFetch(k) <=> OnTheWay(k)
    BY <1>5, JobIs DEF UpgradeFails
  <2>2. Result(TRUE) /\ UNCHANGED <<storeVars, watcherVars, workQueue>>
    BY <1>5 DEF UpgradeFails
  <2>3. job' = None /\ \A k \in Keys : ToFetch(k)' <=> OnTheWay(k) \/ k = key
    BY <2>1, <2>2, ReturnIdeal
  <2>4. toFetch' = toFetch \cup {key}
    BY <2>1, <2>3 DEF toFetch, ToFetch
  <2>5. Ideal!GiveUp
    BY <1>1, <1>5, <2>1, <2>3, <2>4 DEF UpgradeFails, Ideal!GiveUp
  <2> QED
    BY <2>5 DEF IdealStep, Ideal!Next
<1>6. CASE UpgradeSucceeds
  <2> DEFINE new == [Observed EXCEPT !.version = desired.version]
  <2>1. /\ key \in Keys /\ job # None /\ job.key = key /\ job.desired = desired
        /\ desired \in DesiredState /\ desired # None
    BY <1>6, JobIs, NothingAssumption DEF UpgradeSucceeds, Typed, LoopTypes
  <2>2. job' = job
    BY <1>6 DEF UpgradeSucceeds, job
  <2>3. toFetch' = toFetch
    BY <1>1, <1>6 DEF UpgradeSucceeds, toFetch, OnTheWay, In
  <2>4. actual'[key] = new /\ \A k \in Keys \ {key} : actual'[k] = actual[k]
    BY <1>6, <2>1 DEF UpgradeSucceeds, Typed, TypeOK
  <2>5. Observed \in ActualState
    BY <2>1, ObservedType
  <2>6. new # None /\ new.version = desired.version
    BY <2>1, <2>5, NothingAssumption DEF ActualState, DesiredState
  <2> HIDE DEF new
  <2>7. Ideal!Upgrade
    BY <1>1, <2>1, <2>2, <2>3, <2>4, <2>6 DEF Ideal!Upgrade, Ideal!Only
  <2> QED
    BY <2>7 DEF IdealStep, Ideal!Next
<1>7. CASE Scale
  <2> DEFINE new == Recovered(Scaled(Observed, desired.replicas))
             again == acted \/ Observed.replicas # desired.replicas
  <2>1. /\ key \in Keys /\ job # None /\ job.key = key /\ job.desired = desired
        /\ desired \in DesiredState /\ desired # None
        /\ \A k \in Keys : ToFetch(k) <=> OnTheWay(k)
    BY <1>7, JobIs, NothingAssumption DEF Scale, Typed, LoopTypes
  <2>2. again \in BOOLEAN /\ Result(again) /\ UNCHANGED <<storeVars, watcherVars, workQueue>>
    BY <1>7 DEF Scale
  <2>3. job' = None /\ \A k \in Keys : ToFetch(k)' <=> OnTheWay(k) \/ (again /\ k = key)
    <3> HIDE DEF again
    <3> QED
      BY <2>1, <2>2, ReturnIdeal
  <2>4. actual'[key] = new /\ \A k \in Keys \ {key} : actual'[k] = actual[k]
    BY <1>7, <2>1 DEF Scale, Typed, TypeOK
  <2>5. Observed \in ActualState /\ Observed.version = desired.version
    BY <1>7, <2>1, ObservedType DEF Observed, Scale, Typed, LoopTypes
  <2>6. desired.replicas \in Nat
    BY <2>1, ReplicasAssumption DEF DesiredState
  <2>7. /\ Scaled(Observed, desired.replicas) \in ActualState
        /\ Scaled(Observed, desired.replicas).version = desired.version
        /\ Scaled(Observed, desired.replicas).replicas = desired.replicas
    BY <2>5, <2>6 DEF ActualState, Scaled
  <2>8. /\ new \in ActualState /\ new.version = desired.version
        /\ new.replicas = desired.replicas
        /\ new.replicas > 0 => new.healthy
    BY <2>7 DEF ActualState, Recovered
  <2>9. new # None
    BY <2>8, NothingAssumption DEF ActualState
  <2>10. toFetch' \in {toFetch, toFetch \cup {key}}
    <3> HIDE DEF again
    <3>1. CASE again
      BY <2>1, <2>3, <3>1 DEF toFetch, ToFetch
    <3>2. CASE ~ again
      BY <2>1, <2>3, <3>2 DEF toFetch, ToFetch
    <3> QED
      BY <3>1, <3>2
  <2> HIDE DEF new, again
  <2>11. Ideal!Finish
    BY <1>1, <2>1, <2>3, <2>4, <2>8, <2>9, <2>10 DEF Ideal!Finish, Ideal!Only, Ideal!Agrees
  <2> QED
    BY <2>11 DEF IdealStep, Ideal!Next
<1> QED
  BY <1>2, <1>3, <1>4, <1>5, <1>6, <1>7, FetchIdeal DEF ReconcileLoop

\* Every change is an event for watchLoop: its send is among those to be done.
LEMMA WritesIdeal ==
  ASSUME Typed, Subscribed, NEW p \in Writers, Writes(p)
  PROVE  IdealStep
<1>1. PICK k \in Keys : \E value \in Values \cup {None} : Change(p, k, value)
  BY DEF Writes, Sets, Set, Delete
<1> DEFINE sends == [i \in DOMAIN subscribers |-> [event |-> k, to |-> subscribers[i]]]
           mine(x) == [event |-> x, to |-> watchLoop]
<1>2. /\ UNCHANGED <<actual, job, channel, watched, workQueue, sleepers, pc, key>>
      /\ watching # "subscribing"
  BY <1>1 DEF Writes, Change, controllerVars, watcherVars, loopVars, job
<1>3. /\ sending[p] = <<>> /\ sending' = [sending EXCEPT ![p] = sends]
      /\ \A x \in Keys \ {k} : data'[x] = data[x]
  BY <1>1 DEF Change, Typed, TypeOK
<1>4. sending'[p] = sends /\ \A q \in Writers \ {p} : sending'[q] = sending[q]
  BY <1>3 DEF Typed, TypeOK
<1>5. /\ subscribers \in Seq(Watchers) /\ DOMAIN subscribers = 1..Len(subscribers)
      /\ In(watchLoop, subscribers)
  BY <1>2 DEF Typed, TypeOK, Subscribed
<1>6. Len(sends) = Len(subscribers)
  BY <1>5
<1>7. ASSUME NEW x \in Keys
      PROVE  In(mine(x), sends) <=> x = k
  <2>1. \A i \in 1..Len(sends) : sends[i].event = k /\ sends[i].to = subscribers[i]
    BY <1>5, <1>6
  <2>2. In(mine(x), sends) => x = k
    BY <2>1 DEF In
  <2>3. PICK i \in 1..Len(subscribers) : subscribers[i] = watchLoop
    BY <1>5 DEF In
  <2>4. sends[i] = mine(k)
    BY <1>5, <2>3
  <2> QED
    BY <1>6, <2>2, <2>4 DEF In
<1>8. ~ \E x : In(x, sending[p])
  BY <1>3 DEF In
<1> HIDE DEF sends
<1>9. ASSUME NEW x \in Keys
      PROVE  Sent(x)' <=> Sent(x) \/ x = k
  <2>1. \A q \in Writers \ {p} : In(mine(x), sending'[q]) <=> In(mine(x), sending[q])
    BY <1>4
  <2>2. In(mine(x), sending'[p]) <=> x = k
    BY <1>4, <1>7
  <2>3. ~ In(mine(x), sending[p])
    BY <1>8
  <2> QED
    BY <2>1, <2>2, <2>3 DEF Sent
<1>10. \A x \in Keys : ToFetch(x)' <=> ToFetch(x) \/ x = k
  BY <1>2, <1>9 DEF ToFetch, OnTheWay, Sent, In
<1>11. toFetch' = toFetch \cup {k}
  BY <1>10 DEF toFetch, ToFetch
<1>12. Ideal!Declare(k)
  BY <1>2, <1>3, <1>11 DEF Ideal!Declare
<1> QED
  BY <1>12 DEF IdealStep, Ideal!Next

LEMMA NotifiesIdeal ==
  ASSUME Typed, NEW p \in Writers, Notifies(p), NothingLost
  PROVE  IdealStep
<1> DEFINE send == Head(sending[p])
           mine(x) == [event |-> x, to |-> watchLoop]
<1>1. /\ sending[p] \in Seq(Send) /\ sending[p] # <<>>
      /\ channel' = [channel EXCEPT ![send.to] = Offer(@, send.event)]
      /\ sending' = [sending EXCEPT ![p] = Tail(@)]
  BY DEF Notifies, Notify, Typed, TypeOK
<1>2. UNCHANGED <<data, actual, job, watched, workQueue, sleepers, pc, key>>
  BY DEF Notifies, Notify, controllerVars, watcherVars, loopVars, job
<1>3. send \in Send /\ \A x : In(x, sending[p]) <=> x = send \/ In(x, Tail(sending[p]))
  BY <1>1, HeadOrTail
<1>4. /\ send.event \in Keys /\ send.to \in Watchers
      /\ \A x : send = mine(x) <=> send.to = watchLoop /\ x = send.event
  BY <1>3 DEF Send
<1>5. /\ sending'[p] = Tail(sending[p])
      /\ \A q \in Writers \ {p} : sending'[q] = sending[q]
  BY <1>1 DEF Typed, TypeOK
<1>6. send.to = watchLoop => In(send.event, channel'[watchLoop])
  BY DEF NothingLost
<1> HIDE DEF send
<1>7. \A x \in Keys : Sent(x) <=> Sent(x)' \/ (send.to = watchLoop /\ x = send.event)
  <2> SUFFICES ASSUME NEW x \in Keys
               PROVE  Sent(x) <=> Sent(x)' \/ (send.to = watchLoop /\ x = send.event)
    OBVIOUS
  <2>1. In(mine(x), sending[p])
          <=> (send.to = watchLoop /\ x = send.event) \/ In(mine(x), sending'[p])
    BY <1>3, <1>4, <1>5
  <2>2. \A q \in Writers \ {p} : In(mine(x), sending'[q]) <=> In(mine(x), sending[q])
    BY <1>5
  <2> QED
    BY <2>1, <2>2 DEF Sent
<1>8. \A x \in Keys : In(x, channel'[watchLoop])
                        <=> In(x, channel[watchLoop]) \/ (send.to = watchLoop /\ x = send.event)
  <2>1. CASE send.to = watchLoop
    <3>1. channel[watchLoop] \in Seq(Keys)
      BY WatchersAssumption DEF Typed, TypeOK
    <3>2. channel'[watchLoop] = Offer(channel[watchLoop], send.event)
      BY <1>1, <2>1, WatchersAssumption DEF Typed, TypeOK
    <3> QED
      BY <1>4, <1>6, <2>1, <3>1, <3>2, OfferIn
  <2>2. CASE send.to # watchLoop
    BY <1>1, <2>2, WatchersAssumption DEF Typed, TypeOK
  <2> QED
    BY <2>1, <2>2
<1>9. \A x \in Keys : ToFetch(x)' <=> ToFetch(x)
  BY <1>2, <1>7, <1>8 DEF ToFetch, OnTheWay, Sent
<1> QED
  BY <1>2, <1>9, Stutters

LEMMA IdealNext == Typed /\ Subscribed /\ [Next]_vars /\ [NothingLost]_vars => IdealStep
<1> SUFFICES ASSUME Typed, Subscribed, [Next]_vars, [NothingLost]_vars PROVE IdealStep
  OBVIOUS
<1>1. CASE UNCHANGED vars
  BY <1>1, Stutters
     DEF vars, storeVars, watcherVars, loopVars, job, ToFetch, OnTheWay, In
<1> SUFFICES ASSUME Next, NothingLost PROVE IdealStep
  BY <1>1
<1>2. CASE Stop \/ \E w \in Watchers : SlowWatcherSubscribes(w)
  BY <1>2, Stutters
     DEF Stop, SlowWatcherSubscribes, Watch, controllerVars, storeVars, watcherVars, loopVars,
         job, ToFetch, OnTheWay, In
<1>3. ASSUME NEW k \in Keys, SleeperWakes(k)
      PROVE  IdealStep
  <2>1. enqueue(k) /\ In(k, workQueue') /\ sleepers[k] > 0
    BY <1>3 DEF SleeperWakes, NothingLost
  <2>2. \A x : In(x, workQueue') <=> In(x, workQueue) \/ x = k
    BY <2>1, EnqueueIn
  <2>3. \A x \in Keys \ {k} : sleepers'[x] = sleepers[x]
    BY <1>3 DEF SleeperWakes, Typed, TypeOK
  <2>4. UNCHANGED <<data, actual, job, sending, channel, watched, pc, key>>
    BY <1>3 DEF SleeperWakes, storeVars, watcherVars, loopVars, job
  <2>5. ToFetch(k)' /\ ToFetch(k)
    BY <2>1 DEF ToFetch, OnTheWay
  <2>6. \A x \in Keys \ {k} : ToFetch(x)' <=> ToFetch(x)
    BY <2>2, <2>3, <2>4 DEF ToFetch, OnTheWay
  <2> QED
    BY <2>4, <2>5, <2>6, Stutters
<1> QED
  BY <1>2, <1>3, WatchLoopIdeal, ReconcileLoopIdeal, WritesIdeal, NotifiesIdeal DEF Next

LEMMA IdealInit == Init => Ideal!Init
<1> SUFFICES ASSUME Init PROVE Ideal!Init
  OBVIOUS
<1>1. ASSUME NEW k \in Keys
      PROVE  ~ ToFetch(k)
  <2>1. \A x : ~ In(x, <<>>)
    BY DEF In
  <2>2. /\ \A p \in Writers : sending[p] = <<>>
        /\ channel[watchLoop] = <<>> /\ watched # k /\ workQueue = <<>>
        /\ sleepers[k] = 0 /\ pc = "selecting"
    BY WatchersAssumption, NoneAssumption DEF Init, NewStore
  <2> QED
    BY <2>1, <2>2 DEF ToFetch, OnTheWay
<1>2. toFetch = {} /\ job = None
  BY <1>1 DEF Init, job, toFetch, ToFetch
<1> QED
  BY <1>2 DEF Init, NewStore, Ideal!Init

\* The refinement, for any keys: as long as nothing is lost by a drop, two
\* bounded channels, two loops and a goroutine for every retry behave as a set
\* of keys and one worker. So a drop is the only thing that can break it.
\* (control-loop/main.go:90-94)
THEOREM WithoutLossLevelTriggered == Spec /\ [][NothingLost]_vars => IsLevelTriggered
<1>1. Init => Typed /\ Subscribed /\ Ideal!Init
  BY TypedInit, IdealInit DEF Subscribed, Init
<1>2. Typed /\ Subscribed /\ [Next]_vars /\ [NothingLost]_vars
        => Typed' /\ Subscribed' /\ IdealStep
  BY TypedNext, SubscribedNext, IdealNext
<1> QED
  BY <1>1, <1>2, PTL DEF Spec, IdealStep, IsLevelTriggered, Ideal!Spec

-----------------------------------------------------------------------------
(* What a level-triggered controller is good for.                          *)

\* The worker's picture of its key is up to date, or will be replaced.
JobCurrent ==
  job # None => job.desired = data[job.key] \/ job.key \in toFetch

LEMMA IdealForgetsNothing ==
  Typed /\ JobCurrent /\ Ideal!NothingForgotten /\ IdealStep
    => JobCurrent' /\ Ideal!NothingForgotten'
<1> SUFFICES ASSUME Typed, JobCurrent, Ideal!NothingForgotten, IdealStep
             PROVE  JobCurrent' /\ Ideal!NothingForgotten'
  OBVIOUS
<1> USE DEF JobCurrent, Ideal!NothingForgotten
<1>0. job # None => job.key \in Keys /\ job.desired \in DesiredState \cup {None}
  BY DEF job, Typed, LoopTypes
<1>1. CASE UNCHANGED Ideal!vars
  BY <1>1 DEF Ideal!vars
<1>2. ASSUME NEW k \in Keys, Ideal!Declare(k)
      PROVE  JobCurrent' /\ Ideal!NothingForgotten'
  <2>1. JobCurrent'
    <3>1. CASE job = None
      BY <1>2, <3>1 DEF Ideal!Declare
    <3>2. CASE job # None /\ job.key \in Keys \ {k}
      BY <1>2, <3>2 DEF Ideal!Declare
    <3>3. CASE job # None /\ job.key \in toFetch \cup {k}
      BY <1>2, <3>3 DEF Ideal!Declare
    <3> QED
      BY <1>0, <3>1, <3>2, <3>3
  <2> QED
    BY <1>2, <2>1 DEF Ideal!Declare
<1>3. ASSUME NEW k \in Keys, Ideal!Take(k)
      PROVE  JobCurrent' /\ Ideal!NothingForgotten'
  <2>1. job' \in [key : Keys, desired : DesiredState \cup {None}]
    BY <1>3 DEF Ideal!Take
  <2>2. job' # None /\ job'.key = k /\ job'.desired = data[k] /\ data' = data
    BY <1>3, <2>1, NothingAssumption DEF Ideal!Take
  <2> QED
    BY <1>3, <2>2 DEF Ideal!Take
<1>4. CASE Ideal!GiveUp
  BY <1>4 DEF Ideal!GiveUp
<1>5. CASE Ideal!Upgrade
  BY <1>5 DEF Ideal!Upgrade, Ideal!Only
<1>6. CASE Ideal!Finish
  <2>1. job # None /\ job' = None /\ data' = data /\ job.key \in Keys
    BY <1>0, <1>6 DEF Ideal!Finish
  <2>2. \A k \in Keys \ {job.key} : actual'[k] = actual[k]
    BY <1>6 DEF Ideal!Finish, Ideal!Only
  <2>3. Ideal!Agrees(actual'[job.key], job.desired)
    BY <1>6 DEF Ideal!Finish
  <2> QED
    BY <1>0, <1>6, <2>1, <2>2, <2>3 DEF Ideal!Finish
<1> QED
  BY <1>1, <1>2, <1>3, <1>4, <1>5, <1>6 DEF IdealStep, Ideal!Next

LEMMA NothingForgottenIs ==
  Typed /\ Ideal!NothingForgotten => NoKeyForgotten
<1> SUFFICES ASSUME Typed, Ideal!NothingForgotten, NEW k \in Keys
             PROVE  Matches(k) \/ OnTheWay(k) \/ Handled(k)
  BY DEF NoKeyForgotten
<1>1. CASE data[k] \in DesiredState \cup {None} /\ Ideal!Agrees(actual[k], data[k])
  BY <1>1, NothingAssumption DEF Ideal!Agrees, Matches
<1>2. CASE k \in toFetch
  BY <1>2 DEF toFetch, Handled
<1>3. CASE job # None /\ job.key = k /\ job.desired = data[k]
  <2>1. pc \in {"forget", "upgrade", "scale"} /\ job = [key |-> key, desired |-> desired]
    BY <1>3 DEF job
  <2>2. key = k /\ desired = data[k]
    BY <1>3, <2>1
  <2> QED
    BY <2>1, <2>2 DEF Handled, Typed, LoopTypes
<1> QED
  BY <1>1, <1>2, <1>3 DEF Ideal!NothingForgotten

LEMMA NothingForgottenInit == Init => JobCurrent /\ Ideal!NothingForgotten
<1> SUFFICES ASSUME Init PROVE JobCurrent /\ Ideal!NothingForgotten
  OBVIOUS
<1>1. Ideal!Init
  BY IdealInit
<1>2. \A x \in Keys : data[x] = None /\ actual[x] = None
  BY <1>1 DEF Ideal!Init
<1> QED
  BY <1>1, <1>2 DEF Ideal!Init, JobCurrent, Ideal!NothingForgotten, Ideal!Agrees

\* A drop is also the only way in which a change is forgotten: failed upgrades,
\* values of the wrong type, Stop and slow subscribers forget none, for any keys.
\* (control-loop/main.go:90-94)
THEOREM WithoutLossNothingForgotten == Spec /\ [][NothingLost]_vars => []NoKeyForgotten
<1>1. Init => Typed /\ Subscribed /\ JobCurrent /\ Ideal!NothingForgotten
  BY TypedInit, NothingForgottenInit DEF Subscribed, Init
<1>2. Typed /\ Subscribed /\ JobCurrent /\ Ideal!NothingForgotten /\ [Next]_vars
          /\ [NothingLost]_vars
        => Typed' /\ Subscribed' /\ JobCurrent' /\ Ideal!NothingForgotten'
  BY TypedNext, SubscribedNext, IdealNext, IdealForgetsNothing
<1>3. Typed /\ Ideal!NothingForgotten => NoKeyForgotten
  BY NothingForgottenIs
<1> QED
  BY <1>1, <1>2, <1>3, PTL DEF Spec

-----------------------------------------------------------------------------
(* One key in use: what is dropped is dropped where that key waits.        *)

LEMMA OneKeyIsNotLost ==
  ASSUME NEW CONSTANT k, Keys = {k}
  PROVE  Typed /\ [Next]_vars => NothingLost
<1> SUFFICES ASSUME Typed, [Next]_vars PROVE NothingLost
  OBVIOUS
<1>1. workQueue \in Seq({k})
  BY DEF Typed, TypeOK
<1>2. ASSUME enqueue(k)
      PROVE  In(k, workQueue')
  <2>1. CASE workQueue' = Append(workQueue, k)
    BY <1>1, <2>1, AppendIn
  <2>2. CASE workQueue' = workQueue /\ Len(workQueue) >= QueueCap
    BY <1>1, <2>2, OnlyKeyIn, QueueCapAssumption
  <2>3. Len(workQueue) \in Nat /\ QueueCap \in Nat
    BY <1>1, QueueCapAssumption
  <2> QED
    BY <1>2, <2>1, <2>2, <2>3 DEF enqueue
<1>3. ASSUME NEW events \in Seq({k})
      PROVE  In(k, Offer(events, k))
  <2>1. CASE Len(events) < EventCap
    BY <2>1, AppendIn DEF Offer
  <2>2. CASE ~ (Len(events) < EventCap)
    <3>1. Len(events) > 0
      BY <2>2, EventCapAssumption
    <3> QED
      BY <2>2, <3>1, OnlyKeyIn DEF Offer
  <2> QED
    BY <2>1, <2>2
<1>4. ASSUME NEW p \in Writers, Notifies(p), Head(sending[p]).to = watchLoop
      PROVE  In(Head(sending[p]).event, channel'[watchLoop])
  <2> DEFINE send == Head(sending[p])
  <2>1. sending[p] \in Seq(Send) /\ sending[p] # <<>>
        /\ channel' = [channel EXCEPT ![send.to] = Offer(@, send.event)]
    BY <1>4 DEF Notifies, Notify, Typed, TypeOK
  <2>2. send \in Send
    BY <2>1
  <2>3. send.event = k
    BY <2>2 DEF Send
  <2>4. channel[watchLoop] \in Seq({k})
    BY WatchersAssumption DEF Typed, TypeOK
  <2> HIDE DEF send
  <2>5. send.to = watchLoop
    BY <1>4 DEF send
  <2>6. channel'[watchLoop] = Offer(channel[watchLoop], k)
    BY <2>1, <2>3, <2>5, WatchersAssumption DEF Typed, TypeOK
  <2>7. In(send.event, channel'[watchLoop])
    BY <1>3, <2>3, <2>4, <2>6
  <2> QED
    BY <2>7 DEF send
<1>5. WatchLoopEnqueues => In(watched, workQueue')
  BY <1>2 DEF WatchLoopEnqueues, Typed, WatcherTypes
<1>6. \A x \in Keys : SleeperWakes(x) => In(x, workQueue')
  BY <1>2 DEF SleeperWakes
<1> QED
  BY <1>4, <1>5, <1>6 DEF NothingLost

\* With one key in use, two bounded channels that drop what does not fit, two
\* loops and a goroutine for every retry are a level-triggered controller:
\* nothing that is dropped matters. (control-loop/main.go:90-94)
THEOREM OneKeyIsLevelTriggered ==
  ASSUME NEW CONSTANT k, Keys = {k}
  PROVE  Spec => IsLevelTriggered
<1>1. Typed /\ [Next]_vars => [NothingLost]_vars
  BY OneKeyIsNotLost
<1> QED
  BY <1>1, LoopTyped, WithoutLossLevelTriggered, PTL DEF Spec

\* With one key in use no change is forgotten, whatever is dropped, however
\* often upgrades fail, and after Stop as well. (store.go:74, reconciler.go:78)
THEOREM OneKeyIsNotForgotten ==
  ASSUME NEW CONSTANT k, Keys = {k}
  PROVE  Spec => []NoKeyForgotten
<1>1. Typed /\ [Next]_vars => [NothingLost]_vars
  BY OneKeyIsNotLost
<1> QED
  BY <1>1, LoopTyped, WithoutLossNothingForgotten, PTL DEF Spec
-----------------------------------------------------------------------------
(* How much work there is: no more than there were changes.                *)

\* Nobody subscribes twice, so no change is sent twice to one subscriber.
SentOnce ==
  /\ \A i, j \in 1..Len(subscribers) : subscribers[i] = subscribers[j] => i = j
  /\ \A p \in Writers : \A i, j \in 1..Len(sending[p]) :
       sending[p][i].to = sending[p][j].to => i = j

LEMMA SentOnceNext == Typed /\ SentOnce /\ [Next]_vars => SentOnce'
<1> SUFFICES ASSUME Typed, SentOnce, [Next]_vars PROVE SentOnce'
  OBVIOUS
<1>1. CASE UNCHANGED <<subscribers, sending>>
  BY <1>1 DEF SentOnce
<1>2. ASSUME NEW w \in Watchers, Watch(w)
      PROVE  SentOnce'
  <2>1. /\ subscribers \in Seq(Watchers) /\ subscribers' = Append(subscribers, w)
        /\ sending' = sending
        /\ \A i \in 1..Len(subscribers) : subscribers[i] # w
    BY <1>2 DEF Watch, Typed, TypeOK
  <2>2. /\ Len(subscribers) \in Nat /\ Len(subscribers') = Len(subscribers) + 1
        /\ \A i \in 1..Len(subscribers) : subscribers'[i] = subscribers[i]
        /\ subscribers'[Len(subscribers) + 1] = w
    BY <2>1
  <2>3. \A i \in 1..(Len(subscribers) + 1) : i \in 1..Len(subscribers) \/ i = Len(subscribers) + 1
    BY <2>2
  <2> QED
    BY <2>1, <2>2, <2>3 DEF SentOnce
<1>3. ASSUME NEW p \in Writers, Writes(p)
      PROVE  SentOnce'
  <2>1. PICK k \in Keys : \E value \in Values \cup {None} : Change(p, k, value)
    BY <1>3 DEF Writes, Sets, Set, Delete
  <2> DEFINE sends == [i \in DOMAIN subscribers |-> [event |-> k, to |-> subscribers[i]]]
  <2>2. subscribers \in Seq(Watchers) /\ sending \in [Writers -> Seq(Send)]
    BY DEF Typed, TypeOK
  <2>3. subscribers' = subscribers /\ sending' = [sending EXCEPT ![p] = sends]
    BY <2>1 DEF Change
  <2>4. Len(sends) = Len(subscribers)
        /\ \A i \in 1..Len(subscribers) : sends[i].to = subscribers[i]
    BY <2>2
  <2> HIDE DEF sends
  <2>5. sending'[p] = sends /\ \A q \in Writers \ {p} : sending'[q] = sending[q]
    BY <2>2, <2>3
  <2> QED
    BY <2>3, <2>4, <2>5 DEF SentOnce
<1>4. ASSUME NEW p \in Writers, Notifies(p)
      PROVE  SentOnce'
  <2>1. /\ sending[p] \in Seq(Send) /\ sending[p] # <<>> /\ subscribers' = subscribers
        /\ sending' = [sending EXCEPT ![p] = Tail(sending[p])]
    BY <1>4 DEF Notifies, Notify, Typed, TypeOK
  <2>2. sending'[p] = Tail(sending[p]) /\ \A q \in Writers \ {p} : sending'[q] = sending[q]
    BY <2>1 DEF Typed, TypeOK
  <2>3. /\ Len(sending[p]) \in Nat /\ Len(Tail(sending[p])) = Len(sending[p]) - 1
        /\ \A i \in 1..(Len(sending[p]) - 1) :
             i + 1 \in 1..Len(sending[p]) /\ Tail(sending[p])[i] = sending[p][i + 1]
    BY <2>1
  <2>4. ASSUME NEW i \in 1..Len(sending'[p]), NEW j \in 1..Len(sending'[p]),
               sending'[p][i].to = sending'[p][j].to
        PROVE  i = j
    <3>1. sending[p][i + 1].to = sending[p][j + 1].to
      BY <2>2, <2>3, <2>4
    <3>2. i + 1 = j + 1
      BY <2>2, <2>3, <3>1 DEF SentOnce
    <3> QED
      BY <2>2, <2>3, <3>2
  <2> QED
    BY <2>1, <2>2, <2>4 DEF SentOnce
<1>5. CASE UNCHANGED vars
  BY <1>1, <1>5 DEF vars, storeVars
<1>6. CASE WatchLoop
  BY <1>1, <1>2, <1>6, WatchersAssumption
     DEF WatchLoop, WatchLoopSubscribes, WatchLoopReceives, WatchLoopEnqueues, WatchLoopReturns,
         Receive, storeVars
<1>7. CASE ReconcileLoop
  BY <1>1, <1>7, ReconcileLoopFrame
<1>8. CASE Stop \/ \E k \in Keys : SleeperWakes(k)
  BY <1>1, <1>8 DEF Stop, SleeperWakes, storeVars
<1>9. ASSUME NEW w \in Watchers, SlowWatcherSubscribes(w)
      PROVE  SentOnce'
  BY <1>2, <1>9 DEF SlowWatcherSubscribes
<1> QED
  BY <1>3, <1>4, <1>5, <1>6, <1>7, <1>8, <1>9 DEF Next

\* A writer is a sender while one of its sends is to watchLoop.
SendersAre ==
  \A p \in Writers :
    p \in Senders <=> \E i \in 1..Len(sending[p]) : sending[p][i].to = watchLoop

LEMMA SenderIs == Typed => SendersAre
<1> SUFFICES ASSUME Typed, NEW p \in Writers
             PROVE  p \in Senders <=> \E i \in 1..Len(sending[p]) : sending[p][i].to = watchLoop
  BY DEF SendersAre
<1>1. \A i \in 1..Len(sending[p]) : sending[p][i] \in Send
  BY DEF Typed, TypeOK
<1>2. \A i \in 1..Len(sending[p]) :
        /\ sending[p][i].event \in Keys
        /\ sending[p][i] = [event |-> sending[p][i].event, to |-> sending[p][i].to]
  BY <1>1 DEF Send
<1>3. ASSUME NEW k \in Keys, In([event |-> k, to |-> watchLoop], sending[p])
      PROVE  \E i \in 1..Len(sending[p]) : sending[p][i].to = watchLoop
  BY <1>3 DEF In
<1>4. ASSUME NEW i \in 1..Len(sending[p]), sending[p][i].to = watchLoop
      PROVE  \E k \in Keys : In([event |-> k, to |-> watchLoop], sending[p])
  BY <1>2, <1>4 DEF In
<1> QED
  BY <1>3, <1>4 DEF Senders

LEMMA SenderIsNext == Typed' => SendersAre'
BY SenderIs, PTL

LEMMA SleepingIs ==
  \A s : s \in Sleeping <=> \E k \in Keys : \E i \in 1..sleepers[k] : s = <<k, i>>
BY DEF Sleeping

LEMMA OneMoreSleeper ==
  ASSUME Typed, NEW k \in Keys, IsFiniteSet(Sleeping),
         sleepers' = [sleepers EXCEPT ![k] = @ + 1]
  PROVE  IsFiniteSet(Sleeping)' /\ Cardinality(Sleeping)' <= Cardinality(Sleeping) + 1
<1>1. sleepers[k] \in Nat /\ sleepers'[k] = sleepers[k] + 1
      /\ \A x \in Keys \ {k} : sleepers'[x] = sleepers[x]
  BY DEF Typed, TypeOK
<1>2. \A i : i \in 1..sleepers'[k] <=> i \in 1..sleepers[k] \/ i = sleepers[k] + 1
  BY <1>1
<1>3. \A s : s \in Sleeping' <=> s \in Sleeping \/ s = <<k, sleepers[k] + 1>>
  BY <1>1, <1>2 DEF Sleeping
<1>4. Sleeping' = Sleeping \cup {<<k, sleepers[k] + 1>>}
  BY <1>3
<1>5. Cardinality(Sleeping) \in Nat
  BY FS_CardinalityType
<1>6. /\ IsFiniteSet(Sleeping \cup {<<k, sleepers[k] + 1>>})
      /\ \/ Cardinality(Sleeping \cup {<<k, sleepers[k] + 1>>}) = Cardinality(Sleeping)
         \/ Cardinality(Sleeping \cup {<<k, sleepers[k] + 1>>}) = Cardinality(Sleeping) + 1
  BY FS_AddElement
<1> QED
  BY <1>4, <1>5, <1>6

LEMMA OneSleeperLess ==
  ASSUME Typed, NEW k \in Keys, IsFiniteSet(Sleeping), sleepers[k] > 0,
         sleepers' = [sleepers EXCEPT ![k] = @ - 1]
  PROVE  IsFiniteSet(Sleeping)' /\ Cardinality(Sleeping)' = Cardinality(Sleeping) - 1
<1>1. sleepers[k] \in Nat /\ sleepers'[k] = sleepers[k] - 1
      /\ \A x \in Keys \ {k} : sleepers'[x] = sleepers[x]
  BY DEF Typed, TypeOK
<1>2. /\ \A i : i \in 1..sleepers'[k] <=> i \in 1..sleepers[k] /\ i # sleepers[k]
      /\ sleepers[k] \in 1..sleepers[k]
  BY <1>1
<1>3. \A s : s \in Sleeping' <=> s \in Sleeping /\ s # <<k, sleepers[k]>>
  BY <1>1, <1>2 DEF Sleeping
<1>4. Sleeping' = Sleeping \ {<<k, sleepers[k]>>} /\ <<k, sleepers[k]>> \in Sleeping
  BY <1>2, <1>3, SleepingIs
<1> QED
  BY <1>4, FS_RemoveElement

Bounded == IsFiniteSet(Senders) /\ IsFiniteSet(Sleeping) /\ WorkBounded

\* Sums of three numbers: one of them grows by one; two of them do not grow
\* together; one is handed on to the next; a bound moves along with what it bounds.
LEMMA OneGrows ==
  ASSUME NEW a \in Nat, NEW b \in Nat, NEW c \in Nat, NEW a1 \in Nat, a1 <= a + 1
  PROVE  a1 + b + c \in Nat /\ a1 + b + c <= a + b + c + 1
OBVIOUS

LEMMA NoneGrows ==
  ASSUME NEW a \in Nat, NEW b \in Nat, NEW c \in Nat, NEW d \in Nat, NEW e \in Nat,
         c + d <= a + b
  PROVE  c + d + e \in Nat /\ c + d + e <= a + b + e
OBVIOUS

LEMMA HandedOn ==
  ASSUME NEW a \in Nat, NEW b \in Nat, NEW c \in Nat, NEW n \in Nat, NEW a1 \in Nat, NEW b1 \in Nat,
         a = a1 + 1, b1 <= b + 1
  PROVE  a1 + b1 + c + n <= a + b + c + n
OBVIOUS

LEMMA BoundMoves ==
  ASSUME NEW a \in Nat, NEW b \in Nat, NEW c \in Nat, NEW n \in Nat,
         NEW a1 \in Nat, NEW b1 \in Nat, NEW c1 \in Nat, NEW n1 \in Nat,
         a1 + b1 + c1 + n <= a + b + c + n1, a + b + c <= n
  PROVE  a1 + b1 + c1 <= n1
OBVIOUS

\* What WorkInHand adds up.
Counts ==
  /\ Cardinality(Senders) \in Nat /\ Cardinality(Sleeping) \in Nat
  /\ Len(channel[watchLoop]) \in Nat /\ Len(workQueue) \in Nat /\ revision \in Nat
  /\ Enqueuing \in Nat /\ Reconciling \in Nat

LEMMA WorkIsCounted ==
  ASSUME Typed, Bounded
  PROVE  Counts /\ Announced \in Nat /\ Retrying \in Nat
<1>1. Counts
  BY FS_CardinalityType, RevisionAssumption, WatchersAssumption
     DEF Counts, Bounded, Typed, TypeOK, Enqueuing, Reconciling
<1> QED
  BY <1>1 DEF Counts, Announced, Retrying

\* A step keeps the bound if it adds no more than what it changes.
LEMMA WorkKept ==
  ASSUME Typed, Bounded, IsFiniteSet(Senders)', IsFiniteSet(Sleeping)',
         Announced' \in Nat, Len(workQueue)' \in Nat, Retrying' \in Nat, revision' \in Nat,
         Announced' + Len(workQueue)' + Retrying' + revision
           <= Announced + Len(workQueue) + Retrying + revision'
  PROVE  Bounded'
<1>1. Announced \in Nat /\ Len(workQueue) \in Nat /\ Retrying \in Nat /\ revision \in Nat
  BY WorkIsCounted DEF Counts
<1>2. Announced + Len(workQueue) + Retrying <= revision
  BY DEF Bounded, WorkBounded, WorkInHand
<1>3. WorkInHand' <= revision'
  BY <1>1, <1>2, BoundMoves DEF WorkInHand
<1> QED
  BY <1>3 DEF Bounded, WorkBounded

LEMMA EnqueueAddsOne ==
  ASSUME Typed, NEW k, enqueue(k)
  PROVE  Len(workQueue') \in Nat /\ Len(workQueue') <= Len(workQueue) + 1
<1>1. workQueue \in Seq(Keys)
  BY DEF Typed, TypeOK
<1> QED
  BY <1>1 DEF enqueue

\* The work that a change makes, and the first step it takes on its way.
LEMMA WriterWork ==
  ASSUME Typed, SentOnce, Bounded, NEW p \in Writers, Writes(p) \/ Notifies(p)
  PROVE  Bounded'
<1>1. UNCHANGED <<workQueue, Sleeping, Enqueuing, Retrying>>
  BY DEF Writes, Notifies, controllerVars, watcherVars, loopVars, Sleeping, Enqueuing,
         Reconciling, Retrying
<1>2. Typed'
  BY WriterType
<1>3. Counts /\ Announced \in Nat /\ Retrying \in Nat
  BY WorkIsCounted
<1>4. CASE Writes(p)
  <2>1. PICK k \in Keys : \E value \in Values \cup {None} : Change(p, k, value)
    BY <1>4 DEF Writes, Sets, Set, Delete
  <2>2. revision' = revision + 1 /\ channel' = channel
        /\ \A q \in Writers \ {p} : sending'[q] = sending[q]
    BY <2>1 DEF Change, Typed, TypeOK
  <2>3. Senders' \subseteq Senders \cup {p}
    BY <2>2 DEF Senders
  <2>4. /\ IsFiniteSet(Senders \cup {p}) /\ Cardinality(Senders \cup {p}) \in Nat
        /\ Cardinality(Senders \cup {p}) <= Cardinality(Senders) + 1
    <3>1. /\ IsFiniteSet(Senders \cup {p})
          /\ \/ Cardinality(Senders \cup {p}) = Cardinality(Senders)
             \/ Cardinality(Senders \cup {p}) = Cardinality(Senders) + 1
      BY FS_AddElement DEF Bounded
    <3> QED
      BY <1>3, <3>1 DEF Counts
  <2>5. IsFiniteSet(Senders') /\ Cardinality(Senders') <= Cardinality(Senders \cup {p})
    BY <2>3, <2>4, FS_Subset
  <2>6. Cardinality(Senders') \in Nat
    BY <2>5, FS_CardinalityType
  <2>7. Cardinality(Senders') <= Cardinality(Senders) + 1
    BY <1>3, <2>4, <2>5, <2>6 DEF Counts
  <2>8. Announced' \in Nat /\ Announced' <= Announced + 1
    BY <1>1, <1>3, <2>2, <2>6, <2>7, OneGrows DEF Announced, Counts
  <2> QED
    BY <1>1, <1>3, <2>2, <2>5, <2>8, WorkKept DEF Counts, Bounded
<1>5. CASE Notifies(p)
  <2> DEFINE send == Head(sending[p])
  <2>1. /\ sending[p] \in Seq(Send) /\ sending[p] # <<>> /\ revision' = revision
        /\ channel' = [channel EXCEPT ![send.to] = Offer(@, send.event)]
        /\ sending' = [sending EXCEPT ![p] = Tail(sending[p])]
    BY <1>5 DEF Notifies, Notify, Typed, TypeOK
  <2>2. sending'[p] = Tail(sending[p]) /\ \A q \in Writers \ {p} : sending'[q] = sending[q]
    BY <2>1 DEF Typed, TypeOK
  <2>3. /\ Len(sending[p]) \in Nat \ {0} /\ send = sending[p][1]
        /\ Len(sending'[p]) = Len(sending[p]) - 1
        /\ \A i \in 1..(Len(sending[p]) - 1) : sending'[p][i] = sending[p][i + 1]
    BY <2>1, <2>2, TailIs
  <2> HIDE DEF send
  <2>4. /\ 1 \in 1..Len(sending[p])
        /\ \A i \in 1..Len(sending'[p]) : i + 1 \in 1..Len(sending[p]) /\ i + 1 # 1
    BY <2>3
  <2>5. Senders' \subseteq Senders
    <3>1. \A q \in Writers \ {p} : q \in Senders' <=> q \in Senders
      BY <2>2 DEF Senders
    <3>2. ASSUME p \in Senders'
          PROVE  p \in Senders
      <4>1. PICK i \in 1..Len(sending'[p]) : sending'[p][i].to = watchLoop
        BY <1>2, <3>2, SenderIsNext DEF SendersAre
      <4>2. i + 1 \in 1..Len(sending[p]) /\ sending[p][i + 1].to = watchLoop
        BY <2>3, <2>4, <4>1
      <4> QED
        BY <4>2, SenderIs DEF SendersAre
    <3>3. Senders' \subseteq Writers
      BY DEF Senders
    <3> QED
      BY <3>1, <3>2, <3>3
  <2>6. CASE send.to = watchLoop
    <3>1. p \in Senders
      BY <2>3, <2>4, <2>6, SenderIs DEF SendersAre
    <3>2. p \notin Senders'
      <4>1. \A i \in 1..Len(sending'[p]) : sending'[p][i].to # watchLoop
        BY <2>3, <2>4, <2>6 DEF SentOnce
      <4> QED
        BY <1>2, <4>1, SenderIsNext DEF SendersAre
    <3>3. Senders' \subseteq Senders \ {p}
      BY <2>5, <3>2
    <3>4. /\ IsFiniteSet(Senders \ {p})
          /\ Cardinality(Senders \ {p}) = Cardinality(Senders) - 1
      BY <3>1, FS_RemoveElement DEF Bounded
    <3>5. IsFiniteSet(Senders') /\ Cardinality(Senders') <= Cardinality(Senders) - 1
      BY <3>3, <3>4, FS_Subset
    <3>6. Cardinality(Senders') \in Nat
      BY <3>5, FS_CardinalityType
    <3>7. channel'[watchLoop] = Offer(channel[watchLoop], send.event)
      BY <2>1, <2>6, WatchersAssumption DEF Typed, TypeOK
    <3>8. channel[watchLoop] \in Seq(Keys) /\ send \in Send
      BY <2>1, WatchersAssumption DEF Typed, TypeOK, send
    <3>9. /\ Len(channel'[watchLoop]) \in Nat
          /\ Len(channel'[watchLoop]) <= Len(channel[watchLoop]) + 1
      BY <3>7, <3>8 DEF Offer, Send
    <3>10. Cardinality(Senders') + Len(channel'[watchLoop])
             <= Cardinality(Senders) + Len(channel[watchLoop])
      BY <1>3, <3>5, <3>6, <3>9 DEF Counts
    <3>11. /\ Cardinality(Senders) \in Nat /\ Len(channel[watchLoop]) \in Nat
           /\ Enqueuing \in Nat /\ Enqueuing' = Enqueuing
      BY <1>1, <1>3 DEF Counts
    <3>12. Announced' \in Nat /\ Announced' <= Announced
      BY <3>6, <3>9, <3>10, <3>11, NoneGrows DEF Announced
    <3> QED
      BY <1>1, <1>3, <2>1, <3>5, <3>12, WorkKept DEF Counts, Bounded
  <2>7. CASE send.to # watchLoop
    <3>1. channel'[watchLoop] = channel[watchLoop]
      BY <2>1, <2>7, WatchersAssumption DEF Typed, TypeOK
    <3>2. IsFiniteSet(Senders') /\ Cardinality(Senders') <= Cardinality(Senders)
      BY <2>5, FS_Subset DEF Bounded
    <3>3. Cardinality(Senders') \in Nat
      BY <3>2, FS_CardinalityType
    <3>4. /\ Cardinality(Senders) \in Nat /\ Len(channel[watchLoop]) \in Nat
          /\ Enqueuing \in Nat /\ Enqueuing' = Enqueuing
      BY <1>1, <1>3 DEF Counts
    <3>5. Cardinality(Senders') + Len(channel'[watchLoop])
            <= Cardinality(Senders) + Len(channel[watchLoop])
      BY <3>1, <3>2, <3>3, <3>4
    <3>6. Len(channel'[watchLoop]) \in Nat
      BY <3>1, <3>4
    <3>7. Announced' \in Nat /\ Announced' <= Announced
      BY <3>3, <3>4, <3>5, <3>6, NoneGrows DEF Announced
    <3> QED
      BY <1>1, <1>3, <2>1, <3>2, <3>7, WorkKept DEF Counts, Bounded
  <2> QED
    BY <2>6, <2>7
<1> QED
  BY <1>4, <1>5

\* watchLoop hands on one at a time.
LEMMA WatchLoopWork ==
  ASSUME Typed, Bounded, WatchLoop
  PROVE  Bounded'
<1>1. UNCHANGED <<revision, Senders, Sleeping, Retrying>>
  BY DEF WatchLoop, WatchLoopSubscribes, WatchLoopReceives, WatchLoopEnqueues, WatchLoopReturns,
         Watch, Receive, storeVars, loopVars, Reconciling, Retrying, Senders, Sleeping, In
<1>2. Counts /\ Announced \in Nat /\ Retrying \in Nat
  BY WorkIsCounted
<1>3. CASE WatchLoopSubscribes \/ WatchLoopReturns
  <2>1. UNCHANGED <<channel, workQueue, Enqueuing>>
    BY <1>3 DEF WatchLoopSubscribes, WatchLoopReturns, Watch, storeVars, Enqueuing
  <2>2. Announced' = Announced
    BY <1>1, <2>1 DEF Announced
  <2> QED
    BY <1>1, <1>2, <2>1, <2>2, WorkKept DEF Counts, Bounded
<1>4. CASE WatchLoopReceives
  <2>1. /\ channel[watchLoop] \in Seq(Keys) /\ channel[watchLoop] # <<>>
        /\ channel'[watchLoop] = Tail(channel[watchLoop])
        /\ Enqueuing = 0 /\ Enqueuing' = 1 /\ workQueue' = workQueue
    BY <1>4, WatchersAssumption DEF WatchLoopReceives, Receive, Typed, TypeOK, Enqueuing
  <2>2. Len(channel'[watchLoop]) = Len(channel[watchLoop]) - 1
    BY <2>1
  <2>3. Announced' = Announced
    BY <1>1, <1>2, <2>1, <2>2 DEF Announced, Counts
  <2> QED
    BY <1>1, <1>2, <2>1, <2>3, WorkKept DEF Counts, Bounded
<1>5. CASE WatchLoopEnqueues
  <2>1. /\ channel' = channel /\ Enqueuing = 1 /\ Enqueuing' = 0
        /\ Len(workQueue') \in Nat /\ Len(workQueue') <= Len(workQueue) + 1
    BY <1>5, EnqueueAddsOne DEF WatchLoopEnqueues, storeVars, Enqueuing
  <2>2. Announced' \in Nat /\ Announced = Announced' + 1
    BY <1>1, <1>2, <2>1 DEF Announced, Counts
  <2>3. Announced' + Len(workQueue') + Retrying + revision
          <= Announced + Len(workQueue) + Retrying + revision
    BY <1>2, <2>1, <2>2, HandedOn DEF Counts
  <2> QED
    BY <1>1, <1>2, <2>1, <2>2, <2>3, WorkKept DEF Counts, Bounded
<1> QED
  BY <1>3, <1>4, <1>5 DEF WatchLoop

\* A reconcile takes the place of what asked for it, and a requeue that of the
\* reconcile.
LEMMA ReconcileLoopWork ==
  ASSUME Typed, Bounded, ReconcileLoop
  PROVE  Bounded'
<1>1. UNCHANGED <<revision, Senders, Announced>>
  BY ReconcileLoopFrame DEF Senders, In, Enqueuing, Announced
<1>2. Counts /\ Announced \in Nat /\ Retrying \in Nat
  BY WorkIsCounted
<1>3. CASE ReconcileLoopReceives
  <2>1. /\ workQueue \in Seq(Keys) /\ workQueue # <<>> /\ workQueue' = Tail(workQueue)
        /\ Reconciling = 0 /\ Reconciling' = 1 /\ Sleeping' = Sleeping
    BY <1>3 DEF ReconcileLoopReceives, Typed, TypeOK, Sleeping, Reconciling
  <2>2. Len(workQueue') = Len(workQueue) - 1
    BY <2>1
  <2>3. Retrying' = Retrying + 1
    BY <1>2, <2>1 DEF Retrying, Counts
  <2> QED
    BY <1>1, <1>2, <2>1, <2>2, <2>3, WorkKept DEF Counts, Bounded
<1>4. CASE ReconcileLoopReturns
  <2>1. UNCHANGED <<workQueue, Sleeping, Retrying>>
    BY <1>4 DEF ReconcileLoopReturns, Sleeping, Reconciling, Retrying
  <2> QED
    BY <1>1, <1>2, <2>1, WorkKept DEF Counts, Bounded
<1>5. ASSUME pc \in {"fetch", "forget", "upgrade", "scale"}, UNCHANGED workQueue,
             NEW requeue \in BOOLEAN, Result(requeue)
      PROVE  Bounded'
  <2>1. Reconciling = 1 /\ Reconciling' = 0 /\ key \in Keys
    BY <1>5 DEF Result, Typed, LoopTypes, Reconciling
  <2>2. sleepers' = [sleepers EXCEPT ![key] = @ + 1] \/ sleepers' = sleepers
    BY <1>5 DEF Result
  <2>3. sleepers' = sleepers => Sleeping' = Sleeping
    BY DEF Sleeping
  <2>4. IsFiniteSet(Sleeping)' /\ Cardinality(Sleeping)' <= Cardinality(Sleeping) + 1
    <3>1. CASE sleepers' = [sleepers EXCEPT ![key] = @ + 1]
      BY <2>1, <3>1, OneMoreSleeper DEF Bounded
    <3>2. CASE sleepers' = sleepers
      BY <1>2, <2>3, <3>2 DEF Bounded, Counts
    <3> QED
      BY <2>2, <3>1, <3>2
  <2>5. Cardinality(Sleeping)' \in Nat
    BY <2>4, FS_CardinalityType
  <2>6. Retrying' \in Nat /\ Retrying' <= Retrying
    BY <1>2, <2>1, <2>4, <2>5 DEF Retrying, Counts
  <2> QED
    BY <1>1, <1>2, <1>5, <2>4, <2>6, WorkKept DEF Counts, Bounded
<1>6. ASSUME pc \in {"fetch", "upgrade"}, pc' \in {"forget", "upgrade", "scale"},
             UNCHANGED <<workQueue, sleepers>>
      PROVE  Bounded'
  <2>1. UNCHANGED <<Sleeping, Retrying>>
    BY <1>6 DEF Sleeping, Reconciling, Retrying
  <2> QED
    BY <1>1, <1>2, <1>6, <2>1, WorkKept DEF Counts, Bounded
<1>7. CASE Fetch
  <2>1. pc = "fetch" /\ UNCHANGED workQueue
    BY <1>7 DEF Fetch
  <2>2. Result(TRUE) \/ (pc' \in {"forget", "upgrade", "scale"} /\ UNCHANGED sleepers)
    BY <1>7 DEF Fetch
  <2> QED
    BY <1>5, <1>6, <2>1, <2>2
<1>8. CASE UpgradeSucceeds
  BY <1>6, <1>8 DEF UpgradeSucceeds
<1>9. CASE Forget
  BY <1>5, <1>9 DEF Forget
<1>10. CASE UpgradeFails
  BY <1>5, <1>10 DEF UpgradeFails
<1>11. CASE Scale
  <2>1. (acted \/ Observed.replicas # desired.replicas) \in BOOLEAN
    OBVIOUS
  <2> QED
    BY <1>5, <1>11, <2>1 DEF Scale
<1> QED
  BY <1>3, <1>4, <1>7, <1>8, <1>9, <1>10, <1>11 DEF ReconcileLoop

LEMMA BoundedNext == Typed /\ SentOnce /\ Bounded /\ [Next]_vars => Bounded'
<1> SUFFICES ASSUME Typed, SentOnce, Bounded, [Next]_vars PROVE Bounded'
  OBVIOUS
<1>1. CASE UNCHANGED vars
  BY <1>1 DEF vars, storeVars, watcherVars, loopVars, Bounded, WorkBounded, WorkInHand, Announced,
              Retrying, Senders, Sleeping, Enqueuing, Reconciling, In
<1>2. CASE Stop \/ \E w \in Watchers : SlowWatcherSubscribes(w)
  <2>1. UNCHANGED <<revision, channel, sending, watching, workQueue, sleepers, pc>>
    BY <1>2 DEF Stop, SlowWatcherSubscribes, Watch, controllerVars, storeVars, watcherVars, loopVars
  <2> QED
    BY <2>1 DEF Bounded, WorkBounded, WorkInHand, Announced, Retrying, Senders, Sleeping,
                Enqueuing, Reconciling, In
<1>3. ASSUME NEW k \in Keys, SleeperWakes(k)
      PROVE  Bounded'
  <2>1. UNCHANGED <<revision, Senders, Announced, Reconciling>>
    BY <1>3 DEF SleeperWakes, storeVars, watcherVars, loopVars, Announced, Senders, Enqueuing,
                Reconciling, In
  <2>2. Counts /\ Announced \in Nat /\ Retrying \in Nat
    BY WorkIsCounted
  <2>3. IsFiniteSet(Sleeping)' /\ Cardinality(Sleeping)' = Cardinality(Sleeping) - 1
    BY <1>3, OneSleeperLess DEF SleeperWakes, Bounded
  <2>4. Len(workQueue') \in Nat /\ Len(workQueue') <= Len(workQueue) + 1
    BY <1>3, EnqueueAddsOne DEF SleeperWakes
  <2>5. Cardinality(Sleeping)' \in Nat
    BY <2>3, FS_CardinalityType
  <2>6. Retrying' \in Nat /\ Retrying = Retrying' + 1
    BY <2>1, <2>2, <2>3, <2>5 DEF Retrying, Counts
  <2>7. /\ revision' = revision /\ Announced' = Announced /\ revision \in Nat
        /\ Len(workQueue) \in Nat /\ IsFiniteSet(Senders)'
    BY <2>1, <2>2 DEF Counts, Bounded
  <2>8. Announced' + Len(workQueue') + Retrying' + revision
          <= Announced + Len(workQueue) + Retrying + revision'
    BY <2>2, <2>4, <2>6, <2>7
  <2> QED
    BY <2>2, <2>3, <2>4, <2>6, <2>7, <2>8, WorkKept
<1> QED
  BY <1>1, <1>2, <1>3, WatchLoopWork, ReconcileLoopWork, WriterWork DEF Next

LEMMA BoundedInit == Init => SentOnce /\ Bounded
<1> SUFFICES ASSUME Init PROVE SentOnce /\ Bounded
  OBVIOUS
<1>1. /\ subscribers = <<>> /\ \A p \in Writers : sending[p] = <<>>
      /\ channel[watchLoop] = <<>> /\ workQueue = <<>> /\ \A k \in Keys : sleepers[k] = 0
      /\ Enqueuing = 0 /\ Reconciling = 0 /\ revision = 0
  BY WatchersAssumption DEF Init, NewStore, Enqueuing, Reconciling
<1>2. Senders = {} /\ Sleeping = {}
  <2>1. \A x : ~ In(x, <<>>)
    BY DEF In
  <2>2. Senders = {}
    BY <1>1, <2>1 DEF Senders
  <2>3. \A k \in Keys : \A i : i \notin 1..sleepers[k]
    <3>1. \A i : i \notin 1..0
      OBVIOUS
    <3> QED
      BY <1>1, <3>1
  <2>4. ASSUME NEW s \in Sleeping
        PROVE  FALSE
    <3>1. PICK k \in Keys : \E i \in 1..sleepers[k] : s = <<k, i>>
      BY <2>4, SleepingIs
    <3> QED
      BY <2>3, <3>1
  <2> QED
    BY <2>2, <2>4
<1>3. Len(<<>>) = 0 /\ IsFiniteSet({}) /\ Cardinality({}) = 0
  BY FS_EmptySet
<1> QED
  BY <1>1, <1>2, <1>3 DEF SentOnce, Bounded, WorkBounded, WorkInHand, Announced, Retrying

LEMMA LoopBounded == Spec => [](Typed /\ SentOnce /\ Bounded)
<1>1. Init => Typed /\ SentOnce /\ Bounded
  BY TypedInit, BoundedInit
<1>2. Typed /\ SentOnce /\ Bounded /\ [Next]_vars => Typed' /\ SentOnce' /\ Bounded'
  BY TypedNext, SentOnceNext, BoundedNext
<1> QED
  BY <1>1, <1>2, PTL DEF Spec

\* Work is made by changes alone, for any keys, capacities, writers and
\* subscribers: retries and verifications never multiply. (reconciler.go:89-101)
THEOREM WorkIsBounded == Spec => []WorkBounded
<1>1. Bounded => WorkBounded
  BY DEF Bounded
<1> QED
  BY <1>1, LoopBounded, PTL

-----------------------------------------------------------------------------
(* Nothing is lost as long as there were no more changes than fit.         *)

FewChanges == revision <= EventCap /\ revision <= QueueCap

LEMMA AppendKeeps ==
  ASSUME NEW S, NEW s \in Seq(S), NEW e \in S
  PROVE  In(e, Append(s, e))
BY AppendIn

\* Whoever adds to the channel or to the queue is itself counted as work, so
\* what waits there already is less than what there were changes.
LEMMA NothingIsLost == Typed /\ Bounded /\ FewChanges => NothingLost
<1> SUFFICES ASSUME Typed, Bounded, FewChanges PROVE NothingLost
  OBVIOUS
<1>1. Counts /\ Announced \in Nat /\ Retrying \in Nat
  BY WorkIsCounted
<1>2. workQueue \in Seq(Keys) /\ channel[watchLoop] \in Seq(Keys)
  BY WatchersAssumption DEF Typed, TypeOK
<1>3. Announced + Len(workQueue) + Retrying <= revision
  BY DEF Bounded, WorkBounded, WorkInHand
<1>4. ASSUME NEW k \in Keys, enqueue(k), Announced > 0 \/ Retrying > 0
      PROVE  In(k, workQueue')
  <2>1. Len(workQueue) < QueueCap
    BY <1>1, <1>3, <1>4, QueueCapAssumption DEF Counts, FewChanges
  <2> QED
    BY <1>2, <1>4, <2>1, AppendKeeps DEF enqueue
<1>5. ASSUME NEW p \in Writers, Notifies(p), Head(sending[p]).to = watchLoop
      PROVE  In(Head(sending[p]).event, channel'[watchLoop])
  <2> DEFINE send == Head(sending[p])
  <2>1. /\ sending[p] \in Seq(Send) /\ sending[p] # <<>>
        /\ channel' = [channel EXCEPT ![send.to] = Offer(@, send.event)]
    BY <1>5 DEF Notifies, Notify, Typed, TypeOK
  <2>2. Len(sending[p]) \in Nat \ {0} /\ send = sending[p][1] /\ send \in Send
    BY <2>1
  <2> HIDE DEF send
  <2>3. send.to = watchLoop /\ send.event \in Keys
    BY <1>5, <2>2 DEF Send, send
  <2>4. p \in Senders
    <3>1. 1 \in 1..Len(sending[p])
      BY <2>2
    <3> QED
      BY <2>2, <2>3, <3>1, SenderIs DEF SendersAre
  <2>5. Cardinality(Senders) > 0
    <3>1. Cardinality(Senders) # 0
      BY <2>4, FS_EmptySet DEF Bounded
    <3> QED
      BY <1>1, <3>1 DEF Counts
  <2>6. Announced > Len(channel[watchLoop])
    BY <1>1, <2>5 DEF Announced, Counts
  <2>7. Len(channel[watchLoop]) < EventCap
    BY <1>1, <1>3, <2>6, EventCapAssumption DEF Counts, FewChanges
  <2>8. channel'[watchLoop] = Append(channel[watchLoop], send.event)
    BY <2>1, <2>3, <2>7, WatchersAssumption DEF Typed, TypeOK, Offer
  <2>9. In(send.event, channel'[watchLoop])
    BY <1>2, <2>3, <2>8, AppendKeeps
  <2> QED
    BY <2>9 DEF send
<1>6. ASSUME WatchLoopEnqueues
      PROVE  In(watched, workQueue')
  <2>1. watched \in Keys /\ enqueue(watched) /\ Enqueuing = 1
    BY <1>6 DEF WatchLoopEnqueues, Typed, WatcherTypes, Enqueuing
  <2>2. Announced > 0
    BY <1>1, <2>1 DEF Announced, Counts
  <2> QED
    BY <1>4, <2>1, <2>2
<1>7. ASSUME NEW k \in Keys, SleeperWakes(k)
      PROVE  In(k, workQueue')
  <2>1. enqueue(k) /\ sleepers[k] \in Nat /\ sleepers[k] > 0
    BY <1>7 DEF SleeperWakes, Typed, TypeOK
  <2>2. 1 \in 1..sleepers[k]
    BY <2>1
  <2>3. Sleeping # {}
    BY <2>2, SleepingIs
  <2>4. Cardinality(Sleeping) > 0
    <3>1. Cardinality(Sleeping) # 0
      BY <2>3, FS_EmptySet DEF Bounded
    <3> QED
      BY <1>1, <3>1 DEF Counts
  <2>5. Retrying > 0
    BY <1>1, <2>4 DEF Retrying, Counts
  <2> QED
    BY <1>4, <2>1, <2>5
<1> QED
  BY <1>5, <1>6, <1>7 DEF NothingLost

LEMMA ChangesCount ==
  Typed /\ [Next]_vars => revision \in Nat /\ revision' \in Nat /\ revision <= revision'
<1> SUFFICES ASSUME Typed, [Next]_vars
             PROVE  revision \in Nat /\ revision' \in Nat /\ revision <= revision'
  OBVIOUS
<1>1. revision \in Nat
  BY RevisionAssumption DEF Typed, TypeOK
<1>2. revision' = revision \/ revision' = revision + 1
  <2>1. CASE UNCHANGED vars
    BY <2>1 DEF vars, storeVars
  <2>2. CASE WatchLoop
    BY <2>2 DEF WatchLoop, WatchLoopSubscribes, WatchLoopReceives, WatchLoopEnqueues,
                WatchLoopReturns, Watch, Receive, storeVars
  <2>3. CASE ReconcileLoop
    BY <2>3, ReconcileLoopFrame
  <2>4. CASE \/ Stop \/ \E k \in Keys : SleeperWakes(k)
             \/ \E w \in Watchers : SlowWatcherSubscribes(w)
    BY <2>4 DEF Stop, SleeperWakes, SlowWatcherSubscribes, Watch, storeVars
  <2>5. ASSUME NEW p \in Writers, Writes(p) \/ Notifies(p)
        PROVE  revision' = revision \/ revision' = revision + 1
    BY <2>5 DEF Writes, Notifies, Notify, Sets, Set, Delete, Change
  <2> QED
    BY <2>1, <2>2, <2>3, <2>4, <2>5 DEF Next
<1> QED
  BY <1>1, <1>2

\* As many changes as channel and queue hold are never forgotten, for any keys
\* and writers and however often upgrades fail: of the 32 first changes, none.
\* The 33rd may be. (store.go:47, reconciler.go:49)
THEOREM FewChangesAreNotForgotten == Spec => [](FewChanges => NoKeyForgotten)
<1> DEFINE Remembered == Subscribed /\ (FewChanges => JobCurrent /\ Ideal!NothingForgotten)
<1>1. Init => Remembered
  BY NothingForgottenInit DEF Subscribed, Init
<1>2. Typed /\ SentOnce /\ Bounded /\ Remembered /\ [Next]_vars => Remembered'
  <2> SUFFICES ASSUME Typed, Bounded, Remembered, [Next]_vars PROVE Remembered'
    OBVIOUS
  <2>1. Typed' /\ Subscribed'
    BY TypedNext, SubscribedNext
  <2>2. ASSUME FewChanges'
        PROVE  JobCurrent' /\ Ideal!NothingForgotten'
    <3>1. FewChanges
      BY <2>2, ChangesCount, EventCapAssumption, QueueCapAssumption DEF FewChanges
    <3>2. IdealStep
      BY <3>1, NothingIsLost, IdealNext
    <3> QED
      BY <3>1, <3>2, IdealForgetsNothing
  <2> QED
    BY <2>1, <2>2
<1>3. Typed /\ Remembered => (FewChanges => NoKeyForgotten)
  BY NothingForgottenIs
<1> HIDE DEF Remembered
<1> QED
  BY <1>1, <1>2, <1>3, LoopBounded, PTL DEF Spec

\* With room for all the changes that are made, the goroutines are a
\* level-triggered controller, for any keys and whatever fails: the
\* demonstration makes 15 changes, with room for 32.
\* (control-loop/main.go:90-94)
THEOREM RoomForAllIsLevelTriggered ==
  ASSUME MaxRevision <= EventCap, MaxRevision <= QueueCap
  PROVE  Spec => IsLevelTriggered
<1>1. Typed => FewChanges
  BY RevisionAssumption, EventCapAssumption, QueueCapAssumption DEF Typed, TypeOK, FewChanges
<1>2. Typed /\ SentOnce /\ Bounded => [NothingLost]_vars
  BY <1>1, NothingIsLost
<1> QED
  BY <1>2, LoopBounded, WithoutLossLevelTriggered, PTL
=============================================================================
