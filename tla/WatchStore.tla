----------------------------- MODULE WatchStore -----------------------------
(***************************************************************************)
(* internal/watcher/store.go: a key-value store that tells its subscribers *)
(* of every change through buffered channels.                              *)
(*                                                                         *)
(* A change takes the lock, and sends after it has released it: the sends  *)
(* of one writer interleave with everything. An event is its key: nobody   *)
(* reads its type, values or time, except to print them.                   *)
(***************************************************************************)
EXTENDS Integers, Sequences

CONSTANTS
  Keys,         \* the keys that are used
  Values,       \* what a key may be set to
  None,         \* neither a key nor a value: what an absent key maps to
  Writers,      \* goroutines that call Set and Delete
  Watchers,     \* those that call Watch, once
  EventCap,     \* the capacity of a subscriber's channel, 32 in the code
  MaxRevision   \* bound on the number of changes

ASSUME NoneAssumption == None \notin Values /\ None \notin Keys
ASSUME EventCapAssumption == EventCap \in Nat \ {0}
ASSUME RevisionAssumption == MaxRevision \in Nat

VARIABLES
  data,         \* the map
  revision,     \* the number of changes made
  subscribers,  \* in the order of their subscription
  channel,      \* per watcher, the events it has not received
  sending       \* per writer, the sends of its last change still to be done

storeVars == <<data, revision, subscribers, channel, sending>>

NewStore ==
  /\ data = [k \in Keys |-> None]
  /\ revision = 0
  /\ subscribers = <<>>
  /\ channel = [w \in Watchers |-> <<>>]
  /\ sending = [p \in Writers |-> <<>>]

Watch(w) ==
  /\ w \notin { subscribers[i] : i \in 1..Len(subscribers) }
  /\ subscribers' = Append(subscribers, w)
  /\ UNCHANGED <<data, revision, channel, sending>>

\* The part of Set and Delete under the lock: the subscribers are those of now.
\* A writer whose sends are not all done is still inside Set or Delete.
Change(p, k, value) ==
  /\ sending[p] = <<>>
  /\ revision < MaxRevision
  /\ data' = [data EXCEPT ![k] = value]
  /\ revision' = revision + 1
  /\ sending' = [sending EXCEPT ![p] =
                   [i \in DOMAIN subscribers |-> [event |-> k, to |-> subscribers[i]]]]
  /\ UNCHANGED <<subscribers, channel>>

Set(p, k, value) == value \in Values /\ Change(p, k, value)

\* Mutant: a deletion is not announced.
DeleteSilent(p, k) ==
  /\ data[k] # None
  /\ sending[p] = <<>>
  /\ revision < MaxRevision
  /\ data' = [data EXCEPT ![k] = None]
  /\ revision' = revision + 1
  /\ UNCHANGED <<subscribers, channel, sending>>

\* The deletion of an absent key returns at once.
Delete(p, k) == data[k] # None /\ Change(p, k, None)

\* Mutant: the channel has no bound.
OfferUnbounded(events, k) == Append(events, k)

\* A send that would block is given up.
Offer(events, k) == IF Len(events) < EventCap THEN Append(events, k) ELSE events

\* Mutant: a send waits until the channel has room.
NotifyBlocking(p) ==
  LET send == Head(sending[p])
  IN /\ sending[p] # <<>>
     /\ Len(channel[send.to]) < EventCap
     /\ channel' = [channel EXCEPT ![send.to] = Append(@, send.event)]
     /\ sending' = [sending EXCEPT ![p] = Tail(@)]
     /\ UNCHANGED <<data, revision, subscribers>>

Notify(p) ==
  LET send == Head(sending[p])
  IN /\ sending[p] # <<>>
     /\ channel' = [channel EXCEPT ![send.to] = Offer(@, send.event)]
     /\ sending' = [sending EXCEPT ![p] = Tail(@)]
     /\ UNCHANGED <<data, revision, subscribers>>

\* A subscriber takes the oldest event off its channel.
Receive(w) ==
  /\ channel[w] # <<>>
  /\ channel' = [channel EXCEPT ![w] = Tail(@)]
  /\ UNCHANGED <<data, revision, subscribers, sending>>
=============================================================================
