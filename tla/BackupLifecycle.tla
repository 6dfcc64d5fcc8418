-------------------------- MODULE BackupLifecycle --------------------------
(***************************************************************************)
(* What the operator promises about backup buckets, without caches, calls  *)
(* or processes: types.go:126-131 and controller.go:190-254 in one page.   *)
(*                                                                         *)
(* The finalizer brackets the bucket. It is there before the bucket is     *)
(* created, a deletion in progress is the only reason for the bucket to    *)
(* go, and the finalizer goes after that.                                  *)
(***************************************************************************)
CONSTANTS
  Owners,       \* the clusters that may have a bucket
  BucketOf(_)   \* the bucket of each

VARIABLES
  stage,    \* per owner: "untracked" without the finalizer, with it "tracked", or
            \* "doomed" when it is being deleted
  buckets   \* the buckets there are

Init ==
  /\ stage = [o \in Owners |-> "untracked"]
  /\ buckets = {}

Move(o, from, to) == stage[o] = from /\ stage' = [stage EXCEPT ![o] = to]

\* The finalizer is added.
Track(o) == Move(o, "untracked", "tracked") /\ UNCHANGED buckets

\* The bucket is created. A reconcile under way may still do so when the
\* user has deleted the owner meanwhile.
Provision(o) ==
  /\ stage[o] # "untracked"
  /\ buckets' = buckets \cup {BucketOf(o)}
  /\ UNCHANGED stage

\* The user deletes the owner.
Doom(o) == Move(o, "tracked", "doomed") /\ UNCHANGED buckets

CleanUp(o) ==
  /\ stage[o] = "doomed"
  /\ buckets' = buckets \ {BucketOf(o)}
  /\ UNCHANGED stage

\* The finalizer is removed, and with it the reason to come back.
Release(o) ==
  /\ BucketOf(o) \notin buckets
  /\ Move(o, "doomed", "untracked")
  /\ UNCHANGED buckets

Next == \E o \in Owners : Track(o) \/ Provision(o) \/ Doom(o) \/ CleanUp(o) \/ Release(o)

vars == <<stage, buckets>>

Spec == Init /\ [][Next]_vars
=============================================================================
