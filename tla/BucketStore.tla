---------------------------- MODULE BucketStore ----------------------------
(***************************************************************************)
(* internal/backup/bucket.go: the registry of backup buckets, here the set *)
(* of the names it holds. Every operation runs under the store's mutex, so *)
(* each is one step; the metadata Info returns is left out.                *)
(***************************************************************************)

bucketNameFor(clusterName) == <<"kubeoperator-backups-", clusterName>>

NewBucketStore == {}

Exists(buckets, clusterName) == bucketNameFor(clusterName) \in buckets

\* Provision fails on a bucket that is already there; its one caller has just
\* made sure that it is not, and there is one worker.
Provision(buckets, clusterName) == buckets \cup {bucketNameFor(clusterName)}

\* Mutant: deleting a missing bucket is an error.
CanDeleteStrict(buckets, clusterName) == Exists(buckets, clusterName)

\* Delete of a missing bucket succeeds: it may be retried after a crash.
CanDelete(buckets, clusterName) == TRUE

Delete(buckets, clusterName) == buckets \ {bucketNameFor(clusterName)}
=============================================================================
