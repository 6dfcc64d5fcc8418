---------------------------- MODULE MCControlLoop ----------------------------
(***************************************************************************)
(* Small instances of ControlLoop for TLC. The capacities of 32 and 64 are *)
(* scaled down to 1, so that a few changes fill the channel and the queue. *)
(***************************************************************************)
EXTENDS ControlLoop

CONSTANT Garbage  \* a value that is not a DesiredState: the store takes anything

ASSUME GarbageAssumption == Garbage \notin DesiredState

\* Another version, other replicas, none at all, and a value of another type.
Small == [replicas |-> 1, version |-> "15.4"]
Upgraded == [replicas |-> 1, version |-> "15.5"]
Empty == [replicas |-> 0, version |-> "15.4"]

SomeValues == {Small, Upgraded, Empty, Garbage}
TwoValues == {Small, Upgraded}
=============================================================================
