----------------------------- MODULE Resources -----------------------------
(***************************************************************************)
(* internal/controller/resources.go: what the builders make of a           *)
(* DatabaseCluster. Only the fields the reconciler ever changes are kept;  *)
(* names, labels, ports and probes are constants of the cluster's name.    *)
(***************************************************************************)
EXTENDS DatabaseClusterAPI, FiniteSets, Functions

CONSTANT Defaults   \* the builder's own postgresql.conf settings

ASSUME SettingsAssumption ==
  IsFiniteSet(DOMAIN Defaults) /\ \A config \in Configs : IsFiniteSet(DOMAIN config)

\* User settings over the defaults.
Overlay(under, over) ==
  [k \in DOMAIN under \cup DOMAIN over |-> IF k \in DOMAIN over THEN over[k] ELSE under[k]]

\* The file is written by ranging over a Go map, whose order is unspecified:
\* any order of the lines may come out of any call.
Renderings(settings) ==
  LET Keys == DOMAIN settings IN
  { [i \in DOMAIN order |-> <<order[i], settings[order[i]]>>] :
      order \in Bijection(1..Cardinality(Keys), Keys) }

\* The contents one call of buildConfigMap may return.
buildConfigMap(spec) == Renderings(Overlay(Defaults, spec.config))

Lines(file) == { file[i] : i \in 1..Len(file) }

\* One line for each setting: the user's value, or else the default.
IsFileFor(file, config) ==
  /\ Len(file) = Cardinality(DOMAIN config \cup DOMAIN Defaults)
  /\ \A k \in DOMAIN config : <<k, config[k]>> \in Lines(file)
  /\ \A k \in DOMAIN Defaults \ DOMAIN config : <<k, Defaults[k]>> \in Lines(file)

ConfigFiles == UNION { buildConfigMap(spec) : spec \in DatabaseClusterSpec }

NoConfigMap == [exists |-> FALSE, owner |-> 0, data |-> <<>>]

ConfigMap(owner, data) == [exists |-> TRUE, owner |-> owner, data |-> data]

NoService == [exists |-> FALSE, owner |-> 0]

buildHeadlessService(owner) == [exists |-> TRUE, owner |-> owner]

\* The StatefulSet's template and scale, and its ready pods: those that run
\* the template's image, and those that still run an earlier one.
NoStatefulSet ==
  [exists |-> FALSE, owner |-> 0, replicas |-> 0, version |-> NoVersion,
   updated |-> 0, outdated |-> 0]

buildStatefulSet(owner, spec) ==
  [exists |-> TRUE, owner |-> owner, replicas |-> spec.replicas, version |-> spec.version,
   updated |-> 0, outdated |-> 0]

\* The mutate function of the StatefulSet's CreateOrUpdate. A new image leaves
\* every running pod outdated until the rolling update has replaced it.
Mutated(sts, spec) ==
  LET rolls == sts.version # spec.version IN
  [sts EXCEPT !.replicas = spec.replicas, !.version = spec.version,
              !.updated = IF rolls THEN 0 ELSE @,
              !.outdated = IF rolls THEN sts.updated + @ ELSE @]

ReadyReplicas(sts) == sts.updated + sts.outdated

ChildObjects ==
  [configMap : [exists : BOOLEAN, owner : Nat, data : ConfigFiles \cup {<<>>}],
   service : [exists : BOOLEAN, owner : Nat],
   statefulSet : [exists : BOOLEAN, owner : Nat, replicas : Nat,
                  version : Versions \cup {NoVersion}, updated : Nat, outdated : Nat]]
=============================================================================
