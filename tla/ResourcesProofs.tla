--------------------------- MODULE ResourcesProofs ---------------------------
(***************************************************************************)
(* What the builders make of a spec, whatever its settings are and in      *)
(* whatever order Go ranges over them.                                     *)
(***************************************************************************)
EXTENDS Resources, FiniteSetTheorems, TLAPS

LEMMA OverlayIs ==
  ASSUME NEW under, NEW over
  PROVE  /\ DOMAIN Overlay(under, over) = DOMAIN over \cup DOMAIN under
         /\ \A k \in DOMAIN over : Overlay(under, over)[k] = over[k]
         /\ \A k \in DOMAIN under \ DOMAIN over : Overlay(under, over)[k] = under[k]
BY DEF Overlay

\* A rendering has one line for each setting, and no other.
LEMMA RenderingIs ==
  ASSUME NEW settings, IsFiniteSet(DOMAIN settings), NEW file \in Renderings(settings)
  PROVE  /\ Len(file) = Cardinality(DOMAIN settings)
         /\ Lines(file) = { <<k, settings[k]>> : k \in DOMAIN settings }
<1> DEFINE n == Cardinality(DOMAIN settings)
<1>1. n \in Nat
  BY FS_CardinalityType
<1>2. PICK order \in Bijection(1..n, DOMAIN settings) :
        file = [i \in DOMAIN order |-> <<order[i], settings[order[i]]>>]
  BY DEF Renderings
<1>3. /\ DOMAIN order = 1..n
      /\ \A i \in 1..n : order[i] \in DOMAIN settings
      /\ \A k \in DOMAIN settings : \E i \in 1..n : order[i] = k
  BY <1>2 DEF Bijection, Injection, Surjection
<1>4. file = [i \in 1..n |-> <<order[i], settings[order[i]]>>]
  BY <1>2, <1>3
<1>5. Len(file) = n
  BY <1>1, <1>4
<1>6. Lines(file) = { <<order[i], settings[order[i]]>> : i \in 1..n }
  BY <1>4, <1>5 DEF Lines
<1> QED
  BY <1>3, <1>5, <1>6

LEMMA SettingsFinite ==
  ASSUME NEW spec \in DatabaseClusterSpec
  PROVE  IsFiniteSet(DOMAIN Overlay(Defaults, spec.config))
<1>1. spec.config \in Configs
  BY DEF DatabaseClusterSpec
<1>2. IsFiniteSet(DOMAIN spec.config) /\ IsFiniteSet(DOMAIN Defaults)
  BY <1>1, SettingsAssumption
<1>3. DOMAIN Overlay(Defaults, spec.config) = DOMAIN spec.config \cup DOMAIN Defaults
  BY OverlayIs
<1>4. IsFiniteSet(DOMAIN spec.config \cup DOMAIN Defaults)
  BY <1>2, FS_Union
<1> QED
  BY <1>3, <1>4

\* The ConfigMap has one line for each setting, of the user's value where there
\* is one and of the default otherwise, in any order of the map's iteration.
\* (resources.go:269-288)
THEOREM ConfigMapIsComplete ==
  \A spec \in DatabaseClusterSpec : \A file \in buildConfigMap(spec) : IsFileFor(file, spec.config)
<1> SUFFICES ASSUME NEW spec \in DatabaseClusterSpec, NEW file \in buildConfigMap(spec)
             PROVE  IsFileFor(file, spec.config)
  OBVIOUS
<1> DEFINE settings == Overlay(Defaults, spec.config)
<1>1. /\ DOMAIN settings = DOMAIN spec.config \cup DOMAIN Defaults
      /\ \A k \in DOMAIN spec.config : settings[k] = spec.config[k]
      /\ \A k \in DOMAIN Defaults \ DOMAIN spec.config : settings[k] = Defaults[k]
  BY OverlayIs
<1>2. IsFiniteSet(DOMAIN settings) /\ file \in Renderings(settings)
  BY SettingsFinite DEF buildConfigMap
<1> HIDE DEF settings
<1>3. /\ Len(file) = Cardinality(DOMAIN settings)
      /\ Lines(file) = { <<k, settings[k]>> : k \in DOMAIN settings }
  BY <1>2, RenderingIs
<1> QED
  BY <1>1, <1>3 DEF IsFileFor

\* Two ConfigMaps of one spec differ in the order of their lines at most: so
\* much of "Same spec, same ConfigMap, always" (resources.go:250) is true.
THEOREM SameSpecSameLines ==
  \A spec \in DatabaseClusterSpec :
    \A one, other \in buildConfigMap(spec) : Lines(one) = Lines(other) /\ Len(one) = Len(other)
BY SettingsFinite, RenderingIs DEF buildConfigMap
=============================================================================
