------------------------- MODULE SpawnAdmissionProofs -------------------------
(***************************************************************************)
(* The daily cap is exceeded by less than the number of processes, for     *)
(* every number of users, processes and days and every cap.                *)
(***************************************************************************)
EXTENDS SpawnAdmission, FiniteSetTheorems, TLAPS

USE AdmissionAssumption

\* The types hold initially and every step keeps them.
LEMMA TypeInit == AdmissionInit => AdmissionTypeOK
  BY DEF AdmissionInit, AdmissionTypeOK, Day

LEMMA TypeStep == AdmissionTypeOK /\ [AdmissionNext]_admissionVars => AdmissionTypeOK'
<1> SUFFICES ASSUME AdmissionTypeOK, [AdmissionNext]_admissionVars PROVE AdmissionTypeOK'
  OBVIOUS
<1> USE DEF AdmissionTypeOK, Day
<1>1. ASSUME NEW w \in Creator, NEW u \in User, Count(w, u) PROVE AdmissionTypeOK'
  BY <1>1 DEF Count
<1>2. ASSUME NEW w \in Creator, Stamp(w) PROVE AdmissionTypeOK'
  BY <1>2 DEF Stamp
<1>3. ASSUME NEW w \in Creator, Insert(w) PROVE AdmissionTypeOK'
  <2>1. who[w] \in User /\ on[w] \in Day
    BY <1>3 DEF Insert
  <2>2. created' \in [User -> [Day -> Nat]]
    BY <1>3, <2>1 DEF Insert
  <2> QED
    BY <1>3, <2>2 DEF Insert
<1>4. ASSUME NEW w \in Creator, Die(w) PROVE AdmissionTypeOK'
  BY <1>4 DEF Die
<1>5. CASE Midnight
  BY <1>5 DEF Midnight
<1>6. CASE UNCHANGED admissionVars
  BY <1>6 DEF admissionVars
<1> QED
  BY <1>1, <1>2, <1>3, <1>4, <1>5, <1>6 DEF AdmissionNext

\* The processes are finitely many, and so are those heading anywhere.
LEMMA HeadingFinite ==
    ASSUME NEW u, NEW d
    PROVE  /\ Cardinality(Creator) \in Nat \ {0}
           /\ IsFiniteSet(Heading(u, d))
           /\ Cardinality(Heading(u, d)) \in Nat
           /\ Cardinality(Heading(u, d)) <= Cardinality(Creator)
<1>1. Heading(u, d) \in SUBSET Creator
  BY DEF Heading
<1> QED
  BY <1>1, FS_Subset, FS_CardinalityType, FS_EmptySet

\* A set of processes that no one joins does not grow.
LEMMA HeadingShrinks ==
    ASSUME NEW u, NEW d, Heading(u, d)' \subseteq Heading(u, d)
    PROVE  /\ Cardinality(Heading(u, d)') \in Nat
           /\ Cardinality(Heading(u, d)') <= Cardinality(Heading(u, d))
<1>1. Heading(u, d)' \in SUBSET Heading(u, d)
  OBVIOUS
<1>2. IsFiniteSet(Heading(u, d))
  BY HeadingFinite
<1> QED
  BY <1>1, <1>2, FS_Subset, FS_CardinalityType

\* Counting what is on its way, the bound holds initially.
LEMMA AdmissionInvInit == AdmissionInit => AdmissionInv
<1> SUFFICES ASSUME AdmissionInit PROVE AdmissionInv
  OBVIOUS
<1>1. AdmissionTypeOK
  BY TypeInit
<1>2. ASSUME NEW u \in User, NEW d \in Day
      PROVE  created[u][d] + Cardinality(Heading(u, d)) <= Cap + Cardinality(Creator) - 1
  <2>1. Heading(u, d) = {}
    BY DEF AdmissionInit, Heading
  <2>2. Cardinality(Heading(u, d)) = 0
    BY <2>1, FS_EmptySet
  <2>3. created[u][d] = 0
    BY DEF AdmissionInit
  <2> QED
    BY <2>2, <2>3, HeadingFinite
<1> QED
  BY <1>1, <1>2 DEF AdmissionInit, AdmissionInv

\* Every step keeps the bound: a process joins only while the user is below the
\* cap, when all the others together are too few to exceed the bound, and an
\* insert counts one process less on its way.
LEMMA BoundStep ==
    ASSUME AdmissionInv, [AdmissionNext]_admissionVars, NEW u \in User, NEW d \in Day
    PROVE  (created[u][d] + Cardinality(Heading(u, d)) <= Cap + Cardinality(Creator) - 1)'
<1>1. /\ created[u][d] \in Nat
      /\ created[u][d] + Cardinality(Heading(u, d)) <= Cap + Cardinality(Creator) - 1
      /\ d > day => created[u][d] = 0
      /\ day \in Day
  BY DEF AdmissionInv, AdmissionTypeOK
<1>2. /\ Cardinality(Creator) \in Nat \ {0}
      /\ IsFiniteSet(Heading(u, d))
      /\ Cardinality(Heading(u, d)) \in Nat
  BY HeadingFinite
<1>3. /\ Cardinality(Heading(u, d)') \in Nat
      /\ Cardinality(Heading(u, d)') <= Cardinality(Creator)
  <2>1. Heading(u, d)' \in SUBSET Creator
    BY DEF Heading
  <2> QED
    BY <2>1, FS_Subset, FS_CardinalityType
<1>4. ASSUME Heading(u, d)' \subseteq Heading(u, d), created'[u][d] = created[u][d]
      PROVE  (created[u][d] + Cardinality(Heading(u, d)) <= Cap + Cardinality(Creator) - 1)'
  BY <1>1, <1>2, <1>4, HeadingShrinks
<1>5. ASSUME NEW w \in Creator, NEW v \in User, Count(w, v)
      PROVE  (created[u][d] + Cardinality(Heading(u, d)) <= Cap + Cardinality(Creator) - 1)'
  <2>1. CASE u = v /\ d = day
    <3>1. created'[u][d] = created[u][d] /\ created[u][d] < Cap
      BY <1>5, <2>1 DEF Count, Used
    <3> QED
      BY <1>1, <1>2, <1>3, <3>1
  <2>2. CASE ~(u = v /\ d = day)
    <3>1. Heading(u, d)' \subseteq Heading(u, d)
      BY <1>5, <2>2 DEF Count, Heading, AdmissionInv, AdmissionTypeOK
    <3> QED
      BY <1>4, <1>5, <3>1 DEF Count
  <2> QED
    BY <2>1, <2>2
<1>6. ASSUME NEW w \in Creator, Stamp(w)
      PROVE  (created[u][d] + Cardinality(Heading(u, d)) <= Cap + Cardinality(Creator) - 1)'
  <2>1. Heading(u, d)' \subseteq Heading(u, d)
    BY <1>6 DEF Stamp, Heading, AdmissionInv, AdmissionTypeOK
  <2> QED
    BY <1>4, <1>6, <2>1 DEF Stamp
<1>7. ASSUME NEW w \in Creator, Insert(w)
      PROVE  (created[u][d] + Cardinality(Heading(u, d)) <= Cap + Cardinality(Creator) - 1)'
  <2>1. who[w] \in User /\ on[w] \in Day
    BY <1>7 DEF Insert, AdmissionInv, AdmissionTypeOK, Day
  <2>2. CASE u = who[w] /\ d = on[w]
    <3>1. created'[u][d] = created[u][d] + 1
      BY <1>7, <2>1, <2>2 DEF Insert, AdmissionInv, AdmissionTypeOK
    <3>2. w \in Heading(u, d)
      BY <1>7, <2>2 DEF Insert, Heading
    <3>3. Heading(u, d)' = Heading(u, d) \ {w}
      BY <1>7, <2>2 DEF Insert, Heading, AdmissionInv, AdmissionTypeOK
    <3>4. Cardinality(Heading(u, d)') = Cardinality(Heading(u, d)) - 1
      <4> QED
        BY <1>2, <3>2, <3>3, FS_RemoveElement
    <3> QED
      BY <1>1, <1>2, <3>1, <3>4
  <2>3. CASE ~(u = who[w] /\ d = on[w])
    <3>1. Heading(u, d)' \subseteq Heading(u, d)
      BY <1>7 DEF Insert, Heading, AdmissionInv, AdmissionTypeOK
    <3>2. created'[u][d] = created[u][d]
      BY <1>7, <2>1, <2>3 DEF Insert, AdmissionInv, AdmissionTypeOK
    <3> QED
      BY <1>4, <3>1, <3>2
  <2> QED
    BY <2>2, <2>3
<1>8. ASSUME NEW w \in Creator, Die(w)
      PROVE  (created[u][d] + Cardinality(Heading(u, d)) <= Cap + Cardinality(Creator) - 1)'
  <2>1. Heading(u, d)' \subseteq Heading(u, d)
    BY <1>8 DEF Die, Heading, AdmissionInv, AdmissionTypeOK
  <2> QED
    BY <1>4, <1>8, <2>1 DEF Die
<1>9. CASE Midnight
  <2>1. created'[u][d] = created[u][d] /\ day' = day + 1
    BY <1>9 DEF Midnight
  <2>2. CASE d # day + 1
    <3>1. Heading(u, d)' \subseteq Heading(u, d)
      BY <1>9, <2>1, <2>2 DEF Midnight, Heading
    <3> QED
      BY <1>4, <2>1, <3>1
  <2>3. CASE d = day + 1
    <3>1. created'[u][d] = 0
      BY <1>1, <2>1, <2>3 DEF Day
    <3>2. CASE Cap > 0
      BY <1>2, <1>3, <3>1, <3>2
    <3>3. CASE Cap = 0
      <4>1. Heading(u, d)' = {}
        BY <1>9, <3>3 DEF Midnight, Heading, AdmissionInv
      <4>2. Cardinality(Heading(u, d)') = 0
        BY <4>1, FS_EmptySet
      <4> QED
        BY <1>2, <3>1, <3>3, <4>2
    <3> QED
      BY <3>2, <3>3
  <2> QED
    BY <2>2, <2>3
<1>10. CASE UNCHANGED admissionVars
  <2>1. Heading(u, d)' \subseteq Heading(u, d) /\ created' = created
    BY <1>10 DEF admissionVars, Heading
  <2> QED
    BY <1>4, <2>1
<1> QED
  BY <1>5, <1>6, <1>7, <1>8, <1>9, <1>10 DEF AdmissionNext

\* The days to come are empty.
LEMMA FutureStep ==
    ASSUME AdmissionInv, [AdmissionNext]_admissionVars, NEW u \in User, NEW d \in Day
    PROVE  (d > day => created[u][d] = 0)'
<1> USE DEF AdmissionInv, AdmissionTypeOK, Day
<1>1. ASSUME NEW w \in Creator, Insert(w) PROVE (d > day => created[u][d] = 0)'
  <2>1. who[w] \in User /\ on[w] \in 1 .. day
    BY <1>1 DEF Insert
  <2> QED
    BY <1>1, <2>1 DEF Insert
<1>2. ASSUME NEW w \in Creator, NEW v \in User, Count(w, v)
      PROVE  (d > day => created[u][d] = 0)'
  BY <1>2 DEF Count
<1>3. ASSUME NEW w \in Creator, Stamp(w) \/ Die(w) PROVE (d > day => created[u][d] = 0)'
  BY <1>3 DEF Stamp, Die
<1>4. CASE Midnight
  BY <1>4 DEF Midnight
<1>5. CASE UNCHANGED admissionVars
  BY <1>5 DEF admissionVars
<1> QED
  BY <1>1, <1>2, <1>3, <1>4, <1>5 DEF AdmissionNext

\* Who passed the cap shows that there is one to pass.
LEMMA CapStep ==
    ASSUME AdmissionInv, [AdmissionNext]_admissionVars, NEW x \in Creator
    PROVE  (pc[x] # "idle" => Cap > 0)'
<1> USE DEF AdmissionInv, AdmissionTypeOK
<1>1. ASSUME NEW w \in Creator, NEW v \in User, Count(w, v)
      PROVE  (pc[x] # "idle" => Cap > 0)'
  <2>1. created[v][day] \in Nat /\ created[v][day] < Cap
    BY <1>1 DEF Count, Used
  <2> QED
    BY <1>1, <2>1 DEF Count
<1>2. ASSUME NEW w \in Creator, Stamp(w) \/ Insert(w) \/ Die(w)
      PROVE  (pc[x] # "idle" => Cap > 0)'
  BY <1>2 DEF Stamp, Insert, Die
<1>3. CASE Midnight \/ UNCHANGED admissionVars
  BY <1>3 DEF Midnight, admissionVars
<1> QED
  BY <1>1, <1>2, <1>3 DEF AdmissionNext

LEMMA AdmissionInvStep == AdmissionInv /\ [AdmissionNext]_admissionVars => AdmissionInv'
<1> SUFFICES ASSUME AdmissionInv, [AdmissionNext]_admissionVars PROVE AdmissionInv'
  OBVIOUS
<1>1. AdmissionTypeOK'
  BY TypeStep DEF AdmissionInv
<1>2. \A u \in User, d \in Day :
         (created[u][d] + Cardinality(Heading(u, d)) <= Cap + Cardinality(Creator) - 1)'
  BY BoundStep
<1>3. \A u \in User, d \in Day : (d > day => created[u][d] = 0)'
  BY FutureStep
<1>4. \A w \in Creator : (pc[w] # "idle" => Cap > 0)'
  BY CapStep
<1> QED
  BY <1>1, <1>2, <1>3, <1>4 DEF AdmissionInv

\* Every reachable state has the right types.
THEOREM AdmissionTypes == AdmissionSpec => []AdmissionTypeOK
  BY TypeInit, TypeStep, PTL DEF AdmissionSpec

\* No user gets as many tasks a day as the cap and the processes together.
THEOREM AdmissionBound == AdmissionSpec => []DailyCapBound
<1>1. AdmissionInv => DailyCapBound
  <2> SUFFICES ASSUME AdmissionInv, NEW u \in User, NEW d \in Day
               PROVE  created[u][d] <= Cap + Cardinality(Creator) - 1
    BY DEF DailyCapBound
  <2> QED
    BY HeadingFinite DEF AdmissionInv, AdmissionTypeOK
<1> QED
  BY <1>1, AdmissionInvInit, AdmissionInvStep, PTL DEF AdmissionSpec

=============================================================================
