----------------------- MODULE ConsumerTrackingProofs -----------------------
(***************************************************************************)
(* Proofs about ConsumerTracking, for any names, paths, workloads, Pods    *)
(* and number of slots.                                                    *)
(***************************************************************************)
EXTENDS ConsumerTracking, SequenceTheorems, WellFoundedInduction, TLAPS

\* The objects are functions of their identities: all an event needs to leave the
\* other objects alone.
ObjectsOK ==
  /\ templates = [w \in Workloads |-> templates[w]]
  /\ pods = [p \in Pods |-> pods[p]]

\* Every event keeps them so.
LEMMA ObjectsInvariant == Spec => []ObjectsOK
  <1>1. Init => ObjectsOK
    BY DEF Init, ObjectsOK
  <1>2. ObjectsOK /\ [Next]_vars => ObjectsOK'
    BY DEF ObjectsOK, Next, vars, ChangeWorkload, CreatePod, DeletePod,
           AddEphemeralContainer, ChangeOwner, ChangePod
  <1> QED
    BY <1>1, <1>2, PTL DEF Spec

\* The positions of a list of references are those of two different references.
LEMMA DedupeDistinct ==
  ASSUME NEW slots, NEW i \in 1..MaxSlots, NEW j \in 1..MaxSlots, i # j,
         i \in referencesForObject(slots), j \in referencesForObject(slots)
  PROVE  slots[i] # slots[j]
  <1>1. i < j \/ j < i
    OBVIOUS
  <1> QED
    BY <1>1 DEF referencesForObject, dedupeReferences

\* No reference is ever counted twice, and the order of the recorded list is always
\* determined.
THEOREM NeverCountedTwice == Spec => []NoDoubleCount
  <1>1. NoDoubleCount
    <2> SUFFICES ASSUME NEW s \in Names, NEW a \in collectUsages(s), NEW b \in collectUsages(s),
                        a # b, entry(a) = entry(b)
                 PROVE  FALSE
      BY DEF NoDoubleCount
    <2>1. /\ a = <<a[1], a[2]>> /\ b = <<b[1], b[2]>>
          /\ a[2] \in 1..MaxSlots /\ b[2] \in 1..MaxSlots
          /\ a[2] \in referencesForObject(slotsOf(a[1]))
          /\ b[2] \in referencesForObject(slotsOf(b[1]))
      BY DEF collectUsages, usageReferencesForObject
    <2>2. a[1] = b[1] /\ slotsOf(a[1])[a[2]] = slotsOf(b[1])[b[2]]
      BY DEF entry
    <2>3. a[2] # b[2]
      BY <2>1, <2>2
    <2> QED
      BY <2>1, <2>2, <2>3, DedupeDistinct
  <1> QED
    BY <1>1, PTL

\* When only object o changes, and it holds no reference to s before or after,
\* the references to s stay as they are.
LEMMA OtherObjectsStay ==
  ASSUME NEW s \in Names, NEW o \in Workloads \cup Pods,
         \A x \in Workloads : x # o => templates'[x] = templates[x],
         \A x \in Pods : x # o => pods'[x] = pods[x],
         \A ref \in collectUsages(s) : ref[1] # o,
         \A ref \in collectUsages(s)' : ref[1] # o
  PROVE  entries(s)' = entries(s)
  <1>1. ASSUME NEW x \in Workloads \cup Pods, x # o
        PROVE  collected(x)' = collected(x) /\ slotsOf(x)' = slotsOf(x)
    BY <1>1 DEF collected, slotsOf, skipPod
  <1>2. collectUsages(s)' = collectUsages(s)
    <2>1. ASSUME NEW ref \in (Workloads \cup Pods) \X (1..MaxSlots), ref[1] # o
          PROVE  ref \in collectUsages(s)' <=> ref \in collectUsages(s)
      BY <1>1, <2>1 DEF collectUsages
    <2>2. ASSUME NEW ref PROVE ref \in collectUsages(s)' <=> ref \in collectUsages(s)
      <3>1. ref \in collectUsages(s)' \/ ref \in collectUsages(s) =>
              ref \in (Workloads \cup Pods) \X (1..MaxSlots) /\ ref[1] # o
        BY DEF collectUsages
      <3> QED
        BY <2>1, <3>1
    <2> QED
      BY <2>2
  <1>3. \A ref \in collectUsages(s) : entry(ref)' = entry(ref)
    <2> SUFFICES ASSUME NEW ref \in collectUsages(s) PROVE entry(ref)' = entry(ref)
      OBVIOUS
    <2>1. ref[1] \in Workloads \cup Pods /\ ref[1] # o
      BY DEF collectUsages
    <2> QED
      BY <1>1, <2>1 DEF entry
  <1> QED
    BY <1>2, <1>3 DEF entries

\* Whatever an event changes in the references of a Secret, the handlers add the
\* Secret's key: a reconcile always follows.
THEOREM EveryChangeEnqueued == Spec => EnqueueCoversChange
  <1>1. ASSUME ObjectsOK, NEW w \in Workloads, NEW new, ChangeWorkload(w, new),
               NEW s \in Names, s \notin enqueued'
        PROVE  entries(s)' = entries(s)
    <2>1. /\ templates' = [templates EXCEPT ![w] = new] /\ pods' = pods
          /\ s \notin enqueueTemplate(templates[w]) /\ s \notin enqueueTemplate(new)
      BY <1>1 DEF ChangeWorkload
    <2>2. templates'[w] = new /\ \A x \in Workloads : x # w => templates'[x] = templates[x]
      BY <1>1, <2>1 DEF ObjectsOK
    <2>3. \A ref \in collectUsages(s) : ref[1] # w
      BY <2>1, ConsumerTrackingAssumption DEF collectUsages, collected, slotsOf, enqueueTemplate
    <2>4. \A ref \in collectUsages(s)' : ref[1] # w
      BY <2>1, <2>2, ConsumerTrackingAssumption
         DEF collectUsages, collected, slotsOf, enqueueTemplate
    <2> QED
      BY <2>1, <2>2, <2>3, <2>4, OtherObjectsStay
  <1>2. ASSUME ObjectsOK, NEW p \in Pods, NEW new, ChangePod(p, new),
               NEW s \in Names, s \notin enqueued'
        PROVE  entries(s)' = entries(s)
    <2>1. /\ pods' = [pods EXCEPT ![p] = new] /\ templates' = templates
          /\ s \notin enqueuePod(pods[p]) /\ s \notin enqueuePod(new)
      BY <1>2 DEF ChangePod, enqueuePodEvent
    <2>2. pods'[p] = new /\ \A x \in Pods : x # p => pods'[x] = pods[x]
      BY <1>2, <2>1 DEF ObjectsOK
    <2>3. \A ref \in collectUsages(s) : ref[1] # p
      BY <2>1, ConsumerTrackingAssumption DEF collectUsages, collected, slotsOf, enqueuePod
    <2>4. \A ref \in collectUsages(s)' : ref[1] # p
      BY <2>1, <2>2, ConsumerTrackingAssumption
         DEF collectUsages, collected, slotsOf, enqueuePod, skipPod
    <2> QED
      BY <2>1, <2>2, <2>3, <2>4, OtherObjectsStay
  <1>3. ASSUME ObjectsOK, [Next]_vars, NEW s \in Names, entries(s)' # entries(s)
        PROVE  s \in enqueued'
    <2>1. CASE UNCHANGED vars
      BY <1>3, <2>1 DEF vars, entries, entry, collectUsages, collected, slotsOf, skipPod
    <2>2. CASE \E w \in Workloads : \E new : ChangeWorkload(w, new)
      BY <1>1, <1>3, <2>2
    <2>3. CASE \E p \in Pods : \E new : ChangePod(p, new)
      BY <1>2, <1>3, <2>3
    <2>4. \/ UNCHANGED vars
          \/ \E w \in Workloads : \E new : ChangeWorkload(w, new)
          \/ \E p \in Pods : \E new : ChangePod(p, new)
      BY <1>3 DEF Next, CreatePod, DeletePod, AddEphemeralContainer, ChangeOwner
    <2> QED
      BY <2>1, <2>2, <2>3, <2>4
  <1>4. ObjectsOK /\ [Next]_vars =>
          [\A s \in Names : entries(s)' # entries(s) => s \in enqueued']_vars
    BY <1>3
  <1> QED
    BY <1>4, ObjectsInvariant, PTL DEF Spec, EnqueueCoversChange

\* A set of positions has a first one.
LEMMA FirstPosition ==
  ASSUME NEW T \in SUBSET Nat, T # {}
  PROVE  \E i \in T : \A j \in T : ~(j < i)
  <1>1. \E i \in T : \A j \in T : <<j, i>> \notin OpToRel(<, Nat)
    BY NatLessThanWellFounded, WFMin
  <1> QED
    BY <1>1 DEF OpToRel

\* Deduplication loses nothing: some reference that is kept equals the one at i.
LEMMA DedupeKeepsOne ==
  ASSUME NEW n \in Nat, NEW slots, DOMAIN slots = 1..n,
         NEW i \in 1..n, slots[i].name # Empty
  PROVE  \E j \in referencesForObject(slots) : slots[j] = slots[i]
  <1> DEFINE equals == {j \in 1..n : slots[j] = slots[i]}
  <1>1. equals \in SUBSET Nat /\ i \in equals
    OBVIOUS
  <1>2. PICK j \in equals : \A k \in equals : ~(k < j)
    BY <1>1, FirstPosition
  <1>3. slots[j] = slots[i] /\ j \in appendReference(slots)
    BY <1>2 DEF appendReference
  <1>4. \A k \in appendReference(slots) : k < j => slots[k] # slots[j]
    BY <1>2, <1>3 DEF appendReference
  <1> QED
    BY <1>3, <1>4 DEF referencesForObject, dedupeReferences

\* A list of slots, and an ephemeral container at its end.
LEMMA SlotListsType ==
  ASSUME NEW slots \in SlotLists
  PROVE  /\ SecretNamesForObject(slots) \in SUBSET Names
         /\ \E n \in 0..MaxSlots : DOMAIN slots = 1..n /\ slots \in [1..n -> Slots]
         /\ \A slot \in Slots : Len(slots) < MaxSlots => Append(slots, slot) \in SlotLists
  <1>1. PICK n \in 0..MaxSlots : slots \in [1..n -> Slots]
    BY DEF SlotLists
  <1>2. SecretNamesForObject(slots) \in SUBSET Names
    BY <1>1 DEF SecretNamesForObject, referencesForObject, dedupeReferences,
                appendReference, Slots
  <1>3. ASSUME NEW slot \in Slots, Len(slots) < MaxSlots
        PROVE  Append(slots, slot) \in SlotLists
    <2>1. n \in Nat /\ slots \in Seq(Slots) /\ Len(slots) = n
      BY <1>1, ConsumerTrackingAssumption, SeqDef
    <2>2. Append(slots, slot) \in [1..(n + 1) -> Slots]
      BY <2>1, AppendProperties, LenProperties, ElementOfSeq
    <2>3. n + 1 \in 0..MaxSlots
      BY <1>3, <2>1, ConsumerTrackingAssumption
    <2> QED
      BY <2>2, <2>3 DEF SlotLists
  <1> QED
    BY <1>1, <1>2, <1>3

\* The state is well-formed: whatever is added to the queue is a name of a Secret.
THEOREM TrackingTypeCorrect == Spec => []TypeOK
  <1>1. Init => TypeOK
    BY DEF Init, TypeOK
  <1>2. ASSUME TypeOK, NEW w \in Workloads, NEW new \in SlotLists \cup {Absent},
               ChangeWorkload(w, new)
        PROVE  TypeOK'
    <2>1. templates[w] \in SlotLists \cup {Absent}
      BY <1>2 DEF TypeOK
    <2>2. enqueueTemplate(templates[w]) \in SUBSET Names /\ enqueueTemplate(new) \in SUBSET Names
      BY <2>1, SlotListsType DEF enqueueTemplate
    <2> QED
      BY <1>2, <2>2 DEF ChangeWorkload, TypeOK
  <1>3. ASSUME TypeOK, NEW p \in Pods, NEW new \in PodStates \cup {Absent}, ChangePod(p, new)
        PROVE  TypeOK'
    <2>1. ASSUME NEW pod \in PodStates \cup {Absent} PROVE enqueuePod(pod) \in SUBSET Names
      <3>1. pod # Absent => pod.slots \in SlotLists
        BY <2>1 DEF PodStates
      <3> QED
        BY <3>1, SlotListsType DEF enqueuePod
    <2>2. pods[p] \in PodStates \cup {Absent}
      BY <1>3 DEF TypeOK
    <2> QED
      BY <1>3, <2>1, <2>2 DEF ChangePod, enqueuePodEvent, TypeOK
  <1>4. ASSUME TypeOK, NEW p \in Pods, NEW slot \in Slots, AddEphemeralContainer(p, slot)
        PROVE  TypeOK'
    <2>1. pods[p] \in PodStates /\ Len(pods[p].slots) < MaxSlots
      BY <1>4 DEF AddEphemeralContainer, TypeOK
    <2>2. Append(pods[p].slots, slot) \in SlotLists
      BY <2>1, SlotListsType DEF PodStates
    <2>3. [pods[p] EXCEPT !.slots = Append(@, slot)] \in PodStates
      BY <2>1, <2>2 DEF PodStates
    <2> QED
      BY <1>3, <1>4, <2>3 DEF AddEphemeralContainer
  <1>5. ASSUME TypeOK, NEW p \in Pods, NEW owner \in Workloads \cup {Foreign, Nobody},
               NEW controls \in BOOLEAN, ChangeOwner(p, owner, controls)
        PROVE  TypeOK'
    <2>1. pods[p] \in PodStates
      BY <1>5 DEF ChangeOwner, TypeOK
    <2>2. [pods[p] EXCEPT !.owner = owner, !.controls = controls] \in PodStates
      BY <2>1 DEF PodStates
    <2> QED
      BY <1>3, <1>5, <2>2 DEF ChangeOwner
  <1>6. TypeOK /\ [Next]_vars => TypeOK'
    <2> SUFFICES ASSUME TypeOK, [Next]_vars PROVE TypeOK'
      OBVIOUS
    <2>1. CASE UNCHANGED vars
      BY <2>1 DEF vars, TypeOK
    <2>2. ASSUME NEW p \in Pods, NEW new \in PodStates, CreatePod(p, new) PROVE TypeOK'
      BY <1>3, <2>2 DEF CreatePod
    <2>3. ASSUME NEW p \in Pods, DeletePod(p) PROVE TypeOK'
      BY <1>3, <2>3 DEF DeletePod
    <2> QED
      BY <1>2, <1>4, <1>5, <2>1, <2>2, <2>3 DEF Next
  <1> QED
    BY <1>1, <1>6, PTL DEF Spec

\* Every named slot of an object the collectors look at has a recorded reference
\* that says the same.
LEMMA CollectedRecorded ==
  ASSUME NEW o \in Workloads \cup Pods, collected(o), slotsOf(o) \in SlotLists,
         NEW i \in DOMAIN slotsOf(o), slotsOf(o)[i].name # Empty
  PROVE  /\ slotsOf(o)[i].name \in Names
         /\ <<o, slotsOf(o)[i]>> \in entries(slotsOf(o)[i].name)
  <1> DEFINE slots == slotsOf(o)
             s == slots[i].name
  <1>1. PICK n \in 0..MaxSlots : DOMAIN slots = 1..n /\ slots \in [1..n -> Slots]
    BY SlotListsType
  <1>2. n \in Nat /\ i \in 1..n
    BY <1>1, ConsumerTrackingAssumption
  <1>3. PICK j \in referencesForObject(slots) : slots[j] = slots[i]
    <2> HIDE DEF slots
    <2> QED
      BY <1>1, <1>2, DedupeKeepsOne DEF slots
  <1>4. j \in 1..MaxSlots
    BY <1>1, <1>3, ConsumerTrackingAssumption
       DEF referencesForObject, dedupeReferences, appendReference
  <1>5. j \in usageReferencesForObject(slots, s) /\ s \in SecretNamesForObject(slots)
    BY <1>3 DEF usageReferencesForObject, SecretNamesForObject
  <1>6. <<o, j>> \in collectUsages(s)
    BY <1>4, <1>5 DEF collectUsages
  <1>7. entry(<<o, j>>) = <<o, slots[i]>>
    BY <1>3 DEF entry
  <1>8. s \in Names
    BY <1>1, <1>2 DEF Slots
  <1> QED
    BY <1>6, <1>7, <1>8 DEF entries

\* A Pod that no tracked workload controls is always recorded, whether owned Pods
\* are skipped or not.
THEOREM UncontrolledAlwaysRecorded == Spec => []UncontrolledRecorded
  <1>1. TypeOK => UncontrolledRecorded
    <2> SUFFICES ASSUME TypeOK, NEW p \in Pods, pods[p] # Absent,
                        ~(pods[p].controls /\ pods[p].owner \in Workloads),
                        NEW i \in DOMAIN pods[p].slots, pods[p].slots[i].name # Empty
                 PROVE  <<p, pods[p].slots[i]>> \in entries(pods[p].slots[i].name)
      BY DEF UncontrolledRecorded
    <2>1. slotsOf(p) = pods[p].slots /\ slotsOf(p) \in SlotLists
      BY DEF slotsOf, TypeOK, PodStates
    <2>2. collected(p)
      BY DEF collected, skipPod, PodIsCoveredByController
    <2> QED
      BY <2>1, <2>2, CollectedRecorded
  <1> QED
    BY <1>1, TrackingTypeCorrect, PTL

\* With --track-owned-pods every Secret a Pod names has a recorded reference.
THEOREM NothingLostWhenTracked == Spec => [](TrackOwnedPods => NothingLost)
  <1>1. TypeOK => (TrackOwnedPods => NothingLost)
    <2> SUFFICES ASSUME TrackOwnedPods, TypeOK, NEW p \in Pods, pods[p] # Absent,
                        NEW s \in SecretNamesForObject(pods[p].slots)
                 PROVE  collectUsages(s) # {}
      BY DEF NothingLost
    <2>1. slotsOf(p) = pods[p].slots /\ slotsOf(p) \in SlotLists
      BY DEF slotsOf, TypeOK, PodStates
    <2>2. collected(p)
      BY DEF collected, skipPod
    <2>3. PICK i \in referencesForObject(pods[p].slots) : s = pods[p].slots[i].name
      BY DEF SecretNamesForObject
    <2>4. i \in DOMAIN pods[p].slots /\ s # Empty
      BY <2>3 DEF referencesForObject, dedupeReferences, appendReference
    <2>5. <<p, pods[p].slots[i]>> \in entries(s)
      BY <2>1, <2>2, <2>3, <2>4, CollectedRecorded
    <2> QED
      BY <2>5 DEF entries
  <1> QED
    BY <1>1, TrackingTypeCorrect, PTL
=============================================================================
